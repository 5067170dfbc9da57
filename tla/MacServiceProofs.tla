-------------------------- MODULE MacServiceProofs --------------------------
(* Proofs about MacService for any set of networks, any number of attempts and any       *)
(* bounds. *)
EXTENDS MacService, EngineProofs, FiniteSetTheorems

-----------------------------------------------------------------------------
(* The inductive invariant. *)

\* The news of a generation's end.
Endings ==
  [kind : {"ConnectorExited"}, gen : Nat, code : {0, 1}]
    \union [kind : {"ConnectorError", "ConnectTimedOut"}, gen : Nat]
EndsOf(g) == {e \in Endings : e.gen = g}
MacEvents == [kind : {"ConnectorConnected"}, gen : Nat] \union Endings \union {Elapsed}
\* What can be told so far.
EventsSoFar == {e \in MacEvents : e # Elapsed => e.gen \in Started}

Effects == {a \in EngineActions : HasEffect(a)}

Early == {"spawned", "connecting", "established"}
Live == Early \union {"stopping", "deadline"}
\* A session's task that has not told its end.
Held(g) == task[g] \in Live

Commands == {"status", "stop", "repair", "ok", "failed"}
Reconciliations == {NotReconciling} \union [step : Commands, left : 1 .. Attempts]
Starts == {NotStarting} \union [gen : Generations, pc : {"reconciling", "unblocking"}]

QueuesTyped == queue \in Seq(Effects) /\ events \in Seq(EventsSoFar)

MacTyped ==
  /\ helper \in {"stopped", "running", "repair"} /\ owner \in Generations \union {0}
  /\ task \in [Generations -> {"none", "spawned", "connecting", "established", "stopping",
                               "deadline", "abandoned"}]
  /\ child \in [Generations -> {"none", "run", "term", "status", "repair", "recheck"}
                               \union ChildResults]
  /\ faulty \subseteq Generations /\ sessions \subseteq Generations
  /\ cancelled \subseteq Generations /\ taken \subseteq Generations
  /\ starting \in Starts
  /\ reconcile \in [{"main", "exec"} -> Reconciliations]
  /\ starting = NotStarting <=> reconcile["exec"] = NotReconciling
  /\ timer \in {"none", "armed"} /\ looseTimers \in 0 .. MaxLooseTimers
  /\ preference \in BOOLEAN
  /\ proc \in {"starting", "serving", "draining", "joining", "repairing", "stopped", "failed"}

\* A session in the map has not told its end, and one that has not is in the map or was
\* taken from it by the shutdown.
SessionsHeld ==
  /\ \A g \in sessions : Held(g)
  /\ \A g \in Generations : Held(g) => g \in sessions \union taken
  /\ proc \notin {"joining", "repairing"} => taken = {}

\* What was ordered, is being started or runs is all of the active generation.
OnlyActive ==
  /\ \A g \in Nat : In(queue, {Start(g)}) => g = active /\ g # NoGeneration
  /\ starting # NotStarting => starting.gen = active
  /\ \A g \in Generations : Held(g) => g = active

\* What is still to be started has had no task.
FreshTasks ==
  /\ \A g \in Generations : task[g] # "none" => g \in Started
  /\ In(queue, {Start(active)}) \/ starting # NotStarting => task[active] = "none"

\* And there is one of them, or the news of its end.
OneTrace ==
  active # NoGeneration =>
    LET ordered == In(queue, {Start(active)})
        begun == starting # NotStarting
        held == Held(active)
        announced == In(events, EndsOf(active))
    IN /\ ordered \/ begun \/ held \/ announced
       /\ ~(ordered /\ (begun \/ held \/ announced))
       /\ ~(begun /\ (held \/ announced))
       /\ ~(held /\ announced)
       /\ AtMostOne(queue, {Start(active)})

\* A start still ordered has the order to stop behind it, one under way has it in the
\* queue, a session has the signal or the order.
StopFollows ==
  stopRequested =>
    /\ Followed(queue, {Start(active)}, {Stop(active)})
    /\ starting # NotStarting => In(queue, {Stop(active)})
    /\ active \in sessions /\ task[active] \in Early
         => active \in cancelled \/ In(queue, {Stop(active)})

\* Whoever is at work on the helper for a session has its task.
ChildrenHaveTasks ==
  \A g \in Generations : Busy(g) => task[g] \in (Live \ {"spawned"}) \union {"abandoned"}

\* A child holds only what runs; and from the end of the reconciliation to the launch the
\* helper is stopped.
HelperReady ==
  /\ owner # 0 => helper = "running"
  /\ (reconcile["exec"].step = "ok" \/ \E g \in Generations : task[g] = "spawned")
       => helper = "stopped"

MacInv ==
  /\ EngineInv /\ QueuesTyped /\ MacTyped
  /\ SessionsHeld /\ OnlyActive /\ FreshTasks /\ OneTrace /\ StopFollows
  /\ ChildrenHaveTasks /\ HelperReady

-----------------------------------------------------------------------------
(* The action channel. *)

\* Of a list the engine returned, nothing that has an effect is lost or doubled.
LEMMA EffectiveView ==
  ASSUME NEW list \in Seq(EngineActions), Len(list) <= 4
  PROVE  /\ Effective(list) \in Seq(Effects)
         /\ \A A \in SUBSET Effects :
              /\ In(Effective(list), A) <=> In(list, A)
              /\ AtMostOne(list, A) => AtMostOne(Effective(list), A)
<1> DEFINE has(i) == i <= Len(list) /\ HasEffect(list[i])
           kept(i) == When(has(i), list[i])
<1>1. /\ Len(list) \in Nat /\ DOMAIN list = 1 .. Len(list)
      /\ \A i \in 1 .. Len(list) : list[i] \in EngineActions
  BY LenProperties, ElementOfSeq
<1>2. \A i \in 1 .. 4 : has(i) => i \in DOMAIN list /\ list[i] \in Effects
  BY <1>1 DEF Effects
<1>3. \A i \in 1 .. 4 : kept(i) \in Seq(Effects)
  BY <1>2 DEF When
<1>4. ASSUME NEW A \in SUBSET Effects, NEW i \in 1 .. 4
      PROVE  /\ In(kept(i), A) <=> i \in DOMAIN list /\ list[i] \in A
             /\ AtMostOne(kept(i), A)
  <2>1. CASE has(i)
    <3> DEFINE x == list[i]
    <3>1. kept(i) = <<x>>
      BY <2>1 DEF When
    <3>2. In(<<x>>, A) <=> x \in A
      BY ShortView
    <3>3. AtMostOne(<<x>>, A)
      BY ShortView
    <3> HIDE DEF kept
    <3> QED
      BY <1>2, <2>1, <3>1, <3>2, <3>3
  <2>2. CASE ~has(i)
    <3>1. kept(i) = <<>>
      BY <2>2 DEF When
    <3>2. ~(i \in DOMAIN list /\ list[i] \in A)
      BY <1>1, <2>2 DEF Effects
    <3>3. ~In(<<>>, A) /\ AtMostOne(<<>>, A)
      BY ShortView
    <3> HIDE DEF kept
    <3> QED
      BY <3>1, <3>2, <3>3
  <2> QED
    BY <2>1, <2>2
<1> DEFINE k1 == kept(1)
           n2 == kept(2)
           n3 == kept(3)
           n4 == kept(4)
           k2 == k1 \o n2
           k3 == k2 \o n3
           k4 == k3 \o n4
<1>5. Effective(list) = k4
  BY DEF Effective
<1>6. k1 \in Seq(Effects) /\ n2 \in Seq(Effects) /\ n3 \in Seq(Effects) /\ n4 \in Seq(Effects)
  BY <1>3
<1>0. ASSUME NEW A \in SUBSET Effects
      PROVE  /\ In(k1, A) <=> 1 \in DOMAIN list /\ list[1] \in A
             /\ In(n2, A) <=> 2 \in DOMAIN list /\ list[2] \in A
             /\ In(n3, A) <=> 3 \in DOMAIN list /\ list[3] \in A
             /\ In(n4, A) <=> 4 \in DOMAIN list /\ list[4] \in A
             /\ AtMostOne(k1, A) /\ AtMostOne(n2, A) /\ AtMostOne(n3, A) /\ AtMostOne(n4, A)
  BY <1>4
<1> HIDE DEF kept, has, k1, n2, n3, n4
<1>8. k2 \in Seq(Effects) /\ k3 \in Seq(Effects) /\ k4 \in Seq(Effects)
  BY <1>6, ConcatProperties
<1>7. ASSUME NEW A \in SUBSET Effects
      PROVE  /\ In(k4, A) <=> In(list, A)
             /\ AtMostOne(list, A) => AtMostOne(k4, A)
  <2>1. /\ In(k2, A) <=> In(k1, A) \/ In(n2, A)
        /\ AtMostOne(k2, A) <=>
             AtMostOne(k1, A) /\ AtMostOne(n2, A) /\ ~(In(k1, A) /\ In(n2, A))
    BY <1>6, <1>8, ConcatView
  <2> HIDE DEF k2
  <2>2. /\ In(k3, A) <=> In(k2, A) \/ In(n3, A)
        /\ AtMostOne(k3, A) <=>
             AtMostOne(k2, A) /\ AtMostOne(n3, A) /\ ~(In(k2, A) /\ In(n3, A))
    BY <1>6, <1>8, ConcatView
  <2> HIDE DEF k3
  <2>3. /\ In(k4, A) <=> In(k3, A) \/ In(n4, A)
        /\ AtMostOne(k4, A) <=>
             AtMostOne(k3, A) /\ AtMostOne(n4, A) /\ ~(In(k3, A) /\ In(n4, A))
    BY <1>6, <1>8, ConcatView
  <2> HIDE DEF k4
  <2> DEFINE at(i) == i \in DOMAIN list /\ list[i] \in A
  <2>4. /\ In(k1, A) <=> at(1)
        /\ In(n2, A) <=> at(2)
        /\ In(n3, A) <=> at(3)
        /\ In(n4, A) <=> at(4)
        /\ AtMostOne(k1, A) /\ AtMostOne(n2, A)
        /\ AtMostOne(n3, A) /\ AtMostOne(n4, A)
    BY <1>0
  <2>5. In(list, A) <=> at(1) \/ at(2) \/ at(3) \/ at(4)
    <3>1. \A i \in DOMAIN list : i \in {1, 2, 3, 4}
      BY <1>1
    <3> QED
      BY <3>1 DEF In
  <2>6. AtMostOne(list, A) =>
          /\ ~(at(1) /\ at(2)) /\ ~(at(1) /\ at(3)) /\ ~(at(1) /\ at(4))
          /\ ~(at(2) /\ at(3)) /\ ~(at(2) /\ at(4)) /\ ~(at(3) /\ at(4))
    BY DEF AtMostOne
  <2> HIDE DEF at
  <2> QED
    BY <2>1, <2>2, <2>3, <2>4, <2>5, <2>6
<1> QED
  BY <1>5, <1>7, <1>8

\* The orders asked about have an effect.
LEMMA OrdersHaveEffect ==
  \A g \in Nat : {Start(g)} \in SUBSET Effects /\ {Stop(g)} \in SUBSET Effects
BY DEF Effects, HasEffect, EngineActions, Start, Stop

\* An event adds what it orders.
LEMMA OrdersAppended ==
  ASSUME QueuesTyped, Listed, queue' = queue \o Effective(actions')
  PROVE  /\ queue' \in Seq(Effects)
         /\ \A A, B \in SUBSET Effects :
              /\ In(queue', A) <=> In(queue, A) \/ In(actions', A)
              /\ AtMostOne(queue, A) /\ AtMostOne(actions', A) /\ ~(In(queue, A) /\ In(actions', A))
                   => AtMostOne(queue', A)
              /\ ~In(actions', A) =>
                   (Followed(queue', A, B) <=> Followed(queue, A, B) \/ In(actions', B))
<1> DEFINE more == Effective(actions')
<1>1. /\ more \in Seq(Effects)
      /\ \A A \in SUBSET Effects :
           /\ In(more, A) <=> In(actions', A)
           /\ AtMostOne(actions', A) => AtMostOne(more, A)
  BY EffectiveView DEF Listed
<1>2. queue \in Seq(Effects) /\ queue' = queue \o more
  BY DEF QueuesTyped
<1> HIDE DEF more
<1>3. \A A, B :
        /\ In(queue \o more, A) <=> In(queue, A) \/ In(more, A)
        /\ AtMostOne(queue \o more, A) <=>
             AtMostOne(queue, A) /\ AtMostOne(more, A) /\ ~(In(queue, A) /\ In(more, A))
        /\ Followed(queue \o more, A, B) <=>
             Followed(more, A, B) /\ (Followed(queue, A, B) \/ In(more, B))
  <2>1. queue \in Seq(Effects) /\ more \in Seq(Effects)
    BY <1>1, <1>2
  <2> QED
    BY <2>1, ConcatView
<1>4. \A A, B : ~In(more, A) => Followed(more, A, B)
  BY NoneIn
<1>5. queue' \in Seq(Effects)
  BY <1>1, <1>2, ConcatProperties
<1> QED
  BY <1>1, <1>2, <1>3, <1>4, <1>5

-----------------------------------------------------------------------------
(* Steps that leave the engine alone. *)

\* Generations are numbers.
LEMMA GenerationNumbers ==
  ASSUME EngineInv
  PROVE  /\ active \in Nat /\ nextGeneration \in Nat \ {0} /\ active < nextGeneration
         /\ active # NoGeneration => active \in Generations /\ active \in Started
         /\ Generations \subseteq Nat /\ NoGeneration \in Nat /\ NoGeneration \notin Generations
         /\ automatic \in BOOLEAN /\ stopRequested \in BOOLEAN
         /\ stopRequested => active # NoGeneration
BY EngineAssumption
   DEF EngineInv, EngineTypeOK, ActiveWasStarted, Generations, NoGeneration, Started

\* The engine's own invariant stays, and so does what can be told.
LEMMA EngineAtRest ==
  ASSUME MacInv, UNCHANGED engineVars
  PROVE  /\ EngineInv' /\ active' = active /\ stopRequested' = stopRequested
         /\ EventsSoFar' = EventsSoFar /\ Started' = Started
<1>1. EngineInv'
  BY EngineInvNext DEF MacInv
<1> QED
  BY <1>1 DEF engineVars, EventsSoFar, Started

\* A task tells something.
LEMMA EventSent ==
  ASSUME MacInv, NEW e \in EventsSoFar, events' = Append(events, e)
  PROVE  /\ events' \in Seq(EventsSoFar)
         /\ \A A : In(events', A) <=> In(events, A) \/ e \in A
<1>1. events \in Seq(EventsSoFar)
  BY DEF MacInv, QueuesTyped
<1> DEFINE more == <<e>>
<1>2. more \in Seq(EventsSoFar) /\ \A A : In(more, A) <=> e \in A
  <2>1. more \in Seq(EventsSoFar)
    OBVIOUS
  <2>2. \A A : In(<<e>>, A) <=> e \in A
    BY ShortView
  <2> QED
    BY <2>1, <2>2
<1>3. events' = events \o more
  BY <1>1, AppendIsConcat
<1> HIDE DEF more
<1>4. \A A : In(events \o more, A) <=> In(events, A) \/ In(more, A)
  BY <1>1, <1>2, ConcatView
<1>5. events \o more \in Seq(EventsSoFar)
  BY <1>1, <1>2, ConcatProperties
<1> QED
  BY <1>2, <1>3, <1>4, <1>5

\* What the tasks tell.
LEMMA EventsTyped ==
  ASSUME EngineInv
  PROVE  /\ Elapsed \in EventsSoFar /\ \A h : Elapsed \notin EndsOf(h)
         /\ \A g \in Started :
              /\ Connected(g) \in EventsSoFar /\ \A h : Connected(g) \notin EndsOf(h)
              /\ \A e \in {Exited(g, 0), Exited(g, 1), Failed(g), TimedOut(g)} :
                   e \in EventsSoFar /\ \A h : e \in EndsOf(h) <=> h = g
<1>1. \A g \in Started : g \in Nat
  BY GenerationNumbers DEF Started
<1>2. Elapsed \in EventsSoFar /\ \A h : Elapsed \notin EndsOf(h)
  BY DEF EventsSoFar, MacEvents, EndsOf, Endings, Elapsed
<1>3. ASSUME NEW g \in Started
      PROVE  /\ Connected(g) \in EventsSoFar /\ \A h : Connected(g) \notin EndsOf(h)
             /\ \A e \in {Exited(g, 0), Exited(g, 1), Failed(g), TimedOut(g)} :
                  e \in EventsSoFar /\ \A h : e \in EndsOf(h) <=> h = g
  <2>1. /\ Connected(g) \in MacEvents /\ Connected(g) \notin Endings /\ Connected(g).gen = g
    BY <1>1 DEF Connected, MacEvents, Endings
  <2>2. \A e \in {Exited(g, 0), Exited(g, 1), Failed(g), TimedOut(g)} :
          e \in Endings /\ e \in MacEvents /\ e.gen = g
    BY <1>1 DEF Exited, Failed, TimedOut, MacEvents, Endings
  <2> QED
    BY <2>1, <2>2 DEF EventsSoFar, EndsOf
<1> QED
  BY <1>2, <1>3

\* Nothing is to be started that was not before.
LEMMA FreshKept ==
  ASSUME MacInv, active' = active, Started' = Started,
         In(queue', {Start(active)}) \/ starting' # NotStarting
           => In(queue, {Start(active)}) \/ starting # NotStarting,
         \A g \in Generations : task[g] = "none" => task'[g] = "none"
  PROVE  FreshTasks'
<1>1. /\ \A g \in Generations : task[g] # "none" => g \in Started
      /\ In(queue, {Start(active)}) \/ starting # NotStarting => task[active] = "none"
  BY DEF MacInv, FreshTasks
<1>2. In(queue, {Start(active)}) \/ starting # NotStarting => active \in Generations
  BY GenerationNumbers DEF MacInv, OnlyActive, MacTyped, Starts
<1> QED
  BY <1>1, <1>2 DEF FreshTasks

\* Where no generation begins or ends, nothing is made of the invariant.
LEMMA ConnectionUntouched ==
  ASSUME MacInv, UNCHANGED <<engineVars, queue, starting>>, events' \in Seq(EventsSoFar),
         \A g \in Nat : In(events', EndsOf(g)) <=> In(events, EndsOf(g)),
         \A g \in Generations : /\ task'[g] \in Live <=> task[g] \in Live
                                /\ task[g] = "none" => task'[g] = "none",
         \A g \in sessions' :
           /\ g \in sessions
           /\ task'[g] \in Early => task[g] \in Early
           /\ g \in cancelled => g \in cancelled'
  PROVE  EngineInv' /\ QueuesTyped' /\ OnlyActive' /\ FreshTasks' /\ OneTrace' /\ StopFollows'
<1>1. /\ EngineInv' /\ active' = active /\ stopRequested' = stopRequested
      /\ EventsSoFar' = EventsSoFar /\ queue' = queue /\ starting' = starting
  BY EngineAtRest
<1>2. active \in Nat /\ (active # NoGeneration => active \in Generations)
  BY GenerationNumbers DEF MacInv
<1>3. QueuesTyped'
  BY <1>1 DEF MacInv, QueuesTyped
<1>4. OnlyActive'
  BY <1>1 DEF MacInv, OnlyActive, Held
<1>5. OneTrace'
  BY <1>1, <1>2 DEF MacInv, OneTrace, Held
<1>6. StopFollows'
  BY <1>1 DEF MacInv, StopFollows
<1>7. FreshTasks'
  BY <1>1, EngineAtRest, FreshKept
<1> QED
  BY <1>1, <1>3, <1>4, <1>5, <1>6, <1>7

-----------------------------------------------------------------------------
(* Events. *)

\* What was told stays told when generations are started.
LEMMA MoreCanBeTold ==
  ASSUME EngineInv, EngineInv', nextGeneration <= nextGeneration',
         NEW list \in Seq(EventsSoFar)
  PROVE  list \in Seq(EventsSoFar')
<1>1. Started \subseteq Started'
  <2> DEFINE m == nextGeneration
             n == nextGeneration'
  <2>1. m \in Nat /\ n \in Nat /\ m <= n
    BY EngineAssumption DEF EngineInv, EngineTypeOK
  <2> HIDE DEF m, n
  <2>2. 1 .. m - 1 \subseteq 1 .. n - 1
    BY <2>1
  <2> QED
    BY <2>2 DEF m, n, Started
<1>2. EventsSoFar \subseteq EventsSoFar'
  BY <1>1 DEF EventsSoFar
<1> QED
  BY <1>2

\* Where no generation begins or ends, its trace stays; a stop is ordered behind it.
LEMMA ConnectionKept ==
  ASSUME MacInv, EngineInv', Kept \/ Stopped, queue' = queue \o Effective(actions'),
         UNCHANGED <<task, sessions, cancelled, starting>>,
         events' \in Seq(EventsSoFar),
         \A g \in Nat : g = active => (In(events', EndsOf(g)) <=> In(events, EndsOf(g)))
  PROVE  QueuesTyped' /\ OnlyActive' /\ FreshTasks' /\ OneTrace' /\ StopFollows'
<1>1. /\ active \in Nat /\ active' = active /\ NoStart(actions') /\ Listed
      /\ nextGeneration' = nextGeneration
  BY GenerationNumbers DEF MacInv, Kept, Stopped
<1>2. QueuesTyped /\ UNCHANGED <<task, sessions, cancelled, starting>>
  BY DEF MacInv
<1>3. /\ queue' \in Seq(Effects)
      /\ \A A, B \in SUBSET Effects :
           /\ In(queue', A) <=> In(queue, A) \/ In(actions', A)
           /\ AtMostOne(queue, A) /\ AtMostOne(actions', A) /\ ~(In(queue, A) /\ In(actions', A))
                => AtMostOne(queue', A)
           /\ ~In(actions', A) =>
                (Followed(queue', A, B) <=> Followed(queue, A, B) \/ In(actions', B))
  BY <1>1, <1>2, OrdersAppended
<1>4. /\ \A g \in Nat : In(queue', {Start(g)}) <=> In(queue, {Start(g)})
      /\ \A g \in Nat : In(queue', {Stop(g)}) <=> In(queue, {Stop(g)}) \/ In(actions', {Stop(g)})
  BY <1>1, <1>3, OrdersHaveEffect DEF NoStart
<1>5. AtMostOne(queue, {Start(active)}) => AtMostOne(queue', {Start(active)})
  <2>1. ~In(actions', {Start(active)}) /\ {Start(active)} \in SUBSET Effects
    BY <1>1, OrdersHaveEffect DEF NoStart
  <2>2. AtMostOne(actions', {Start(active)})
    BY <2>1, NoneIn
  <2> QED
    BY <1>3, <2>1, <2>2
<1>6. Followed(queue', {Start(active)}, {Stop(active)}) <=>
        Followed(queue, {Start(active)}, {Stop(active)}) \/ In(actions', {Stop(active)})
  <2>1. ~In(actions', {Start(active)})
    BY <1>1 DEF NoStart
  <2> QED
    BY <1>1, <1>3, <2>1, OrdersHaveEffect
<1>7. QueuesTyped'
  <2>1. nextGeneration <= nextGeneration'
    BY <1>1, GenerationNumbers DEF MacInv
  <2> QED
    BY <1>3, <2>1, MoreCanBeTold DEF MacInv, QueuesTyped
<1>8. OnlyActive'
  BY <1>1, <1>2, <1>4 DEF MacInv, OnlyActive, Held
<1>9. OneTrace'
  BY <1>1, <1>2, <1>4, <1>5 DEF MacInv, OneTrace, Held
<1>10. StopFollows'
  <2>1. CASE Kept
    BY <1>1, <1>2, <1>4, <1>6, <2>1 DEF MacInv, StopFollows, Kept
  <2>2. CASE Stopped
    BY <1>1, <1>2, <1>4, <1>6, <2>2 DEF MacInv, StopFollows, Stopped
  <2> QED
    BY <2>1, <2>2
<1>11. FreshTasks'
  <2>1. Started' = Started
    BY <1>1 DEF Started
  <2> QED
    BY <1>1, <1>2, <1>4, <2>1, FreshKept
<1> QED
  BY <1>7, <1>8, <1>9, <1>10, <1>11

\* Where nothing is left of the old generation, the new one has one trace.
LEMMA ConnectionRenewed ==
  ASSUME MacInv, EngineInv', Gone \/ Launched, queue' = queue \o Effective(actions'),
         UNCHANGED <<task, sessions, cancelled, starting>>,
         events' \in Seq(EventsSoFar),
         \A g \in Nat : ~In(queue, {Start(g)}), starting = NotStarting,
         \A g \in Generations : ~Held(g)
  PROVE  QueuesTyped' /\ OnlyActive' /\ FreshTasks' /\ OneTrace' /\ StopFollows'
<1>1. /\ Listed /\ nextGeneration \in Nat \ {0} /\ nextGeneration <= nextGeneration'
      /\ ~stopRequested'
  BY GenerationNumbers DEF MacInv, Gone, Launched
<1>2. QueuesTyped /\ UNCHANGED <<task, sessions, cancelled, starting>>
  BY DEF MacInv
<1>3. /\ queue' \in Seq(Effects)
      /\ \A A, B \in SUBSET Effects :
           /\ In(queue', A) <=> In(queue, A) \/ In(actions', A)
           /\ AtMostOne(queue, A) /\ AtMostOne(actions', A) /\ ~(In(queue, A) /\ In(actions', A))
                => AtMostOne(queue', A)
           /\ ~In(actions', A) =>
                (Followed(queue', A, B) <=> Followed(queue, A, B) \/ In(actions', B))
  BY <1>1, <1>2, OrdersAppended
<1>4. \A g \in Nat : In(queue', {Start(g)}) <=> In(actions', {Start(g)})
  BY <1>3, OrdersHaveEffect
<1>5. QueuesTyped'
  BY <1>1, <1>3, MoreCanBeTold DEF MacInv, QueuesTyped
<1>6. StopFollows'
  BY <1>1 DEF StopFollows
<1>9. \A g \in Generations : task'[g] # "none" => g \in Started /\ g \in Started'
  <2>1. \A g \in Started : g \in Started'
    <3> DEFINE m == nextGeneration
               n == nextGeneration'
    <3>1. m \in Nat /\ n \in Nat /\ m <= n
      BY <1>1, EngineAssumption DEF EngineInv, EngineTypeOK
    <3> HIDE DEF m, n
    <3>2. \A g \in 1 .. m - 1 : g \in 1 .. n - 1
      BY <3>1
    <3> QED
      BY <3>2 DEF m, n, Started
  <2> QED
    BY <1>2, <2>1 DEF MacInv, FreshTasks
<1>7. CASE Gone
  <2>1. OnlyActive'
    BY <1>2, <1>4, <1>7 DEF Gone, NoStart, OnlyActive, Held
  <2>2. FreshTasks'
    <3>1. active' = NoGeneration /\ NoGeneration \in Nat /\ ~In(queue', {Start(NoGeneration)})
      BY <1>4, <1>7 DEF Gone, NoStart, NoGeneration
    <3> QED
      BY <1>2, <1>9, <3>1 DEF FreshTasks
  <2> QED
    BY <1>5, <1>6, <1>7, <2>1, <2>2 DEF Gone, OneTrace
<1>8. CASE Launched
  <2>1. \A g \in Nat : In(queue', {Start(g)}) <=> g = nextGeneration
    BY <1>4, <1>8 DEF Launched
  <2>2. active' = nextGeneration
    BY <1>8 DEF Launched
  <2>3. OnlyActive'
    BY <1>1, <1>2, <2>1, <2>2 DEF OnlyActive, Held, NoGeneration
  <2>4. AtMostOne(queue', {Start(nextGeneration)})
    <3>1. {Start(nextGeneration)} \in SUBSET Effects /\ ~In(queue, {Start(nextGeneration)})
      BY <1>1, OrdersHaveEffect
    <3>2. AtMostOne(queue, {Start(nextGeneration)})
      BY <3>1, NoneIn
    <3> QED
      BY <1>3, <1>8, <3>1, <3>2 DEF Launched
  <2>5. ~In(events', EndsOf(nextGeneration))
    <3>1. nextGeneration \notin Started
      BY <1>1 DEF Started
    <3>2. \A e \in EventsSoFar : e \notin EndsOf(nextGeneration)
      BY <3>1 DEF EventsSoFar, EndsOf, Endings, Elapsed
    <3>3. \A i \in DOMAIN events' : events'[i] \in EventsSoFar
      BY LenProperties, ElementOfSeq
    <3> QED
      BY <3>2, <3>3 DEF In
  <2>6. task' = task /\ starting' = NotStarting /\ In(queue', {Start(nextGeneration)})
    BY <1>1, <1>2, <2>1
  <2>7. task'[nextGeneration] \notin Live
    <3>1. nextGeneration \in Generations
      BY <1>1, <2>2, EngineAssumption DEF EngineInv, EngineTypeOK, NoGeneration
    <3>2. task[nextGeneration] \notin Live
      BY <3>1 DEF Held
    <3> QED
      BY <2>6, <3>2
  <2>8. OneTrace'
    BY <2>2, <2>4, <2>5, <2>6, <2>7 DEF OneTrace, Held
  <2>9. FreshTasks'
    <3>1. nextGeneration \in Generations
      BY <1>1, <2>2, EngineAssumption DEF EngineInv, EngineTypeOK, NoGeneration
    <3>2. nextGeneration \notin Started
      BY <1>1 DEF Started
    <3>3. task'[nextGeneration] = "none"
      BY <1>9, <3>1, <3>2
    <3> QED
      BY <1>9, <2>2, <3>3 DEF FreshTasks
  <2> QED
    BY <1>5, <1>6, <2>3, <2>8, <2>9
<1> QED
  BY <1>7, <1>8

\* What is left of the invariant: it speaks of no queue and not of the engine.
Rest == MacTyped /\ SessionsHeld /\ ChildrenHaveTasks /\ HelperReady

\* An event leaves the rest of the service alone.
LEMMA RestUntouched ==
  ASSUME MacInv, UNCHANGED <<helperVars, sessionVars, startVars, timerVars, preference, proc, taken>>
  PROVE  Rest'
<1>1. UNCHANGED <<helper, owner, task, child, faulty, sessions, cancelled, starting, reconcile,
                  timer, looseTimers, preference, proc, taken>>
  BY DEF helperVars, sessionVars, startVars, timerVars
<1>2. MacTyped'
  BY <1>1 DEF MacInv, MacTyped
<1>3. SessionsHeld'
  BY <1>1 DEF MacInv, SessionsHeld, Held
<1>4. ChildrenHaveTasks' /\ HelperReady'
  BY <1>1 DEF MacInv, ChildrenHaveTasks, HelperReady, Busy
<1> QED
  BY <1>2, <1>3, <1>4 DEF Rest

\* A request or a change of the network.
LEMMA UserOrNetworkStep == ASSUME MacInv, UserOrNetwork PROVE MacInv'
<1>1. /\ UserEvent \/ NetworkEvent
      /\ queue' = queue \o Effective(actions') /\ events' = events
      /\ UNCHANGED <<helperVars, sessionVars, startVars, timerVars, preference, proc, taken>>
  BY DEF UserOrNetwork, Apply, NetworkEvent, procVars
<1>2. EngineInv' /\ EngineInv
  BY <1>1, EngineInvNext DEF MacInv, Next
<1>3. Kept \/ Stopped \/ (active = NoGeneration /\ Launched)
  BY <1>1, <1>2, CalmEffect
<1>4. /\ UNCHANGED <<task, sessions, cancelled, starting>>
      /\ events' \in Seq(EventsSoFar)
  BY <1>1 DEF sessionVars, startVars, MacInv, QueuesTyped
<1>5. QueuesTyped' /\ OnlyActive' /\ FreshTasks' /\ OneTrace' /\ StopFollows'
  <2>1. CASE Kept \/ Stopped
    BY <1>1, <1>2, <1>4, <2>1, ConnectionKept
  <2>2. CASE active = NoGeneration /\ Launched
    <3>1. /\ \A g \in Nat : ~In(queue, {Start(g)})
          /\ starting = NotStarting /\ \A g \in Generations : ~Held(g)
      BY <1>2, <2>2, GenerationNumbers
         DEF MacInv, OnlyActive, MacTyped, Starts
    <3> QED
      BY <1>1, <1>2, <1>4, <2>2, <3>1, ConnectionRenewed
  <2> QED
    BY <1>3, <2>1, <2>2
<1> QED
  BY <1>1, <1>2, <1>5, RestUntouched DEF MacInv, Rest

\* An event of a task or a timer, handled.
LEMMA HandleEventStep == ASSUME MacInv, HandleEvent PROVE MacInv'
<1> DEFINE e == Head(events)
<1>1. /\ events # <<>> /\ events' = Tail(events) /\ events \in Seq(EventsSoFar)
      /\ starting = NotStarting
      /\ EngineTakes(e) /\ queue' = queue \o Effective(actions')
      /\ UNCHANGED <<helperVars, sessionVars, startVars, timerVars, preference, proc, taken>>
  BY DEF HandleEvent, IdleLoop, Apply, MacInv, QueuesTyped
<1>2. \A A : In(events, A) <=> e \in A \/ In(events', A)
  BY <1>1, HeadView
<1>3. e \in EventsSoFar /\ events' \in Seq(EventsSoFar)
  BY <1>1
<1>4. /\ EngineInv /\ automatic \in BOOLEAN /\ active \in Nat
      /\ UNCHANGED <<task, sessions, cancelled, starting>>
  BY <1>1, GenerationNumbers DEF MacInv, sessionVars, startVars
<1> HIDE DEF e
<1>5. e.kind # "RetryElapsed" => e.gen \in Started /\ e.gen \in Nat
  BY <1>3, GenerationNumbers DEF EventsSoFar, MacEvents, Elapsed, Started, MacInv
<1>6. Next
  <2>1. CASE e.kind = "ConnectorConnected" \/ e.kind = "ConnectorError"
              \/ e.kind = "ConnectTimedOut"
    BY <1>1, <1>5, <2>1 DEF EngineTakes, Next, ConnectorEvent
  <2>2. CASE e.kind = "ConnectorExited"
    <3>1. e.code \in {0, 1} /\ 0 \in {0, ResetAfterSeconds}
      BY <1>3, <2>2 DEF EventsSoFar, MacEvents, Endings, Elapsed
    <3> QED
      BY <1>1, <1>5, <2>2, <3>1 DEF EngineTakes, Next, ConnectorEvent
  <2>3. CASE e.kind = "RetryElapsed"
    BY <1>1, <2>3 DEF EngineTakes, Next, TimerEvent
  <2> QED
    BY <1>1, <2>1, <2>2, <2>3 DEF EngineTakes
<1>7. EngineInv'
  BY <1>4, <1>6, EngineInvNext
<1>8. \/ (Kept \/ Stopped \/ (active = NoGeneration /\ Launched)) /\ e \notin EndsOf(active)
      \/ (Gone \/ Launched) /\ e \in EndsOf(active) /\ active # NoGeneration
  <2>1. CASE e.kind = "RetryElapsed"
    BY <1>1, <1>4, <1>7, <2>1, CalmEffect DEF EngineTakes, EndsOf, Endings
  <2>2. CASE e.kind = "ConnectorConnected"
    BY <1>1, <1>4, <1>5, <1>7, <2>2, CalmEffect DEF EngineTakes, EndsOf, Endings
  <2>3. CASE e.kind \in {"ConnectorExited", "ConnectorError", "ConnectTimedOut"}
    <3>1. e \in EndsOf(active) <=> e.gen = active
      BY <1>3, <2>3 DEF EventsSoFar, MacEvents, EndsOf, Elapsed
    <3>2. CASE Stale(e.gen)
      BY <1>4, <3>1, <3>2, StaleEffect DEF Stale
    <3>3. CASE ~Stale(e.gen)
      <4>1. /\ e.gen = active
            /\ \/ \E code : ConnectorExited(active, code, 0)
               \/ ForgetActive(state, <<PublishError>>)
        BY <1>1, <2>3, <3>3
           DEF EngineTakes, ConnectorExited, ConnectorError, ConnectTimedOut
      <4>2. active # NoGeneration
        BY <1>5, <2>3, <4>1 DEF Started, NoGeneration
      <4> QED
        BY <1>4, <3>1, <4>1, <4>2, ExitEffect, ErrorEffect
    <3> QED
      BY <3>2, <3>3
  <2> QED
    BY <1>1, <2>1, <2>2, <2>3 DEF EngineTakes
<1>9. QueuesTyped' /\ OnlyActive' /\ FreshTasks' /\ OneTrace' /\ StopFollows'
  <2>1. CASE (Kept \/ Stopped) /\ e \notin EndsOf(active)
    <3>1. \A g \in Nat : g = active => (In(events', EndsOf(g)) <=> In(events, EndsOf(g)))
      BY <1>2, <2>1
    <3> QED
      BY <1>1, <1>3, <1>4, <1>7, <2>1, <3>1, ConnectionKept
  <2>2. CASE active = NoGeneration /\ Launched
    <3>1. /\ \A g \in Nat : ~In(queue, {Start(g)})
          /\ \A g \in Generations : ~Held(g)
      BY <1>4, <2>2, GenerationNumbers DEF MacInv, OnlyActive
    <3> QED
      BY <1>1, <1>3, <1>4, <1>7, <2>2, <3>1, ConnectionRenewed
  <2>3. CASE (Gone \/ Launched) /\ e \in EndsOf(active) /\ active # NoGeneration
    <3>1. In(events, EndsOf(active))
      BY <1>2, <2>3
    <3>2. ~In(queue, {Start(active)}) /\ ~Held(active)
      BY <2>3, <3>1 DEF MacInv, OneTrace
    <3>3. /\ \A g \in Nat : ~In(queue, {Start(g)})
          /\ \A g \in Generations : ~Held(g)
      BY <3>2 DEF MacInv, OnlyActive
    <3> QED
      BY <1>1, <1>3, <1>4, <1>7, <2>3, <3>3, ConnectionRenewed
  <2> QED
    BY <1>8, <2>1, <2>2, <2>3
<1> QED
  BY <1>1, <1>7, <1>9, RestUntouched DEF MacInv, Rest

-----------------------------------------------------------------------------
(* The executor. *)

\* An action leaves the queue.
LEMMA ActionTaken ==
  ASSUME MacInv, ExecuteNext
  PROVE  /\ EngineInv' /\ QueuesTyped' /\ active' = active /\ stopRequested' = stopRequested
         /\ active \in Nat /\ starting = NotStarting /\ events' = events
         /\ Head(queue) \in Effects
         /\ \A A, B : /\ In(queue, A) <=> Head(queue) \in A \/ In(queue', A)
                      /\ AtMostOne(queue, A) <=>
                           AtMostOne(queue', A) /\ ~(Head(queue) \in A /\ In(queue', A))
                      /\ Followed(queue, A, B) <=>
                           Followed(queue', A, B) /\ (Head(queue) \in A => In(queue', B))
<1>1. queue # <<>> /\ queue' = Tail(queue) /\ queue \in Seq(Effects) /\ events' = events
  BY DEF ExecuteNext, MacInv, QueuesTyped
<1>2. Head(queue) \in Effects /\ queue' \in Seq(Effects)
  BY <1>1
<1>3. \A A, B : /\ In(queue, A) <=> Head(queue) \in A \/ In(Tail(queue), A)
                /\ AtMostOne(queue, A) <=>
                     AtMostOne(Tail(queue), A) /\ ~(Head(queue) \in A /\ In(Tail(queue), A))
                /\ Followed(queue, A, B) <=>
                     Followed(Tail(queue), A, B) /\ (Head(queue) \in A => In(Tail(queue), B))
  BY <1>1, HeadView
<1>4. /\ EngineInv' /\ active' = active /\ stopRequested' = stopRequested
      /\ EventsSoFar' = EventsSoFar
  BY EngineAtRest DEF ExecuteNext
<1>5. active \in Nat
  BY GenerationNumbers DEF MacInv
<1>6. QueuesTyped'
  BY <1>1, <1>2, <1>4 DEF MacInv, QueuesTyped
<1> QED
  BY <1>1, <1>2, <1>3, <1>4, <1>5, <1>6 DEF ExecuteNext, IdleLoop

\* One that starts nothing: an order to stop is in the queue, or it has been carried out.
LEMMA NoStartTaken ==
  ASSUME MacInv, ExecuteNext, UNCHANGED <<task, sessions, starting>>,
         \A g \in Nat : Head(queue) # Start(g),
         \A g \in sessions : g \in cancelled \/ Head(queue) = Stop(g) => g \in cancelled'
  PROVE  EngineInv' /\ QueuesTyped' /\ OnlyActive' /\ FreshTasks' /\ OneTrace' /\ StopFollows'
<1>1. /\ EngineInv' /\ QueuesTyped' /\ active' = active /\ stopRequested' = stopRequested
      /\ active \in Nat /\ starting = NotStarting /\ events' = events
      /\ \A A, B : /\ In(queue, A) <=> Head(queue) \in A \/ In(queue', A)
                   /\ AtMostOne(queue, A) <=>
                        AtMostOne(queue', A) /\ ~(Head(queue) \in A /\ In(queue', A))
                   /\ Followed(queue, A, B) <=>
                        Followed(queue', A, B) /\ (Head(queue) \in A => In(queue', B))
  BY ActionTaken
<1>2. UNCHANGED <<task, sessions, starting>>
  OBVIOUS
<1>3. /\ \A g \in Nat : In(queue', {Start(g)}) <=> In(queue, {Start(g)})
      /\ \A g \in Nat : In(queue, {Stop(g)}) => Head(queue) = Stop(g) \/ In(queue', {Stop(g)})
      /\ AtMostOne(queue, {Start(active)}) => AtMostOne(queue', {Start(active)})
      /\ Followed(queue, {Start(active)}, {Stop(active)})
           => Followed(queue', {Start(active)}, {Stop(active)})
  BY <1>1
<1>4. OnlyActive'
  BY <1>1, <1>2, <1>3 DEF MacInv, OnlyActive, Held
<1>5. OneTrace'
  BY <1>1, <1>2, <1>3 DEF MacInv, OneTrace, Held
<1>6. StopFollows'
  BY <1>1, <1>2, <1>3 DEF MacInv, StopFollows
<1>7. FreshTasks'
  <2>1. Started' = Started
    BY EngineAtRest DEF ExecuteNext
  <2> QED
    BY <1>1, <1>2, <1>3, <2>1, FreshKept
<1> QED
  BY <1>1, <1>4, <1>5, <1>6, <1>7

\* The preference is stored, or not.
LEMMA PersistStep ==
  ASSUME MacInv, ExecuteNext, Head(queue).kind = "PersistAutomatic",
         ExecutePersist(Head(queue).enabled)
  PROVE  MacInv'
<1>1. /\ UNCHANGED <<helper, owner, task, child, faulty, sessions, cancelled, starting, reconcile,
                     timer, looseTimers, proc, taken>>
      /\ preference' = Head(queue).enabled \/ preference' = preference
  BY DEF ExecuteNext, ExecutePersist, sessionVars, timerVars, startVars, helperVars
<1>2. /\ \A g \in Nat : Head(queue) # Start(g)
      /\ \A g : Head(queue) # Stop(g)
  BY DEF Start, Stop
<1>3. EngineInv' /\ QueuesTyped' /\ OnlyActive' /\ FreshTasks' /\ OneTrace' /\ StopFollows'
  BY <1>1, <1>2, NoStartTaken
<1>4. Head(queue).enabled \in BOOLEAN
  <2>1. Head(queue) \in Effects
    BY ActionTaken
  <2> QED
    BY <2>1 DEF Effects, EngineActions
<1>5. MacTyped'
  BY <1>1, <1>4 DEF MacInv, MacTyped
<1>6. SessionsHeld' /\ ChildrenHaveTasks' /\ HelperReady'
  BY <1>1 DEF MacInv, SessionsHeld, Held, ChildrenHaveTasks, HelperReady, Busy
<1> QED
  BY <1>3, <1>5, <1>6 DEF MacInv

\* start_connection begins.
LEMMA StartStepBegins ==
  ASSUME MacInv, ExecuteNext, Head(queue).kind = "StartConnection",
         ExecuteStart(Head(queue).gen)
  PROVE  MacInv'
<1> DEFINE g == Head(queue).gen
<1>1. /\ UNCHANGED <<helper, owner, task, child, faulty, sessions, cancelled,
                     timer, looseTimers, preference, proc, taken>>
      /\ starting' = [gen |-> g, pc |-> "reconciling"]
      /\ reconcile' = [reconcile EXCEPT !["exec"] = NewReconciliation]
  BY DEF ExecuteNext, ExecuteStart, sessionVars, timerVars, helperVars
<1>2. /\ EngineInv' /\ QueuesTyped' /\ active' = active /\ stopRequested' = stopRequested
      /\ active \in Nat /\ starting = NotStarting /\ events' = events
      /\ Head(queue) \in Effects
      /\ \A A, B : /\ In(queue, A) <=> Head(queue) \in A \/ In(queue', A)
                   /\ AtMostOne(queue, A) <=>
                        AtMostOne(queue', A) /\ ~(Head(queue) \in A /\ In(queue', A))
                   /\ Followed(queue, A, B) <=>
                        Followed(queue', A, B) /\ (Head(queue) \in A => In(queue', B))
  BY ActionTaken
<1>3. Head(queue) = Start(g) /\ g \in Nat
  BY <1>2 DEF Effects, EngineActions, Start
<1>4. g = active /\ g # NoGeneration /\ g \in Generations
  <2>1. g = active /\ g # NoGeneration
    BY <1>2, <1>3 DEF MacInv, OnlyActive
  <2> QED
    BY <2>1, GenerationNumbers DEF MacInv
<1> HIDE DEF g
<1>5. /\ ~In(queue', {Start(active)}) /\ ~Held(active) /\ ~In(events, EndsOf(active))
      /\ \A h \in Nat : In(queue', {Start(h)}) => In(queue, {Start(h)})
  BY <1>2, <1>3, <1>4 DEF MacInv, OneTrace
<1>6. starting' # NotStarting /\ starting'.gen = active
  BY <1>1, <1>4 DEF NotStarting
<1>7. OnlyActive'
  BY <1>1, <1>2, <1>5, <1>6 DEF MacInv, OnlyActive, Held
<1>8. OneTrace'
  <2>1. AtMostOne(queue', {Start(active)})
    BY <1>5, NoneIn
  <2> QED
    BY <1>1, <1>2, <1>5, <1>6, <2>1 DEF MacInv, OneTrace, Held
<1>9. StopFollows'
  <2>1. stopRequested => In(queue', {Stop(active)})
    BY <1>2, <1>3, <1>4 DEF MacInv, StopFollows
  <2>2. Followed(queue', {Start(active)}, {Stop(active)})
    BY <1>5, NoneIn
  <2> QED
    BY <1>1, <1>2, <2>1, <2>2 DEF StopFollows
<1>10. MacTyped'
  <2>1. starting' \in Starts
    BY <1>1, <1>4 DEF Starts
  <2>2. /\ NewReconciliation \in Reconciliations /\ NewReconciliation # NotReconciling
        /\ NewReconciliation.step = "status"
    BY MacAssumption DEF NewReconciliation, NotReconciling, Reconciliations, Commands
  <2>3. reconcile' \in [{"main", "exec"} -> Reconciliations] /\ reconcile'["exec"] # NotReconciling
    BY <1>1, <2>2 DEF MacInv, MacTyped
  <2> QED
    BY <1>1, <1>6, <2>1, <2>3 DEF MacInv, MacTyped
<1>11. SessionsHeld' /\ ChildrenHaveTasks'
  BY <1>1 DEF MacInv, SessionsHeld, Held, ChildrenHaveTasks, Busy
<1>12. HelperReady'
  <2>1. reconcile'["exec"].step # "ok"
    BY <1>1 DEF MacInv, MacTyped, NewReconciliation
  <2> QED
    BY <1>1, <2>1 DEF MacInv, HelperReady
<1>13. FreshTasks'
  <2>1. Started' = Started /\ In(queue, {Start(active)})
    BY <1>2, <1>3, <1>4, EngineAtRest DEF ExecuteNext
  <2> QED
    BY <1>1, <1>2, <2>1, FreshKept
<1> QED
  BY <1>2, <1>7, <1>8, <1>9, <1>10, <1>11, <1>12, <1>13 DEF MacInv

\* A session is told to stop.
LEMMA StopStep ==
  ASSUME MacInv, ExecuteNext, Head(queue).kind = "StopConnection",
         ExecuteStop(Head(queue).gen)
  PROVE  MacInv'
<1>1. /\ UNCHANGED <<helper, owner, task, child, faulty, sessions, starting, reconcile,
                     timer, looseTimers, preference, proc, taken>>
      /\ cancelled' = cancelled \union ({Head(queue).gen} \intersect sessions)
  BY DEF ExecuteNext, ExecuteStop, startVars, timerVars, helperVars
<1>2. /\ \A g \in Nat : Head(queue) # Start(g)
      /\ \A g : Head(queue) = Stop(g) => g = Head(queue).gen
  BY DEF Start, Stop
<1>3. EngineInv' /\ QueuesTyped' /\ OnlyActive' /\ FreshTasks' /\ OneTrace' /\ StopFollows'
  BY <1>1, <1>2, NoStartTaken
<1>4. MacTyped'
  BY <1>1 DEF MacInv, MacTyped
<1>5. SessionsHeld' /\ ChildrenHaveTasks' /\ HelperReady'
  BY <1>1 DEF MacInv, SessionsHeld, Held, ChildrenHaveTasks, HelperReady, Busy
<1> QED
  BY <1>3, <1>4, <1>5 DEF MacInv

\* A timer that is replaced is not gone at once.
LEMMA TimerReplaced ==
  ASSUME MacInv, NEW next \in {"none", "armed"}, ReplaceTimer(next)
  PROVE  timer' \in {"none", "armed"} /\ looseTimers' \in 0 .. MaxLooseTimers
BY MacAssumption DEF MacInv, MacTyped, ReplaceTimer

\* The retry is scheduled or cancelled.
LEMMA TimerStep ==
  ASSUME MacInv, ExecuteNext, Head(queue).kind \in {"ScheduleRetry", "CancelRetry"},
         NEW next \in {"none", "armed"}, ExecuteTimer(next)
  PROVE  MacInv'
<1>1. /\ UNCHANGED <<helper, owner, task, child, faulty, sessions, cancelled, starting, reconcile,
                     preference, proc, taken>>
      /\ timer' \in {"none", "armed"} /\ looseTimers' \in 0 .. MaxLooseTimers
  BY TimerReplaced DEF ExecuteNext, ExecuteTimer, sessionVars, startVars, helperVars
<1>2. /\ \A g \in Nat : Head(queue) # Start(g)
      /\ \A g : Head(queue) # Stop(g)
  BY DEF Start, Stop
<1>3. EngineInv' /\ QueuesTyped' /\ OnlyActive' /\ FreshTasks' /\ OneTrace' /\ StopFollows'
  BY <1>1, <1>2, NoStartTaken
<1>4. MacTyped'
  BY <1>1 DEF MacInv, MacTyped
<1>5. SessionsHeld' /\ ChildrenHaveTasks' /\ HelperReady'
  BY <1>1 DEF MacInv, SessionsHeld, Held, ChildrenHaveTasks, HelperReady, Busy
<1> QED
  BY <1>3, <1>4, <1>5 DEF MacInv

\* The executor takes the next action.
LEMMA ExecuteStep == ASSUME MacInv, ExecuteNext PROVE MacInv'
BY PersistStep, StartStepBegins, StopStep, TimerStep DEF ExecuteNext, Execute

-----------------------------------------------------------------------------
(* start_connection. *)

\* The end of the active generation is told: whatever there was of it is gone.
LEMMA EndTold ==
  ASSUME MacInv, UNCHANGED <<engineVars, queue>>, active # NoGeneration,
         NEW e \in {Exited(active, 0), Exited(active, 1), Failed(active), TimedOut(active)},
         events' = Append(events, e),
         ~In(queue, {Start(active)}), starting' = NotStarting,
         \A g \in Generations : /\ task'[g] \notin Live
                                /\ task[g] = "none" => task'[g] = "none"
  PROVE  EngineInv' /\ QueuesTyped' /\ OnlyActive' /\ FreshTasks' /\ OneTrace' /\ StopFollows'
<1>1. /\ EngineInv' /\ active' = active /\ stopRequested' = stopRequested
      /\ EventsSoFar' = EventsSoFar /\ queue' = queue
  BY EngineAtRest
<1>2. active \in Nat /\ active \in Generations /\ active \in Started
  BY GenerationNumbers DEF MacInv
<1>3. e \in EventsSoFar /\ e \in EndsOf(active)
  BY <1>2, EventsTyped DEF MacInv
<1>4. events' \in Seq(EventsSoFar) /\ In(events', EndsOf(active))
  BY <1>3, EventSent
<1>5. QueuesTyped'
  BY <1>1, <1>4 DEF MacInv, QueuesTyped
<1>6. OnlyActive'
  BY <1>1 DEF MacInv, OnlyActive, Held
<1>7. OneTrace'
  BY <1>1, <1>2, <1>4 DEF MacInv, OneTrace, Held
<1>8. StopFollows'
  BY <1>1, <1>2 DEF MacInv, StopFollows, Live
<1>9. FreshTasks'
  BY <1>1, EngineAtRest, FreshKept
<1> QED
  BY <1>1, <1>5, <1>6, <1>7, <1>8, <1>9

\* A connection under way is of the active generation, and nothing else is.
LEMMA WhileStarting ==
  ASSUME MacInv, reconcile["exec"].step \in Commands
  PROVE  /\ starting # NotStarting /\ starting.gen = active /\ active # NoGeneration
         /\ active \in Generations /\ active \in Nat
         /\ ~In(queue, {Start(active)}) /\ ~In(events, EndsOf(active))
         /\ \A g \in Generations : task[g] \notin Live
         /\ \A h \in Nat : ~In(queue, {Start(h)})
<1>1. starting # NotStarting /\ starting.gen \in Generations
  BY DEF MacInv, MacTyped, NotReconciling, Commands, Starts
<1>2. starting.gen = active
  BY <1>1 DEF MacInv, OnlyActive
<1>3. active # NoGeneration /\ active \in Nat
  BY <1>1, <1>2, GenerationNumbers DEF MacInv
<1>4. ~In(queue, {Start(active)}) /\ ~In(events, EndsOf(active)) /\ ~Held(active)
  BY <1>1, <1>3 DEF MacInv, OneTrace
<1> QED
  BY <1>1, <1>2, <1>3, <1>4 DEF MacInv, OnlyActive, Held

\* It was refused, or failed.
LEMMA StartOverStep == ASSUME MacInv, StartRefused \/ StartFails PROVE MacInv'
<1>1. /\ UNCHANGED <<engineVars, queue, helper, owner, task, child, faulty, sessions, cancelled,
                     timer, looseTimers, preference, proc, taken>>
      /\ starting' = NotStarting
      /\ reconcile' = [reconcile EXCEPT !["exec"] = NotReconciling]
      /\ reconcile["exec"].step \in Commands
      /\ \E e \in {Exited(starting.gen, 1), Failed(starting.gen)} : events' = Append(events, e)
  BY DEF StartRefused, StartFails, MayStart, StartOver, StartUnchanged, sessionVars, timerVars,
     helperVars, Commands
<1>2. /\ starting.gen = active /\ active # NoGeneration /\ ~In(queue, {Start(active)})
      /\ \A g \in Generations : task[g] \notin Live
  BY <1>1, WhileStarting
<1>3. EngineInv' /\ QueuesTyped' /\ OnlyActive' /\ FreshTasks' /\ OneTrace' /\ StopFollows'
  <2>1. PICK e \in {Exited(active, 1), Failed(active)} : events' = Append(events, e)
    BY <1>1, <1>2
  <2> QED
    BY <1>1, <1>2, <2>1, EndTold
<1>4. MacTyped'
  BY <1>1 DEF MacInv, MacTyped, Starts, Reconciliations
<1>5. SessionsHeld' /\ ChildrenHaveTasks'
  BY <1>1 DEF MacInv, SessionsHeld, Held, ChildrenHaveTasks, Busy
<1>6. HelperReady'
  <2>1. reconcile'["exec"].step # "ok"
    BY <1>1 DEF MacInv, MacTyped, NotReconciling
  <2> QED
    BY <1>1, <2>1 DEF MacInv, HelperReady
<1> QED
  BY <1>3, <1>4, <1>5, <1>6 DEF MacInv

\* A second reconciliation.
LEMMA StartAgainStep == ASSUME MacInv, StartAgain PROVE MacInv'
<1>1. /\ UNCHANGED <<engineVars, queue, events, helper, owner, task, child, faulty, sessions,
                     cancelled, timer, looseTimers, preference, proc, taken>>
      /\ starting' = [starting EXCEPT !.pc = "unblocking"]
      /\ reconcile' = [reconcile EXCEPT !["exec"] = NewReconciliation]
      /\ reconcile["exec"].step \in Commands
  BY DEF StartAgain, StartUnchanged, sessionVars, timerVars, helperVars, Commands
<1>2. /\ starting # NotStarting /\ starting.gen = active /\ active # NoGeneration
      /\ active \in Generations
  BY <1>1, WhileStarting
<1>3. /\ starting' \in Starts /\ starting' # NotStarting /\ starting'.gen = active
  <2>1. starting \in [gen : Generations, pc : {"reconciling", "unblocking"}]
    BY <1>2 DEF MacInv, MacTyped, Starts
  <2>2. starting' \in [gen : Generations, pc : {"reconciling", "unblocking"}]
        /\ starting'.gen = starting.gen /\ starting'.pc = "unblocking"
    BY <1>1, <2>1
  <2> QED
    BY <1>2, <2>2 DEF Starts, NotStarting, NoGeneration
<1>4. /\ EngineInv' /\ active' = active /\ stopRequested' = stopRequested
      /\ EventsSoFar' = EventsSoFar
  BY <1>1, EngineAtRest
<1>5. QueuesTyped' /\ OnlyActive'
  BY <1>1, <1>3, <1>4 DEF MacInv, QueuesTyped, OnlyActive, Held
<1>6. OneTrace' /\ StopFollows'
  BY <1>1, <1>2, <1>3, <1>4 DEF MacInv, OneTrace, StopFollows, Held
<1>7. MacTyped'
  <2>1. /\ NewReconciliation \in Reconciliations /\ NewReconciliation # NotReconciling
    BY MacAssumption DEF NewReconciliation, NotReconciling, Reconciliations, Commands
  <2>2. reconcile' \in [{"main", "exec"} -> Reconciliations] /\ reconcile'["exec"] # NotReconciling
    BY <1>1, <2>1 DEF MacInv, MacTyped
  <2> QED
    BY <1>1, <1>3, <2>2 DEF MacInv, MacTyped
<1>8. SessionsHeld' /\ ChildrenHaveTasks'
  BY <1>1 DEF MacInv, SessionsHeld, Held, ChildrenHaveTasks, Busy
<1>9. HelperReady'
  <2>1. reconcile'["exec"].step # "ok"
    BY <1>1 DEF MacInv, MacTyped, NewReconciliation
  <2> QED
    BY <1>1, <2>1 DEF MacInv, HelperReady
<1>10. FreshTasks'
  BY <1>1, <1>2, <1>4, EngineAtRest, FreshKept
<1> QED
  BY <1>4, <1>5, <1>6, <1>7, <1>8, <1>9, <1>10 DEF MacInv

\* The session is spawned and put in the map.
LEMMA StartSessionStep == ASSUME MacInv, StartSession PROVE MacInv'
<1> DEFINE g == starting.gen
<1>1. /\ UNCHANGED <<engineVars, queue, events, helper, owner, child, faulty, cancelled,
                     timer, looseTimers, preference, proc, taken>>
      /\ task' = [task EXCEPT ![g] = "spawned"] /\ sessions' = sessions \union {g}
      /\ starting' = NotStarting
      /\ reconcile' = [reconcile EXCEPT !["exec"] = NotReconciling]
      /\ reconcile["exec"].step = "ok"
  BY DEF StartSession, MayStart, StartOver, StartUnchanged, timerVars, helperVars
<1>2. /\ starting # NotStarting /\ g = active /\ active # NoGeneration
      /\ g \in Generations /\ ~In(queue, {Start(active)}) /\ ~In(events, EndsOf(active))
      /\ \A h \in Generations : task[h] \notin Live
  BY <1>1, WhileStarting DEF Commands
<1> HIDE DEF g
<1>3. /\ task'[g] = "spawned" /\ \A h \in Generations : h # g => task'[h] = task[h]
  BY <1>1, <1>2 DEF MacInv, MacTyped
<1>4. /\ EngineInv' /\ active' = active /\ stopRequested' = stopRequested
      /\ EventsSoFar' = EventsSoFar /\ queue' = queue /\ events' = events
  BY <1>1, EngineAtRest
<1>5. "spawned" \in Live /\ "spawned" \in Early
  BY DEF Live, Early
<1>6. QueuesTyped' /\ OnlyActive'
  BY <1>1, <1>2, <1>3, <1>4 DEF MacInv, QueuesTyped, OnlyActive, Held
<1>7. OneTrace'
  BY <1>1, <1>2, <1>3, <1>4, <1>5 DEF MacInv, OneTrace, Held
<1>8. StopFollows'
  BY <1>1, <1>2, <1>4 DEF MacInv, StopFollows
<1>9. MacTyped'
  BY <1>1, <1>2 DEF MacInv, MacTyped, Starts, Reconciliations
<1>10. SessionsHeld'
  BY <1>1, <1>2, <1>3, <1>5 DEF MacInv, SessionsHeld, Held
<1>11. ChildrenHaveTasks'
  <2>1. \A h \in Generations : Busy(h) => task[h] = "abandoned"
    BY <1>2 DEF MacInv, ChildrenHaveTasks
  <2>2. ~Busy(g)
    BY <1>2, <2>1 DEF MacInv, FreshTasks
  <2> QED
    BY <1>1, <1>2, <1>3, <2>1, <2>2 DEF ChildrenHaveTasks, Busy
<1>12. HelperReady'
  BY <1>1 DEF MacInv, HelperReady
<1>13. FreshTasks'
  <2>1. Started' = Started /\ g \in Started
    BY <1>1, <1>2, EngineAtRest, GenerationNumbers DEF MacInv
  <2> QED
    BY <1>1, <1>2, <1>3, <1>4, <2>1 DEF MacInv, FreshTasks
<1> QED
  BY <1>4, <1>6, <1>7, <1>8, <1>9, <1>10, <1>11, <1>12, <1>13 DEF MacInv

-----------------------------------------------------------------------------
(* The helper. *)

\* Nothing but a launch makes a helper run that was stopped.
Settled ==
  /\ helper' \in {"stopped", "running", "repair"} /\ owner' \in Generations \union {0}
  /\ helper = "stopped" => helper' = "stopped"
  /\ owner' # 0 => helper' = "running"

\* So for the helper's commands.
LEMMA CommandsSettle ==
  ASSUME MacInv, UNCHANGED helperVars \/ HelperStop \/ HelperRepair
  PROVE  Settled
BY DEF MacInv, MacTyped, HelperReady, HelperStop, HelperRepair, helperVars, Settled

\* A reconciliation in progress, and what becomes of it.
LEMMA ReconciliationsTyped ==
  ASSUME MacInv, NEW c \in {"main", "exec"}, reconcile[c].step \in {"status", "stop", "repair"},
         NEW step \in Commands
  PROVE  /\ [reconcile[c] EXCEPT !.step = step] \in Reconciliations
         /\ [reconcile[c] EXCEPT !.step = step].step = step
         /\ reconcile[c].left # 1 => [step |-> "status", left |-> reconcile[c].left - 1] \in Reconciliations
<1>1. reconcile[c] \in [step : Commands, left : 1 .. Attempts]
  BY DEF MacInv, MacTyped, Reconciliations, NotReconciling
<1> DEFINE r == reconcile[c]
<1> HIDE DEF r
<1>2. r \in [step : Commands, left : 1 .. Attempts]
  BY <1>1 DEF r
<1>3. /\ [r EXCEPT !.step = step] \in [step : Commands, left : 1 .. Attempts]
      /\ [r EXCEPT !.step = step].step = step
  BY <1>2
<1>4. r.left # 1 => r.left - 1 \in 1 .. Attempts
  BY <1>2, MacAssumption
<1>5. r.left # 1 => [step |-> "status", left |-> r.left - 1] \in Reconciliations
  BY <1>4 DEF Reconciliations, Commands
<1> QED
  BY <1>3, <1>5 DEF r, Reconciliations

\* What the next step of a reconciliation may be.
LEMMA ReconciliationMoves ==
  ASSUME MacInv, NEW c \in {"main", "exec"}, reconcile[c].step \in {"status", "stop", "repair"},
         TryAgain(c) \/ \E step \in Commands : Settle(c, step)
  PROVE  /\ reconcile' \in [{"main", "exec"} -> Reconciliations]
         /\ reconcile'[c].step \in Commands
         /\ TryAgain(c) => reconcile'[c].step # "ok"
         /\ \A d \in {"main", "exec"} : d # c => reconcile'[d] = reconcile[d]
<1>1. \A step \in Commands :
        /\ [reconcile[c] EXCEPT !.step = step] \in Reconciliations
        /\ [reconcile[c] EXCEPT !.step = step].step = step
  BY ReconciliationsTyped
<1>2. reconcile[c].left # 1 => [step |-> "status", left |-> reconcile[c].left - 1] \in Reconciliations
  BY ReconciliationsTyped DEF Commands
<1>3. reconcile \in [{"main", "exec"} -> Reconciliations]
  BY DEF MacInv, MacTyped
<1>4. CASE TryAgain(c)
  <2> DEFINE next == IF reconcile[c].left = 1 THEN [reconcile[c] EXCEPT !.step = "failed"]
                     ELSE [step |-> "status", left |-> reconcile[c].left - 1]
  <2>1. next \in Reconciliations /\ next.step \in Commands /\ next.step # "ok"
    <3>1. CASE reconcile[c].left = 1
      BY <1>1, <3>1 DEF Commands
    <3>2. CASE reconcile[c].left # 1
      BY <1>2, <3>2 DEF Commands
    <3> QED
      BY <3>1, <3>2
  <2>2. reconcile' = [reconcile EXCEPT ![c] = next]
    BY <1>4 DEF TryAgain
  <2> HIDE DEF next
  <2> QED
    BY <1>3, <2>1, <2>2
<1>5. ASSUME NEW step \in Commands, Settle(c, step), ~TryAgain(c)
      PROVE  /\ reconcile' \in [{"main", "exec"} -> Reconciliations]
             /\ reconcile'[c].step \in Commands
             /\ \A d \in {"main", "exec"} : d # c => reconcile'[d] = reconcile[d]
  <2> DEFINE next == [reconcile[c] EXCEPT !.step = step]
  <2>1. next \in Reconciliations /\ next.step \in Commands
    BY <1>1
  <2>2. reconcile' = [reconcile EXCEPT ![c] = next]
    BY <1>5 DEF Settle
  <2> HIDE DEF next
  <2> QED
    BY <1>3, <2>1, <2>2
<1> QED
  BY <1>4, <1>5

\* A step of a reconciliation.
LEMMA ReconcileStep == ASSUME MacInv, NEW c \in {"main", "exec"}, Reconcile(c) PROVE MacInv'
<1>1. /\ UNCHANGED <<engineVars, queue, events, task, child, faulty, sessions, cancelled, starting,
                     timer, looseTimers, preference, proc, taken>>
  BY DEF Reconcile, sessionVars, timerVars, procVars
<1>2. Settled
  BY CommandsSettle DEF Reconcile, ReconcileStatus, ReconcileCommand
<1>3. /\ reconcile[c].step \in {"status", "stop", "repair"}
      /\ TryAgain(c) \/ \E step \in Commands : Settle(c, step)
  BY DEF Reconcile, ReconcileStatus, ReconcileCommand, Commands
<1>4. /\ reconcile' \in [{"main", "exec"} -> Reconciliations]
      /\ reconcile'[c].step \in Commands
      /\ TryAgain(c) => reconcile'[c].step # "ok"
      /\ \A d \in {"main", "exec"} : d # c => reconcile'[d] = reconcile[d]
  BY <1>3, ReconciliationMoves
<1>5. reconcile'[c].step = "ok" => helper' = "stopped"
  <2>1. CASE ReconcileStatus(c)
    <3>1. CASE TryAgain(c)
      BY <1>4, <3>1
    <3>2. CASE helper = "stopped"
      BY <1>2, <3>2 DEF Settled
    <3>3. ASSUME NEW step \in {"stop", "repair"}, Settle(c, step) PROVE reconcile'[c].step # "ok"
      <4>1. [reconcile[c] EXCEPT !.step = step].step = step
        BY <1>3, ReconciliationsTyped DEF Commands
      <4> QED
        BY <3>3, <4>1 DEF Settle, MacInv, MacTyped
    <3> QED
      BY <2>1, <3>1, <3>2, <3>3 DEF ReconcileStatus
  <2>2. CASE ReconcileCommand(c)
    BY <1>4, <2>2 DEF ReconcileCommand
  <2> QED
    BY <2>1, <2>2 DEF Reconcile
<1>6. QueuesTyped /\ events \in Seq(EventsSoFar)
  BY DEF MacInv, QueuesTyped
<1>7. EngineInv' /\ QueuesTyped' /\ OnlyActive' /\ FreshTasks' /\ OneTrace' /\ StopFollows'
  BY <1>1, <1>6, ConnectionUntouched
<1>8. MacTyped'
  <2>1. starting' = NotStarting <=> reconcile'["exec"] = NotReconciling
    <3>1. starting = NotStarting <=> reconcile["exec"] = NotReconciling
      BY DEF MacInv, MacTyped
    <3>2. reconcile[c] # NotReconciling /\ reconcile'[c] # NotReconciling
      BY <1>3, <1>4 DEF Commands, NotReconciling
    <3> QED
      BY <1>1, <1>4, <3>1, <3>2
  <2> QED
    BY <1>1, <1>2, <1>4, <2>1 DEF MacInv, MacTyped, Settled
<1>9. SessionsHeld' /\ ChildrenHaveTasks'
  BY <1>1 DEF MacInv, SessionsHeld, Held, ChildrenHaveTasks, Busy
<1>10. HelperReady'
  BY <1>1, <1>2, <1>4, <1>5 DEF MacInv, HelperReady, Settled
<1> QED
  BY <1>7, <1>8, <1>9, <1>10 DEF MacInv

\* A helper that lost its parent ends.
LEMMA OrphanEndsStep == ASSUME MacInv, OrphanEnds PROVE MacInv'
<1>1. UNCHANGED <<engineVars, queue, events, task, child, faulty, sessions, cancelled, starting,
                  reconcile, timer, looseTimers, preference, proc, taken>>
  BY DEF OrphanEnds, sessionVars, startVars, timerVars, procVars
<1>2. Settled
  BY DEF OrphanEnds, Settled, MacInv, MacTyped
<1>3. events \in Seq(EventsSoFar)
  BY DEF MacInv, QueuesTyped
<1>4. EngineInv' /\ QueuesTyped' /\ OnlyActive' /\ FreshTasks' /\ OneTrace' /\ StopFollows'
  BY <1>1, <1>3, ConnectionUntouched
<1>5. MacTyped'
  BY <1>1, <1>2 DEF MacInv, MacTyped, Settled
<1>6. SessionsHeld' /\ ChildrenHaveTasks' /\ HelperReady'
  BY <1>1, <1>2 DEF MacInv, SessionsHeld, Held, ChildrenHaveTasks, HelperReady, Busy, Settled
<1> QED
  BY <1>4, <1>5, <1>6 DEF MacInv

\* A step of the task that owns a helper process.
LEMMA ChildStepStep == ASSUME MacInv, NEW g \in Generations, ChildStep(g) PROVE MacInv'
<1>1. UNCHANGED <<engineVars, queue, events, task, sessions, cancelled, starting,
                  reconcile, timer, looseTimers, preference, proc, taken>>
  BY DEF ChildStep, ChildExits, ChildFaults, ChildCancelled, ChildTerminated, ChildChecks,
     ChildRepairs, ChildUnchanged, startVars, timerVars, procVars
<1>2. g # 0
  BY EngineAssumption DEF Generations
<1>3. Settled
  <2>1. CASE HelperRepair \/ UNCHANGED helperVars
    BY <2>1, CommandsSettle
  <2>2. CASE owner = g /\ owner' = 0 /\ helper' \in {"stopped", "repair", "running"}
    BY <1>2, <2>2 DEF Settled, MacInv, HelperReady
  <2> QED
    BY <2>1, <2>2 DEF ChildStep, ChildExits, ChildFaults, ChildCancelled, ChildTerminated,
       ChildChecks, ChildRepairs
<1>4. /\ Busy(g)
      /\ \E step \in {"run", "term", "status", "repair", "recheck"} \union ChildResults :
           child' = [child EXCEPT ![g] = step]
      /\ faulty' \subseteq Generations
  BY DEF ChildStep, ChildExits, ChildFaults, ChildCancelled, ChildTerminated, ChildChecks,
     ChildRepairs, ChildBecomes, ChildResults, Busy, MacInv, MacTyped
<1>5. events \in Seq(EventsSoFar)
  BY DEF MacInv, QueuesTyped
<1>6. EngineInv' /\ QueuesTyped' /\ OnlyActive' /\ FreshTasks' /\ OneTrace' /\ StopFollows'
  BY <1>1, <1>5, ConnectionUntouched
<1>7. MacTyped'
  BY <1>1, <1>3, <1>4 DEF MacInv, MacTyped, Settled
<1>8. SessionsHeld' /\ HelperReady'
  BY <1>1, <1>3 DEF MacInv, SessionsHeld, Held, HelperReady, Settled
<1>9. ChildrenHaveTasks'
  <2>1. \A h \in Generations : h # g => child'[h] = child[h]
    BY <1>4 DEF MacInv, MacTyped
  <2> QED
    BY <1>1, <1>4, <2>1 DEF MacInv, ChildrenHaveTasks, Busy
<1> QED
  BY <1>6, <1>7, <1>8, <1>9 DEF MacInv

-----------------------------------------------------------------------------
(* The task of a session. *)

\* A session that has not told its end is the active one, and nothing else is there of it.
LEMMA WhileHeld ==
  ASSUME MacInv, NEW g \in Generations, task[g] \in Live
  PROVE  /\ g = active /\ active # NoGeneration /\ g \in Nat /\ g \in Started
         /\ ~In(queue, {Start(g)}) /\ ~In(events, EndsOf(g))
         /\ starting = NotStarting /\ reconcile["exec"] = NotReconciling
         /\ \A h \in Generations : h # g => task[h] \notin Live
<1>1. g = active /\ active # NoGeneration /\ g \in Nat /\ g \in Started
  BY GenerationNumbers DEF MacInv, OnlyActive, Held
<1>2. ~In(queue, {Start(g)}) /\ ~In(events, EndsOf(g)) /\ starting = NotStarting
  BY <1>1 DEF MacInv, OneTrace, Held
<1> QED
  BY <1>1, <1>2 DEF MacInv, MacTyped, OnlyActive, Held

\* A session goes on, and is still one.
LEMMA SessionGoesOn ==
  ASSUME MacInv, NEW g \in Generations,
         UNCHANGED <<engineVars, queue, faulty, sessions, cancelled, starting,
                     reconcile, timer, looseTimers, preference, proc, taken>>,
         NEW step \in Live, task[g] \in Live, task' = [task EXCEPT ![g] = step],
         step \in Early => task[g] \in Early, step # "spawned",
         NEW c, child' = [child EXCEPT ![g] = c], c = "run" \/ c = child[g],
         task[g] = "spawned" => c = "run",
         events' \in Seq(EventsSoFar),
         \A h \in Nat : In(events', EndsOf(h)) <=> In(events, EndsOf(h)),
         Settled \/ (/\ helper = "stopped" /\ helper' = "running" /\ owner' = g
                     /\ task[g] = "spawned")
  PROVE  MacInv'
<1>1. /\ g = active /\ starting = NotStarting /\ reconcile["exec"] = NotReconciling
      /\ \A h \in Generations : h # g => task[h] \notin Live
  BY WhileHeld
<1>2. /\ task'[g] = step /\ \A h \in Generations : h # g => task'[h] = task[h]
      /\ child'[g] = c /\ \A h \in Generations : h # g => child'[h] = child[h]
  BY DEF MacInv, MacTyped
<1>3. "none" \notin Live /\ "spawned" \in Live
  BY DEF Live, Early
<1>4. EngineInv' /\ QueuesTyped' /\ OnlyActive' /\ FreshTasks' /\ OneTrace' /\ StopFollows'
  <2>1. \A h \in Generations : /\ task'[h] \in Live <=> task[h] \in Live
                               /\ task[h] = "none" => task'[h] = "none"
    BY <1>2, <1>3
  <2>2. \A h \in sessions' : /\ h \in sessions
                             /\ task'[h] \in Early => task[h] \in Early
                             /\ h \in cancelled => h \in cancelled'
    BY <1>2 DEF MacInv, MacTyped
  <2> QED
    BY <2>1, <2>2, ConnectionUntouched
<1>5. MacTyped'
  <2>1. c \in {"none", "run", "term", "status", "repair", "recheck"} \union ChildResults
    BY DEF MacInv, MacTyped
  <2>2. helper' \in {"stopped", "running", "repair"} /\ owner' \in Generations \union {0}
    BY DEF Settled
  <2>3. step \in {"spawned", "connecting", "established", "stopping", "deadline"}
    BY DEF Live, Early
  <2> QED
    BY <2>1, <2>2, <2>3 DEF MacInv, MacTyped
<1>6. SessionsHeld'
  BY <1>2 DEF MacInv, MacTyped, SessionsHeld, Held
<1>7. ChildrenHaveTasks'
  BY <1>2 DEF MacInv, ChildrenHaveTasks, Busy
<1>8. HelperReady'
  <2>1. \A h \in Generations : task'[h] = "spawned" => FALSE
    BY <1>1, <1>2, <1>3
  <2>2. reconcile'["exec"].step # "ok"
    BY <1>1 DEF NotReconciling
  <2>3. owner' # 0 => helper' = "running"
    BY DEF Settled
  <2> QED
    BY <2>1, <2>2, <2>3 DEF HelperReady
<1> QED
  BY <1>4, <1>5, <1>6, <1>7, <1>8 DEF MacInv

\* A session has told its end and leaves the map.
LEMMA SessionLeaves ==
  ASSUME MacInv, NEW g \in Generations, task[g] \in Live,
         UNCHANGED <<engineVars, queue, helper, owner, starting,
                     reconcile, timer, looseTimers, preference, proc, taken>>,
         NEW step \in {"none", "abandoned"}, task' = [task EXCEPT ![g] = step],
         sessions' = sessions \ {g}, cancelled' = cancelled \ {g}, faulty' \subseteq faulty,
         NEW c \in {"none"} \union ChildResults \union {child[g]},
         child' = [child EXCEPT ![g] = c],
         step = "none" => c \in {"none"} \union ChildResults,
         \E e \in {Exited(g, 0), Exited(g, 1), Failed(g), TimedOut(g)} : events' = Append(events, e)
  PROVE  MacInv'
<1>1. /\ g = active /\ active # NoGeneration /\ ~In(queue, {Start(g)})
      /\ starting = NotStarting /\ \A h \in Generations : h # g => task[h] \notin Live
  BY WhileHeld
<1>2. /\ task'[g] = step /\ \A h \in Generations : h # g => task'[h] = task[h]
      /\ child'[g] = c /\ \A h \in Generations : h # g => child'[h] = child[h]
  BY DEF MacInv, MacTyped
<1>3. {"none", "abandoned"} \intersect Live = {} /\ "spawned" \in Live
  BY DEF Live, Early
<1>4. EngineInv' /\ QueuesTyped' /\ OnlyActive' /\ FreshTasks' /\ OneTrace' /\ StopFollows'
  <2>1. \A h \in Generations : task'[h] \notin Live /\ (task[h] = "none" => task'[h] = "none")
    BY <1>1, <1>2, <1>3
  <2>2. PICK e \in {Exited(active, 0), Exited(active, 1), Failed(active), TimedOut(active)} :
          events' = Append(events, e)
    BY <1>1
  <2> QED
    BY <1>1, <2>1, <2>2, EndTold
<1>5. MacTyped'
  <2>1. c \in {"none", "run", "term", "status", "repair", "recheck"} \union ChildResults
    BY DEF MacInv, MacTyped
  <2> QED
    BY <2>1 DEF MacInv, MacTyped
<1>6. SessionsHeld'
  BY <1>1, <1>2, <1>3 DEF MacInv, MacTyped, SessionsHeld, Held
<1>7. ChildrenHaveTasks'
  BY <1>2 DEF MacInv, ChildrenHaveTasks, Busy
<1>8. HelperReady'
  BY <1>2, <1>3 DEF MacInv, HelperReady
<1> QED
  BY <1>4, <1>5, <1>6, <1>7, <1>8 DEF MacInv

\* The steps after which a session is still one.
LEMMA SessionStays ==
  ASSUME MacInv, NEW g \in Generations,
         \/ Establish(g) \/ CancelSeen(g) \/ DeadlinePasses(g)
         \/ Launch(g) /\ task'[g] = "connecting"
  PROVE  MacInv'
<1>1. /\ UNCHANGED <<engineVars, queue, starting, reconcile, timer, looseTimers, preference,
                     proc, taken>>
      /\ events \in Seq(EventsSoFar) /\ child = [child EXCEPT ![g] = child[g]]
      /\ UNCHANGED helperVars => Settled
  <2>1. /\ events \in Seq(EventsSoFar) /\ child = [child EXCEPT ![g] = child[g]]
        /\ UNCHANGED helperVars => Settled
    BY CommandsSettle DEF MacInv, QueuesTyped, MacTyped
  <2> QED
    BY <2>1 DEF Establish, CancelSeen, DeadlinePasses, Launch, TaskUnchanged,
       startVars, timerVars, procVars
<1>2. {"spawned", "connecting", "established", "stopping", "deadline"} = Live
      /\ {"spawned", "connecting", "established"} = Early
  BY DEF Live, Early
<1>3. CASE Establish(g)
  <2>1. /\ task[g] = "connecting" /\ child[g] = "run" /\ task' = [task EXCEPT ![g] = "established"]
        /\ events' = Append(events, Connected(g))
        /\ UNCHANGED <<faulty, sessions, cancelled, child>> /\ UNCHANGED helperVars
    BY <1>3 DEF Establish, TaskBecomes
  <2>2. g \in Started
    BY <1>2, <2>1, WhileHeld
  <2>3. Connected(g) \in EventsSoFar /\ \A h : Connected(g) \notin EndsOf(h)
    BY <2>2, EventsTyped DEF MacInv
  <2>4. /\ events' \in Seq(EventsSoFar)
        /\ \A h \in Nat : In(events', EndsOf(h)) <=> In(events, EndsOf(h))
    BY <2>1, <2>3, EventSent
  <2>5. "established" \in Live /\ "connecting" \in Early /\ task[g] \in Live
    BY <1>2, <2>1
  <2>6. child' = [child EXCEPT ![g] = child[g]]
    BY <1>1, <2>1
  <2> QED
    BY <1>1, <2>1, <2>4, <2>5, <2>6, SessionGoesOn
<1>4. CASE CancelSeen(g) \/ DeadlinePasses(g)
  <2>1. /\ task[g] \in {"connecting", "established"}
        /\ \E step \in {"stopping", "deadline"} : task' = [task EXCEPT ![g] = step]
        /\ UNCHANGED <<events, faulty, sessions, cancelled, child>> /\ UNCHANGED helperVars
    BY <1>4 DEF CancelSeen, DeadlinePasses, TaskBecomes
  <2>2. PICK step \in {"stopping", "deadline"} : task' = [task EXCEPT ![g] = step]
    BY <2>1
  <2>3. step \in Live /\ step \notin Early /\ task[g] \in Live /\ step # "spawned"
        /\ task[g] # "spawned"
    BY <1>2, <2>1, <2>2
  <2>4. child' = [child EXCEPT ![g] = child[g]] /\ events' \in Seq(EventsSoFar)
    BY <1>1, <2>1
  <2> QED
    BY <1>1, <2>1, <2>2, <2>3, <2>4, SessionGoesOn
<1>5. CASE Launch(g) /\ task'[g] = "connecting"
  <2>1. /\ task[g] = "spawned" /\ task' = [task EXCEPT ![g] = "connecting"]
        /\ child' = [child EXCEPT ![g] = "run"]
        /\ UNCHANGED <<events, faulty, sessions, cancelled>>
        /\ \/ helper = "stopped" /\ helper' = "running" /\ owner' = g
           \/ UNCHANGED helperVars
    <3>1. task' = [task EXCEPT ![g] = "none"] => task'[g] # "connecting"
      BY DEF MacInv, MacTyped
    <3> QED
      BY <1>5, <3>1 DEF Launch, TaskBecomes, ChildBecomes
  <2>2. "connecting" \in Live /\ "spawned" \in Live /\ "spawned" \in Early
    BY <1>2
  <2>3. events' \in Seq(EventsSoFar)
    BY <1>1, <2>1
  <2> QED
    BY <1>1, <2>1, <2>2, <2>3, SessionGoesOn
<1> QED
  BY <1>3, <1>4, <1>5

\* The steps with which a session ends.
LEMMA SessionEnds ==
  ASSUME MacInv, NEW g \in Generations,
         Publish(g) \/ Abandon(g) \/ (Launch(g) /\ task'[g] # "connecting")
  PROVE  MacInv'
<1>1. UNCHANGED <<engineVars, queue, starting, reconcile, timer, looseTimers, preference,
                  proc, taken, helper, owner>>
  <2>1. task' = [task EXCEPT ![g] = "connecting"] => task'[g] = "connecting"
    BY DEF MacInv, MacTyped
  <2> QED
    BY <2>1 DEF Publish, Abandon, Launch, TaskBecomes, TaskUnchanged, startVars, timerVars,
       procVars, helperVars
<1>2. {"spawned", "connecting", "established", "stopping", "deadline"} = Live
  BY DEF Live, Early
<1>3. CASE Publish(g)
  <2>1. /\ task[g] \in Live /\ task' = [task EXCEPT ![g] = "none"]
        /\ child[g] \in ChildResults /\ Forget(g, child[g])
    BY <1>2, <1>3 DEF Publish, TaskBecomes
  <2>2. \E e \in {Exited(g, 0), Exited(g, 1), Failed(g), TimedOut(g)} : events' = Append(events, e)
    BY <1>3 DEF Publish, Outcome
  <2>3. /\ sessions' = sessions \ {g} /\ cancelled' = cancelled \ {g} /\ faulty' \subseteq faulty
        /\ \E c \in {"none"} \union ChildResults : child' = [child EXCEPT ![g] = c]
    BY <2>1 DEF Forget
  <2> QED
    BY <1>1, <2>1, <2>2, <2>3, SessionLeaves
<1>4. CASE Abandon(g)
  <2>1. /\ task[g] \in Live /\ task' = [task EXCEPT ![g] = "abandoned"]
        /\ sessions' = sessions \ {g} /\ cancelled' = cancelled \ {g} /\ faulty' = faulty
        /\ child' = child
    BY <1>2, <1>4 DEF Abandon, TaskBecomes
  <2>2. \E e \in {Exited(g, 0), Exited(g, 1), Failed(g), TimedOut(g)} : events' = Append(events, e)
    BY <1>4 DEF Abandon, Outcome
  <2>3. child' = [child EXCEPT ![g] = child[g]]
    BY <2>1 DEF MacInv, MacTyped
  <2> QED
    BY <1>1, <2>1, <2>2, <2>3, SessionLeaves
<1>5. CASE Launch(g) /\ task'[g] # "connecting"
  <2>1. /\ task[g] = "spawned" /\ task' = [task EXCEPT ![g] = "none"]
        /\ Forget(g, "error") /\ events' = Append(events, Exited(g, 1))
    <3>1. task' = [task EXCEPT ![g] = "connecting"] => task'[g] = "connecting"
      BY DEF MacInv, MacTyped
    <3> QED
      BY <1>5, <3>1 DEF Launch, TaskBecomes
  <2>2. /\ sessions' = sessions \ {g} /\ cancelled' = cancelled \ {g} /\ faulty' \subseteq faulty
        /\ \E c \in {"none"} \union ChildResults : child' = [child EXCEPT ![g] = c]
    BY <2>1 DEF Forget, ChildResults
  <2>3. task[g] \in Live
    BY <1>2, <2>1
  <2> QED
    BY <1>1, <2>1, <2>2, <2>3, SessionLeaves
<1> QED
  BY <1>3, <1>4, <1>5

\* The cleanup of a session that was given up is over.
LEMMA AbandonedEndsStep == ASSUME MacInv, NEW g \in Generations, AbandonedEnds(g) PROVE MacInv'
<1>1. /\ UNCHANGED <<engineVars, queue, events, helper, owner, sessions, cancelled, starting,
                     reconcile, timer, looseTimers, preference, proc, taken>>
      /\ task[g] = "abandoned" /\ task' = [task EXCEPT ![g] = "none"]
      /\ child' = [child EXCEPT ![g] = "none"] /\ faulty' \subseteq faulty
  BY DEF AbandonedEnds, TaskBecomes, ChildBecomes, TaskUnchanged, helperVars, startVars, timerVars,
     procVars
<1>2. /\ task'[g] = "none" /\ \A h \in Generations : h # g => task'[h] = task[h]
      /\ child'[g] = "none" /\ \A h \in Generations : h # g => child'[h] = child[h]
  BY <1>1 DEF MacInv, MacTyped
<1>3. "none" \notin Live /\ "abandoned" \notin Live /\ "none" \notin Early
  BY DEF Live, Early
<1>4. EngineInv' /\ QueuesTyped' /\ OnlyActive' /\ FreshTasks' /\ OneTrace' /\ StopFollows'
  <2>1. events' \in Seq(EventsSoFar)
    BY <1>1 DEF MacInv, QueuesTyped
  <2>2. \A h \in Generations : /\ task'[h] \in Live <=> task[h] \in Live
                               /\ task[h] = "none" => task'[h] = "none"
    BY <1>1, <1>2, <1>3
  <2>3. \A h \in sessions' : task'[h] \in Early => task[h] \in Early
    BY <1>1, <1>2, <1>3 DEF MacInv, MacTyped
  <2> QED
    BY <1>1, <2>1, <2>2, <2>3, ConnectionUntouched
<1>5. MacTyped'
  BY <1>1 DEF MacInv, MacTyped
<1>6. SessionsHeld'
  BY <1>1, <1>2, <1>3 DEF MacInv, MacTyped, SessionsHeld, Held
<1>7. ChildrenHaveTasks' /\ HelperReady'
  BY <1>1, <1>2 DEF MacInv, ChildrenHaveTasks, HelperReady, Busy
<1> QED
  BY <1>4, <1>5, <1>6, <1>7 DEF MacInv

\* A step of a session.
LEMMA SessionStepStep == ASSUME MacInv, NEW g \in Generations, SessionStep(g) PROVE MacInv'
BY SessionStays, SessionEnds, AbandonedEndsStep DEF SessionStep

-----------------------------------------------------------------------------
(* Timers, and the end of the loop. *)

\* A timer fires, or a cancelled one is gone.
LEMMA TimersStep == ASSUME MacInv, TimerFires \/ LooseTimerEnds PROVE MacInv'
<1>1. /\ UNCHANGED <<engineVars, queue, helper, owner, task, child, faulty, sessions, cancelled,
                     starting, reconcile, preference, proc, taken>>
      /\ events' = events \/ events' = Append(events, Elapsed)
  BY DEF TimerFires, LooseTimerEnds, TimersOnly, helperVars, sessionVars, startVars, procVars
<1>2. timer' \in {"none", "armed"} /\ looseTimers' \in 0 .. MaxLooseTimers
  BY MacAssumption DEF TimerFires, LooseTimerEnds, MacInv, MacTyped
<1>3. /\ events' \in Seq(EventsSoFar)
      /\ \A g \in Nat : In(events', EndsOf(g)) <=> In(events, EndsOf(g))
  <2>1. Elapsed \in EventsSoFar /\ \A h : Elapsed \notin EndsOf(h)
    BY EventsTyped DEF MacInv
  <2>2. CASE events' = events
    BY <2>2 DEF MacInv, QueuesTyped
  <2>3. CASE events' = Append(events, Elapsed)
    BY <2>1, <2>3, EventSent
  <2> QED
    BY <1>1, <2>2, <2>3
<1>4. EngineInv' /\ QueuesTyped' /\ OnlyActive' /\ FreshTasks' /\ OneTrace' /\ StopFollows'
  BY <1>1, <1>3, ConnectionUntouched
<1>5. MacTyped'
  BY <1>1, <1>2 DEF MacInv, MacTyped
<1>6. SessionsHeld' /\ ChildrenHaveTasks' /\ HelperReady'
  BY <1>1 DEF MacInv, SessionsHeld, Held, ChildrenHaveTasks, HelperReady, Busy
<1> QED
  BY <1>4, <1>5, <1>6 DEF MacInv

-----------------------------------------------------------------------------
(* run_service. *)

\* The service's own steps leave the tasks and what was told alone.
LEMMA MainKeeps ==
  ASSUME MacInv,
         UNCHANGED <<engineVars, queue, events, helper, owner, starting, preference, task>>,
         faulty' \subseteq Generations, sessions' \subseteq sessions,
         cancelled \subseteq cancelled', cancelled' \subseteq Generations,
         reconcile' \in [{"main", "exec"} -> Reconciliations],
         reconcile'["exec"] = reconcile["exec"],
         child' \in [Generations -> {"none", "run", "term", "status", "repair", "recheck"}
                                      \union ChildResults],
         \A g \in Generations : child'[g] \in {child[g], "none"},
         timer' \in {"none", "armed"}, looseTimers' \in 0 .. MaxLooseTimers,
         proc' \in {"starting", "serving", "draining", "joining", "repairing", "stopped", "failed"},
         taken' \subseteq Generations,
         \A g \in sessions \union taken : Held(g) => g \in sessions' \union taken',
         proc' \notin {"joining", "repairing"} => taken' = {}
  PROVE  MacInv'
<1>1. EngineInv' /\ QueuesTyped' /\ OnlyActive' /\ FreshTasks' /\ OneTrace' /\ StopFollows'
  <2>1. /\ UNCHANGED <<engineVars, queue, starting>> /\ events' \in Seq(EventsSoFar)
        /\ events' = events /\ task' = task
    BY DEF MacInv, QueuesTyped
  <2>2. \A g \in Nat : In(events', EndsOf(g)) <=> In(events, EndsOf(g))
    BY <2>1
  <2>3. \A g \in Generations : /\ task'[g] \in Live <=> task[g] \in Live
                               /\ task[g] = "none" => task'[g] = "none"
    BY <2>1
  <2>4. \A g \in sessions' : /\ g \in sessions
                             /\ task'[g] \in Early => task[g] \in Early
                             /\ g \in cancelled => g \in cancelled'
    BY <2>1
  <2> QED
    BY <2>1, <2>2, <2>3, <2>4, ConnectionUntouched
<1>2. MacTyped'
  BY DEF MacInv, MacTyped
<1>3. SessionsHeld'
  BY DEF MacInv, MacTyped, SessionsHeld, Held
<1>4. ChildrenHaveTasks'
  BY DEF MacInv, ChildrenHaveTasks, Busy
<1>5. HelperReady'
  BY DEF MacInv, HelperReady
<1> QED
  BY <1>1, <1>2, <1>3, <1>4, <1>5 DEF MacInv

\* A reconciliation of main begins or is over.
LEMMA MainReconciles ==
  ASSUME MacInv, NEW r \in {NotReconciling, NewReconciliation},
         reconcile' = [reconcile EXCEPT !["main"] = r]
  PROVE  /\ reconcile' \in [{"main", "exec"} -> Reconciliations]
         /\ reconcile'["exec"] = reconcile["exec"]
<1>1. NewReconciliation \in Reconciliations
  <2>1. Attempts \in 1 .. Attempts
    BY MacAssumption
  <2> QED
    BY <2>1 DEF NewReconciliation, Reconciliations, Commands
<1>2. r \in Reconciliations
  BY <1>1 DEF Reconciliations
<1>3. reconcile \in [{"main", "exec"} -> Reconciliations]
  BY DEF MacInv, MacTyped
<1> HIDE DEF NotReconciling, NewReconciliation
<1> QED
  BY <1>2, <1>3

\* The service starts, serves and is told to end; the loop ends; a repair after a session is
\* done.
LEMMA PhaseStep ==
  ASSUME MacInv, Restart \/ Serve \/ Shutdown \/ Repaired \/ LoopEnds PROVE MacInv'
<1>1. /\ UNCHANGED <<engineVars, queue, events, helper, owner, starting, preference, task, child,
                     faulty, sessions, cancelled, timer, looseTimers, taken>>
      /\ \/ reconcile' = reconcile
         \/ \E r \in {NotReconciling, NewReconciliation} :
              reconcile' = [reconcile EXCEPT !["main"] = r]
  BY DEF Restart, Serve, Shutdown, Repaired, LoopEnds, MainOnly, sessionVars, timerVars,
         startVars, helperVars
<1>2. /\ proc' \in {"starting", "serving", "draining", "joining", "repairing", "stopped", "failed"}
      /\ proc' \notin {"joining", "repairing"} => taken' = {}
  BY DEF Restart, Serve, Shutdown, Repaired, LoopEnds, MacInv, MacTyped, SessionsHeld
<1>3. /\ reconcile' \in [{"main", "exec"} -> Reconciliations]
      /\ reconcile'["exec"] = reconcile["exec"]
  BY <1>1, MainReconciles DEF MacInv, MacTyped
<1>4. /\ timer \in {"none", "armed"} /\ looseTimers \in 0 .. MaxLooseTimers
      /\ faulty \subseteq Generations /\ cancelled \subseteq Generations
      /\ taken \subseteq Generations
      /\ child \in [Generations -> {"none", "run", "term", "status", "repair", "recheck"}
                                     \union ChildResults]
  BY DEF MacInv, MacTyped
<1> QED
  BY <1>1, <1>2, <1>3, <1>4, MainKeeps

\* shutdown_sessions takes the map, and joins one session after the other.
LEMMA TakeSessionsStep == ASSUME MacInv, TakeSessions PROVE MacInv'
<1>1. /\ UNCHANGED <<engineVars, queue, events, helper, owner, starting, preference, task, child,
                     faulty, reconcile>>
      /\ proc = "draining" /\ proc' = "joining" /\ taken' = sessions /\ sessions' = {}
      /\ cancelled' = cancelled \union sessions
  BY DEF TakeSessions, MainOnly, helperVars
<1>2. timer' \in {"none", "armed"} /\ looseTimers' \in 0 .. MaxLooseTimers
  BY TimerReplaced DEF TakeSessions
<1>3. /\ faulty \subseteq Generations /\ cancelled \subseteq Generations
      /\ sessions \subseteq Generations /\ taken = {}
      /\ reconcile \in [{"main", "exec"} -> Reconciliations]
      /\ child \in [Generations -> {"none", "run", "term", "status", "repair", "recheck"}
                                     \union ChildResults]
  BY <1>1 DEF MacInv, MacTyped, SessionsHeld
<1> QED
  BY <1>1, <1>2, <1>3, MainKeeps

LEMMA JoinStep ==
  ASSUME MacInv, NEW g \in Generations, JoinClean(g) \/ JoinRepairs(g) PROVE MacInv'
<1>1. /\ UNCHANGED <<engineVars, queue, events, helper, owner, starting, preference, task,
                     faulty, sessions, cancelled, timer, looseTimers>>
      /\ taken' = taken \ {g} /\ proc' \in {"joining", "repairing"}
      /\ task[g] \in {"none", "abandoned"}
      /\ child' = child \/ child' = [child EXCEPT ![g] = "none"]
      /\ \/ reconcile' = reconcile
         \/ \E r \in {NotReconciling, NewReconciliation} :
              reconcile' = [reconcile EXCEPT !["main"] = r]
  BY DEF JoinClean, JoinRepairs, Joined, MainOnly, timerVars, helperVars
<1>2. /\ reconcile' \in [{"main", "exec"} -> Reconciliations]
      /\ reconcile'["exec"] = reconcile["exec"]
  BY <1>1, MainReconciles DEF MacInv, MacTyped
<1>3. /\ timer \in {"none", "armed"} /\ looseTimers \in 0 .. MaxLooseTimers
      /\ faulty \subseteq Generations /\ cancelled \subseteq Generations
      /\ taken \subseteq Generations
      /\ child \in [Generations -> {"none", "run", "term", "status", "repair", "recheck"}
                                     \union ChildResults]
  BY DEF MacInv, MacTyped
<1>4. ~Held(g)
  BY <1>1 DEF Held, Live, Early
<1>5. /\ child' \in [Generations -> {"none", "run", "term", "status", "repair", "recheck"}
                                      \union ChildResults]
      /\ \A h \in Generations : child'[h] \in {child[h], "none"}
  BY <1>1, <1>3
<1> QED
  BY <1>1, <1>2, <1>3, <1>4, <1>5, MainKeeps

\* Nothing changes.
LEMMA NothingStep == ASSUME MacInv, UNCHANGED macVars PROVE MacInv'
<1>1. UNCHANGED <<engineVars, queue, events, helper, owner, starting, reconcile, preference, task,
                  child, faulty, sessions, cancelled, timer, looseTimers, taken, proc>>
  BY DEF macVars, helperVars, sessionVars, startVars, timerVars, procVars
<1>2. /\ timer \in {"none", "armed"} /\ looseTimers \in 0 .. MaxLooseTimers
      /\ faulty \subseteq Generations /\ cancelled \subseteq Generations
      /\ taken \subseteq Generations
      /\ child \in [Generations -> {"none", "run", "term", "status", "repair", "recheck"}
                                     \union ChildResults]
      /\ reconcile \in [{"main", "exec"} -> Reconciliations]
      /\ proc \in {"starting", "serving", "draining", "joining", "repairing", "stopped", "failed"}
      /\ proc \notin {"joining", "repairing"} => taken = {}
  BY DEF MacInv, MacTyped, SessionsHeld
<1> QED
  BY <1>1, <1>2, MainKeeps

\* A process that is not there: nothing is queued and no task runs; the helper may run, but
\* for nobody.
Ended ==
  /\ Init /\ preference \in BOOLEAN
  /\ helper \in {"stopped", "running", "repair"} /\ owner = 0
  /\ queue = <<>> /\ events = <<>>
  /\ task = Nothing /\ child = Nothing /\ faulty = {}
  /\ sessions = {} /\ cancelled = {} /\ taken = {}
  /\ starting = NotStarting
  /\ reconcile = [c \in {"main", "exec"} |-> NotReconciling]
  /\ timer = "none" /\ looseTimers = 0
  /\ proc \in {"stopped", "failed"}

LEMMA EndedInv == Ended => MacInv
<1> SUFFICES ASSUME Ended PROVE MacInv
  OBVIOUS
<1>1. EngineInv /\ active = NoGeneration /\ ~stopRequested
  BY EngineInvInit DEF Ended, Init
<1>2. \A A : ~In(<<>>, A)
  BY ShortView
<1>3. QueuesTyped
  BY DEF Ended, QueuesTyped
<1>4. \A g \in Generations : task[g] = "none" /\ child[g] = "none"
  BY DEF Ended, Nothing
<1>5. MacTyped
  <2>1. task \in [Generations -> {"none"}] /\ child \in [Generations -> {"none"}]
    BY DEF Ended, Nothing
  <2>2. 0 \in 0 .. MaxLooseTimers
    BY MacAssumption
  <2>3. reconcile \in [{"main", "exec"} -> Reconciliations] /\ reconcile["exec"] = NotReconciling
    BY DEF Ended, Reconciliations
  <2>4. task \in [Generations -> {"none", "spawned", "connecting", "established", "stopping",
                                  "deadline", "abandoned"}]
    BY <2>1
  <2>5. child \in [Generations -> {"none", "run", "term", "status", "repair", "recheck"}
                                    \union ChildResults]
    BY <2>1
  <2> QED
    BY <2>2, <2>3, <2>4, <2>5 DEF Ended, MacTyped, Starts
<1>6. SessionsHeld
  BY <1>4 DEF Ended, SessionsHeld, Held, Live, Early
<1>7. OnlyActive
  BY <1>2, <1>4 DEF Ended, OnlyActive, Held, Live, Early
<1>8. FreshTasks
  BY <1>2, <1>4 DEF Ended, FreshTasks
<1>9. OneTrace /\ StopFollows
  BY <1>1 DEF OneTrace, StopFollows
<1>10. ChildrenHaveTasks
  BY <1>4 DEF ChildrenHaveTasks, Busy
<1>11. HelperReady
  BY <1>4 DEF Ended, HelperReady, NotReconciling
<1> QED
  BY <1>1, <1>3, <1>5, <1>6, <1>7, <1>8, <1>9, <1>10, <1>11 DEF MacInv

\* The process ends.
LEMMA ProcessEndsStep ==
  ASSUME MacInv, NEW how \in {"stopped", "failed"}, ProcessEnds(how) PROVE MacInv'
<1>1. preference \in BOOLEAN /\ helper \in {"stopped", "running", "repair"}
  BY DEF MacInv, MacTyped
<1>2. Init'
  BY <1>1 DEF ProcessEnds, Init
<1>3. Ended'
  BY <1>1, <1>2 DEF ProcessEnds, Ended, Nothing
<1>4. Ended' => MacInv'
  BY EndedInv, PTL
<1> QED
  BY <1>3, <1>4

-----------------------------------------------------------------------------
(* The theorems. *)

\* The service, from any stored preference and whatever the last one left of the helper,
\* keeps its invariant.
THEOREM MacInvariant == MacSpec => []MacInv
<1>1. MacInit => MacInv
  BY EndedInv DEF MacInit, Ended
<1>2. MacInv /\ [MacNext]_macVars => MacInv'
  <2> SUFFICES ASSUME MacInv, [MacNext]_macVars PROVE MacInv'
    OBVIOUS
  <2>1. CASE UserOrNetwork
    BY <2>1, UserOrNetworkStep
  <2>2. CASE ExecuteNext
    BY <2>2, ExecuteStep
  <2>3. CASE HandleEvent
    BY <2>3, HandleEventStep
  <2>4. CASE StartStep
    BY <2>4, StartOverStep, StartAgainStep, StartSessionStep DEF StartStep
  <2>5. CASE \E c \in {"main", "exec"} : Reconcile(c)
    BY <2>5, ReconcileStep
  <2>6. CASE \E g \in Generations : ChildStep(g) \/ SessionStep(g)
    BY <2>6, ChildStepStep, SessionStepStep
  <2>7. CASE TimerFires \/ LooseTimerEnds
    BY <2>7, TimersStep
  <2>8. CASE OrphanEnds
    BY <2>8, OrphanEndsStep
  <2>9. CASE LoopEnds \/ Restart \/ Serve \/ Shutdown \/ Repaired
    BY <2>9, PhaseStep
  <2>10. CASE TakeSessions
    BY <2>10, TakeSessionsStep
  <2>11. CASE \E g \in Generations : JoinClean(g) \/ JoinRepairs(g)
    BY <2>11, JoinStep
  <2>12. CASE Unrepaired \/ Crash \/ Exit \/ \E g \in Generations : JoinFails(g)
    BY <2>12, ProcessEndsStep DEF Unrepaired, Crash, Exit, JoinFails
  <2>13. CASE UNCHANGED macVars
    BY <2>13, NothingStep
  <2> QED
    BY <2>1, <2>2, <2>3, <2>4, <2>5, <2>6, <2>7, <2>8, <2>9, <2>10, <2>11, <2>12, <2>13
       DEF MacNext, Join, MainStep
<1> QED
  BY <1>1, <1>2, PTL DEF MacSpec

\* While the service runs, the generation the engine believes active is in exactly one place:
\* its start is ordered, or under way, or its session is in the map, or the news of its end
\* is on the way.
LEMMA MacGenerationAccounted == ASSUME MacInv PROVE GenerationAccounted
<1> SUFFICES ASSUME proc = "serving", active # NoGeneration PROVE GenerationAccounted
  BY DEF GenerationAccounted
<1> DEFINE ordered == InQueue(Start(active))
           begun == starting.gen = active
           held == active \in sessions
           announced == Announced(active)
           places == {place \in {"ordered", "starting", "session", "announced"} :
                        \/ place = "ordered" /\ ordered
                        \/ place = "starting" /\ begun
                        \/ place = "session" /\ held
                        \/ place = "announced" /\ announced}
<1>1. ordered <=> In(queue, {Start(active)})
  BY DEF InQueue, In
<1>2. begun <=> starting # NotStarting
  <2>1. NotStarting.gen # active
    BY DEF NotStarting
  <2> QED
    BY <2>1 DEF MacInv, OnlyActive
<1>3. held <=> Held(active)
  <2>1. taken = {} /\ active \in Generations
    BY GenerationNumbers DEF MacInv, SessionsHeld
  <2> QED
    BY <2>1 DEF MacInv, SessionsHeld
<1>4. announced <=> In(events, EndsOf(active))
  <2>1. ASSUME NEW i \in DOMAIN events
        PROVE  events[i] \in EndsOf(active)
                 <=> /\ events[i].kind \in {"ConnectorExited", "ConnectorError", "ConnectTimedOut"}
                     /\ events[i].gen = active
    <3>1. events[i] \in MacEvents
      BY ElementOfSeq, LenProperties DEF MacInv, QueuesTyped, EventsSoFar
    <3> QED
      BY <3>1 DEF MacEvents, EndsOf, Endings, Elapsed
  <2> QED
    BY <2>1 DEF Announced, In
<1>5. /\ ordered \/ begun \/ held \/ announced
      /\ ~(ordered /\ (begun \/ held \/ announced))
      /\ ~(begun /\ (held \/ announced))
      /\ ~(held /\ announced)
  BY <1>1, <1>2, <1>3, <1>4 DEF MacInv, OneTrace
<1> HIDE DEF ordered, begun, held, announced
<1>6. \E place : places = {place}
  BY <1>5
<1> HIDE DEF places
<1>7. Cardinality(places) = 1
  BY <1>6, FS_Singleton
<1> QED
  BY <1>7 DEF places, ordered, begun, held, announced, GenerationAccounted

\* A session that has to end is never left alone: it has the signal, or the order to stop is
\* still queued.
LEMMA MacStopReachesSession == ASSUME MacInv PROVE StopReachesSession
<1> SUFFICES ASSUME NEW g \in sessions, task[g] \in {"spawned", "connecting", "established"},
                    g # active \/ stopRequested
             PROVE  g \in cancelled \/ InQueue(Stop(g))
  BY DEF StopReachesSession
<1>1. g = active
  BY DEF MacInv, MacTyped, SessionsHeld, OnlyActive
<1>2. active \in cancelled \/ In(queue, {Stop(active)})
  BY <1>1 DEF MacInv, StopFollows, Early
<1> QED
  BY <1>1, <1>2 DEF InQueue, In

\* The generation in one place, told to stop when it has to, and every field of its type.
THEOREM MacIsSound == MacSpec => []MacSound
<1>1. MacInv => MacTypeOK
  <2> SUFFICES ASSUME MacInv PROVE MacTypeOK
    OBVIOUS
  <2>1. EngineTypeOK
    BY DEF MacInv, EngineInv
  <2>2. \A c \in {"main", "exec"} :
          \/ reconcile[c] = NotReconciling
          \/ /\ reconcile[c].step \in {"status", "stop", "repair", "ok", "failed"}
             /\ reconcile[c].left \in 1 .. Attempts
    BY DEF MacInv, MacTyped, Reconciliations, Commands
  <2>3. starting.gen \in Generations \union {NoGeneration}
    BY DEF MacInv, MacTyped, Starts, NotStarting
  <2>4. looseTimers \in 0 .. MaxLooseTimers + 1
    BY MacAssumption DEF MacInv, MacTyped
  <2> QED
    BY <2>1, <2>2, <2>3, <2>4 DEF MacInv, MacTyped, MacTypeOK
<1>2. MacInv => MacSound
  BY <1>1, MacGenerationAccounted, MacStopReachesSession DEF MacSound
<1> QED
  BY <1>2, MacInvariant, PTL

\* A session's helper process is started by its launch alone.
LEMMA ChildStarted ==
  ASSUME MacInv, MacNext, NEW g \in Generations, child[g] = "none", child'[g] = "run"
  PROVE  Launch(g)
<1>1. child \in [Generations -> {"none", "run", "term", "status", "repair", "recheck"}
                                  \union ChildResults]
  BY DEF MacInv, MacTyped
<1>2. child' # child
  OBVIOUS
<1>3. ~ (\/ UserOrNetwork \/ ExecuteNext \/ HandleEvent \/ LoopEnds \/ StartStep
         \/ \E c \in {"main", "exec"} : Reconcile(c)
         \/ TimerFires \/ LooseTimerEnds \/ OrphanEnds
         \/ Restart \/ Serve \/ TakeSessions \/ Repaired \/ Shutdown)
  BY <1>2
     DEF UserOrNetwork, ExecuteNext, Execute, ExecutePersist, ExecuteStart, ExecuteStop,
         ExecuteTimer, HandleEvent, LoopEnds, StartStep, StartRefused, StartAgain, StartFails,
         StartSession, Reconcile, TimerFires, LooseTimerEnds, TimersOnly, OrphanEnds, Restart,
         Serve, TakeSessions, Repaired, Shutdown, sessionVars
<1>4. ~ (Unrepaired \/ Crash \/ Exit \/ \E h \in Generations : JoinFails(h))
  BY DEF Unrepaired, Crash, Exit, JoinFails, ProcessEnds, Nothing
<1>5. ASSUME NEW h \in Generations, JoinClean(h) \/ JoinRepairs(h) PROVE FALSE
  BY <1>1, <1>5 DEF JoinClean, JoinRepairs
<1>6. ASSUME NEW h \in Generations, ChildStep(h) PROVE FALSE
  <2>1. /\ Busy(h) /\ \E step : step # "run" /\ child' = [child EXCEPT ![h] = step]
    BY <1>6 DEF ChildStep, ChildExits, ChildFaults, ChildCancelled, ChildTerminated,
       ChildChecks, ChildRepairs, ChildBecomes, Busy, ChildResults
  <2> QED
    BY <1>1, <2>1
<1>7. ASSUME NEW h \in Generations, SessionStep(h), ~Launch(g) PROVE FALSE
  <2>1. ~(Establish(h) \/ CancelSeen(h) \/ DeadlinePasses(h) \/ Abandon(h))
    BY <1>2 DEF Establish, CancelSeen, DeadlinePasses, Abandon
  <2>2. ~(Publish(h) \/ AbandonedEnds(h))
    BY <1>1 DEF Publish, AbandonedEnds, Forget, ChildBecomes, ChildResults
  <2>3. Launch(h) /\ h # g
    BY <1>7, <2>1, <2>2 DEF SessionStep
  <2> QED
    BY <1>1, <2>3 DEF Launch, Forget, ChildBecomes
<1> QED
  BY <1>3, <1>4, <1>5, <1>6, <1>7 DEF MacNext, Join, MainStep

\* A helper is only ever started when the last one is gone and needs no repair, and no other
\* session's task is then at work on it, but for a cleanup that was abandoned.
THEOREM HelperServesOne == MacSpec => HelperIsAlone
<1>1. MacInv /\ [MacNext]_macVars
        => \A g \in Generations : child[g] = "none" /\ child'[g] = "run" => helper = "stopped"
  <2> SUFFICES ASSUME MacInv, [MacNext]_macVars,
                      NEW g \in Generations, child[g] = "none", child'[g] = "run"
               PROVE  helper = "stopped"
    OBVIOUS
  <2>1. MacNext
    BY DEF macVars, sessionVars
  <2>2. Launch(g)
    BY <2>1, ChildStarted
  <2> QED
    BY <2>2 DEF Launch, MacInv, HelperReady
<1>2. MacInv
        => \A g, h \in Generations :
             task[g] = "spawned" /\ task'[g] = "connecting" /\ h # g /\ Busy(h)
               => task[h] = "abandoned"
  <2> SUFFICES ASSUME MacInv, NEW g \in Generations, NEW h \in Generations,
                      task[g] = "spawned", h # g, Busy(h)
               PROVE  task[h] = "abandoned"
    OBVIOUS
  <2>1. task[h] \notin Live
    BY WhileHeld DEF Live, Early
  <2> QED
    BY <2>1 DEF MacInv, ChildrenHaveTasks
<1> QED
  BY <1>1, <1>2, MacInvariant, PTL DEF MacSpec, HelperIsAlone, StartsFromStopped, AloneAtLaunch

\* When the service ends in order, every session the shutdown found in the map is over.
THEOREM SessionsAreJoined == MacSpec => CleanExitJoined
<1>1. MacInv /\ [MacNext]_macVars
        => (proc # "stopped" /\ proc' = "stopped" =>
              \A g \in Generations : task[g] \in {"none", "abandoned"} \/ g \in sessions)
  <2> SUFFICES ASSUME MacInv, [MacNext]_macVars, proc # "stopped", proc' = "stopped",
                      NEW g \in Generations, task[g] \notin {"none", "abandoned"}
               PROVE  g \in sessions
    OBVIOUS
  <2>1. Exit
    BY DEF MacNext, macVars, procVars, UserOrNetwork, ExecuteNext, HandleEvent, LoopEnds,
           StartStep, StartRefused, StartAgain, StartFails, StartSession, StartUnchanged,
           Reconcile, ChildStep, ChildExits, ChildFaults, ChildCancelled, ChildTerminated,
           ChildChecks, ChildRepairs, ChildUnchanged, SessionStep, Launch, Establish, CancelSeen,
           DeadlinePasses, Publish, Abandon, AbandonedEnds, TaskUnchanged, Join, JoinClean,
           JoinRepairs, JoinFails, TimerFires, LooseTimerEnds, TimersOnly, OrphanEnds, MainStep,
           Restart, Serve, Unrepaired, TakeSessions, Repaired, Shutdown, Crash, ProcessEnds
  <2>2. Held(g)
    BY DEF MacInv, MacTyped, Held, Live, Early
  <2> QED
    BY <2>1, <2>2 DEF Exit, MacInv, SessionsHeld
<1> QED
  BY <1>1, MacInvariant, PTL DEF MacSpec, CleanExitJoined

=============================================================================
