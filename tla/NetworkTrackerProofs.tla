------------------------ MODULE NetworkTrackerProofs ------------------------
(* Proofs about NetworkTracker, and MacNetworkTracker with the health of the tunnel, for any *)
(* set of networks and any saturation.                                                     *)
EXTENDS MacNetworkTracker, TLAPS

\* What the candidate says of the round before: it did not see the published network
\* unless that is the candidate, and a candidate that is a network other than the one
\* published was sampled with the portal answering.
CandidateWasSeen ==
  stableSamples >= 1 /\ candidate # published =>
    /\ seen[1].id # published
    /\ candidate # NoNetwork => seen[1].id = candidate /\ seen[1].reachable

TrackerInv == TrackerTypeOK /\ CandidateWasSeen

-----------------------------------------------------------------------------
\* The counter saturates within its range, and counts past one only for the candidate.
LEMMA SamplesInRange ==
  ASSUME TrackerTypeOK, NEW ready \in Identities
  PROVE  /\ SamplesAfter(ready) \in 1 .. MaxSamples
         /\ SamplesAfter(ready) >= 2 => ready = candidate /\ stableSamples >= 1
BY TrackerAssumption DEF TrackerTypeOK, SamplesAfter

\* What counts as ready is what was sampled, or nothing; the published network always does,
\* another one only with the portal answering.
LEMMA ReadyOfSample ==
  ASSUME NEW id \in Identities, NEW reachable \in BOOLEAN
  PROVE  /\ Ready(id, reachable) \in Identities
         /\ Ready(id, reachable) # NoNetwork => Ready(id, reachable) = id
         /\ Ready(id, reachable) \notin {NoNetwork, published} => reachable
         /\ id = published => Ready(id, reachable) = published
BY DEF Ready, Identities

\* The inductive invariant holds at first.
LEMMA TrackerInvInit == Init => TrackerInv
BY TrackerAssumption DEF Init, TrackerInv, TrackerTypeOK, CandidateWasSeen, Identities

\* One observation keeps the invariant, and whatever it publishes or drops was confirmed by
\* the round before.  What is remembered of the portal may differ from its answer only where
\* that is not looked at.
LEMMA ObservationStep ==
  ASSUME TrackerInv, NEW reachable \in BOOLEAN, NEW answer \in BOOLEAN,
         Observe(sample, reachable),
         sample \notin {NoNetwork, published} => answer = reachable,
         seen' = <<[id |-> sample, reachable |-> answer], seen[1]>>,
         step' \in {"sample", "health"}, UNCHANGED <<worldVars, sample>>
  PROVE  /\ TrackerInv'
         /\ published' # published /\ published' # NoNetwork =>
              \A i \in 1 .. 2 : seen'[i].id = published' /\ seen'[i].reachable
         /\ published' # published /\ published # NoNetwork =>
              \A i \in 1 .. 2 : seen'[i].id # published
         /\ published' \in {published, NoNetwork, sample}
         /\ sample = published => published' = published
<1> USE DEF TrackerInv
<1> DEFINE ready == Ready(sample, reachable)
<1>2. sample \in Identities
  BY DEF TrackerTypeOK
<1>3. /\ ready \in Identities
      /\ ready # NoNetwork => ready = sample
      /\ ready \notin {NoNetwork, published} => answer
      /\ sample = published => ready = published
  BY <1>2, ReadyOfSample
<1>4. /\ candidate' = ready
      /\ stableSamples' = SamplesAfter(ready)
      /\ published' = IF stableSamples' < 2 THEN published ELSE ready
  BY DEF Observe
<1>5. /\ stableSamples' \in 1 .. MaxSamples
      /\ stableSamples' >= 2 => ready = candidate /\ stableSamples >= 1
  BY <1>3, <1>4, SamplesInRange
<1>6. /\ seen'[1] = [id |-> sample, reachable |-> answer]
      /\ seen'[2] = seen[1]
  OBVIOUS
<1> HIDE DEF ready
<1>7. TrackerTypeOK'
  BY <1>3, <1>4, <1>5, TrackerAssumption DEF TrackerTypeOK, worldVars
<1>8. CandidateWasSeen'
  BY <1>3, <1>4, <1>6 DEF CandidateWasSeen
<1>9. published' # published => stableSamples' >= 2 /\ published' = ready
  BY <1>4, <1>5
<1>10. ASSUME published' # published, published' # NoNetwork
       PROVE  \A i \in 1 .. 2 : seen'[i].id = published' /\ seen'[i].reachable
  <2>1. seen'[1].id = published' /\ seen'[1].reachable
    BY <1>3, <1>6, <1>9, <1>10
  <2>2. seen'[2].id = published' /\ seen'[2].reachable
    BY <1>5, <1>6, <1>9, <1>10 DEF CandidateWasSeen
  <2> QED
    BY <2>1, <2>2
<1>11. ASSUME published' # published, published # NoNetwork
       PROVE  \A i \in 1 .. 2 : seen'[i].id # published
  <2>1. seen'[1].id # published
    BY <1>3, <1>6, <1>9, <1>11
  <2>2. seen'[2].id # published
    BY <1>5, <1>6, <1>9, <1>11 DEF CandidateWasSeen
  <2> QED
    BY <2>1, <2>2
<1>12. published' \in {published, NoNetwork, sample} /\ (sample = published => published' = published)
  BY <1>3, <1>4
<1> QED
  BY <1>7, <1>8, <1>10, <1>11, <1>12

\* The watch of Linux and Windows.
LEMMA ProbeStep ==
  ASSUME TrackerInv, ProbeAndObserve
  PROVE  /\ TrackerInv'
         /\ published' # published /\ published' # NoNetwork =>
              \A i \in 1 .. 2 : seen'[i].id = published' /\ seen'[i].reachable
         /\ published' # published /\ published # NoNetwork =>
              \A i \in 1 .. 2 : seen'[i].id # published
<1>1. PICK reachable \in BOOLEAN :
        /\ Observe(sample, reachable)
        /\ seen' = <<[id |-> sample, reachable |-> reachable], seen[1]>>
  BY DEF ProbeAndObserve, ProbeAnswers, TrackerInv, TrackerTypeOK
<1>2. step' = "sample" /\ UNCHANGED <<worldVars, sample>>
  BY DEF ProbeAndObserve
<1> QED BY <1>1, <1>2, ObservationStep

\* The other steps leave the tracker alone.
LEMMA OtherSteps ==
  ASSUME TrackerInv, World \/ TakeSample \/ UNCHANGED vars
  PROVE  TrackerInv' /\ published' = published
<1>1. UNCHANGED <<trackerVars, seen>>
  BY DEF World, RouteChanges, PortalChanges, TakeSample, vars, trackerVars
<1>2. TrackerTypeOK'
  BY <1>1 DEF TrackerInv, TrackerTypeOK, World, RouteChanges, PortalChanges, TakeSample, vars,
     worldVars, trackerVars
<1>3. CandidateWasSeen'
  BY <1>1 DEF TrackerInv, CandidateWasSeen, trackerVars
<1> QED
  BY <1>1, <1>2, <1>3 DEF TrackerInv, trackerVars

-----------------------------------------------------------------------------
\* NetworkReadinessTracker: the candidate is what the last round saw.
THEOREM TrackerInvariant == Spec => []TrackerInv
<1>1. TrackerInv /\ [Next]_vars => TrackerInv'
  BY ProbeStep, OtherSteps DEF Next, Watch
<1> QED
  BY <1>1, TrackerInvInit, PTL DEF Spec

\* The fields of the tracker keep their types, and the counter of samples its range.
THEOREM TrackerTypeCorrect == Spec => []TrackerTypeOK
<1>1. TrackerInv => TrackerTypeOK
  BY DEF TrackerInv
<1> QED
  BY <1>1, TrackerInvariant, PTL

\* With any networks, any order of changes and any answers of the portal: a network is
\* published only after two rounds in a row saw it ready, and given up or replaced only after
\* two that did not see it.
THEOREM EventsAreConfirmed == Spec => ConfirmedTwice
<1>1. TrackerInv /\ [Next]_vars =>
        /\ [published' # published /\ published' # NoNetwork =>
              \A i \in 1 .. 2 : seen'[i].id = published' /\ seen'[i].reachable]_vars
        /\ [step = "probe" /\ published' # published /\ published # NoNetwork =>
              \A i \in 1 .. 2 : seen'[i].id # published]_vars
  BY ProbeStep, OtherSteps DEF Next, Watch
<1> QED
  BY <1>1, TrackerInvariant, PTL DEF Spec, ConfirmedTwice, ReadyIsConfirmed, LossIsConfirmed

-----------------------------------------------------------------------------
(* The watch of macOS.                                                         *)

MacTyped ==
  /\ TrackerTypeOK /\ MacTrackerTypeOK /\ unhealthy \in BOOLEAN
  /\ lost \in [id : Identities, ago : 0 .. 120, delay : 0 .. 120]

\* The first of two failures is remembered while its network is published.
FailureSeen == healthFailures = 1 => unhealthy

\* While a cooldown runs nothing is counted for any network.
Barred == cooldown > 0 => stableSamples = 0 /\ candidate = NoNetwork /\ published = NoNetwork

\* The fields of the tracker follow the last loss: its network is the barred one, its delay
\* that of the episodes, and what is left of the cooldown is what is left of the delay.
LossFollowed ==
  lost.id # NoNetwork =>
    /\ failedNetwork = lost.id
    /\ episodes >= 1 /\ lost.delay = CooldownDelay(episodes)
    /\ \/ cooldown = Never /\ lost.ago = lost.delay
       \/ /\ cooldown >= 0 /\ cooldown + lost.ago = lost.delay
          /\ \E k \in Nat : cooldown = TimeStep * k

MacInv == MacTyped /\ FailureSeen /\ Barred /\ LossFollowed /\ CandidateWasSeen

\* 10, 20, 40, 80 and 120 seconds.
LEMMA DelayTable ==
  ASSUME NEW n \in Nat, n >= 1
  PROVE  CooldownDelay(n) = IF n = 1 THEN 10 ELSE IF n = 2 THEN 20 ELSE IF n = 3 THEN 40
                            ELSE IF n = 4 THEN 80 ELSE 120
<1> DEFINE m == AtMost(n, 5)
           t == <<1, 2, 4, 8, 16>>
<1>1. /\ n = 1 => m = 1
      /\ n = 2 => m = 2
      /\ n = 3 => m = 3
      /\ n = 4 => m = 4
      /\ n >= 5 => m = 5
  BY DEF AtMost
<1>2. t[1] = 1 /\ t[2] = 2 /\ t[3] = 4 /\ t[4] = 8 /\ t[5] = 16
  OBVIOUS
<1>3. CooldownDelay(n) = AtMost(10 * t[m], 120)
  BY DEF CooldownDelay
<1> HIDE DEF m, t
<1>4. n = 1 \/ n = 2 \/ n = 3 \/ n = 4 \/ n >= 5
  OBVIOUS
<1> QED BY <1>1, <1>2, <1>3, <1>4 DEF AtMost

LEMMA DelayOfEpisodes ==
  /\ \A n \in Nat : n >= 1 => /\ CooldownDelay(n) \in 10 .. 120
                              /\ \E k \in Nat : CooldownDelay(n) = TimeStep * k
  /\ \A n \in 1 .. MaxEpisodes :
       CooldownDelay(AtMost(n + 1, MaxEpisodes)) = AtMost(2 * CooldownDelay(n), 120)
<1>1. ASSUME NEW n \in Nat, n >= 1
      PROVE  CooldownDelay(n) \in 10 .. 120 /\ \E k \in Nat : CooldownDelay(n) = TimeStep * k
  <2>1. CooldownDelay(n) \in {10, 20, 40, 80, 120}
    BY <1>1, DelayTable
  <2>2. ASSUME NEW d \in {10, 20, 40, 80, 120}
        PROVE  d \in 10 .. 120 /\ \E k \in Nat : d = TimeStep * k
    <3>1. d \in 10 .. 120
      OBVIOUS
    <3>2. \E k \in {2, 4, 8, 16, 24} : d = 5 * k
      OBVIOUS
    <3> QED BY <3>1, <3>2 DEF TimeStep
  <2> HIDE DEF CooldownDelay
  <2> QED BY <2>1, <2>2
<1>2. ASSUME NEW n \in 1 .. MaxEpisodes
      PROVE  CooldownDelay(AtMost(n + 1, MaxEpisodes)) = AtMost(2 * CooldownDelay(n), 120)
  <2>1. MaxEpisodes \in Nat /\ MaxEpisodes >= 5
    BY MacTrackerAssumption
  <2>2. CASE n < MaxEpisodes
    <3>1. AtMost(n + 1, MaxEpisodes) = n + 1 /\ n + 1 \in Nat /\ n + 1 >= 1 /\ n \in Nat /\ n >= 1
      BY <2>1, <2>2 DEF AtMost
    <3>2. CooldownDelay(n + 1) = IF n = 1 THEN 20 ELSE IF n = 2 THEN 40
                                 ELSE IF n = 3 THEN 80 ELSE 120
      BY <3>1, DelayTable
    <3>3. CooldownDelay(n) = IF n = 1 THEN 10 ELSE IF n = 2 THEN 20 ELSE IF n = 3 THEN 40
                             ELSE IF n = 4 THEN 80 ELSE 120
      BY <3>1, DelayTable
    <3>4. CooldownDelay(n + 1) = AtMost(2 * CooldownDelay(n), 120)
      BY <3>1, <3>2, <3>3 DEF AtMost
    <3> QED BY <3>1, <3>4
  <2>3. CASE n = MaxEpisodes
    <3>1. AtMost(n + 1, MaxEpisodes) = n /\ n \in Nat /\ n >= 5
      BY <2>1, <2>3 DEF AtMost
    <3>2. CooldownDelay(n) = 120
      BY <3>1, DelayTable
    <3> QED BY <3>1, <3>2 DEF AtMost
  <2> QED BY <2>1, <2>2, <2>3
<1> QED BY <1>1, <1>2

\* What a step may do to the network that is published.
StepSound ==
  /\ published' # published /\ published' # NoNetwork =>
       \A i \in 1 .. 2 : seen'[i].id = published' /\ seen'[i].reachable
  /\ step = "probe" /\ published' # published /\ published # NoNetwork =>
       \A i \in 1 .. 2 : seen'[i].id # published
  /\ step = "health" /\ published' # published => unhealthy
  /\ published' # published /\ published' # NoNetwork /\ published' = lost.id =>
       lost.ago >= lost.delay
  /\ step = "health" /\ published' # published /\ lost.id = published =>
       cooldown' = AtMost(2 * lost.delay, 120)

LEMMA MacStarts == MacTrackerInit => MacInv
<1> SUFFICES ASSUME MacTrackerInit PROVE MacInv
  OBVIOUS
<1>1. TrackerInv
  BY TrackerInvInit DEF MacTrackerInit
<1>2. lost = [id |-> NoNetwork, ago |-> 0, delay |-> 0]
  BY DEF MacTrackerInit, NoLoss
<1>3. MacTyped
  <2>1. MacTrackerTypeOK
    BY MacTrackerAssumption DEF MacTrackerInit, MacTrackerTypeOK, Identities
  <2>2. unhealthy \in BOOLEAN
    BY DEF MacTrackerInit
  <2>3. lost \in [id : Identities, ago : 0 .. 120, delay : 0 .. 120]
    BY <1>2 DEF Identities
  <2> QED BY <1>1, <2>1, <2>2, <2>3 DEF MacTyped, TrackerInv
<1> QED BY <1>1, <1>2, <1>3
        DEF MacInv, MacTrackerInit, FailureSeen, Barred, LossFollowed, TrackerInv, Never

\* The world, the sample, and a round that ends without a probe.
LEMMA MacOtherSteps ==
  ASSUME MacInv, MacWorld \/ MacSample \/ UNCHANGED macVars
                 \/ (step = "health" /\ step' = "sample" /\ UNCHANGED <<worldVars, sample, seen,
                                                  trackerVars, healthVars, historyVars>>)
  PROVE  MacInv' /\ StepSound
<1>1. UNCHANGED <<trackerVars, seen, healthVars, historyVars>>
  BY DEF MacWorld, RouteChanges, PortalChanges, MacSample, macVars, vars, trackerVars
<1>2. UNCHANGED <<candidate, stableSamples, published, seen, sinceProbe, healthFailures,
                  episodes, cooldown, failedNetwork, unhealthy, lost>>
  BY <1>1 DEF trackerVars, healthVars, historyVars
<1>3. /\ route' \in Identities /\ portal' \in BOOLEAN /\ sample' \in Identities
      /\ step' \in {"sample", "probe", "health"}
  BY DEF MacInv, MacTyped, TrackerTypeOK, MacWorld, RouteChanges, PortalChanges, MacSample,
     macVars, vars, worldVars
<1>4. MacTyped'
  BY <1>2, <1>3 DEF MacInv, MacTyped, TrackerTypeOK, MacTrackerTypeOK
<1>5. FailureSeen' /\ Barred' /\ CandidateWasSeen'
  BY <1>2 DEF MacInv, FailureSeen, Barred, CandidateWasSeen
<1>6. LossFollowed'
  BY <1>2 DEF MacInv, LossFollowed
<1>7. StepSound
  BY <1>2 DEF StepSound
<1> QED BY <1>4, <1>5, <1>6, <1>7 DEF MacInv

\* The clock takes from the cooldown what it adds to the time since the loss.
LEMMA TimeStepSound ==
  ASSUME MacInv, TimePasses
  PROVE  MacInv' /\ StepSound
<1>1. /\ UNCHANGED <<route, portal, step, sample, candidate, stableSamples, published, seen,
                     healthFailures, episodes, failedNetwork, unhealthy>>
      /\ sinceProbe' = Later(sinceProbe, HealthInterval)
      /\ cooldown' = IF cooldown >= TimeStep THEN cooldown - TimeStep ELSE cooldown
      /\ lost' = [lost EXCEPT !.ago = AtMost(@ + TimeStep, lost.delay)]
  BY DEF TimePasses, vars, worldVars, trackerVars
<1>2. MacTyped
  BY DEF MacInv
<1>3. /\ lost.ago \in 0 .. 120 /\ lost.delay \in 0 .. 120 /\ lost.id \in Identities
      /\ cooldown \in {Never} \union 0 .. 120
  BY <1>2 DEF MacTyped, MacTrackerTypeOK
<1>4. /\ lost'.id = lost.id /\ lost'.delay = lost.delay
      /\ lost'.ago = AtMost(lost.ago + TimeStep, lost.delay) /\ lost'.ago \in 0 .. 120
      /\ lost' = [id |-> lost'.id, ago |-> lost'.ago, delay |-> lost'.delay]
  <2>1. lost = [id |-> lost.id, ago |-> lost.ago, delay |-> lost.delay]
    BY <1>2 DEF MacTyped
  <2>2. AtMost(lost.ago + TimeStep, lost.delay) \in 0 .. 120
    BY <1>3 DEF AtMost, TimeStep
  <2> QED BY <1>1, <2>1, <2>2
<1>5. MacTyped'
  <2>1. sinceProbe' \in {Never} \union 0 .. HealthInterval
    BY <1>1, <1>2 DEF MacTyped, MacTrackerTypeOK, Later, AtMost, TimeStep, HealthInterval, Never
  <2>2. cooldown' \in {Never} \union 0 .. 120
    BY <1>1, <1>3 DEF TimeStep, Never
  <2>3. lost' \in [id : Identities, ago : 0 .. 120, delay : 0 .. 120]
    BY <1>3, <1>4
  <2> QED BY <1>1, <1>2, <2>1, <2>2, <2>3 DEF MacTyped, TrackerTypeOK, MacTrackerTypeOK
<1>6. FailureSeen' /\ CandidateWasSeen'
  BY <1>1 DEF MacInv, FailureSeen, CandidateWasSeen
<1>7. Barred'
  <2>1. cooldown' > 0 => cooldown > 0
    BY <1>1, <1>3 DEF TimeStep, Never
  <2> QED BY <1>1, <2>1 DEF MacInv, Barred
<1>8. ASSUME lost'.id # NoNetwork
      PROVE  \/ cooldown' = Never /\ lost'.ago = lost'.delay
             \/ /\ cooldown' >= 0 /\ cooldown' + lost'.ago = lost'.delay
                /\ \E k \in Nat : cooldown' = TimeStep * k
  <2>1. \/ cooldown = Never /\ lost.ago = lost.delay
        \/ /\ cooldown >= 0 /\ cooldown + lost.ago = lost.delay
           /\ \E k \in Nat : cooldown = TimeStep * k
    BY <1>4, <1>8 DEF MacInv, LossFollowed
  <2>2. CASE cooldown = Never /\ lost.ago = lost.delay
    BY <1>1, <1>3, <1>4, <2>2 DEF AtMost, TimeStep, Never
  <2>3. ASSUME cooldown >= 0, cooldown + lost.ago = lost.delay,
               NEW k \in Nat, cooldown = TimeStep * k
        PROVE  /\ cooldown' >= 0 /\ cooldown' + lost'.ago = lost'.delay
               /\ \E j \in Nat : cooldown' = TimeStep * j
    <3>1. CASE k = 0
      BY <1>1, <1>3, <1>4, <2>3, <3>1 DEF AtMost, TimeStep
    <3>2. CASE k # 0
      <4>1. k - 1 \in Nat /\ cooldown = 5 * k /\ 5 * k >= 5 /\ 5 * k - 5 = 5 * (k - 1)
        BY <2>3, <3>2 DEF TimeStep
      <4>2. cooldown' = cooldown - 5 /\ cooldown' = TimeStep * (k - 1)
        BY <1>1, <1>3, <4>1 DEF TimeStep
      <4>3. lost'.ago = lost.ago + 5
        BY <1>3, <1>4, <2>3, <4>1 DEF AtMost, TimeStep
      <4> QED BY <1>3, <1>4, <2>3, <4>1, <4>2, <4>3
    <3> QED BY <3>1, <3>2
  <2> QED BY <2>1, <2>2, <2>3
<1>9. LossFollowed'
  BY <1>1, <1>4, <1>8 DEF MacInv, LossFollowed
<1>10. StepSound
  BY <1>1 DEF StepSound
<1> QED BY <1>5, <1>6, <1>7, <1>9, <1>10 DEF MacInv

\* An observation: a barred network is not counted, and a loss is forgotten only for another
\* network.
LEMMA MacProbeSound ==
  ASSUME MacInv, MacProbe
  PROVE  MacInv' /\ StepSound
<1>1. PICK reachable \in PortalAnswers :
        /\ MacObserve(sample, reachable)
        /\ seen' = <<[id |-> sample,
                      reachable |-> reachable /\ (sample = published \/ MacProbeRequired(sample))],
                     seen[1]>>
  BY DEF MacProbe
<1>2. /\ step = "probe" /\ step' = "health" /\ UNCHANGED <<worldVars, sample>>
      /\ unhealthy' = (unhealthy /\ published' = published)
      /\ lost' = IF sample \in {NoNetwork, lost.id} THEN lost ELSE NoLoss
  BY DEF MacProbe
<1>3. MacTyped /\ TrackerInv /\ MacTrackerTypeOK
  BY DEF MacInv, MacTyped, TrackerInv
<1>4. reachable \in BOOLEAN /\ sample \in Identities /\ unhealthy \in BOOLEAN
  BY <1>3 DEF PortalAnswers, MacTyped, TrackerTypeOK
<1> DEFINE answer == reachable /\ (sample = published \/ MacProbeRequired(sample))
<1>5. answer \in BOOLEAN
  BY <1>4
<1>6. lost' \in [id : Identities, ago : 0 .. 120, delay : 0 .. 120]
      /\ (lost'.id # NoNetwork => lost' = lost /\ sample \in {NoNetwork, lost.id})
      /\ unhealthy' \in BOOLEAN
  BY <1>2, <1>3 DEF MacTyped, NoLoss, Identities
<1>7. CASE CooldownActiveFor(sample)
  <2>1. /\ UNCHANGED <<candidate, stableSamples, published, sinceProbe, healthFailures,
                       episodes, cooldown, failedNetwork>>
    BY <1>1, <1>7 DEF MacObserve, trackerVars, healthVars
  <2>2. stableSamples = 0 /\ published = NoNetwork
    BY <1>7 DEF CooldownActiveFor, MacInv, Barred
  <2>3. TrackerTypeOK' /\ MacTrackerTypeOK'
    BY <1>2, <1>3, <2>1 DEF MacTyped, TrackerTypeOK, MacTrackerTypeOK, worldVars
  <2>4. FailureSeen' /\ Barred' /\ CandidateWasSeen'
    BY <1>2, <1>4, <2>1, <2>2 DEF MacInv, FailureSeen, Barred, CandidateWasSeen
  <2>5. LossFollowed'
    BY <1>6, <2>1 DEF MacInv, LossFollowed
  <2>6. StepSound
    BY <2>1 DEF StepSound
  <2> QED BY <1>6, <2>3, <2>4, <2>5, <2>6 DEF MacInv, MacTyped
<1>8. CASE ~CooldownActiveFor(sample)
  <2>1. /\ EndCooldown(sample)
        /\ sinceProbe' = IF sample = published THEN sinceProbe ELSE Never
        /\ healthFailures' = IF sample = published THEN healthFailures ELSE 0
        /\ Observe(sample, reachable)
    BY <1>1, <1>8 DEF MacObserve
  <2>2. sample \notin {NoNetwork, published} => answer = reachable
    BY <1>4, <1>8 DEF MacProbeRequired, PortalProbeRequired
  <2>3. seen' = <<[id |-> sample, reachable |-> answer], seen[1]>>
    BY <1>1
  <2> HIDE DEF answer
  <2>4. /\ TrackerInv'
        /\ published' # published /\ published' # NoNetwork =>
             \A i \in 1 .. 2 : seen'[i].id = published' /\ seen'[i].reachable
        /\ published' # published /\ published # NoNetwork =>
             \A i \in 1 .. 2 : seen'[i].id # published
        /\ published' \in {published, NoNetwork, sample}
        /\ sample = published => published' = published
    BY <1>2, <1>3, <1>4, <1>5, <2>1, <2>2, <2>3, ObservationStep
  <2>5. /\ cooldown' = Never
        /\ \/ episodes' = 0 /\ failedNetwork' = NoNetwork /\ cooldown # Never
              /\ sample \notin {NoNetwork, failedNetwork}
           \/ UNCHANGED <<episodes, failedNetwork>>
    BY <2>1 DEF EndCooldown
  <2>6. MacTrackerTypeOK'
    BY <1>3, <2>1, <2>5, MacTrackerAssumption
       DEF MacTrackerTypeOK, Identities, Never, HealthInterval
  <2>7. FailureSeen'
    BY <1>2, <1>4, <2>1, <2>4 DEF MacInv, FailureSeen
  <2>8. Barred'
    BY <2>5 DEF Barred, Never
  <2>9. ASSUME lost.id # NoNetwork, sample \in {NoNetwork, lost.id}
        PROVE  UNCHANGED <<episodes, failedNetwork>> /\ lost.ago = lost.delay
    <3>1. failedNetwork = lost.id /\ ~(cooldown > 0)
      BY <1>8, <2>9 DEF MacInv, LossFollowed, CooldownActiveFor
    <3>2. lost.ago = lost.delay
      <4>1. lost.ago \in 0 .. 120 /\ lost.delay \in 0 .. 120 /\ cooldown \in {-1} \union 0 .. 120
        BY <1>3 DEF MacTyped, MacTrackerTypeOK, Never
      <4> QED BY <2>9, <3>1, <4>1 DEF MacInv, LossFollowed, Never
    <3> QED BY <2>5, <2>9, <3>1, <3>2
  <2>10. LossFollowed'
    BY <1>6, <2>5, <2>9 DEF MacInv, LossFollowed
  <2>11. ASSUME published' # published, published' # NoNetwork, published' = lost.id
         PROVE  lost.ago >= lost.delay
    <3>1. lost.ago = lost.delay
      BY <2>4, <2>9, <2>11
    <3>2. lost.ago \in 0 .. 120
      BY <1>3 DEF MacTyped
    <3> QED BY <3>1, <3>2
  <2>12. StepSound
    BY <1>2, <2>4, <2>11 DEF StepSound
  <2> QED BY <1>6, <2>4, <2>6, <2>7, <2>8, <2>10, <2>12 DEF MacInv, MacTyped, TrackerInv
<1> QED BY <1>7, <1>8

\* The health of the tunnel.
LEMMA HealthSound ==
  ASSUME MacInv, step = "health", step' = "sample", HealthProbeRequired,
         TunnelHealthy \/ TunnelFails \/ TunnelLost, UNCHANGED <<worldVars, sample, seen>>
  PROVE  MacInv' /\ StepSound
<1>1. MacTyped /\ TrackerTypeOK /\ MacTrackerTypeOK
  BY DEF MacInv, MacTyped
<1>2. published \in Networks /\ UNCHANGED <<route, portal, sample, seen>>
  BY <1>1 DEF HealthProbeRequired, worldVars, TrackerTypeOK, Identities
<1>3. NoNetwork \notin Networks /\ MaxEpisodes \in Nat /\ MaxEpisodes >= 5
  BY TrackerAssumption, MacTrackerAssumption
<1>4. CASE TunnelHealthy
  <2>1. /\ UNCHANGED <<candidate, stableSamples, published>>
        /\ sinceProbe' = 0 /\ healthFailures' = 0 /\ episodes' = 0 /\ cooldown' = Never
        /\ failedNetwork' = NoNetwork /\ unhealthy' = FALSE /\ lost' = NoLoss
    BY <1>4 DEF TunnelHealthy, trackerVars
  <2>2. TrackerTypeOK' /\ MacTrackerTypeOK'
    BY <1>1, <1>2, <1>3, <2>1 DEF TrackerTypeOK, MacTrackerTypeOK, HealthInterval, Identities
  <2>3. lost'.id = NoNetwork /\ lost' \in [id : Identities, ago : 0 .. 120, delay : 0 .. 120]
    BY <2>1 DEF NoLoss, Identities
  <2>4. MacTyped' /\ FailureSeen' /\ Barred' /\ LossFollowed'
    <3>1. unhealthy' \in BOOLEAN
      BY <2>1
    <3>2. MacTyped'
      BY <2>2, <2>3, <3>1 DEF MacTyped
    <3> QED BY <2>1, <2>3, <3>2 DEF FailureSeen, Barred, LossFollowed, Never
  <2>5. CandidateWasSeen' /\ StepSound
    BY <1>2, <2>1 DEF MacInv, CandidateWasSeen, StepSound
  <2> QED BY <2>4, <2>5 DEF MacInv
<1>5. CASE TunnelFails
  <2>1. /\ UNCHANGED <<candidate, stableSamples, published, episodes, cooldown, failedNetwork,
                       lost>>
        /\ healthFailures + 1 < 2 /\ sinceProbe' = 0 /\ healthFailures' = healthFailures + 1
        /\ unhealthy' = TRUE
    BY <1>5 DEF TunnelFails, trackerVars
  <2>2. TrackerTypeOK' /\ MacTrackerTypeOK'
    BY <1>1, <1>2, <2>1 DEF TrackerTypeOK, MacTrackerTypeOK, HealthInterval
  <2>3. MacTyped'
    BY <1>1, <2>1, <2>2 DEF MacTyped
  <2>4. FailureSeen' /\ Barred' /\ LossFollowed'
    BY <2>1 DEF MacInv, FailureSeen, Barred, LossFollowed
  <2>5. CandidateWasSeen' /\ StepSound
    BY <1>2, <2>1 DEF MacInv, CandidateWasSeen, StepSound
  <2> QED BY <2>3, <2>4, <2>5 DEF MacInv
<1>6. CASE TunnelLost
  <2>1. /\ candidate' = NoNetwork /\ stableSamples' = 0 /\ published' = NoNetwork
        /\ healthFailures + 1 >= 2 /\ sinceProbe' = Never /\ healthFailures' = 0
        /\ episodes' = AtMost(episodes + 1, MaxEpisodes)
        /\ cooldown' = CooldownDelay(episodes') /\ failedNetwork' = published
        /\ unhealthy' = FALSE
        /\ lost' = [id |-> published, ago |-> 0, delay |-> cooldown']
    BY <1>6 DEF TunnelLost
  <2>2. unhealthy
    BY <1>1, <2>1 DEF MacInv, FailureSeen, MacTrackerTypeOK
  <2>3. episodes' \in 1 .. MaxEpisodes
    BY <1>1, <1>3, <2>1 DEF MacTrackerTypeOK, AtMost
  <2>4. cooldown' \in 10 .. 120 /\ \E k \in Nat : cooldown' = TimeStep * k
    BY <2>1, <2>3, DelayOfEpisodes
  <2>5. TrackerTypeOK' /\ MacTrackerTypeOK'
    BY <1>1, <1>2, <1>3, <2>1, <2>3, <2>4, TrackerAssumption
       DEF TrackerTypeOK, MacTrackerTypeOK, Identities
  <2>6. /\ lost' \in [id : Identities, ago : 0 .. 120, delay : 0 .. 120]
        /\ lost'.id = published /\ lost'.ago = 0 /\ lost'.delay = cooldown'
    BY <1>2, <2>1, <2>4 DEF Identities
  <2>7. MacTyped' /\ FailureSeen' /\ Barred'
    <3>1. unhealthy' \in BOOLEAN
      BY <2>1
    <3>2. MacTyped'
      BY <2>5, <2>6, <3>1 DEF MacTyped
    <3> QED BY <2>1, <3>2 DEF FailureSeen, Barred
  <2>8. LossFollowed'
    BY <2>1, <2>3, <2>4, <2>6 DEF LossFollowed
  <2>9. CandidateWasSeen'
    BY <2>1 DEF CandidateWasSeen
  <2>10. lost.id = published => cooldown' = AtMost(2 * lost.delay, 120)
    <3> SUFFICES ASSUME lost.id = published PROVE cooldown' = AtMost(2 * lost.delay, 120)
      OBVIOUS
    <3>1. episodes \in 1 .. MaxEpisodes /\ lost.delay = CooldownDelay(episodes)
      BY <1>1, <1>2, <1>3 DEF MacInv, LossFollowed, MacTrackerTypeOK
    <3> QED BY <2>1, <3>1, DelayOfEpisodes
  <2>11. StepSound
    BY <1>2, <1>3, <2>1, <2>2, <2>10 DEF StepSound
  <2> QED BY <2>7, <2>8, <2>9, <2>11 DEF MacInv
<1> QED BY <1>4, <1>5, <1>6

LEMMA MacSteps == MacInv /\ [MacTrackerNext]_macVars => MacInv' /\ StepSound
<1> SUFFICES ASSUME MacInv, [MacTrackerNext]_macVars PROVE MacInv' /\ StepSound
  OBVIOUS
<1>1. CASE MacWorld \/ MacSample \/ UNCHANGED macVars
  BY <1>1, MacOtherSteps
<1>2. CASE TimePasses
  BY <1>2, TimeStepSound
<1>3. CASE MacProbe
  BY <1>3, MacProbeSound
<1>4. CASE MacHealth
  <2>1. step = "health" /\ step' = "sample" /\ UNCHANGED <<worldVars, sample, seen>>
    BY <1>4 DEF MacHealth
  <2>2. CASE HealthProbeRequired /\ (TunnelHealthy \/ TunnelFails \/ TunnelLost)
    BY <2>1, <2>2, HealthSound
  <2>3. CASE UNCHANGED <<trackerVars, healthVars, historyVars>>
    BY <2>1, <2>3, MacOtherSteps
  <2> QED BY <1>4, <2>2, <2>3 DEF MacHealth
<1> QED BY <1>1, <1>2, <1>3, <1>4 DEF MacTrackerNext

\* On macOS the tracker, its cooldown and what happened to the network it lost last agree.
THEOREM MacTrackerInvariant == MacTrackerSpec => []MacInv
<1> QED BY MacStarts, MacSteps, PTL DEF MacTrackerSpec

\* The health probe and its cooldown leave what NetworkReadinessTracker promises on the other
\* systems as it is: every observation is confirmed by two rounds.
THEOREM MacEventsAreConfirmed == MacTrackerSpec => ConfirmedTwice
<1>1. MacInv /\ [MacTrackerNext]_macVars =>
        /\ [published' # published /\ published' # NoNetwork =>
              \A i \in 1 .. 2 : seen'[i].id = published' /\ seen'[i].reachable]_vars
        /\ [step = "probe" /\ published' # published /\ published # NoNetwork =>
              \A i \in 1 .. 2 : seen'[i].id # published]_vars
  BY MacSteps DEF StepSound
<1> QED BY <1>1, MacTrackerInvariant, PTL
        DEF MacTrackerSpec, ConfirmedTwice, ReadyIsConfirmed, LossIsConfirmed

\* A network is taken from a tunnel for its health after two failed probes only; it is not
\* taken back before its delay is over, and the delay doubles with each loss up to 120 seconds:
\* for any networks, any times of the probes and any number of losses.
THEOREM CooldownIsKept == MacTrackerSpec => CooldownKept
<1>1. MacInv /\ [MacTrackerNext]_macVars =>
        /\ [step = "health" /\ published' # published => unhealthy]_macVars
        /\ [published' # published /\ published' # NoNetwork /\ published' = lost.id
              => lost.ago >= lost.delay]_macVars
        /\ [step = "health" /\ published' # published /\ lost.id = published
              => cooldown' = AtMost(2 * lost.delay, 120)]_macVars
  BY MacSteps DEF StepSound
<1>2. MacInv => MacTrackerTypeOK
  BY DEF MacInv, MacTyped
<1> QED BY <1>1, <1>2, MacTrackerInvariant, PTL
        DEF MacTrackerSpec, CooldownKept, HealthLossIsConfirmed, CooldownHolds, DelayDoubles

=============================================================================
