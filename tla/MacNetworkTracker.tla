-------------------------- MODULE MacNetworkTracker --------------------------
(******************************************************************************)
(* The network watch of the macOS service (run_network_watch and              *)
(* NetworkReadinessTracker of rust/apps/hyu-vpn-macos-service/src/lib.rs,     *)
(* with the monitor and the probes of                                         *)
(* rust/crates/hyu-vpn-platform-macos/src/network.rs).  To the tracker of the *)
(* other services (NetworkTracker) it adds a health probe of the tunnel: two  *)
(* failures in a row take the network away, and for a while it is not taken   *)
(* back.                                                                      *)
(*                                                                            *)
(* Time goes on in steps of five seconds, between two rounds: a round reads   *)
(* the clock once.                                                            *)
(******************************************************************************)
EXTENDS NetworkTracker

CONSTANT MaxEpisodes  (* where the failure episodes saturate (u8::MAX in the code) *)

ASSUME MacTrackerAssumption == MaxEpisodes \in Nat \ 0 .. 4

VARIABLES
  sinceProbe,       (* seconds since last_connected_health_probe, or Never          *)
  healthFailures,   (* consecutive_connected_health_failures                       *)
  episodes,         (* tunnel_health_failure_episodes                              *)
  cooldown,         (* seconds until tunnel_health_cooldown_until, 0 once it has    *)
                    (* passed, or Never                                            *)
  failedNetwork,    (* tunnel_health_failure_identity                              *)
  unhealthy,        (* history: whether the last health probe failed, with the       *)
                    (* network published ever since                                 *)
  lost              (* history: the last loss for the tunnel's health: of which     *)
                    (* network, how long ago and with which delay; forgotten when   *)
                    (* another network is seen or the tunnel is healthy             *)

healthVars == <<sinceProbe, healthFailures, episodes, cooldown, failedNetwork>>
historyVars == <<unhealthy, lost>>
macVars == <<vars, healthVars, historyVars>>

Never == -1
TimeStep == 5
HealthInterval == 15
NoLoss == [id |-> NoNetwork, ago |-> 0, delay |-> 0]

AtMost(n, m) == IF n <= m THEN n ELSE m

-----------------------------------------------------------------------------
(* The world.                                                                *)

Later(seconds, most) == IF seconds = Never THEN Never ELSE AtMost(seconds + TimeStep, most)

TimePasses ==
  /\ step = "sample"
  /\ sinceProbe' = Later(sinceProbe, HealthInterval)
  /\ cooldown' = IF cooldown >= TimeStep THEN cooldown - TimeStep ELSE cooldown
  /\ lost' = [lost EXCEPT !.ago = AtMost(@ + TimeStep, lost.delay)]
  /\ UNCHANGED <<vars, healthFailures, episodes, failedNetwork, unhealthy>>

MacWorld == (RouteChanges \/ PortalChanges) /\ UNCHANGED <<healthVars, historyVars>>

-----------------------------------------------------------------------------
(* NetworkReadinessTracker.                                                  *)

Defect_CooldownNeverEnds(id) == cooldown # Never /\ id \in {NoNetwork, failedNetwork}

CooldownActiveFor(id) == cooldown > 0 /\ id \in {NoNetwork, failedNetwork}

MacProbeRequired(id) == PortalProbeRequired(id) /\ ~CooldownActiveFor(id)

\* Another network ends the cooldown, and with it the count of the episodes; a
\* cooldown that has passed ends by itself, and the count goes on.
EndCooldown(id) ==
  /\ cooldown' = Never
  /\ IF cooldown # Never /\ id \notin {NoNetwork, failedNetwork}
     THEN episodes' = 0 /\ failedNetwork' = NoNetwork
     ELSE UNCHANGED <<episodes, failedNetwork>>

\* observe_at.
MacObserve(id, reachable) ==
  \/ /\ CooldownActiveFor(id)
     /\ UNCHANGED <<trackerVars, healthVars>>
  \/ /\ ~CooldownActiveFor(id)
     /\ EndCooldown(id)
     /\ sinceProbe' = IF id = published THEN sinceProbe ELSE Never
     /\ healthFailures' = IF id = published THEN healthFailures ELSE 0
     /\ Observe(id, reachable)

HealthProbeRequired ==
  /\ sample # NoNetwork /\ sample = published
  /\ sinceProbe \in {Never, HealthInterval}

Defect_DelayOneBehind(n) == AtMost(10 * <<1, 1, 2, 4, 8>>[AtMost(n, 5)], 120)

CooldownDelay(n) == AtMost(10 * <<1, 2, 4, 8, 16>>[AtMost(n, 5)], 120)

TunnelHealthy ==
  /\ sinceProbe' = 0 /\ healthFailures' = 0
  /\ episodes' = 0 /\ cooldown' = Never /\ failedNetwork' = NoNetwork
  /\ UNCHANGED trackerVars
  /\ unhealthy' = FALSE /\ lost' = NoLoss

TunnelFails ==
  /\ healthFailures + 1 < 2
  /\ sinceProbe' = 0 /\ healthFailures' = healthFailures + 1
  /\ unhealthy' = TRUE
  /\ UNCHANGED <<trackerVars, episodes, cooldown, failedNetwork, lost>>

\* The second failure in a row: NetworkUnavailable, and the network is barred.
TunnelLost ==
  /\ healthFailures + 1 >= 2
  /\ candidate' = NoNetwork /\ stableSamples' = 0 /\ published' = NoNetwork
  /\ sinceProbe' = Never /\ healthFailures' = 0
  /\ episodes' = AtMost(episodes + 1, MaxEpisodes)
  /\ cooldown' = CooldownDelay(episodes') /\ failedNetwork' = published
  /\ unhealthy' = FALSE
  /\ lost' = [id |-> published, ago |-> 0, delay |-> cooldown']

-----------------------------------------------------------------------------
(* run_network_watch.                                                        *)

\* A route command that fails, and a default route through a tunnel, count as no
\* network.
MacSample ==
  /\ step = "sample"
  /\ sample' = route
  /\ step' = "probe"
  /\ UNCHANGED <<worldVars, trackerVars, seen, healthVars, historyVars>>

\* The portal is asked through the interface of the sample; `portal` stands for the
\* addresses found for it that could be tried.
PortalAnswers ==
  IF ~MacProbeRequired(sample) THEN {sample # NoNetwork}
  ELSE IF sample = route THEN {portal} ELSE BOOLEAN

MacProbe ==
  /\ step = "probe"
  /\ \E reachable \in PortalAnswers :
        /\ MacObserve(sample, reachable)
        /\ seen' = <<[id |-> sample,
                      reachable |-> reachable /\ (sample = published \/ MacProbeRequired(sample))],
                     seen[1]>>
  /\ unhealthy' = (unhealthy /\ published' = published)
  /\ lost' = IF sample \in {NoNetwork, lost.id} THEN lost ELSE NoLoss
  /\ step' = "health"
  /\ UNCHANGED <<worldVars, sample>>

\* The engine may be connected or not, and the tunnel may answer or not.
MacHealth ==
  /\ step = "health"
  /\ \/ HealthProbeRequired /\ (TunnelHealthy \/ TunnelFails \/ TunnelLost)
     \/ UNCHANGED <<trackerVars, healthVars, historyVars>>
  /\ step' = "sample"
  /\ UNCHANGED <<worldVars, sample, seen>>

-----------------------------------------------------------------------------
MacTrackerInit ==
  /\ Init
  /\ sinceProbe = Never /\ healthFailures = 0
  /\ episodes = 0 /\ cooldown = Never /\ failedNetwork = NoNetwork
  /\ unhealthy = FALSE /\ lost = NoLoss

MacTrackerNext == MacWorld \/ TimePasses \/ MacSample \/ MacProbe \/ MacHealth

MacTrackerSpec == MacTrackerInit /\ [][MacTrackerNext]_macVars

\* The watch goes on round after round, and time passes between the rounds again and
\* again.
MacWatchFairness ==
  /\ WF_macVars(MacSample) /\ WF_macVars(MacProbe) /\ WF_macVars(MacHealth)
  /\ SF_macVars(TimePasses)
FairMacTrackerSpec == MacTrackerSpec /\ MacWatchFairness

-----------------------------------------------------------------------------
(* Properties.                                                               *)

MacTrackerTypeOK ==
  /\ sinceProbe \in {Never} \union 0 .. HealthInterval
  /\ healthFailures \in 0 .. 1
  /\ episodes \in 0 .. MaxEpisodes
  /\ cooldown \in {Never} \union 0 .. 120
  /\ failedNetwork \in Identities

\* A network is taken from a tunnel for its health only after two failed probes in a
\* row with the network published all the time: one lost packet never ends a
\* connection.
HealthLossIsConfirmed ==
  [][step = "health" /\ published' # published => unhealthy]_macVars

\* A network the tunnel failed on is not taken back before its delay has passed,
\* unless another network was seen in between.
CooldownHolds ==
  [][published' # published /\ published' # NoNetwork /\ published' = lost.id
       => lost.ago >= lost.delay]_macVars

\* Losing the same network again, with neither a healthy answer nor another network
\* in between, doubles the delay up to 120 seconds.
DelayDoubles ==
  [][step = "health" /\ published' # published /\ lost.id = published
       => cooldown' = AtMost(2 * lost.delay, 120)]_macVars

\* However often the tunnel failed, the cooldown ends: a network that stays, with the
\* portal answering, is published again and again.
NetworkComesBack ==
  \A id \in Networks : <>[](route = id /\ portal) => []<>(published = id)

\* A network is taken away for its health after two failures only, stays away for its delay,
\* and longer each time.
CooldownKept == []MacTrackerTypeOK /\ HealthLossIsConfirmed /\ CooldownHolds /\ DelayDoubles

=============================================================================
