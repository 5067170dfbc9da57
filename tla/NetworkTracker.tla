--------------------------- MODULE NetworkTracker ---------------------------
(*****************************************************************************)
(* The network watch of the Linux and Windows services: run_network_watch    *)
(* (rust/apps/hyu-vpn-linux-service/src/lib.rs) samples the default route    *)
(* and, for a network it has not published yet, probes the VPN portal over   *)
(* it; NetworkReadinessTracker turns the samples into NetworkReady and       *)
(* NetworkUnavailable events.  The tracker of                                *)
(* rust/apps/hyu-vpn-windows-service/src/lib.rs is the same.                 *)
(*                                                                           *)
(* The route and the portal change at any time, also between the sample      *)
(* and the probe of one round.                                               *)
(*****************************************************************************)
EXTENDS Integers

CONSTANTS
  Networks,   (* network identities (interface and gateway)          *)
  NoNetwork,  (* no default route; also Option::None of the tracker   *)
  MaxSamples  (* where stable_samples saturates (u8::MAX in the code) *)

ASSUME TrackerAssumption == NoNetwork \notin Networks /\ MaxSamples \in Nat \ {0, 1}

VARIABLES
  route,          (* the network the machine has now                           *)
  portal,         (* whether the portal answers over it                        *)
  step,           (* "sample" or "probe": what the watch does next; on macOS     *)
                  (* "health" follows (MacNetworkTracker)                        *)
  sample,         (* the identity sampled this round                           *)
  candidate,
  stableSamples,
  published,      (* observe returns an event exactly when this changes:         *)
                  (* NetworkReady(it), or NetworkUnavailable for NoNetwork      *)
  seen            (* history: sample and portal answer of the last two rounds,  *)
                  (* the latest first                                          *)

worldVars == <<route, portal>>
trackerVars == <<candidate, stableSamples, published>>
vars == <<worldVars, step, sample, trackerVars, seen>>

Identities == Networks \cup {NoNetwork}

-----------------------------------------------------------------------------
(* The world. *)

RouteChanges == route' \in Identities /\ UNCHANGED <<portal, step, sample, trackerVars, seen>>
PortalChanges == portal' = ~portal /\ UNCHANGED <<route, step, sample, trackerVars, seen>>

-----------------------------------------------------------------------------
(* NetworkReadinessTracker. *)

PortalProbeRequired(id) == id # NoNetwork /\ id # published

\* What counts as ready: the network already published needs no portal.
Ready(id, reachable) ==
  IF id # NoNetwork /\ (id = published \/ reachable) THEN id ELSE NoNetwork

Defect_CountKept(ready) ==
  LET more == stableSamples + 1 IN IF more <= MaxSamples THEN more ELSE MaxSamples

SamplesAfter(ready) ==
  LET more == stableSamples + 1
  IN IF ready # candidate THEN 1 ELSE IF more <= MaxSamples THEN more ELSE MaxSamples

Defect_LossIgnored(id, reachable) ==
  LET ready == Ready(id, reachable)
  IN /\ candidate' = ready
     /\ stableSamples' = SamplesAfter(ready)
     /\ published' = IF stableSamples' < 2 \/ ready = NoNetwork THEN published ELSE ready

Observe(id, reachable) ==
  LET ready == Ready(id, reachable)
  IN /\ candidate' = ready
     /\ stableSamples' = SamplesAfter(ready)
     /\ published' = IF stableSamples' < 2 THEN published ELSE ready

-----------------------------------------------------------------------------
(* run_network_watch. *)

\* A monitor that fails to tell the route ends the round with nothing changed.
TakeSample ==
  /\ step = "sample"
  /\ sample' = route
  /\ step' = "probe"
  /\ UNCHANGED <<worldVars, candidate, stableSamples, published, seen>>

\* A probe of a network that is not the route any more may still succeed: Linux binds
\* it to the sampled interface, Windows to none.
ProbeAnswers ==
  IF ~PortalProbeRequired(sample) THEN {sample # NoNetwork}
  ELSE IF sample = route THEN {portal} ELSE BOOLEAN

ProbeAndObserve ==
  /\ step = "probe"
  /\ \E reachable \in ProbeAnswers :
        /\ Observe(sample, reachable)
        /\ seen' = <<[id |-> sample, reachable |-> reachable], seen[1]>>
  /\ step' = "sample"
  /\ UNCHANGED <<worldVars, sample>>

-----------------------------------------------------------------------------
Nothing == [id |-> NoNetwork, reachable |-> FALSE]

Init ==
  /\ route \in Identities /\ portal \in BOOLEAN
  /\ step = "sample" /\ sample = NoNetwork
  /\ candidate = NoNetwork /\ stableSamples = 0 /\ published = NoNetwork
  /\ seen = <<Nothing, Nothing>>

World == RouteChanges \/ PortalChanges
Watch == TakeSample \/ ProbeAndObserve
Next == World \/ Watch

Spec == Init /\ [][Next]_vars

\* The watch goes on round after round, and the monitor does not fail for ever.
WatchFairness == WF_vars(TakeSample) /\ WF_vars(ProbeAndObserve)
FairSpec == Spec /\ WatchFairness

-----------------------------------------------------------------------------
(* Properties. *)

TrackerTypeOK ==
  /\ route \in Identities /\ portal \in BOOLEAN
  /\ step \in {"sample", "probe", "health"} /\ sample \in Identities
  /\ candidate \in Identities /\ published \in Identities
  /\ stableSamples \in 0 .. MaxSamples

\* The engine is told of a network only after the same network was sampled in two
\* rounds in a row with the portal answering in both: one sample in the middle of a
\* change of networks is never published.
ReadyIsConfirmed ==
  [][published' # published /\ published' # NoNetwork =>
       \A i \in 1 .. 2 : seen'[i].id = published' /\ seen'[i].reachable]_vars

\* An observation gives a published network up, or replaces it, only after two rounds in
\* a row that did not see it.  In particular a portal that stops answering, which it may well do
\* while the tunnel carries the traffic, never takes the network away.
LossIsConfirmed ==
  [][step = "probe" /\ published' # published /\ published # NoNetwork =>
       \A i \in 1 .. 2 : seen'[i].id # published]_vars

\* A network that stays, with the portal answering, is published in the end; one that
\* has gone for good is given up in the end.
SteadyNetworkPublished ==
  \A id \in Networks : <>[](route = id /\ portal) => <>[](published = id)
LostNetworkGivenUp == <>[](route = NoNetwork) => <>[](published = NoNetwork)

\* Nothing is published or dropped on the word of one round.
ConfirmedTwice == ReadyIsConfirmed /\ LossIsConfirmed

=============================================================================
