-------------------------- MODULE MCNetworkTracker --------------------------
(* The watch of one service: that of Linux and Windows, or that of macOS, which  *)
(* a behaviour never exchanges.  The first one leaves the variables of the other alone. *)
EXTENDS MacNetworkTracker, TLC

VARIABLE platform

trackedVars == <<macVars, platform>>

TrackedInit == platform \in {"unix", "macos"} /\ MacTrackerInit

UnixNext == platform = "unix" /\ Next /\ UNCHANGED <<healthVars, historyVars>>
MacosNext == platform = "macos" /\ MacTrackerNext
TrackedNext == (UnixNext \/ MacosNext) /\ UNCHANGED platform

TrackedSpec ==
  /\ TrackedInit /\ [][TrackedNext]_trackedVars
  /\ platform = "unix" => WatchFairness
  /\ platform = "macos" => MacWatchFairness

\* A network that stays is published, one that is gone is given up.  The first is about the
\* watch of Linux and Windows: on macOS the health of the tunnel may take a network away,
\* and what is promised is that it comes back, however often that happens.
NetworkFollowed ==
  /\ platform = "unix" => SteadyNetworkPublished
  /\ LostNetworkGivenUp
  /\ NetworkComesBack

=============================================================================
