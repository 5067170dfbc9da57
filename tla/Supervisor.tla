----------------------------- MODULE Supervisor -----------------------------
(*****************************************************************************)
(* What the reconnect engine promises, without timers, errors or published   *)
(* states: one connection at a time, launched only while it is permitted,    *)
(* and told to stop in the very step that takes the permission away.         *)
(*                                                                           *)
(* `permitted` stands for "the user wants the VPN and a physical network is  *)
(* ready"; `phase` for the one connection; `launched` counts the             *)
(* connections ever launched, so that each launch is a new one.              *)
(*****************************************************************************)
EXTENDS Naturals

VARIABLES permitted, phase, launched

vars == <<permitted, phase, launched>>

Phases == {"idle", "running", "stopping"}

Init ==
  /\ permitted = FALSE
  /\ phase = "idle"
  /\ launched = 0

Run ==
  /\ phase' = "running"
  /\ launched' = launched + 1

Grant == permitted' = TRUE /\ UNCHANGED <<phase, launched>>

Revoke ==
  /\ permitted' = FALSE
  /\ phase' = IF phase = "idle" THEN "idle" ELSE "stopping"
  /\ UNCHANGED launched

\* Launching may come together with the permission, never without it.
Launch == phase = "idle" /\ permitted' = TRUE /\ Run

Halt ==
  /\ phase # "idle"
  /\ phase' = "stopping"
  /\ permitted' \in {permitted, TRUE}
  /\ UNCHANGED launched

Finish == phase # "idle" /\ phase' = "idle" /\ UNCHANGED <<permitted, launched>>

\* The old connection has ended and the next one starts in the same step.
Relaunch == phase # "idle" /\ permitted /\ UNCHANGED permitted /\ Run

Next == Grant \/ Revoke \/ Launch \/ Halt \/ Finish \/ Relaunch

Spec == Init /\ [][Next]_vars

\* A connection that is not permitted is never left running: it is idle or on
\* its way out.
RunningOnlyWhenPermitted == phase = "running" => permitted

=============================================================================
