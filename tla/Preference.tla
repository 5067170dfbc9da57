------------------------------ MODULE Preference ------------------------------
(**************************************************************************************)
(* What the service is promised of the stored preference for reconnecting             *)
(* automatically: a store takes effect at one moment or not at all, an answer         *)
(* "ok" means that it has, and a crash loses nothing else.  A forgetful store may     *)
(* fall back to "on", what is assumed when nothing is stored, before it takes effect. *)
(**************************************************************************************)

VARIABLES
  forgetful, (* a store may fall back to "on" on the way                             *)
  value,     (* what a load returns                                               *)
  request,   (* the preference being stored, or "none"                             *)
  reply      (* the answer to the last store that was answered, or "none"            *)

vars == <<forgetful, value, request, reply>>

Ask(preference) ==
  /\ request = "none" /\ request' = preference /\ reply' = "none"
  /\ UNCHANGED value

Take == request # "none" /\ value' = request /\ UNCHANGED <<request, reply>>

Forget ==
  /\ forgetful /\ request # "none" /\ value' = "on"
  /\ UNCHANGED <<request, reply>>

Answer(answer) ==
  /\ request # "none" /\ (answer = "ok" => value = request)
  /\ request' = "none" /\ reply' = answer
  /\ UNCHANGED value

Interrupt == request' = "none" /\ reply' = "none" /\ UNCHANGED value

Init ==
  /\ forgetful \in BOOLEAN
  /\ value \in {"on", "off"} /\ request = "none" /\ reply = "none"

Next ==
  /\ \/ \E preference \in {"on", "off"} : Ask(preference)
     \/ Take \/ Forget
     \/ \E answer \in {"ok", "failed"} : Answer(answer)
     \/ Interrupt
  /\ UNCHANGED forgetful

Spec == Init /\ [][Next]_vars

=============================================================================
