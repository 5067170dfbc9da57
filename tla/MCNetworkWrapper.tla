---------------------------- MODULE MCNetworkWrapper ----------------------------
(* Two gateways of one service and a second service.  A session begins at the first  *)
(* network: another one to begin with is the same with the names exchanged.          *)
EXTENDS NetworkWrapper

Home == [service |-> "wifi", gateway |-> "home"]
MCNetworks == {Home, [service |-> "wifi", gateway |-> "cafe"],
               [service |-> "lan", gateway |-> "office"]}
MCInit == net = Home /\ WrapperInit
MCSpec == MCInit /\ [][WrapperNext]_wrapperVars /\ WrapperFairness
=============================================================================
