---------------------------- MODULE NetworkWrapper ----------------------------
(*****************************************************************************)
(* The network wrapper of the macOS helper                                   *)
(* (macos/Sources/HYUVPNPrivilegedHelper/NetworkWrapper.swift) and its       *)
(* ledger (NetworkLedger.swift).  openconnect runs the wrapper in place of   *)
(* vpnc-script; the wrapper writes down the network as it was, runs the      *)
(* script, writes down what the script did, and at the end undoes it from    *)
(* the ledger and removes the ledger.  The helper runs it once more with     *)
(* reason "repair" when a session left its ledger behind.                    *)
(*                                                                           *)
(* One session.  The wrapper may be killed, or fail, between any two of its  *)
(* steps; the network, the user and openconnect move at any time; the script *)
(* is in a process group of its own and outlives a wrapper that is killed.   *)
(*****************************************************************************)
EXTENDS Integers

CONSTANTS
  Networks,   (* [service, gateway]: the physical networks; the service also       *)
              (* names the interface                                              *)
  MaxMoves,         (* bound: steps of the network and the user                    *)
  MaxDisturbances   (* bound: those, and wrappers killed, tools that fail and      *)
                    (* scripts that hang                                          *)

\* The tunnel is neither a physical interface nor its far end a physical router.
ASSUME WrapperAssumption ==
  /\ Networks \subseteq [service : STRING, gateway : STRING]
  /\ \A n \in Networks : n.service # "utun" /\ n.gateway # "vpn"
  /\ MaxMoves \in Nat /\ MaxDisturbances \in Nat

VARIABLES
  net,        (* the physical network, from Networks                              *)
  boot,       (* the boot session                                                 *)
  routes,     (* the route to each destination                                    *)
  setup,      (* per service: its stored DNS servers and search domains            *)
  dynamic,    (* the resolver entries of the running system                       *)
  tunnelKey,  (* whether the tunnel interface has a resolver entry                 *)
  tunnel,     (* whether the tunnel interface exists                              *)
  session,    (* what openconnect did last                                        *)
  ledger,     (* the ledger file                                                  *)
  run,        (* the wrapper that holds the ledger's lock                          *)
  script,     (* the vpnc-script that runs                                        *)
  moves, failures,
  original,   (* history: the routes before the session                           *)
  happened    (* history: "orphan" a script outlived its wrapper, "unrecorded" a   *)
              (* wrapper died before it wrote down what its script did,            *)
              (* "reconnect", "elsewhere" another boot or service                  *)

systemVars == <<net, boot, routes, setup, dynamic, tunnelKey, tunnel>>
history == <<original, happened>>
budget == <<moves, failures>>
wrapperVars == <<systemVars, session, ledger, run, script, budget, history>>

Disturbable == moves + failures < MaxDisturbances

NoRoute == [gateway |-> "none", interface |-> "none"]
NoLedger == [status |-> "none"]
NoRoutes == [d \in {} |-> NoRoute]
NoResolver == [service |-> "none"]
NoRun == [pc |-> "idle"]

\* One destination behind the tunnel, and the VPN gateway itself.
Destinations == {"campus", "vpnHost"}
Services == {n.service : n \in Networks}
Via(gateway, interface) == [gateway |-> gateway, interface |-> interface]

-----------------------------------------------------------------------------
(* The snapshot of the network, for the destinations and with the tunnel       *)
(* interface the caller names.                                              *)

\* routeGet: only the route to exactly that destination counts.
RoutesSeen(dests) == [d \in {e \in dests : routes[e] # NoRoute} |-> routes[d]]

\* dnsState: a key the system does not have is an answer, not a failure.
TunnelEntry(asked) == IF ~asked THEN "unasked" ELSE IF tunnelKey THEN "present" ELSE "absent"

ResolverSeen(asked, active) ==
  [service |-> net.service, active |-> active, servers |-> setup[net.service].servers,
   search |-> setup[net.service].search, dynamic |-> dynamic, tunnelKey |-> TunnelEntry(asked)]

Snapshot(dests, named) ==
  LET seen == RoutesSeen(dests)
      live == \E d \in DOMAIN seen : seen[d].interface = "utun"
  IN [boot |-> boot, service |-> net.service, gateway |-> net.gateway,
      routes |-> seen, tunnel |-> live,
      resolver |-> ResolverSeen(live \/ named, IF live THEN "utun" ELSE net.service)]

\* The entries of a resolver snapshot: the two stored fields, the running values,
\* and the tunnel's key.
Entries == {"servers", "search", "dynamic", "tunnelKey"}

RouteOf(cur, d) == IF d \in DOMAIN cur.routes THEN cur.routes[d] ELSE NoRoute

\* stableNetworkIdentity: what two samples of a baseline must agree on.
NetworkIdentity == <<boot, net>>

-----------------------------------------------------------------------------
(* What the ledger allows. *)

SameContext(l, cur) ==
  /\ l.boot = cur.boot
  /\ l.service = cur.service
  /\ l.gateway = cur.gateway

\* A route that is neither the old one nor ours stops everything, except that a
\* repair also takes one for ours when the ledger says only that we meant to add it.
RouteAllowed(l, cur, d, repairing) ==
  LET r == cur.routes[d]
      rec == l.records[d]
  IN \/ r \in {rec.applied, rec.before}
     \/ /\ repairing
        /\ rec.applied = NoRoute
        /\ \/ r.interface = "utun"
           \/ d = "vpnHost" /\ r = Via(l.gateway, l.service)

\* resolverPreflightSafe: each entry is the old one or the one the script left.
ResolverAllowed(l, r) ==
  LET b == l.dnsBefore
      a == l.dnsApplied
      asked(x) == x.tunnelKey # "unasked"
  IN \/ r = b
     \/ a = NoResolver /\ r = [b EXCEPT !.active = r.active]
     \/ /\ a # NoResolver
        /\ r.service = b.service
        /\ asked(a) = asked(b) /\ asked(r) = asked(b)
        /\ \A f \in Entries : r[f] \in {b[f], a[f]}

PreflightSafe(l, cur, repairing) ==
  /\ l.status = "recorded" \/ repairing
  /\ SameContext(l, cur)
  /\ \A d \in DOMAIN l.records \cap DOMAIN cur.routes : RouteAllowed(l, cur, d, repairing)
  /\ ResolverAllowed(l, cur.resolver)

BaselineRestored(l, cur) ==
  /\ SameContext(l, cur)
  /\ cur.resolver = l.dnsBefore
  /\ \A d \in DOMAIN l.records : RouteOf(cur, d) = l.records[d].before

-----------------------------------------------------------------------------
(* When a ledger of another network or boot may be thrown away. *)

\* sameRouteAppliedDNSArtifactsAbsent: another service has other stored fields.
AppliedEntriesAbsent(l, cur) ==
  l.dnsApplied # NoResolver =>
    \A f \in IF cur.service = l.service THEN Entries ELSE {"dynamic", "tunnelKey"} :
      l.dnsApplied[f] # l.dnsBefore[f] => cur.resolver[f] # l.dnsApplied[f]

Values(r) ==
  {r.servers, r.search, r.dynamic} \cup (IF r.tunnelKey = "present" THEN {"vpn"} ELSE {})

\* appliedResolverValuesAbsent
AppliedValuesAbsent(l, cur) ==
  l.dnsApplied # NoResolver =>
    (Values(l.dnsApplied) \ Values(l.dnsBefore)) \cap Values(cur.resolver) = {}

NothingOfOurs(cur) == DOMAIN cur.routes = {} /\ ~cur.tunnel /\ cur.resolver.active = cur.service

StaleContextSafe(l, cur) ==
  /\ l.status = "repair-required"
  /\ l.service = cur.service
  /\ NothingOfOurs(cur)
  /\ l.tunnel /\ cur.resolver.tunnelKey = "absent"

EmptyBaselineRetirementSafe(l, cur) ==
  /\ l.status = "repair-required"
  /\ l.boot = cur.boot
  /\ DOMAIN l.records = {} /\ l.dnsApplied = NoResolver /\ ~l.tunnel
  /\ NothingOfOurs(cur)

CrossContextRetirementSafe(l, cur) ==
  /\ l.status = "repair-required"
  /\ l.boot # cur.boot \/ l.service # cur.service
  /\ NothingOfOurs(cur)
  /\ l.tunnel /\ cur.resolver.tunnelKey = "absent"
  /\ AppliedEntriesAbsent(l, cur) /\ AppliedValuesAbsent(l, cur)

Defect_ResolverNotCompared(l, cur) == l.boot = cur.boot /\ StaleContextSafe(l, cur)

StaleRetirementSafe(l, cur) ==
  /\ l.boot = cur.boot
  /\ StaleContextSafe(l, cur)
  /\ cur.resolver.servers = l.dnsBefore.servers
  /\ cur.resolver.search = l.dnsBefore.search
  /\ l.gateway # cur.gateway \/ AppliedEntriesAbsent(l, cur)

RetirementSafe(l, cur) ==
  \/ EmptyBaselineRetirementSafe(l, cur)
  \/ CrossContextRetirementSafe(l, cur)
  \/ StaleRetirementSafe(l, cur)

\* staleResolverFieldRestoreDecision: left alone, restored, or neither is safe.
Installed(l, cur, f) == cur.resolver[f] = l.dnsApplied[f] /\ l.dnsApplied[f] # l.dnsBefore[f]
Decided(l, cur, f) == cur.resolver[f] = l.dnsBefore[f] \/ Installed(l, cur, f)

StaleDnsRepairable(l, cur) ==
  /\ l.boot = cur.boot
  /\ StaleContextSafe(l, cur)
  /\ l.dnsApplied # NoResolver
  /\ Decided(l, cur, "servers") /\ Decided(l, cur, "search")
  /\ Installed(l, cur, "servers") \/ Installed(l, cur, "search")

\* A route of the tunnel that fell back to the physical interface when it went.
OwnedStaleRoute(l, cur, d) ==
  /\ d \in DOMAIN l.records
  /\ LET rec == l.records[d] IN
       /\ rec.before \in {NoRoute, rec.applied}
       /\ rec.after = rec.applied
       /\ rec.applied.interface = "utun"
       /\ cur.routes[d] = Via(rec.applied.gateway, cur.service)

StaleRoutesRemovable(l, cur) ==
  LET clean == [cur EXCEPT !.routes = NoRoutes] IN
    /\ l.boot = cur.boot
    /\ DOMAIN cur.routes # {}
    /\ StaleRetirementSafe(l, clean) \/ StaleDnsRepairable(l, clean)
    /\ l.tunnel
    /\ \A d \in DOMAIN cur.routes : OwnedStaleRoute(l, cur, d)

-----------------------------------------------------------------------------
(* Plans: per destination the route to delete and the one to restore, the       *)
(* resolver fields to restore, and what is verified at the end.               *)

RouteStep(d, delete, restore) == [dest |-> d, delete |-> delete, restore |-> restore]

StalePlan(l, cur, removeRoutes) ==
  LET clean == [cur EXCEPT !.routes = NoRoutes] IN
    [routes |-> IF removeRoutes
                THEN {RouteStep(d, cur.routes[d].gateway, NoRoute) : d \in DOMAIN cur.routes}
                ELSE {},
     fields |-> IF StaleDnsRepairable(l, clean)
                THEN {f \in {"servers", "search"} : Installed(l, clean, f)} ELSE {},
     check |-> "retire"]

\* exactIntentRouteOwned
IntentOwned(l, cur, d) ==
  LET r == cur.routes[d]
      rec == l.records[d]
  IN IF rec.applied # NoRoute THEN r = rec.applied
     ELSE d = "vpnHost" /\ r = Via(l.gateway, l.service)

Defect_RestoreForgotten(l, cur) ==
  [routes |-> {RouteStep(d, l.records[d].applied.gateway, l.records[d].before) :
                 d \in {e \in DOMAIN l.records :
                          /\ RouteOf(cur, e) = l.records[e].applied
                          /\ RouteOf(cur, e) # NoRoute}},
   fields |-> {}, check |-> "restored"]

\* repairActions: only what the ledger says is ours is undone.
RepairPlan(l, cur) ==
  LET off == {d \in DOMAIN l.records : RouteOf(cur, d) # l.records[d].before}
      a == l.dnsApplied
      stored(r) == <<r.servers, r.search>>
      left(x, y, z) == x = y /\ x # z
      surfaces == \/ left(stored(cur.resolver), stored(a), stored(l.dnsBefore))
                  \/ \E f \in {"dynamic", "tunnelKey"} :
                       left(cur.resolver[f], a[f], l.dnsBefore[f])
  IN [routes |-> {RouteStep(d, RouteOf(cur, d).gateway, l.records[d].before) : d \in off},
      fields |-> IF a = NoResolver THEN {}
                 ELSE IF surfaces THEN {"servers", "search", "dynamic"}
                 ELSE {f \in {"servers", "search"} : cur.resolver[f] = a[f]},
      check |-> "restored"]

RepairPlanSafe(l, cur) ==
  /\ PreflightSafe(l, cur, TRUE)
  /\ \A d \in DOMAIN l.records :
       \/ RouteOf(cur, d) \in {l.records[d].before, NoRoute}
       \/ IntentOwned(l, cur, d)

-----------------------------------------------------------------------------
(* Ledgers. *)

Baseline(cur, dests, named) ==
  [status |-> "recorded", boot |-> cur.boot, service |-> cur.service,
   gateway |-> cur.gateway, tunnel |-> named,
   records |-> [d \in dests |-> [before |-> RouteOf(cur, d), applied |-> NoRoute,
                                 after |-> RouteOf(cur, d)]],
   dnsBefore |-> cur.resolver, dnsApplied |-> NoResolver]

\* ledgerWithPersistedIntent: the routes the script is about to add.
IntendedRoute(l, d) ==
  IF d = "vpnHost" THEN Via(l.gateway, l.service) ELSE Via("vpn", "utun")

WithIntent(l) ==
  [l EXCEPT !.records = [d \in DOMAIN @ |-> [@[d] EXCEPT !.applied = IntendedRoute(l, d)]],
            !.tunnel = TRUE]

\* makeRouteRecords: what was before is the record's, or what was there after the
\* script ran the last time.
RecordsAfter(l, cur) ==
  [d \in DOMAIN l.records |->
     LET rec == l.records[d] IN
       IF d \in DOMAIN cur.routes
       THEN [before |-> IF rec.before # NoRoute THEN rec.before ELSE rec.after,
             applied |-> cur.routes[d], after |-> cur.routes[d]]
       ELSE rec]

Postcondition(l, cur) ==
  cur.tunnel /\ \A d \in DOMAIN l.records : RouteOf(cur, d) = l.records[d].applied

AfterScript(l, cur, status) ==
  [l EXCEPT !.records = RecordsAfter(l, cur), !.dnsApplied = cur.resolver, !.status = status]

Marked(l) == [l EXCEPT !.status = "repair-required"]

-----------------------------------------------------------------------------
(* The wrapper.  A step that throws without touching the ledger ends the run. *)

ConnectReasons == {"connect", "reconnect"}
Known == IF ledger = NoLedger THEN {} ELSE DOMAIN ledger.records
Current ==
  Snapshot(Known, \/ run.reason \in ConnectReasons \cup {"disconnect"}
                  \/ ledger # NoLedger /\ ledger.tunnel)

\* NetworkLedgerStore.save writes and syncs another file and renames it: the old
\* ledger or the new one.
Store(l) == ledger' = l
Proceed(pc) == run' = [run EXCEPT !.pc = pc]
EndRun == run' = NoRun
Refuse == EndRun /\ Store(Marked(ledger))
CutOff ==
  happened' = happened
    \cup (IF run # NoRun /\ run.pc = "script" THEN {"orphan"} ELSE {})
    \cup (IF run # NoRun /\ run.pc \in {"script", "after"} THEN {"unrecorded"} ELSE {})
Keeps == UNCHANGED <<session, script, budget, history>>
Only == UNCHANGED <<systemVars>> /\ Keeps

Defect_BaselineAgain(reason) ==
  /\ run = NoRun
  /\ run' = [pc |-> IF reason \in {"disconnect", "repair"} THEN "undo" ELSE "sample",
             reason |-> reason, identity |-> <<>>, plan |-> <<>>, code |-> 0]
  /\ \/ ledger = NoLedger /\ reason \in ConnectReasons \cup {"pre-init"}
     \/ ledger # NoLedger /\ reason \in {"disconnect", "repair"}
     \/ ledger # NoLedger /\ reason \in ConnectReasons /\ ledger.status # "repair-required"
  /\ UNCHANGED <<systemVars, ledger, script, budget>>

\* withLedgerLock, and what connectLike does with a ledger that is there already.
Begin(reason) ==
  /\ run = NoRun
  /\ run' = [pc |-> IF reason \in {"disconnect", "repair"} THEN "undo"
                    ELSE IF ledger = NoLedger THEN "sample"
                    ELSE IF Known = {} THEN "drift" ELSE "preflight",
             reason |-> reason, identity |-> <<>>, plan |-> <<>>, code |-> 0]
  /\ \/ ledger = NoLedger /\ reason \in ConnectReasons \cup {"pre-init"}
     \/ ledger # NoLedger /\ reason \in {"disconnect", "repair"}
     \/ ledger # NoLedger /\ reason \in ConnectReasons /\ ledger.status # "repair-required"
  /\ UNCHANGED <<systemVars, ledger, script, budget>>

\* The network must not have moved since pre-init.
CheckDrift ==
  /\ run.pc = "drift"
  /\ IF PreflightSafe(ledger, Snapshot({}, FALSE), FALSE)
     THEN Proceed("sample") /\ UNCHANGED ledger
     ELSE Refuse
  /\ Only

\* makeBaseline: two samples of the network's identity around a pause.
FirstSample ==
  /\ run.pc = "sample"
  /\ run' = [run EXCEPT !.pc = "baseline", !.identity = NetworkIdentity]
  /\ UNCHANGED ledger
  /\ Only

SaveBaseline ==
  /\ run.pc = "baseline"
  /\ LET dests == IF run.reason = "pre-init" THEN {} ELSE Destinations
         named == run.reason # "pre-init"
     IN IF NetworkIdentity = run.identity
        THEN /\ Store(Baseline(Snapshot(dests, named), dests, named))
             /\ Proceed("preflight")
        ELSE EndRun /\ UNCHANGED ledger
  /\ Only

Preflight ==
  /\ run.pc = "preflight"
  /\ IF PreflightSafe(ledger, Current, FALSE)
     THEN Proceed(IF run.reason = "pre-init" THEN "launch" ELSE "intent") /\ UNCHANGED ledger
     ELSE Refuse
  /\ Only

SaveIntent ==
  /\ run.pc = "intent"
  /\ Store(WithIntent(ledger))
  /\ Proceed("launch")
  /\ Only

LaunchScript ==
  /\ run.pc = "launch"
  /\ script = "none"
  /\ script' = run.reason
  /\ Proceed("script")
  /\ UNCHANGED <<systemVars, ledger, session, budget, history>>

AfterPreInit ==
  /\ run.pc = "after" /\ run.reason = "pre-init"
  /\ IF run.code = 0 /\ BaselineRestored(ledger, Current)
     THEN EndRun /\ UNCHANGED ledger
     ELSE Refuse
  /\ Only

AfterConnect ==
  /\ run.pc = "after" /\ run.reason \in ConnectReasons
  /\ LET status == IF run.code = 0 /\ Postcondition(ledger, Current)
                   THEN "recorded" ELSE "repair-required"
     IN Store(AfterScript(ledger, Current, status))
  /\ EndRun
  /\ Only

\* The script hung and was killed: saveRepairRequired.
ScriptTimesOut ==
  /\ run.pc = "script"
  /\ Disturbable /\ failures' = failures + 1
  /\ script' = "none"
  /\ CASE run.reason \in ConnectReasons -> Store(AfterScript(ledger, Current, "repair-required"))
       [] run.reason = "pre-init" -> Store(Marked(ledger))
       [] OTHER -> UNCHANGED ledger
  /\ EndRun
  /\ UNCHANGED <<systemVars, session, moves, history>>

\* The retirements and repairs of another network's ledger that "repair" tries first.
UndoStale ==
  /\ run.pc = "undo" /\ run.reason = "repair"
  /\ \/ /\ RetirementSafe(ledger, Current)
        /\ Proceed("remove")
     \/ /\ ~RetirementSafe(ledger, Current)
        /\ StaleRoutesRemovable(ledger, Current) \/ StaleDnsRepairable(ledger, Current)
        /\ run' = [run EXCEPT !.pc = "apply",
                     !.plan = StalePlan(ledger, Current, StaleRoutesRemovable(ledger, Current))]
  /\ UNCHANGED ledger
  /\ Only

StaleApplies ==
  /\ run.reason = "repair"
  /\ \/ RetirementSafe(ledger, Current)
     \/ StaleRoutesRemovable(ledger, Current)
     \/ StaleDnsRepairable(ledger, Current)

Undo ==
  /\ run.pc = "undo"
  /\ ~StaleApplies
  /\ IF PreflightSafe(ledger, Current, run.reason = "repair")
     THEN Proceed(IF run.reason = "disconnect" THEN "launch" ELSE "plan") /\ UNCHANGED ledger
     ELSE Refuse
  /\ Only

AfterDisconnect ==
  /\ run.pc = "after" /\ run.reason = "disconnect"
  /\ IF run.code = 0 THEN Proceed("plan") /\ UNCHANGED ledger ELSE Refuse
  /\ Only

MakePlan ==
  /\ run.pc = "plan"
  /\ IF RepairPlanSafe(ledger, Current)
     THEN run' = [run EXCEPT !.pc = "apply", !.plan = RepairPlan(ledger, Current)]
          /\ UNCHANGED ledger
     ELSE Refuse
  /\ Only

\* The interface the system picks for a gateway.
InterfaceOf(gateway) == IF gateway = "vpn" /\ tunnel THEN "utun" ELSE net.service

Defect_AnyGateway(s) ==
  /\ routes' = [routes EXCEPT ![s.dest] = NoRoute]
  /\ run' = [run EXCEPT !.plan.routes =
               (@ \ {s}) \cup (IF s.restore = NoRoute THEN {}
                               ELSE {RouteStep(s.dest, "none", s.restore)})]
  /\ UNCHANGED ledger

\* deleteRoute names the gateway, so another route to the destination stays.
DeleteRoute(s) ==
  IF routes[s.dest].gateway = s.delete
  THEN /\ routes' = [routes EXCEPT ![s.dest] = NoRoute]
       /\ run' = [run EXCEPT !.plan.routes =
                    (@ \ {s}) \cup (IF s.restore = NoRoute THEN {}
                                    ELSE {RouteStep(s.dest, "none", s.restore)})]
       /\ UNCHANGED ledger
  ELSE Refuse /\ UNCHANGED routes

\* restoreRoute adds the route and fails when it came out on another interface.
RestoreRoute(s) ==
  IF routes[s.dest] # NoRoute THEN Refuse /\ UNCHANGED routes
  ELSE /\ routes' = [routes EXCEPT ![s.dest] = Via(s.restore.gateway, InterfaceOf(s.restore.gateway))]
       /\ IF routes'[s.dest] = s.restore
          THEN run' = [run EXCEPT !.plan.routes = @ \ {s}] /\ UNCHANGED ledger
          ELSE Refuse

ApplyRoute ==
  /\ run.pc = "apply"
  /\ \E s \in run.plan.routes : IF s.delete # "none" THEN DeleteRoute(s) ELSE RestoreRoute(s)
  /\ UNCHANGED <<net, boot, setup, dynamic, tunnelKey, tunnel>>
  /\ Keeps

RestoreField(f) ==
  IF f = "dynamic"
  THEN /\ dynamic' = ledger.dnsBefore.dynamic
       /\ tunnelKey' = (ledger.dnsBefore.tunnelKey = "present")
       /\ UNCHANGED setup
  ELSE /\ setup' = [setup EXCEPT ![ledger.service][f] = ledger.dnsBefore[f]]
       /\ UNCHANGED <<dynamic, tunnelKey>>

ApplyField ==
  /\ run.pc = "apply"
  /\ run.plan.routes = {}
  /\ \E f \in run.plan.fields :
       RestoreField(f) /\ run' = [run EXCEPT !.plan.fields = @ \ {f}]
  /\ UNCHANGED <<net, boot, routes, tunnel, ledger>>
  /\ Keeps

Verify ==
  /\ run.pc = "apply"
  /\ run.plan.routes = {} /\ run.plan.fields = {}
  /\ IF IF run.plan.check = "retire" THEN StaleRetirementSafe(ledger, Current)
                                     ELSE BaselineRestored(ledger, Current)
     THEN Proceed("remove") /\ UNCHANGED ledger
     ELSE Refuse
  /\ Only

RemoveLedger ==
  /\ run.pc = "remove"
  /\ ledger' = NoLedger
  /\ EndRun
  /\ Only

\* The wrapper is killed, or a tool or a save fails where nothing is caught.
WrapperDies ==
  /\ run # NoRun
  /\ Disturbable /\ failures' = failures + 1
  /\ EndRun
  /\ CutOff
  /\ UNCHANGED <<systemVars, ledger, session, script, moves, original>>

-----------------------------------------------------------------------------
(* The script, openconnect, the helper, the network and the user. *)

ScriptOnly == UNCHANGED <<net, boot, tunnel, session, ledger, run, budget, history>>

ScriptAddsRoute ==
  /\ script \in ConnectReasons /\ tunnel
  /\ \E d \in Destinations :
       /\ routes[d] = NoRoute
       /\ routes' = [routes EXCEPT ![d] = IF d = "campus" THEN Via("vpn", "utun")
                                          ELSE Via(net.gateway, net.service)]
  /\ UNCHANGED <<setup, dynamic, tunnelKey, script>>
  /\ ScriptOnly

ScriptSetsResolver ==
  /\ script \in ConnectReasons /\ tunnel
  /\ \/ setup' = [setup EXCEPT ![net.service] = [servers |-> "vpn", search |-> "vpn"]]
        /\ UNCHANGED <<dynamic, tunnelKey>>
     \/ dynamic' = "vpn" /\ tunnelKey' = TRUE /\ UNCHANGED setup
  /\ UNCHANGED <<routes, script>>
  /\ ScriptOnly

ScriptRemovesRoute ==
  /\ script = "disconnect"
  /\ \E d \in Destinations :
       /\ routes[d] \notin {NoRoute, original[d]}
       /\ routes' = [routes EXCEPT ![d] = NoRoute]
  /\ UNCHANGED <<setup, dynamic, tunnelKey, script>>
  /\ ScriptOnly

ScriptResetsResolver ==
  /\ script = "disconnect"
  /\ setup' = [setup EXCEPT ![net.service] = [servers |-> "own", search |-> "own"]]
  /\ dynamic' = "own" /\ tunnelKey' = FALSE
  /\ UNCHANGED <<routes, script>>
  /\ ScriptOnly

ScriptEnds ==
  /\ script # "none"
  /\ script' = "none"
  /\ IF run.pc = "script"
     THEN \E code \in {0, 1} : run' = [run EXCEPT !.pc = "after", !.code = code]
     ELSE UNCHANGED run
  /\ UNCHANGED <<systemVars, ledger, session, budget, history>>

\* openconnect: pre-init, then the tunnel device, then connect, reconnects, disconnect.
Follows(reason) ==
  CASE reason = "pre-init" -> "new"
    [] reason = "connect" -> "opened"
    [] reason = "reconnect" -> "connected"
    [] reason = "disconnect" -> "connected"

OpenConnectCalls ==
  \E reason \in {"pre-init", "connect", "reconnect", "disconnect"} :
    /\ session = Follows(reason)
    /\ Begin(reason)
    /\ session' = CASE reason = "pre-init" -> "prepared"
                    [] reason = "disconnect" -> "closing"
                    [] OTHER -> "connected"
    /\ happened' = happened \cup ({reason} \cap {"reconnect"})
    /\ UNCHANGED original

OpenTunnel ==
  /\ session = "prepared" /\ run = NoRun
  /\ session' = "opened" /\ tunnel' = TRUE
  /\ UNCHANGED <<net, boot, routes, setup, dynamic, tunnelKey>>
  /\ UNCHANGED <<ledger, run, script, budget, history>>

\* openconnect is gone and its tunnel with it: the tunnel's routes go, or fall back
\* to the physical interface.  Killing it kills the wrapper, not the script.
OpenConnectEnds ==
  /\ session \notin {"gone"}
  /\ run # NoRun => run.reason # "repair"
  /\ session' = "gone" /\ tunnel' = FALSE
  /\ \E fallsBack \in BOOLEAN :
       routes' = [d \in Destinations |->
                    IF routes[d].interface # "utun" THEN routes[d]
                    ELSE IF fallsBack THEN Via("vpn", net.service) ELSE NoRoute]
  /\ run' = NoRun
  /\ CutOff
  /\ UNCHANGED <<net, boot, setup, dynamic, tunnelKey, ledger, script, budget, original>>

\* The helper repairs once openconnect is gone.
HelperRepairs == session = "gone" /\ Begin("repair") /\ UNCHANGED <<session, history>>

Move == Disturbable /\ moves < MaxMoves /\ moves' = moves + 1

\* Another network; routes over the interface that went are dropped with it.
NetworkMoves ==
  /\ Move
  /\ \E n \in Networks \ {net} :
       /\ net' = n
       /\ routes' = [d \in Destinations |->
                       IF routes[d].interface = net.service /\ n.service # net.service
                       THEN NoRoute ELSE routes[d]]
       /\ happened' = happened \cup (IF n.service # net.service THEN {"elsewhere"} ELSE {})
  /\ dynamic' = "own"
  /\ UNCHANGED <<boot, setup, tunnelKey, tunnel, session, ledger, run, script, failures,
                 original>>

UserSetsServers ==
  /\ Move
  /\ setup' = [setup EXCEPT ![net.service].servers = "other"]
  /\ UNCHANGED <<net, boot, routes, dynamic, tunnelKey, tunnel, session, ledger, run, script,
                 failures, history>>

UserSetsRoute ==
  /\ Move
  /\ routes' = [routes EXCEPT !["campus"] = Via("other", net.service)]
  /\ UNCHANGED <<net, boot, setup, dynamic, tunnelKey, tunnel, session, ledger, run, script,
                 failures, history>>

Reboot ==
  /\ Move
  /\ boot' = boot + 1
  /\ routes' = [d \in Destinations |-> NoRoute]
  /\ dynamic' = "own" /\ tunnelKey' = FALSE /\ tunnel' = FALSE
  /\ session' = "gone" /\ run' = NoRun /\ script' = "none"
  /\ happened' = happened \cup {"elsewhere"}
  /\ UNCHANGED <<net, setup, ledger, failures, original>>

-----------------------------------------------------------------------------
WrapperInit ==
  /\ net \in Networks
  /\ boot = 1
  /\ routes \in [Destinations -> {NoRoute, Via(net.gateway, net.service)}]
  /\ original = routes
  /\ setup = [s \in Services |-> [servers |-> "own", search |-> "own"]]
  /\ dynamic = "own" /\ tunnelKey = FALSE /\ tunnel = FALSE
  /\ session = "new" /\ ledger = NoLedger /\ run = NoRun /\ script = "none"
  /\ moves = 0 /\ failures = 0 /\ happened = {}

Wrapper ==
  /\ run # NoRun
  /\ \/ CheckDrift \/ FirstSample \/ SaveBaseline \/ Preflight \/ SaveIntent \/ LaunchScript
     \/ AfterPreInit \/ AfterConnect \/ AfterDisconnect
     \/ UndoStale \/ Undo \/ MakePlan \/ ApplyRoute \/ ApplyField \/ Verify \/ RemoveLedger

Script ==
  \/ ScriptAddsRoute \/ ScriptSetsResolver \/ ScriptRemovesRoute \/ ScriptResetsResolver
  \/ ScriptEnds

World ==
  \/ OpenConnectCalls \/ OpenTunnel \/ OpenConnectEnds \/ HelperRepairs
  \/ NetworkMoves \/ UserSetsServers \/ UserSetsRoute
  \/ Reboot

WrapperNext == Wrapper \/ (run # NoRun /\ ScriptTimesOut) \/ WrapperDies \/ Script \/ World

\* A wrapper that runs goes on, a script ends, and the helper repairs again after a
\* repair that failed (each start of the service does).
WrapperFairness ==
  /\ WF_wrapperVars(Wrapper)
  /\ WF_wrapperVars(ScriptEnds)
  /\ WF_wrapperVars(HelperRepairs)

WrapperSpec == WrapperInit /\ [][WrapperNext]_wrapperVars /\ WrapperFairness

-----------------------------------------------------------------------------
(* Properties *)

\* The types, and the ledger's lock: a wrapper waits only for its own script.
WrapperTypeOK ==
  /\ net \in Networks /\ boot \in Nat
  /\ \A d \in Destinations :
       /\ routes[d].interface \in Services \cup {"none", "utun"}
       /\ routes[d].interface = "utun" => tunnel
  /\ ledger.status \in {"none", "recorded", "repair-required"}
  /\ run.pc = "script" => script = run.reason
  /\ script # "none" /\ run.pc # "script" => "orphan" \in happened

\* Something of the VPN is left: a route nobody else made, or a resolver entry.
VpnRoute(d) ==
  routes[d].gateway = "vpn" \/ (d = "vpnHost" /\ routes[d] \notin {NoRoute, original[d]})

VpnLeft ==
  \/ \E d \in Destinations : VpnRoute(d)
  \/ \E s \in Services : "vpn" \in {setup[s].servers, setup[s].search}
  \/ dynamic = "vpn" \/ tunnelKey

\* Whatever step a wrapper, openconnect or a tool fails at, what is left of the VPN
\* on the machine is in a ledger: the ledger is written before the network is
\* changed, and removed only after it was seen to be as before.  Not so when a
\* script outlives its wrapper, after a reconnect, and in another boot or service.
ChangesAreRecorded ==
  VpnLeft /\ happened \subseteq {"unrecorded"} => ledger # NoLedger

\* The baseline a session is restored to is never itself something of the VPN,
\* however often the wrapper runs in a session and wherever it is cut off; the
\* routes of a reconnect are the exception: makeRouteRecords takes what the session
\* before left in the ledger for them, the VPN's own route included.
BaselineIsNotVpn ==
  ledger # NoLedger /\ "orphan" \notin happened =>
    /\ "reconnect" \notin happened =>
         \A d \in DOMAIN ledger.records : ledger.records[d].before.gateway # "vpn"
    /\ \A f \in {"servers", "search", "dynamic"} : ledger.dnsBefore[f] # "vpn"
    /\ ledger.dnsBefore.tunnelKey # "present"

\* A wrapper never deletes a route the user put in place of the VPN's, also when he
\* does so between its snapshot and the deletion; only one that appeared while the
\* script ran, and was taken for the script's, is in the ledger and goes with it.
RepairSparesOthers ==
  [][/\ run # NoRun /\ run' # run /\ run.pc = "apply" /\ net' = net /\ boot' = boot
     /\ routes["campus"].gateway = "other" /\ routes'["campus"] # routes["campus"]
     => ledger.records["campus"].applied.gateway = "other"]_wrapperVars

\* Once openconnect is gone, and the routes of its tunnel with it, the repairs remove
\* the ledger, wherever the session or an earlier repair was cut off, provided the
\* wrapper lived to write down what the script did, and the network and the user stay
\* as they are.
RepairFinishes ==
  (/\ session = "gone"
   /\ \A d \in Destinations : routes[d].gateway = "vpn" => routes[d].interface = "utun")
  ~> (ledger = NoLedger \/ happened # {} \/ moves > 0)

\* What a session is restored to is sound at every step.
BaselineSound == WrapperTypeOK /\ BaselineIsNotVpn

=============================================================================
