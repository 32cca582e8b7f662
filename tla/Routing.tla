-------------------------------- MODULE Routing --------------------------------
(***************************************************************************)
(* The two routing strategies of hysteria-manager, command by command:     *)
(* RouteManager ("global", src/internal/runtime/routes.go) and             *)
(* SelectiveRouteManager ("selective", selective.go, with firewall.go and  *)
(* the RCI calls of src/internal/keenetic/rci.go).                         *)
(*                                                                         *)
(* Three callers use them: requests, one after the other because of a.mu,  *)
(* and without a.mu the handler of an unexpected client exit and Shutdown. *)
(* Those two evaluate a.routeMgr before it reads the state file.  A step   *)
(* is one numbered part of Activate or Deactivate.  A part that is a loop  *)
(* over commands can stop anywhere when one fails; the process can be      *)
(* killed between any two steps.                                           *)
(*                                                                         *)
(* Abstracted: IPv6, which follows IPv4; what host names resolve to: the   *)
(* addresses of a tunnel's endpoint are one destination, named by the      *)
(* tunnel, those of a host of subscriptions another, the private networks  *)
(* and gateways of BuildRoutePlan a third; the client, by the tunnel it    *)
(* serves.  A save of the store fails only in an update of the routing,    *)
(* the one that changes what is saved here.                                *)
(***************************************************************************)
EXTENDS Naturals, FiniteSets

CONSTANTS
    Tunnels,        \* tunnels, and the interfaces they use
    Groups,         \* domain groups that can be configured
    CIDRs,          \* static routes that can be configured
    Hosts,          \* hosts a subscription can come from
    None,
    FaultKinds,     \* what may happen: a "command" fails, a "crash", a client's "exit", a
                    \* "shutdown", a tunnel may "vanish", the "source" may change
    MaxFaults,      \* bound on that
    MaxCopies       \* bound on the copies of a firewall rule: no activation at it

ASSUME ConstantsAssumption ==
    /\ {"wan", "none", "networks", None} \cap (Tunnels \cup Hosts) = {}
    /\ Tunnels \cap Hosts = {} /\ Hosts # {}
    /\ None \notin {"wan", "none"} \cup Groups \cup CIDRs
    /\ FaultKinds \subseteq {"command", "crash", "exit", "shutdown", "vanish", "source"}
    /\ MaxFaults \in Nat
    /\ MaxCopies \in Nat

Modes   == {"global", "selective"}
Callers == {"request", "exit", "shutdown"}

\* What routes of their own are made for.
Destinations == Tunnels \cup Hosts \cup {"networks"}

VARIABLES
    default,        \* where the default route leads: "wan", a tunnel, or there is "none"
    pins,           \* where the routes of a destination lead, if it has any
    groups,         \* FQDN groups the router has
    dns,            \* the interface the DNS route of each group leads into
    statics,        \* the interface the route of each CIDR leads into
    rules,          \* copies of the firewall rules of each interface
    file,           \* the route state file
    strategy,       \* the mode of a.routeMgr
    routing,        \* st.Routing in memory: the mode, the enabled groups and CIDRs
    source,         \* the host of the subscription's url
    running,        \* the tunnel whose client runs
    active,         \* the tunnel the store says is running
    saved,          \* st.Routing on disk
    job,            \* what each caller is doing, with the strategy it does it with and
                    \* the host and the record it works on
    faults,
    spoiled         \* what happened that can leave something unrecorded

system   == <<default, pins, groups, dns, statics, rules>>
settings == <<strategy, routing, source>>
runtime  == <<running, active, saved>>
ghosts   == <<faults, spoiled>>
vars     == <<system, file, settings, runtime, job, ghosts>>

-----------------------------------------------------------------------------
(* RouteState and selectiveState, in one record with the mode that wrote it. *)

RoutingConfigs == [mode : Modes, groups : SUBSET Groups, statics : SUBSET CIDRs]

RouteStates ==
    [mode : Modes, iface : Tunnels, default : {"wan", "none"} \cup Tunnels,
     pins : SUBSET Destinations, groups : SUBSET Groups, statics : SUBSET CIDRs]

Blank(mode, iface, route) ==
    [mode |-> mode, iface |-> iface, default |-> route,
     pins |-> {}, groups |-> {}, statics |-> {}]

\* What a strategy reads of a state: the two formats share only interfaceName.
Loaded(rs, mode) == IF rs.mode = mode THEN rs ELSE Blank(mode, rs.iface, "none")

Plans ==
    [kind : {"switch"}, iface : Tunnels]
    \cup [kind : {"stop"}]
    \cup [kind : {"update"}, routing : RoutingConfigs]

ASSUME NoneAssumption == None \notin RouteStates \cup Plans

IdleJob == [at |-> "idle", by |-> None, plan |-> None, host |-> None, rs |-> None]

\* A subscription was imported, no tunnel activated yet.
Init ==
    /\ default = "wan"
    /\ pins = [h \in Destinations |-> None]
    /\ groups = {}
    /\ dns = [g \in Groups |-> None]
    /\ statics = [d \in CIDRs |-> None]
    /\ rules = [t \in Tunnels |-> 0]
    /\ file = None
    /\ strategy = "selective"
    /\ routing = [mode |-> "selective", groups |-> {}, statics |-> {}]
    /\ source \in Hosts
    /\ running = None
    /\ active = None
    /\ saved = routing
    /\ job = [c \in Callers |-> IdleJob]
    /\ faults = 0
    /\ spoiled = "no"

Fault(kind) ==
    /\ kind \in FaultKinds
    /\ faults < MaxFaults
    /\ faults' = faults + 1

At(c, l) == job[c].at = l

Goto(c, l) == job' = [job EXCEPT ![c].at = l]

Record(c, l, rs) == job' = [job EXCEPT ![c].at = l, ![c].rs = rs]

Idle(c) == job' = [job EXCEPT ![c] = IdleJob]

\* A caller without the lock is about to undo what it once read, while a
\* request activates.
Overlap == \E c \in {"exit", "shutdown"} : job[c].at \notin {"idle", "begin", "load", "ended"}

Activated == spoiled' = IF Overlap THEN "overlap" ELSE spoiled

-----------------------------------------------------------------------------
(* Commands.                                                                *)

\* What groups can be after SyncFQDNGroup(g), which deletes the group first.
SyncFQDNGroup(existing, g) == {existing \ {g}, existing \cup {g}}

DeleteFQDNGroups(gone) == groups \ gone

SyncDNSProxyRoutes(into, iface) ==
    [g \in Groups |-> IF g \in into THEN iface ELSE dns[g]]

DeleteDNSProxyRoutes(gone) == SyncDNSProxyRoutes(gone, None)

\* The way to h: its pin, or the default route.
RouteTo(h) == IF pins[h] # None THEN pins[h] ELSE default

\* The default route that was replaced, or none when there was none.
RestoreDefaultRoute(rs) ==
    IF rs.default # "none" THEN rs.default
    ELSE IF default = rs.iface THEN "none" ELSE default

-----------------------------------------------------------------------------
(* Deactivate.                                                              *)

\* A request goes on with its plan, the exit handler takes the tunnel out of the
\* store, Shutdown stops the client.
Off(c) ==
    \/ c = "request" /\ Goto(c, "turn") /\ UNCHANGED runtime
    \/ c = "exit" /\ Idle(c) /\ active' = None /\ saved' = routing /\ UNCHANGED running
    \/ c = "shutdown" /\ Goto(c, "ended") /\ running' = None /\ UNCHANGED <<active, saved>>

\* Without the lock a.routeMgr is read before the file.
Take(c) ==
    /\ At(c, "begin")
    /\ job' = [job EXCEPT ![c].at = "load", ![c].by = strategy]
    /\ UNCHANGED <<system, file, settings, runtime, ghosts>>

FirstUndo(mode) == IF mode = "global" THEN "undoDefault" ELSE "undoDomains"

\* [faulty variant] The file is removed before its contents are undone.
LoadRemovesFile(c) ==
    LET by == job[c].by IN
    /\ At(c, "load")
    /\ \/ file = None /\ Off(c) /\ UNCHANGED ghosts
       \/ /\ file # None
          /\ Record(c, FirstUndo(by), Loaded(file, by))
          /\ spoiled' = IF file.mode = by THEN spoiled ELSE "mode"
          /\ UNCHANGED <<runtime, faults>>
    /\ file' = None
    /\ UNCHANGED <<system, settings>>

\* A file that is there may be unreadable; one of the other mode loses what it
\* says.
Load(c) ==
    LET by == job[c].by IN
    /\ At(c, "load")
    /\ \/ file = None /\ Off(c) /\ UNCHANGED ghosts
       \/ file # None /\ Fault("command") /\ Off(c) /\ spoiled' = "undo"
       \/ /\ file # None
          /\ Record(c, FirstUndo(by), Loaded(file, by))
          /\ spoiled' = IF file.mode = by THEN spoiled ELSE "mode"
          /\ UNCHANGED <<runtime, faults>>
    /\ UNCHANGED <<system, file, settings>>

\* Errors are collected and the file goes in any case, so what a command did
\* not undo is forgotten.
Undone(keep, all) ==
    \/ keep = {} /\ UNCHANGED ghosts
    \/ keep # {} /\ keep \subseteq all /\ Fault("command") /\ spoiled' = "undo"

UndoDefault(c) ==
    LET rs == job[c].rs IN
    /\ At(c, "undoDefault")
    /\ \E kept \in {{}, {rs.iface}} :
        /\ Undone(kept, {rs.iface})
        /\ default' = IF kept = {} THEN RestoreDefaultRoute(rs) ELSE default
    /\ Goto(c, "unpin")
    /\ UNCHANGED <<pins, groups, dns, statics, rules, file, settings, runtime>>

UndoDomains(c) ==
    LET rs == job[c].rs IN
    /\ At(c, "undoDomains")
    /\ \E keptRoutes \in SUBSET rs.groups, keptGroups \in SUBSET rs.groups :
        /\ Undone(keptRoutes \cup keptGroups, rs.groups)
        /\ dns' = DeleteDNSProxyRoutes(rs.groups \ keptRoutes)
        /\ groups' = DeleteFQDNGroups(rs.groups \ keptGroups)
    /\ Goto(c, "undoStatics")
    /\ UNCHANGED <<default, pins, statics, rules, file, settings, runtime>>

UndoStatics(c) ==
    LET rs == job[c].rs IN
    /\ At(c, "undoStatics")
    /\ \E kept \in SUBSET rs.statics :
        /\ Undone(kept, rs.statics)
        /\ statics' = [d \in CIDRs |->
                IF d \in rs.statics \ kept /\ statics[d] = rs.iface THEN None ELSE statics[d]]
    /\ Goto(c, "unpin")
    /\ UNCHANGED <<default, pins, groups, dns, rules, file, settings, runtime>>

Unpin(c) ==
    LET rs == job[c].rs IN
    /\ At(c, "unpin")
    /\ \E kept \in SUBSET rs.pins :
        /\ Undone(kept, rs.pins)
        /\ pins' = [h \in Destinations |-> IF h \in rs.pins \ kept THEN None ELSE pins[h]]
    /\ Goto(c, IF rs.mode = "global" THEN "remove" ELSE "undoRules")
    /\ UNCHANGED <<default, groups, dns, statics, rules, file, settings, runtime>>

\* iptables -D deletes one copy, if there is one.
\* [faulty variant] The copies are counted without looking.
UndoRulesBlindly(c) ==
    /\ At(c, "undoRules")
    /\ rules' = [rules EXCEPT ![job[c].rs.iface] = @ - 1]
    /\ Goto(c, "remove")
    /\ UNCHANGED <<default, pins, groups, dns, statics, file, settings, runtime, ghosts>>

UndoRules(c) ==
    LET t == job[c].rs.iface IN
    /\ At(c, "undoRules")
    /\ \E kept \in {{}, {t}} :
        /\ Undone(kept, {t})
        /\ rules' = IF kept = {} /\ rules[t] > 0 THEN [rules EXCEPT ![t] = @ - 1] ELSE rules
    /\ Goto(c, "remove")
    /\ UNCHANGED <<default, pins, groups, dns, statics, file, settings, runtime>>

Remove(c) ==
    /\ At(c, "remove")
    /\ \/ file' = None /\ UNCHANGED ghosts
       \/ file # None /\ Fault("command") /\ spoiled' = "undo" /\ UNCHANGED file
    /\ Off(c)
    /\ UNCHANGED <<system, settings>>

-----------------------------------------------------------------------------
(* What a request does around it, in src/internal/app/app.go.               *)

Request(plan) ==
    /\ At("request", "idle")
    /\ job' = [job EXCEPT !["request"] =
            [IdleJob EXCEPT !.at = "load", !.by = strategy, !.plan = plan, !.host = source]]
    /\ UNCHANGED <<system, file, settings, runtime, ghosts>>

Switch == \E t \in Tunnels :
    rules[t] < MaxCopies /\ Request([kind |-> "switch", iface |-> t])

Stop == Request([kind |-> "stop"])

\* The mode is compared with the one in memory, which a failed save has changed.
Recreate(new) ==
    /\ strategy' = IF new.mode # routing.mode THEN new.mode ELSE strategy
    /\ routing' = new
    /\ saved' = new

SaveFails(new) ==
    /\ Fault("command")
    /\ routing' = new
    /\ UNCHANGED <<strategy, saved>>

\* Without an active tunnel an update of the routing only changes the settings.
Update ==
    \E new \in RoutingConfigs :
        \/ /\ active # None
           /\ rules[active] < MaxCopies
           /\ Request([kind |-> "update", routing |-> new])
        \/ /\ active = None
           /\ At("request", "idle")
           /\ \/ Recreate(new) /\ UNCHANGED faults
              \/ SaveFails(new)
           /\ UNCHANGED <<system, file, source, running, active, job, spoiled>>

\* handlePatchSettings does not take the lock.
SetSource ==
    \E h \in Hosts \cup {None} :
        /\ Fault("source")
        /\ source' = h
        /\ saved' = routing
        /\ UNCHANGED <<system, file, strategy, routing, running, active, job, spoiled>>

-----------------------------------------------------------------------------
(* The refresh of the subscription.                                         *)

\* The default route that the state file saved, or the one there is.
WayOut ==
    LET rs == Loaded(file, "global") IN
    IF file # None /\ rs.default # "none" THEN rs.default ELSE default

Fetch(l) == job' = [job EXCEPT !["request"].at = l, !["request"].host = source]

\* [faulty variant] The default route may be that of the tunnel.
EnsureByCurrentDefault ==
    /\ Fetch("fetch")
    /\ pins' = IF strategy = "global" /\ default # "none"
               THEN [pins EXCEPT ![source] = default] ELSE pins
    /\ UNCHANGED faults

\* It returns nil also when it pins nothing, because there is no way out or the
\* name is not found; and whatever it returns, the subscription is fetched.
EnsureSubscriptionReachable ==
    \/ strategy = "selective" /\ Fetch("fetch") /\ UNCHANGED <<pins, faults>>
    \/ /\ strategy = "global"
       /\ \/ /\ WayOut # "none"
             /\ pins' = [pins EXCEPT ![source] = WayOut]
             /\ Fetch("fetch")
             /\ UNCHANGED faults
          \/ WayOut = "none" /\ Fetch("fetchAnyway") /\ UNCHANGED <<pins, faults>>
          \/ Fault("command") /\ Fetch("fetchAnyway") /\ UNCHANGED pins

Refresh ==
    /\ At("request", "idle")
    /\ source # None
    /\ EnsureSubscriptionReachable
    /\ UNCHANGED <<default, groups, dns, statics, rules, file, settings, runtime, spoiled>>

Fetching == job["request"].at \in {"fetch", "fetchAnyway"}

Fetched ==
    /\ Fetching
    /\ Idle("request")
    /\ saved' = routing
    /\ UNCHANGED <<system, file, settings, running, active, ghosts>>

-----------------------------------------------------------------------------
(* The turn of a switch, a stop or an update: the routes are off.           *)

\* cleanupManagedTunInterfaces: with a tun device go the routes into it.
DevicesOff(gone) ==
    /\ default' = IF default \in gone THEN "none" ELSE default
    /\ pins' = [h \in Destinations |-> IF pins[h] \in gone THEN None ELSE pins[h]]
    /\ statics' = [d \in CIDRs |-> IF statics[d] \in gone THEN None ELSE statics[d]]

Begin(t, host) ==
    /\ job' = [job EXCEPT !["request"] = [@ EXCEPT
            !.at = "wait", !.by = strategy', !.host = host,
            !.rs = Blank(strategy', t, IF strategy' = "global" THEN default' ELSE "none")]]
    /\ Activated

\* A client that cannot be stopped is given up, and the store left alone.
TurnStop ==
    /\ job["request"].plan.kind = "stop"
    /\ running' = None
    /\ \/ active' = None /\ saved' = routing /\ UNCHANGED faults
       \/ Fault("command") /\ UNCHANGED <<active, saved>>
    /\ Idle("request")
    /\ UNCHANGED <<default, pins, statics, settings, spoiled>>

\* The client of the new tunnel is started before its routes are made.  When a
\* device cannot be removed nothing else happens; when the client does not come
\* up, the old one may be gone or not, and no tunnel is stored.
TurnSwitch ==
    LET plan == job["request"].plan IN
    /\ plan.kind = "switch"
    /\ UNCHANGED settings
    /\ \/ /\ DevicesOff(Tunnels)
          /\ running' = plan.iface
          /\ Begin(plan.iface, job["request"].host)
          /\ UNCHANGED <<active, saved, faults>>
       \/ /\ \E gone \in SUBSET Tunnels : gone # Tunnels /\ DevicesOff(gone)
          /\ Fault("command")
          /\ Idle("request")
          /\ UNCHANGED <<runtime, spoiled>>
       \/ /\ DevicesOff(Tunnels)
          /\ Fault("command")
          /\ Idle("request")
          /\ running' \in {running, None}
          /\ active' = None
          /\ saved' = routing
          /\ UNCHANGED spoiled

\* A mode that is none, or a save that fails, ends the update.
TurnUpdate ==
    LET new == job["request"].plan.routing IN
    /\ job["request"].plan.kind = "update"
    /\ UNCHANGED <<default, pins, statics, source, running, active>>
    /\ \/ /\ Recreate(new)
          /\ IF active = None
             THEN Idle("request") /\ UNCHANGED spoiled
             ELSE Begin(active, source)
          /\ UNCHANGED faults
       \/ SaveFails(new) /\ Idle("request") /\ UNCHANGED spoiled
       \/ Idle("request") /\ UNCHANGED <<strategy, routing, saved, ghosts>>

Turn ==
    /\ At("request", "turn")
    /\ TurnStop \/ TurnSwitch \/ TurnUpdate
    /\ UNCHANGED <<groups, dns, rules, file>>

\* Activate returned: the new tunnel is stored, an update stores nothing more.
Succeeded ==
    LET plan == job["request"].plan IN
    /\ Idle("request")
    /\ IF plan.kind = "switch"
       THEN active' = plan.iface /\ saved' = routing ELSE UNCHANGED <<active, saved>>
    /\ UNCHANGED <<running, faults>>

\* Activate returned an error: the client of a new tunnel is stopped, and
\* nothing is undone.
Failed ==
    /\ Fault("command")
    /\ Idle("request")
    /\ IF job["request"].plan.kind = "switch"
       THEN running' = None /\ active' = None /\ saved' = routing
       ELSE UNCHANGED runtime

-----------------------------------------------------------------------------
(* Activate.                                                                *)

Wait ==
    /\ At("request", "wait")
    /\ \/ Goto("request", "pin") /\ Activated /\ UNCHANGED <<runtime, faults>>
       \/ Failed /\ UNCHANGED spoiled
    /\ UNCHANGED <<system, file, settings>>

AfterPin == IF job["request"].rs.mode = "global" THEN "default" ELSE "domains"

\* [faulty variant] Nothing is pinned.
PinNothing ==
    /\ At("request", "pin")
    /\ Goto("request", AfterPin)
    /\ Activated
    /\ UNCHANGED <<system, file, settings, runtime, faults>>

\* pinnedCIDRs and, for the global strategy, the route plan.
Pinned(rs, host) ==
    {rs.iface} \cup ({host} \ {None}) \cup (IF rs.mode = "global" THEN {"networks"} ELSE {})

\* A destination is pinned to the route it has now, and passed over if it has
\* none or its name is not found.  The selective strategy, which pins the
\* subscription first, gives up at a command that fails, the global one goes on.
Pin ==
    LET rs == job["request"].rs
        host == job["request"].host
        found == {h \in Pinned(rs, host) : RouteTo(h) # "none"}
    IN /\ At("request", "pin")
       /\ \E done \in SUBSET found :
          /\ pins' = [h \in Destinations |-> IF h \in done THEN RouteTo(h) ELSE pins[h]]
          /\ \/ /\ done = found
                /\ Record("request", AfterPin, [rs EXCEPT !.pins = done])
                /\ Activated
                /\ UNCHANGED <<runtime, faults>>
             \/ /\ done # found
                /\ Fault("command")
                /\ Record("request", AfterPin, [rs EXCEPT !.pins = done])
                /\ spoiled' = IF spoiled = "no" THEN "unpinned" ELSE spoiled
                /\ UNCHANGED runtime
             \/ /\ rs.mode = "selective"
                /\ done \in {{}, {host} \cap found} \ {found}
                /\ Failed
                /\ spoiled' = "failed"
       /\ UNCHANGED <<default, groups, dns, statics, rules, file, settings>>

SetDefault ==
    LET rs == job["request"].rs IN
    /\ At("request", "default")
    /\ \/ /\ default' = rs.iface
          /\ Goto("request", "save")
          /\ Activated
          /\ UNCHANGED <<runtime, faults>>
       \/ Failed /\ spoiled' = "failed" /\ UNCHANGED default
    /\ UNCHANGED <<pins, groups, dns, statics, rules, file, settings>>

\* A group is deleted and made anew, then it gets its DNS route; a failure ends
\* the loop at one of the two.
SetDomains ==
    LET rs == job["request"].rs IN
    /\ At("request", "domains")
    /\ \/ /\ groups' = groups \cup routing.groups
          /\ dns' = SyncDNSProxyRoutes(routing.groups, rs.iface)
          /\ Record("request", "statics", [rs EXCEPT !.groups = routing.groups])
          /\ Activated
          /\ UNCHANGED <<runtime, faults>>
       \/ \E done \in SUBSET routing.groups : \E g \in routing.groups \ done :
          /\ groups' \in SyncFQDNGroup(groups \cup done, g)
          /\ dns' = SyncDNSProxyRoutes(done, rs.iface)
          /\ Failed
          /\ spoiled' = "failed"
    /\ UNCHANGED <<default, pins, statics, rules, file, settings>>

SetStatics ==
    LET rs == job["request"].rs
        into(cidrs) == [d \in CIDRs |-> IF d \in cidrs THEN rs.iface ELSE statics[d]]
    IN /\ At("request", "statics")
       /\ \/ /\ statics' = into(routing.statics)
             /\ Record("request", "rules", [rs EXCEPT !.statics = routing.statics])
             /\ Activated
             /\ UNCHANGED <<runtime, faults>>
          \/ \E done \in SUBSET routing.statics :
             /\ done # routing.statics
             /\ statics' = into(done)
             /\ Failed
             /\ spoiled' = "failed"
       /\ UNCHANGED <<default, pins, groups, dns, rules, file, settings>>

\* iptables-restore --noflush appends the rules; an error is only logged.
SetRules ==
    LET t == job["request"].rs.iface IN
    /\ At("request", "rules")
    /\ \/ rules' = [rules EXCEPT ![t] = @ + 1] /\ UNCHANGED faults
       \/ Fault("command") /\ UNCHANGED rules
    /\ Goto("request", "save")
    /\ Activated
    /\ UNCHANGED <<default, pins, groups, dns, statics, file, settings, runtime>>

SaveState ==
    /\ At("request", "save")
    /\ \/ file' = job["request"].rs /\ Succeeded /\ Activated
       \/ Failed /\ spoiled' = "failed" /\ UNCHANGED file
    /\ UNCHANGED <<system, settings>>

-----------------------------------------------------------------------------
(* What comes from outside.                                                 *)

\* The client exits and handleUnexpectedRuntimeExit begins.
ClientExits ==
    /\ running # None
    /\ At("exit", "idle")
    /\ Fault("exit")
    /\ running' = None
    /\ job' = [job EXCEPT !["exit"].at = "begin"]
    /\ UNCHANGED <<system, file, settings, active, saved, spoiled>>

\* A signal: with a tunnel in the store, whose snapshot is taken under the lock,
\* Shutdown goes on without it.
Shutdown ==
    /\ At("shutdown", "idle")
    /\ At("request", "idle")
    /\ active # None
    /\ Fault("shutdown")
    /\ job' = [job EXCEPT !["shutdown"].at = "begin"]
    /\ UNCHANGED <<system, file, settings, runtime, spoiled>>

\* The refresh found the active tunnel gone: its client is stopped and its
\* routes are not touched.
Vanish ==
    /\ active # None
    /\ Fetching
    /\ Fault("vanish")
    /\ running' = None
    /\ active' = None
    /\ saved' = routing
    /\ Idle("request")
    /\ UNCHANGED <<system, file, settings, spoiled>>

Activating == job["request"].at \in
    {"wait", "pin", "default", "domains", "statics", "rules", "save"}

\* The process ends, killed or because Shutdown has begun, which main does not
\* wait for, and another one starts from what is on disk; what it installed
\* stays.
Crash ==
    /\ IF At("shutdown", "idle") THEN Fault("crash") ELSE UNCHANGED faults
    /\ running' = None
    /\ strategy' = saved.mode
    /\ routing' = saved
    /\ job' = [c \in Callers |-> IdleJob]
    /\ spoiled' = IF Activating THEN "crash" ELSE spoiled
    /\ UNCHANGED <<system, file, source, active, saved>>

Deactivating(c) ==
    \/ Take(c) \/ Load(c) \/ UndoDefault(c) \/ UndoDomains(c) \/ UndoStatics(c) \/ Unpin(c)
    \/ UndoRules(c) \/ Remove(c)

Next ==
    \/ \E c \in Callers : Deactivating(c)
    \/ Switch \/ Stop \/ Update \/ Turn
    \/ Wait \/ Pin \/ SetDefault \/ SetDomains \/ SetStatics \/ SetRules \/ SaveState
    \/ SetSource \/ Refresh \/ Fetched \/ Vanish
    \/ ClientExits \/ Shutdown \/ Crash

Spec == Init /\ [][Next]_vars

-----------------------------------------------------------------------------
Places ==
    {"idle", "begin", "load", "undoDefault", "undoDomains", "undoStatics", "unpin", "undoRules",
     "remove", "turn", "wait", "pin", "default", "domains", "statics", "rules", "save", "fetch",
     "fetchAnyway", "ended"}

Jobs ==
    [at : Places, by : Modes \cup {None}, plan : Plans \cup {None},
     host : Hosts \cup {None}, rs : RouteStates \cup {None}]

TypeOK ==
    /\ default \in {"wan", "none"} \cup Tunnels
    /\ pins \in [Destinations -> {"wan", None} \cup Tunnels]
    /\ groups \subseteq Groups
    /\ dns \in [Groups -> Tunnels \cup {None}]
    /\ statics \in [CIDRs -> Tunnels \cup {None}]
    /\ rules \in [Tunnels -> 0 .. MaxCopies]
    /\ file \in RouteStates \cup {None}
    /\ strategy \in Modes
    /\ routing \in RoutingConfigs /\ saved \in RoutingConfigs
    /\ source \in Hosts \cup {None}
    /\ running \in Tunnels \cup {None}
    /\ active \in Tunnels \cup {None}
    /\ job \in [Callers -> Jobs]
    /\ faults \in 0 .. MaxFaults
    /\ spoiled \in {"no", "undo", "failed", "unpinned", "overlap", "mode", "crash"}

Quiet == \A c \in Callers : job[c].at \in {"idle", "ended"}

\* The default route is the WAN's, or will be when the file is undone; pins are
\* in the file, except those of hosts: a refresh records nothing.
RoutesKnown ==
    /\ default # "wan" =>
        /\ file # None
        /\ file.mode = "global" /\ default = file.iface /\ file.default = "wan"
    /\ \A h \in Destinations \ Hosts :
        pins[h] # None => file # None /\ h \in file.pins

\* What only the selective strategy makes is in the file.
ArtefactsKnown ==
    IF file = None
    THEN /\ groups = {}
         /\ \A g \in Groups : dns[g] = None
         /\ \A d \in CIDRs : statics[d] = None
         /\ \A t \in Tunnels : rules[t] = 0
    ELSE /\ groups \subseteq file.groups
         /\ \A g \in Groups : dns[g] # None => dns[g] = file.iface /\ g \in file.groups
         /\ \A d \in CIDRs : statics[d] # None => statics[d] = file.iface /\ d \in file.statics
         /\ \A t \in Tunnels :
            rules[t] <= IF t = file.iface /\ file.mode = "selective" THEN 1 ELSE 0

(* When nobody is at work, everything that is installed is in the state     *)
(* file, through every sequence of activations, stops, changes of mode,     *)
(* configuration and subscription, exits of the client, shutdowns and       *)
(* restarts, also when the process ends in the middle of Deactivate, when a *)
(* pin or a save of the store fails, and when a boot takes another mode     *)
(* from the disk.  Five things can spoil it: a command that fails when      *)
(* routes are removed, one that fails when they are made, a process that    *)
(* ends in the middle of Activate, an exit handler or Shutdown that still   *)
(* undoes the last activation while the next one runs, and a strategy that  *)
(* reads the file of the other one: one taken before a change of mode, or   *)
(* the new one, when routes were left without a tunnel.                     *)
Recorded == Quiet /\ spoiled \in {"no", "unpinned"} => RoutesKnown /\ ArtefactsKnown

(* While the default route leads into a tunnel, its endpoint, the private   *)
(* networks and all else that its activation pinned, the subscription's     *)
(* host among them, lead to the WAN, also between two commands: the packets *)
(* of the client do not loop.  Excepted are a pin that failed or was passed *)
(* over (routes.go:80-103) and what Recorded excepts.                       *)
NoLoop ==
    LET rs == IF file # None THEN file ELSE job["request"].rs IN
    spoiled = "no" /\ default \in Tunnels =>
        /\ {default, "networks"} \subseteq rs.pins
        /\ \A h \in rs.pins : pins[h] = "wan"

(* A refresh fetches the subscription past the tunnel when                  *)
(* EnsureSubscriptionReachable has pinned its host, or the activation had,  *)
(* also after the host has changed, and also while an exit handler or       *)
(* Shutdown undoes the routes it relies on.  The selective strategy pins    *)
(* nothing for it: there it holds when its own routes are installed, not    *)
(* the global ones that a vanished tunnel left.                             *)
SubscriptionOutside ==
    LET h == job["request"].host IN
    /\ Fetching
    /\ spoiled \in {"no", "unpinned"}
    /\ \/ At("request", "fetch") /\ (file # None => file.mode = strategy)
       \/ file # None /\ h \in file.pins
    => RouteTo(h) = "wan"

-----------------------------------------------------------------------------
(* selective.go: the state file "persists the artefacts we created so       *)
(* Deactivate can clean up even after a process restart".                   *)
ArtefactsRecorded == Quiet => ArtefactsKnown

=============================================================================
