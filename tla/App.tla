--------------------------------- MODULE App ---------------------------------
(***************************************************************************)
(* The orchestrator of hysteria-manager: src/internal/app/app.go, with the *)
(* store of src/internal/state and the process of src/main.go around it.   *)
(*                                                                         *)
(* Covered: every goroutine that changes the stored state, the client      *)
(* process or the routes - requests (HTTP handlers, the automatic refresh, *)
(* the restore at boot, the router's interface hook), which hold a.mu from *)
(* their first step to their last; the handler of an unexpected client     *)
(* exit and Shutdown, which do not; the end of the process and its boot    *)
(* from the saved state.  A step is what happens between two points where  *)
(* another goroutine can be seen.                                          *)
(*                                                                         *)
(* Abstracted: the client manager, by what module RuntimeManager shows of  *)
(* it; the commands of a routing strategy, by whether its routes are       *)
(* installed; the RCI calls that describe the tunnels to the router, which *)
(* change nothing here (the hook events they cause are Hook steps, which   *)
(* are always possible); tunnels are their identifiers.  The tun device is *)
(* the router's, so routes into it outlive the client, not the device.     *)
(*                                                                         *)
(* Everything that can go wrong costs one of MaxFaults faults.             *)
(***************************************************************************)
EXTENDS Naturals

CONSTANTS
    Tunnels,        \* identifiers of tunnels
    Requests,       \* goroutines that serve requests, one at a time each
    Exits,          \* goroutines that run handleUnexpectedRuntimeExit
    None,
    FaultKinds,     \* the kinds of failure that may happen
    MaxFaults,      \* bound on the failures
    MaxEnds         \* bound on the ends of the process

AllFaultKinds ==
    {"save", "routes", "cleanup", "prepare", "start", "signal", "exit", "crash"}

ASSUME ConstantsAssumption ==
    /\ None \notin Tunnels \cup Requests
    /\ FaultKinds \subseteq AllFaultKinds
    /\ MaxFaults \in Nat
    /\ MaxEnds \in Nat

Modes == {"selective", "global"}

\* A route state file is not None.
ASSUME NoneAssumption == None \notin [mode : Modes, tunnel : Tunnels]

VARIABLES
    mem,            \* store.state
    disk,           \* the contents of the state file
    strategy,       \* the mode of the strategy in a.routeMgr
    mu,             \* the request that holds a.mu
    pc,             \* where each request is
    op,             \* what it was asked to do
    snap,           \* the snapshot of the store it works from
    exitPc,         \* where each exit handler is
    stopPc,         \* where Shutdown is
    bootPc,         \* restoreRuntimeIfNeeded is to "restore", or has looked at the store
    host,           \* the process is "up" or "down"
    client,         \* the tunnel of the client in runtime.Manager's current
    life,           \* whether it is "running" or has "exited"; "none" without a client
    routed,         \* the tunnel the routes of each mode lead into
    file,           \* the mode and the tunnel the route state file was written for
    orphans,        \* tunnels of clients that outlived the process
    faults, ends,   \* how much has gone wrong, how often the process ended
    ended,          \* why it ended last
    unbacked,       \* why the stored "running" may have no client
    stray,          \* why a client may run that the store does not name
    left,           \* tunnels that disappeared and whose routes were left
    bare            \* why the active tunnel may have no routes

store   == <<mem, disk>>
thread  == <<mu, pc, op, snap>>
process == <<exitPc, stopPc, bootPc, host>>
runtime == <<client, life>>
routes  == <<routed, file>>
ghosts  == <<ends, ended, orphans>>
reasons == <<unbacked, stray, left, bare>>
vars    == <<store, strategy, thread, process, runtime, routes, faults, ghosts, reasons>>

-----------------------------------------------------------------------------
(* The stored state.                                                        *)

\* runtime.state, runtime.activeTunnelId, the active flags of the tunnels,
\* their presence in the subscription, routing.mode, and whether the
\* subscription's url and hwid are set.
States == [state : {"stopped", "running", "error"}, active : Tunnels \cup {None},
           flags : SUBSET Tunnels, profile : [Tunnels -> {"absent", "present", "missing"}],
           mode : Modes, url : {"unset", "set"}, hwid : {"unset", "set"}]

DefaultState ==
    [state |-> "stopped", active |-> None, flags |-> {},
     profile |-> [t \in Tunnels |-> "absent"], mode |-> "selective",
     url |-> "unset", hwid |-> "unset"]

\* No tunnel is active, for the reason s.
Cleared(st, s) == [st EXCEPT !.state = s, !.active = None, !.flags = {}]

Running(st, t) == [st EXCEPT !.state = "running", !.active = t, !.flags = {t}]

\* mergeProfiles and the check of the active tunnel, for the tunnels of a
\* fetched subscription.
Merged(st, fresh) ==
    LET merged == [st EXCEPT
            !.profile = [t \in Tunnels |->
                IF t \in fresh THEN "present"
                ELSE IF st.profile[t] = "absent" THEN "absent" ELSE "missing"],
            !.flags = @ \cap fresh]
    IN IF st.active \in fresh \cup {None} THEN merged ELSE Cleared(merged, "stopped")

Fail(kind) ==
    /\ kind \in FaultKinds
    /\ faults < MaxFaults
    /\ faults' = faults + 1

\* Update and Replace: memory changes first, then the file is written.
Save(next) ==
    /\ mem' = next
    /\ disk' = next
    /\ UNCHANGED faults

SaveFails(next) ==
    /\ mem' = next
    /\ Fail("save")
    /\ UNCHANGED disk

\* A write of the runtime fields calls the tunnel `claimed` the running one.
Claim(claimed) ==
    unbacked' = IF claimed \in {None, client} THEN "none" ELSE "overtaken"

-----------------------------------------------------------------------------
Init ==
    /\ mem = DefaultState
    /\ disk = DefaultState
    /\ strategy = "selective"
    /\ mu = None
    /\ pc = [r \in Requests |-> "idle"]
    /\ op = [r \in Requests |-> None]
    /\ snap = [r \in Requests |-> None]
    /\ exitPc = [e \in Exits |-> "idle"]
    /\ stopPc = "idle"
    /\ bootPc = "restore"
    /\ host = "up"
    /\ client = None
    /\ life = "none"
    /\ routed = [m \in Modes |-> None]
    /\ file = None
    /\ orphans = {}
    /\ faults = 0
    /\ ends = 0
    /\ ended = "no"
    /\ unbacked = "none"
    /\ stray = "none"
    /\ left = {}
    /\ bare = "none"

Goto(r, l) == pc' = [pc EXCEPT ![r] = l]

\* The request r returns and releases a.mu.
Done(r) ==
    /\ Goto(r, "idle")
    /\ mu' = None
    /\ op' = [op EXCEPT ![r] = None]
    /\ snap' = [snap EXCEPT ![r] = None]

Continue(r, l) == Goto(r, l) /\ UNCHANGED <<mu, op, snap>>

\* What Deactivate of the routing strategy undoes: what the state file names if
\* the file is its own; in a file of the selective strategy the global one finds
\* an interface only, and deletes a default route through it.
Undone ==
    /\ file # None
    /\ \/ file.mode = strategy
       \/ strategy = "global" /\ routed["global"] = file.tunnel

\* The file goes in any case.
RoutesOff ==
    /\ file' = None
    /\ \/ UNCHANGED faults
       \/ file # None /\ Fail("routes")
    /\ IF Undone /\ faults' = faults
       THEN /\ routed' = [routed EXCEPT ![strategy] = None]
            /\ left' = {t \in left : \E m \in Modes \ {strategy} : routed[m] = t}
       ELSE UNCHANGED <<routed, left>>
    /\ UNCHANGED <<unbacked, stray>>

RoutesOn(t) ==
    /\ routed' = [routed EXCEPT ![strategy] = t]
    /\ file' = [mode |-> strategy, tunnel |-> t]
    /\ bare' = "none"
    /\ UNCHANGED faults

\* An error after some of the routes were installed, or before any was; the
\* state file is only written at the end.
RoutesOnFails(t) ==
    /\ routed' \in {routed, [routed EXCEPT ![strategy] = t]}
    /\ bare' = "failed"
    /\ Fail("routes")
    /\ UNCHANGED file

\* Deactivate of the client manager returns when the client is gone.
ClientOff ==
    /\ client' = None
    /\ life' = "none"
    /\ stray' = "none"

-----------------------------------------------------------------------------
(* Requests arrive.                                                         *)

Request(kind, t, m) == [kind |-> kind, tunnel |-> t, mode |-> m]

Arrive(r, request) ==
    /\ host = "up"
    /\ pc[r] = "idle"
    /\ Goto(r, "lock")
    /\ op' = [op EXCEPT ![r] = request]
    /\ UNCHANGED <<store, strategy, mu, snap, exitPc, stopPc, host, runtime, routes, faults,
                   ghosts, reasons>>

\* The API, which a shutdown closes, and the automatic refresh, which it does
\* not stop.  "invalid" is any other routing mode, None an update without one.
Api(r) ==
    /\ \E request \in
            {Request("activate", t, None) : t \in Tunnels}
            \cup {Request(kind, None, None) : kind \in {"deactivate", "import", "refresh"}}
            \cup {Request("routing", None, m) : m \in Modes \cup {"invalid", None}} :
         /\ stopPc = "idle" \/ request.kind = "refresh"
         /\ Arrive(r, request)
    /\ UNCHANGED bootPc

\* handleIfaceChanged decides by a snapshot what it then asks a.mu for.
Hook(r, t) ==
    /\ stopPc = "idle"
    /\ mem.profile[t] # "absent"
    /\ \/ mem.active # t /\ Arrive(r, Request("activate", t, None))
       \/ mem.active = t /\ Arrive(r, Request("hookDown", t, None))
    /\ UNCHANGED bootPc

\* restoreRuntimeIfNeeded, once after the boot.
\* [faulty variant] It does not look whether there is anything to restore.
RestoreUnchecked(r) ==
    /\ bootPc = "restore"
    /\ Arrive(r, Request("activate", mem.active, None))
    /\ bootPc' = "done"

Restore(r) ==
    /\ bootPc = "restore"
    /\ mem.active # None
    /\ Arrive(r, Request("activate", mem.active, None))
    /\ bootPc' = "done"

NothingToRestore ==
    /\ host = "up"
    /\ bootPc = "restore"
    /\ mem.active = None
    /\ bootPc' = "done"
    /\ UNCHANGED <<store, strategy, thread, exitPc, stopPc, host, runtime, routes, faults,
                   ghosts, reasons>>

\* a.mu is taken and the store is read; a request that cannot be served
\* returns.
Refused(request) ==
    \/ request.kind = "activate" /\ mem.profile[request.tunnel] # "present"
    \/ request.kind = "refresh" /\ mem.url = "unset"

RefreshStep == IF mem.hwid = "set" THEN "fetch" ELSE "newHWID"

FirstStep(request) ==
    CASE request.kind = "activate" -> "resetRoutes"
      [] request.kind \in {"deactivate", "hookDown"} -> "dropRoutes"
      [] request.kind = "import" -> "replace"
      [] request.kind = "refresh" -> RefreshStep
      [] request.kind = "routing" ->
            IF mem.state = "running" THEN "oldRoutes" ELSE "storeRouting"

Lock(r) ==
    /\ pc[r] = "lock"
    /\ mu = None
    /\ IF Refused(op[r])
       THEN Done(r)
       ELSE /\ mu' = r
            /\ Goto(r, FirstStep(op[r]))
            /\ snap' = [snap EXCEPT ![r] =
                            IF op[r].kind \in {"import", "refresh", "routing"} THEN mem ELSE None]
            /\ UNCHANGED op
    /\ UNCHANGED <<store, strategy, process, runtime, routes, faults, ghosts, reasons>>

-----------------------------------------------------------------------------
(* ActivateTunnel.                                                          *)

ResetRoutes(r) ==
    /\ pc[r] = "resetRoutes"
    /\ RoutesOff
    /\ Continue(r, "cleanup")
    /\ UNCHANGED <<store, strategy, process, runtime, ghosts, bare>>

\* With the tun devices of the known tunnels goes a default route into one; the
\* router keeps the DNS routes.
DevicesOff ==
    /\ routed' = [routed EXCEPT !["global"] =
                    IF @ # None /\ mem.profile[@] # "absent" THEN None ELSE @]
    /\ left' = {t \in left : \E m \in Modes : routed'[m] = t}
    /\ UNCHANGED <<unbacked, stray>>

\* cleanupManagedTunInterfaces; an error ends the request.
Cleanup(r) ==
    /\ pc[r] = "cleanup"
    /\ \/ DevicesOff /\ Continue(r, "stopOld") /\ UNCHANGED <<faults, bare>>
       \/ /\ DevicesOff \/ UNCHANGED <<routed, unbacked, stray, left>>
          /\ Done(r)
          /\ Fail("cleanup")
          /\ bare' = "cleanup"
    /\ UNCHANGED <<store, strategy, process, runtime, file, ghosts>>

\* runtime.Activate fails before it stops the old client, or stops it.
StopOld(r) ==
    /\ pc[r] = "stopOld"
    /\ \/ ClientOff /\ Continue(r, "start") /\ UNCHANGED faults
       \/ /\ Continue(r, "storeError")
          /\ Fail("prepare")
          /\ stray' = IF client = None THEN "none" ELSE "prepare"
          /\ UNCHANGED runtime
    /\ UNCHANGED <<store, strategy, process, routes, ghosts, unbacked, left, bare>>

\* The new client comes host, or it does not and is gone again.
Start(r) ==
    /\ pc[r] = "start"
    /\ \/ /\ client' = op[r].tunnel
          /\ life' = "running"
          /\ Continue(r, "switchRoutes")
          /\ UNCHANGED faults
       \/ Continue(r, "storeError") /\ Fail("start") /\ UNCHANGED runtime
    /\ UNCHANGED <<store, strategy, process, routes, ghosts, reasons>>

SwitchRoutes(r) ==
    /\ pc[r] = "switchRoutes"
    /\ \/ RoutesOn(op[r].tunnel) /\ Continue(r, "storeRunning")
       \/ RoutesOnFails(op[r].tunnel) /\ Continue(r, "undo")
    /\ UNCHANGED <<store, strategy, process, runtime, ghosts, unbacked, stray, left>>

\* [faulty variant] The client is left running when its routes failed.
UndoNothing(r) ==
    /\ pc[r] = "undo"
    /\ Continue(r, "storeError")
    /\ UNCHANGED <<store, strategy, process, runtime, routes, faults, ghosts, reasons>>

Undo(r) ==
    /\ pc[r] = "undo"
    /\ ClientOff
    /\ Continue(r, "storeError")
    /\ UNCHANGED <<store, strategy, process, routes, faults, ghosts, unbacked, left, bare>>

StoreError(r) ==
    /\ pc[r] = "storeError"
    /\ Save(Cleared(mem, "error")) \/ SaveFails(Cleared(mem, "error"))
    /\ Claim(None)
    /\ Done(r)
    /\ UNCHANGED <<strategy, process, runtime, routes, ghosts, stray, left, bare>>

\* [faulty variant] The flags of other tunnels are not reset.
StoreRunningKeepsFlags(r) ==
    LET next == [Running(mem, op[r].tunnel) EXCEPT !.flags = mem.flags \cup {op[r].tunnel}] IN
    /\ pc[r] = "storeRunning"
    /\ Save(next) \/ SaveFails(next)
    /\ Claim(op[r].tunnel)
    /\ Done(r)
    /\ UNCHANGED <<strategy, process, runtime, routes, ghosts, stray, left, bare>>

StoreRunning(r) ==
    /\ pc[r] = "storeRunning"
    /\ Save(Running(mem, op[r].tunnel)) \/ SaveFails(Running(mem, op[r].tunnel))
    /\ Claim(op[r].tunnel)
    /\ Done(r)
    /\ UNCHANGED <<strategy, process, runtime, routes, ghosts, stray, left, bare>>

-----------------------------------------------------------------------------
(* DeactivateTunnel.                                                        *)

DropRoutes(r) ==
    /\ pc[r] = "dropRoutes"
    /\ RoutesOff
    /\ Continue(r, "stop")
    /\ UNCHANGED <<store, strategy, process, runtime, ghosts, bare>>

\* runtime.Deactivate; when SIGTERM cannot be sent the client is given up and
\* the request ends before it touches the store.
Stop(r) ==
    /\ pc[r] = "stop"
    /\ ClientOff
    /\ \/ Continue(r, "storeStopped") /\ UNCHANGED <<faults, unbacked>>
       \/ /\ client # None
          /\ Fail("signal")
          /\ Done(r)
          /\ unbacked' = "unsignalled"
    /\ UNCHANGED <<store, strategy, process, routes, ghosts, left, bare>>

StoreStopped(r) ==
    /\ pc[r] = "storeStopped"
    /\ Save(Cleared(mem, "stopped")) \/ SaveFails(Cleared(mem, "stopped"))
    /\ Claim(None)
    /\ Done(r)
    /\ UNCHANGED <<strategy, process, runtime, routes, ghosts, stray, left, bare>>

-----------------------------------------------------------------------------
(* ImportSubscription and refreshSubscriptionLocked.                        *)

\* Replace writes the whole snapshot back.
WriteBack(r, next, l) ==
    /\ \/ /\ Save(next)
          /\ Goto(r, l)
          /\ snap' = [snap EXCEPT ![r] = next]
          /\ UNCHANGED <<mu, op>>
       \/ SaveFails(next) /\ Done(r)
    /\ Claim(next.active)
    /\ UNCHANGED <<strategy, process, runtime, routes, ghosts, stray, left, bare>>

ImportReplace(r) ==
    /\ pc[r] = "replace"
    /\ WriteBack(r, [snap[r] EXCEPT !.url = "set", !.hwid = "set"], "readBack")

\* refreshSubscriptionLocked reads what the import has written, or what somebody
\* without a.mu made of it since.
ReadBack(r) ==
    /\ pc[r] = "readBack"
    /\ IF mem.url = "unset"
       THEN Done(r)
       ELSE Goto(r, RefreshStep) /\ snap' = [snap EXCEPT ![r] = mem] /\ UNCHANGED <<mu, op>>
    /\ UNCHANGED <<store, strategy, process, runtime, routes, faults, ghosts, reasons>>

RefreshReplace(r) ==
    /\ pc[r] = "newHWID"
    /\ WriteBack(r, [snap[r] EXCEPT !.hwid = "set"], "fetch")

\* FetchSubscription: a subscription names at least one tunnel, or there is an
\* error, whose text is saved.
FetchFails(r) ==
    /\ pc[r] = "fetch"
    /\ Save(mem) \/ SaveFails(mem)
    /\ Done(r)
    /\ UNCHANGED <<strategy, process, runtime, routes, ghosts, reasons>>

\* The merge.  When the save fails the request ends here, with the change in
\* memory; when the active tunnel disappeared its client is stopped next, but
\* its routes are not.
Merge(r, fresh) ==
    LET next == Merged(mem, fresh)
        gone == snap[r].active # None /\ next.active = None
    IN /\ pc[r] = "fetch"
       /\ fresh # {}
       /\ \/ /\ Save(next)
             /\ IF gone THEN Continue(r, "stopGone") ELSE Done(r)
             /\ UNCHANGED stray
          \/ /\ SaveFails(next)
             /\ Done(r)
             /\ stray' = IF gone /\ client # None THEN "unsaved" ELSE stray
       /\ unbacked' = IF next.active = None THEN "none" ELSE unbacked
       /\ left' = IF next.active = None THEN left \cup ({mem.active} \ {None}) ELSE left
       /\ UNCHANGED <<strategy, process, runtime, routes, ghosts, bare>>

StopGone(r) ==
    /\ pc[r] = "stopGone"
    /\ ClientOff
    /\ Done(r)
    /\ UNCHANGED <<store, strategy, process, routes, faults, ghosts, unbacked, left, bare>>

\* handlePatchSettings changes the store without a.mu.
PatchSettings ==
    /\ host = "up"
    /\ stopPc = "idle"
    /\ \E next \in {[mem EXCEPT !.url = u] : u \in {"unset", "set"}}
                   \cup {[mem EXCEPT !.hwid = "set"]} :
         next # mem /\ (Save(next) \/ SaveFails(next))
    /\ UNCHANGED <<strategy, thread, process, runtime, routes, ghosts, reasons>>

-----------------------------------------------------------------------------
(* handleUpdateRouting.                                                     *)

\* [faulty variant] The routes of the old mode stay.
OldRoutesKept(r) ==
    /\ pc[r] = "oldRoutes"
    /\ Continue(r, "storeRouting")
    /\ UNCHANGED <<store, strategy, process, runtime, routes, faults, ghosts, reasons>>

OldRoutes(r) ==
    /\ pc[r] = "oldRoutes"
    /\ RoutesOff
    /\ Continue(r, "storeRouting")
    /\ UNCHANGED <<store, strategy, process, runtime, ghosts, bare>>

\* The request ends between the two switches of the routes.
Unrouted(r) == bare' = IF snap[r].state = "running" THEN "update" ELSE bare

\* An invalid mode ends the request.
\* [faulty variant] The lock is kept on the way out.
RoutingRejectedLocked(r) ==
    /\ pc[r] = "storeRouting"
    /\ op[r].mode = "invalid"
    /\ Continue(r, "idle")
    /\ UNCHANGED <<store, strategy, process, runtime, routes, faults, ghosts, reasons>>

RoutingRejected(r) ==
    /\ pc[r] = "storeRouting"
    /\ op[r].mode = "invalid"
    /\ Done(r)
    /\ Unrouted(r)
    /\ UNCHANGED <<store, strategy, process, runtime, routes, faults, ghosts, unbacked, stray, left>>

\* [faulty variant] The strategy is not exchanged.
StoreRoutingOnly(r) ==
    LET next == IF op[r].mode = None THEN mem ELSE [mem EXCEPT !.mode = op[r].mode] IN
    /\ pc[r] = "storeRouting"
    /\ op[r].mode # "invalid"
    /\ Save(next)
    /\ Goto(r, "reapply")
    /\ snap' = [snap EXCEPT ![r] = IF @.state = "running" THEN next ELSE Cleared(next, "stopped")]
    /\ UNCHANGED <<mu, op, strategy, process, runtime, routes, ghosts, reasons>>

\* From here on snap holds what the update returned, with no active tunnel
\* when none was running before it.
StoreRouting(r) ==
    LET next == IF op[r].mode = None THEN mem ELSE [mem EXCEPT !.mode = op[r].mode] IN
    /\ pc[r] = "storeRouting"
    /\ op[r].mode # "invalid"
    /\ \/ /\ Save(next)
          /\ Goto(r, IF op[r].mode \in {None, snap[r].mode} THEN "reapply" ELSE "recreate")
          /\ snap' = [snap EXCEPT ![r] =
                IF @.state = "running" THEN next ELSE Cleared(next, "stopped")]
          /\ UNCHANGED <<mu, op, bare>>
       \/ SaveFails(next) /\ Done(r) /\ Unrouted(r)
    /\ UNCHANGED <<strategy, process, runtime, routes, ghosts, unbacked, stray, left>>

Recreate(r) ==
    /\ pc[r] = "recreate"
    /\ strategy' = snap[r].mode
    /\ Continue(r, "reapply")
    /\ UNCHANGED <<store, process, runtime, routes, faults, ghosts, reasons>>

\* [faulty variant] The routes are only installed again for a new mode.
ReapplyForNewMode(r) ==
    /\ pc[r] = "reapply"
    /\ IF snap[r].active = None \/ op[r].mode = None
       THEN UNCHANGED <<routes, faults, bare>>
       ELSE RoutesOn(snap[r].active) \/ RoutesOnFails(snap[r].active)
    /\ Done(r)
    /\ UNCHANGED <<store, strategy, process, runtime, ghosts, unbacked, stray, left>>

\* An error of the strategy is only logged.
Reapply(r) ==
    /\ pc[r] = "reapply"
    /\ IF snap[r].active = None
       THEN UNCHANGED <<routes, faults, bare>>
       ELSE RoutesOn(snap[r].active) \/ RoutesOnFails(snap[r].active)
    /\ Done(r)
    /\ UNCHANGED <<store, strategy, process, runtime, ghosts, unbacked, stray, left>>

-----------------------------------------------------------------------------
(* An unexpected exit of the client.                                        *)

ClientExits ==
    /\ life = "running"
    /\ Fail("exit")
    /\ life' = "exited"
    /\ UNCHANGED <<store, strategy, thread, process, client, routes, ghosts, reasons>>

\* runtime.Manager's watch drops the client and calls the handler, unless an
\* operation has taken the client first.
Report(e) ==
    /\ life = "exited"
    /\ exitPc[e] = "idle"
    /\ ClientOff
    /\ exitPc' = [exitPc EXCEPT ![e] = "dropRoutes"]
    /\ UNCHANGED <<store, strategy, thread, stopPc, bootPc, host, routes, faults, ghosts,
                   unbacked, left, bare>>

\* handleUnexpectedRuntimeExit, without a.mu.
ExitDropsRoutes(e) ==
    /\ exitPc[e] = "dropRoutes"
    /\ RoutesOff
    /\ bare' = "exit"
    /\ exitPc' = [exitPc EXCEPT ![e] = "store"]
    /\ UNCHANGED <<store, strategy, thread, stopPc, bootPc, host, runtime, ghosts>>

\* [faulty variant] The exit is not stored.
ExitNotStored(e) ==
    /\ exitPc[e] = "store"
    /\ exitPc' = [exitPc EXCEPT ![e] = "idle"]
    /\ UNCHANGED <<store, strategy, thread, stopPc, bootPc, host, runtime, routes, faults,
                   ghosts, reasons>>

ExitStored(e) ==
    /\ exitPc[e] = "store"
    /\ Save(Cleared(mem, "error")) \/ SaveFails(Cleared(mem, "error"))
    /\ Claim(None)
    /\ stray' = IF client = None THEN "none" ELSE "report"
    /\ exitPc' = [exitPc EXCEPT ![e] = "idle"]
    /\ UNCHANGED <<strategy, thread, stopPc, bootPc, host, runtime, routes, ghosts, left, bare>>

-----------------------------------------------------------------------------
(* Shutdown, and the process.                                               *)

\* The signal; httpServer.Shutdown takes no new requests.
Signal ==
    /\ host = "up"
    /\ stopPc = "idle"
    /\ ends < MaxEnds
    /\ stopPc' = "look"
    /\ UNCHANGED <<store, strategy, thread, exitPc, bootPc, host, runtime, routes, faults,
                   ghosts, reasons>>

\* a.mu is held for the snapshot only.
ShutdownLooks ==
    /\ stopPc = "look"
    /\ mu = None
    /\ stopPc' = IF mem.active = None THEN "done" ELSE "dropRoutes"
    /\ UNCHANGED <<store, strategy, thread, exitPc, bootPc, host, runtime, routes, faults,
                   ghosts, reasons>>

ShutdownDropsRoutes ==
    /\ stopPc = "dropRoutes"
    /\ RoutesOff
    /\ stopPc' = "stop"
    /\ UNCHANGED <<store, strategy, thread, exitPc, bootPc, host, runtime, ghosts, bare>>

ShutdownStops ==
    /\ stopPc = "stop"
    /\ ClientOff
    /\ stopPc' = "done"
    /\ UNCHANGED <<store, strategy, thread, exitPc, bootPc, host, routes, faults, ghosts,
                   unbacked, left, bare>>

\* The process is gone, and what it started is not.
Gone(why) ==
    /\ host = "up"
    /\ ends < MaxEnds
    /\ ends' = ends + 1
    /\ ended' = why
    /\ host' = "down"
    /\ orphans' = orphans \cup {t \in Tunnels :
            \/ life = "running" /\ client = t
            \/ \E r \in Requests : pc[r] = "start" /\ op[r].tunnel = t}
    /\ ClientOff
    /\ mu' = None
    /\ pc' = [r \in Requests |-> "idle"]
    /\ op' = [r \in Requests |-> None]
    /\ snap' = [r \in Requests |-> None]
    /\ exitPc' = [e \in Exits |-> "idle"]
    /\ stopPc' = "idle"
    /\ bootPc' = "done"
    /\ UNCHANGED <<store, strategy, routes, unbacked, left, bare>>

\* os.Exit at the end of Shutdown, or log.Fatalf: ListenAndServe returns as soon
\* as Shutdown has been called, and main does not wait for anything.
MainExits == stopPc # "idle" /\ Gone("signal") /\ UNCHANGED faults

Crash == Fail("crash") /\ Gone("crash")

\* app.New and Run.
Boot ==
    /\ host = "down"
    /\ host' = "up"
    /\ mem' = disk
    /\ strategy' = disk.mode
    /\ bootPc' = "restore"
    /\ unbacked' = IF disk.active = None THEN "none" ELSE "unrestored"
    /\ UNCHANGED <<disk, thread, exitPc, stopPc, runtime, routes, faults, ghosts, stray, left, bare>>

OrphanExits(t) ==
    /\ t \in orphans
    /\ orphans' = orphans \ {t}
    /\ UNCHANGED <<store, strategy, thread, process, runtime, routes, faults, ends, ended,
                   reasons>>

-----------------------------------------------------------------------------
Locked(r) ==
    \/ ResetRoutes(r) \/ Cleanup(r) \/ StopOld(r) \/ Start(r) \/ SwitchRoutes(r)
    \/ Undo(r) \/ StoreError(r) \/ StoreRunning(r)
    \/ DropRoutes(r) \/ Stop(r) \/ StoreStopped(r)
    \/ ImportReplace(r) \/ ReadBack(r) \/ RefreshReplace(r) \/ FetchFails(r)
    \/ \E fresh \in SUBSET Tunnels : Merge(r, fresh)
    \/ StopGone(r)
    \/ OldRoutes(r) \/ RoutingRejected(r) \/ StoreRouting(r) \/ Recreate(r) \/ Reapply(r)

Exiting(e) == Report(e) \/ ExitDropsRoutes(e) \/ ExitStored(e)

Stopping == ShutdownLooks \/ ShutdownDropsRoutes \/ ShutdownStops

Next ==
    \/ \E r \in Requests :
        Api(r) \/ Restore(r) \/ Lock(r) \/ Locked(r) \/ \E t \in Tunnels : Hook(r, t)
    \/ NothingToRestore
    \/ PatchSettings
    \/ \E e \in Exits : Exiting(e)
    \/ ClientExits
    \/ Signal \/ Stopping \/ MainExits \/ Crash \/ Boot
    \/ \E t \in Tunnels : OrphanExits(t)

\* Goroutines that can run do run; a request that waits for a.mu gets it, since
\* a Go mutex hands itself to the one that has waited longest; Shutdown, which
\* comes last, is not promised its turn against the others.
Fairness ==
    \A r \in Requests : SF_vars(Lock(r)) /\ WF_vars(Locked(r))

Spec     == Init /\ [][Next]_vars
FairSpec == Spec /\ Fairness

-----------------------------------------------------------------------------
(* What the orchestrator promises.                                          *)

PcStates ==
    {"idle", "lock", "resetRoutes", "cleanup", "stopOld", "start", "switchRoutes", "undo",
     "storeError", "storeRunning", "dropRoutes", "stop", "storeStopped", "replace", "readBack", "newHWID",
     "fetch", "stopGone", "oldRoutes", "storeRouting", "recreate", "reapply"}

RequestSet ==
    [kind : {"activate", "hookDown"}, tunnel : Tunnels, mode : {None}]
    \cup [kind : {"deactivate", "import", "refresh"}, tunnel : {None}, mode : {None}]
    \cup [kind : {"routing"}, tunnel : {None}, mode : Modes \cup {"invalid", None}]

TypeOK ==
    /\ mem \in States
    /\ disk \in States
    /\ strategy \in Modes
    /\ mu \in Requests \cup {None}
    /\ pc \in [Requests -> PcStates]
    /\ op \in [Requests -> RequestSet \cup {None}]
    /\ snap \in [Requests -> States \cup {None}]
    /\ exitPc \in [Exits -> {"idle", "dropRoutes", "store"}]
    /\ stopPc \in {"idle", "look", "dropRoutes", "stop", "done"}
    /\ bootPc \in {"restore", "done"}
    /\ host \in {"up", "down"}
    /\ client \in Tunnels \cup {None}
    /\ life \in {"none", "running", "exited"}
    /\ life = "none" <=> client = None
    /\ routed \in [Modes -> Tunnels \cup {None}]
    /\ file \in [mode : Modes, tunnel : Tunnels] \cup {None}
    /\ orphans \subseteq Tunnels
    /\ faults \in 0 .. MaxFaults
    /\ ends \in 0 .. MaxEnds
    /\ ended \in {"no", "signal", "crash"}
    /\ unbacked \in {"none", "overtaken", "unsignalled", "unrestored"}
    /\ stray \in {"none", "prepare", "report", "unsaved"}
    /\ left \subseteq Tunnels
    /\ bare \in {"none", "failed", "cleanup", "update", "exit"}

\* The three places of the store that say which tunnel is active agree, and an
\* active tunnel is one of the latest subscription.
Agrees(st) ==
    /\ st.state = "running" <=> st.active # None
    /\ st.flags = {st.active} \ {None}
    /\ \A t \in st.flags : st.profile[t] = "present"

(* The stored runtime state, the active tunnel, the active flags and the    *)
(* subscription never contradict one another, in memory and on disk, while  *)
(* requests under a.mu, exit handlers and settings write them by turns, a   *)
(* stale snapshot is written back, a save fails or the process is killed.   *)
StoreConsistent == Agrees(mem) /\ Agrees(disk)

\* Nobody is in the middle of anything.
Quiet == host = "up" /\ mu = None /\ stopPc = "idle" /\ \A e \in Exits : exitPc[e] = "idle"

(* When nobody is at work and the store says "running", the client of that  *)
(* tunnel is there, or its exit is about to be reported.  It may be missing *)
(* for three reasons only: the write that says "running" overtook or undid  *)
(* the report of the exit, SIGTERM could not be sent, or the tunnel could   *)
(* not be restored after a boot.                                            *)
RunningIsBacked ==
    Quiet /\ mem.state = "running" /\ client # mem.active => unbacked # "none"

(* When nobody is at work and a client runs, the store names its tunnel,    *)
(* unless an activation failed before it touched the old client, the exit   *)
(* of an older client was reported late, or a refresh could not be saved.   *)
ClientIsRecorded ==
    Quiet /\ client # None /\ client # mem.active => stray # "none"

(* When nobody is at work and the client of the active tunnel runs, its     *)
(* routes are installed in the current mode, unless the strategy failed to  *)
(* install them, an activation failed at the tun devices, a routing update  *)
(* ended between the two switches of the routes, or the exit of an older    *)
(* client was handled late.                                                 *)
RoutedUnlessKnown ==
    Quiet /\ mem.active # None /\ client = mem.active /\ routed[strategy] # mem.active
        => bare # "none"

(* While no strategy fails, no client exits and the process does not end,   *)
(* routes lead into the active tunnel of the current mode or nowhere,       *)
(* through every sequence of activations, deactivations, mode changes and   *)
(* refreshes, except for routes that a refresh left to a tunnel that        *)
(* disappeared.                                                             *)
RoutesFollowTunnel ==
    Quiet => \A m \in Modes :
        routed[m] # None => (m = strategy /\ routed[m] = mem.active) \/ routed[m] \in left

(* The strategy that switches the routes is the one of the stored mode.     *)
StrategyFollowsMode == host = "up" /\ mu = None => strategy = mem.mode

(* A request that came in is answered: whoever holds a.mu releases it, and  *)
(* neither the exit handler nor the interface hook can block it.            *)
RequestsServed ==
    \A r \in Requests : pc[r] = "lock" ~> pc[r] = "idle"

-----------------------------------------------------------------------------
(* Statements of the code that it does not keep.                            *)

(* main.go: "received shutdown signal, cleaning up...".  When the process   *)
(* had an active tunnel and ended after the signal, the client and the      *)
(* routes of the tunnel are gone.                                           *)
ShutdownCleansUp ==
    host = "down" /\ ended = "signal" /\ disk.active # None =>
        disk.active \notin orphans /\ \A m \in Modes : routed[m] # disk.active

(* app.go: "If tunnel was active, re-apply routing with new config."  While *)
(* a tunnel is active and nobody is at work its routes are installed.       *)
ActiveIsRouted ==
    Quiet /\ mem.active # None /\ client = mem.active => routed[strategy] = mem.active

=============================================================================
