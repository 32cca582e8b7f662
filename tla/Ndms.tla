--------------------------------- MODULE Ndms ---------------------------------
(***************************************************************************)
(* The tunnels as the router (NDMS) knows them: syncNDMSProfiles and       *)
(* handleIfaceChanged of src/internal/app/app.go, SyncOpkgTun of           *)
(* src/internal/keenetic/rci.go, and the hook script of the package.       *)
(*                                                                         *)
(* The manager registers every tunnel at the router and switches the one   *)
(* it activates "up" and the others "down".  The router tells each change  *)
(* of such a setting to the manager, through a hook script that does not   *)
(* wait for the answer, whoever made the change; and the manager activates *)
(* what came up and deactivates what went down.  This module is about that *)
(* loop.  It starts with a boot of the process, whose predecessor left the *)
(* store and the router in agreement.                                      *)
(*                                                                         *)
(* Abstracted: the client and the routes (module App), by whether an       *)
(* activation succeeds; errors of the store; a tunnel and its interface    *)
(* are one identifier; addresses and descriptions; the configuration the   *)
(* router saves.  A tunnel is told to the router in one step.              *)
(***************************************************************************)
EXTENDS Naturals, FiniteSets

CONSTANTS
    Tunnels,        \* identifiers of tunnels
    MaxCalls,       \* bound on the HTTP calls that wait for their turn
    None,
    MaxTroubles     \* bound on failures and on changes by the users of the router

ASSUME ConstantsAssumption ==
    /\ None \notin Tunnels
    /\ MaxCalls \in Nat
    /\ MaxTroubles \in Nat

VARIABLES
    active,         \* the store's active tunnel
    profile,        \* whether the subscription has the tunnel
    flag,           \* the router's setting of the tunnel's interface
    calls,          \* the HTTP calls that wait for their turn
    holder,         \* the call that holds a.mu
    pc,             \* where it is
    todo, want,     \* the tunnels it still has to sync, the one to be up
    boot,           \* where cleanupNDMSOnBoot is
    bootTodo, bootWant,
    restore,        \* restoreRuntimeIfNeeded has still to run
    troubles,
    doubt           \* whether the router's settings may differ from the store

store == <<active, profile>>
sync  == <<holder, pc, todo, want>>
start == <<boot, bootTodo, bootWant, restore>>
vars  == <<store, flag, calls, sync, start, troubles, doubt>>

Kinds == {"activate", "deactivate", "refresh"}

\* An interface event that the script sends and nobody has read, or a call
\* that waits for a.mu.  For an event, kind is what it asks for, and by tells who
\* changed the setting.
CallSet ==
    [at : {"script", "mutex"}, kind : {"activate", "deactivate"}, tunnel : Tunnels,
     by : {"user", "manager"}]
    \cup [at : {"mutex"}, kind : {"activate"}, tunnel : Tunnels, by : {"api"}]
    \cup [at : {"mutex"}, kind : {"deactivate", "refresh"}, tunnel : {None}, by : {"api"}]

ASSUME NoneAssumption == None \notin CallSet

Call(at, kind, t, by) == [at |-> at, kind |-> kind, tunnel |-> t, by |-> by]

Known == {t \in Tunnels : profile[t] # "absent"}

\* The tunnels that are not missing.
Present == {t \in Tunnels : profile[t] = "present"}

\* The tunnels are listed in one order.
First(tunnels) == CHOOSE t \in tunnels : TRUE

\* No two equal calls wait at the same time.
Arrives(q) ==
    /\ q \notin calls
    /\ Cardinality(calls) < MaxCalls
    /\ calls' = calls \cup {q}

Trouble ==
    /\ troubles < MaxTroubles
    /\ troubles' = troubles + 1

-----------------------------------------------------------------------------
Init ==
    /\ profile \in [Tunnels -> {"absent", "present"}]
    /\ active \in Present \cup {None}
    /\ flag = [t \in Tunnels |->
            CASE t = active -> "up" [] t \in Present \ {active} -> "down" [] OTHER -> "unknown"]
    /\ calls = {}
    /\ holder = None
    /\ pc = "idle"
    /\ todo = {}
    /\ want = None
    /\ boot = "sleep"
    /\ bootTodo = {}
    /\ bootWant = None
    /\ restore = TRUE
    /\ troubles = 0
    /\ doubt = "none"

-----------------------------------------------------------------------------
(* The router.                                                              *)

\* The script runs in the background and is given two seconds: events overtake
\* one another, and may get lost.
Tell(t, level, by) ==
    \/ UNCHANGED calls
    \/ Arrives(Call("script", IF level = "up" THEN "activate" ELSE "deactivate", t, by))

\* A changed setting is an event.
Set(t, level, by) ==
    /\ flag' = [flag EXCEPT ![t] = level]
    /\ IF (level = "up") = (flag[t] = "up") THEN UNCHANGED calls ELSE Tell(t, level, by)

\* A user of the router switches an interface on or off.
Toggle(t) ==
    /\ flag[t] # "unknown"
    /\ Trouble
    /\ Set(t, IF flag[t] = "up" THEN "down" ELSE "up", "user")
    /\ doubt' = "doubt"
    /\ UNCHANGED <<store, sync, start>>

\* SyncOpkgTun: an interface that does not exist is created, then it is set.
SyncOpkgTun(t, enabled) == Set(t, IF enabled THEN "up" ELSE "down", "manager")

\* Without an answer, or with an error in it, nothing or all of it may have
\* been done, or the interface been created only.
SyncOpkgTunFails(t, enabled) ==
    \/ UNCHANGED <<flag, calls>>
    \/ flag[t] = "unknown" /\ flag' = [flag EXCEPT ![t] = "down"] /\ UNCHANGED calls
    \/ SyncOpkgTun(t, enabled)

-----------------------------------------------------------------------------
(* Calls come in.                                                           *)

Ask(kind, t) == Arrives(Call("mutex", kind, t, "api"))

\* The manager's own API, and the automatic refresh.
Api ==
    /\ \/ \E t \in Known : Ask("activate", t)
       \/ \E kind \in {"deactivate", "refresh"} : Ask(kind, None)
    /\ UNCHANGED <<store, flag, sync, start, troubles, doubt>>

\* restoreRuntimeIfNeeded.
\* [faulty variant] It does not look whether there is anything to restore.
RestoreUnchecked ==
    /\ restore
    /\ restore' = FALSE
    /\ Ask("activate", active)
    /\ UNCHANGED <<store, flag, sync, boot, bootTodo, bootWant, troubles, doubt>>

Restore ==
    /\ restore
    /\ restore' = FALSE
    /\ IF active = None THEN UNCHANGED calls ELSE Ask("activate", active)
    /\ UNCHANGED <<store, flag, sync, boot, bootTodo, bootWant, troubles, doubt>>

\* What handleIfaceChanged asks a.mu for, by a snapshot it takes before.
Wanted(q) ==
    /\ q.tunnel \in Known
    /\ (q.kind = "activate") = (active # q.tunnel)

IfaceChanged(q) ==
    /\ q \in calls
    /\ q.at = "script"
    /\ calls' = (calls \ {q}) \cup IF Wanted(q) THEN {[q EXCEPT !.at = "mutex"]} ELSE {}
    /\ UNCHANGED <<store, flag, sync, start, troubles, doubt>>

-----------------------------------------------------------------------------
(* Calls are served, one at a time.                                         *)

Release ==
    /\ holder' = None
    /\ pc' = "idle"
    /\ todo' = {}
    /\ want' = None

\* A tunnel that is not in the subscription is not activated.
Refused(q) == q.kind = "activate" /\ q.tunnel \notin Present

Lock(q) ==
    /\ q \in calls
    /\ q.at = "mutex"
    /\ holder = None
    /\ calls' = calls \ {q}
    /\ IF Refused(q)
       THEN UNCHANGED <<holder, pc, doubt>>
       ELSE /\ holder' = q
            /\ pc' = q.kind
            /\ doubt' = IF doubt = "doubt" THEN "healing" ELSE doubt
    /\ UNCHANGED <<store, flag, todo, want, start, troubles>>

\* A call fails before it changes anything here: the tun devices cannot be
\* removed, the client not be stopped, the subscription not be fetched.
EndsEarly ==
    /\ pc \in Kinds
    /\ Trouble
    /\ Release
    /\ doubt' = IF doubt = "healing" THEN "doubt" ELSE doubt
    /\ UNCHANGED <<store, flag, calls, start>>

\* ActivateTunnel tells the router what it is about to do.
\* [faulty variant] It tells what the store says, which is about to change.
AnnounceStored ==
    /\ pc = "activate"
    /\ pc' = "sync"
    /\ todo' = Present
    /\ want' = active
    /\ UNCHANGED <<store, flag, calls, holder, start, troubles, doubt>>

Announce ==
    /\ pc = "activate"
    /\ pc' = "sync"
    /\ todo' = Present
    /\ want' = holder.tunnel
    /\ UNCHANGED <<store, flag, calls, holder, start, troubles, doubt>>

\* DeactivateTunnel stores that no tunnel is active, then tells the router.
\* [faulty variant] It tells what the store said before.
DeactivateStale ==
    /\ pc = "deactivate"
    /\ active' = None
    /\ pc' = "sync"
    /\ todo' = Present
    /\ want' = active
    /\ UNCHANGED <<profile, flag, calls, holder, start, troubles, doubt>>

Deactivate ==
    /\ pc = "deactivate"
    /\ active' = None
    /\ pc' = "sync"
    /\ todo' = Present
    /\ want' = None
    /\ UNCHANGED <<profile, flag, calls, holder, start, troubles, doubt>>

\* refreshSubscriptionLocked merges the fresh tunnels and tells the router.
Merge(fresh) ==
    /\ pc = "refresh"
    /\ fresh # {}
    /\ profile' = [t \in Tunnels |->
            IF t \in fresh THEN "present" ELSE IF t \in Known THEN "missing" ELSE "absent"]
    /\ active' = IF active \in fresh THEN active ELSE None
    /\ pc' = "sync"
    /\ todo' = fresh
    /\ want' = active'
    /\ UNCHANGED <<flag, calls, holder, start, troubles, doubt>>

\* syncNDMSProfiles; an error is logged, and the next tunnel is tried.
Sync ==
    /\ pc = "sync"
    /\ todo # {}
    /\ LET t == First(todo) IN
       /\ todo' = todo \ {t}
       /\ \/ SyncOpkgTun(t, t = want) /\ UNCHANGED <<troubles, doubt>>
          \/ SyncOpkgTunFails(t, t = want) /\ Trouble /\ doubt' = "doubt"
    /\ UNCHANGED <<store, holder, pc, want, start>>

Synced == holder # None /\ pc = "sync" /\ todo = {}

\* An activation starts the client now; the others are done.
Start ==
    /\ Synced
    /\ holder.kind = "activate"
    /\ active' = holder.tunnel
    /\ Release
    /\ doubt' = IF doubt = "healing" THEN "none" ELSE doubt
    /\ UNCHANGED <<profile, flag, calls, start, troubles>>

\* The router keeps what it was told.
StartFails ==
    /\ Synced
    /\ holder.kind = "activate"
    /\ Trouble
    /\ active' = None
    /\ Release
    /\ doubt' = "doubt"
    /\ UNCHANGED <<profile, flag, calls, start>>

Finish ==
    /\ Synced
    /\ holder.kind # "activate"
    /\ Release
    /\ doubt' = IF doubt = "healing" THEN "none" ELSE doubt
    /\ UNCHANGED <<store, flag, calls, start, troubles>>

-----------------------------------------------------------------------------
(* What happens without a.mu.                                               *)

\* cleanupNDMSOnBoot: a snapshot, and a sync of what was active in it.
BootLooks ==
    /\ boot = "sleep"
    /\ boot' = "sync"
    /\ bootTodo' = Present
    /\ bootWant' = active
    /\ UNCHANGED <<store, flag, calls, sync, restore, troubles, doubt>>

BootSync ==
    /\ boot = "sync"
    /\ bootTodo # {}
    /\ LET t == First(bootTodo) IN
       /\ bootTodo' = bootTodo \ {t}
       /\ \/ SyncOpkgTun(t, t = bootWant) /\ UNCHANGED troubles
          \/ SyncOpkgTunFails(t, t = bootWant) /\ Trouble
    /\ doubt' =
        IF bootWant = active /\ holder = None /\ UNCHANGED troubles THEN doubt ELSE "doubt"
    /\ UNCHANGED <<store, sync, boot, bootWant, restore>>

BootDone ==
    /\ boot = "sync"
    /\ bootTodo = {}
    /\ boot' = "done"
    /\ bootWant' = None
    /\ UNCHANGED <<store, flag, calls, sync, bootTodo, restore, troubles, doubt>>

\* handleUnexpectedRuntimeExit does not tell the router.
Exit ==
    /\ active # None
    /\ Trouble
    /\ active' = None
    /\ doubt' = "doubt"
    /\ UNCHANGED <<profile, flag, calls, sync, start>>

-----------------------------------------------------------------------------
Serve ==
    \/ Announce
    \/ Deactivate
    \/ \E fresh \in SUBSET Tunnels : Merge(fresh)
    \/ Sync
    \/ Start
    \/ StartFails
    \/ Finish

Booting == BootLooks \/ BootSync \/ BootDone

Next ==
    \/ Api
    \/ Restore
    \/ Booting
    \/ Exit
    \/ \E t \in Tunnels : Toggle(t)
    \/ \E q \in calls : IfaceChanged(q) \/ Lock(q)
    \/ EndsEarly
    \/ Serve

Spec == Init /\ [][Next]_vars

-----------------------------------------------------------------------------
TypeOK ==
    /\ active \in Tunnels \cup {None}
    /\ profile \in [Tunnels -> {"absent", "present", "missing"}]
    /\ flag \in [Tunnels -> {"unknown", "down", "up"}]
    /\ calls \subseteq CallSet
    /\ holder \in CallSet \cup {None}
    /\ pc \in {"idle", "sync"} \cup Kinds
    /\ todo \subseteq Tunnels
    /\ want \in Tunnels \cup {None}
    /\ boot \in {"sleep", "sync", "done"}
    /\ bootTodo \subseteq Tunnels
    /\ bootWant \in Tunnels \cup {None}
    /\ restore \in BOOLEAN
    /\ troubles \in 0 .. MaxTroubles
    /\ doubt \in {"none", "healing", "doubt"}

\* At the router, t is the one tunnel of the subscription that is up.
UpIs(t) == \A s \in Present : flag[s] = (IF s = t THEN "up" ELSE "down")

(* While no call holds a.mu, the router has exactly the store's active      *)
(* tunnel of the subscription up, unless it is in doubt: since the          *)
(* last activation, deactivation or refresh that told the router all it had *)
(* to tell, a call to the router or an activation failed, a client exited,  *)
(* a user of the router changed a setting, or the boot's sync overtook      *)
(* something.  One undisturbed request puts an end to the doubt.            *)
RouterAgrees == holder = None /\ doubt = "none" => UpIs(active)

(* app.go:536: "Register ALL tunnels with Keenetic NDMS BEFORE starting     *)
(* Hysteria".  When the client is about to be started, its interface and no *)
(* other is up, unless something disturbed this very activation.            *)
RouterReady ==
    Synced /\ holder.kind = "activate" /\ doubt # "doubt" => UpIs(holder.tunnel)

-----------------------------------------------------------------------------
(* A statement of the code that it does not keep.                           *)

(* app.go: the hook activates and deactivates "via Keenetic UI".  A call of *)
(* the hook changes the active tunnel only as a user of the router asked:   *)
(* to the tunnel that was switched on, or from the one that was switched    *)
(* off.                                                                     *)
HookObeysUI ==
    [][holder # None /\ holder.by # "api" /\ active' # active =>
            /\ holder.by = "user"
            /\ holder.kind = "deactivate" => active = holder.tunnel]_vars
=============================================================================
