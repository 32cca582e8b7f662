--------------------------- MODULE RuntimeManager ---------------------------
(***************************************************************************)
(* The supervisor of the hysteria client process:                          *)
(* src/internal/runtime/manager.go.                                        *)
(*                                                                         *)
(* Covered: Activate, Deactivate and watch at the granularity of their     *)
(* mutex sections, channel waits and timeouts; the wait goroutine of each  *)
(* client; the opkgtun devices the detection loop looks at; the end of the *)
(* manager process and its restart, which forgets every handle.            *)
(*                                                                         *)
(* Abstracted: the contents of the configuration and of the log, and time  *)
(* (a timeout is a step that may be taken whenever its wait is entered).   *)
(*                                                                         *)
(* The callers are those of src/internal/app: operations in Ops hold a.mu  *)
(* around every call, Shutdown calls Deactivate after it released a.mu.    *)
(***************************************************************************)
EXTENDS Naturals

CONSTANTS
    Ops,            \* callers that hold a.mu while they use the manager
    Shutdown,       \* the goroutine of App.Shutdown, outside a.mu
    Handles,        \* one processHandle per client ever started
    Devices,        \* names of opkgtun devices
    None,           \* nil
    MaxRestarts     \* bound on the restarts of the manager process

Threads == Ops \cup {Shutdown}

ASSUME ConstantsAssumption ==
    /\ Shutdown \notin Ops
    /\ None \notin Handles \cup Devices
    /\ MaxRestarts \in Nat

VARIABLES
    current,        \* m.current
    stopRequested,  \* handle.stopRequested
    proc,           \* state of the client process behind a handle
    tun,            \* the device a running client has opened
    watch,          \* progress of the goroutine m.watch(handle)
    notified,       \* handles whose exit was passed to onUnexpectedExit
    pc,             \* where each caller is in Activate or Deactivate
    op,             \* which of the two it called
    own,            \* the handle local to the call (`handle` or `current`)
    known,          \* knownInterfaces of the call
    ret,            \* what the last call of the caller returned
    devices,        \* opkgtun devices that exist
    restarts,       \* how often the manager process was restarted
    orphans,        \* clients that outlived the manager process that started them
    unsignalled     \* clients given up because SIGTERM could not be sent

clients == <<current, stopRequested, watch, notified>>
system  == <<proc, tun, devices>>
callers == <<pc, op, own, known, ret>>
ghosts  == <<restarts, orphans, unsignalled>>
vars    == <<clients, system, callers, ghosts>>

-----------------------------------------------------------------------------
(* A process is "free" until it is started, "killed" once SIGKILL was sent, *)
(* "dead" when it has exited and "done" when handle.done is closed.         *)

ProcStates  == {"free", "alive", "killed", "dead", "done"}
WatchStates == {"none", "waiting", "notify", "over"}
PcStates    == {"idle", "prepare", "take", "signal", "await", "reap",
                "start", "detect", "abort"}
Outcomes    == {"none", "running", "stopped", "failed", "unsignalled"}

\* Locations at which the call has a handle in its local variable.
Stopping == {"signal", "await", "reap"}
Starting == {"detect", "abort"}

Live(h) == proc[h] \in {"alive", "killed"}

Init ==
    /\ current = None
    /\ stopRequested = [h \in Handles |-> FALSE]
    /\ proc = [h \in Handles |-> "free"]
    /\ tun = [h \in Handles |-> None]
    /\ watch = [h \in Handles |-> "none"]
    /\ notified = {}
    /\ pc = [t \in Threads |-> "idle"]
    /\ op = [t \in Threads |-> "deactivate"]
    /\ own = [t \in Threads |-> None]
    /\ known = [t \in Threads |-> {}]
    /\ ret = [t \in Threads |-> "none"]
    /\ devices = {}
    /\ restarts = 0
    /\ orphans = {}
    /\ unsignalled = {}

Goto(t, l) == pc' = [pc EXCEPT ![t] = l]

\* The call of t ends with the outcome r.
Return(t, r) ==
    /\ Goto(t, "idle")
    /\ ret' = [ret EXCEPT ![t] = r]
    /\ known' = [known EXCEPT ![t] = {}]

-----------------------------------------------------------------------------
(* Calls.  a.mu admits one operation at a time.                             *)

\* a.mu is free.
MuFree == \A t \in Ops : pc[t] = "idle"

Call(t, what, first) ==
    /\ pc[t] = "idle"
    /\ MuFree
    /\ Goto(t, first)
    /\ op' = [op EXCEPT ![t] = what]
    /\ own' = [own EXCEPT ![t] = None]
    /\ ret' = [ret EXCEPT ![t] = "none"]
    /\ UNCHANGED <<known, clients, system, ghosts>>

BeginActivate(t) == t \in Ops /\ Call(t, "activate", "prepare")

\* Shutdown runs once in the life of the manager process, and looks at a.mu
\* before it calls Deactivate.
BeginDeactivate(t) ==
    /\ t = Shutdown => ret[t] = "none"
    /\ Call(t, "deactivate", "take")

(* Activate before the old client is touched: the binary is missing, or the *)
(* configuration cannot be written.                                         *)
PrepareFails(t) ==
    /\ pc[t] = "prepare"
    /\ Return(t, "failed")
    /\ UNCHANGED <<op, own, clients, system, ghosts>>

\* [faulty variant] Activate does not stop the old client.
PreparedWithoutStop(t) ==
    /\ pc[t] = "prepare"
    /\ Goto(t, "start")
    /\ UNCHANGED <<op, own, known, ret, clients, system, ghosts>>

Prepared(t) ==
    /\ pc[t] = "prepare"
    /\ Goto(t, "take")
    /\ UNCHANGED <<op, own, known, ret, clients, system, ghosts>>

-----------------------------------------------------------------------------
(* Deactivate, called by the application or by Activate.                    *)

\* Deactivate returns without an error: Activate lists the devices that exist
\* (nothing when they cannot be listed) and goes on to start the new client.
AfterStop(t) ==
    IF op[t] = "activate"
    THEN /\ Goto(t, "start")
         /\ \E listed \in {devices, {}} : known' = [known EXCEPT ![t] = listed]
         /\ UNCHANGED <<op, ret>>
    ELSE /\ Return(t, "stopped")
         /\ UNCHANGED op

\* The mutex section of Deactivate, without and with a current client.
\* [faulty variant] The nil check of m.current is missing.
TakeNoneAlways(t) ==
    /\ pc[t] = "take"
    /\ current = None
    /\ Goto(t, "signal")
    /\ UNCHANGED <<op, own, known, ret, clients, system, ghosts>>

TakeNone(t) ==
    /\ pc[t] = "take"
    /\ current = None
    /\ AfterStop(t)
    /\ UNCHANGED <<own, clients, system, ghosts>>

\* [faulty variant] The handle stays current while it is being stopped.
TakeCurrentKeeps(t) ==
    /\ pc[t] = "take"
    /\ current # None
    /\ stopRequested' = [stopRequested EXCEPT ![current] = TRUE]
    /\ own' = [own EXCEPT ![t] = current]
    /\ Goto(t, "signal")
    /\ UNCHANGED <<current, watch, notified, op, known, ret, system, ghosts>>

TakeCurrent(t) ==
    /\ pc[t] = "take"
    /\ current # None
    /\ stopRequested' = [stopRequested EXCEPT ![current] = TRUE]
    /\ current' = None
    /\ own' = [own EXCEPT ![t] = current]
    /\ Goto(t, "signal")
    /\ UNCHANGED <<watch, notified, op, known, ret, system, ghosts>>

\* SIGTERM was delivered, or the process is done already.
SignalSent(t) ==
    /\ pc[t] = "signal"
    /\ Goto(t, "await")
    /\ UNCHANGED <<op, own, known, ret, clients, system, ghosts>>

\* Signal returned another error: the call ends, and the handle is no longer
\* anybody's.
SignalFails(t) ==
    /\ pc[t] = "signal"
    /\ proc[own[t]] # "done"
    /\ Return(t, "unsignalled")
    /\ unsignalled' = unsignalled \cup {own[t]}
    /\ UNCHANGED <<op, own, clients, system, restarts, orphans>>

\* Process.Kill: SIGKILL for a client that still runs.
Kill(h) == proc' = [proc EXCEPT ![h] = IF @ = "alive" THEN "killed" ELSE @]

\* Five seconds after SIGTERM.
\* [faulty variant] No SIGKILL after the timeout.
StopTimeoutNoKill(t) ==
    /\ pc[t] = "await"
    /\ Goto(t, "reap")
    /\ UNCHANGED <<op, own, known, ret, clients, system, ghosts>>

StopTimeout(t) ==
    /\ pc[t] = "await"
    /\ Kill(own[t])
    /\ Goto(t, "reap")
    /\ UNCHANGED <<op, own, known, ret, clients, tun, devices, ghosts>>

\* <-current.done, before or after the timeout.
Stopped(t) ==
    /\ pc[t] \in {"await", "reap"}
    /\ proc[own[t]] = "done"
    /\ AfterStop(t)
    /\ UNCHANGED <<own, clients, system, ghosts>>

-----------------------------------------------------------------------------
(* Activate after the old client is gone.                                   *)

\* The log cannot be opened or the process cannot be started.
StartFails(t) ==
    /\ pc[t] = "start"
    /\ Return(t, "failed")
    /\ UNCHANGED <<op, own, clients, system, ghosts>>

Start(t, h) ==
    /\ pc[t] = "start"
    /\ proc[h] = "free"
    /\ proc' = [proc EXCEPT ![h] = "alive"]
    /\ own' = [own EXCEPT ![t] = h]
    /\ Goto(t, "detect")
    /\ UNCHANGED <<op, known, ret, clients, tun, devices, ghosts>>

\* The select loop: the client exited.
StartupExit(t) ==
    /\ pc[t] = "detect"
    /\ proc[own[t]] = "done"
    /\ Return(t, "failed")
    /\ UNCHANGED <<op, own, clients, system, ghosts>>

\* The select loop: 15 seconds are over.
\* [faulty variant] Activate does not wait for the client it killed.
StartupTimeoutNoWait(t) ==
    /\ pc[t] = "detect"
    /\ Kill(own[t])
    /\ Return(t, "failed")
    /\ UNCHANGED <<op, own, clients, tun, devices, ghosts>>

StartupTimeout(t) ==
    /\ pc[t] = "detect"
    /\ Kill(own[t])
    /\ Goto(t, "abort")
    /\ UNCHANGED <<op, own, known, ret, clients, tun, devices, ghosts>>

StartupAborted(t) ==
    /\ pc[t] = "abort"
    /\ proc[own[t]] = "done"
    /\ Return(t, "failed")
    /\ UNCHANGED <<op, own, clients, system, ghosts>>

\* The select loop: detectOpkgTunInterface names a device, listed now or named
\* by the client's log, that was not listed before the start, and
\* net.InterfaceByName finds it.  Nothing asks whether the client still runs.
\* [faulty variant] The handle of a client that came up is not kept.
DetectedUnpublished(t, d) ==
    /\ pc[t] = "detect"
    /\ d \in devices \ known[t]
    /\ watch' = [watch EXCEPT ![own[t]] = "waiting"]
    /\ Return(t, "running")
    /\ UNCHANGED <<current, stopRequested, notified, op, own, system, ghosts>>

Detected(t, d) ==
    /\ pc[t] = "detect"
    /\ d \in devices \ known[t]
    /\ current' = own[t]
    /\ watch' = [watch EXCEPT ![own[t]] = "waiting"]
    /\ Return(t, "running")
    /\ UNCHANGED <<stopRequested, notified, op, own, system, ghosts>>

-----------------------------------------------------------------------------
(* The goroutine m.watch(handle).                                           *)

\* It wakes up, decides under the mutex whether to report the exit, and drops
\* the handle if it is still the current one.
\* [faulty variants] The decision ignores stopRequested one way or the other;
\* the current handle is dropped whichever it is.
WatchWakeAlwaysTells(h) ==
    /\ watch[h] = "waiting"
    /\ proc[h] = "done"
    /\ watch' = [watch EXCEPT ![h] = "notify"]
    /\ current' = IF current = h THEN None ELSE current
    /\ UNCHANGED <<stopRequested, notified, system, callers, ghosts>>

WatchWakeNeverTells(h) ==
    /\ watch[h] = "waiting"
    /\ proc[h] = "done"
    /\ watch' = [watch EXCEPT ![h] = "over"]
    /\ current' = IF current = h THEN None ELSE current
    /\ UNCHANGED <<stopRequested, notified, system, callers, ghosts>>

WatchWakeDropsAny(h) ==
    /\ watch[h] = "waiting"
    /\ proc[h] = "done"
    /\ watch' = [watch EXCEPT ![h] = IF stopRequested[h] THEN "over" ELSE "notify"]
    /\ current' = None
    /\ UNCHANGED <<stopRequested, notified, system, callers, ghosts>>

WatchWake(h) ==
    /\ watch[h] = "waiting"
    /\ proc[h] = "done"
    /\ watch' = [watch EXCEPT ![h] = IF stopRequested[h] THEN "over" ELSE "notify"]
    /\ current' = IF current = h THEN None ELSE current
    /\ UNCHANGED <<stopRequested, notified, system, callers, ghosts>>

\* onUnexpectedExit is called outside the mutex.
WatchNotify(h) ==
    /\ watch[h] = "notify"
    /\ watch' = [watch EXCEPT ![h] = "over"]
    /\ notified' = notified \cup {h}
    /\ UNCHANGED <<current, stopRequested, system, callers, ghosts>>

\* cmd.Wait returns and the wait goroutine closes handle.done; a client that
\* outlived its manager has no such goroutine.
Reap(h) ==
    /\ proc[h] = "dead"
    /\ h \notin orphans
    /\ proc' = [proc EXCEPT ![h] = "done"]
    /\ UNCHANGED <<tun, devices, clients, callers, ghosts>>

-----------------------------------------------------------------------------
(* Outside the manager: the hysteria binary, the router, the init system.   *)

\* The client opens the TUN device of its configuration: one that the router
\* made, or one it creates.
ClientOpensTun(h, d) ==
    /\ Live(h)
    /\ tun[h] = None
    /\ \A g \in Handles : Live(g) => tun[g] # d
    /\ tun' = [tun EXCEPT ![h] = d]
    /\ devices' = devices \cup {d}
    /\ UNCHANGED <<proc, clients, callers, ghosts>>

\* The client exits by itself or by a signal; a device it created goes with it.
ClientExits(h) ==
    /\ Live(h)
    /\ proc' = [proc EXCEPT ![h] = "dead"]
    /\ tun' = [tun EXCEPT ![h] = None]
    /\ devices' \in {devices, devices \ {tun[h]}}
    /\ UNCHANGED <<clients, callers, ghosts>>

\* The router creates or removes an OpkgTun interface.
RouterDevice(d) ==
    /\ devices' = IF d \in devices THEN devices \ {d} ELSE devices \cup {d}
    /\ \A g \in Handles : Live(g) => tun[g] # d
    /\ UNCHANGED <<proc, tun, clients, callers, ghosts>>

\* The manager process ends, after Shutdown or by a crash, and is started
\* again by the init script: its goroutines and handles are gone, the client
\* processes are not.
Restart ==
    /\ restarts < MaxRestarts
    /\ restarts' = restarts + 1
    /\ orphans' = orphans \cup {h \in Handles : Live(h)}
    /\ current' = None
    /\ watch' = [h \in Handles |-> "none"]
    /\ pc' = [t \in Threads |-> "idle"]
    /\ own' = [t \in Threads |-> None]
    /\ known' = [t \in Threads |-> {}]
    /\ ret' = [t \in Threads |-> "none"]
    /\ UNCHANGED <<stopRequested, notified, op, system, unsignalled>>

-----------------------------------------------------------------------------
(* The steps of a call that the manager takes without waiting for anybody   *)
(* but its own client.                                                      *)
CallStep(t) ==
    \/ PrepareFails(t) \/ Prepared(t)
    \/ TakeNone(t) \/ TakeCurrent(t)
    \/ SignalSent(t) \/ SignalFails(t)
    \/ StopTimeout(t) \/ Stopped(t)
    \/ StartFails(t) \/ \E h \in Handles : Start(t, h)
    \/ StartupExit(t) \/ StartupTimeout(t) \/ StartupAborted(t)
    \/ \E d \in Devices : Detected(t, d)

WatchStep(h) == WatchWake(h) \/ WatchNotify(h)

Next ==
    \/ \E t \in Threads : BeginActivate(t) \/ BeginDeactivate(t) \/ CallStep(t)
    \/ \E h \in Handles : WatchStep(h) \/ Reap(h) \/ ClientExits(h)
    \/ \E h \in Handles, d \in Devices : ClientOpensTun(h, d)
    \/ \E d \in Devices : RouterDevice(d)
    \/ Restart

\* Goroutines that can run do run, and a client that got SIGKILL exits.  No
\* client has to exit otherwise, and nobody has to call anything.
Fairness ==
    /\ \A t \in Threads : WF_vars(CallStep(t))
    /\ \A h \in Handles :
        /\ WF_vars(WatchStep(h))
        /\ WF_vars(Reap(h))
        /\ WF_vars(proc[h] = "killed" /\ ClientExits(h))

Spec     == Init /\ [][Next]_vars
FairSpec == Spec /\ Fairness

-----------------------------------------------------------------------------
(* What the manager promises.                                               *)

(* Every variable has its type, and a call that waits for a client holds    *)
(* that client's handle.                                                    *)
TypeOK ==
    /\ current \in Handles \cup {None}
    /\ stopRequested \in [Handles -> BOOLEAN]
    /\ proc \in [Handles -> ProcStates]
    /\ tun \in [Handles -> Devices \cup {None}]
    /\ watch \in [Handles -> WatchStates]
    /\ notified \subseteq Handles
    /\ pc \in [Threads -> PcStates]
    /\ op \in [Threads -> {"activate", "deactivate"}]
    /\ own \in [Threads -> Handles \cup {None}]
    /\ known \in [Threads -> SUBSET Devices]
    /\ ret \in [Threads -> Outcomes]
    /\ devices \subseteq Devices
    /\ restarts \in 0 .. MaxRestarts
    /\ orphans \subseteq Handles
    /\ unsignalled \subseteq Handles
    /\ \A t \in Threads : pc[t] \in Stopping \cup Starting => own[t] \in Handles

\* The manager lets h run: it was not asked to stop, and no crash hides it.
Serving(h) == Live(h) /\ ~stopRequested[h] /\ h \notin orphans

(* A manager process never lets two clients run: a new one is started only  *)
(* when the old one was taken out of m.current and asked to stop, even when *)
(* Shutdown, an operation and the exit of a client interleave.              *)
SingleClient == \A g, h \in Handles : Serving(g) /\ Serving(h) => g = h

(* A client process that runs is never forgotten: it is m.current, or some  *)
(* call holds its handle and will wait for its end.  The exceptions are the *)
(* two the code has: the manager process ended, or SIGTERM was refused.     *)
NoLostClient ==
    \A h \in Handles : Live(h) =>
        \/ current = h
        \/ h \in orphans \cup unsignalled
        \/ \E t \in Threads : own[t] = h /\ pc[t] \in Stopping \cup Starting

(* onUnexpectedExit never hears of a client that Deactivate asked to stop,  *)
(* whichever of watch and Deactivate takes the mutex first.                 *)
StopIsSilent == \A h \in notified : ~stopRequested[h]

(* A Deactivate that returned "stopped", and an Activate that failed after  *)
(* it had stopped the old client or started the new one, leave the process  *)
(* they dealt with finished and waited for.                                 *)
ReturnMeansGone ==
    \A t \in Threads :
        pc[t] = "idle" /\ ret[t] \in {"stopped", "failed"} /\ own[t] # None
            => proc[own[t]] = "done"

(* m.current stops pointing to a client only because it was asked to stop,  *)
(* because it is done, or because the manager process ends: a late watch of *)
(* an older client never drops a newer one.                                 *)
ForgetOnlyStopped ==
    [][\A h \in Handles :
        current = h /\ current' # h =>
            stopRequested'[h] \/ proc[h] = "done" \/ restarts' # restarts]_vars

(* A client that was published and exits unasked is reported, unless        *)
(* somebody still asks it to stop before watch looks or the manager ends.   *)
ExitReported ==
    \A h \in Handles :
        (watch[h] = "waiting" /\ proc[h] = "dead") ~>
            (h \in notified \/ stopRequested[h] \/ watch[h] = "none")

(* Every Activate and every Deactivate returns: the startup loop and the    *)
(* wait after SIGTERM both end in SIGKILL.                                  *)
OperationsReturn == \A t \in Threads : pc[t] # "idle" ~> pc[t] = "idle"

-----------------------------------------------------------------------------
(* The abstract specification that this module implements.                  *)

\* What a handle looks like from outside.
PhaseOf(h) ==
    CASE proc[h] = "free" -> "unused"
      [] proc[h] # "free" /\ h \in orphans -> "abandoned"
      [] Live(h) /\ h \notin orphans -> IF stopRequested[h] THEN "asked" ELSE "serving"
      [] OTHER -> IF h \in notified THEN "reported"
                  ELSE IF stopRequested[h] THEN "gone" ELSE "exited"

Phase == [h \in Handles |-> PhaseOf(h)]

Slot == INSTANCE ClientSlot WITH Clients <- Handles, phase <- Phase

(* The mutexes, channels, signals and timeouts of the manager add up to the *)
(* slot that App works with: every step of any goroutine is a step of the   *)
(* slot or none at all.                                                     *)
ImplementsSlot == Slot!Spec

-----------------------------------------------------------------------------
(* A statement of the code that it does not keep.                           *)

(* app.go, comment on the NDMS sync: the router creates the tun device on   *)
(* registration and hysteria attaches to it.  The device of such a client   *)
(* is one the startup loop was told to ignore.                              *)
AttachedClientDetectable ==
    \A t \in Threads :
        pc[t] = "detect" /\ Live(own[t]) /\ tun[own[t]] # None
            => tun[own[t]] \notin known[t]

=============================================================================
