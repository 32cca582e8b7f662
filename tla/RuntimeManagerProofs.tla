------------------------ MODULE RuntimeManagerProofs ------------------------
(***************************************************************************)
(* Proofs about RuntimeManager, for any number of operations, handles,     *)
(* devices and restarts.                                                   *)
(*                                                                         *)
(* IInv is inductive.  Around the promises NoLostClient and                *)
(* ReturnMeansGone it says who may hold a handle in which state: a         *)
(* published client is m.current, a client that starts or stops is local   *)
(* to one call, and a.mu keeps the calls that overwrite either apart.  *)
(***************************************************************************)
EXTENDS RuntimeManager, TLAPS

\* a.mu: one operation at a time, and only operations activate.
Serial ==
    /\ \A t, u \in Ops : pc[t] # "idle" /\ pc[u] # "idle" => t = u
    /\ \A t \in Threads : op[t] = "activate" => t \in Ops
    /\ \A t \in Threads :
        pc[t] \in {"prepare", "start"} \cup Starting => op[t] = "activate"

\* The current client was published and is watched; an operation that is past
\* the mutex section of Deactivate has emptied the slot.
CurrentOK ==
    /\ \A h \in Handles : current = h =>
        /\ proc[h] # "free"
        /\ ~stopRequested[h]
        /\ h \notin orphans
        /\ watch[h] = "waiting"
    /\ \A t \in Ops :
        pc[t] \in {"start"} \cup Stopping \cup Starting => current = None

\* What a call knows about the handle in its local variable.
OwnOK ==
    \A t \in Threads :
        /\ pc[t] \in {"prepare", "take"} => own[t] = None
        /\ pc[t] \in Stopping =>
            stopRequested[own[t]] /\ proc[own[t]] # "free"
        /\ pc[t] = "start" => own[t] = None \/ proc[own[t]] = "done"
        /\ pc[t] \in Starting =>
            /\ ~stopRequested[own[t]]
            /\ proc[own[t]] # "free"
            /\ own[t] \notin orphans \cup notified
            /\ watch[own[t]] = "none"

\* A handle that was never used has left no trace.
FreshOK ==
    \A h \in Handles : proc[h] = "free" =>
        ~stopRequested[h] /\ h \notin orphans \cup notified /\ watch[h] = "none"

\* A client whose exit is or was reported is done, was not asked to stop and is
\* not the current one any more.
ToldOK ==
    \A h \in Handles : watch[h] = "notify" \/ h \in notified =>
        ~stopRequested[h] /\ proc[h] = "done" /\ current # h

UnsignalledOK == \A h \in unsignalled : stopRequested[h]

IInv ==
    /\ TypeOK
    /\ Serial
    /\ CurrentOK
    /\ OwnOK
    /\ FreshOK
    /\ ToldOK
    /\ UnsignalledOK
    /\ NoLostClient
    /\ ReturnMeansGone

-----------------------------------------------------------------------------
(* The initial state satisfies IInv: nothing has run yet.                   *)
LEMMA InitIInv == Init => IInv
  BY ConstantsAssumption
  DEF Init, IInv, TypeOK, Serial, CurrentOK, OwnOK, FreshOK, ToldOK, UnsignalledOK,
      NoLostClient, ReturnMeansGone, Live, Stopping, Starting, Threads,
      ProcStates, WatchStates, PcStates, Outcomes

(* Every step of a caller, of a watch goroutine, of a client process, of the *)
(* router and of the init system preserves IInv.                            *)
LEMMA StepIInv == IInv /\ [Next]_vars => IInv'
<1> SUFFICES ASSUME IInv, [Next]_vars PROVE IInv'
  OBVIOUS
<1> USE ConstantsAssumption
    DEF Threads, ProcStates, WatchStates, PcStates, Outcomes, Live, Stopping, Starting,
        Goto, IInv, TypeOK, Serial, CurrentOK, OwnOK, FreshOK, ToldOK, UnsignalledOK,
        NoLostClient, ReturnMeansGone
<1>1. ASSUME NEW t \in Threads, BeginActivate(t) PROVE IInv'
  BY <1>1 DEF BeginActivate, Call, MuFree, clients, system, ghosts
<1>2. ASSUME NEW t \in Threads, BeginDeactivate(t) PROVE IInv'
  BY <1>2 DEF BeginDeactivate, Call, MuFree, clients, system, ghosts
<1>3. ASSUME NEW t \in Threads, PrepareFails(t) PROVE IInv'
  BY <1>3 DEF PrepareFails, Return, clients, system, ghosts
<1>4. ASSUME NEW t \in Threads, Prepared(t) PROVE IInv'
  BY <1>4 DEF Prepared, clients, system, ghosts
<1>5. ASSUME NEW t \in Threads, TakeNone(t) PROVE IInv'
  BY <1>5 DEF TakeNone, AfterStop, Return, clients, system, ghosts
<1>6. ASSUME NEW t \in Threads, TakeCurrent(t) PROVE IInv'
  BY <1>6 DEF TakeCurrent, system, ghosts
<1>7. ASSUME NEW t \in Threads, SignalSent(t) PROVE IInv'
  BY <1>7 DEF SignalSent, clients, system, ghosts
<1>8. ASSUME NEW t \in Threads, SignalFails(t) PROVE IInv'
  BY <1>8 DEF SignalFails, Return, clients, system
<1>9. ASSUME NEW t \in Threads, StopTimeout(t) PROVE IInv'
  BY <1>9 DEF StopTimeout, Kill, clients, ghosts
<1>10. ASSUME NEW t \in Threads, Stopped(t) PROVE IInv'
  BY <1>10 DEF Stopped, AfterStop, Return, clients, system, ghosts
<1>11. ASSUME NEW t \in Threads, StartFails(t) PROVE IInv'
  BY <1>11 DEF StartFails, Return, clients, system, ghosts
<1>12. ASSUME NEW t \in Threads, NEW h \in Handles, Start(t, h) PROVE IInv'
  BY <1>12 DEF Start, clients, ghosts
<1>13. ASSUME NEW t \in Threads, StartupExit(t) PROVE IInv'
  BY <1>13 DEF StartupExit, Return, clients, system, ghosts
<1>14. ASSUME NEW t \in Threads, StartupTimeout(t) PROVE IInv'
  BY <1>14 DEF StartupTimeout, Kill, clients, ghosts
<1>15. ASSUME NEW t \in Threads, StartupAborted(t) PROVE IInv'
  BY <1>15 DEF StartupAborted, Return, clients, system, ghosts
<1>16. ASSUME NEW t \in Threads, NEW d \in Devices, Detected(t, d) PROVE IInv'
  BY <1>16 DEF Detected, Return, system, ghosts
<1>17. ASSUME NEW h \in Handles, WatchWake(h) PROVE IInv'
  BY <1>17 DEF WatchWake, system, callers, ghosts
<1>18. ASSUME NEW h \in Handles, WatchNotify(h) PROVE IInv'
  BY <1>18 DEF WatchNotify, system, callers, ghosts
<1>19. ASSUME NEW h \in Handles, Reap(h) PROVE IInv'
  BY <1>19 DEF Reap, clients, callers, ghosts
<1>20. ASSUME NEW h \in Handles, ClientExits(h) PROVE IInv'
  BY <1>20 DEF ClientExits, clients, callers, ghosts
<1>21. ASSUME NEW h \in Handles, NEW d \in Devices, ClientOpensTun(h, d) PROVE IInv'
  BY <1>21 DEF ClientOpensTun, clients, callers, ghosts
<1>22. ASSUME NEW d \in Devices, RouterDevice(d) PROVE IInv'
  BY <1>22 DEF RouterDevice, clients, callers, ghosts
<1>23. ASSUME Restart PROVE IInv'
  BY <1>23 DEF Restart, system
<1>24. CASE UNCHANGED vars
  BY <1>24 DEF vars, clients, system, callers, ghosts
<1> HIDE DEF IInv, TypeOK, Serial, CurrentOK, OwnOK, FreshOK, ToldOK, UnsignalledOK,
        NoLostClient, ReturnMeansGone
<1>. QED
  BY <1>1, <1>2, <1>3, <1>4, <1>5, <1>6, <1>7, <1>8, <1>9, <1>10, <1>11, <1>12,
     <1>13, <1>14, <1>15, <1>16, <1>17, <1>18, <1>19, <1>20, <1>21, <1>22, <1>23, <1>24
  DEF Next, CallStep, WatchStep

THEOREM Invariance == Spec => []IInv
  BY InitIInv, StepIInv, PTL DEF Spec

-----------------------------------------------------------------------------
(* The promises.                                                            *)

(* Type correctness of the supervisor.                                      *)
THEOREM TypeCorrect == Spec => []TypeOK
<1>1. IInv => TypeOK
  BY DEF IInv
<1>. QED
  BY Invariance, <1>1, PTL

(* A running client is m.current or local to a call that waits for its end. *)
THEOREM NoClientIsLost == Spec => []NoLostClient
<1>1. IInv => NoLostClient
  BY DEF IInv
<1>. QED
  BY Invariance, <1>1, PTL

(* A client that serves is m.current or is being started by an operation.   *)
LEMMA ServingIsHeld ==
  ASSUME IInv, NEW h \in Handles, Serving(h)
  PROVE  \/ current = h
         \/ \E t \in Ops : own[t] = h /\ pc[t] \in Starting
<1>1. h \notin orphans \cup unsignalled
  BY DEF Serving, IInv, UnsignalledOK
<1>2. ASSUME NEW t \in Threads, own[t] = h, pc[t] \in Stopping \cup Starting
      PROVE  t \in Ops /\ pc[t] \in Starting
  BY <1>2 DEF Serving, IInv, OwnOK, Serial
<1>. QED
  BY <1>1, <1>2 DEF Serving, IInv, NoLostClient, Threads

(* At most one client runs that was not asked to stop: an operation that    *)
(* starts a client has found or made the slot empty, and a.mu keeps every   *)
(* other operation out.                                                     *)
THEOREM OnlyOneClient == Spec => []SingleClient
<1>1. IInv => SingleClient
  <2> SUFFICES ASSUME IInv, NEW g \in Handles, NEW h \in Handles, Serving(g), Serving(h)
               PROVE  g = h
    BY DEF SingleClient
  <2>1. CASE current = g \/ current = h
    BY <2>1, ServingIsHeld, ConstantsAssumption DEF IInv, CurrentOK
  <2>2. CASE current # g /\ current # h
    <3>1. PICK t \in Ops : own[t] = g /\ pc[t] \in Starting
      BY <2>2, ServingIsHeld
    <3>2. PICK u \in Ops : own[u] = h /\ pc[u] \in Starting
      BY <2>2, ServingIsHeld
    <3>3. t = u
      BY <3>1, <3>2 DEF IInv, Serial, Starting
    <3>. QED
      BY <3>1, <3>2, <3>3
  <2>. QED
    BY <2>1, <2>2
<1>. QED
  BY Invariance, <1>1, PTL

(* onUnexpectedExit never hears of a client that was asked to stop.         *)
THEOREM StopsAreSilent == Spec => []StopIsSilent
<1>1. IInv => StopIsSilent
  BY DEF IInv, TypeOK, ToldOK, StopIsSilent
<1>. QED
  BY Invariance, <1>1, PTL

(* "stopped" and "failed" mean that the process the call dealt with ended.  *)
THEOREM ReturnsMeanGone == Spec => []ReturnMeansGone
<1>1. IInv => ReturnMeansGone
  BY DEF IInv
<1>. QED
  BY Invariance, <1>1, PTL

(* m.current is only overwritten for a reason the client gave or was given. *)
THEOREM ForgetsOnlyStopped == Spec => ForgetOnlyStopped
<1> DEFINE Reason(h) == stopRequested'[h] \/ proc[h] = "done" \/ restarts' # restarts
<1>1. ASSUME IInv, Next, NEW h \in Handles, current = h, current' # h
      PROVE  Reason(h)
  <2>1. ASSUME NEW t \in Threads, TakeCurrent(t) PROVE Reason(h)
    BY <1>1, <2>1 DEF TakeCurrent, IInv, TypeOK
  <2>2. ASSUME NEW t \in Threads, NEW d \in Devices, Detected(t, d) PROVE FALSE
    BY <1>1, <2>2, ConstantsAssumption
    DEF Detected, IInv, Serial, CurrentOK, Starting, Threads
  <2>3. ASSUME NEW g \in Handles, WatchWake(g) PROVE Reason(h)
    BY <1>1, <2>3 DEF WatchWake
  <2>4. ASSUME Restart PROVE Reason(h)
    BY <2>4, <1>1 DEF Restart, IInv, TypeOK
  <2>5. ASSUME NEW t \in Threads,
               BeginActivate(t) \/ BeginDeactivate(t) \/ CallStep(t),
               ~TakeCurrent(t), ~\E d \in Devices : Detected(t, d)
        PROVE  current' = current
    BY <2>5 DEF BeginActivate, BeginDeactivate, Call, CallStep, PrepareFails, Prepared,
       TakeNone, SignalSent, SignalFails, StopTimeout, Stopped, StartFails, Start,
       StartupExit, StartupTimeout, StartupAborted, clients
  <2>6. ASSUME NEW g \in Handles, WatchNotify(g) \/ Reap(g) \/ ClientExits(g)
        PROVE  current' = current
    BY <2>6 DEF WatchNotify, Reap, ClientExits, clients
  <2>7. ASSUME NEW d \in Devices,
               RouterDevice(d) \/ \E g \in Handles : ClientOpensTun(g, d)
        PROVE  current' = current
    BY <2>7 DEF RouterDevice, ClientOpensTun, clients
  <2>. QED
    BY <1>1, <2>1, <2>2, <2>3, <2>4, <2>5, <2>6, <2>7 DEF Next, WatchStep
<1>2. IInv /\ [Next]_vars =>
        [\A h \in Handles :
            current = h /\ current' # h =>
                stopRequested'[h] \/ proc[h] = "done" \/ restarts' # restarts]_vars
  BY <1>1
<1>. QED
  BY Invariance, <1>2, PTL DEF Spec, ForgetOnlyStopped

-----------------------------------------------------------------------------
(* The slot.                                                                *)

(* The phase of a client depends on four things, and only for itself.       *)
LEMMA PhaseKept ==
  ASSUME IInv, NEW h \in Handles,
         orphans' = orphans, stopRequested'[h] = stopRequested[h],
         h \in notified' <=> h \in notified,
         \/ proc'[h] = proc[h]
         \/ proc[h] = "alive" /\ proc'[h] = "killed"
         \/ proc[h] = "dead" /\ proc'[h] = "done"
  PROVE  PhaseOf(h)' = PhaseOf(h)
  BY DEF PhaseOf, Live

(* A step that changes the phase of one client at most is a move of it.     *)
LEMMA PhaseMoves ==
  ASSUME NEW h \in Handles, \A g \in Handles \ {h} : PhaseOf(g)' = PhaseOf(g),
         NEW from, NEW to, PhaseOf(h) = from, PhaseOf(h)' = to
  PROVE  Slot!Move(h, from, to)
  BY DEF Slot!Move, Phase

(* The manager implements the slot: what each of its steps does to the      *)
(* phases of the clients is a step of ClientSlot or nothing.                *)
THEOREM SlotImplemented == Spec => ImplementsSlot
<1>1. ASSUME Init PROVE Slot!Init
  <2>1. ASSUME NEW h \in Handles PROVE PhaseOf(h) = "unused"
    BY <1>1 DEF Init, PhaseOf, Live
  <2>. QED
    BY <2>1 DEF Slot!Init, Phase
<1>2. ASSUME IInv, Next PROVE Slot!Next \/ Phase' = Phase
  <2> USE <1>2
  <2> DEFINE Same == \A h \in Handles : PhaseOf(h)' = PhaseOf(h)
  <2>0. Same => Phase' = Phase
    BY DEF Phase
  <2>1. ASSUME NEW t \in Threads, NEW h \in Handles, Start(t, h) PROVE Slot!Next
    <3>1. PhaseOf(h) = "unused" /\ PhaseOf(h)' = "serving"
      BY <2>1 DEF Start, clients, ghosts, IInv, TypeOK, FreshOK, PhaseOf, Live
    <3>2. ASSUME NEW g \in Handles \ {h} PROVE PhaseOf(g)' = PhaseOf(g)
      BY <2>1, <3>2, PhaseKept DEF Start, clients, ghosts, IInv, TypeOK
    <3>3. ASSUME NEW g \in Handles PROVE PhaseOf(g) # "serving"
      <4>1. t \in Ops /\ current = None
        BY <2>1, ConstantsAssumption DEF Start, IInv, Serial, CurrentOK, Threads
      <4>2. \A u \in Ops : pc[u] \notin Starting
        BY <2>1, <4>1 DEF Start, IInv, Serial, Starting
      <4>3. ~Serving(g)
        BY <4>1, <4>2, ServingIsHeld, ConstantsAssumption DEF IInv
      <4>. QED
        BY <4>3 DEF PhaseOf, Serving
    <3>4. Slot!Move(h, "unused", "serving")
      BY <3>1, <3>2, PhaseMoves
    <3>. QED
      BY <3>3, <3>4 DEF Slot!Next, Slot!Start, Phase
  <2>2. ASSUME NEW t \in Threads, NEW h \in Handles, h = current, TakeCurrent(t)
        PROVE  Slot!Next
    <3>1. proc[h] # "free" /\ ~stopRequested[h] /\ h \notin orphans \cup notified
      BY <2>2 DEF IInv, CurrentOK, ToldOK
    <3>2. stopRequested'[h] /\ UNCHANGED <<proc, orphans, notified>>
      BY <2>2 DEF TakeCurrent, system, ghosts, IInv, TypeOK
    <3>3. ASSUME NEW g \in Handles \ {h} PROVE PhaseOf(g)' = PhaseOf(g)
      BY <2>2, <3>2, <3>3, PhaseKept DEF TakeCurrent, IInv, TypeOK
    <3>4. CASE Live(h)
      <4>1. PhaseOf(h) = "serving" /\ PhaseOf(h)' = "asked"
        BY <3>1, <3>2, <3>4 DEF PhaseOf, Live
      <4>. QED
        BY <3>3, <4>1, PhaseMoves DEF Slot!Next, Slot!Ask
    <3>5. CASE ~Live(h)
      <4>1. PhaseOf(h) = "exited" /\ PhaseOf(h)' = "gone"
        BY <3>1, <3>2, <3>5 DEF PhaseOf, Live
      <4>. QED
        BY <3>3, <4>1, PhaseMoves DEF Slot!Next, Slot!Ask
    <3>. QED
      BY <3>4, <3>5
  <2>3. ASSUME NEW h \in Handles, ClientExits(h) PROVE Slot!Next \/ Same
    <3>1. Live(h) /\ proc'[h] = "dead" /\ UNCHANGED <<orphans, stopRequested, notified>>
      BY <2>3 DEF ClientExits, clients, ghosts, IInv, TypeOK
    <3>2. ASSUME NEW g \in Handles \ {h} PROVE PhaseOf(g)' = PhaseOf(g)
      BY <2>3, <3>2, PhaseKept DEF ClientExits, clients, ghosts, IInv, TypeOK
    <3>3. h \notin notified
      BY <3>1 DEF IInv, ToldOK, Live
    <3>4. CASE h \in orphans
      BY <3>1, <3>2, <3>4 DEF PhaseOf, Live
    <3>5. CASE h \notin orphans /\ stopRequested[h]
      <4>1. PhaseOf(h) = "asked" /\ PhaseOf(h)' = "gone"
        BY <3>1, <3>3, <3>5 DEF PhaseOf, Live
      <4>. QED
        BY <3>2, <4>1, PhaseMoves DEF Slot!Next, Slot!End
    <3>6. CASE h \notin orphans /\ ~stopRequested[h]
      <4>1. PhaseOf(h) = "serving" /\ PhaseOf(h)' = "exited"
        BY <3>1, <3>3, <3>6 DEF PhaseOf, Live, IInv, TypeOK
      <4>. QED
        BY <3>2, <4>1, PhaseMoves DEF Slot!Next, Slot!End
    <3>. QED
      BY <3>4, <3>5, <3>6
  <2>4. ASSUME NEW h \in Handles, WatchNotify(h) PROVE Slot!Next \/ Same
    <3>1. /\ notified' = notified \cup {h} /\ proc[h] = "done" /\ ~stopRequested[h]
          /\ UNCHANGED <<proc, orphans, stopRequested>>
      BY <2>4 DEF WatchNotify, system, ghosts, IInv, ToldOK
    <3>2. ASSUME NEW g \in Handles \ {h} PROVE PhaseOf(g)' = PhaseOf(g)
      BY <3>1, <3>2, PhaseKept
    <3>3. CASE h \in orphans \cup notified
      BY <3>1, <3>2, <3>3 DEF PhaseOf, Live
    <3>4. CASE h \notin orphans \cup notified
      <4>1. PhaseOf(h) = "exited" /\ PhaseOf(h)' = "reported"
        BY <3>1, <3>4 DEF PhaseOf, Live
      <4>. QED
        BY <3>2, <4>1, PhaseMoves DEF Slot!Next, Slot!Report
    <3>. QED
      BY <3>3, <3>4
  <2>5. ASSUME Restart PROVE Slot!Next
    <3>1. /\ orphans' = orphans \cup {h \in Handles : Live(h)}
          /\ UNCHANGED <<proc, stopRequested, notified>>
      BY <2>5 DEF Restart, system
    <3>2. ASSUME NEW h \in Handles
          PROVE  PhaseOf(h)' = IF PhaseOf(h) \in {"serving", "asked"} THEN "abandoned"
                               ELSE PhaseOf(h)
      BY <3>1 DEF PhaseOf, Live
    <3>. QED
      BY <3>2 DEF Slot!Next, Slot!Abandon, Phase
  <2>6. ASSUME NEW t \in Threads, StopTimeout(t) \/ StartupTimeout(t) PROVE Same
    BY <2>6, PhaseKept DEF StopTimeout, StartupTimeout, Kill, clients, ghosts, IInv, TypeOK
  <2>7. ASSUME NEW h \in Handles, Reap(h) PROVE Same
    BY <2>7, PhaseKept DEF Reap, clients, ghosts, IInv, TypeOK
  <2>8. ASSUME NEW t \in Threads,
               \/ BeginActivate(t) \/ BeginDeactivate(t) \/ PrepareFails(t) \/ Prepared(t)
               \/ TakeNone(t) \/ SignalSent(t) \/ SignalFails(t) \/ Stopped(t)
               \/ StartFails(t) \/ StartupExit(t) \/ StartupAborted(t)
               \/ \E d \in Devices : Detected(t, d)
        PROVE  Same
    <3>1. UNCHANGED <<proc, orphans, stopRequested, notified>>
      BY <2>8 DEF BeginActivate, BeginDeactivate, Call, PrepareFails, Prepared, TakeNone,
         SignalSent, SignalFails, Stopped, StartFails, StartupExit, StartupAborted, Detected,
         clients, system, ghosts
    <3>. QED
      BY <3>1, PhaseKept
  <2>9. ASSUME \/ \E h \in Handles : WatchWake(h)
               \/ \E h \in Handles, d \in Devices : ClientOpensTun(h, d)
               \/ \E d \in Devices : RouterDevice(d)
        PROVE  Same
    <3>1. UNCHANGED <<proc, orphans, stopRequested, notified>>
      BY <2>9 DEF WatchWake, ClientOpensTun, RouterDevice, clients, system, ghosts
    <3>. QED
      BY <3>1, PhaseKept
  <2>10. ASSUME NEW t \in Threads, TakeCurrent(t) PROVE current \in Handles
    BY <2>10 DEF TakeCurrent, IInv, TypeOK
  <2> HIDE DEF Same
  <2>. QED
    BY <2>0, <2>10, <2>1, <2>2, <2>3, <2>4, <2>5, <2>6, <2>7, <2>8, <2>9 DEF Next, CallStep, WatchStep
<1>3. ASSUME UNCHANGED vars PROVE Phase' = Phase
  BY <1>3 DEF vars, clients, system, ghosts, Phase, PhaseOf, Live
<1>4. IInv /\ [Next]_vars => [Slot!Next]_Phase
  BY <1>2, <1>3
<1>. QED
  BY Invariance, <1>1, <1>4, PTL DEF Spec, ImplementsSlot, Slot!Spec
=============================================================================
