------------------------------ MODULE AppProofs ------------------------------
(***************************************************************************)
(* Proofs about App, for any tunnels, requests, exit handlers and bounds.  *)
(*                                                                         *)
(* StoreConsistent is not inductive: an activation writes the tunnel it    *)
(* was asked for long after it checked that the subscription has it, and   *)
(* an import writes a whole snapshot back.  IInv adds what keeps both      *)
(* right: between its first and its last step a request holds a.mu, and    *)
(* only requests change which tunnels the subscription has.                *)
(***************************************************************************)
EXTENDS App, TLAPS

\* Between the check of the tunnel and the write that makes it active.
Activating ==
    {"resetRoutes", "cleanup", "stopOld", "start", "switchRoutes", "undo", "storeError",
     "storeRunning"}

\* A request that is past Lock holds a.mu.
MuOK == \A r \in Requests : pc[r] \notin {"idle", "lock"} => mu = r

\* The tunnel that is being activated is in the subscription.
ActivatingOK ==
    \A r \in Requests : pc[r] \in Activating =>
        op[r].tunnel \in Tunnels /\ mem.profile[op[r].tunnel] = "present"

\* A request that was accepted is known, and a snapshot that is still used is
\* there; one that will be written back is consistent.
OpOK == \A r \in Requests : pc[r] # "idle" => op[r] \in RequestSet

SnapOK ==
    \A r \in Requests :
        /\ pc[r] \in {"replace", "newHWID", "oldRoutes", "storeRouting", "recreate", "reapply"} =>
            snap[r] \in States
        /\ pc[r] \in {"replace", "newHWID"} => Agrees(snap[r])

\* Requests end with the process.
DownOK == host = "down" => \A r \in Requests : pc[r] = "idle"

IInv ==
    /\ TypeOK
    /\ MuOK
    /\ OpOK
    /\ ActivatingOK
    /\ SnapOK
    /\ DownOK
    /\ StoreConsistent

-----------------------------------------------------------------------------
(* What the writes make of a consistent state.                              *)

(* Clearing the runtime fields keeps the state consistent.                  *)
LEMMA ClearedAgrees ==
  ASSUME NEW st \in States, Agrees(st), NEW s \in {"stopped", "error"}
  PROVE  /\ Cleared(st, s) \in States
         /\ Agrees(Cleared(st, s))
         /\ Cleared(st, s).profile = st.profile
  BY ConstantsAssumption DEF Cleared, Agrees, States

(* Making a tunnel of the subscription the active one does, too.            *)
LEMMA RunningAgrees ==
  ASSUME NEW st \in States, Agrees(st), NEW t \in Tunnels, st.profile[t] = "present"
  PROVE  /\ Running(st, t) \in States
         /\ Agrees(Running(st, t))
         /\ Running(st, t).profile = st.profile
  BY ConstantsAssumption DEF Running, Agrees, States

(* A merge keeps the active tunnel only if the subscription still has it.   *)
LEMMA MergedAgrees ==
  ASSUME NEW st \in States, Agrees(st), NEW fresh \in SUBSET Tunnels
  PROVE  Merged(st, fresh) \in States /\ Agrees(Merged(st, fresh))
<1> DEFINE profile == [t \in Tunnels |->
                IF t \in fresh THEN "present"
                ELSE IF st.profile[t] = "absent" THEN "absent" ELSE "missing"]
           merged == [st EXCEPT !.profile = profile, !.flags = @ \cap fresh]
<1>1. profile \in [Tunnels -> {"absent", "present", "missing"}]
  OBVIOUS
<1>2. \A t \in fresh : profile[t] = "present"
  OBVIOUS
<1> HIDE DEF profile
<1>3. merged \in States
  BY <1>1 DEF States
<1>4. CASE st.active \in fresh \cup {None}
  <2>1. merged.flags = {st.active} \ {None} /\ merged.active = st.active
        /\ merged.state = st.state /\ merged.profile = profile
    BY <1>4 DEF States, Agrees
  <2>2. Agrees(merged)
    BY <1>2, <1>4, <2>1 DEF Agrees
  <2>3. Merged(st, fresh) = merged
    BY <1>4 DEF Merged, profile
  <2>. QED
    BY <1>3, <2>2, <2>3
<1>5. CASE st.active \notin fresh \cup {None}
  <2>1. Merged(st, fresh) = Cleared(merged, "stopped")
    BY <1>5 DEF Merged, profile
  <2>2. Cleared(merged, "stopped") \in States /\ Agrees(Cleared(merged, "stopped"))
    BY <1>3, ConstantsAssumption DEF Cleared, Agrees, States
  <2>. QED
    BY <2>1, <2>2
<1>. QED
  BY <1>4, <1>5

(* The other fields have no part in it.                                     *)
LEMMA SettingsAgree ==
  ASSUME NEW st \in States, Agrees(st), NEW next \in States,
         next.state = st.state, next.active = st.active, next.flags = st.flags,
         next.profile = st.profile
  PROVE  Agrees(next)
  BY DEF Agrees

LEMMA SettingsTyped ==
  ASSUME NEW st \in States, NEW m \in Modes, NEW u \in {"unset", "set"}
  PROVE  /\ [st EXCEPT !.mode = m] \in States
         /\ [st EXCEPT !.url = u] \in States
         /\ [st EXCEPT !.hwid = "set"] \in States
         /\ [st EXCEPT !.url = u, !.hwid = "set"] \in States
  BY DEF States

-----------------------------------------------------------------------------
(* What the requests are.                                                   *)

LEMMA RequestsTyped ==
  /\ \A t \in Tunnels :
        Request("activate", t, None) \in RequestSet /\ Request("hookDown", t, None) \in RequestSet
  /\ \A kind \in {"deactivate", "import", "refresh"} : Request(kind, None, None) \in RequestSet
  /\ \A m \in Modes \cup {"invalid", None} : Request("routing", None, m) \in RequestSet
  BY DEF Request, RequestSet

LEMMA RequestFields ==
  ASSUME NEW q \in RequestSet
  PROVE  /\ q.kind \in {"activate", "hookDown", "deactivate", "import", "refresh", "routing"}
         /\ q.kind = "activate" => q.tunnel \in Tunnels
         /\ q.mode \in Modes \cup {"invalid", None}
  BY DEF RequestSet

(* The arrival of a request preserves IInv.                                 *)
LEMMA ArriveIInv ==
  ASSUME IInv, NEW r \in Requests, NEW q \in RequestSet, Arrive(r, q),
         bootPc' \in {"restore", "done"}
  PROVE  IInv'
<1> USE DEF IInv, store, runtime, routes, ghosts, reasons
<1>1. /\ host = "up" /\ pc[r] = "idle"
      /\ pc' = [pc EXCEPT ![r] = "lock"]
      /\ op' = [op EXCEPT ![r] = q]
      /\ UNCHANGED <<store, strategy, mu, snap, exitPc, stopPc, host, runtime, routes, faults,
                     ghosts, reasons>>
  BY DEF Arrive, Goto
<1>2. \A s \in Requests : s # r => pc'[s] = pc[s] /\ op'[s] = op[s]
  BY <1>1 DEF TypeOK
<1>3. pc'[r] = "lock" /\ op'[r] = q
  BY <1>1 DEF TypeOK
<1>4. TypeOK'
  BY <1>1 DEF TypeOK, PcStates
<1>5. MuOK' /\ OpOK' /\ DownOK'
  BY <1>1, <1>2, <1>3 DEF MuOK, OpOK, DownOK
<1>6. ActivatingOK' /\ SnapOK'
  BY <1>1, <1>2, <1>3 DEF ActivatingOK, SnapOK, Activating
<1>7. StoreConsistent'
  BY <1>1 DEF StoreConsistent
<1>. QED
  BY <1>4, <1>5, <1>6, <1>7

-----------------------------------------------------------------------------
LEMMA InitIInv == Init => IInv
  BY ConstantsAssumption
  DEF Init, DefaultState, IInv, TypeOK, MuOK, OpOK, ActivatingOK, SnapOK, DownOK, StoreConsistent,
      Agrees, States, Modes, PcStates, Activating

(* Every step of a request, of an exit handler, of Shutdown, of the client  *)
(* and of the process preserves IInv.                                       *)
LEMMA StepIInv == IInv /\ [Next]_vars => IInv'
<1> SUFFICES ASSUME IInv, [Next]_vars PROVE IInv'
  OBVIOUS
<1> USE ConstantsAssumption
    DEF IInv, TypeOK, MuOK, OpOK, ActivatingOK, SnapOK, DownOK, StoreConsistent, PcStates,
        Activating, Modes, store, runtime, routes, ghosts, reasons
<1>1. ASSUME NEW r \in Requests, Api(r) PROVE IInv'
  <2>1. PICK q \in RequestSet : Arrive(r, q)
    BY <1>1, RequestsTyped DEF Api
  <2>2. bootPc' = bootPc
    BY <1>1 DEF Api
  <2>. QED
    BY <2>1, <2>2, ArriveIInv
<1>2. ASSUME NEW r \in Requests, NEW t \in Tunnels, Hook(r, t) PROVE IInv'
  <2>1. PICK q \in RequestSet : Arrive(r, q)
    BY <1>2, RequestsTyped DEF Hook
  <2>2. bootPc' = bootPc
    BY <1>2 DEF Hook
  <2>. QED
    BY <2>1, <2>2, ArriveIInv
<1>3. ASSUME NEW r \in Requests, Restore(r) PROVE IInv'
  <2>1. mem.active \in Tunnels
    BY <1>3 DEF Restore, States
  <2>2. PICK q \in RequestSet : Arrive(r, q)
    BY <1>3, <2>1, RequestsTyped DEF Restore
  <2>3. bootPc' = "done"
    BY <1>3 DEF Restore
  <2>. QED
    BY <2>2, <2>3, ArriveIInv
<1>4. ASSUME NothingToRestore PROVE IInv'
  BY <1>4 DEF NothingToRestore, thread
<1>5. ASSUME NEW r \in Requests, Lock(r) PROVE IInv'
  <2>1. op[r] \in RequestSet
    BY <1>5 DEF Lock
  <2>2. CASE Refused(op[r])
    BY <1>5, <2>2 DEF Lock, Done, Goto, process
  <2>3. CASE ~Refused(op[r])
    <3> DEFINE first == FirstStep(op[r])
    <3>1. /\ first \in PcStates
          /\ first \in Activating =>
                op[r].tunnel \in Tunnels /\ mem.profile[op[r].tunnel] = "present"
          /\ first \in {"replace", "newHWID", "oldRoutes", "storeRouting", "recreate", "reapply"} =>
                op[r].kind \in {"import", "refresh", "routing"}
      BY <2>1, <2>3, RequestFields DEF FirstStep, RefreshStep, Refused
    <3> HIDE DEF first
    <3>2. /\ mu' = r
          /\ pc' = [pc EXCEPT ![r] = first]
          /\ snap' = [snap EXCEPT ![r] =
                IF op[r].kind \in {"import", "refresh", "routing"} THEN mem ELSE None]
          /\ UNCHANGED op
      BY <1>5, <2>3 DEF Lock, Goto, first
    <3>3. mu = None /\ UNCHANGED <<store, strategy, process, runtime, routes, faults, ghosts, reasons>>
      BY <1>5 DEF Lock
    <3>4. MuOK' /\ OpOK' /\ DownOK'
      BY <2>1, <3>2, <3>3, <1>5 DEF Lock, process
    <3>5. \A s \in Requests : s # r => pc[s] \in {"idle", "lock"} /\ pc'[s] = pc[s]
      BY <3>2, <3>3
    <3>6. ActivatingOK' /\ SnapOK'
      BY <3>1, <3>2, <3>3, <3>5
    <3>7. TypeOK' /\ StoreConsistent'
      BY <3>1, <3>2, <3>3 DEF process
    <3>. QED
      BY <3>4, <3>5, <3>6, <3>7
  <2>. QED
    BY <2>2, <2>3
<1>6. ASSUME NEW r \in Requests, ResetRoutes(r) PROVE IInv'
  BY <1>6 DEF ResetRoutes, RoutesOff, Fail, Continue, Goto, process
<1>7. ASSUME NEW r \in Requests, Cleanup(r) PROVE IInv'
  BY <1>7 DEF Cleanup, DevicesOff, Fail, Continue, Done, Goto, process
<1>8. ASSUME NEW r \in Requests, StopOld(r) PROVE IInv'
  BY <1>8 DEF StopOld, ClientOff, Fail, Continue, Goto, process
<1>9. ASSUME NEW r \in Requests, Start(r) PROVE IInv'
  BY <1>9 DEF Start, Fail, Continue, Goto, process
<1>10. ASSUME NEW r \in Requests, SwitchRoutes(r) PROVE IInv'
  BY <1>10 DEF SwitchRoutes, RoutesOn, RoutesOnFails, Fail, Continue, Goto, process
<1>11. ASSUME NEW r \in Requests, Undo(r) PROVE IInv'
  BY <1>11 DEF Undo, ClientOff, Continue, Goto, process
<1>12. ASSUME NEW r \in Requests, StoreError(r) PROVE IInv'
  <2>1. mem' = Cleared(mem, "error") /\ disk' \in {disk, mem'}
    BY <1>12 DEF StoreError, Save, SaveFails
  <2>2. mem' \in States /\ Agrees(mem)' /\ mem'.profile = mem.profile
    BY <2>1, ClearedAgrees DEF Agrees
  <2>3. disk' \in States /\ Agrees(disk)'
    BY <2>1, <2>2 DEF Agrees
  <2>. QED
    BY <1>12, <2>2, <2>3 DEF StoreError, Save, SaveFails, Fail, Claim, Done, Goto, process
<1>13. ASSUME NEW r \in Requests, StoreRunning(r) PROVE IInv'
  <2>1. mem' = Running(mem, op[r].tunnel) /\ disk' \in {disk, mem'}
    BY <1>13 DEF StoreRunning, Save, SaveFails
  <2>2. mem' \in States /\ Agrees(mem)' /\ mem'.profile = mem.profile
    BY <1>13, <2>1, RunningAgrees DEF StoreRunning, Agrees
  <2>3. disk' \in States /\ Agrees(disk)'
    BY <2>1, <2>2 DEF Agrees
  <2>. QED
    BY <1>13, <2>2, <2>3 DEF StoreRunning, Save, SaveFails, Fail, Claim, Done, Goto, process
<1>14. ASSUME NEW r \in Requests, DropRoutes(r) PROVE IInv'
  BY <1>14 DEF DropRoutes, RoutesOff, Fail, Continue, Goto, process
<1>15. ASSUME NEW r \in Requests, Stop(r) PROVE IInv'
  BY <1>15 DEF Stop, ClientOff, Fail, Continue, Done, Goto, process
<1>16. ASSUME NEW r \in Requests, StoreStopped(r) PROVE IInv'
  <2>1. mem' = Cleared(mem, "stopped") /\ disk' \in {disk, mem'}
    BY <1>16 DEF StoreStopped, Save, SaveFails
  <2>2. mem' \in States /\ Agrees(mem)' /\ mem'.profile = mem.profile
    BY <2>1, ClearedAgrees DEF Agrees
  <2>3. disk' \in States /\ Agrees(disk)'
    BY <2>1, <2>2 DEF Agrees
  <2>. QED
    BY <1>16, <2>2, <2>3 DEF StoreStopped, Save, SaveFails, Fail, Claim, Done, Goto, process
<1>17. ASSUME NEW r \in Requests, ImportReplace(r) PROVE IInv'
  <2> DEFINE next == [snap[r] EXCEPT !.url = "set", !.hwid = "set"]
  <2>1. pc[r] \in {"replace", "newHWID"} /\ WriteBack(r, next, "readBack")
    BY <1>17 DEF ImportReplace
  <2>2. snap[r] \in States /\ Agrees(snap[r])
    BY <2>1
  <2>3. next \in States /\ Agrees(next)
    <3>1. next \in States
      BY <2>2, SettingsTyped
    <3>2. /\ next.state = snap[r].state /\ next.active = snap[r].active
          /\ next.flags = snap[r].flags /\ next.profile = snap[r].profile
      BY <2>2 DEF States
    <3>. QED
      BY <2>2, <3>1, <3>2, SettingsAgree
  <2> HIDE DEF next
  <2>4. mem' = next /\ disk' \in {disk, next}
    BY <2>1 DEF WriteBack, Save, SaveFails
  <2>5. mem' \in States /\ disk' \in States /\ Agrees(mem)' /\ Agrees(disk)'
    BY <2>3, <2>4 DEF Agrees
  <2>. QED
    BY <2>1, <2>3, <2>5 DEF WriteBack, Save, SaveFails, Fail, Claim, Done, Goto, process
<1>18. ASSUME NEW r \in Requests, RefreshReplace(r) PROVE IInv'
  <2> DEFINE next == [snap[r] EXCEPT !.hwid = "set"]
  <2>1. pc[r] \in {"replace", "newHWID"} /\ WriteBack(r, next, "fetch")
    BY <1>18 DEF RefreshReplace
  <2>2. snap[r] \in States /\ Agrees(snap[r])
    BY <2>1
  <2>3. next \in States /\ Agrees(next)
    <3>1. next \in States
      BY <2>2, SettingsTyped
    <3>2. /\ next.state = snap[r].state /\ next.active = snap[r].active
          /\ next.flags = snap[r].flags /\ next.profile = snap[r].profile
      BY <2>2 DEF States
    <3>. QED
      BY <2>2, <3>1, <3>2, SettingsAgree
  <2> HIDE DEF next
  <2>4. mem' = next /\ disk' \in {disk, next}
    BY <2>1 DEF WriteBack, Save, SaveFails
  <2>5. mem' \in States /\ disk' \in States /\ Agrees(mem)' /\ Agrees(disk)'
    BY <2>3, <2>4 DEF Agrees
  <2>. QED
    BY <2>1, <2>3, <2>5 DEF WriteBack, Save, SaveFails, Fail, Claim, Done, Goto, process
<1>41. ASSUME NEW r \in Requests, ReadBack(r) PROVE IInv'
  BY <1>41 DEF ReadBack, RefreshStep, Done, Goto, process
<1>19. ASSUME NEW r \in Requests, FetchFails(r) PROVE IInv'
  BY <1>19 DEF FetchFails, Save, SaveFails, Fail, Done, Goto, process
<1>20. ASSUME NEW r \in Requests, NEW fresh \in SUBSET Tunnels, Merge(r, fresh) PROVE IInv'
  <2>1. mem' = Merged(mem, fresh) /\ disk' \in {disk, mem'}
    BY <1>20 DEF Merge, Save, SaveFails
  <2>2. mem' \in States /\ Agrees(mem)'
    BY <2>1, MergedAgrees DEF Agrees
  <2>3. disk' \in States /\ Agrees(disk)'
    BY <2>1, <2>2 DEF Agrees
  <2>4. /\ pc[r] = "fetch" /\ mu = r
        /\ pc' \in {[pc EXCEPT ![r] = "stopGone"], [pc EXCEPT ![r] = "idle"]}
        /\ pc'[r] # "idle" => UNCHANGED <<mu, op, snap>>
        /\ pc'[r] = "idle" => mu' = None /\ op' = [op EXCEPT ![r] = None]
                              /\ snap' = [snap EXCEPT ![r] = None]
        /\ faults' \in 0 .. MaxFaults
    BY <1>20 DEF Merge, Save, SaveFails, Fail, Continue, Done, Goto
  <2>5. /\ unbacked' \in {"none", unbacked}
        /\ stray' \in {"unsaved", stray}
        /\ left' \in {left, left \cup ({mem.active} \ {None})}
        /\ UNCHANGED <<strategy, process, runtime, routes, ghosts, bare>>
    BY <1>20 DEF Merge
  <2>6. left' \subseteq Tunnels
    BY <2>5 DEF States
  <2>7. \A s \in Requests : s # r => pc[s] \in {"idle", "lock"} /\ pc'[s] = pc[s]
                                   /\ op'[s] = op[s] /\ snap'[s] = snap[s]
    BY <2>4
  <2>8. TypeOK'
    BY <2>2, <2>3, <2>4, <2>5, <2>6 DEF process
  <2>9. MuOK' /\ OpOK' /\ ActivatingOK' /\ SnapOK' /\ DownOK'
    BY <2>4, <2>5, <2>7 DEF process
  <2>. QED
    BY <2>2, <2>3, <2>8, <2>9
<1>21. ASSUME NEW r \in Requests, StopGone(r) PROVE IInv'
  BY <1>21 DEF StopGone, ClientOff, Done, Goto, process
<1>22. ASSUME PatchSettings PROVE IInv'
  <2>1. PICK next \in {[mem EXCEPT !.url = u] : u \in {"unset", "set"}}
                        \cup {[mem EXCEPT !.hwid = "set"]} :
          Save(next) \/ SaveFails(next)
    BY <1>22 DEF PatchSettings
  <2>2. next \in States /\ Agrees(next) /\ next.profile = mem.profile
    BY <2>1 DEF States, Agrees
  <2>3. mem' = next /\ disk' \in {disk, next}
    BY <2>1 DEF Save, SaveFails
  <2>4. mem' \in States /\ disk' \in States /\ Agrees(mem)' /\ Agrees(disk)'
    BY <2>2, <2>3 DEF Agrees
  <2>. QED
    BY <1>22, <2>1, <2>2, <2>3, <2>4 DEF PatchSettings, Save, SaveFails, Fail, thread, process
<1>23. ASSUME NEW r \in Requests, OldRoutes(r) PROVE IInv'
  BY <1>23 DEF OldRoutes, RoutesOff, Fail, Continue, Goto, process
<1>24. ASSUME NEW r \in Requests, RoutingRejected(r) PROVE IInv'
  BY <1>24 DEF RoutingRejected, Unrouted, Done, Goto, process
<1>25. ASSUME NEW r \in Requests, StoreRouting(r) PROVE IInv'
  <2> DEFINE next == IF op[r].mode = None THEN mem ELSE [mem EXCEPT !.mode = op[r].mode]
  <2>1. mem' = next /\ disk' \in {disk, next}
    BY <1>25 DEF StoreRouting, Save, SaveFails
  <2>2. next \in States /\ Agrees(next) /\ next.profile = mem.profile
    BY <1>25 DEF StoreRouting, States, Agrees, RequestSet
  <2>3. Cleared(next, "stopped") \in States
    BY <2>2, ClearedAgrees
  <2> HIDE DEF next
  <2>4. mem' \in States /\ disk' \in States /\ Agrees(mem)' /\ Agrees(disk)'
    BY <2>1, <2>2 DEF Agrees
  <2>5. /\ pc[r] = "storeRouting"
        /\ \/ snap' = [snap EXCEPT ![r] = next]
           \/ snap' = [snap EXCEPT ![r] = Cleared(next, "stopped")]
           \/ snap' = [snap EXCEPT ![r] = None] /\ pc' = [pc EXCEPT ![r] = "idle"]
    BY <1>25 DEF StoreRouting, Done, Goto, next
  <2>6. snap' \in [Requests -> States \cup {None}] /\ (pc'[r] # "idle" => snap'[r] \in States)
    BY <2>2, <2>3, <2>5
  <2>. QED
    BY <1>25, <2>1, <2>2, <2>4, <2>5, <2>6 DEF StoreRouting, Unrouted, Save, SaveFails, Fail, Done, Goto, process
<1>26. ASSUME NEW r \in Requests, Recreate(r) PROVE IInv'
  BY <1>26 DEF Recreate, Continue, Goto, process, States
<1>27. ASSUME NEW r \in Requests, Reapply(r) PROVE IInv'
  BY <1>27 DEF Reapply, RoutesOn, RoutesOnFails, Fail, Done, Goto, process, States
<1>28. ASSUME ClientExits PROVE IInv'
  BY <1>28 DEF ClientExits, Fail, thread, process
<1>29. ASSUME NEW e \in Exits, Report(e) PROVE IInv'
  BY <1>29 DEF Report, ClientOff, thread
<1>30. ASSUME NEW e \in Exits, ExitDropsRoutes(e) PROVE IInv'
  BY <1>30 DEF ExitDropsRoutes, RoutesOff, Fail, thread
<1>31. ASSUME NEW e \in Exits, ExitStored(e) PROVE IInv'
  <2>1. mem' = Cleared(mem, "error") /\ disk' \in {disk, mem'}
    BY <1>31 DEF ExitStored, Save, SaveFails
  <2>2. mem' \in States /\ Agrees(mem)' /\ mem'.profile = mem.profile
    BY <2>1, ClearedAgrees DEF Agrees
  <2>3. disk' \in States /\ Agrees(disk)'
    BY <2>1, <2>2 DEF Agrees
  <2>. QED
    BY <1>31, <2>2, <2>3 DEF ExitStored, Save, SaveFails, Fail, Claim, thread
<1>32. ASSUME Signal PROVE IInv'
  BY <1>32 DEF Signal, thread
<1>33. ASSUME ShutdownLooks PROVE IInv'
  BY <1>33 DEF ShutdownLooks, thread
<1>34. ASSUME ShutdownDropsRoutes PROVE IInv'
  BY <1>34 DEF ShutdownDropsRoutes, RoutesOff, Fail, thread
<1>35. ASSUME ShutdownStops PROVE IInv'
  BY <1>35 DEF ShutdownStops, ClientOff, thread
<1>36. ASSUME MainExits PROVE IInv'
  BY <1>36 DEF MainExits, Gone, ClientOff
<1>37. ASSUME Crash PROVE IInv'
  BY <1>37 DEF Crash, Fail, Gone, ClientOff
<1>38. ASSUME Boot PROVE IInv'
  <2>1. \A r \in Requests : pc'[r] = "idle"
    BY <1>38 DEF Boot, thread
  <2>2. MuOK' /\ OpOK' /\ ActivatingOK' /\ SnapOK' /\ DownOK'
    BY <2>1
  <2>3. TypeOK' /\ StoreConsistent'
    BY <1>38 DEF Boot, thread, States, Agrees
  <2>. QED
    BY <2>2, <2>3
<1>39. ASSUME NEW t \in Tunnels, OrphanExits(t) PROVE IInv'
  BY <1>39 DEF OrphanExits, thread, process
<1>40. CASE UNCHANGED vars
  BY <1>40 DEF vars, thread, process
<1> HIDE DEF IInv, TypeOK, MuOK, OpOK, ActivatingOK, SnapOK, DownOK, StoreConsistent
<1>. QED
  BY <1>1, <1>2, <1>3, <1>4, <1>5, <1>6, <1>7, <1>8, <1>9, <1>10, <1>11, <1>12, <1>13, <1>14,
     <1>15, <1>16, <1>17, <1>18, <1>19, <1>20, <1>21, <1>22, <1>23, <1>24, <1>25, <1>26, <1>27, <1>28,
     <1>29, <1>30, <1>31, <1>32, <1>33, <1>34, <1>35, <1>36, <1>37, <1>38, <1>39, <1>40,
     <1>41
  DEF Next, Locked, Exiting, Stopping

THEOREM Invariance == Spec => []IInv
  BY InitIInv, StepIInv, PTL DEF Spec

(* Type correctness of the orchestrator.                                    *)
THEOREM TypeCorrect == Spec => []TypeOK
<1>1. IInv => TypeOK
  BY DEF IInv
<1>. QED
  BY Invariance, <1>1, PTL

(* State, active tunnel, flags and subscription agree in memory and on disk *)
(* at every moment, so that a process killed anywhere boots from a state    *)
(* that does not contradict itself.                                         *)
THEOREM StoreIsConsistent == Spec => []StoreConsistent
<1>1. IInv => StoreConsistent
  BY DEF IInv
<1>. QED
  BY Invariance, <1>1, PTL
==============================================================================
