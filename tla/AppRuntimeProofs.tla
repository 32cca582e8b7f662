--------------------------- MODULE AppRuntimeProofs ---------------------------
(***************************************************************************)
(* Proofs about App, for any tunnels, requests, exit handlers and bounds:  *)
(* what the store says of the client and of its routes when nobody is at   *)
(* work.                                                                   *)
(*                                                                         *)
(* RunningIsBacked, ClientIsRecorded and RoutedUnlessKnown say nothing of  *)
(* the time in which somebody is at work.  RInv does: it names the places  *)
(* in which a request, an exit handler or Shutdown will still put things   *)
(* right, and what is known at the places from which it does.              *)
(***************************************************************************)
EXTENDS AppProofs

\* What holds at the places from which a request writes the store.
PlaceOK == \A r \in Requests :
    /\ pc[r] \in {"start", "storeStopped"} => client = None
    /\ pc[r] \in {"switchRoutes", "undo", "storeRunning"} => client \in {None, op[r].tunnel}
    /\ pc[r] = "storeError" => client = None \/ stray # "none"
    /\ pc[r] = "storeRunning" =>
        stopPc # "idle" \/ bare # "none" \/ routed[strategy] = op[r].tunnel
    /\ pc[r] = "stopGone" => mem.active = None
    /\ pc[r] \in {"oldRoutes", "storeRouting"} => mem.active = None \/ snap[r].state = "running"
    /\ pc[r] \in {"replace", "readBack", "newHWID", "fetch", "recreate", "reapply"} =>
        mem.active \in {snap[r].active, None}

At(places) == \E r \in Requests : pc[r] \in places

\* A client that the store does not name will be named or stopped.
ClientOK ==
    client \notin {None, mem.active} =>
        stray # "none" \/ At({"switchRoutes", "undo", "storeRunning", "stopGone"})

\* An active tunnel without its client will be stored as stopped, or gets a client.
BackedOK ==
    mem.active \notin {None, client} =>
        \/ unbacked # "none"
        \/ host = "down" \/ stopPc # "idle" \/ \E e \in Exits : exitPc[e] # "idle"
        \/ At({"start", "switchRoutes", "undo", "storeRunning", "storeError", "storeStopped"})

\* A client whose tunnel is active, or will be when a snapshot is written back,
\* and that has no routes, gets them or is stopped.
RoutedOK ==
    /\ client # None /\ routed[strategy] # client
    /\ \/ client = mem.active
       \/ \E r \in Requests : pc[r] \in {"replace", "newHWID"} /\ client = snap[r].active
    => \/ bare # "none"
       \/ stopPc # "idle"
       \/ At({"cleanup", "stopOld", "switchRoutes", "undo", "storeError", "stop", "storeRouting",
              "recreate", "reapply"})

DownHasNoClient == host = "down" => client = None

RInv == PlaceOK /\ ClientOK /\ BackedOK /\ RoutedOK /\ DownHasNoClient

(* A merge keeps the active tunnel or leaves none, and keeps the mode.       *)
LEMMA MergedFields ==
  ASSUME NEW st \in States, NEW fresh \in SUBSET Tunnels
  PROVE  /\ Merged(st, fresh).active \in {st.active, None}
         /\ Merged(st, fresh).mode = st.mode
<1>. DEFINE merged == [st EXCEPT
                !.profile = [t \in Tunnels |->
                    IF t \in fresh THEN "present"
                    ELSE IF st.profile[t] = "absent" THEN "absent" ELSE "missing"],
                !.flags = @ \cap fresh]
<1>1. /\ merged.active = st.active /\ Cleared(merged, "stopped").active = None
      /\ merged.mode = st.mode /\ Cleared(merged, "stopped").mode = st.mode
  BY DEF Cleared
<1>2. Merged(st, fresh) \in {merged, Cleared(merged, "stopped")}
  BY DEF Merged
<1>. HIDE DEF merged
<1>. QED
  BY <1>1, <1>2

(* A new router.                                                            *)
LEMMA InitRInv == Init => RInv
  BY DEF Init, DefaultState, RInv, PlaceOK, ClientOK, BackedOK, RoutedOK, DownHasNoClient

(* Every step of a request, of an exit handler, of Shutdown, of the client  *)
(* and of the process preserves RInv.                                       *)
LEMMA StepRInv ==
  ASSUME IInv, RInv, [Next]_vars
  PROVE  RInv'
<1>1. /\ TypeOK
      /\ \A r \in Requests : pc[r] \notin {"idle", "lock"} =>
            mu = r /\ \A s \in Requests \ {r} : pc[s] \in {"idle", "lock"}
  BY DEF IInv, MuOK
<1>2. ASSUME NEW r \in Requests, Api(r) PROVE RInv'
  BY <1>2
  DEF Api, Arrive, Goto, PlaceOK, ClientOK, BackedOK, RoutedOK, DownHasNoClient, At, RInv,
      store, runtime, routes, reasons
<1>3. ASSUME NEW r \in Requests, NEW t \in Tunnels, Hook(r, t) PROVE RInv'
  BY <1>1, <1>3
  DEF Hook, Arrive, Goto, PlaceOK, ClientOK, BackedOK, RoutedOK, DownHasNoClient, At,
      TypeOK, RInv, store, runtime, routes, reasons
<1>4. ASSUME NEW r \in Requests, Restore(r) PROVE RInv'
  BY <1>4
  DEF Restore, Arrive, Goto, PlaceOK, ClientOK, BackedOK, RoutedOK, DownHasNoClient, At,
      RInv, store, runtime, routes, reasons
<1>5. ASSUME NothingToRestore PROVE RInv'
  BY <1>5
  DEF NothingToRestore, PlaceOK, ClientOK, BackedOK, RoutedOK, DownHasNoClient, At, RInv,
      thread, store, runtime, routes, reasons
<1>6. ASSUME NEW r \in Requests, Lock(r) PROVE RInv'
  <2>1. op[r] \in RequestSet /\ pc[r] = "lock" /\ mu = None
    BY <1>6 DEF Lock, IInv, OpOK
  <2>2. \A s \in Requests : pc[s] \in {"idle", "lock"}
    BY <1>1, <2>1, ConstantsAssumption
  <2>3. mem.state = "running" <=> mem.active # None
    BY DEF IInv, StoreConsistent, Agrees
  <2>4. /\ \/ pc' = [pc EXCEPT ![r] = "idle"]
           \/ /\ pc' \in {[pc EXCEPT ![r] = l] : l \in {"resetRoutes", "dropRoutes"}}
           \/ /\ pc' \in {[pc EXCEPT ![r] = l] :
                        l \in {"replace", "fetch", "newHWID", "oldRoutes", "storeRouting"}}
              /\ snap' = [snap EXCEPT ![r] = mem]
              /\ pc'[r] = "storeRouting" => mem.active = None
              /\ pc'[r] = "oldRoutes" => mem.state = "running"
        /\ UNCHANGED <<store, strategy, process, runtime, routes, reasons>>
    BY <1>6, <2>1, <2>3, RequestFields DEF Lock, Done, Goto, FirstStep, RefreshStep
  <2>5. PlaceOK'
    BY <1>1, <2>2, <2>4 DEF PlaceOK, TypeOK, store
  <2>6. ClientOK'
    BY <2>2, <2>4 DEF ClientOK, At, RInv, store, runtime, reasons
  <2>7. BackedOK'
    BY <2>2, <2>4 DEF BackedOK, At, RInv, process, store, runtime, reasons
  <2>8. RoutedOK'
    BY <1>1, <2>2, <2>4
    DEF RoutedOK, At, TypeOK, RInv, process, store, runtime, routes, reasons
  <2>9. DownHasNoClient'
    BY <2>4 DEF RInv, DownHasNoClient, process, runtime
  <2>. QED
    BY <2>5, <2>6, <2>7, <2>8, <2>9 DEF RInv
<1>7. ASSUME NEW r \in Requests, ResetRoutes(r) PROVE RInv'
  BY <1>1, <1>7
  DEF ResetRoutes, RoutesOff, Continue, Goto, PlaceOK, ClientOK, BackedOK, RoutedOK,
      DownHasNoClient, At, TypeOK, RInv, process, store, runtime
<1>8. ASSUME NEW r \in Requests, Cleanup(r) PROVE RInv'
  BY <1>1, <1>8
  DEF Cleanup, DevicesOff, Continue, Done, Goto, PlaceOK, ClientOK, BackedOK, RoutedOK,
      DownHasNoClient, At, TypeOK, RInv, process, store, runtime
<1>9. ASSUME NEW r \in Requests, StopOld(r) PROVE RInv'
  BY <1>1, <1>9
  DEF StopOld, ClientOff, Continue, Goto, PlaceOK, ClientOK, BackedOK, RoutedOK,
      DownHasNoClient, At, TypeOK, RInv, process, runtime
<1>10. ASSUME NEW r \in Requests, Start(r) PROVE RInv'
  <2>1. /\ pc[r] = "start" /\ client = None
        /\ \/ client' = op[r].tunnel /\ pc' = [pc EXCEPT ![r] = "switchRoutes"]
           \/ client' = client /\ pc' = [pc EXCEPT ![r] = "storeError"]
        /\ UNCHANGED <<store, strategy, mu, op, snap, process, routes, reasons>>
    BY <1>10 DEF Start, Continue, Goto, PlaceOK, RInv, runtime
  <2>2. PlaceOK'
    BY <1>1, <2>1 DEF PlaceOK, TypeOK
  <2>3. ClientOK'
    BY <1>1, <2>1 DEF ClientOK, At, TypeOK
  <2>4. BackedOK'
    BY <1>1, <2>1 DEF BackedOK, At, TypeOK
  <2>5. RoutedOK'
    BY <1>1, <2>1 DEF RoutedOK, At, TypeOK
  <2>6. DownHasNoClient'
    BY <2>1 DEF IInv, DownOK, DownHasNoClient, process
  <2>. QED
    BY <2>2, <2>3, <2>4, <2>5, <2>6 DEF RInv
<1>11. ASSUME NEW r \in Requests, SwitchRoutes(r) PROVE RInv'
  BY <1>1, <1>11
  DEF SwitchRoutes, RoutesOn, Continue, Goto, PlaceOK, ClientOK, BackedOK, RoutedOK,
      DownHasNoClient, At, TypeOK, RInv, process, runtime
<1>12. ASSUME NEW r \in Requests, Undo(r) PROVE RInv'
  BY <1>1, <1>12
  DEF Undo, ClientOff, Continue, Goto, PlaceOK, ClientOK, BackedOK, RoutedOK,
      DownHasNoClient, At, RInv
<1>13. ASSUME NEW r \in Requests, StoreError(r) PROVE RInv'
  <2>1. /\ pc[r] = "storeError" /\ mem'.active = None
        /\ pc' = [pc EXCEPT ![r] = "idle"]
        /\ snap' = [snap EXCEPT ![r] = None] /\ op' = [op EXCEPT ![r] = None] /\ mu' = None
        /\ unbacked' = IF mem'.active \in {None, client} THEN "none" ELSE "overtaken"
        /\ UNCHANGED <<strategy, process, runtime, routes, stray, left, bare>>
    BY <1>1, <1>13
    DEF StoreError, Save, SaveFails, Cleared, Claim, Done, Goto, TypeOK, States
  <2>2. PlaceOK'
    BY <1>1, <2>1 DEF PlaceOK, TypeOK
  <2>3. ClientOK'
    BY <2>1 DEF PlaceOK, ClientOK, RInv, runtime
  <2>4. BackedOK'
    BY <2>1 DEF BackedOK
  <2>5. RoutedOK'
    BY <1>1, <2>1 DEF RoutedOK
  <2>6. DownHasNoClient'
    BY <2>1 DEF IInv, DownOK, DownHasNoClient, process
  <2>. QED
    BY <2>2, <2>3, <2>4, <2>5, <2>6 DEF RInv
<1>14. ASSUME NEW r \in Requests, StoreRunning(r) PROVE RInv'
  <2>1. /\ pc[r] = "storeRunning" /\ mem'.active = op[r].tunnel
        /\ pc' = [pc EXCEPT ![r] = "idle"]
        /\ snap' = [snap EXCEPT ![r] = None] /\ op' = [op EXCEPT ![r] = None] /\ mu' = None
        /\ unbacked' = IF mem'.active \in {None, client} THEN "none" ELSE "overtaken"
        /\ UNCHANGED <<strategy, process, runtime, routes, stray, left, bare>>
    BY <1>1, <1>14
    DEF StoreRunning, Save, SaveFails, Running, Claim, Done, Goto, TypeOK, States
  <2>2. PlaceOK'
    BY <1>1, <2>1 DEF PlaceOK, TypeOK
  <2>3. ClientOK'
    BY <2>1 DEF PlaceOK, ClientOK, RInv, runtime
  <2>4. BackedOK'
    BY <2>1 DEF BackedOK, runtime
  <2>5. RoutedOK'
    BY <1>1, <2>1 DEF PlaceOK, RoutedOK, RInv, process, routes
  <2>6. DownHasNoClient'
    BY <2>1 DEF IInv, DownOK, DownHasNoClient, process
  <2>. QED
    BY <2>2, <2>3, <2>4, <2>5, <2>6 DEF RInv
<1>15. ASSUME NEW r \in Requests, DropRoutes(r) PROVE RInv'
  BY <1>1, <1>15
  DEF DropRoutes, RoutesOff, Continue, Goto, PlaceOK, ClientOK, BackedOK, RoutedOK,
      DownHasNoClient, At, TypeOK, RInv, process, store, runtime
<1>16. ASSUME NEW r \in Requests, Stop(r) PROVE RInv'
  BY <1>1, <1>16
  DEF Stop, ClientOff, Continue, Done, Goto, PlaceOK, ClientOK, BackedOK, RoutedOK,
      DownHasNoClient, At, TypeOK, RInv
<1>17. ASSUME NEW r \in Requests, StoreStopped(r) PROVE RInv'
  <2>1. /\ pc[r] = "storeStopped" /\ mem'.active = None
        /\ pc' = [pc EXCEPT ![r] = "idle"]
        /\ snap' = [snap EXCEPT ![r] = None] /\ op' = [op EXCEPT ![r] = None] /\ mu' = None
        /\ unbacked' = IF mem'.active \in {None, client} THEN "none" ELSE "overtaken"
        /\ UNCHANGED <<strategy, process, runtime, routes, stray, left, bare>>
    BY <1>1, <1>17
    DEF StoreStopped, Save, SaveFails, Cleared, Claim, Done, Goto, TypeOK, States
  <2>2. PlaceOK'
    BY <1>1, <2>1 DEF PlaceOK, TypeOK
  <2>3. ClientOK'
    BY <2>1 DEF PlaceOK, ClientOK, RInv, runtime
  <2>4. BackedOK'
    BY <2>1 DEF BackedOK
  <2>5. RoutedOK'
    BY <1>1, <2>1 DEF RoutedOK
  <2>6. DownHasNoClient'
    BY <2>1 DEF IInv, DownOK, DownHasNoClient, process
  <2>. QED
    BY <2>2, <2>3, <2>4, <2>5, <2>6 DEF RInv
<1>18. ASSUME NEW r \in Requests, ImportReplace(r) PROVE RInv'
  <2>1. /\ pc[r] = "replace" /\ mem'.active = snap[r].active
        /\ \/ pc' = [pc EXCEPT ![r] = "idle"]
           \/ /\ pc' = [pc EXCEPT ![r] = "readBack"]
              /\ snap' = [snap EXCEPT ![r] = mem']
        /\ \A s \in Requests \ {r} : op'[s] = op[s] /\ snap'[s] = snap[s]
        /\ unbacked' = IF mem'.active \in {None, client} THEN "none" ELSE "overtaken"
        /\ UNCHANGED <<strategy, process, runtime, routes, stray, bare>>
    <3>1. pc[r] = "replace" /\ snap[r] \in States
      BY <1>18 DEF ImportReplace, IInv, SnapOK
    <3>2. [snap[r] EXCEPT !.url = "set", !.hwid = "set"].active = snap[r].active
      OBVIOUS
    <3>. QED
      BY <1>1, <1>18, <3>2
      DEF ImportReplace, WriteBack, Save, SaveFails, Claim, Done, Goto, TypeOK
  <2>2. PlaceOK'
    BY <1>1, <2>1 DEF PlaceOK, TypeOK
  <2>3. ClientOK'
    BY <1>1, <2>1 DEF PlaceOK, ClientOK, At, RInv, runtime
  <2>4. BackedOK'
    BY <2>1 DEF BackedOK, runtime
  <2>5. RoutedOK'
    BY <1>1, <2>1 DEF RoutedOK, At, TypeOK, RInv, process, runtime, routes
  <2>6. DownHasNoClient'
    BY <2>1 DEF IInv, DownOK, DownHasNoClient, process
  <2>. QED
    BY <2>2, <2>3, <2>4, <2>5, <2>6 DEF RInv
<1>19. ASSUME NEW r \in Requests, ReadBack(r) PROVE RInv'
  <2>1. /\ pc[r] = "readBack"
        /\ \/ pc' = [pc EXCEPT ![r] = "idle"] /\ snap' = [snap EXCEPT ![r] = None]
           \/ /\ pc' \in {[pc EXCEPT ![r] = "fetch"], [pc EXCEPT ![r] = "newHWID"]}
              /\ snap' = [snap EXCEPT ![r] = mem] /\ UNCHANGED op
        /\ \A s \in Requests \ {r} : op'[s] = op[s]
        /\ UNCHANGED <<store, strategy, process, runtime, routes, reasons>>
    BY <1>1, <1>19 DEF ReadBack, RefreshStep, Done, Goto, TypeOK
  <2>2. PlaceOK'
    BY <1>1, <2>1 DEF PlaceOK, TypeOK, store
  <2>3. ClientOK'
    BY <1>1, <2>1 DEF ClientOK, At, RInv, store, runtime, reasons
  <2>4. BackedOK'
    BY <1>1, <2>1 DEF BackedOK, At, RInv, process, store, runtime, reasons
  <2>5. RoutedOK'
    BY <1>1, <2>1 DEF RoutedOK, At, TypeOK, RInv, process, store, runtime, routes, reasons
  <2>6. DownHasNoClient'
    BY <2>1 DEF IInv, DownOK, DownHasNoClient, process
  <2>. QED
    BY <2>2, <2>3, <2>4, <2>5, <2>6 DEF RInv
<1>20. ASSUME NEW r \in Requests, RefreshReplace(r) PROVE RInv'
  BY <1>1, <1>20
  DEF RefreshReplace, WriteBack, Save, SaveFails, Claim, Done, Goto, SnapOK, PlaceOK,
      ClientOK, BackedOK, RoutedOK, DownHasNoClient, At, TypeOK, States, IInv, RInv,
      process, runtime, routes, ghosts
<1>21. ASSUME NEW r \in Requests, FetchFails(r) PROVE RInv'
  BY <1>1, <1>21
  DEF FetchFails, Save, SaveFails, Done, Goto, PlaceOK, ClientOK, BackedOK, RoutedOK,
      DownHasNoClient, At, TypeOK, RInv, process, runtime, routes, reasons
<1>22. ASSUME NEW r \in Requests, NEW fresh \in SUBSET Tunnels, Merge(r, fresh) PROVE RInv'
  <2>1. mem'.active \in {mem.active, None} /\ mem' = Merged(mem, fresh)
    <3>1. mem' = Merged(mem, fresh)
      BY <1>22 DEF Merge, Save, SaveFails
    <3>2. Merged(mem, fresh).active \in {mem.active, None}
      BY <1>1, MergedFields DEF TypeOK
    <3>. QED
      BY <3>1, <3>2
  <2>2. /\ pc[r] = "fetch"
        /\ \/ /\ pc' = [pc EXCEPT ![r] = "stopGone"] /\ mem'.active = None
           \/ /\ pc' = [pc EXCEPT ![r] = "idle"]
              /\ mem'.active # None \/ snap[r].active = None \/ client = None \/ stray' # "none"
        /\ stray' # stray => stray' # "none"
        /\ \A s \in Requests \ {r} : op'[s] = op[s] /\ snap'[s] = snap[s]
        /\ unbacked' = IF mem'.active = None THEN "none" ELSE unbacked
        /\ UNCHANGED <<strategy, process, runtime, routes, bare>>
    BY <1>1, <1>22, <2>1 DEF Merge, Continue, Done, Goto, TypeOK
  <2>3. PlaceOK'
    BY <1>1, <2>2 DEF PlaceOK, TypeOK
  <2>4. ClientOK'
    BY <1>1, <2>1, <2>2 DEF PlaceOK, ClientOK, At, TypeOK, RInv, runtime
  <2>5. BackedOK'
    BY <1>1, <2>1, <2>2 DEF BackedOK, At, RInv, process, runtime
  <2>6. RoutedOK'
    BY <1>1, <2>1, <2>2 DEF RoutedOK, At, TypeOK, RInv, process, runtime, routes
  <2>7. DownHasNoClient'
    BY <2>2 DEF IInv, DownOK, DownHasNoClient, process
  <2>. QED
    BY <2>3, <2>4, <2>5, <2>6, <2>7 DEF RInv
<1>23. ASSUME NEW r \in Requests, StopGone(r) PROVE RInv'
  BY <1>1, <1>23
  DEF StopGone, ClientOff, Done, Goto, PlaceOK, ClientOK, BackedOK, RoutedOK,
      DownHasNoClient, RInv, store
<1>24. ASSUME PatchSettings PROVE RInv'
  BY <1>1, <1>24
  DEF PatchSettings, Save, SaveFails, PlaceOK, ClientOK, BackedOK, RoutedOK,
      DownHasNoClient, At, TypeOK, States, RInv, thread, process, runtime, routes, reasons
<1>25. ASSUME NEW r \in Requests, OldRoutes(r) PROVE RInv'
  BY <1>1, <1>25
  DEF OldRoutes, RoutesOff, Continue, Goto, PlaceOK, ClientOK, BackedOK, RoutedOK,
      DownHasNoClient, At, TypeOK, RInv, process, store, runtime
<1>26. ASSUME NEW r \in Requests, RoutingRejected(r) PROVE RInv'
  BY <1>1, <1>26
  DEF RoutingRejected, Unrouted, Done, Goto, PlaceOK, ClientOK, BackedOK, RoutedOK,
      DownHasNoClient, At, TypeOK, RInv, process, store, runtime
<1>27. ASSUME NEW r \in Requests, StoreRouting(r) PROVE RInv'
  BY <1>1, <1>27
  DEF StoreRouting, Unrouted, Save, SaveFails, Done, Goto, PlaceOK, ClientOK, BackedOK,
      RoutedOK, DownHasNoClient, At, TypeOK, States, RInv, process, runtime
<1>28. ASSUME NEW r \in Requests, Recreate(r) PROVE RInv'
  BY <1>1, <1>28
  DEF Recreate, Continue, Goto, PlaceOK, ClientOK, BackedOK, RoutedOK, DownHasNoClient, At,
      RInv, process, store, runtime, reasons
<1>29. ASSUME NEW r \in Requests, Reapply(r) PROVE RInv'
  BY <1>1, <1>29
  DEF Reapply, RoutesOn, RoutesOnFails, Done, Goto, PlaceOK, ClientOK, BackedOK, RoutedOK,
      DownHasNoClient, At, TypeOK, RInv, process, store, runtime
<1>30. ASSUME ClientExits PROVE RInv'
  BY <1>30
  DEF ClientExits, PlaceOK, ClientOK, BackedOK, RoutedOK, DownHasNoClient, At, RInv, thread,
      process, store, routes, reasons
<1>31. ASSUME NEW e \in Exits, Report(e) PROVE RInv'
  BY <1>1, <1>31
  DEF Report, ClientOff, PlaceOK, ClientOK, BackedOK, RoutedOK, DownHasNoClient, TypeOK,
      RInv, thread, store, routes
<1>32. ASSUME NEW e \in Exits, ExitDropsRoutes(e) PROVE RInv'
  BY <1>32
  DEF ExitDropsRoutes, RoutesOff, PlaceOK, ClientOK, BackedOK, RoutedOK, DownHasNoClient,
      At, RInv, thread, store, runtime
<1>33. ASSUME NEW e \in Exits, ExitStored(e) PROVE RInv'
  <2>1. /\ mem'.active = None
        /\ stray' = IF client = None THEN "none" ELSE "report"
        /\ UNCHANGED <<strategy, thread, stopPc, host, runtime, routes, bare>>
    BY <1>1, <1>33 DEF ExitStored, Save, SaveFails, Cleared, TypeOK, States
  <2>2. PlaceOK'
    BY <2>1 DEF PlaceOK, RInv, thread, runtime, routes
  <2>3. ClientOK'
    BY <2>1 DEF ClientOK, runtime
  <2>4. BackedOK'
    BY <2>1 DEF BackedOK
  <2>5. RoutedOK'
    BY <2>1 DEF RoutedOK, At, RInv, thread, runtime, routes
  <2>6. DownHasNoClient'
    BY <2>1 DEF RInv, DownHasNoClient, runtime
  <2>. QED
    BY <2>2, <2>3, <2>4, <2>5, <2>6 DEF RInv
<1>34. ASSUME Signal PROVE RInv'
  BY <1>34
  DEF Signal, PlaceOK, ClientOK, BackedOK, RoutedOK, DownHasNoClient, At, RInv, thread,
      store, runtime, reasons
<1>35. ASSUME ShutdownLooks PROVE RInv'
  BY <1>35
  DEF ShutdownLooks, PlaceOK, ClientOK, BackedOK, RoutedOK, DownHasNoClient, At, RInv,
      thread, store, runtime, reasons
<1>36. ASSUME ShutdownDropsRoutes PROVE RInv'
  BY <1>36
  DEF ShutdownDropsRoutes, RoutesOff, PlaceOK, ClientOK, BackedOK, RoutedOK,
      DownHasNoClient, At, RInv, thread, store, runtime
<1>37. ASSUME ShutdownStops PROVE RInv'
  BY <1>37
  DEF ShutdownStops, ClientOff, PlaceOK, ClientOK, BackedOK, RoutedOK, DownHasNoClient,
      RInv, thread, store
<1>38. ASSUME MainExits PROVE RInv'
  BY <1>38
  DEF MainExits, Gone, ClientOff, PlaceOK, ClientOK, BackedOK, RoutedOK, DownHasNoClient,
      RInv
<1>39. ASSUME Crash PROVE RInv'
  BY <1>39
  DEF Crash, Gone, ClientOff, PlaceOK, ClientOK, BackedOK, RoutedOK, DownHasNoClient, RInv
<1>40. ASSUME Boot PROVE RInv'
  <2>1. /\ \A r \in Requests : pc'[r] = "idle"
        /\ client' = None /\ host' = "up"
        /\ unbacked' = IF mem'.active = None THEN "none" ELSE "unrestored"
    BY <1>40 DEF Boot, IInv, DownOK, RInv, DownHasNoClient, thread, runtime
  <2>2. PlaceOK'
    BY <2>1 DEF PlaceOK
  <2>3. ClientOK'
    BY <2>1 DEF ClientOK
  <2>4. BackedOK'
    BY <2>1 DEF BackedOK
  <2>5. RoutedOK'
    BY <2>1 DEF RoutedOK
  <2>6. DownHasNoClient'
    BY <2>1 DEF DownHasNoClient
  <2>. QED
    BY <2>2, <2>3, <2>4, <2>5, <2>6 DEF RInv
<1>41. ASSUME NEW t \in Tunnels, OrphanExits(t) PROVE RInv'
  BY <1>41
  DEF OrphanExits, PlaceOK, ClientOK, BackedOK, RoutedOK, DownHasNoClient, At, RInv, thread,
      process, store, runtime, routes, reasons
<1>42. CASE UNCHANGED vars
  BY <1>42
  DEF vars, PlaceOK, ClientOK, BackedOK, RoutedOK, At, RInv, DownHasNoClient, thread,
      process, store, runtime, routes, reasons
<1>. QED
  BY <1>2, <1>3, <1>4, <1>5, <1>6, <1>7, <1>8, <1>9, <1>10, <1>11, <1>12, <1>13, <1>14,
     <1>15, <1>16, <1>17, <1>18, <1>19, <1>20, <1>21, <1>22, <1>23, <1>24, <1>25, <1>26,
     <1>27, <1>28, <1>29, <1>30, <1>31, <1>32, <1>33, <1>34, <1>35, <1>36, <1>37, <1>38,
     <1>39, <1>40, <1>41, <1>42
  DEF Next, Locked, Exiting, Stopping

(* RInv holds in every state.                                               *)
LEMMA RInvariance == Spec => []RInv
<1>1. Init => RInv
  BY InitRInv
<1>2. IInv /\ RInv /\ [Next]_vars => RInv'
  BY StepRInv
<1>. QED
  BY <1>1, <1>2, Invariance, PTL DEF Spec

(* When nobody is at work a tunnel that the store calls running has its     *)
(* client, but for the three reasons that unbacked names.                   *)
THEOREM RunningHasItsClient == Spec => []RunningIsBacked
<1>1. IInv /\ RInv => RunningIsBacked
  <2>. SUFFICES ASSUME IInv, RInv, Quiet PROVE RunningIsBacked
    BY DEF RunningIsBacked
  <2>1. \A r \in Requests : pc[r] \in {"idle", "lock"}
    BY ConstantsAssumption DEF IInv, MuOK, Quiet
  <2>. QED
    BY <2>1 DEF RunningIsBacked, RInv, BackedOK, At, Quiet, IInv, StoreConsistent, Agrees
<1>. QED
  BY <1>1, Invariance, RInvariance, PTL

(* When nobody is at work a client that runs is the one of the active       *)
(* tunnel, but for the three reasons that stray names.                      *)
THEOREM ClientsAreRecorded == Spec => []ClientIsRecorded
<1>1. IInv /\ RInv => ClientIsRecorded
  <2>. SUFFICES ASSUME IInv, RInv, Quiet PROVE ClientIsRecorded
    BY DEF ClientIsRecorded
  <2>1. \A r \in Requests : pc[r] \in {"idle", "lock"}
    BY ConstantsAssumption DEF IInv, MuOK, Quiet
  <2>. QED
    BY <2>1 DEF ClientIsRecorded, RInv, ClientOK, At
<1>. QED
  BY <1>1, Invariance, RInvariance, PTL

(* When nobody is at work the client of the active tunnel has its routes,   *)
(* but for the reasons that bare names.                                     *)
THEOREM ClientsAreRouted == Spec => []RoutedUnlessKnown
<1>1. IInv /\ RInv => RoutedUnlessKnown
  <2>. SUFFICES ASSUME IInv, RInv, Quiet PROVE RoutedUnlessKnown
    BY DEF RoutedUnlessKnown
  <2>1. \A r \in Requests : pc[r] \in {"idle", "lock"}
    BY ConstantsAssumption DEF IInv, MuOK, Quiet
  <2>. QED
    BY <2>1 DEF RoutedUnlessKnown, RInv, RoutedOK, At, Quiet
<1>. QED
  BY <1>1, Invariance, RInvariance, PTL

-----------------------------------------------------------------------------
(* The strategy and the stored mode.                                        *)

\* The strategy is that of the stored mode, or about to be exchanged for it; a
\* snapshot that will be written back or compared has the stored mode.
ModeOK ==
    /\ host = "up" => strategy = mem.mode \/ At({"recreate"})
    /\ \A r \in Requests :
        pc[r] \in {"replace", "newHWID", "oldRoutes", "storeRouting", "recreate"} =>
            snap[r].mode = mem.mode

(* Unless a save can fail, every step preserves ModeOK: a routing update    *)
(* whose save fails returns with the new mode in memory and the strategy of *)
(* the old one.                                                             *)
LEMMA StepModeOK ==
  ASSUME IInv, ModeOK, [Next]_vars, "save" \notin FaultKinds
  PROVE  ModeOK'
<1>1. /\ TypeOK
      /\ \A r \in Requests : pc[r] \notin {"idle", "lock"} =>
            mu = r /\ \A s \in Requests \ {r} : pc[s] \in {"idle", "lock"}
  BY DEF IInv, MuOK
<1>2. ASSUME NEW r \in Requests, Api(r) PROVE ModeOK'
  BY <1>2 DEF Api, Arrive, Goto, ModeOK, At, store
<1>3. ASSUME NEW r \in Requests, NEW t \in Tunnels, Hook(r, t) PROVE ModeOK'
  BY <1>1, <1>3 DEF Hook, Arrive, Goto, TypeOK, ModeOK, At, store
<1>4. ASSUME NEW r \in Requests, Restore(r) PROVE ModeOK'
  BY <1>4 DEF Restore, Arrive, Goto, ModeOK, At, store
<1>5. ASSUME NothingToRestore PROVE ModeOK'
  BY <1>5 DEF NothingToRestore, ModeOK, At, thread, store
<1>6. ASSUME NEW r \in Requests, Lock(r) PROVE ModeOK'
  <2>1. op[r] \in RequestSet /\ pc[r] = "lock" /\ mu = None
    BY <1>6 DEF Lock, IInv, OpOK
  <2>2. \A s \in Requests : pc[s] \in {"idle", "lock"}
    BY <1>1, <2>1, ConstantsAssumption
  <2>3. /\ \/ pc' \in {[pc EXCEPT ![r] = l] : l \in {"idle", "resetRoutes", "dropRoutes"}}
           \/ /\ pc' \in {[pc EXCEPT ![r] = l] :
                        l \in {"replace", "fetch", "newHWID", "oldRoutes", "storeRouting"}}
              /\ snap' = [snap EXCEPT ![r] = mem]
        /\ UNCHANGED <<store, strategy, host>>
    BY <1>6, <2>1, RequestFields DEF Lock, Done, Goto, FirstStep, RefreshStep, process
  <2>. QED
    BY <1>1, <2>2, <2>3 DEF TypeOK, ModeOK, At, store
<1>7. ASSUME NEW r \in Requests, ResetRoutes(r) PROVE ModeOK'
  BY <1>7 DEF ResetRoutes, Continue, Goto, ModeOK, At, process, store
<1>8. ASSUME NEW r \in Requests, Cleanup(r) PROVE ModeOK'
  BY <1>1, <1>8 DEF Cleanup, Continue, Done, Goto, TypeOK, ModeOK, At, process, store
<1>9. ASSUME NEW r \in Requests, StopOld(r) PROVE ModeOK'
  BY <1>1, <1>9 DEF StopOld, Continue, Goto, TypeOK, ModeOK, At, process, store
<1>10. ASSUME NEW r \in Requests, Start(r) PROVE ModeOK'
  BY <1>1, <1>10 DEF Start, Continue, Goto, TypeOK, ModeOK, At, process, store
<1>11. ASSUME NEW r \in Requests, SwitchRoutes(r) PROVE ModeOK'
  BY <1>1, <1>11 DEF SwitchRoutes, Continue, Goto, TypeOK, ModeOK, At, process, store
<1>12. ASSUME NEW r \in Requests, Undo(r) PROVE ModeOK'
  BY <1>12 DEF Undo, Continue, Goto, ModeOK, At, process, store
<1>13. ASSUME NEW r \in Requests, StoreError(r) PROVE ModeOK'
  <2>1. mem'.mode = mem.mode
    BY <1>1, <1>13 DEF StoreError, Save, SaveFails, Cleared, TypeOK, States
  <2>. QED
    BY <1>13, <2>1 DEF StoreError, Done, Goto, ModeOK, At, process
<1>14. ASSUME NEW r \in Requests, StoreRunning(r) PROVE ModeOK'
  <2>1. mem'.mode = mem.mode
    BY <1>1, <1>14 DEF StoreRunning, Save, SaveFails, Running, TypeOK, States
  <2>. QED
    BY <1>14, <2>1 DEF StoreRunning, Done, Goto, ModeOK, At, process
<1>15. ASSUME NEW r \in Requests, DropRoutes(r) PROVE ModeOK'
  BY <1>15 DEF DropRoutes, Continue, Goto, ModeOK, At, process, store
<1>16. ASSUME NEW r \in Requests, Stop(r) PROVE ModeOK'
  BY <1>1, <1>16 DEF Stop, Continue, Done, Goto, TypeOK, ModeOK, At, process, store
<1>17. ASSUME NEW r \in Requests, StoreStopped(r) PROVE ModeOK'
  <2>1. mem'.mode = mem.mode
    BY <1>1, <1>17 DEF StoreStopped, Save, SaveFails, Cleared, TypeOK, States
  <2>. QED
    BY <1>17, <2>1 DEF StoreStopped, Done, Goto, ModeOK, At, process
<1>18. ASSUME NEW r \in Requests, ImportReplace(r) PROVE ModeOK'
  <2>1. pc[r] = "replace" /\ snap[r] \in States
    BY <1>18 DEF ImportReplace, IInv, SnapOK
  <2>2. [snap[r] EXCEPT !.url = "set", !.hwid = "set"].mode = mem.mode
    BY <2>1 DEF ModeOK
  <2>. QED
    BY <1>1, <1>18, <2>2
    DEF ImportReplace, WriteBack, Save, SaveFails, Done, Goto, TypeOK, ModeOK, At, process
<1>19. ASSUME NEW r \in Requests, ReadBack(r) PROVE ModeOK'
  BY <1>1, <1>19 DEF ReadBack, Done, Goto, TypeOK, ModeOK, At, process, store
<1>20. ASSUME NEW r \in Requests, RefreshReplace(r) PROVE ModeOK'
  BY <1>20
  DEF RefreshReplace, WriteBack, Save, SaveFails, Done, Goto, SnapOK, TypeOK, States, IInv,
      ModeOK, At, process
<1>21. ASSUME NEW r \in Requests, FetchFails(r) PROVE ModeOK'
  BY <1>21 DEF FetchFails, Save, SaveFails, Done, Goto, ModeOK, At, process
<1>22. ASSUME NEW r \in Requests, NEW fresh \in SUBSET Tunnels, Merge(r, fresh) PROVE ModeOK'
  <2>1. mem'.mode = mem.mode
    BY <1>1, <1>22, MergedFields DEF Merge, Save, SaveFails, TypeOK
  <2>. QED
    BY <1>1, <1>22, <2>1 DEF Merge, Continue, Done, Goto, TypeOK, ModeOK, At, process
<1>23. ASSUME NEW r \in Requests, StopGone(r) PROVE ModeOK'
  BY <1>23 DEF StopGone, Done, Goto, ModeOK, At, process, store
<1>24. ASSUME PatchSettings PROVE ModeOK'
  BY <1>1, <1>24 DEF PatchSettings, Save, SaveFails, TypeOK, States, ModeOK, At, thread
<1>25. ASSUME NEW r \in Requests, OldRoutes(r) PROVE ModeOK'
  BY <1>25 DEF OldRoutes, Continue, Goto, ModeOK, At, process, store
<1>26. ASSUME NEW r \in Requests, RoutingRejected(r) PROVE ModeOK'
  BY <1>1, <1>26 DEF RoutingRejected, Done, Goto, TypeOK, ModeOK, At, process, store
<1>27. ASSUME NEW r \in Requests, StoreRouting(r) PROVE ModeOK'
  <2>. DEFINE next == IF op[r].mode = None THEN mem ELSE [mem EXCEPT !.mode = op[r].mode]
  <2>1. /\ pc[r] = "storeRouting" /\ op[r] \in RequestSet /\ op[r].mode # "invalid"
        /\ host = "up"
    BY <1>27 DEF StoreRouting, IInv, OpOK, DownOK, TypeOK
  <2>2. /\ next \in States
        /\ next.mode = IF op[r].mode = None THEN mem.mode ELSE op[r].mode
    BY <1>1, <2>1, RequestFields DEF TypeOK, States
  <2>3. Cleared(next, "stopped").mode = next.mode
    BY DEF Cleared
  <2>4. /\ mem' = next
        /\ pc' = [pc EXCEPT ![r] =
                    IF op[r].mode \in {None, snap[r].mode} THEN "reapply" ELSE "recreate"]
        /\ snap' = [snap EXCEPT ![r] =
                    IF snap[r].state = "running" THEN next ELSE Cleared(next, "stopped")]
        /\ UNCHANGED <<strategy, host>>
    BY <1>27 DEF StoreRouting, Save, SaveFails, Fail, Goto, process
  <2>. HIDE DEF next
  <2>. QED
    BY <1>1, <2>1, <2>2, <2>3, <2>4 DEF TypeOK, ModeOK, At
<1>28. ASSUME NEW r \in Requests, Recreate(r) PROVE ModeOK'
  BY <1>28 DEF Recreate, Continue, Goto, ModeOK, store
<1>29. ASSUME NEW r \in Requests, Reapply(r) PROVE ModeOK'
  BY <1>29 DEF Reapply, Done, Goto, ModeOK, At, process, store
<1>30. ASSUME ClientExits PROVE ModeOK'
  BY <1>30 DEF ClientExits, ModeOK, At, thread, process, store
<1>31. ASSUME NEW e \in Exits, Report(e) PROVE ModeOK'
  BY <1>31 DEF Report, ModeOK, At, thread, store
<1>32. ASSUME NEW e \in Exits, ExitDropsRoutes(e) PROVE ModeOK'
  BY <1>32 DEF ExitDropsRoutes, ModeOK, At, thread, store
<1>33. ASSUME NEW e \in Exits, ExitStored(e) PROVE ModeOK'
  <2>1. mem'.mode = mem.mode
    BY <1>1, <1>33 DEF ExitStored, Save, SaveFails, Cleared, TypeOK, States
  <2>. QED
    BY <1>33, <2>1 DEF ExitStored, ModeOK, At, thread
<1>34. ASSUME Signal PROVE ModeOK'
  BY <1>34 DEF Signal, ModeOK, At, thread, store
<1>35. ASSUME ShutdownLooks PROVE ModeOK'
  BY <1>35 DEF ShutdownLooks, ModeOK, At, thread, store
<1>36. ASSUME ShutdownDropsRoutes PROVE ModeOK'
  BY <1>36 DEF ShutdownDropsRoutes, ModeOK, At, thread, store
<1>37. ASSUME ShutdownStops PROVE ModeOK'
  BY <1>37 DEF ShutdownStops, ModeOK, At, thread, store
<1>38. ASSUME MainExits PROVE ModeOK'
  BY <1>38 DEF MainExits, Gone, ModeOK
<1>39. ASSUME Crash PROVE ModeOK'
  BY <1>39 DEF Crash, Gone, ModeOK
<1>40. ASSUME Boot PROVE ModeOK'
  BY <1>40 DEF Boot, IInv, DownOK, ModeOK, thread
<1>41. ASSUME NEW t \in Tunnels, OrphanExits(t) PROVE ModeOK'
  BY <1>41 DEF OrphanExits, ModeOK, At, thread, process, store
<1>42. CASE UNCHANGED vars
  BY <1>42 DEF vars, ModeOK, At, thread, process, store
<1>. QED
  BY <1>2, <1>3, <1>4, <1>5, <1>6, <1>7, <1>8, <1>9, <1>10, <1>11, <1>12, <1>13, <1>14,
     <1>15, <1>16, <1>17, <1>18, <1>19, <1>20, <1>21, <1>22, <1>23, <1>24, <1>25, <1>26,
     <1>27, <1>28, <1>29, <1>30, <1>31, <1>32, <1>33, <1>34, <1>35, <1>36, <1>37, <1>38,
     <1>39, <1>40, <1>41, <1>42
  DEF Next, Locked, Exiting, Stopping

(* While no request holds a.mu the strategy is that of the stored mode, if  *)
(* no save fails.                                                           *)
THEOREM StrategyIsOfMode ==
  ASSUME "save" \notin FaultKinds
  PROVE  Spec => []StrategyFollowsMode
<1>1. Init => ModeOK
  BY DEF Init, DefaultState, ModeOK
<1>2. IInv /\ ModeOK /\ [Next]_vars => ModeOK'
  BY StepModeOK
<1>3. IInv /\ ModeOK => StrategyFollowsMode
  BY ConstantsAssumption DEF IInv, MuOK, ModeOK, At, StrategyFollowsMode
<1>. QED
  BY <1>1, <1>2, <1>3, Invariance, PTL DEF Spec

-----------------------------------------------------------------------------
(* Routes while the strategies do not fail and nothing ends by itself.      *)

\* No client exits, the process does not end.
Undisturbed ==
    /\ host = "up" /\ stopPc = "idle"
    /\ \A e \in Exits : exitPc[e] = "idle"
    /\ life # "exited"

\* Routes that were not left behind are those the state file names; a request
\* that makes another tunnel active, or none, has undone them.
FollowOK ==
    /\ \A m \in Modes :
        \/ routed[m] \in left \cup {None}
        \/ /\ m = strategy /\ file # None /\ file.mode = m /\ file.tunnel = routed[m]
           /\ routed[m] = mem.active \/ At({"storeRunning"})
    /\ \A r \in Requests :
        /\ pc[r] # "undo"
        /\ pc[r] \in {"cleanup", "stopOld", "start", "switchRoutes", "storeError", "stop",
                      "storeStopped"} => file = None
        /\ pc[r] = "storeRunning" => routed[strategy] = op[r].tunnel
        /\ pc[r] \in {"storeRouting", "recreate"} => mem.active = None \/ file = None
        /\ pc[r] \in {"replace", "readBack", "newHWID", "recreate", "reapply"} =>
            mem.active = snap[r].active

(* What Deactivate of the strategy leaves are routes that were left behind.  *)
LEMMA FollowOff ==
  ASSUME TypeOK, FollowOK, RoutesOff, ~Fail("routes")
  PROVE  file' = None /\ \A m \in Modes : routed'[m] \in left' \cup {None}
<1>1. file' = None /\ faults' = faults
  BY DEF RoutesOff
<1>2. CASE Undone
  <2>1. /\ routed' = [routed EXCEPT ![strategy] = None]
        /\ left' = {t \in left : \E m \in Modes \ {strategy} : routed[m] = t}
    BY <1>2 DEF RoutesOff
  <2>2. \A m \in Modes \ {strategy} : routed[m] \in left \cup {None}
    BY DEF FollowOK
  <2>. QED
    BY <1>1, <2>1, <2>2 DEF TypeOK
<1>3. CASE ~Undone
  <2>1. UNCHANGED <<routed, left>>
    BY <1>3 DEF RoutesOff
  <2>. QED
    BY <1>1, <1>3, <2>1 DEF FollowOK, Undone
<1>. QED
  BY <1>2, <1>3

(* Unless a strategy can fail, a client exit or the process end, every step *)
(* preserves both, whatever else fails.                                     *)
LEMMA StepFollowOK ==
  ASSUME IInv, RInv, Undisturbed, FollowOK, [Next]_vars,
         FaultKinds \cap {"routes", "exit", "crash"} = {}, MaxEnds = 0
  PROVE  Undisturbed' /\ FollowOK'
<1>1. /\ TypeOK
      /\ ~Fail("routes") /\ ~Fail("exit") /\ ~Fail("crash")
      /\ \A r \in Requests : pc[r] \notin {"idle", "lock"} =>
            mu = r /\ \A s \in Requests \ {r} : pc[s] \in {"idle", "lock"}
  BY DEF IInv, MuOK, Fail
<1>2. ASSUME NEW r \in Requests, Api(r) PROVE Undisturbed' /\ FollowOK'
  BY <1>2 DEF Api, Arrive, Goto, FollowOK, At, Undisturbed, store, runtime, routes, reasons
<1>3. ASSUME NEW r \in Requests, NEW t \in Tunnels, Hook(r, t) PROVE Undisturbed' /\ FollowOK'
  BY <1>1, <1>3
  DEF Hook, Arrive, Goto, FollowOK, At, TypeOK, Undisturbed, store, runtime, routes, reasons
<1>4. ASSUME NEW r \in Requests, Restore(r) PROVE Undisturbed' /\ FollowOK'
  BY <1>4
  DEF Restore, Arrive, Goto, FollowOK, At, Undisturbed, store, runtime, routes, reasons
<1>5. ASSUME NothingToRestore PROVE Undisturbed' /\ FollowOK'
  BY <1>5
  DEF NothingToRestore, FollowOK, At, Undisturbed, thread, store, runtime, routes, reasons
<1>6. ASSUME NEW r \in Requests, Lock(r) PROVE Undisturbed' /\ FollowOK'
  <2>1. op[r] \in RequestSet /\ pc[r] = "lock" /\ mu = None
    BY <1>6 DEF Lock, IInv, OpOK
  <2>2. \A s \in Requests : pc[s] \in {"idle", "lock"}
    BY <1>1, <2>1, ConstantsAssumption
  <2>3. mem.state = "running" <=> mem.active # None
    BY DEF IInv, StoreConsistent, Agrees
  <2>4. /\ \/ pc' \in {[pc EXCEPT ![r] = l] : l \in {"idle", "resetRoutes", "dropRoutes"}}
           \/ /\ pc' \in {[pc EXCEPT ![r] = l] :
                        l \in {"replace", "fetch", "newHWID", "oldRoutes", "storeRouting"}}
              /\ snap' = [snap EXCEPT ![r] = mem]
              /\ pc'[r] = "storeRouting" => mem.active = None
        /\ UNCHANGED <<store, strategy, process, runtime, routes, left>>
    BY <1>6, <2>1, <2>3, RequestFields DEF Lock, Done, Goto, FirstStep, RefreshStep, reasons
  <2>. QED
    BY <1>1, <2>2, <2>4
    DEF FollowOK, At, TypeOK, Undisturbed, process, store, runtime, routes
<1>7. ASSUME NEW r \in Requests, ResetRoutes(r) PROVE Undisturbed' /\ FollowOK'
  <2>1. file' = None /\ \A m \in Modes : routed'[m] \in left' \cup {None}
    BY <1>1, <1>7, FollowOff DEF ResetRoutes
  <2>. QED
    BY <1>1, <1>7, <2>1
    DEF ResetRoutes, Continue, Goto, FollowOK, Undisturbed, process, runtime
<1>8. ASSUME NEW r \in Requests, Cleanup(r) PROVE Undisturbed' /\ FollowOK'
  <2>1. file' = None /\ \A m \in Modes : routed'[m] \in left' \cup {None}
    <3>1. file' = None /\ \A m \in Modes : routed[m] \in left \cup {None}
      BY <1>8 DEF Cleanup, FollowOK
    <3>2. CASE DevicesOff
      BY <1>1, <3>1, <3>2 DEF DevicesOff, TypeOK
    <3>3. CASE UNCHANGED <<routed, unbacked, stray, left>>
      BY <3>1, <3>3
    <3>. QED
      BY <1>8, <3>2, <3>3 DEF Cleanup
  <2>2. /\ pc[r] = "cleanup" /\ pc' \in {[pc EXCEPT ![r] = l] : l \in {"stopOld", "idle"}}
        /\ \A s \in Requests \ {r} : op'[s] = op[s] /\ snap'[s] = snap[s]
        /\ UNCHANGED <<store, strategy, process, runtime>>
    BY <1>1, <1>8 DEF Cleanup, Continue, Done, Goto, TypeOK
  <2>. QED
    BY <1>1, <2>1, <2>2 DEF FollowOK, TypeOK, Undisturbed, process, runtime
<1>9. ASSUME NEW r \in Requests, StopOld(r) PROVE Undisturbed' /\ FollowOK'
  BY <1>1, <1>9
  DEF StopOld, ClientOff, Continue, Goto, FollowOK, TypeOK, Undisturbed, process, runtime, routes
<1>10. ASSUME NEW r \in Requests, Start(r) PROVE Undisturbed' /\ FollowOK'
  BY <1>1, <1>10
  DEF Start, Continue, Goto, FollowOK, TypeOK, Undisturbed, process, runtime, routes, reasons
<1>11. ASSUME NEW r \in Requests, SwitchRoutes(r) PROVE Undisturbed' /\ FollowOK'
  <2>1. op[r].tunnel \in Tunnels
    BY <1>11 DEF SwitchRoutes, IInv, ActivatingOK, Activating
  <2>. QED
    BY <1>1, <1>11, <2>1, NoneAssumption
    DEF SwitchRoutes, RoutesOn, RoutesOnFails, Continue, Goto, FollowOK, At, TypeOK,
        Undisturbed, process, runtime
<1>12. ASSUME NEW r \in Requests, Undo(r) PROVE Undisturbed' /\ FollowOK'
  BY <1>12 DEF Undo, FollowOK
<1>13. ASSUME NEW r \in Requests, StoreError(r) PROVE Undisturbed' /\ FollowOK'
  <2>1. mem'.active = None
    BY <1>1, <1>13 DEF StoreError, Save, SaveFails, Cleared, TypeOK, States
  <2>. QED
    BY <1>1, <1>13
    DEF StoreError, Done, Goto, FollowOK, Undisturbed, process, runtime, routes
<1>14. ASSUME NEW r \in Requests, StoreRunning(r) PROVE Undisturbed' /\ FollowOK'
  <2>1. mem'.active = op[r].tunnel
    BY <1>1, <1>14 DEF StoreRunning, Save, SaveFails, Running, TypeOK, States
  <2>. QED
    BY <1>1, <1>14, <2>1
    DEF StoreRunning, Done, Goto, FollowOK, TypeOK, Undisturbed, process, runtime, routes
<1>15. ASSUME NEW r \in Requests, DropRoutes(r) PROVE Undisturbed' /\ FollowOK'
  <2>1. file' = None /\ \A m \in Modes : routed'[m] \in left' \cup {None}
    BY <1>1, <1>15, FollowOff DEF DropRoutes
  <2>. QED
    BY <1>1, <1>15, <2>1
    DEF DropRoutes, Continue, Goto, FollowOK, Undisturbed, process, runtime
<1>16. ASSUME NEW r \in Requests, Stop(r) PROVE Undisturbed' /\ FollowOK'
  BY <1>1, <1>16
  DEF Stop, ClientOff, Continue, Done, Goto, FollowOK, TypeOK, Undisturbed, process, routes
<1>17. ASSUME NEW r \in Requests, StoreStopped(r) PROVE Undisturbed' /\ FollowOK'
  <2>1. mem'.active = None
    BY <1>1, <1>17 DEF StoreStopped, Save, SaveFails, Cleared, TypeOK, States
  <2>. QED
    BY <1>1, <1>17
    DEF StoreStopped, Done, Goto, FollowOK, Undisturbed, process, runtime, routes
<1>18. ASSUME NEW r \in Requests, ImportReplace(r) PROVE Undisturbed' /\ FollowOK'
  <2>. DEFINE next == [snap[r] EXCEPT !.url = "set", !.hwid = "set"]
  <2>1. pc[r] = "replace" /\ snap[r] \in States /\ mem.active = snap[r].active
    BY <1>18 DEF ImportReplace, IInv, SnapOK, FollowOK
  <2>2. next.active = mem.active
    BY <2>1
  <2>. HIDE DEF next
  <2>3. /\ mem' = next
        /\ \/ /\ pc' \in {[pc EXCEPT ![r] = l] : l \in {"readBack", "fetch"}}
              /\ snap' = [snap EXCEPT ![r] = next]
           \/ /\ pc' = [pc EXCEPT ![r] = "idle"]
              /\ snap' = [snap EXCEPT ![r] = None]
        /\ \A s \in Requests \ {r} : op'[s] = op[s]
        /\ UNCHANGED <<strategy, process, runtime, routes, left>>
    BY <1>1, <1>18 DEF ImportReplace, WriteBack, Save, SaveFails, Done, Goto, TypeOK, next
  <2>. QED
    BY <1>1, <2>1, <2>2, <2>3
    DEF FollowOK, At, TypeOK, Undisturbed, process, runtime, routes
<1>19. ASSUME NEW r \in Requests, ReadBack(r) PROVE Undisturbed' /\ FollowOK'
  BY <1>1, <1>19
  DEF ReadBack, RefreshStep, Done, Goto, FollowOK, At, TypeOK, Undisturbed, process, store,
      runtime, routes, reasons
<1>20. ASSUME NEW r \in Requests, RefreshReplace(r) PROVE Undisturbed' /\ FollowOK'
  <2>. DEFINE next == [snap[r] EXCEPT !.hwid = "set"]
  <2>1. pc[r] = "newHWID" /\ snap[r] \in States /\ mem.active = snap[r].active
    BY <1>20 DEF RefreshReplace, IInv, SnapOK, FollowOK
  <2>2. next.active = mem.active
    BY <2>1
  <2>. HIDE DEF next
  <2>3. /\ mem' = next
        /\ \/ /\ pc' \in {[pc EXCEPT ![r] = l] : l \in {"readBack", "fetch"}}
              /\ snap' = [snap EXCEPT ![r] = next]
           \/ /\ pc' = [pc EXCEPT ![r] = "idle"]
              /\ snap' = [snap EXCEPT ![r] = None]
        /\ \A s \in Requests \ {r} : op'[s] = op[s]
        /\ UNCHANGED <<strategy, process, runtime, routes, left>>
    BY <1>1, <1>20 DEF RefreshReplace, WriteBack, Save, SaveFails, Done, Goto, TypeOK, next
  <2>. QED
    BY <1>1, <2>1, <2>2, <2>3
    DEF FollowOK, At, TypeOK, Undisturbed, process, runtime, routes
<1>21. ASSUME NEW r \in Requests, FetchFails(r) PROVE Undisturbed' /\ FollowOK'
  BY <1>21
  DEF FetchFails, Save, SaveFails, Done, Goto, FollowOK, At, Undisturbed, process, runtime,
      routes, reasons
<1>22. ASSUME NEW r \in Requests, NEW fresh \in SUBSET Tunnels, Merge(r, fresh)
       PROVE  Undisturbed' /\ FollowOK'
  <2>1. mem'.active \in {mem.active, None}
    BY <1>1, <1>22, MergedFields DEF Merge, Save, SaveFails, TypeOK
  <2>2. /\ pc' \in {[pc EXCEPT ![r] = "stopGone"], [pc EXCEPT ![r] = "idle"]}
        /\ pc[r] = "fetch"
        /\ left' = IF mem'.active = None THEN left \cup ({mem.active} \ {None}) ELSE left
        /\ UNCHANGED <<strategy, process, runtime, routes>>
        /\ \A s \in Requests \ {r} : op'[s] = op[s] /\ snap'[s] = snap[s]
    BY <1>1, <1>22 DEF Merge, Save, SaveFails, Continue, Done, Goto, TypeOK
  <2>. QED
    BY <1>1, <2>1, <2>2 DEF FollowOK, At, TypeOK, Undisturbed, process, runtime, routes
<1>23. ASSUME NEW r \in Requests, StopGone(r) PROVE Undisturbed' /\ FollowOK'
  BY <1>23
  DEF StopGone, ClientOff, Done, Goto, FollowOK, At, Undisturbed, process, store, routes
<1>24. ASSUME PatchSettings PROVE Undisturbed' /\ FollowOK'
  BY <1>1, <1>24
  DEF PatchSettings, Save, SaveFails, FollowOK, At, TypeOK, States, Undisturbed, thread,
      process, runtime, routes, reasons
<1>25. ASSUME NEW r \in Requests, OldRoutes(r) PROVE Undisturbed' /\ FollowOK'
  <2>1. file' = None /\ \A m \in Modes : routed'[m] \in left' \cup {None}
    BY <1>1, <1>25, FollowOff DEF OldRoutes
  <2>. QED
    BY <1>1, <1>25, <2>1
    DEF OldRoutes, Continue, Goto, FollowOK, Undisturbed, process, runtime
<1>26. ASSUME NEW r \in Requests, RoutingRejected(r) PROVE Undisturbed' /\ FollowOK'
  BY <1>1, <1>26
  DEF RoutingRejected, Done, Goto, FollowOK, At, TypeOK, Undisturbed, process, runtime,
      routes
<1>27. ASSUME NEW r \in Requests, StoreRouting(r) PROVE Undisturbed' /\ FollowOK'
  <2>. DEFINE next == IF op[r].mode = None THEN mem ELSE [mem EXCEPT !.mode = op[r].mode]
  <2>1. /\ pc[r] = "storeRouting" /\ op[r] \in RequestSet /\ op[r].mode # "invalid"
        /\ mem.active = None \/ snap[r].state = "running"
    BY <1>27 DEF StoreRouting, IInv, OpOK, RInv, PlaceOK
  <2>2. next \in States /\ next.active = mem.active
    BY <1>1, <2>1, RequestFields DEF TypeOK, States
  <2>3. Cleared(next, "stopped").active = None
    BY DEF Cleared
  <2>4. /\ mem' = next
        /\ \/ /\ pc' \in {[pc EXCEPT ![r] = "reapply"], [pc EXCEPT ![r] = "recreate"]}
              /\ snap' = [snap EXCEPT ![r] =
                    IF snap[r].state = "running" THEN next ELSE Cleared(next, "stopped")]
              /\ op' = op
           \/ /\ pc' = [pc EXCEPT ![r] = "idle"]
              /\ snap' = [snap EXCEPT ![r] = None]
              /\ op' = [op EXCEPT ![r] = None]
        /\ UNCHANGED <<strategy, process, runtime, routes, left>>
    BY <1>1, <1>27 DEF StoreRouting, Save, SaveFails, Done, Goto
  <2>. HIDE DEF next
  <2>. QED
    BY <1>1, <2>1, <2>2, <2>3, <2>4
    DEF FollowOK, At, TypeOK, Undisturbed, process, runtime, routes
<1>28. ASSUME NEW r \in Requests, Recreate(r) PROVE Undisturbed' /\ FollowOK'
  BY <1>1, <1>28
  DEF Recreate, Continue, Goto, FollowOK, At, Undisturbed, process, store, runtime, routes,
      reasons
<1>29. ASSUME NEW r \in Requests, Reapply(r) PROVE Undisturbed' /\ FollowOK'
  BY <1>1, <1>29, NoneAssumption
  DEF Reapply, RoutesOn, RoutesOnFails, Done, Goto, FollowOK, At, TypeOK, States,
      Undisturbed, process, store, runtime, routes
<1>30. ASSUME ClientExits PROVE Undisturbed' /\ FollowOK'
  BY <1>1, <1>30 DEF ClientExits
<1>31. ASSUME NEW e \in Exits, Report(e) PROVE Undisturbed' /\ FollowOK'
  BY <1>31 DEF Report, Undisturbed
<1>32. ASSUME NEW e \in Exits, ExitDropsRoutes(e) PROVE Undisturbed' /\ FollowOK'
  BY <1>32 DEF ExitDropsRoutes, Undisturbed
<1>33. ASSUME NEW e \in Exits, ExitStored(e) PROVE Undisturbed' /\ FollowOK'
  BY <1>33 DEF ExitStored, Undisturbed
<1>34. ASSUME Signal PROVE Undisturbed' /\ FollowOK'
  BY <1>1, <1>34 DEF Signal, TypeOK
<1>35. ASSUME ShutdownLooks PROVE Undisturbed' /\ FollowOK'
  BY <1>35 DEF ShutdownLooks, Undisturbed
<1>36. ASSUME ShutdownDropsRoutes PROVE Undisturbed' /\ FollowOK'
  BY <1>36 DEF ShutdownDropsRoutes, Undisturbed
<1>37. ASSUME ShutdownStops PROVE Undisturbed' /\ FollowOK'
  BY <1>37 DEF ShutdownStops, Undisturbed
<1>38. ASSUME MainExits PROVE Undisturbed' /\ FollowOK'
  BY <1>1, <1>38 DEF MainExits, Gone, TypeOK
<1>39. ASSUME Crash PROVE Undisturbed' /\ FollowOK'
  BY <1>1, <1>39 DEF Crash
<1>40. ASSUME Boot PROVE Undisturbed' /\ FollowOK'
  BY <1>40 DEF Boot, Undisturbed
<1>41. ASSUME NEW t \in Tunnels, OrphanExits(t) PROVE Undisturbed' /\ FollowOK'
  BY <1>41
  DEF OrphanExits, FollowOK, At, Undisturbed, thread, process, store, runtime, routes,
      reasons
<1>42. CASE UNCHANGED vars
  BY <1>42
  DEF vars, FollowOK, At, Undisturbed, thread, process, store, runtime, routes, reasons
<1>. QED
  BY <1>2, <1>3, <1>4, <1>5, <1>6, <1>7, <1>8, <1>9, <1>10, <1>11, <1>12, <1>13, <1>14,
     <1>15, <1>16, <1>17, <1>18, <1>19, <1>20, <1>21, <1>22, <1>23, <1>24, <1>25, <1>26,
     <1>27, <1>28, <1>29, <1>30, <1>31, <1>32, <1>33, <1>34, <1>35, <1>36, <1>37, <1>38,
     <1>39, <1>40, <1>41, <1>42
  DEF Next, Locked, Exiting, Stopping

(* As long as no strategy fails, no client exits and the process does not   *)
(* end, and when nobody is at work, routes lead into the active tunnel of   *)
(* the current mode, or were left by a refresh, after any sequence and      *)
(* interleaving of requests - those included whose save, cleanup, start or  *)
(* SIGTERM fails.                                                           *)
THEOREM RoutesFollow ==
  ASSUME FaultKinds \cap {"routes", "exit", "crash"} = {}, MaxEnds = 0
  PROVE  Spec => []RoutesFollowTunnel
<1>1. Init => Undisturbed /\ FollowOK
  BY DEF Init, Undisturbed, FollowOK
<1>2. IInv /\ RInv /\ Undisturbed /\ FollowOK /\ [Next]_vars => Undisturbed' /\ FollowOK'
  BY StepFollowOK
<1>3. IInv /\ FollowOK => RoutesFollowTunnel
  BY ConstantsAssumption DEF IInv, MuOK, FollowOK, At, Quiet, RoutesFollowTunnel
<1>. QED
  BY <1>1, <1>2, <1>3, Invariance, RInvariance, PTL DEF Spec

===============================================================================
