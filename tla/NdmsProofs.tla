------------------------------ MODULE NdmsProofs ------------------------------
(***************************************************************************)
(* Proofs about Ndms, for any tunnels and bounds.                          *)
(*                                                                         *)
(* RouterAgrees says nothing of the time in which a call tells the router  *)
(* tunnel after tunnel.  IInv does: what has been told is right, unless    *)
(* there is doubt, and what is told is what the store says or is about to  *)
(* say.                                                                    *)
(***************************************************************************)
EXTENDS Ndms, TLAPS

\* a.mu is held exactly while a call is served, by a call of the step it is at.
HolderOK ==
    /\ holder = None <=> pc = "idle"
    /\ pc \in Kinds => holder.kind = pc
    /\ pc # "sync" => todo = {}
    /\ pc = "sync" /\ holder.kind = "activate" => want = holder.tunnel
    /\ doubt = "healing" => pc # "idle"

\* Before it begins to tell the router, nothing has changed.
BeforeOK == pc # "sync" /\ doubt = "none" => UpIs(active)

\* What has been told is right.
ToldOK ==
    pc = "sync" /\ doubt # "doubt" =>
        \A s \in Present \ todo : flag[s] = (IF s = want THEN "up" ELSE "down")

\* What a deactivation or a refresh tells is in the store.
WantOK == pc = "sync" /\ doubt # "doubt" /\ holder.kind # "activate" => want = active

IInv == TypeOK /\ HolderOK /\ BeforeOK /\ ToldOK /\ WantOK

(* The tunnel that is told next is one of those to be told.                 *)
LEMMA FirstIn ==
  ASSUME NEW tunnels, tunnels # {}
  PROVE  First(tunnels) \in tunnels
  BY DEF First

(* A setting keeps its type, and the others their value.                    *)
LEMMA SetFlag ==
  ASSUME TypeOK, NEW t \in Tunnels, NEW level \in {"down", "up"},
         NEW by \in {"user", "manager"}, Set(t, level, by)
  PROVE  /\ flag' = [flag EXCEPT ![t] = level]
         /\ calls' \subseteq CallSet
  BY DEF Set, Tell, Arrives, Call, CallSet, TypeOK

LEMMA FailedSet ==
  ASSUME TypeOK, NEW t \in Tunnels, NEW enabled \in BOOLEAN, SyncOpkgTunFails(t, enabled)
  PROVE  /\ flag' \in [Tunnels -> {"unknown", "down", "up"}]
         /\ calls' \subseteq CallSet
<1>1. CASE SyncOpkgTun(t, enabled)
  BY <1>1, SetFlag DEF SyncOpkgTun, TypeOK
<1>2. CASE ~SyncOpkgTun(t, enabled)
  BY <1>2 DEF SyncOpkgTunFails, TypeOK
<1>. QED
  BY <1>1, <1>2

-----------------------------------------------------------------------------
LEMMA InitIInv == Init => IInv
  BY ConstantsAssumption
  DEF Init, IInv, TypeOK, HolderOK, BeforeOK, ToldOK, WantOK, UpIs, Present, Kinds, CallSet

(* Every step of a call, of the boot, of the router and of a client keeps   *)
(* IInv.                                                                    *)
LEMMA StepIInv == IInv /\ [Next]_vars => IInv'
<1> SUFFICES ASSUME IInv, [Next]_vars PROVE IInv'
  OBVIOUS
<1> USE ConstantsAssumption
    DEF IInv, TypeOK, HolderOK, BeforeOK, ToldOK, WantOK, UpIs, Present, Kinds
<1>1. ASSUME Api PROVE IInv'
  <2>1. PICK q \in CallSet : Arrives(q)
    BY <1>1 DEF Api, Ask, Call, CallSet, Known
  <2>. QED
    BY <1>1, <2>1 DEF Api, Arrives, store, sync, start
<1>2. ASSUME Restore PROVE IInv'
  <2>1. calls' \subseteq CallSet
    BY <1>2 DEF Restore, Ask, Arrives, Call, CallSet
  <2>. QED
    BY <1>2, <2>1 DEF Restore, store, sync
<1>3. ASSUME NEW q \in calls, IfaceChanged(q) PROVE IInv'
  <2>1. calls' \subseteq CallSet
    BY <1>3 DEF IfaceChanged, CallSet
  <2>. QED
    BY <1>3, <2>1 DEF IfaceChanged, store, sync, start
<1>4. ASSUME NEW q \in calls, Lock(q) PROVE IInv'
  <2>1. q \in CallSet /\ q # None /\ q.kind \in {"activate", "deactivate", "refresh"}
    BY <1>4, NoneAssumption DEF CallSet
  <2>. QED
    BY <1>4, <2>1 DEF Lock, store, start
<1>5. ASSUME EndsEarly PROVE IInv'
  BY <1>5 DEF EndsEarly, Trouble, Release, store, start
<1>6. ASSUME Announce PROVE IInv'
  <2>1. holder \in CallSet /\ holder.kind = "activate" /\ holder.tunnel \in Tunnels
    BY <1>6 DEF Announce, CallSet
  <2>. QED
    BY <1>6, <2>1 DEF Announce, store, start
<1>7. ASSUME Deactivate PROVE IInv'
  BY <1>7 DEF Deactivate, store, start
<1>8. ASSUME NEW fresh \in SUBSET Tunnels, Merge(fresh) PROVE IInv'
  <2>1. profile' \in [Tunnels -> {"absent", "present", "missing"}] /\ Present' = fresh
    BY <1>8 DEF Merge
  <2>2. active' \in Tunnels \cup {None} /\ want' = active'
    BY <1>8 DEF Merge
  <2>. QED
    BY <1>8, <2>1, <2>2 DEF Merge, start
<1>9. ASSUME Sync PROVE IInv'
  <2> DEFINE t == First(todo)
  <2>1. t \in todo /\ t \in Tunnels /\ todo' = todo \ {t}
    BY <1>9, FirstIn DEF Sync
  <2>2. UNCHANGED <<active, profile, holder, pc, want, boot, bootTodo, bootWant, restore>>
    BY <1>9 DEF Sync, store, start
  <2>3. pc = "sync"
    BY <1>9 DEF Sync
  <2>4. CASE SyncOpkgTun(t, t = want) /\ UNCHANGED <<troubles, doubt>>
    <3> DEFINE level == IF t = want THEN "up" ELSE "down"
    <3>1. flag' = [flag EXCEPT ![t] = level] /\ calls' \subseteq CallSet
      BY <2>1, <2>4, SetFlag DEF SyncOpkgTun
    <3>. QED
      BY <2>1, <2>2, <2>3, <2>4, <3>1
  <2>5. CASE SyncOpkgTunFails(t, t = want) /\ Trouble /\ doubt' = "doubt"
    <3>1. flag' \in [Tunnels -> {"unknown", "down", "up"}] /\ calls' \subseteq CallSet
      BY <2>1, <2>5, FailedSet
    <3>. QED
      BY <2>1, <2>2, <2>3, <2>5, <3>1 DEF Trouble
  <2>. QED
    BY <1>9, <2>4, <2>5 DEF Sync
<1>10. ASSUME Start PROVE IInv'
  <2>1. holder.tunnel \in Tunnels
    BY <1>10 DEF Start, Synced, CallSet
  <2>. QED
    BY <1>10, <2>1 DEF Start, Synced, Release, start
<1>11. ASSUME StartFails PROVE IInv'
  BY <1>11 DEF StartFails, Synced, Trouble, Release, start
<1>12. ASSUME Finish PROVE IInv'
  BY <1>12 DEF Finish, Synced, Release, store, start
<1>13. ASSUME BootLooks PROVE IInv'
  BY <1>13 DEF BootLooks, store, sync
<1>14. ASSUME BootSync PROVE IInv'
  <2> DEFINE t == First(bootTodo)
  <2>1. t \in Tunnels /\ bootTodo' \subseteq Tunnels
    BY <1>14, FirstIn DEF BootSync
  <2>2. UNCHANGED <<active, profile, holder, pc, todo, want, boot, bootWant, restore>>
    BY <1>14 DEF BootSync, store, sync
  <2>3. doubt' = IF bootWant = active /\ holder = None /\ UNCHANGED troubles
                 THEN doubt ELSE "doubt"
    BY <1>14 DEF BootSync
  <2>4. CASE SyncOpkgTun(t, t = bootWant) /\ UNCHANGED troubles
    <3> DEFINE level == IF t = bootWant THEN "up" ELSE "down"
    <3>1. flag' = [flag EXCEPT ![t] = level] /\ calls' \subseteq CallSet
      BY <2>1, <2>4, SetFlag DEF SyncOpkgTun
    <3>. QED
      BY <2>1, <2>2, <2>3, <2>4, <3>1
  <2>5. CASE SyncOpkgTunFails(t, t = bootWant) /\ Trouble
    <3>1. flag' \in [Tunnels -> {"unknown", "down", "up"}] /\ calls' \subseteq CallSet
      BY <2>1, <2>5, FailedSet
    <3>2. doubt' = "doubt" /\ troubles' \in 0 .. MaxTroubles
      BY <2>3, <2>5 DEF Trouble
    <3>. QED
      BY <2>1, <2>2, <3>1, <3>2
  <2>. QED
    BY <1>14, <2>4, <2>5 DEF BootSync
<1>15. ASSUME BootDone PROVE IInv'
  BY <1>15 DEF BootDone, store, sync
<1>16. ASSUME Exit PROVE IInv'
  BY <1>16 DEF Exit, Trouble, sync, start
<1>17. ASSUME NEW t \in Tunnels, Toggle(t) PROVE IInv'
  <2>1. flag' \in [Tunnels -> {"unknown", "down", "up"}] /\ calls' \subseteq CallSet
    BY <1>17, SetFlag DEF Toggle
  <2>. QED
    BY <1>17, <2>1 DEF Toggle, Trouble, store, sync, start
<1>18. CASE UNCHANGED vars
  BY <1>18 DEF vars, store, sync, start
<1>. QED
  BY <1>1, <1>2, <1>3, <1>4, <1>5, <1>6, <1>7, <1>8, <1>9, <1>10, <1>11, <1>12, <1>13, <1>14,
     <1>15, <1>16, <1>17, <1>18 DEF Next, Serve, Booting

(* IInv holds in every reachable state.                                     *)
THEOREM Invariance == Spec => []IInv
  BY InitIInv, StepIInv, PTL DEF Spec

(* The variables have the types that their comments say.                    *)
THEOREM TypeCorrect == Spec => []TypeOK
  BY Invariance, PTL DEF IInv

(* Outside of calls and doubt, the router has the store's active tunnel up  *)
(* and no other.                                                            *)
THEOREM RouterFollowsStore == Spec => []RouterAgrees
<1>1. IInv => RouterAgrees
  BY DEF IInv, HolderOK, BeforeOK, RouterAgrees
<1>. QED
  BY <1>1, Invariance, PTL

(* A client is started when its interface, and no other, is up.             *)
THEOREM RouterIsReady == Spec => []RouterReady
<1>1. IInv => RouterReady
  BY DEF IInv, HolderOK, ToldOK, RouterReady, Synced, UpIs
<1>. QED
  BY <1>1, Invariance, PTL
=============================================================================
