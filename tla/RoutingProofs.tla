---------------------------- MODULE RoutingProofs ----------------------------
(***************************************************************************)
(* Proofs about Routing, for any tunnels, groups, routes and bounds.       *)
(*                                                                         *)
(* Recorded and NoLoop speak of moments in which nobody is at work, or of  *)
(* the default route alone.  In between, what is installed is in the state *)
(* file or in the record of the one caller that activates; who undoes,     *)
(* undoes what is in the file; and who activates, does it alone - as long  *)
(* as nothing spoiled it.  IInv says that.                                 *)
(***************************************************************************)
EXTENDS Routing, TLAPS

UndoPlaces == {"undoDefault", "undoDomains", "undoStatics", "unpin", "undoRules", "remove"}

Clean == spoiled \in {"no", "unpinned"}

Undoing(c) == job[c].at \in UndoPlaces

\* No caller without the lock undoes anything.
Alone == ~Undoing("exit") /\ ~Undoing("shutdown")

\* A caller past its first step has what it works on.
JobOK ==
    /\ \A c \in Callers : Undoing(c) => job[c].rs \in RouteStates
    /\ \A c \in Callers : job[c].at = "load" => job[c].by \in Modes
    /\ job["request"].at # "begin"
    /\ Activating => job["request"].rs \in RouteStates
    /\ job["request"].at \in {"load", "turn"} \cup UndoPlaces \/ Activating =>
        job["request"].plan \in Plans
    /\ Fetching => job["request"].host \in Hosts

\* The rules of the tunnel that is going to be activated have not reached the bound.
RoomOK ==
    LET j == job["request"] IN
    /\ j.at \in {"load", "turn"} \cup UndoPlaces =>
        /\ j.plan.kind = "switch" => rules[j.plan.iface] < MaxCopies
        /\ j.plan.kind = "update" /\ active # None => rules[active] < MaxCopies
    /\ Activating /\ j.at # "save" => rules[j.rs.iface] < MaxCopies

\* What a record says of the default route that was replaced.
FromWan(rs) == rs.default = IF rs.mode = "global" THEN "wan" ELSE "none"

\* At most the tunnel of the state file, or of the activation at its end, has the
\* default route.
RoutesOK ==
    /\ default \in {"wan"} \cup Tunnels
    /\ \A h \in Destinations : pins[h] \in {"wan", None}
    /\ default \in Tunnels =>
        \/ file # None /\ file.mode = "global" /\ file.iface = default
        \/ /\ job["request"].at = "save"
           /\ job["request"].rs.mode = "global" /\ job["request"].rs.iface = default
    /\ file # None => FromWan(file)
    /\ job["request"].at = "fetch" /\ strategy = "global" /\ default \in Tunnels =>
        pins[job["request"].host] = "wan"

\* Who undoes, undoes what is in the file, as long as there is one.
UndoOK ==
    \A c \in Callers : Undoing(c) =>
        /\ FromWan(job[c].rs)
        /\ file # None => job[c].rs = file
        /\ IF job[c].at = "undoDefault" THEN job[c].rs.mode = "global" ELSE default = "wan"

\* Who activates, does it alone.
ActivateOK ==
    LET j == job["request"] IN
    /\ j.at = "turn" => file = None
    /\ Activating =>
        /\ file = None
        /\ Alone
        /\ FromWan(j.rs)
        /\ j.at = "default" => j.rs.mode = "global"
        /\ j.at \in {"domains", "statics", "rules"} => j.rs.mode = "selective"

\* What the activation of the tunnel with the default route pinned leads to the WAN.
KeptOK ==
    LET j == job["request"] IN
    /\ default \in Tunnels /\ file # None => \A h \in file.pins : pins[h] = "wan"
    /\ j.at \in {"default", "save"} /\ j.rs.mode = "global" =>
        \A h \in j.rs.pins : pins[h] = "wan"

\* Nothing was passed over.
PinsOK ==
    LET j == job["request"] IN
    spoiled = "no" =>
        /\ j.at \in {"default", "save"} /\ j.rs.mode = "global" =>
            {j.rs.iface, "networks"} \subseteq j.rs.pins
        /\ default \in Tunnels /\ file # None => {default, "networks"} \subseteq file.pins

\* What is installed, apart from the default route and the rules, is in rs.
Holds(rs) ==
    /\ \A h \in Destinations \ Hosts : pins[h] # None => h \in rs.pins
    /\ groups \subseteq rs.groups
    /\ \A g \in Groups : dns[g] # None => dns[g] = rs.iface /\ g \in rs.groups
    /\ \A d \in CIDRs : statics[d] # None => statics[d] = rs.iface /\ d \in rs.statics
    /\ rs.mode = "global" => rs.groups = {} /\ rs.statics = {}

RulesOf(rs) ==
    \A t \in Tunnels : rules[t] <= IF t = rs.iface /\ rs.mode = "selective" THEN 1 ELSE 0

NoPins    == \A h \in Destinations \ Hosts : pins[h] = None
NoDomains == groups = {} /\ \A g \in Groups : dns[g] = None
NoStatics == \A d \in CIDRs : statics[d] = None
NoRules   == \A t \in Tunnels : rules[t] = 0

HoldOK ==
    LET j == job["request"] IN
    /\ file # None => Holds(file) /\ RulesOf(file)
    /\ file = None /\ ~Activating => NoPins /\ NoDomains /\ NoStatics /\ NoRules
    /\ Activating =>
        /\ Holds(j.rs)
        /\ IF j.at = "save" THEN RulesOf(j.rs) ELSE NoRules
        /\ j.at \in {"wait", "pin"} => j.rs.pins = {}
        /\ j.at \in {"wait", "pin", "domains"} => j.rs.groups = {}
        /\ j.at \in {"wait", "pin", "domains", "statics"} => j.rs.statics = {}

\* What a caller has undone stays away.
ProgressOK ==
    \A c \in Callers :
        /\ job[c].at \in {"undoStatics", "unpin", "undoRules", "remove"} => NoDomains
        /\ job[c].at \in {"unpin", "undoRules", "remove"} => NoStatics
        /\ job[c].at \in {"undoRules", "remove"} => NoPins
        /\ job[c].at = "remove" => NoRules

CleanOK == RoutesOK /\ UndoOK /\ ActivateOK /\ KeptOK /\ PinsOK /\ HoldOK /\ ProgressOK

IInv ==
    /\ TypeOK
    /\ JobOK
    /\ RoomOK
    /\ Clean => CleanOK

-----------------------------------------------------------------------------
\* The caller c goes on at l with the record rs, or is done.
Moves(c, l, rs) ==
    /\ job' \in [Callers -> Jobs]
    /\ job'[c].at = l /\ job'[c].rs = rs
    /\ job'[c].plan = job[c].plan /\ job'[c].host = job[c].host
    /\ \A d \in Callers \ {c} : job'[d] = job[d]

Rests(c) ==
    /\ job' \in [Callers -> Jobs]
    /\ job'[c].at = "idle"
    /\ \A d \in Callers \ {c} : job'[d] = job[d]

(* Goto moves a caller on and leaves the others alone.                      *)
LEMMA GotoMoves ==
  ASSUME TypeOK, NEW c \in Callers, NEW l \in Places, Goto(c, l)
  PROVE  Moves(c, l, job[c].rs)
  BY DEF TypeOK, Goto, Moves, Jobs

(* Record does the same with a new record.                                  *)
LEMMA RecordMoves ==
  ASSUME TypeOK, NEW c \in Callers, NEW l \in Places,
         NEW rs \in RouteStates \cup {None}, Record(c, l, rs)
  PROVE  Moves(c, l, rs)
  BY DEF TypeOK, Record, Moves, Jobs

(* Idle ends what a caller does.                                            *)
LEMMA IdleRests ==
  ASSUME TypeOK, NEW c \in Callers, Idle(c)
  PROVE  Rests(c)
  BY DEF TypeOK, Idle, Rests, Jobs, IdleJob, Places

(* What the fields of a state record are.                                   *)
LEMMA RecordFields ==
  ASSUME NEW rs \in RouteStates
  PROVE  /\ rs.mode \in Modes /\ rs.iface \in Tunnels
         /\ rs.default \in {"wan", "none"} \cup Tunnels
         /\ rs.pins \subseteq Destinations /\ rs.groups \subseteq Groups
         /\ rs.statics \subseteq CIDRs
         /\ rs # None
  BY NoneAssumption DEF RouteStates

(* A record with other pins, groups or routes is a record.                  *)
LEMMA RecordUpdates ==
  ASSUME NEW rs \in RouteStates
  PROVE  /\ \A x \in SUBSET Destinations : [rs EXCEPT !.pins = x] \in RouteStates
         /\ \A x \in SUBSET Groups : [rs EXCEPT !.groups = x] \in RouteStates
         /\ \A x \in SUBSET CIDRs : [rs EXCEPT !.statics = x] \in RouteStates
  BY DEF RouteStates

(* A record begins blank.                                                   *)
LEMMA Blanks ==
  ASSUME NEW mode \in Modes, NEW t \in Tunnels, NEW r \in {"wan", "none"} \cup Tunnels
  PROVE  Blank(mode, t, r) \in RouteStates
  BY DEF Blank, RouteStates

(* What Deactivate loads is a record of the strategy it uses, and the file  *)
(* itself when that strategy wrote it.                                      *)
LEMMA LoadedRecord ==
  ASSUME TypeOK, file # None, NEW mode \in Modes
  PROVE  /\ Loaded(file, mode) \in RouteStates
         /\ file.mode = mode => Loaded(file, mode) = file
  BY DEF TypeOK, Loaded, Blank, RouteStates

(* What the fields of a plan are.                                           *)
LEMMA PlanFields ==
  ASSUME NEW plan \in Plans
  PROVE  /\ plan.kind = "switch" => plan.iface \in Tunnels
         /\ plan.kind = "update" => plan.routing \in RoutingConfigs
         /\ plan.kind \in {"switch", "stop", "update"}
         /\ plan # None
  BY NoneAssumption DEF Plans

\* The caller c is done with the routes, or gave up.
Leaves(c) ==
    /\ job' \in [Callers -> Jobs]
    /\ job'[c].at \in {"idle", "turn", "ended"}
    /\ job'[c].at = "turn" <=> c = "request"
    /\ job'[c].plan \in {job[c].plan, None} /\ (c = "request" => job'[c].plan = job[c].plan)
    /\ \A d \in Callers \ {c} : job'[d] = job[d]

(* When the routes are off a request takes its turn, and the others are     *)
(* done with them.                                                          *)
LEMMA OffLeaves ==
  ASSUME TypeOK, NEW c \in Callers, Off(c)
  PROVE  /\ Leaves(c)
         /\ running' \in Tunnels \cup {None} /\ active' \in {active, None}
         /\ saved' \in RoutingConfigs
  BY GotoMoves, IdleRests
  DEF Off, Callers, Places, Leaves, Moves, Rests, runtime, TypeOK, Idle, IdleJob

\* The request goes on at l, and its record has these pins, groups and routes.
Grows(l, p, g, s) ==
    LET rs == job["request"].rs
        rt == job'["request"].rs
    IN /\ job' \in [Callers -> Jobs]
       /\ job'["request"].at = l /\ job'["request"].plan = job["request"].plan
       /\ job'["exit"] = job["exit"] /\ job'["shutdown"] = job["shutdown"]
       /\ rt \in RouteStates
       /\ rt.mode = rs.mode /\ rt.iface = rs.iface /\ rt.default = rs.default
       /\ rt.pins = p /\ rt.groups = g /\ rt.statics = s

(* Record of a record of the same tunnel.                                   *)
LEMMA RecordGrows ==
  ASSUME TypeOK, job["request"].rs \in RouteStates, NEW l \in Places,
         NEW rt \in RouteStates, Record("request", l, rt),
         rt.mode = job["request"].rs.mode, rt.iface = job["request"].rs.iface,
         rt.default = job["request"].rs.default
  PROVE  Grows(l, rt.pins, rt.groups, rt.statics)
  BY RecordMoves DEF Grows, Moves, Callers

(* An activation that fails ends the request.                               *)
LEMMA FailedRests ==
  ASSUME IInv, Failed
  PROVE  /\ Rests("request")
         /\ running' \in Tunnels \cup {None} /\ active' \in Tunnels \cup {None}
         /\ saved' \in RoutingConfigs /\ faults' \in 0 .. MaxFaults
<1>1. Rests("request")
  BY IdleRests DEF Failed, IInv, Callers
<1>2. \/ running' = None /\ active' = None /\ saved' = routing
      \/ running' = running /\ active' = active /\ saved' = saved
  BY DEF Failed, runtime
<1>3. faults' \in 0 .. MaxFaults
  BY ConstantsAssumption DEF Failed, Fault, IInv, TypeOK
<1>. QED
  BY <1>1, <1>2, <1>3 DEF IInv, TypeOK

(* A step of an activation that spoils nothing has no exit handler beside   *)
(* it that undoes.                                                          *)
LEMMA ActivatedAlone ==
  ASSUME Activated
  PROVE  /\ spoiled' \in {spoiled, "overlap"}
         /\ Clean' => Clean /\ spoiled' = spoiled /\ Alone
  BY DEF Activated, Clean, Overlap, Alone, Undoing, UndoPlaces

(* A step that leaves the router and the state file alone keeps CleanOK     *)
(* when nobody begins to undo or to activate in it.                         *)
LEMMA RouterKept ==
  ASSUME IInv, Clean', spoiled' = spoiled,
         UNCHANGED <<default, pins, groups, dns, statics, rules, file>>,
         \/ job'["request"] = job["request"] /\ strategy' = strategy
         \/ ~Activating /\ job'["request"].at # "fetch",
         \A c \in Callers :
            \/ job'[c] = job[c]
            \/ job'[c].at \in {"idle", "begin", "load", "fetch", "ended"}
            \/ job'[c].at = "turn" /\ file = None
  PROVE  CleanOK'
<1>1. Clean /\ CleanOK
  BY DEF IInv, Clean
<1>2. job'["request"] # job["request"] => ~Activating /\ ~Activating'
  BY DEF Activating, Callers
<1>3. RoutesOK'
  BY <1>1, <1>2 DEF CleanOK, RoutesOK, FromWan, Activating
<1>4. UndoOK'
  BY <1>1 DEF CleanOK, UndoOK, FromWan, Undoing, UndoPlaces
<1>5. ActivateOK'
  BY <1>1, <1>2
  DEF CleanOK, ActivateOK, FromWan, Alone, Undoing, UndoPlaces, Activating, Callers
<1>6. KeptOK' /\ PinsOK'
  BY <1>1, <1>2 DEF CleanOK, KeptOK, PinsOK, Activating
<1>7. HoldOK'
  BY <1>1, <1>2
  DEF CleanOK, HoldOK, Holds, RulesOf, NoPins, NoDomains, NoStatics, NoRules, Activating
<1>8. ProgressOK'
  BY <1>1 DEF CleanOK, ProgressOK, NoPins, NoDomains, NoStatics, NoRules
<1>. QED
  BY <1>3, <1>4, <1>5, <1>6, <1>7, <1>8 DEF CleanOK

(* Reading a.routeMgr keeps IInv.                                           *)
LEMMA TakeStep ==
  ASSUME IInv, NEW c \in Callers, Take(c)
  PROVE  IInv'
<1>1. UNCHANGED <<default, pins, groups, dns, statics, rules, file, strategy, routing, source,
                  running, active, saved, faults, spoiled>>
  BY DEF Take, system, settings, runtime, ghosts
<1>2. c # "request" /\ ~Undoing(c)
  BY DEF Take, At, IInv, JobOK, Undoing, UndoPlaces
<1>3. /\ job' \in [Callers -> Jobs]
      /\ job'[c].at = "load" /\ job'[c].by \in Modes
      /\ \A d \in Callers \ {c} : job'[d] = job[d]
  BY DEF Take, IInv, TypeOK, Jobs, Places
<1>4. TypeOK'
  BY <1>1, <1>3 DEF IInv, TypeOK
<1>5. JobOK'
  BY <1>2, <1>3 DEF IInv, JobOK, Callers, Undoing, UndoPlaces, Activating, Fetching
<1>6. RoomOK'
  BY <1>1, <1>2, <1>3 DEF IInv, RoomOK, Callers, Activating
<1>7. Clean' => CleanOK'
  BY <1>1, <1>2, <1>3, RouterKept DEF Callers
<1>. QED
  BY <1>4, <1>5, <1>6, <1>7 DEF IInv

(* Loading the state file keeps IInv: what is to be undone is what it says. *)
LEMMA LoadStep ==
  ASSUME IInv, NEW c \in Callers, Load(c)
  PROVE  IInv'
<1>. DEFINE by == job[c].by
<1>1. UNCHANGED <<default, pins, groups, dns, statics, rules, file, strategy, routing, source>>
  BY DEF Load, system, settings
<1>2. job[c].at = "load" /\ by \in Modes
  BY DEF Load, At, IInv, JobOK
<1>3. \/ /\ Leaves(c)
         /\ running' \in Tunnels \cup {None} /\ active' \in {active, None}
         /\ saved' \in RoutingConfigs /\ faults' \in 0 .. MaxFaults
         /\ spoiled' \in {spoiled, "undo"}
         /\ Clean' => file = None /\ spoiled' = spoiled
      \/ /\ file # None /\ file \in RouteStates
         /\ Moves(c, FirstUndo(by), Loaded(file, by))
         /\ UNCHANGED <<running, active, saved, faults>>
         /\ spoiled' \in {spoiled, "mode"}
         /\ Clean' => file.mode = by /\ spoiled' = spoiled
  <2>1. CASE file = None /\ Off(c) /\ UNCHANGED ghosts
    BY <2>1, OffLeaves DEF ghosts, IInv, TypeOK
  <2>2. CASE file # None /\ Fault("command") /\ Off(c) /\ spoiled' = "undo"
    BY <2>2, OffLeaves, ConstantsAssumption DEF Fault, Clean, IInv, TypeOK
  <2>3. CASE /\ file # None
             /\ Record(c, FirstUndo(by), Loaded(file, by))
             /\ spoiled' = IF file.mode = by THEN spoiled ELSE "mode"
             /\ UNCHANGED <<runtime, faults>>
    <3>1. FirstUndo(by) \in Places /\ Loaded(file, by) \in RouteStates
      BY <1>2, <2>3, LoadedRecord DEF FirstUndo, Places, IInv
    <3>2. Moves(c, FirstUndo(by), Loaded(file, by))
      BY <2>3, <3>1, RecordMoves DEF IInv
    <3>. QED
      BY <2>3, <3>2 DEF runtime, Clean, IInv, TypeOK
  <2>. QED
    BY <2>1, <2>2, <2>3 DEF Load
<1>4. TypeOK'
  BY <1>1, <1>3 DEF IInv, TypeOK, Moves, Leaves
<1>5. JobOK'
  BY <1>2, <1>3, LoadedRecord
  DEF IInv, JobOK, FirstUndo, Moves, Leaves, Callers, Undoing, UndoPlaces, Activating, Fetching
<1>6. RoomOK'
  BY <1>1, <1>2, <1>3
  DEF IInv, RoomOK, FirstUndo, Moves, Leaves, Callers, UndoPlaces, Activating
<1>7. ASSUME Clean' PROVE CleanOK'
  <2>1. Clean /\ CleanOK
    BY <1>3, <1>7 DEF IInv, Clean
  <2>2. CASE Leaves(c) /\ file = None /\ spoiled' = spoiled
    BY <1>1, <1>2, <1>7, <2>2, RouterKept DEF Leaves, Callers, Activating
  <2>3. CASE file # None /\ file.mode = by /\ spoiled' = spoiled /\ Moves(c, FirstUndo(by), file)
    <3>1. ~Activating /\ FromWan(file)
      BY <2>1, <2>3 DEF CleanOK, RoutesOK, ActivateOK
    <3>2. by = "selective" => default = "wan"
      BY <2>1, <2>3, <3>1 DEF CleanOK, RoutesOK, Activating
    <3>3. RoutesOK'
      BY <1>1, <1>2, <2>1, <2>3, <3>1
      DEF CleanOK, RoutesOK, FromWan, FirstUndo, Activating, Moves, Callers
    <3>4. UndoOK'
      BY <1>1, <1>2, <2>1, <2>3, <3>1, <3>2
      DEF CleanOK, UndoOK, FromWan, FirstUndo, Modes, Undoing, UndoPlaces, Moves
    <3>5. ActivateOK' /\ ~Activating'
      <4>1. CASE c = "request"
        BY <1>2, <2>3, <4>1 DEF ActivateOK, FirstUndo, Activating, Moves
      <4>2. CASE c # "request"
        BY <1>1, <2>1, <2>3, <3>1, <4>2 DEF CleanOK, ActivateOK, Activating, Moves, Callers
      <4>. QED
        BY <4>1, <4>2
    <3>6. KeptOK' /\ PinsOK'
      BY <1>1, <2>1, <2>3, <3>5 DEF CleanOK, KeptOK, PinsOK, Activating
    <3>7. HoldOK'
      BY <1>1, <2>1, <2>3, <3>5 DEF CleanOK, HoldOK, Holds, RulesOf
    <3>8. ProgressOK'
      BY <1>1, <1>2, <2>1, <2>3
      DEF CleanOK, ProgressOK, FirstUndo, NoPins, NoDomains, NoStatics, NoRules, Moves
    <3>. QED
      BY <3>3, <3>4, <3>5, <3>6, <3>7, <3>8 DEF CleanOK
  <2>. QED
    BY <1>2, <1>3, <1>7, <2>2, <2>3, LoadedRecord DEF IInv
<1>. QED
  BY <1>4, <1>5, <1>6, <1>7 DEF IInv

(* Restoring the default route keeps IInv: it leads to the WAN again.       *)
LEMMA UndoDefaultStep ==
  ASSUME IInv, NEW c \in Callers, UndoDefault(c)
  PROVE  IInv'
<1>1. UNCHANGED <<pins, groups, dns, statics, rules, file, strategy, routing, source, running,
                  active, saved>> /\ (Clean' => Clean /\ UNCHANGED spoiled)
  BY DEF UndoDefault, Undone, settings, runtime, ghosts, Clean
<1>2. job[c].at = "undoDefault" /\ job[c].rs \in RouteStates
  BY DEF UndoDefault, At, IInv, JobOK, Undoing, UndoPlaces
<1>3. Moves(c, "unpin", job[c].rs)
  BY GotoMoves DEF UndoDefault, IInv, Places
<1>4. /\ default' \in {"wan", "none"} \cup Tunnels
      /\ Clean' => default' = RestoreDefaultRoute(job[c].rs)
      /\ faults' \in 0 .. MaxFaults
      /\ spoiled' \in {spoiled, "undo"}
  BY <1>2, RecordFields, ConstantsAssumption
  DEF UndoDefault, Undone, RestoreDefaultRoute, Fault, Clean, ghosts, IInv, TypeOK
<1>5. TypeOK'
  BY <1>1, <1>3, <1>4 DEF IInv, TypeOK, Moves, Jobs
<1>6. JobOK'
  BY <1>2, <1>3 DEF IInv, JobOK, Moves, Callers, Undoing, UndoPlaces, Activating, Fetching
<1>7. RoomOK'
  BY <1>1, <1>2, <1>3 DEF IInv, RoomOK, Moves, Callers, UndoPlaces, Activating
<1>8. ASSUME Clean' PROVE CleanOK'
  <2>1. Clean /\ CleanOK
    BY <1>1, <1>8 DEF IInv
  <2>2. default' = "wan" /\ job[c].rs.mode = "global"
    BY <1>2, <1>4, <1>8, <2>1
    DEF RestoreDefaultRoute, CleanOK, UndoOK, FromWan, Undoing, UndoPlaces
  <2>3. NoDomains /\ NoStatics
    BY <1>2, <2>1
    DEF CleanOK, UndoOK, ActivateOK, Alone, HoldOK, Holds, NoDomains, NoStatics, Undoing,
        UndoPlaces, Callers
  <2>4. RoutesOK'
    BY <1>1, <2>1, <2>2, ConstantsAssumption DEF CleanOK, RoutesOK
  <2>5. UndoOK'
    BY <1>1, <1>2, <1>3, <2>1, <2>2 DEF CleanOK, UndoOK, Undoing, UndoPlaces, Moves
  <2>6. ActivateOK'
    BY <1>1, <1>2, <1>3, <2>1 DEF CleanOK, ActivateOK, Alone, Undoing, UndoPlaces,
       Activating, Moves, Callers
  <2>7. KeptOK' /\ PinsOK'
    BY <1>1, <1>3, <1>4, <2>1, <2>2, ConstantsAssumption
    DEF CleanOK, KeptOK, PinsOK, Moves, Callers
  <2>8. HoldOK'
    BY <1>1, <1>2, <1>3, <2>1
    DEF CleanOK, HoldOK, Holds, RulesOf, NoPins, NoDomains, NoStatics, NoRules, Activating,
        Moves, Callers
  <2>9. ProgressOK'
    BY <1>1, <1>3, <2>1, <2>3
    DEF CleanOK, ProgressOK, NoPins, NoDomains, NoStatics, NoRules, Moves
  <2>. QED
    BY <2>4, <2>5, <2>6, <2>7, <2>8, <2>9 DEF CleanOK
<1>. QED
  BY <1>5, <1>6, <1>7, <1>8 DEF IInv

(* Removing the pins keeps IInv: no other than that of the subscription is  *)
(* left.                                                                    *)
LEMMA UnpinStep ==
  ASSUME IInv, NEW c \in Callers, Unpin(c)
  PROVE  IInv'
<1>1. UNCHANGED <<default, groups, dns, statics, rules, file, strategy, routing, source, running,
                  active, saved>> /\ (Clean' => Clean /\ UNCHANGED spoiled)
  BY DEF Unpin, Undone, settings, runtime, ghosts, Clean
<1>2. job[c].at = "unpin" /\ job[c].rs \in RouteStates
  BY DEF Unpin, At, IInv, JobOK, Undoing, UndoPlaces
<1>3. Moves(c, IF job[c].rs.mode = "global" THEN "remove" ELSE "undoRules", job[c].rs)
  BY GotoMoves DEF Unpin, IInv, Places
<1>4. /\ pins' \in [Destinations -> {"wan", None} \cup Tunnels]
      /\ Clean' =>
            pins' = [h \in Destinations |-> IF h \in job[c].rs.pins THEN None ELSE pins[h]]
      /\ faults' \in 0 .. MaxFaults
      /\ spoiled' \in {spoiled, "undo"}
  BY ConstantsAssumption DEF Unpin, Undone, Fault, Clean, ghosts, IInv, TypeOK
<1>5. TypeOK'
  BY <1>1, <1>3, <1>4 DEF IInv, TypeOK, Moves, Jobs
<1>6. JobOK'
  BY <1>2, <1>3 DEF IInv, JobOK, Moves, Callers, Undoing, UndoPlaces, Activating, Fetching
<1>7. RoomOK'
  BY <1>1, <1>2, <1>3 DEF IInv, RoomOK, Moves, Callers, UndoPlaces, Activating
<1>8. ASSUME Clean' PROVE CleanOK'
  <2>1. Clean /\ CleanOK
    BY <1>1, <1>8 DEF IInv
  <2>2. default = "wan" /\ ~Activating
    BY <1>2, <2>1 DEF CleanOK, UndoOK, ActivateOK, Alone, Undoing, UndoPlaces, Activating,
       Callers
  <2>3. NoPins'
    BY <1>2, <1>4, <1>8, <2>1, <2>2
    DEF CleanOK, UndoOK, HoldOK, Holds, NoPins, Undoing, UndoPlaces
  <2>4. job[c].rs.mode = "global" => NoRules
    BY <1>2, <2>1, <2>2
    DEF CleanOK, UndoOK, HoldOK, RulesOf, NoRules, Undoing, UndoPlaces, IInv, TypeOK
  <2>5. RoutesOK'
    BY <1>1, <1>4, <1>8, <2>1, <2>2, ConstantsAssumption DEF CleanOK, RoutesOK
  <2>6. UndoOK'
    BY <1>1, <1>2, <1>3, <2>1 DEF CleanOK, UndoOK, Undoing, UndoPlaces, Moves
  <2>7. ActivateOK'
    BY <1>1, <1>2, <1>3, <2>1 DEF CleanOK, ActivateOK, Alone, Undoing, UndoPlaces,
       Activating, Moves, Callers
  <2>8. KeptOK' /\ PinsOK'
    BY <1>1, <1>3, <2>2, ConstantsAssumption DEF KeptOK, PinsOK, Activating, Moves, Callers
  <2>9. HoldOK'
    BY <1>1, <1>2, <1>3, <1>4, <1>8, <2>1, <2>3
    DEF CleanOK, HoldOK, Holds, RulesOf, NoDomains, NoStatics, NoRules, Activating, Moves,
        Callers
  <2>10. ProgressOK'
    BY <1>1, <1>2, <1>3, <2>1, <2>3, <2>4
    DEF CleanOK, ProgressOK, NoDomains, NoStatics, NoRules, Moves
  <2>. QED
    BY <2>5, <2>6, <2>7, <2>8, <2>9, <2>10 DEF CleanOK
<1>. QED
  BY <1>5, <1>6, <1>7, <1>8 DEF IInv

(* Removing groups and their DNS routes keeps IInv: none is left.           *)
LEMMA UndoDomainsStep ==
  ASSUME IInv, NEW c \in Callers, UndoDomains(c)
  PROVE  IInv'
<1>1. UNCHANGED <<default, pins, statics, rules, file, strategy, routing, source, running,
                  active, saved>> /\ (Clean' => Clean /\ UNCHANGED spoiled)
  BY DEF UndoDomains, Undone, settings, runtime, ghosts, Clean
<1>2. job[c].at = "undoDomains" /\ job[c].rs \in RouteStates
  BY DEF UndoDomains, At, IInv, JobOK, Undoing, UndoPlaces
<1>3. Moves(c, "undoStatics", job[c].rs)
  BY GotoMoves DEF UndoDomains, IInv, Places
<1>4. /\ groups' \subseteq groups
      /\ dns' \in [Groups -> Tunnels \cup {None}]
      /\ Clean' =>
            /\ groups' = groups \ job[c].rs.groups
            /\ dns' = [g \in Groups |-> IF g \in job[c].rs.groups THEN None ELSE dns[g]]
      /\ faults' \in 0 .. MaxFaults
      /\ spoiled' \in {spoiled, "undo"}
  BY ConstantsAssumption
  DEF UndoDomains, Undone, Fault, Clean, ghosts, IInv, TypeOK, DeleteFQDNGroups,
      DeleteDNSProxyRoutes, SyncDNSProxyRoutes
<1>5. TypeOK'
  BY <1>1, <1>3, <1>4 DEF IInv, TypeOK, Moves, Jobs
<1>6. JobOK'
  BY <1>2, <1>3 DEF IInv, JobOK, Moves, Callers, Undoing, UndoPlaces, Activating, Fetching
<1>7. RoomOK'
  BY <1>1, <1>2, <1>3 DEF IInv, RoomOK, Moves, Callers, UndoPlaces, Activating
<1>8. ASSUME Clean' PROVE CleanOK'
  <2>1. Clean /\ CleanOK
    BY <1>1, <1>8 DEF IInv
  <2>2. default = "wan" /\ ~Activating
    BY <1>2, <2>1 DEF CleanOK, UndoOK, ActivateOK, Alone, Undoing, UndoPlaces, Activating,
       Callers
  <2>3. NoDomains'
    BY <1>2, <1>4, <1>8, <2>1, <2>2
    DEF CleanOK, UndoOK, HoldOK, Holds, NoDomains, Undoing, UndoPlaces
  <2>4. RoutesOK'
    BY <1>1, <1>2, <1>3, <2>1 DEF CleanOK, RoutesOK, Moves, Callers
  <2>5. UndoOK'
    BY <1>1, <1>2, <1>3, <2>1 DEF CleanOK, UndoOK, Undoing, UndoPlaces, Moves
  <2>6. ActivateOK'
    BY <1>1, <1>2, <1>3, <2>1 DEF CleanOK, ActivateOK, Alone, Undoing, UndoPlaces,
       Activating, Moves, Callers
  <2>7. KeptOK' /\ PinsOK'
    BY <1>1, <1>3, <1>4, <2>1 DEF CleanOK, KeptOK, PinsOK, Moves, Callers
  <2>8. HoldOK'
    BY <1>1, <1>2, <1>3, <1>4, <1>8, <2>1, <2>3
    DEF CleanOK, HoldOK, Holds, RulesOf, NoPins, NoStatics, NoRules, Activating, Moves,
        Callers
  <2>9. ProgressOK'
    BY <1>1, <1>3, <2>1, <2>3 DEF CleanOK, ProgressOK, NoPins, NoStatics, NoRules, Moves
  <2>. QED
    BY <2>4, <2>5, <2>6, <2>7, <2>8, <2>9 DEF CleanOK
<1>. QED
  BY <1>5, <1>6, <1>7, <1>8 DEF IInv

(* Removing the static routes keeps IInv: none is left.                     *)
LEMMA UndoStaticsStep ==
  ASSUME IInv, NEW c \in Callers, UndoStatics(c)
  PROVE  IInv'
<1>1. UNCHANGED <<default, pins, groups, dns, rules, file, strategy, routing, source, running,
                  active, saved>> /\ (Clean' => Clean /\ UNCHANGED spoiled)
  BY DEF UndoStatics, Undone, settings, runtime, ghosts, Clean
<1>2. job[c].at = "undoStatics" /\ job[c].rs \in RouteStates
  BY DEF UndoStatics, At, IInv, JobOK, Undoing, UndoPlaces
<1>3. Moves(c, "unpin", job[c].rs)
  BY GotoMoves DEF UndoStatics, IInv, Places
<1>4. /\ statics' \in [CIDRs -> Tunnels \cup {None}]
      /\ Clean' => statics' = [d \in CIDRs |->
            IF d \in job[c].rs.statics /\ statics[d] = job[c].rs.iface
            THEN None ELSE statics[d]]
      /\ faults' \in 0 .. MaxFaults
      /\ spoiled' \in {spoiled, "undo"}
  BY ConstantsAssumption DEF UndoStatics, Undone, Fault, Clean, ghosts, IInv, TypeOK
<1>5. TypeOK'
  BY <1>1, <1>3, <1>4 DEF IInv, TypeOK, Moves, Jobs
<1>6. JobOK'
  BY <1>2, <1>3 DEF IInv, JobOK, Moves, Callers, Undoing, UndoPlaces, Activating, Fetching
<1>7. RoomOK'
  BY <1>1, <1>2, <1>3 DEF IInv, RoomOK, Moves, Callers, UndoPlaces, Activating
<1>8. ASSUME Clean' PROVE CleanOK'
  <2>1. Clean /\ CleanOK
    BY <1>1, <1>8 DEF IInv
  <2>2. default = "wan" /\ ~Activating
    BY <1>2, <2>1 DEF CleanOK, UndoOK, ActivateOK, Alone, Undoing, UndoPlaces, Activating,
       Callers
  <2>3. NoStatics'
    BY <1>2, <1>4, <1>8, <2>1, <2>2
    DEF CleanOK, UndoOK, HoldOK, Holds, NoStatics, Undoing, UndoPlaces
  <2>4. RoutesOK'
    BY <1>1, <1>2, <1>3, <2>1 DEF CleanOK, RoutesOK, Moves, Callers
  <2>5. UndoOK'
    BY <1>1, <1>2, <1>3, <2>1 DEF CleanOK, UndoOK, Undoing, UndoPlaces, Moves
  <2>6. ActivateOK'
    BY <1>1, <1>2, <1>3, <2>1 DEF CleanOK, ActivateOK, Alone, Undoing, UndoPlaces,
       Activating, Moves, Callers
  <2>7. KeptOK' /\ PinsOK'
    BY <1>1, <1>3, <1>4, <2>1 DEF CleanOK, KeptOK, PinsOK, Moves, Callers
  <2>8. HoldOK'
    BY <1>1, <1>2, <1>3, <1>4, <1>8, <2>1, <2>3
    DEF CleanOK, HoldOK, Holds, RulesOf, NoPins, NoDomains, NoRules, Activating, Moves,
        Callers
  <2>9. ProgressOK'
    BY <1>1, <1>2, <1>3, <2>1, <2>3
    DEF CleanOK, ProgressOK, NoPins, NoDomains, NoRules, Moves
  <2>. QED
    BY <2>4, <2>5, <2>6, <2>7, <2>8, <2>9 DEF CleanOK
<1>. QED
  BY <1>5, <1>6, <1>7, <1>8 DEF IInv

(* Removing one copy of the firewall rules keeps IInv: there was at most    *)
(* one.                                                                     *)
LEMMA UndoRulesStep ==
  ASSUME IInv, NEW c \in Callers, UndoRules(c)
  PROVE  IInv'
<1>1. UNCHANGED <<default, pins, groups, dns, statics, file, strategy, routing, source, running,
                  active, saved>> /\ (Clean' => Clean /\ UNCHANGED spoiled)
  BY DEF UndoRules, Undone, settings, runtime, ghosts, Clean
<1>2. job[c].at = "undoRules" /\ job[c].rs \in RouteStates
  BY DEF UndoRules, At, IInv, JobOK, Undoing, UndoPlaces
<1>3. Moves(c, "remove", job[c].rs)
  BY GotoMoves DEF UndoRules, IInv, Places
<1>4. /\ rules' \in [Tunnels -> 0 .. MaxCopies]
      /\ \A t \in Tunnels : rules'[t] <= rules[t]
      /\ Clean' => \A t \in Tunnels : t = job[c].rs.iface /\ rules[t] <= 1 => rules'[t] = 0
      /\ faults' \in 0 .. MaxFaults
      /\ spoiled' \in {spoiled, "undo"}
  BY <1>2, RecordFields, ConstantsAssumption
  DEF UndoRules, Undone, Fault, Clean, ghosts, IInv, TypeOK
<1>5. TypeOK'
  BY <1>1, <1>3, <1>4 DEF IInv, TypeOK, Moves, Jobs
<1>6. JobOK'
  BY <1>2, <1>3 DEF IInv, JobOK, Moves, Callers, Undoing, UndoPlaces, Activating, Fetching
<1>7. RoomOK'
  BY <1>1, <1>2, <1>3, <1>4, PlanFields, RecordFields, ConstantsAssumption
  DEF IInv, TypeOK, JobOK, RoomOK, Moves, Callers, UndoPlaces, Activating
<1>8. ASSUME Clean' PROVE CleanOK'
  <2>1. Clean /\ CleanOK
    BY <1>1, <1>8 DEF IInv
  <2>2. default = "wan" /\ ~Activating
    BY <1>2, <2>1 DEF CleanOK, UndoOK, ActivateOK, Alone, Undoing, UndoPlaces, Activating,
       Callers
  <2>3. NoRules'
    BY <1>2, <1>4, <1>8, <2>1, <2>2
    DEF CleanOK, UndoOK, HoldOK, RulesOf, NoRules, Undoing, UndoPlaces, IInv, TypeOK
  <2>4. RoutesOK'
    BY <1>1, <1>2, <1>3, <2>1 DEF CleanOK, RoutesOK, Moves, Callers
  <2>5. UndoOK'
    BY <1>1, <1>2, <1>3, <2>1 DEF CleanOK, UndoOK, Undoing, UndoPlaces, Moves
  <2>6. ActivateOK'
    BY <1>1, <1>2, <1>3, <2>1 DEF CleanOK, ActivateOK, Alone, Undoing, UndoPlaces,
       Activating, Moves, Callers
  <2>7. KeptOK' /\ PinsOK'
    BY <1>1, <1>3, <1>4, <2>1 DEF CleanOK, KeptOK, PinsOK, Moves, Callers
  <2>8. HoldOK'
    BY <1>1, <1>2, <1>3, <2>1, <2>3
    DEF CleanOK, HoldOK, Holds, RulesOf, NoPins, NoDomains, NoStatics, NoRules, Activating,
        Moves, Callers
  <2>9. ProgressOK'
    BY <1>1, <1>2, <2>1, <2>3 DEF CleanOK, ProgressOK, NoPins, NoDomains, NoStatics
  <2>. QED
    BY <2>4, <2>5, <2>6, <2>7, <2>8, <2>9 DEF CleanOK
<1>. QED
  BY <1>5, <1>6, <1>7, <1>8 DEF IInv

(* Removing the state file keeps IInv: nothing of what it recorded is left. *)
LEMMA RemoveStep ==
  ASSUME IInv, NEW c \in Callers, Remove(c)
  PROVE  IInv'
<1>1. UNCHANGED <<default, pins, groups, dns, statics, rules, strategy, routing, source>>
  BY DEF Remove, system, settings
<1>2. job[c].at = "remove"
  BY DEF Remove, At
<1>3. /\ Leaves(c)
      /\ running' \in Tunnels \cup {None} /\ active' \in {active, None}
      /\ saved' \in RoutingConfigs
  BY OffLeaves DEF Remove, IInv
<1>4. /\ file' \in {file, None} /\ faults' \in 0 .. MaxFaults /\ spoiled' \in {spoiled, "undo"}
      /\ Clean' => file' = None /\ spoiled' = spoiled
  BY ConstantsAssumption DEF Remove, Fault, Clean, ghosts, IInv, TypeOK
<1>5. TypeOK'
  BY <1>1, <1>3, <1>4 DEF IInv, TypeOK, Leaves
<1>6. JobOK'
  BY <1>2, <1>3
  DEF IInv, JobOK, Leaves, Callers, Undoing, UndoPlaces, Activating, Fetching
<1>7. RoomOK'
  BY <1>1, <1>2, <1>3 DEF IInv, RoomOK, Leaves, Callers, UndoPlaces, Activating
<1>8. ASSUME Clean' PROVE CleanOK'
  <2>1. Clean /\ CleanOK
    BY <1>4, <1>8 DEF IInv, Clean
  <2>2. default = "wan" /\ ~Activating
    BY <1>2, <2>1
    DEF CleanOK, UndoOK, ActivateOK, Alone, Undoing, UndoPlaces, Activating, Callers
  <2>3. ~Activating'
    BY <1>3, <2>2 DEF Leaves, Activating, Callers
  <2>4. RoutesOK'
    BY <1>1, <1>4, <1>8, <2>1, <2>2, ConstantsAssumption DEF CleanOK, RoutesOK
  <2>5. UndoOK'
    BY <1>1, <1>3, <1>4, <1>8, <2>1 DEF CleanOK, UndoOK, FromWan, Undoing, UndoPlaces, Leaves
  <2>6. ActivateOK'
    BY <1>4, <1>8, <2>3 DEF ActivateOK
  <2>7. KeptOK' /\ PinsOK'
    BY <1>1, <2>2, <2>3, ConstantsAssumption DEF KeptOK, PinsOK, Activating
  <2>8. HoldOK'
    BY <1>1, <1>2, <1>4, <1>8, <2>1, <2>3
    DEF CleanOK, HoldOK, NoPins, NoDomains, NoStatics, NoRules, ProgressOK
  <2>9. ProgressOK'
    BY <1>1, <1>2, <2>1 DEF CleanOK, ProgressOK, NoPins, NoDomains, NoStatics, NoRules
  <2>. QED
    BY <2>4, <2>5, <2>6, <2>7, <2>8, <2>9 DEF CleanOK
<1>. QED
  BY <1>5, <1>6, <1>7, <1>8 DEF IInv

\* What a request begins with.
Requested(plan) ==
    /\ job' \in [Callers -> Jobs]
    /\ job["request"].at = "idle"
    /\ job'["request"].at = "load" /\ job'["request"].by \in Modes
    /\ job'["request"].plan = plan
    /\ \A c \in Callers \ {"request"} : job'[c] = job[c]

(* A request that has room for one more copy of the rules keeps IInv.       *)
LEMMA RequestStep ==
  ASSUME IInv, NEW plan \in Plans, Request(plan),
         plan.kind = "switch" => rules[plan.iface] < MaxCopies,
         plan.kind = "update" /\ active # None => rules[active] < MaxCopies
  PROVE  IInv'
<1>1. UNCHANGED <<default, pins, groups, dns, statics, rules, file, strategy, routing, source,
                  running, active, saved, faults, spoiled>>
  BY DEF Request, system, settings, runtime, ghosts
<1>2. Requested(plan)
  BY DEF Requested, Request, At, IInv, TypeOK, Jobs, IdleJob, Callers, Places
<1>3. TypeOK'
  BY <1>1, <1>2 DEF IInv, TypeOK, Requested
<1>4. JobOK'
  BY <1>2 DEF IInv, JobOK, Requested, Callers, Undoing, UndoPlaces, Activating, Fetching
<1>5. RoomOK'
  BY <1>1, <1>2 DEF RoomOK, Requested, Activating
<1>6. Clean' => CleanOK'
  BY <1>1, <1>2, RouterKept DEF Requested, Activating
<1>. QED
  BY <1>3, <1>4, <1>5, <1>6 DEF IInv

(* The start of a switch keeps IInv.                                        *)
LEMMA SwitchStep ==
  ASSUME IInv, Switch
  PROVE  IInv'
<1>1. PICK t \in Tunnels : rules[t] < MaxCopies /\ Request([kind |-> "switch", iface |-> t])
  BY DEF Switch
<1>2. [kind |-> "switch", iface |-> t] \in Plans
  BY DEF Plans
<1>. QED
  BY <1>1, <1>2, RequestStep

(* The start of a stop keeps IInv.                                          *)
LEMMA StopStep ==
  ASSUME IInv, Stop
  PROVE  IInv'
  BY RequestStep DEF Stop, Plans

(* What an update makes of the settings has its type.                       *)
LEMMA Recreated ==
  ASSUME TypeOK, NEW new \in RoutingConfigs,
         \/ Recreate(new) /\ UNCHANGED faults
         \/ SaveFails(new)
  PROVE  /\ strategy' \in Modes /\ routing' \in RoutingConfigs /\ saved' \in RoutingConfigs
         /\ faults' \in 0 .. MaxFaults
  BY ConstantsAssumption DEF TypeOK, Recreate, SaveFails, Fault, RoutingConfigs

(* The start of an update keeps IInv, also one that only changes the        *)
(* settings.                                                                *)
LEMMA UpdateStep ==
  ASSUME IInv, Update
  PROVE  IInv'
<1>1. PICK new \in RoutingConfigs :
        \/ /\ active # None /\ rules[active] < MaxCopies
           /\ Request([kind |-> "update", routing |-> new])
        \/ /\ active = None /\ At("request", "idle")
           /\ (Recreate(new) /\ UNCHANGED faults) \/ SaveFails(new)
           /\ UNCHANGED <<system, file, source, running, active, job, spoiled>>
  BY DEF Update
<1>2. CASE rules[active] < MaxCopies /\ Request([kind |-> "update", routing |-> new])
  <2>1. [kind |-> "update", routing |-> new] \in Plans
    BY DEF Plans
  <2>. QED
    BY <1>2, <2>1, RequestStep
<1>3. CASE /\ At("request", "idle")
           /\ (Recreate(new) /\ UNCHANGED faults) \/ SaveFails(new)
           /\ UNCHANGED <<system, file, source, running, active, job, spoiled>>
  <2>1. /\ UNCHANGED <<default, pins, groups, dns, statics, rules, file, source, running, active,
                       job, spoiled>>
        /\ job["request"].at = "idle"
    BY <1>3 DEF system, At
  <2>2. TypeOK'
    BY <1>3, <2>1, Recreated DEF IInv, TypeOK
  <2>3. JobOK' /\ RoomOK'
    BY <2>1 DEF IInv, JobOK, RoomOK, Undoing, Activating, Fetching
  <2>4. Clean' => CleanOK'
    BY <2>1, RouterKept DEF Activating
  <2>. QED
    BY <2>2, <2>3, <2>4 DEF IInv
<1>. QED
  BY <1>1, <1>2, <1>3

(* A change of the subscription's source keeps IInv.                        *)
LEMMA SetSourceStep ==
  ASSUME IInv, SetSource
  PROVE  IInv'
<1>1. UNCHANGED <<default, pins, groups, dns, statics, rules, file, strategy, routing, running,
                  active, job, spoiled>>
  BY DEF SetSource, system
<1>2. TypeOK'
  BY <1>1, ConstantsAssumption DEF SetSource, Fault, IInv, TypeOK
<1>3. JobOK' /\ RoomOK'
  BY <1>1 DEF IInv, JobOK, RoomOK, Undoing, Activating, Fetching
<1>4. Clean' => CleanOK'
  BY <1>1, RouterKept
<1>. QED
  BY <1>2, <1>3, <1>4 DEF IInv

(* The start of a refresh keeps IInv: a pin of the subscription leads to    *)
(* the WAN.                                                                 *)
LEMMA RefreshStep ==
  ASSUME IInv, Refresh
  PROVE  IInv'
<1>1. UNCHANGED <<default, groups, dns, statics, rules, file, strategy, routing, source, running,
                  active, saved, spoiled>>
  BY DEF Refresh, settings, runtime
<1>2. job["request"].at = "idle" /\ source \in Hosts
  BY DEF Refresh, At, IInv, TypeOK
<1>3. \E l \in {"fetch", "fetchAnyway"} :
        /\ Fetch(l) /\ faults' \in 0 .. MaxFaults
        /\ \/ pins' = pins
           \/ WayOut # "none" /\ pins' = [pins EXCEPT ![source] = WayOut]
        /\ l = "fetch" /\ strategy = "global" =>
            WayOut # "none" /\ pins' = [pins EXCEPT ![source] = WayOut]
  BY ConstantsAssumption DEF Refresh, EnsureSubscriptionReachable, Fault, IInv, TypeOK
<1>4. /\ job' \in [Callers -> Jobs]
      /\ job'["request"].at \in {"fetch", "fetchAnyway"} /\ job'["request"].host = source
      /\ \A c \in Callers \ {"request"} : job'[c] = job[c]
      /\ \/ pins' = pins
         \/ WayOut # "none" /\ pins' = [pins EXCEPT ![source] = WayOut]
      /\ job'["request"].at = "fetch" /\ strategy = "global" =>
            WayOut # "none" /\ pins' = [pins EXCEPT ![source] = WayOut]
  <2>1. PICK l \in {"fetch", "fetchAnyway"} :
            /\ Fetch(l)
            /\ \/ pins' = pins
               \/ WayOut # "none" /\ pins' = [pins EXCEPT ![source] = WayOut]
            /\ l = "fetch" /\ strategy = "global" =>
                WayOut # "none" /\ pins' = [pins EXCEPT ![source] = WayOut]
    BY <1>3
  <2>2. /\ job' \in [Callers -> Jobs]
        /\ job'["request"].at = l /\ job'["request"].host = source
        /\ \A c \in Callers \ {"request"} : job'[c] = job[c]
    BY <1>2, <2>1 DEF Fetch, IInv, TypeOK, Jobs, Callers, Places
  <2>. QED
    BY <2>1, <2>2
<1>5. WayOut # "none" => WayOut \in {"wan"} \cup Tunnels
  BY LoadedRecord, RecordFields DEF WayOut, IInv, TypeOK, Modes
<1>6. TypeOK'
  BY <1>1, <1>3, <1>4, <1>5 DEF IInv, TypeOK
<1>7. JobOK'
  BY <1>2, <1>4 DEF IInv, JobOK, Callers, Undoing, UndoPlaces, Activating, Fetching
<1>8. RoomOK'
  BY <1>4 DEF RoomOK, UndoPlaces, Activating
<1>9. ASSUME Clean' PROVE CleanOK'
  <2>1. Clean /\ CleanOK
    BY <1>1, <1>9 DEF IInv, Clean
  <2>2. WayOut = "wan"
    <3>1. CASE file # None /\ file.mode = "global"
      BY <2>1, <3>1, LoadedRecord DEF WayOut, CleanOK, RoutesOK, FromWan, IInv, Modes
    <3>2. CASE file = None \/ file.mode # "global"
      <4>1. default = "wan"
        BY <1>2, <2>1, <3>2 DEF CleanOK, RoutesOK
      <4>. QED
        BY <3>2, <4>1 DEF WayOut, Loaded, Blank
    <3>. QED
      BY <3>1, <3>2
  <2>3. /\ \A h \in Destinations : pins'[h] \in {pins[h], "wan"}
        /\ \A h \in Destinations \ Hosts : pins'[h] = pins[h]
        /\ job'["request"].at = "fetch" /\ strategy = "global" => pins'[source] = "wan"
    BY <1>2, <1>4, <2>2 DEF IInv, TypeOK, Destinations
  <2>4. RoutesOK'
    BY <1>1, <1>2, <1>4, <2>1, <2>3 DEF CleanOK, RoutesOK, FromWan
  <2>5. UndoOK'
    BY <1>1, <1>4, <2>1 DEF CleanOK, UndoOK, FromWan, Undoing, UndoPlaces
  <2>6. ActivateOK' /\ ~Activating'
    BY <1>4 DEF ActivateOK, Activating
  <2>7. KeptOK' /\ PinsOK'
    <3>1. file # None => file.pins \subseteq Destinations
      BY RecordFields DEF IInv, TypeOK
    <3>. QED
      BY <1>1, <2>1, <2>3, <2>6, <3>1 DEF CleanOK, KeptOK, PinsOK, Activating
  <2>8. HoldOK'
    BY <1>1, <1>2, <2>1, <2>3, <2>6
    DEF CleanOK, HoldOK, Holds, RulesOf, NoPins, NoDomains, NoStatics, NoRules, Activating
  <2>9. ProgressOK'
    BY <1>1, <1>4, <2>1, <2>3
    DEF CleanOK, ProgressOK, NoPins, NoDomains, NoStatics, NoRules
  <2>. QED
    BY <2>4, <2>5, <2>6, <2>7, <2>8, <2>9 DEF CleanOK
<1>. QED
  BY <1>6, <1>7, <1>8, <1>9 DEF IInv

(* The end of a refresh keeps IInv, also one that gives up a tunnel that is *)
(* gone: it touches no route.                                               *)
LEMMA FetchedStep ==
  ASSUME IInv, Fetched \/ Vanish
  PROVE  IInv'
<1>1. UNCHANGED <<default, pins, groups, dns, statics, rules, file, strategy, routing, source,
                  spoiled>>
  BY DEF Fetched, Vanish, system, settings, ghosts
<1>2. /\ Fetching /\ ~Activating
      /\ running' \in {running, None} /\ active' \in {active, None} /\ saved' = routing
      /\ faults' \in 0 .. MaxFaults
  BY ConstantsAssumption DEF Fetched, Vanish, Fetching, Activating, Fault, ghosts, IInv, TypeOK
<1>3. Rests("request")
  BY IdleRests DEF Fetched, Vanish, IInv, Callers
<1>4. TypeOK'
  BY <1>1, <1>2, <1>3 DEF IInv, TypeOK, Rests
<1>5. JobOK'
  BY <1>3 DEF IInv, JobOK, Rests, Callers, Undoing, UndoPlaces, Activating, Fetching
<1>6. RoomOK'
  BY <1>3 DEF RoomOK, Rests, UndoPlaces, Activating
<1>7. Clean' => CleanOK'
  BY <1>1, <1>2, <1>3, RouterKept DEF Rests
<1>. QED
  BY <1>4, <1>5, <1>6, <1>7 DEF IInv

(* The exit of a client and a signal keep IInv: nothing is undone yet.      *)
LEMMA ExitStep ==
  ASSUME IInv, ClientExits \/ Shutdown
  PROVE  IInv'
<1>1. UNCHANGED <<default, pins, groups, dns, statics, rules, file, strategy, routing, source,
                  active, saved, spoiled>>
  BY DEF ClientExits, Shutdown, system, settings, runtime
<1>2. running' \in {running, None} /\ faults' \in 0 .. MaxFaults
  BY ConstantsAssumption DEF ClientExits, Shutdown, runtime, Fault, IInv, TypeOK
<1>3. /\ job' \in [Callers -> Jobs]
      /\ job'["request"] = job["request"]
      /\ \A c \in Callers : job'[c] = job[c] \/ job'[c].at = "begin"
  BY DEF ClientExits, Shutdown, IInv, TypeOK, Jobs, Callers, Places
<1>4. TypeOK'
  BY <1>1, <1>2, <1>3 DEF IInv, TypeOK
<1>5. JobOK'
  BY <1>3 DEF IInv, JobOK, Undoing, UndoPlaces, Activating, Fetching
<1>6. RoomOK'
  BY <1>1, <1>3 DEF IInv, RoomOK, Activating
<1>7. Clean' => CleanOK'
  BY <1>1, <1>3, RouterKept
<1>. QED
  BY <1>4, <1>5, <1>6, <1>7 DEF IInv

(* The end of the process keeps IInv, and spoils it in the middle of an     *)
(* activation.                                                              *)
LEMMA CrashStep ==
  ASSUME IInv, Crash
  PROVE  IInv'
<1>1. UNCHANGED <<default, pins, groups, dns, statics, rules, file, source, active, saved>>
  BY DEF Crash, system
<1>2. /\ running' = None /\ faults' \in 0 .. MaxFaults
      /\ strategy' \in Modes /\ routing' \in RoutingConfigs
      /\ spoiled' = IF Activating THEN "crash" ELSE spoiled
  BY ConstantsAssumption DEF Crash, Fault, RoutingConfigs, IInv, TypeOK
<1>3. /\ job' \in [Callers -> Jobs]
      /\ \A c \in Callers : job'[c].at = "idle"
  BY DEF Crash, Jobs, IdleJob, Places
<1>4. TypeOK'
  BY <1>1, <1>2, <1>3 DEF IInv, TypeOK
<1>5. JobOK'
  BY <1>3 DEF JobOK, Callers, Undoing, UndoPlaces, Activating, Fetching
<1>6. RoomOK'
  BY <1>3 DEF RoomOK, Callers, UndoPlaces, Activating
<1>7. Clean' => CleanOK'
  BY <1>1, <1>2, <1>3, RouterKept DEF Clean, Callers
<1>. QED
  BY <1>4, <1>5, <1>6, <1>7 DEF IInv

(* Waiting for the interface keeps IInv.                                    *)
LEMMA WaitStep ==
  ASSUME IInv, Wait
  PROVE  IInv'
<1>1. UNCHANGED <<default, pins, groups, dns, statics, rules, file, strategy, routing, source>>
  BY DEF Wait, system, settings
<1>2. /\ job["request"].at = "wait"
      /\ job["request"].rs \in RouteStates /\ job["request"].plan \in Plans
  BY DEF Wait, At, IInv, JobOK, Activating
<1>3. \/ /\ Moves("request", "pin", job["request"].rs)
         /\ spoiled' \in {spoiled, "overlap"}
         /\ UNCHANGED <<running, active, saved, faults>>
      \/ /\ Rests("request") /\ spoiled' = spoiled
         /\ running' \in Tunnels \cup {None} /\ active' \in Tunnels \cup {None}
         /\ saved' \in RoutingConfigs /\ faults' \in 0 .. MaxFaults
  BY GotoMoves, FailedRests, ActivatedAlone DEF Wait, runtime, IInv, Callers, Places
<1>4. Clean' => Clean /\ spoiled' = spoiled
  BY <1>3 DEF Clean
<1>5. TypeOK'
  BY <1>1, <1>3 DEF IInv, TypeOK, Moves, Rests, Jobs
<1>6. JobOK'
  BY <1>2, <1>3 DEF IInv, JobOK, Moves, Rests, Callers, Undoing, UndoPlaces, Activating,
     Fetching
<1>7. RoomOK'
  BY <1>1, <1>2, <1>3 DEF IInv, RoomOK, Moves, Rests, UndoPlaces, Activating
<1>8. ASSUME Clean' PROVE CleanOK'
  <2>1. Clean /\ CleanOK
    BY <1>4, <1>8 DEF IInv
  <2>2. /\ file = None
        /\ Alone
        /\ FromWan(job["request"].rs)
        /\ Holds(job["request"].rs)
    BY <1>2, <2>1 DEF CleanOK, ActivateOK, Alone, HoldOK, Activating
  <2>3. RoutesOK'
    BY <1>1, <1>2, <2>1, <2>2 DEF CleanOK, RoutesOK
  <2>4. UndoOK'
    BY <1>1, <1>3, <2>1 DEF CleanOK, UndoOK, Undoing, UndoPlaces, Moves, Rests
  <2>5. ActivateOK'
    BY <1>1, <1>3, <2>2 DEF ActivateOK, Alone, Undoing, UndoPlaces, Activating, Moves, Rests,
       Callers
  <2>6. KeptOK' /\ PinsOK'
    BY <1>1, <1>3, <2>1 DEF CleanOK, KeptOK, PinsOK, Moves, Rests
  <2>7. HoldOK'
    BY <1>1, <1>2, <1>3, <2>1, <2>2
    DEF CleanOK, HoldOK, Holds, NoPins, NoDomains, NoStatics, NoRules, Activating, Moves,
        Rests
  <2>8. ProgressOK'
    BY <1>1, <1>3, <2>1
    DEF CleanOK, ProgressOK, NoPins, NoDomains, NoStatics, NoRules, Moves, Rests
  <2>. QED
    BY <2>3, <2>4, <2>5, <2>6, <2>7, <2>8 DEF CleanOK
<1>. QED
  BY <1>5, <1>6, <1>7, <1>8 DEF IInv

(* Setting the default route keeps IInv: the tunnel has its pins by then.   *)
LEMMA SetDefaultStep ==
  ASSUME IInv, SetDefault
  PROVE  IInv'
<1>1. UNCHANGED <<pins, groups, dns, statics, rules, file, strategy, routing, source>>
  BY DEF SetDefault, settings
<1>2. /\ job["request"].at = "default"
      /\ job["request"].rs \in RouteStates /\ job["request"].plan \in Plans
  BY DEF SetDefault, At, IInv, JobOK, Activating
<1>3. \/ /\ Moves("request", "save", job["request"].rs)
         /\ default' = job["request"].rs.iface
         /\ spoiled' \in {spoiled, "overlap"}
         /\ UNCHANGED <<running, active, saved, faults>>
      \/ /\ Rests("request") /\ spoiled' = "failed"
         /\ default' = default
         /\ running' \in Tunnels \cup {None} /\ active' \in Tunnels \cup {None}
         /\ saved' \in RoutingConfigs /\ faults' \in 0 .. MaxFaults
  BY GotoMoves, FailedRests, ActivatedAlone DEF SetDefault, runtime, IInv, Callers, Places
<1>4. Clean' => /\ Clean /\ spoiled' = spoiled
               /\ Moves("request", "save", job["request"].rs)
               /\ default' = job["request"].rs.iface
  BY <1>3 DEF Clean
<1>5. TypeOK'
  BY <1>1, <1>2, <1>3, RecordFields DEF IInv, TypeOK, Moves, Rests, Jobs
<1>6. JobOK'
  BY <1>2, <1>3 DEF IInv, JobOK, Moves, Rests, Callers, Undoing, UndoPlaces, Activating,
     Fetching
<1>7. RoomOK'
  BY <1>3 DEF RoomOK, Moves, Rests, UndoPlaces, Activating
<1>8. ASSUME Clean' PROVE CleanOK'
  <2>1. Clean /\ CleanOK
    BY <1>4, <1>8 DEF IInv
  <2>2. /\ file = None
        /\ Alone
        /\ FromWan(job["request"].rs)
        /\ Holds(job["request"].rs)
    BY <1>2, <2>1 DEF CleanOK, ActivateOK, Alone, HoldOK, Activating
  <2>3. job["request"].rs.mode = "global" /\ job["request"].rs.iface \in Tunnels
    BY <1>2, <2>1, RecordFields DEF CleanOK, ActivateOK, Activating
  <2>4. RulesOf(job["request"].rs)
    BY <1>2, <2>1 DEF CleanOK, HoldOK, NoRules, RulesOf, Activating
  <2>5. RoutesOK'
    BY <1>1, <1>4, <1>8, <2>1, <2>3 DEF CleanOK, RoutesOK, Moves
  <2>6. UndoOK'
    BY <1>4, <1>8, <2>2 DEF UndoOK, Alone, Undoing, UndoPlaces, Moves, Callers
  <2>7. ActivateOK'
    BY <1>1, <1>4, <1>8, <2>2 DEF ActivateOK, Alone, Undoing, UndoPlaces, Moves, Callers
  <2>8. KeptOK' /\ PinsOK'
    BY <1>1, <1>2, <1>4, <1>8, <2>1, <2>2 DEF CleanOK, KeptOK, PinsOK, Moves
  <2>9. HoldOK'
    BY <1>1, <1>4, <1>8, <2>2, <2>4 DEF HoldOK, Holds, RulesOf, Activating, Moves
  <2>10. ProgressOK'
    BY <1>1, <1>4, <1>8, <2>1
    DEF CleanOK, ProgressOK, NoPins, NoDomains, NoStatics, NoRules, Moves
  <2>. QED
    BY <2>5, <2>6, <2>7, <2>8, <2>9, <2>10 DEF CleanOK
<1>. QED
  BY <1>5, <1>6, <1>7, <1>8 DEF IInv

(* Adding the firewall rules keeps IInv: there were none.                   *)
LEMMA SetRulesStep ==
  ASSUME IInv, SetRules
  PROVE  IInv'
<1>1. UNCHANGED <<default, pins, groups, dns, statics, file, strategy, routing, source, running,
                  active, saved>>
  BY DEF SetRules, settings, runtime
<1>2. /\ job["request"].at = "rules"
      /\ job["request"].rs \in RouteStates /\ job["request"].plan \in Plans
  BY DEF SetRules, At, IInv, JobOK, Activating
<1>3. /\ Moves("request", "save", job["request"].rs)
      /\ spoiled' \in {spoiled, "overlap"}
      /\ rules' \in {rules, [rules EXCEPT ![job["request"].rs.iface] = @ + 1]}
      /\ faults' \in 0 .. MaxFaults
  BY GotoMoves, ActivatedAlone, ConstantsAssumption
  DEF SetRules, Fault, IInv, TypeOK, Callers, Places
<1>4. Clean' => Clean /\ spoiled' = spoiled
  BY <1>3 DEF Clean
<1>5. rules' \in [Tunnels -> 0 .. MaxCopies]
  BY <1>2, <1>3, ConstantsAssumption DEF IInv, TypeOK, RoomOK, Activating
<1>6. TypeOK'
  BY <1>1, <1>3, <1>5 DEF IInv, TypeOK, Moves, Jobs
<1>7. JobOK'
  BY <1>2, <1>3 DEF IInv, JobOK, Moves, Callers, Undoing, Fetching
<1>8. RoomOK'
  BY <1>3 DEF RoomOK, Moves, UndoPlaces
<1>9. ASSUME Clean' PROVE CleanOK'
  <2>1. Clean /\ CleanOK
    BY <1>4, <1>9 DEF IInv
  <2>2. /\ file = None
        /\ Alone
        /\ FromWan(job["request"].rs)
        /\ Holds(job["request"].rs)
    BY <1>2, <2>1 DEF CleanOK, ActivateOK, Alone, HoldOK, Activating
  <2>3. job["request"].rs.mode = "selective" /\ default = "wan"
    BY <1>2, <2>1 DEF CleanOK, RoutesOK, ActivateOK, Alone, Activating
  <2>4. RulesOf(job["request"].rs)'
    BY <1>2, <1>3, <2>1, <2>3
    DEF CleanOK, HoldOK, NoRules, RulesOf, Activating, Moves, IInv, TypeOK
  <2>5. RoutesOK'
    BY <1>1, <1>2, <2>1, <2>2 DEF CleanOK, RoutesOK
  <2>6. UndoOK'
    BY <1>1, <1>3, <2>1, <2>2, <2>3 DEF CleanOK, UndoOK, Undoing, Moves
  <2>7. ActivateOK'
    BY <1>1, <1>3, <2>2 DEF ActivateOK, Alone, Undoing, UndoPlaces, Moves, Callers
  <2>8. KeptOK' /\ PinsOK'
    BY <1>1, <1>3, <2>1, <2>3 DEF CleanOK, KeptOK, PinsOK, Moves
  <2>9. HoldOK'
    BY <1>1, <1>3, <2>2, <2>4 DEF HoldOK, Holds, Activating, Moves
  <2>10. ProgressOK'
    BY <1>3, <2>2 DEF ProgressOK, Alone, Undoing, UndoPlaces, Moves, Callers
  <2>. QED
    BY <2>5, <2>6, <2>7, <2>8, <2>9, <2>10 DEF CleanOK
<1>. QED
  BY <1>6, <1>7, <1>8, <1>9 DEF IInv

(* Saving the state file keeps IInv: the file takes over what the           *)
(* activation recorded.                                                     *)
LEMMA SaveStateStep ==
  ASSUME IInv, SaveState
  PROVE  IInv'
<1>1. UNCHANGED <<default, pins, groups, dns, statics, rules, strategy, routing, source>>
  BY DEF SaveState, system, settings
<1>2. /\ job["request"].at = "save"
      /\ job["request"].rs \in RouteStates /\ job["request"].plan \in Plans
  BY DEF SaveState, At, IInv, JobOK, Activating
<1>3. \/ /\ Rests("request") /\ file' = job["request"].rs
         /\ spoiled' \in {spoiled, "overlap"}
         /\ running' = running /\ active' \in Tunnels \cup {None}
         /\ saved' \in RoutingConfigs /\ faults' = faults
      \/ /\ Rests("request") /\ spoiled' = "failed" /\ file' = file
         /\ running' \in Tunnels \cup {None} /\ active' \in Tunnels \cup {None}
         /\ saved' \in RoutingConfigs /\ faults' \in 0 .. MaxFaults
  BY <1>2, IdleRests, PlanFields, FailedRests, ActivatedAlone
  DEF SaveState, Succeeded, IInv, TypeOK, Callers
<1>4. Clean' => Clean /\ spoiled' = spoiled /\ file' = job["request"].rs
  BY <1>3 DEF Clean
<1>5. TypeOK'
  BY <1>1, <1>2, <1>3 DEF IInv, TypeOK, Rests, Jobs
<1>6. JobOK'
  BY <1>3 DEF IInv, JobOK, Rests, Callers, Undoing, UndoPlaces, Activating, Fetching
<1>7. RoomOK'
  BY <1>3 DEF RoomOK, Rests, UndoPlaces, Activating
<1>8. ASSUME Clean' PROVE CleanOK'
  <2>1. Clean /\ CleanOK
    BY <1>4, <1>8 DEF IInv
  <2>2. /\ file = None
        /\ Alone
        /\ FromWan(job["request"].rs)
        /\ Holds(job["request"].rs)
    BY <1>2, <2>1 DEF CleanOK, ActivateOK, Alone, HoldOK, Activating
  <2>3. RulesOf(job["request"].rs)
    BY <1>2, <2>1 DEF CleanOK, HoldOK, Activating
  <2>4. RoutesOK'
    BY <1>1, <1>2, <1>3, <1>4, <1>8, <2>1, <2>2, RecordFields DEF CleanOK, RoutesOK, Rests
  <2>5. UndoOK'
    BY <1>3, <2>2 DEF UndoOK, Alone, Undoing, UndoPlaces, Rests, Callers
  <2>6. ActivateOK'
    BY <1>3 DEF ActivateOK, Alone, Undoing, UndoPlaces, Activating, Rests
  <2>7. KeptOK' /\ PinsOK'
    BY <1>1, <1>2, <1>3, <1>4, <1>8, <2>1, <2>2 DEF CleanOK, RoutesOK, KeptOK, PinsOK, Rests
  <2>8. HoldOK'
    BY <1>1, <1>2, <1>3, <1>4, <1>8, <2>2, <2>3, RecordFields
    DEF HoldOK, Holds, RulesOf, Activating, Rests
  <2>9. ProgressOK'
    BY <1>1, <1>3, <2>1
    DEF CleanOK, ProgressOK, NoPins, NoDomains, NoStatics, NoRules, Rests
  <2>. QED
    BY <2>4, <2>5, <2>6, <2>7, <2>8, <2>9 DEF CleanOK
<1>. QED
  BY <1>5, <1>6, <1>7, <1>8 DEF IInv

(* Making groups and DNS routes keeps IInv: the ones recorded are the ones  *)
(* made.                                                                    *)
LEMMA SetDomainsStep ==
  ASSUME IInv, SetDomains
  PROVE  IInv'
<1> DEFINE rs == job["request"].rs
<1>1. UNCHANGED <<default, pins, statics, rules, file, strategy, routing, source>>
  BY DEF SetDomains, settings
<1>2. /\ job["request"].at = "domains"
      /\ rs \in RouteStates /\ job["request"].plan \in Plans
  BY DEF SetDomains, At, IInv, JobOK, Activating
<1>3. \/ /\ Grows("statics", rs.pins, routing.groups, rs.statics)
         /\ groups' = groups \cup routing.groups
         /\ dns' = [g \in Groups |-> IF g \in routing.groups THEN rs.iface ELSE dns[g]]
         /\ spoiled' \in {spoiled, "overlap"}
         /\ UNCHANGED <<running, active, saved, faults>>
      \/ /\ Rests("request") /\ spoiled' = "failed"
         /\ running' \in Tunnels \cup {None} /\ active' \in Tunnels \cup {None}
         /\ saved' \in RoutingConfigs /\ faults' \in 0 .. MaxFaults
  <2>. DEFINE rt == [rs EXCEPT !.groups = routing.groups]
  <2>1. rt \in RouteStates
    BY <1>2, RecordUpdates DEF IInv, TypeOK, RoutingConfigs
  <2>2. /\ rt.mode = rs.mode /\ rt.iface = rs.iface /\ rt.default = rs.default
        /\ rt.pins = rs.pins /\ rt.statics = rs.statics /\ rt.groups = routing.groups
    OBVIOUS
  <2>3. Record("request", "statics", rt) => Grows("statics", rs.pins, routing.groups, rs.statics)
    <3>. HIDE DEF rt
    <3>. QED
      BY <1>2, <2>1, <2>2, RecordGrows DEF IInv, Places
  <2>. QED
    BY <2>3, ActivatedAlone, FailedRests DEF SetDomains, SyncDNSProxyRoutes, runtime
<1>4. Clean' => /\ Clean /\ spoiled' = spoiled
               /\ Grows("statics", rs.pins, routing.groups, rs.statics)
               /\ groups' = groups \cup routing.groups
               /\ dns' = [g \in Groups |-> IF g \in routing.groups THEN rs.iface ELSE dns[g]]
  BY <1>3 DEF Clean
<1>5. groups' \subseteq Groups /\ dns' \in [Groups -> Tunnels \cup {None}]
  BY <1>2, RecordFields
  DEF SetDomains, SyncFQDNGroup, SyncDNSProxyRoutes, IInv, TypeOK, RoutingConfigs
<1>6. TypeOK'
  BY <1>1, <1>3, <1>5 DEF IInv, TypeOK, Grows, Rests, Jobs
<1>7. JobOK'
  BY <1>2, <1>3 DEF IInv, JobOK, Grows, Rests, Callers, Undoing, UndoPlaces, Activating,
     Fetching
<1>8. RoomOK'
  BY <1>1, <1>2, <1>3 DEF IInv, RoomOK, Grows, Rests, UndoPlaces, Activating
<1>9. ASSUME Clean' PROVE CleanOK'
  <2>1. Clean /\ CleanOK
    BY <1>4, <1>9 DEF IInv
  <2>2. /\ file = None
        /\ Alone
        /\ FromWan(rs)
        /\ Holds(rs)
    BY <1>2, <2>1 DEF CleanOK, ActivateOK, Alone, HoldOK, Activating
  <2>3. /\ NoDomains /\ NoStatics /\ default = "wan"
        /\ rs.groups = {} /\ rs.mode = "selective"
    BY <1>2, <2>1
    DEF CleanOK, RoutesOK, ActivateOK, Alone, HoldOK, Holds, NoDomains, NoStatics, Activating
  <2>4. Holds(rs)'
    BY <1>1, <1>4, <1>9, <2>2, <2>3 DEF Holds, Grows
  <2>5. RoutesOK'
    BY <1>1, <1>2, <2>1, <2>2 DEF CleanOK, RoutesOK
  <2>6. UndoOK'
    BY <1>1, <1>4, <1>9, <2>1, <2>2, <2>3
    DEF CleanOK, UndoOK, FromWan, Undoing, Grows, Callers
  <2>7. ActivateOK'
    BY <1>1, <1>4, <1>9, <2>2, <2>3 DEF ActivateOK, Alone, Undoing, UndoPlaces, FromWan, Grows
  <2>8. KeptOK' /\ PinsOK'
    BY <1>1, <1>4, <1>9, <2>1 DEF CleanOK, KeptOK, PinsOK, Grows
  <2>9. HoldOK'
    BY <1>1, <1>2, <1>4, <1>9, <2>1, <2>2, <2>4
    DEF CleanOK, HoldOK, NoRules, Activating, Grows
  <2>10. ProgressOK'
    BY <1>4, <1>9, <2>2 DEF ProgressOK, Alone, Undoing, UndoPlaces, Grows, Callers
  <2>. QED
    BY <2>5, <2>6, <2>7, <2>8, <2>9, <2>10 DEF CleanOK
<1>. QED
  BY <1>6, <1>7, <1>8, <1>9 DEF IInv

(* Making the static routes keeps IInv: the ones recorded are the ones      *)
(* made.                                                                    *)
LEMMA SetStaticsStep ==
  ASSUME IInv, SetStatics
  PROVE  IInv'
<1> DEFINE rs == job["request"].rs
<1>1. UNCHANGED <<default, pins, groups, dns, rules, file, strategy, routing, source>>
  BY DEF SetStatics, settings
<1>2. /\ job["request"].at = "statics"
      /\ rs \in RouteStates /\ job["request"].plan \in Plans
  BY DEF SetStatics, At, IInv, JobOK, Activating
<1>3. \/ /\ Grows("rules", rs.pins, rs.groups, routing.statics)
         /\ statics' = [d \in CIDRs |-> IF d \in routing.statics THEN rs.iface ELSE statics[d]]
         /\ spoiled' \in {spoiled, "overlap"}
         /\ UNCHANGED <<running, active, saved, faults>>
      \/ /\ Rests("request") /\ spoiled' = "failed"
         /\ running' \in Tunnels \cup {None} /\ active' \in Tunnels \cup {None}
         /\ saved' \in RoutingConfigs /\ faults' \in 0 .. MaxFaults
  <2>. DEFINE rt == [rs EXCEPT !.statics = routing.statics]
  <2>1. rt \in RouteStates
    BY <1>2, RecordUpdates DEF IInv, TypeOK, RoutingConfigs
  <2>2. /\ rt.mode = rs.mode /\ rt.iface = rs.iface /\ rt.default = rs.default
        /\ rt.pins = rs.pins /\ rt.groups = rs.groups /\ rt.statics = routing.statics
    OBVIOUS
  <2>3. Record("request", "rules", rt) => Grows("rules", rs.pins, rs.groups, routing.statics)
    <3>. HIDE DEF rt
    <3>. QED
      BY <1>2, <2>1, <2>2, RecordGrows DEF IInv, Places
  <2>. QED
    BY <2>3, ActivatedAlone, FailedRests DEF SetStatics, runtime
<1>4. Clean' => /\ Clean /\ spoiled' = spoiled
               /\ Grows("rules", rs.pins, rs.groups, routing.statics)
               /\ statics' = [d \in CIDRs |->
                    IF d \in routing.statics THEN rs.iface ELSE statics[d]]
  BY <1>3 DEF Clean
<1>5. statics' \in [CIDRs -> Tunnels \cup {None}]
  BY <1>2, RecordFields DEF SetStatics, IInv, TypeOK
<1>6. TypeOK'
  BY <1>1, <1>3, <1>5 DEF IInv, TypeOK, Grows, Rests, Jobs
<1>7. JobOK'
  BY <1>2, <1>3 DEF IInv, JobOK, Grows, Rests, Callers, Undoing, UndoPlaces, Activating,
     Fetching
<1>8. RoomOK'
  BY <1>1, <1>2, <1>3 DEF IInv, RoomOK, Grows, Rests, UndoPlaces, Activating
<1>9. ASSUME Clean' PROVE CleanOK'
  <2>1. Clean /\ CleanOK
    BY <1>4, <1>9 DEF IInv
  <2>2. /\ file = None
        /\ Alone
        /\ FromWan(rs)
        /\ Holds(rs)
    BY <1>2, <2>1 DEF CleanOK, ActivateOK, Alone, HoldOK, Activating
  <2>3. /\ NoStatics /\ default = "wan"
        /\ rs.statics = {} /\ rs.mode = "selective"
    BY <1>2, <2>1 DEF CleanOK, RoutesOK, ActivateOK, Alone, HoldOK, Holds, NoStatics, Activating
  <2>4. Holds(rs)'
    BY <1>1, <1>4, <1>9, <2>2, <2>3 DEF Holds, Grows
  <2>5. RoutesOK'
    BY <1>1, <1>2, <2>1, <2>2 DEF CleanOK, RoutesOK
  <2>6. UndoOK'
    BY <1>1, <1>4, <1>9, <2>1, <2>2, <2>3
    DEF CleanOK, UndoOK, FromWan, Undoing, Grows, Callers
  <2>7. ActivateOK'
    BY <1>1, <1>4, <1>9, <2>2, <2>3 DEF ActivateOK, Alone, Undoing, UndoPlaces, FromWan, Grows
  <2>8. KeptOK' /\ PinsOK'
    BY <1>1, <1>4, <1>9, <2>1 DEF CleanOK, KeptOK, PinsOK, Grows
  <2>9. HoldOK'
    BY <1>1, <1>2, <1>4, <1>9, <2>1, <2>2, <2>4
    DEF CleanOK, HoldOK, NoRules, Activating, Grows
  <2>10. ProgressOK'
    BY <1>4, <1>9, <2>2 DEF ProgressOK, Alone, Undoing, UndoPlaces, Grows, Callers
  <2>. QED
    BY <2>5, <2>6, <2>7, <2>8, <2>9, <2>10 DEF CleanOK
<1>. QED
  BY <1>6, <1>7, <1>8, <1>9 DEF IInv

(* Pinning keeps IInv: a pin leads where the default route does, to the     *)
(* WAN.                                                                     *)
LEMMA PinStep ==
  ASSUME IInv, Pin
  PROVE  IInv'
<1>1. UNCHANGED <<default, groups, dns, statics, rules, file, strategy, routing, source>>
  BY DEF Pin, settings
<1>2. /\ job["request"].at = "pin"
      /\ job["request"].rs \in RouteStates /\ job["request"].plan \in Plans
  BY DEF Pin, At, IInv, JobOK, Activating
<1>. DEFINE rs == job["request"].rs
            pinned == Pinned(rs, job["request"].host)
            found == {h \in pinned : RouteTo(h) # "none"}
<1>3. /\ AfterPin \in Places
      /\ \/ rs.mode = "global" /\ AfterPin = "default"
         \/ rs.mode = "selective" /\ AfterPin = "domains"
      /\ pinned \subseteq Destinations /\ found \subseteq Destinations
  <2>1. job["request"].host \in Hosts \cup {None} /\ rs.mode \in Modes /\ rs.iface \in Tunnels
    BY <1>2, RecordFields DEF IInv, TypeOK, Jobs, Callers
  <2>. QED
    BY <2>1 DEF AfterPin, Places, Pinned, Destinations, Modes
<1>4. PICK done \in SUBSET found :
          /\ pins' = [h \in Destinations |-> IF h \in done THEN RouteTo(h) ELSE pins[h]]
          /\ \/ /\ Record("request", AfterPin, [rs EXCEPT !.pins = done])
                /\ \/ done = found /\ Activated /\ UNCHANGED faults
                   \/ /\ Fault("command")
                      /\ spoiled' = IF spoiled = "no" THEN "unpinned" ELSE spoiled
                /\ UNCHANGED runtime
             \/ Failed /\ spoiled' = "failed"
  BY DEF Pin
<1>5. Record("request", AfterPin, [rs EXCEPT !.pins = done])
        => Grows(AfterPin, done, rs.groups, rs.statics)
  <2>. DEFINE rt == [rs EXCEPT !.pins = done]
  <2>1. rt \in RouteStates
    BY <1>2, <1>3, RecordUpdates
  <2>2. /\ rt.mode = rs.mode /\ rt.iface = rs.iface /\ rt.default = rs.default
        /\ rt.pins = done /\ rt.groups = rs.groups /\ rt.statics = rs.statics
    OBVIOUS
  <2>3. HAVE Record("request", AfterPin, rt)
  <2>. HIDE DEF rt
  <2>. QED
    BY <1>2, <1>3, <2>1, <2>2, <2>3, RecordGrows DEF IInv
<1>6. \/ /\ Grows(AfterPin, done, rs.groups, rs.statics)
         /\ \/ done = found /\ spoiled' \in {spoiled, "overlap"}
            \/ spoiled' = IF spoiled = "no" THEN "unpinned" ELSE spoiled
         /\ UNCHANGED <<running,
                  active, saved>> /\ faults' \in 0 .. MaxFaults
      \/ /\ Rests("request") /\ spoiled' = "failed"
         /\ running' \in Tunnels \cup {None} /\ active' \in Tunnels \cup {None}
         /\ saved' \in RoutingConfigs /\ faults' \in 0 .. MaxFaults
  <2>1. CASE Failed /\ spoiled' = "failed"
    BY <2>1, FailedRests
  <2>2. CASE /\ Record("request", AfterPin, [rs EXCEPT !.pins = done])
             /\ done = found /\ Activated /\ UNCHANGED faults /\ UNCHANGED runtime
    BY <1>5, <2>2, ActivatedAlone DEF runtime, IInv, TypeOK
  <2>3. CASE /\ Record("request", AfterPin, [rs EXCEPT !.pins = done])
             /\ Fault("command")
             /\ spoiled' = IF spoiled = "no" THEN "unpinned" ELSE spoiled
             /\ UNCHANGED runtime
    BY <1>5, <2>3, ConstantsAssumption DEF runtime, Fault, IInv, TypeOK
  <2>. QED
    BY <1>4, <2>1, <2>2, <2>3
<1>7. Clean' => /\ Clean
                /\ Grows(AfterPin, done, rs.groups, rs.statics)
                /\ spoiled' = "no" => spoiled = "no" /\ done = found
  BY <1>6 DEF Clean
<1>8. pins' \in [Destinations -> {"wan", None} \cup Tunnels]
  BY <1>4 DEF RouteTo, IInv, TypeOK
<1>. HIDE DEF rs, pinned, found
<1>9. TypeOK'
  BY <1>1, <1>6, <1>8 DEF IInv, TypeOK, Grows, Rests, Jobs
<1>10. JobOK'
  BY <1>2, <1>3, <1>6
  DEF IInv, JobOK, Grows, Rests, Callers, Undoing, UndoPlaces, Activating, Fetching, rs
<1>11. RoomOK'
  BY <1>1, <1>2, <1>3, <1>6 DEF IInv, RoomOK, Grows, Rests, UndoPlaces, Activating
<1>12. ASSUME Clean' PROVE CleanOK'
  <2>1. Clean /\ CleanOK
    BY <1>7, <1>12 DEF IInv
  <2>2. /\ file = None
        /\ Alone
        /\ rs.groups = {} /\ rs.statics = {}
        /\ FromWan(rs)
        /\ Holds(rs) /\ NoRules /\ default = "wan"
    BY <1>2, <2>1 DEF CleanOK, RoutesOK, ActivateOK, Alone, HoldOK, Activating, rs
  <2>3. /\ found = pinned
        /\ pins' = [h \in Destinations |-> IF h \in done THEN "wan" ELSE pins[h]]
    <3>1. \A h \in Destinations : RouteTo(h) = "wan"
      BY <2>1, <2>2 DEF CleanOK, RoutesOK, RouteTo
    <3>. QED
      BY <1>3, <1>4, <3>1 DEF found
  <2>4. rs.pins = {}
    BY <1>2, <2>1 DEF CleanOK, HoldOK, Activating, rs
  <2>5. Holds(rs)'
    BY <1>1, <1>7, <1>12, <2>2, <2>3, <2>4 DEF Holds, Grows, rs
  <2>6. /\ \A h \in done : pins'[h] = "wan"
        /\ rs.mode = "global" /\ spoiled' = "no" => {rs.iface, "networks"} \subseteq done
    BY <1>3, <1>7, <1>12, <2>3 DEF Pinned, pinned, found
  <2>7. RoutesOK'
    BY <1>1, <1>2, <2>1, <2>2, <2>3 DEF CleanOK, RoutesOK
  <2>8. UndoOK'
    BY <1>3, <1>7, <1>12, <2>2 DEF UndoOK, Alone, Undoing, UndoPlaces, Grows, Callers
  <2>9. ActivateOK'
    BY <1>1, <1>2, <1>3, <1>7, <1>12, <2>1, <2>2
    DEF rs, CleanOK, ActivateOK, Alone, Undoing, UndoPlaces, FromWan, Activating, Grows
  <2>10. KeptOK' /\ PinsOK'
    BY <1>1, <1>7, <1>12, <2>2, <2>6 DEF KeptOK, PinsOK, rs, Grows
  <2>11. HoldOK'
    BY <1>1, <1>2, <1>3, <1>7, <1>12, <2>1, <2>2, <2>3
    DEF CleanOK, HoldOK, Holds, NoRules, Activating, Grows
  <2>12. ProgressOK'
    BY <1>3, <1>7, <1>12, <2>2 DEF ProgressOK, Alone, Undoing, UndoPlaces, Grows, Callers
  <2>. QED
    BY <2>7, <2>8, <2>9, <2>10, <2>11, <2>12 DEF CleanOK
<1>. QED
  BY <1>9, <1>10, <1>11, <1>12 DEF IInv

\* The request begins to activate t.
Begun(t) ==
    LET rt == job'["request"].rs IN
    /\ job' \in [Callers -> Jobs]
    /\ job'["request"].at = "wait" /\ job'["request"].plan = job["request"].plan
    /\ \A c \in Callers \ {"request"} : job'[c] = job[c]
    /\ rt \in RouteStates
    /\ rt.mode = strategy' /\ rt.iface = t
    /\ rt.default = IF strategy' = "global" THEN default' ELSE "none"
    /\ rt.pins = {} /\ rt.groups = {} /\ rt.statics = {}

(* An activation begins with a record in which nothing was made yet.        *)
LEMMA Begins ==
  ASSUME IInv, NEW t \in Tunnels, NEW host \in Hosts \cup {None}, Begin(t, host),
         strategy' \in Modes, default' \in {"wan", "none"} \cup Tunnels
  PROVE  Begun(t) /\ Activated
<1>. DEFINE blank == Blank(strategy', t, IF strategy' = "global" THEN default' ELSE "none")
<1>1. blank \in RouteStates
  BY Blanks
<1>2. /\ blank.mode = strategy' /\ blank.iface = t
      /\ blank.default = IF strategy' = "global" THEN default' ELSE "none"
      /\ blank.pins = {} /\ blank.groups = {} /\ blank.statics = {}
  BY DEF Blank
<1>3. /\ job' = [job EXCEPT !["request"] = [@ EXCEPT
            !.at = "wait", !.by = strategy', !.host = host, !.rs = blank]]
      /\ Activated
  BY DEF Begin
<1>. HIDE DEF blank
<1>. QED
  BY <1>1, <1>2, <1>3 DEF Begun, IInv, TypeOK, Jobs, Callers, Places

(* The turn from off to on keeps IInv: nothing is installed, and nobody     *)
(* else is at work.                                                         *)
LEMMA TurnStep ==
  ASSUME IInv, Turn
  PROVE  IInv'
<1>1. UNCHANGED <<groups, dns, rules, file>>
  BY DEF Turn
<1>2. job["request"].at = "turn" /\ job["request"].plan \in Plans /\ ~Activating
  BY DEF Turn, At, IInv, JobOK, Activating
<1>. DEFINE plan == job["request"].plan
<1>3. /\ default' \in {default, "none"} /\ (default \notin Tunnels => default' = default)
      /\ pins' \in [Destinations -> {"wan", None} \cup Tunnels]
      /\ \A h \in Destinations : pins[h] \notin Tunnels => pins'[h] = pins[h]
      /\ statics' \in [CIDRs -> Tunnels \cup {None}]
      /\ \A d \in CIDRs : statics[d] = None => statics'[d] = None
      /\ UNCHANGED source
  BY DEF Turn, TurnStop, TurnSwitch, TurnUpdate, DevicesOff, settings, IInv, TypeOK
<1>4. /\ strategy' \in Modes /\ routing' \in RoutingConfigs /\ saved' \in RoutingConfigs
      /\ running' \in Tunnels \cup {None} /\ active' \in Tunnels \cup {None}
      /\ faults' \in 0 .. MaxFaults
  <2>1. CASE TurnStop
    BY <2>1, ConstantsAssumption DEF TurnStop, Fault, settings, IInv, TypeOK
  <2>2. CASE TurnSwitch
    <3>1. plan.iface \in Tunnels
      BY <1>2, <2>2, PlanFields DEF TurnSwitch
    <3>2. /\ UNCHANGED settings
          /\ running' \in {running, None, plan.iface} /\ active' \in {active, None}
          /\ saved' \in {saved, routing}
          /\ UNCHANGED faults \/ Fault("command")
      BY <2>2 DEF TurnSwitch, runtime
    <3>. QED
      BY <3>1, <3>2, ConstantsAssumption DEF Fault, settings, IInv, TypeOK
  <2>3. CASE TurnUpdate
    <3>1. plan.routing \in RoutingConfigs
      BY <1>2, <2>3, PlanFields DEF TurnUpdate
    <3>2. /\ UNCHANGED <<running, active>>
          /\ \/ Recreate(plan.routing) /\ UNCHANGED faults
             \/ SaveFails(plan.routing)
             \/ UNCHANGED <<strategy, routing, saved, faults>>
      BY <2>3 DEF TurnUpdate, ghosts
    <3>. QED
      BY <3>1, <3>2, Recreated DEF IInv, TypeOK
  <2>. QED
    BY <2>1, <2>2, <2>3 DEF Turn
<1>5. \/ Rests("request") /\ spoiled' = spoiled
      \/ \E t \in Tunnels : Begun(t) /\ Activated /\ rules[t] < MaxCopies
  <2>. USE DEF IInv
  <2>1. CASE Idle("request") /\ spoiled' = spoiled
    BY <2>1, IdleRests DEF Callers
  <2>2. ASSUME NEW t, NEW host, Begin(t, host), t \in Tunnels, host \in Hosts \cup {None},
               rules[t] < MaxCopies
        PROVE  \E u \in Tunnels : Begun(u) /\ Activated /\ rules[u] < MaxCopies
    BY <1>3, <1>4, <2>2, Begins DEF TypeOK
  <2>3. job["request"].host \in Hosts \cup {None} /\ source \in Hosts \cup {None}
    BY DEF TypeOK, Jobs, Callers
  <2>4. CASE TurnStop
    BY <2>1, <2>4 DEF TurnStop
  <2>5. CASE TurnSwitch
    <3>1. plan.iface \in Tunnels /\ rules[plan.iface] < MaxCopies
      BY <1>2, <2>5, PlanFields DEF TurnSwitch, RoomOK
    <3>2. \/ Begin(plan.iface, job["request"].host)
          \/ Idle("request") /\ spoiled' = spoiled
      BY <2>5 DEF TurnSwitch
    <3>. QED
      BY <2>1, <2>2, <2>3, <3>1, <3>2
  <2>6. CASE TurnUpdate
    <3>1. active # None => active \in Tunnels /\ rules[active] < MaxCopies
      BY <1>2, <2>6 DEF TurnUpdate, RoomOK, TypeOK
    <3>2. \/ active # None /\ Begin(active, source)
          \/ Idle("request") /\ spoiled' = spoiled
      BY <2>6 DEF TurnUpdate, ghosts
    <3>. QED
      BY <2>1, <2>2, <2>3, <3>1, <3>2
  <2>. QED
    BY <2>4, <2>5, <2>6 DEF Turn
<1>6. spoiled' \in {spoiled, "overlap"}
  BY <1>5, ActivatedAlone
<1>7. TypeOK'
  BY <1>1, <1>3, <1>4, <1>5, <1>6 DEF IInv, TypeOK, Rests, Begun, Destinations
<1>8. JobOK'
  BY <1>2, <1>5
  DEF IInv, JobOK, Rests, Begun, Callers, Undoing, UndoPlaces, Activating, Fetching
<1>9. RoomOK'
  BY <1>1, <1>5 DEF RoomOK, Rests, Begun, UndoPlaces, Activating
<1>10. ASSUME Clean' PROVE CleanOK'
  <2>1. Clean /\ CleanOK /\ spoiled' = spoiled
    BY <1>5, <1>10, ActivatedAlone DEF IInv, Clean
  <2>2. file = None /\ default = "wan" /\ NoPins /\ NoDomains /\ NoStatics /\ NoRules
    BY <1>2, <2>1 DEF CleanOK, RoutesOK, ActivateOK, HoldOK
  <2>3. UNCHANGED <<default, pins, statics>>
    <3>1. default' = default
      BY <1>3, <2>2, ConstantsAssumption
    <3>2. pins' = pins
      <4>1. \A h \in Destinations : pins'[h] = pins[h]
        BY <1>3, <2>1, ConstantsAssumption DEF CleanOK, RoutesOK
      <4>. QED
        BY <1>3, <4>1 DEF IInv, TypeOK
    <3>3. statics' = statics
      BY <1>3, <2>2 DEF NoStatics, IInv, TypeOK
    <3>. QED
      BY <3>1, <3>2, <3>3
  <2>4. CASE Rests("request")
    BY <1>1, <1>2, <1>10, <2>1, <2>3, <2>4, RouterKept DEF Rests
  <2>5. CASE \E t \in Tunnels : Begun(t) /\ Activated
    <3>1. PICK t \in Tunnels : Begun(t) /\ Activated
      BY <2>5
    <3>2. Alone
      BY <1>10, <3>1, ActivatedAlone
    <3>3. RoutesOK'
      BY <1>1, <2>1, <2>2, <2>3, <3>1, ConstantsAssumption DEF CleanOK, RoutesOK, Begun
    <3>4. UndoOK'
      BY <3>1, <3>2 DEF UndoOK, Alone, Undoing, UndoPlaces, Begun, Callers
    <3>5. ActivateOK'
      BY <1>1, <2>2, <2>3, <3>1, <3>2
      DEF ActivateOK, Alone, FromWan, Undoing, UndoPlaces, Begun, Callers
    <3>6. KeptOK' /\ PinsOK'
      BY <1>1, <2>2, <3>1 DEF KeptOK, PinsOK, Begun
    <3>7. HoldOK'
      BY <1>1, <2>2, <2>3, <3>1
      DEF HoldOK, Holds, NoPins, NoDomains, NoStatics, NoRules, Activating, Begun
    <3>8. ProgressOK'
      BY <1>1, <2>2, <2>3 DEF ProgressOK, NoPins, NoDomains, NoStatics, NoRules
    <3>. QED
      BY <3>3, <3>4, <3>5, <3>6, <3>7, <3>8 DEF CleanOK
  <2>. QED
    BY <1>5, <2>4, <2>5
<1>. QED
  BY <1>7, <1>8, <1>9, <1>10 DEF IInv

(* A router on which nothing was installed.                                 *)
LEMMA InitIInv ==
  ASSUME Init
  PROVE  IInv
<1>1. TypeOK
  BY ConstantsAssumption
  DEF Init, TypeOK, IdleJob, Jobs, Places, Modes, RoutingConfigs, Destinations
<1>2. \A c \in Callers : job[c].at = "idle"
  BY DEF Init, IdleJob
<1>3. JobOK /\ RoomOK /\ UndoOK /\ ActivateOK /\ KeptOK /\ PinsOK /\ ProgressOK
  BY <1>2, ConstantsAssumption
  DEF Init, JobOK, RoomOK, UndoOK, ActivateOK, KeptOK, PinsOK, ProgressOK, Undoing, UndoPlaces,
      Activating, Fetching, Callers
<1>4. RoutesOK /\ HoldOK
  BY <1>2, ConstantsAssumption
  DEF Init, RoutesOK, HoldOK, NoPins, NoDomains, NoStatics, NoRules, Activating, Callers
<1>. QED
  BY <1>1, <1>3, <1>4 DEF IInv, CleanOK

(* Nothing changes.                                                         *)
LEMMA StutterStep ==
  ASSUME IInv, UNCHANGED vars
  PROVE  IInv'
<1>1. UNCHANGED <<default, pins, groups, dns, statics, rules, file, strategy, routing, source,
                  running, active, saved, job, faults, spoiled>>
  BY DEF vars, system, settings, runtime, ghosts
<1>2. TypeOK' /\ JobOK' /\ RoomOK'
  BY <1>1 DEF IInv, TypeOK, JobOK, RoomOK, Undoing, Activating, Fetching
<1>3. Clean' => CleanOK'
  BY <1>1, RouterKept
<1>. QED
  BY <1>2, <1>3 DEF IInv

(* Every step of the callers and of the outside keeps IInv.                 *)
LEMMA StepIInv ==
  ASSUME IInv, [Next]_vars
  PROVE  IInv'
<1>1. CASE \E c \in Callers : Deactivating(c)
  BY <1>1, TakeStep, LoadStep, UndoDefaultStep, UndoDomainsStep, UndoStaticsStep, UnpinStep,
     UndoRulesStep, RemoveStep
  DEF Deactivating
<1>2. CASE Switch \/ Stop \/ Update \/ Turn
  BY <1>2, SwitchStep, StopStep, UpdateStep, TurnStep
<1>3. CASE Wait \/ Pin \/ SetDefault \/ SetDomains \/ SetStatics \/ SetRules \/ SaveState
  BY <1>3, WaitStep, PinStep, SetDefaultStep, SetDomainsStep, SetStaticsStep, SetRulesStep,
     SaveStateStep
<1>4. CASE SetSource \/ Refresh \/ Fetched \/ Vanish \/ ClientExits \/ Shutdown \/ Crash
  BY <1>4, SetSourceStep, RefreshStep, FetchedStep, ExitStep, CrashStep
<1>5. CASE UNCHANGED vars
  BY <1>5, StutterStep
<1>. QED
  BY <1>1, <1>2, <1>3, <1>4, <1>5 DEF Next

(* IInv holds in every state.                                               *)
LEMMA Invariance == Spec => []IInv
  BY InitIInv, StepIInv, PTL DEF Spec

-----------------------------------------------------------------------------

(* Every variable has its type in every state; the copies of a firewall     *)
(* rule stay in their bound.                                                *)
THEOREM TypeCorrect == Spec => []TypeOK
<1>1. IInv => TypeOK
  BY DEF IInv
<1>. QED
  BY <1>1, Invariance, PTL

(* Whenever nobody is at work and none of the five spoilers happened, all   *)
(* that Activate installed on the router is in the state file, from which   *)
(* Deactivate removes it (selective.go, routes.go).                         *)
THEOREM EverythingRecorded == Spec => []Recorded
<1>1. IInv => Recorded
  <2>. SUFFICES ASSUME IInv, Quiet, Clean PROVE RoutesKnown /\ ArtefactsKnown
    BY DEF Recorded, Clean
  <2>1. CleanOK /\ ~Activating /\ job["request"].at # "save"
    BY DEF IInv, Quiet, Activating, Callers
  <2>2. RoutesKnown
    BY <2>1 DEF CleanOK, RoutesOK, HoldOK, Holds, NoPins, FromWan, RoutesKnown
  <2>3. ArtefactsKnown
    BY <2>1
    DEF CleanOK, HoldOK, Holds, RulesOf, NoDomains, NoStatics, NoRules, ArtefactsKnown
  <2>. QED
    BY <2>2, <2>3
<1>. QED
  BY <1>1, Invariance, PTL

(* While the default route leads into a tunnel and every pin of its         *)
(* activation was made, its endpoint, the private networks and all else     *)
(* that was pinned lead to the WAN, between any two commands.               *)
THEOREM NoRouteLoops == Spec => []NoLoop
<1>1. IInv => NoLoop
  <2>. SUFFICES ASSUME IInv, spoiled = "no", default \in Tunnels PROVE NoLoop
    BY DEF NoLoop
  <2>1. CleanOK /\ RoutesOK /\ KeptOK /\ PinsOK
    BY DEF IInv, Clean, CleanOK
  <2>2. CASE file # None
    BY <2>1, <2>2 DEF KeptOK, PinsOK, NoLoop
  <2>3. CASE file = None
    BY <2>1, <2>3 DEF RoutesOK, KeptOK, PinsOK, NoLoop
  <2>. QED
    BY <2>2, <2>3
<1>. QED
  BY <1>1, Invariance, PTL

(* A refresh fetches past the tunnel when EnsureSubscriptionReachable or    *)
(* the activation pinned the host, whatever the exit handler and Shutdown   *)
(* undo meanwhile and wherever the subscription moved.                      *)
THEOREM SubscriptionStaysOutside == Spec => []SubscriptionOutside
<1>1. IInv => SubscriptionOutside
  <2>. DEFINE h == job["request"].host
  <2>. SUFFICES ASSUME IInv, Clean, Fetching,
                       \/ At("request", "fetch") /\ (file # None => file.mode = strategy)
                       \/ file # None /\ h \in file.pins
                PROVE  RouteTo(h) = "wan"
    BY DEF SubscriptionOutside, Clean
  <2>1. h \in Destinations /\ job["request"].at # "save" /\ RoutesOK /\ KeptOK
    BY DEF IInv, JobOK, CleanOK, Fetching, Destinations
  <2>2. CASE default \in Tunnels
    BY <2>1, <2>2, ConstantsAssumption DEF RoutesOK, KeptOK, RouteTo, At
  <2>3. CASE default = "wan"
    BY <2>1, <2>3 DEF RoutesOK, RouteTo
  <2>. QED
    BY <2>1, <2>2, <2>3 DEF RoutesOK
<1>. QED
  BY <1>1, Invariance, PTL

=============================================================================
