-------------------------- MODULE SubscriptionProofs --------------------------
(***************************************************************************)
(* Proofs about Subscription, for any urls, intervals, word size and       *)
(* bounds.                                                                 *)
(*                                                                         *)
(* IntervalKept and FallbackTried are about single steps, but what makes   *)
(* them true was decided some steps before, when the loop looked at the    *)
(* stored time or an agent was refused.  DueOK and TriesOK keep it.        *)
(***************************************************************************)
EXTENDS Subscription, TLAPS

\* Who holds a.mu works, and on what it was called for.
LockOK ==
    /\ lock = "loop" <=> loop = "run"
    /\ lock = "user" => user # None
    /\ step # "idle" => lock \in {"loop", "user"}
    /\ step = "import" => user \in Urls
    /\ step = "store" => tries # <<>>
    /\ step = "hwid" => snap \in [url : Urls \cup {None}, hwid : BOOLEAN]

\* The stored time is that of the loop's last refresh or of a later one, and its
\* interval is among those that count.  So the loop that is not asleep, because it
\* saw that a refresh was due, has kept the shortest of them, and what is stored
\* while it waits for a.mu only makes that one shorter.
DueOK ==
    sinceLoop # None =>
        /\ age \in 0 .. sinceLoop
        /\ shortest <= Duration(interval)
        /\ loop # "sleep" => sinceLoop >= shortest

\* The context is over or something has changed at the source, and so a refusal
\* says nothing.
Excused == ContextDone \/ changes > 0

\* Each agent that is not to be tried any more was refused.
TriesOK ==
    /\ step = "hwid" => tries = OrderedUserAgents(agent)
    /\ step = "fetch" =>
        \/ tries = OrderedUserAgents(agent)
        \/ tries = <<"happ">> /\ (Excused \/ agent \notin server)
        \/ tries = <<>> /\ (Excused \/ {"happ", agent} \cap server = {})

\* TypeOK, the flags apart from the rest.
FlagsOK ==
    /\ hwid \in BOOLEAN
    /\ tick \in BOOLEAN
    /\ expired \in BOOLEAN
    /\ hungUp \in BOOLEAN
    /\ overwritten \in BOOLEAN

DataOK ==
    /\ url \in Urls \cup {None}
    /\ agent \in Agents
    /\ interval \in Nat \ {0}
    /\ age \in -MaxAge .. MaxAge \cup {None}
    /\ sinceLoop \in 0 .. MaxAge \cup {None}
    /\ shortest \in Int
    /\ server \subseteq Agents
    /\ loop \in {"sleep", "wait", "run"}
    /\ user \in Urls \cup {None, "refresh"}
    /\ lock \in {None, "loop", "user", "other"}
    /\ step \in {"idle", "import", "read", "hwid", "fetch", "store"}
    /\ snap \in [url : Urls \cup {None}, hwid : BOOLEAN] \cup {None}
    /\ tries \in AgentLists
    /\ asked \in Urls \cup {None}
    /\ header \in Headers \cup {None}
    /\ changes \in 0 .. MaxChanges

IInv ==
    /\ FlagsOK
    /\ DataOK
    /\ LockOK
    /\ DueOK
    /\ TriesOK
    /\ PatchStands

(* The agents to be tried are in one of three lists, and after the first    *)
(* comes the fallback or nothing.                                           *)
LEMMA Agenda ==
  /\ \A a \in Agents : OrderedUserAgents(a) \in AgentLists \ {<<>>}
  /\ \A list \in AgentLists \ {<<>>} : Head(list) \in Agents /\ Tail(list) \in AgentLists
<1>1. OrderedUserAgents("happ") = <<"happ">>
  BY DEF OrderedUserAgents
<1>2. OrderedUserAgents("v2raytun") = <<"v2raytun", "happ">>
  BY DEF OrderedUserAgents
<1>3. <<"happ">> # <<>> /\ Head(<<"happ">>) = "happ" /\ Tail(<<"happ">>) = <<>>
  OBVIOUS
<1>4. /\ <<"v2raytun", "happ">> # <<>>
      /\ Head(<<"v2raytun", "happ">>) = "v2raytun"
      /\ Tail(<<"v2raytun", "happ">>) = <<"happ">>
  OBVIOUS
<1>. QED
  BY <1>1, <1>2, <1>3, <1>4 DEF Agents, AgentLists

(* The two orders of user agents.                                           *)
LEMMA OrderOf ==
  ASSUME NEW a \in Agents
  PROVE  OrderedUserAgents(a) = IF a = "happ" THEN <<"happ">> ELSE <<"v2raytun", "happ">>
  BY DEF OrderedUserAgents, Agents

(* Whatever the source answers, the interval stays one that the loop can    *)
(* work with.                                                               *)
LEMMA IntervalParsed ==
  ASSUME NEW h \in Headers \cup {None}
  PROVE  ParseRefreshInterval(h) \in Nat \ {0}
  BY ConstantsAssumption DEF ParseRefreshInterval

-----------------------------------------------------------------------------
(* A snapshot of the store is one of its url and its HWID.                  *)
LEMMA Snapshot ==
  ASSUME FlagsOK, DataOK
  PROVE  [url |-> url, hwid |-> hwid] \in [url : Urls \cup {None}, hwid : BOOLEAN]
  BY DEF FlagsOK, DataOK

(* A duration is a number.                                                  *)
LEMMA DurationIsInt ==
  ASSUME NEW hours \in Int
  PROVE  Duration(hours) \in Int
  BY ConstantsAssumption DEF Duration

(* Zenon works on the flags, and SMT on the rest.                           *)
LEMMA Types == TypeOK <=> FlagsOK /\ DataOK
  BY DEF TypeOK, FlagsOK, DataOK

LEMMA InitIInv == Init => IInv
<1>1. Init => FlagsOK
  BY Zenon DEF Init, FlagsOK
<1>2. Init => DataOK
  BY DurationIsInt, ConstantsAssumption DEF Init, DataOK, Agents, AgentLists
<1>3. Init => LockOK /\ DueOK /\ TriesOK /\ PatchStands
  BY ConstantsAssumption DEF Init, LockOK, DueOK, TriesOK, PatchStands
<1>. QED
  BY <1>1, <1>2, <1>3 DEF IInv

(* The flags stay flags.                                                    *)
LEMMA StepFlags == IInv /\ [Next]_vars => FlagsOK'
<1> SUFFICES ASSUME IInv, [Next]_vars PROVE FlagsOK'
  OBVIOUS
<1> USE DEF FlagsOK
<1>1. ASSUME Minute PROVE FlagsOK'
  BY <1>1, Zenon DEF IInv, Minute, stored, asking, work, outside, ghosts
<1>2. ASSUME SetClock PROVE FlagsOK'
  BY <1>2, Zenon DEF IInv, SetClock, Change, stored, looping, asking, work, ghosts
<1>3. ASSUME ChangeSource PROVE FlagsOK'
  BY <1>3, Zenon DEF IInv, ChangeSource, Change, stored, looping, asking, work, ghosts
<1>4. ASSUME Wake PROVE FlagsOK'
  BY <1>4, Zenon DEF IInv, Wake, stored, asking, work, outside, ghosts
<1>5. ASSUME Expire PROVE FlagsOK'
  BY <1>5, Zenon DEF IInv, Expire, stored, asking, work, outside, ghosts
<1>6. ASSUME Ask PROVE FlagsOK'
  BY <1>6, Zenon DEF IInv, Ask, stored, looping, work, outside, ghosts
<1>7. ASSUME HangUp PROVE FlagsOK'
  BY <1>7, Zenon DEF IInv, HangUp, stored, looping, work, outside, ghosts
<1>8. ASSUME Patch PROVE FlagsOK'
  BY <1>8, Zenon DEF IInv, Patch, looping, asking, work, outside
<1>9. ASSUME OtherWork PROVE FlagsOK'
  BY <1>9, Zenon DEF IInv, OtherWork, stored, looping, asking, outside, ghosts
<1>10. ASSUME OtherWorkEnds PROVE FlagsOK'
  BY <1>10, Zenon DEF IInv, OtherWorkEnds, stored, looping, asking, outside, ghosts
<1>11. ASSUME LockLoop PROVE FlagsOK'
  BY <1>11, Zenon DEF IInv, LockLoop, Lock, stored, asking, outside, ghosts
<1>12. ASSUME LockUser PROVE FlagsOK'
  BY <1>12, Zenon DEF IInv, LockUser, Lock, stored, looping, asking, outside, ghosts
<1>13. ASSUME Import PROVE FlagsOK'
  BY <1>13, Zenon DEF IInv, Import, WriteBack, looping, asking, outside
<1>14. ASSUME Read PROVE FlagsOK'
  BY <1>14, Zenon DEF IInv, Read, End, stored, asking, outside, ghosts
<1>15. ASSUME NewHWID PROVE FlagsOK'
  <2>1. [snap EXCEPT !.hwid = TRUE].hwid = TRUE
    BY <1>15 DEF NewHWID, IInv, LockOK
  <2>. QED
    BY <1>15, <2>1, Zenon DEF IInv, NewHWID, WriteBack, looping, asking, outside
<1>16. ASSUME FetchOnce PROVE FlagsOK'
  BY <1>16, Zenon DEF IInv, FetchOnce, FetchFailsAs, stored, looping, asking, outside,
     ghosts
<1>17. ASSUME FetchFails PROVE FlagsOK'
  BY <1>17, Zenon DEF IInv, FetchFails, End, stored, asking, outside, ghosts
<1>18. ASSUME Store PROVE FlagsOK'
  BY <1>18, Zenon DEF IInv, Store, End, asking, outside, ghosts
<1>19. CASE UNCHANGED vars
  BY <1>19, Zenon DEF IInv, vars, stored, looping, asking, work, outside, ghosts
<1>. QED
  BY <1>1, <1>2, <1>3, <1>4, <1>5, <1>6, <1>7, <1>8, <1>9, <1>10, <1>11, <1>12, <1>13,
     <1>14, <1>15, <1>16, <1>17, <1>18, <1>19 DEF Next, Refresh

(* Every step of the clock, of the source, of the loop, of a user and of a  *)
(* refresh keeps IInv.                                                      *)
LEMMA StepIInv == IInv /\ [Next]_vars => IInv'
<1> SUFFICES ASSUME IInv, [Next]_vars PROVE IInv'
  OBVIOUS
<1> USE ConstantsAssumption DEF IInv
<1>1. ASSUME Minute PROVE DataOK' /\ LockOK' /\ DueOK' /\ TriesOK' /\ PatchStands'
  BY <1>1 DEF Minute, Older, stored, asking, work, outside, ghosts, clock, DataOK, LockOK,
     DueOK, TriesOK, PatchStands, Excused, ContextDone
<1>2. ASSUME SetClock PROVE DataOK' /\ LockOK' /\ DueOK' /\ TriesOK' /\ PatchStands'
  BY <1>2 DEF SetClock, Change, stored, looping, asking, work, ghosts, clock, DataOK, LockOK,
     DueOK, TriesOK, PatchStands, Excused, ContextDone
<1>3. ASSUME ChangeSource PROVE DataOK' /\ LockOK' /\ DueOK' /\ TriesOK' /\ PatchStands'
  BY <1>3 DEF ChangeSource, Change, stored, looping, asking, work, ghosts, clock, DataOK, LockOK,
     DueOK, TriesOK, PatchStands, Excused, ContextDone
<1>4. ASSUME Wake PROVE DataOK' /\ LockOK' /\ DueOK' /\ TriesOK' /\ PatchStands'
  <2>1. DataOK'
    BY <1>4 DEF Wake, stored, asking, work, outside, ghosts, clock, DataOK
  <2>2. LockOK'
    BY <1>4 DEF Wake, stored, asking, work, outside, LockOK
  <2>3. DueOK'
    BY <1>4, DurationIsInt DEF Wake, RefreshDue, stored, clock, DueOK, DataOK
  <2>4. TriesOK'
    BY <1>4 DEF Wake, stored, asking, work, outside, TriesOK, Excused, ContextDone, LockOK
  <2>5. PatchStands'
    BY <1>4 DEF Wake, stored, asking, work, outside, ghosts, PatchStands
  <2>. QED
    BY <2>1, <2>2, <2>3, <2>4, <2>5
<1>5. ASSUME Expire PROVE DataOK' /\ LockOK' /\ DueOK' /\ TriesOK' /\ PatchStands'
  BY <1>5 DEF Expire, stored, asking, work, outside, ghosts, clock, DataOK, LockOK,
     DueOK, TriesOK, PatchStands, Excused, ContextDone
<1>6. ASSUME Ask PROVE DataOK' /\ LockOK' /\ DueOK' /\ TriesOK' /\ PatchStands'
  BY <1>6 DEF Ask, stored, looping, work, outside, ghosts, clock, DataOK, LockOK, DueOK, TriesOK,
     PatchStands, Excused, ContextDone
<1>7. ASSUME HangUp PROVE DataOK' /\ LockOK' /\ DueOK' /\ TriesOK' /\ PatchStands'
  BY <1>7 DEF HangUp, stored, looping, work, outside, ghosts, clock, DataOK, LockOK, DueOK,
     TriesOK, PatchStands, Excused, ContextDone
<1>8. ASSUME Patch PROVE DataOK' /\ LockOK' /\ DueOK' /\ TriesOK' /\ PatchStands'
  BY <1>8 DEF Patch, looping, asking, work, outside, clock, DataOK, LockOK, DueOK, TriesOK,
     PatchStands, Excused, ContextDone
<1>9. ASSUME OtherWork PROVE DataOK' /\ LockOK' /\ DueOK' /\ TriesOK' /\ PatchStands'
  BY <1>9 DEF OtherWork, stored, looping, asking, outside, ghosts, clock, DataOK, LockOK, DueOK,
     TriesOK, PatchStands, Excused, ContextDone
<1>10. ASSUME OtherWorkEnds PROVE DataOK' /\ LockOK' /\ DueOK' /\ TriesOK' /\ PatchStands'
  BY <1>10 DEF OtherWorkEnds, stored, looping, asking, outside, ghosts, clock, DataOK, LockOK,
     DueOK, TriesOK, PatchStands, Excused, ContextDone
<1>11. ASSUME LockLoop PROVE DataOK' /\ LockOK' /\ DueOK' /\ TriesOK' /\ PatchStands'
  <2>1. DataOK'
    BY <1>11, Snapshot DEF LockLoop, Lock, stored, asking, outside, ghosts, clock, DataOK
  <2>2. LockOK'
    BY <1>11 DEF LockLoop, Lock, stored, asking, outside, LockOK
  <2>3. DueOK'
    BY <1>11 DEF LockLoop, Lock, stored, asking, outside, clock, DueOK
  <2>4. TriesOK'
    BY <1>11 DEF LockLoop, Lock, stored, asking, outside, TriesOK, Excused, ContextDone
  <2>5. PatchStands'
    BY <1>11 DEF LockLoop, Lock, stored, asking, outside, ghosts, PatchStands
  <2>. QED
    BY <2>1, <2>2, <2>3, <2>4, <2>5
<1>12. ASSUME LockUser PROVE DataOK' /\ LockOK' /\ DueOK' /\ TriesOK' /\ PatchStands'
  <2>1. DataOK'
    BY <1>12, Snapshot DEF LockUser, Lock, stored, looping, asking, outside, ghosts, clock, DataOK
  <2>2. LockOK'
    BY <1>12 DEF LockUser, Lock, stored, looping, asking, outside, LockOK
  <2>3. DueOK'
    BY <1>12 DEF LockUser, Lock, stored, looping, asking, outside, clock, DueOK
  <2>4. TriesOK'
    BY <1>12 DEF LockUser, Lock, stored, looping, asking, outside, TriesOK, Excused,
       ContextDone
  <2>5. PatchStands'
    BY <1>12 DEF LockUser, Lock, stored, looping, asking, outside, ghosts, PatchStands
  <2>. QED
    BY <2>1, <2>2, <2>3, <2>4, <2>5
<1>13. ASSUME Import PROVE DataOK' /\ LockOK' /\ DueOK' /\ TriesOK' /\ PatchStands'
  BY <1>13 DEF Import, WriteBack, looping, asking, outside, clock, DataOK, LockOK, DueOK, TriesOK,
     PatchStands, Excused, ContextDone
<1>14. ASSUME Read PROVE DataOK' /\ LockOK' /\ DueOK' /\ TriesOK' /\ PatchStands'
  <2>1. DataOK'
    BY <1>14, Agenda, Snapshot DEF Read, End, stored, asking, outside, ghosts, clock, DataOK,
       AgentLists
  <2>2. LockOK'
    BY <1>14, Snapshot DEF Read, End, stored, asking, outside, LockOK
  <2>3. DueOK'
    BY <1>14 DEF Read, End, stored, asking, outside, clock, DueOK
  <2>4. TriesOK'
    BY <1>14 DEF Read, End, stored, asking, outside, TriesOK, Excused, ContextDone
  <2>5. PatchStands'
    BY <1>14 DEF Read, End, stored, asking, outside, ghosts, PatchStands
  <2>. QED
    BY <2>1, <2>2, <2>3, <2>4, <2>5
<1>15. ASSUME NewHWID PROVE DataOK' /\ LockOK' /\ DueOK' /\ TriesOK' /\ PatchStands'
  <2>1. DataOK'
    BY <1>15 DEF NewHWID, WriteBack, looping, asking, outside, clock, DataOK, LockOK
  <2>2. LockOK'
    BY <1>15 DEF NewHWID, WriteBack, looping, asking, outside, LockOK
  <2>3. DueOK'
    BY <1>15 DEF NewHWID, WriteBack, looping, asking, outside, clock, DueOK
  <2>4. TriesOK'
    BY <1>15 DEF NewHWID, WriteBack, looping, asking, outside, TriesOK, Excused, ContextDone
  <2>5. PatchStands'
    BY <1>15 DEF NewHWID, WriteBack, looping, asking, outside, PatchStands, LockOK
  <2>. QED
    BY <2>1, <2>2, <2>3, <2>4, <2>5
<1>16. ASSUME FetchOnce PROVE DataOK' /\ LockOK' /\ DueOK' /\ TriesOK' /\ PatchStands'
  <2>1. DataOK'
    <3>1. tries' \in AgentLists
      BY <1>16, Agenda DEF FetchOnce, DataOK
    <3>. QED
      BY <1>16, <3>1 DEF FetchOnce, stored, clock, looping, asking, outside, ghosts, DataOK
  <2>2. LockOK'
    BY <1>16 DEF FetchOnce, stored, looping, asking, outside, LockOK
  <2>3. DueOK'
    BY <1>16 DEF FetchOnce, stored, looping, asking, outside, clock, DueOK
  <2>4. TriesOK'
    <3>1. CASE step' # "fetch"
      BY <1>16, <3>1 DEF FetchOnce, TriesOK
    <3>2. CASE step' = "fetch"
      <4>1. Head(tries) \notin server \/ ContextDone
        BY <1>16, <3>2 DEF FetchOnce, FetchFailsAs
      <4>2. tries' = Tail(tries) /\ tries # <<>>
        BY <1>16, <3>2 DEF FetchOnce
      <4>3. Excused => Excused'
        BY <1>16 DEF FetchOnce, looping, asking, outside, Excused, ContextDone
      <4>4. UNCHANGED <<agent, server>> /\ agent \in Agents
        BY <1>16 DEF FetchOnce, stored, outside, clock, DataOK
      <4>5. CASE tries = <<"happ">>
        <5>1. tries' = <<>>
          BY <4>2, <4>5
        <5>2. Excused \/ "happ" \notin server
          BY <4>1, <4>5 DEF Excused
        <5>3. Excused \/ agent \notin server
          BY <1>16, <4>5, <5>2, OrderOf DEF FetchOnce, TriesOK, DataOK
        <5>. QED
          BY <3>2, <4>3, <4>4, <5>1, <5>2, <5>3 DEF TriesOK
      <4>6. CASE tries = <<"v2raytun", "happ">>
        <5>1. tries' = <<"happ">>
          BY <4>2, <4>6
        <5>2. Excused \/ "v2raytun" \notin server
          BY <4>1, <4>6 DEF Excused
        <5>3. agent = "v2raytun"
          <6>1. <<"v2raytun", "happ">> # <<"happ">> /\ <<"v2raytun", "happ">> # <<>>
            OBVIOUS
          <6>. QED
            BY <1>16, <4>6, <6>1, OrderOf DEF FetchOnce, TriesOK, DataOK, Agents
        <5>. QED
          BY <3>2, <4>3, <4>4, <5>1, <5>2, <5>3 DEF TriesOK
      <4>. QED
        BY <4>2, <4>5, <4>6 DEF DataOK, AgentLists
    <3>. QED
      BY <3>1, <3>2
  <2>5. PatchStands'
    BY <1>16 DEF FetchOnce, stored, looping, asking, outside, ghosts, PatchStands
  <2>. QED
    BY <2>1, <2>2, <2>3, <2>4, <2>5
<1>17. ASSUME FetchFails PROVE DataOK' /\ LockOK' /\ DueOK' /\ TriesOK' /\ PatchStands'
  BY <1>17 DEF FetchFails, End, stored, asking, outside, ghosts, clock, DataOK, LockOK, DueOK,
     TriesOK, PatchStands, Excused, ContextDone
<1>18. ASSUME Store PROVE DataOK' /\ LockOK' /\ DueOK' /\ TriesOK' /\ PatchStands'
  <2>1. DataOK'
    <3>1. interval' \in Nat \ {0} /\ agent' \in Agents
      BY <1>18, IntervalParsed, Agenda DEF Store, Stamp, DataOK, LockOK
    <3>2. age' = 0 /\ sinceLoop' \in 0 .. MaxAge \cup {None}
      BY <1>18 DEF Store, Stamp, DataOK
    <3>3. shortest' \in Int
      BY <1>18, IntervalParsed, DurationIsInt DEF Store, Stamp, DataOK
    <3>. QED
      BY <1>18, <3>1, <3>2, <3>3 DEF Store, End, asking, outside, ghosts, DataOK, LockOK,
         AgentLists
  <2>2. LockOK'
    BY <1>18 DEF Store, End, asking, outside, LockOK
  <2>3. DueOK'
    <3>1. CASE lock = "loop"
      <4>1. sinceLoop' = 0 /\ age' = 0 /\ loop' = "sleep"
        BY <1>18, <3>1 DEF Store, Stamp, End
      <4>2. shortest' = Duration(interval')
        BY <1>18, <3>1 DEF Store, Stamp
      <4>3. Duration(interval') \in Int
        BY <2>1, DurationIsInt DEF DataOK
      <4>. QED
        BY <4>1, <4>2, <4>3 DEF DueOK
    <3>2. CASE lock # "loop"
      <4>1. age' = 0 /\ UNCHANGED <<sinceLoop, loop>>
        BY <1>18, <3>2 DEF Store, Stamp, End
      <4>2. shortest' <= Duration(interval') /\ shortest' <= shortest
        <5>1. Duration(interval') \in Int /\ shortest \in Int
          BY <2>1, DurationIsInt DEF DataOK
        <5>2. interval' = ParseRefreshInterval(header)
          BY <1>18 DEF Store, Stamp
        <5>3. shortest' = IF Duration(interval') < shortest THEN Duration(interval')
                                                             ELSE shortest
          BY <1>18, <3>2, <5>2 DEF Store, Stamp
        <5>. QED
          BY <5>1, <5>3
      <4>. QED
        BY <2>1, <4>1, <4>2 DEF DueOK, DataOK
    <3>. QED
      BY <3>1, <3>2
  <2>4. TriesOK'
    BY <1>18 DEF Store, End, asking, outside, TriesOK, Excused, ContextDone
  <2>5. PatchStands'
    BY <1>18 DEF Store, End, asking, outside, ghosts, PatchStands
  <2>. QED
    BY <2>1, <2>2, <2>3, <2>4, <2>5
<1>19. CASE UNCHANGED vars
  <2>1. DataOK'
    BY <1>19 DEF vars, stored, looping, asking, work, outside, ghosts, clock, DataOK
  <2>2. LockOK'
    BY <1>19 DEF vars, stored, looping, asking, work, outside, LockOK
  <2>3. DueOK'
    BY <1>19 DEF vars, stored, looping, asking, work, outside, clock, DueOK
  <2>4. TriesOK'
    BY <1>19 DEF vars, stored, looping, asking, work, outside, TriesOK, Excused, ContextDone
  <2>5. PatchStands'
    BY <1>19 DEF vars, stored, looping, asking, work, outside, ghosts, PatchStands
  <2>. QED
    BY StepFlags, <2>1, <2>2, <2>3, <2>4, <2>5
<1>. QED
  BY StepFlags, <1>1, <1>2, <1>3, <1>4, <1>5, <1>6, <1>7, <1>8, <1>9, <1>10, <1>11, <1>12,
     <1>13, <1>14, <1>15, <1>16, <1>17, <1>18, <1>19 DEF Next, Refresh

(* IInv holds in every reachable state.                                     *)
LEMMA Invariance == Spec => []IInv
  BY InitIInv, StepIInv, PTL DEF Spec

(* The variables have the types that their comments say.                    *)
THEOREM TypeCorrect == Spec => []TypeOK
<1>1. IInv => TypeOK
  BY Types DEF IInv
<1>. QED
  BY <1>1, Invariance, PTL

(* A patch survives every refresh, except the one that generates a HWID.    *)
THEOREM PatchesStand == Spec => []PatchStands
<1>1. IInv => PatchStands
  BY DEF IInv
<1>. QED
  BY <1>1, Invariance, PTL

(* Two refreshes of the loop are the shortest interval between them apart.  *)
THEOREM IntervalIsKept == Spec => IntervalKept
<1>1. ASSUME IInv, [Next]_vars, step = "store", step' = "idle", lock = "loop"
      PROVE  sinceLoop = None \/ sinceLoop >= shortest
  <2>1. loop = "run"
    BY <1>1 DEF IInv, LockOK
  <2>. QED
    BY <1>1, <2>1 DEF IInv, DueOK
<1>. QED
  BY <1>1, Invariance, PTL DEF Spec, IntervalKept

(* A fetch with time left fails only when both agents are refused.          *)
THEOREM FallbackIsTried == Spec => FallbackTried
<1>1. ASSUME IInv, [Next]_vars, step = "fetch", step' = "idle"
      PROVE  ContextDone \/ changes > 0 \/ {"happ", agent} \cap server = {}
  <2>1. FetchFails
    BY <1>1, ConstantsAssumption DEF vars, Next, Refresh, Minute, SetClock, ChangeSource,
       Change, Wake, Expire, Ask, HangUp, Patch, OtherWork, OtherWorkEnds, LockLoop,
       LockUser, Lock, Import, Read, NewHWID, FetchOnce, FetchFails, Store, End, work
  <2>2. tries # OrderedUserAgents(agent)
    BY <1>1, <2>1, Agenda DEF IInv, DataOK, FetchFails
  <2>. QED
    BY <1>1, <2>1, <2>2 DEF IInv, TriesOK, FetchFails, Excused
<1>. QED
  BY <1>1, Invariance, PTL DEF Spec, FallbackTried
=============================================================================
