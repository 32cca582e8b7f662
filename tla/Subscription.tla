----------------------------- MODULE Subscription -----------------------------
(***************************************************************************)
(* When and how the subscription is fetched: autoRefreshLoop, refreshDue,  *)
(* ImportSubscription, refreshSubscriptionLocked and handlePatchSettings   *)
(* of src/internal/app/app.go, and src/internal/remnawave/client.go.       *)
(*                                                                         *)
(* A ticker of one minute wakes the loop; it refreshes when the last       *)
(* refresh is as many hours ago as the source asked for.  The source may   *)
(* refuse a user agent, and is then asked as another one.  Requests of the *)
(* users and other work compete with the loop for a.mu, settings are       *)
(* patched without it, and the clock of a router is set when it can be.    *)
(*                                                                         *)
(* Abstracted: what is in a subscription and what is done with it (modules *)
(* Profiles, App, Ndms); errors of the store (App); the end of the process *)
(* (a boot finds what was stored, and the loop asleep).  Time is counted   *)
(* in minutes, and words and hours are as short as one likes.              *)
(***************************************************************************)
EXTENDS Integers, Sequences

CONSTANTS
    Urls,           \* addresses of subscriptions
    None,
    Hour,           \* minutes in an hour
    WordSize,       \* durations are kept modulo this number, around zero
    Headers,        \* the intervals a source may ask for, in hours
    DefaultHours,   \* the interval of a source that does not ask
    MaxAge,         \* bound on the minutes that are counted
    MaxChanges      \* bound on changes of the clock and of the source

ASSUME ConstantsAssumption ==
    /\ None \notin Urls \cup Int \cup {"refresh", "loop", "user", "other"}
    /\ "refresh" \notin Urls
    /\ Hour \in Nat \ {0}
    /\ WordSize \in Nat \ {0, 1}
    /\ Headers \subseteq Int
    /\ DefaultHours \in Nat \ {0}
    /\ MaxAge \in Nat
    /\ MaxChanges \in Nat

Agents == {"v2raytun", "happ"}

VARIABLES
    url, hwid, agent,   \* the stored source, and what it is asked with
    interval,           \* the stored update interval, in hours
    age,                \* minutes since the stored last refresh, or None
    server,             \* the agents that the source gives a subscription
    tick,               \* the ticker's channel is not empty
    loop,               \* where autoRefreshLoop is
    expired,            \* the 30 seconds of its context are over
    user,               \* the user's request: None, "refresh", or a url to import
    hungUp,             \* whose connection is closed
    lock,               \* who holds a.mu
    step, snap,         \* where the refresh is, its snapshot
    tries, header,      \* the agents to try, the interval that came with an answer
    asked,              \* the url that was patched or imported last
    overwritten,        \* the snapshot of a refresh was written over a patch
    sinceLoop,          \* minutes since the loop's own last refresh, or None when it
                        \* made none yet or the clock was set since
    shortest,           \* the shortest interval stored since then, as a duration
    changes

stored  == <<url, hwid, agent, interval>>
clock   == <<age, sinceLoop, shortest>>
looping == <<tick, loop, expired>>
asking  == <<user, hungUp>>
work    == <<lock, step, snap, tries, header>>
outside == <<server, changes>>
ghosts  == <<asked, overwritten>>
vars    == <<stored, clock, looping, asking, work, outside, ghosts>>

-----------------------------------------------------------------------------
\* parseRefreshInterval.
\* [faulty variant] Any number is taken.
ParseRefreshIntervalUnchecked(h) == IF h = None THEN DefaultHours ELSE h

ParseRefreshInterval(h) ==
    CASE h = None -> DefaultHours
      [] h # None -> IF h <= 0 THEN DefaultHours ELSE h

\* orderedUserAgents: the one that worked last, then the fallback.
\* [faulty variant] There is no fallback.
OnlyUserAgent(primary) == <<primary>>

OrderedUserAgents(primary) == IF primary = "happ" THEN <<"happ">> ELSE <<primary, "happ">>

\* time.Duration(everyHours) * time.Hour, in a word.
Duration(hours) ==
    LET d == (hours * Hour) % WordSize IN IF 2 * d >= WordSize THEN d - WordSize ELSE d

\* [faulty variant] The interval is taken for minutes.
RefreshDueInMinutes(since, hours) == hours > 0 /\ (since = None \/ since >= hours)

RefreshDue(since, hours) ==
    /\ hours > 0
    /\ \/ since = None
       \/ since >= Duration(hours)

-----------------------------------------------------------------------------
Init ==
    /\ url \in Urls \cup {None}
    /\ hwid = FALSE
    /\ agent = "v2raytun"
    /\ interval = DefaultHours
    /\ age = None
    /\ server \in SUBSET Agents
    /\ tick = FALSE
    /\ loop = "sleep"
    /\ expired = FALSE
    /\ user = None
    /\ hungUp = FALSE
    /\ lock = None
    /\ step = "idle"
    /\ snap = None
    /\ tries = <<>>
    /\ header = None
    /\ asked = url
    /\ overwritten = FALSE
    /\ sinceLoop = None
    /\ shortest = Duration(DefaultHours)
    /\ changes = 0

-----------------------------------------------------------------------------
(* Time and the source.                                                     *)

\* One minute more, up to MaxAge.
Older(minutes) == IF minutes \in {None, MaxAge} THEN minutes ELSE minutes + 1

\* The ticker drops what does not fit into its channel.
Minute ==
    /\ tick' = TRUE
    /\ age' = Older(age)
    /\ sinceLoop' = Older(sinceLoop)
    /\ UNCHANGED <<stored, shortest, loop, expired, asking, work, outside, ghosts>>

Change ==
    /\ changes < MaxChanges
    /\ changes' = changes + 1

\* The router sets its clock; the stored time of the refresh stays.
SetClock ==
    /\ Change
    /\ age # None
    /\ age' \in -MaxAge .. MaxAge
    /\ sinceLoop' = None
    /\ UNCHANGED <<stored, shortest, looping, asking, work, server, ghosts>>

ChangeSource ==
    /\ Change
    /\ server' \in SUBSET Agents \ {server}
    /\ UNCHANGED <<stored, clock, looping, asking, work, ghosts>>

-----------------------------------------------------------------------------
(* Who asks for a refresh.                                                  *)

\* One turn of autoRefreshLoop; its context runs from here.
Wake ==
    /\ loop = "sleep"
    /\ tick
    /\ tick' = FALSE
    /\ loop' = IF url # None /\ RefreshDue(age, interval) THEN "wait" ELSE "sleep"
    /\ expired' = FALSE
    /\ UNCHANGED <<stored, clock, asking, work, outside, ghosts>>

\* While it waits for a.mu, too.
Expire ==
    /\ loop # "sleep"
    /\ expired' = TRUE
    /\ UNCHANGED <<stored, clock, tick, loop, asking, work, outside, ghosts>>

Ask ==
    /\ user = None
    /\ user' \in {"refresh"} \cup Urls
    /\ hungUp' = FALSE
    /\ UNCHANGED <<stored, clock, looping, work, outside, ghosts>>

\* The page is closed, and with it the context of the request.
HangUp ==
    /\ user # None
    /\ hungUp' = TRUE
    /\ UNCHANGED <<stored, clock, looping, user, work, outside, ghosts>>

\* handlePatchSettings.
Patch ==
    /\ \E u \in Urls \cup {None} : url' = u /\ asked' = u
    /\ hwid' \in {hwid, TRUE}
    /\ overwritten' = FALSE
    /\ UNCHANGED <<agent, interval, clock, looping, asking, work, outside>>

\* Activations and the like.
OtherWork ==
    /\ lock = None
    /\ lock' = "other"
    /\ UNCHANGED <<stored, clock, looping, asking, step, snap, tries, header, outside, ghosts>>

OtherWorkEnds ==
    /\ lock = "other"
    /\ lock' = None
    /\ UNCHANGED <<stored, clock, looping, asking, step, snap, tries, header, outside, ghosts>>

-----------------------------------------------------------------------------
(* The refresh, under a.mu.                                                 *)

\* The refresh ends, well or not.
End ==
    /\ lock' = None
    /\ step' = "idle"
    /\ snap' = None
    /\ tries' = <<>>
    /\ header' = None
    /\ IF lock = "loop" THEN loop' = "sleep" /\ UNCHANGED asking
       ELSE user' = None /\ hungUp' = FALSE /\ UNCHANGED loop

Lock(who) ==
    /\ lock = None
    /\ lock' = who
    /\ step' = IF who = "user" /\ user \in Urls THEN "import" ELSE "read"
    /\ snap' = [url |-> url, hwid |-> hwid]
    /\ UNCHANGED <<tries, header>>

LockLoop ==
    /\ loop = "wait"
    /\ Lock("loop")
    /\ loop' = "run"
    /\ UNCHANGED <<stored, clock, tick, expired, asking, outside, ghosts>>

LockUser ==
    /\ user # None
    /\ Lock("user")
    /\ UNCHANGED <<stored, clock, looping, asking, outside, ghosts>>

\* Replace writes the url and the hwid of the snapshot back.
WriteBack(next) ==
    /\ url' = next.url
    /\ hwid' = next.hwid
    /\ UNCHANGED <<agent, interval>>

\* ImportSubscription.
Import ==
    /\ step = "import"
    /\ WriteBack([url |-> user, hwid |-> TRUE])
    /\ asked' = user
    /\ overwritten' = FALSE
    /\ step' = "read"
    /\ UNCHANGED <<clock, looping, asking, lock, snap, tries, header, outside>>

\* refreshSubscriptionLocked takes its own snapshot; nothing can be fetched from
\* nowhere.
Read ==
    /\ step = "read"
    /\ IF url = None
       THEN End
       ELSE /\ snap' = [url |-> url, hwid |-> hwid]
            /\ step' = IF hwid THEN "fetch" ELSE "hwid"
            /\ tries' = OrderedUserAgents(agent)
            /\ UNCHANGED <<lock, loop, asking, header>>
    /\ UNCHANGED <<stored, clock, tick, expired, outside, ghosts>>

NewHWID ==
    /\ step = "hwid"
    /\ WriteBack([snap EXCEPT !.hwid = TRUE])
    /\ overwritten' = (overwritten \/ url # snap.url)
    /\ step' = "fetch"
    /\ UNCHANGED <<clock, looping, asking, lock, snap, tries, header, outside, asked>>

\* fetchOnce: an error status, an empty body, a page, or something that cannot be
\* read or names no tunnel is an error, and so is the end of the context.
ContextDone == IF lock = "loop" THEN expired ELSE hungUp

FetchFailsAs(a) == a \notin server \/ ContextDone

\* FetchSubscription: the next agent is tried when one fails.  The update interval
\* of an answer may be missing or not be a number.
FetchOnce ==
    /\ step = "fetch"
    /\ tries # <<>>
    /\ IF FetchFailsAs(Head(tries))
       THEN tries' = Tail(tries) /\ UNCHANGED <<step, header>>
       ELSE /\ step' = "store"
            /\ header' \in Headers \cup {None}
            /\ UNCHANGED tries
    /\ UNCHANGED <<stored, clock, looping, asking, lock, snap, outside, ghosts>>

\* [faulty variant] The loop is left on an error.
FetchFailsForGood ==
    /\ step = "fetch"
    /\ tries = <<>>
    /\ lock' = None
    /\ step' = "idle"
    /\ snap' = None
    /\ header' = None
    /\ user' = IF lock = "user" THEN None ELSE user
    /\ hungUp' = (hungUp /\ lock # "user")
    /\ UNCHANGED <<tries, stored, clock, looping, outside, ghosts>>

\* The error is stored, the time of the last refresh is not.
FetchFails ==
    /\ step = "fetch"
    /\ tries = <<>>
    /\ End
    /\ UNCHANGED <<stored, clock, tick, expired, outside, ghosts>>

\* The time of the refresh and the interval that came with it are stored.
Stamp ==
    /\ interval' = ParseRefreshInterval(header)
    /\ age' = 0
    /\ sinceLoop' = IF lock = "loop" THEN 0 ELSE sinceLoop
    /\ shortest' = LET asks == Duration(ParseRefreshInterval(header))
                   IN IF lock = "loop" \/ asks < shortest THEN asks ELSE shortest

\* The merge changes what it is about in the state as it is now.
\* [faulty variant] It writes its snapshot back.
StoreSnapshot ==
    /\ step = "store"
    /\ agent' = Head(tries)
    /\ url' = snap.url
    /\ hwid' = TRUE
    /\ Stamp
    /\ End
    /\ UNCHANGED <<tick, expired, outside, ghosts>>

Store ==
    /\ step = "store"
    /\ agent' = Head(tries)
    /\ Stamp
    /\ End
    /\ UNCHANGED <<url, hwid, tick, expired, outside, ghosts>>

-----------------------------------------------------------------------------
Refresh == Import \/ Read \/ NewHWID \/ FetchOnce \/ FetchFails \/ Store

Next ==
    \/ Minute \/ SetClock \/ ChangeSource
    \/ Wake \/ Expire \/ Ask \/ HangUp \/ Patch \/ OtherWork \/ OtherWorkEnds
    \/ LockLoop \/ LockUser
    \/ Refresh

\* Time passes, and goroutines that can run do run.  The mutex is handed to the
\* one that has waited longest.
Fairness ==
    /\ WF_vars(Minute)
    /\ WF_vars(Wake)
    /\ SF_vars(LockLoop)
    /\ WF_vars(Refresh)
    /\ WF_vars(OtherWorkEnds)

Spec     == Init /\ [][Next]_vars
FairSpec == Spec /\ Fairness

-----------------------------------------------------------------------------
AgentLists == {<<>>, <<"happ">>, <<"v2raytun", "happ">>}

TypeOK ==
    /\ url \in Urls \cup {None}
    /\ hwid \in BOOLEAN
    /\ agent \in Agents
    /\ interval \in Nat \ {0}
    /\ age \in -MaxAge .. MaxAge \cup {None}
    /\ server \subseteq Agents
    /\ tick \in BOOLEAN
    /\ loop \in {"sleep", "wait", "run"}
    /\ expired \in BOOLEAN
    /\ user \in Urls \cup {None, "refresh"}
    /\ hungUp \in BOOLEAN
    /\ lock \in {None, "loop", "user", "other"}
    /\ step \in {"idle", "import", "read", "hwid", "fetch", "store"}
    /\ snap \in [url : Urls \cup {None}, hwid : BOOLEAN] \cup {None}
    /\ tries \in AgentLists
    /\ asked \in Urls \cup {None}
    /\ header \in Headers \cup {None}
    /\ overwritten \in BOOLEAN
    /\ sinceLoop \in 0 .. MaxAge \cup {None}
    /\ shortest \in Int
    /\ changes \in 0 .. MaxChanges

(* Between two refreshes that the loop itself carries out there lies at     *)
(* least the shortest interval that was stored since the first, whoever     *)
(* else refreshed, imported or patched meanwhile, and although the loop     *)
(* looks without a.mu and does not look again when it has waited for it.    *)
(* Refreshes that fail are not counted: the stored time does not move, and  *)
(* the loop tries again every minute.  Only setting the clock in between    *)
(* excuses the loop.  The interval is a duration as the code computes it,   *)
(* and one that overflows asks for nothing.                                 *)
IntervalKept ==
    [][step = "store" /\ step' = "idle" /\ lock = "loop" =>
        sinceLoop = None \/ sinceLoop >= shortest]_vars

(* The stored url is the one that was patched or imported last, though a    *)
(* patch may come in the middle of a refresh; except that the first refresh *)
(* of all, which has to generate a HWID, writes its whole snapshot back.    *)
PatchStands == url = asked \/ overwritten

(* README:9: "fallback on user-agent (v2raytun -> happ)".  A fetch fails    *)
(* only when its context is over or both agents have been refused, but the  *)
(* fallback is for ever: once it has worked, nobody asks as v2raytun again. *)
FallbackTried ==
    [][step = "fetch" /\ step' = "idle" =>
        \/ ContextDone
        \/ changes > 0
        \/ {"happ", agent} \cap server = {}]_vars

\* From now on the source is there, and there is time to ask it.
Reachable ==
    /\ url # None
    /\ ~expired
    /\ {"happ", agent} \cap server # {}

(* While the source can be reached the subscription is refreshed again and  *)
(* again: no failure before, no missed tick, no waiting for a.mu and no     *)
(* change of the clock stops the loop.                                      *)
AutoRefreshes == <>[]Reachable => []<><<Store>>_vars
=============================================================================
