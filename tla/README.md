# A specification of hysteria-manager

This directory specifies `hysteria-keenetic`, the service that runs a Hysteria2
client on a Keenetic router: it imports tunnels from a subscription, starts the
client of one of them, and routes the router's traffic into it. The modules are
written in TLA+, model-checked with TLC on small instances, and the central
invariants are proved with TLAPS for every value of the constants.

Line numbers refer to the files of the repository. `PROJECT.json` maps every
definition to the lines it stands for and lists the runs, the mutants, the
findings, the hazards and the theorems.

## 1. The system

One Go process (`main.go`) on the router. Its goroutines: HTTP handlers (the web
UI, and a hook script the router calls when an interface changes), the automatic
refresh, the restore and the NDMS sync after boot, one wait and one watch
goroutine per client process, and Shutdown on a signal.

| Part | State | Operations | Used by |
|---|---|---|---|
| Orchestrator `internal/app/app.go` | `a.mu`, `a.routeMgr` | import, refresh, activate, deactivate, update routing, hook, unexpected exit, shutdown, restore | HTTP, timers, signals |
| Store `internal/state` | the state in memory and `state.json` | Snapshot, Update, Replace | orchestrator |
| Client manager `internal/runtime/manager.go` | `m.current`, one `processHandle` per client | Activate, Deactivate, watch | orchestrator; calls back `handleUnexpectedRuntimeExit` |
| Global routing `internal/runtime/routes.go` | kernel routes, route state file | Activate, Deactivate, EnsureSubscriptionReachable | orchestrator |
| Selective routing `selective.go`, `firewall.go` | FQDN groups, DNS routes, static routes, pins, iptables rules, the same state file | the same | orchestrator |
| Merge and names `app.go` 944-1023 | the list of tunnels | mergeProfiles, nextInterfaceName | refresh |
| Configuration generator `config.go` | none | BuildClientConfig, BuildRoutePlan, DefaultTunSettings | client manager, routing |
| Router interfaces `keenetic/rci.go`, `app.go` 758-895, hook script | the router's configuration | SyncOpkgTun, groups, DNS routes; handleIfaceChanged | orchestrator, selective routing; the router calls back |
| Subscription and its schedule `remnawave`, `app.go` 399-506 and 681-703 | the stored source, interval, agent and time | FetchSubscription, autoRefreshLoop | refresh, timer |
| Login `keenetic/auth.go`, sessions in `app.go` | a map under `sessionMu` | login, logout, check | HTTP |
| ndmc client, logger, web UI, init and package scripts | | | |

What is hard about it, and what makes each part correct:

- Requests hold `a.mu` from their first step to their last, but the handler of an
  unexpected client exit and Shutdown do not, and the hook decides from a snapshot
  it took before it waited for the lock. Correct means: what the store says is
  running runs, what runs is recorded, routes follow the active tunnel.
- The store changes memory before it saves. Correct means: every state in memory
  and on disk is one in which state, tunnel and flags agree.
- The client manager has goroutines whose steps come in any order with its calls.
  Correct means: one client at a time, none forgotten, an asked-for stop is silent
  and an unasked exit reported.
- The strategies are long sequences of commands, each of which can fail, with the
  state file written at the end of one and removed at the end of the other. Correct
  means: whatever is installed is in the file, and no packet of the tunnel is
  routed into the tunnel.
- The router answers every change of an interface with a call of the hook, also
  the manager's own changes, in no order. Correct means: when all is done, the
  interface of the active tunnel is up, and no other.
- The automatic refresh decides from a snapshot, then waits for `a.mu`; settings are
  patched without it. Correct means: the refreshes of the loop are an interval apart
  and go on after failures, and nobody's settings are lost.
- Interfaces are named in the list, opened by the client, and renamed after what
  it opened. Correct means: no two tunnels share an interface, and a tunnel keeps
  its own.

`PROJECT.json` lists every such hazard at its line.

## 2. The modules

| Module | Models |
|---|---|
| `ClientSlot` | nothing but the promise: what the rest may rely on when it uses the client manager |
| `RuntimeManager` | `manager.go`: mutex sections, channel waits and timeouts of Activate, Deactivate and watch; clients, devices, end of the manager. Implements `ClientSlot` |
| `App` | `app.go`, `state/store.go`, `main.go`: all goroutines that change the store, the client or the routes |
| `Ndms` | `syncNDMSProfiles`, `cleanupNDMSOnBoot`, `handleIfaceChanged`, `SyncOpkgTun` and the hook script: the loop between manager and router |
| `Subscription` | `autoRefreshLoop`, ImportSubscription, `refreshSubscriptionLocked`, `handlePatchSettings`, `client.go`: when and how a subscription is fetched |
| `Profiles` | `mergeProfiles`, `nextInterfaceName`, the TUN addresses of `config.go`, and the renaming in ActivateTunnel |
| `Routing` | `routes.go`, `selective.go`, `firewall.go` and the RCI calls of groups and DNS routes, command by command |
| `RuntimeManagerProofs`, `NdmsProofs`, `SubscriptionProofs`, `RoutingProofs`, `ProfilesProofs` | theorems about them |
| `AppProofs`, `AppRuntimeProofs` | theorems about `App`: of the store alone, and of the store with the client and its routes |
| `MC...` | small instances; each run has a `.cfg` |

An operator or action named in a comment as `[faulty variant]` is no part of the
specification: it is what a plausible bug would make of the action after it, kept
to see that the properties notice.

### RuntimeManager

A thread is a caller. Ops hold `a.mu`, so at most one of them is in a call
(`MuFree`); Shutdown is not bound by it. `pc` says where the call is: between two
mutex sections, or in a wait. `own` is the local variable `current` or `handle` of
the call, `known` the list `knownInterfaces`. A handle's `proc` goes from `new`
through `running` to `dead` (exited) or `killed`, and `done` once `cmd.Wait`
returned and the channel is closed (`Reap`). `watch` follows the goroutine of
`m.watch`. `Restart` forgets every handle and leaves the clients as `orphans`.
Timeouts are steps that may come at any time during their wait. The router may add
and remove devices at any time.

### ClientSlot

Each client that is ever started is `unused`, `serving`, `asked` to stop, `exited`
by itself, `gone`, `reported` or `abandoned` by a manager that ended. `PhaseOf` in
`RuntimeManager` is the refinement mapping: it reads the phase of a handle from
`proc`, `stopRequested`, `notified` and `orphans`. Everything else of the manager,
`m.current`, the channels, the waits and `watch`, is invisible there. `App` keeps of
a client what a slot has: Deactivate returns when it is gone, and an exit that
nobody asked for is reported.

### App

`mem` and `disk` are the store and its file, each with the runtime fields, the
tunnels' state (`absent`, `present`, `missing`), the routing mode and the
subscription. `op`, `pc` and `snap` are a request, its place and the snapshot it
holds. `exitPc` runs the exit handlers, `stopPc` Shutdown, `bootPc` the restore
after boot. One request step is what happens up to the next point at which another
goroutine can be seen: an update of the store, a call of the client manager or of a
strategy. Saving can fail (`Fail("save")`), and then memory is changed and the file
is not. `routed` says into which tunnel the routes of each mode lead, `file` what
the state file was written for. `unbacked` and `stray` record which of the known
reasons made store and client differ, `bare` which one left a running tunnel
without routes, so that the invariants can say "for these reasons only"; `left` are
tunnels whose routes a refresh did not remove. These variables are written only
by the steps of which they are the record, and read by no step.

Client and routes are abstract here: `ClientSlot` says what a client may do, and
`Routing` shows what can be left behind inside "routes on" and "off".

### Ndms

`flag` is the router's setting of each interface, `active` and `profile` what the
store says. A changed setting is an event (`Tell`), which the hook script sends in
the background: it waits in `calls` with any other event, is lost, or is sent when
the router's user made the change. `IfaceChanged` is the handler's decision from a
snapshot, after which the call waits for `a.mu` (`at = "mutex"`) like those of the
API. `holder`, `pc`, `todo` and `want` are the call that has `a.mu` and what it
still has to tell the router, one tunnel at a time (`Sync`); a call to the router
that fails may have done all, a part or nothing. `BootSync` is the same loop
without `a.mu`. `doubt` records that something disturbed the agreement, and ends
with an undisturbed request.

### Subscription

`loop` is where `autoRefreshLoop` is, `tick` whether its ticker has fired, `user` a
request of a user, `lock` who has `a.mu`. `step` walks through
`refreshSubscriptionLocked`: `import`, `read`, `hwid` (its first Replace), `fetch`,
`store`; `tries` are the user agents still to be asked, `snap` the snapshot it holds.
Patch comes at any time, without `a.mu`. `age` counts the minutes since the stored
refresh and may be set to anything by `SetClock`; `Duration` is the 64-bit product of
`refreshDue`, in a word as short as the instance likes. `asked` and `overwritten`
record what PatchStands speaks of, `sinceLoop` and `shortest` how long ago the loop
itself refreshed, and the shortest interval that anybody's refresh has stored since.

### Profiles

The list of tunnels with identifier, interface, flags, and its order. `Merged` has
the entries in the order in which the two loops of mergeProfiles append them; the
names that new tunnels get one after the other are the recursive function
`NamesGiven`. `Before` is the comparison of `sort.Slice`, which is not stable, so
every arrangement of the entries that agrees with it is a possible result
(`Sorted`). Interfaces are numbers, those from `MaxNames` on are the names
made from the clock. `TunAddress` is the third byte of the address `config.go`
computes from the name; the characters of a clock-made name are summed, here by the
constant `Checksum`.

### Routing

`default`, `pins`, `groups`, `dns`, `statics` and `rules` are what the kernel, the
router and iptables hold; `file` is RouteState or selectiveState with the mode that
wrote it. A `job` is what a caller does: its place, the strategy it does it with
(`by`), its plan, the host of the subscription it read, and the local record (`rs`,
`ss`) it fills or has read. The actions are the numbered parts of Activate and
Deactivate. `pins` are the routes of their own that a tunnel's endpoint, a host of
subscriptions and the private networks have. A part that loops over commands can end
after any of them.

There are three callers. A request has `a.mu`. The exit handler and Shutdown have
not: they evaluate `a.routeMgr` in one step (`Take`) and read the file in a later one
(`Load`), and a change of mode may lie between the two. Loading a file that the other
strategy wrote gives what JSON decoding gives: the interface name and nothing else.
Around the strategies are the parts of ActivateTunnel, DeactivateTunnel and
handleUpdateRouting that decide what to activate (`TurnSwitch`, `TurnStop`,
`TurnUpdate`), each with the ways in which it fails: a tun device that cannot be
deleted, a client that does not come up or cannot be stopped, a mode that is none,
and a save of the store that fails, after which memory, disk and strategy differ.
`routing` is `st.Routing` in memory and `saved` on disk, and a boot (`Crash`) takes
mode and strategy from the disk. With a tun device go the routes into it
(`DevicesOff`).

`Refresh` is EnsureSubscriptionReachable, and the fetch is a place after it, during
which the client may exit and its handler undo the routes. The fetch comes whatever
EnsureSubscriptionReachable did. `fetch` is the place after it pinned the host, or had
nothing to do (selective mode); `fetchAnyway` after it pinned nothing, because there
was no way out, no host in the url, the name was not found or a command failed.
`SetSource` changes the url without `a.mu`, so the host that an activation pinned may
be another than the one a later refresh asks. `Vanish` takes the active tunnel out of
the list in that fetch.

`spoiled` remembers the reason for which something may be unrecorded: `undo` and
`failed` for a command that failed in Deactivate and Activate, `crash` for an end of
the process in the middle of Activate, `overlap` for an exit handler or Shutdown that
still undoes the last activation while the next one runs, `mode` for a strategy that
reads the file of the other one. `unpinned` is a pin that failed or was passed over,
which only NoLoop excepts.

## 3. The runs

| Run | Instance | Shows |
|---|---|---|
| `rt` | 1 operation, Shutdown, 2 clients, 1 device, 1 restart | SingleClient, NoLostClient, StopIsSilent, ReturnMeansGone, ForgetOnlyStopped, ImplementsSlot, ExitReported, OperationsReturn |
| `app_faults` | 2 tunnels, 1 request at a time, 1 failure of any kind, 1 end of the process | StoreConsistent, RunningIsBacked, ClientIsRecorded, RoutedUnlessKnown |
| `app` | 2 tunnels, 2 requests, nothing fails | RoutesFollowTunnel, StrategyFollowsMode, RequestsServed |
| `ndms` | 2 tunnels, 2 calls or events at a time, 1 trouble | RouterAgrees, RouterReady |
| `subscription` | 1 url or none, hours of 2 minutes, words of 16, ages up to 4, 1 change of clock or source | PatchStands, IntervalKept, FallbackTried, AutoRefreshes |
| `profiles` | 3 tunnels in a list of at most 4, 3 names, 3 addresses, profiles named twice, other devices | InterfacesUnique, FlagsFollowActive, InterfacesKept |
| `routing_safety` | 2 tunnels, 2 hosts, 1 group, 1 static route, 2 faults of any kind | Recorded, NoLoop, SubscriptionOutside |

Each passing run but `app` also checks the type invariant of its module.

Why the bounds are enough. The hazards are between one request, one exit handler
and one of Shutdown, hook or restart: one more request only waits for `a.mu`. Two
tunnels distinguish "the active one" from another; two clients are an old one and
its successor, and what a third could do to either, the theorems cover for any
number. One fault reaches every error path; two in `Routing` reach an error path
after a restart, an exit, a shutdown or a change of the url. In `Ndms`, two calls are one that is served and an event
that overtakes another. In `Subscription`, intervals of one
and of two hours fit into the word, one of five hours does not, one that is zero is
refused, and a source that changes once can refuse an agent it has served. One url is
enough there to lose one: a patch takes it away and a stale snapshot brings it back. The number of activations is not bounded in `App`,
`Ndms`, `Profiles` and `Routing`, nor that of refreshes in `Subscription`, and the
state spaces are explored completely. In `Profiles`, three tunnels use up three
names when another device has one, and a list of four has room for a tunnel that is
in it twice. `MaxCopies` stops activations at three copies of a rule, two more than
any state in which nothing went wrong holds. The run `routing_safety` does not
continue states in which `spoiled` is one of the five reasons that Recorded names
(`CONSTRAINT Unspoiled`): a spoiled state stays spoiled, and of it the three safety
properties say nothing.

Runs that find a violation: each checks one statement of the repository that the
code does not keep.

| Run | Statement | What happens |
|---|---|---|
| `rt_attached` | app.go 538: hysteria attaches to the router's device | a device that exists before the start is never detected |
| `app_shutdown` | main.go 26: "cleaning up..." | main ends the process before Shutdown does |
| `app_routed` | app.go 1209: "re-apply routing" | an invalid mode returns after the old routes were removed |
| `ndms_hook` | app.go 804: "deactivating tunnel ... via Keenetic UI" | the router's answer to the manager's own change stops the tunnel that was just activated |
| `routing_exit` | selective.go 26: "persists the artefacts" | a late exit handler removes the file of a new activation |

The exceptions that the passing properties name are the code's other weak points,
and each is reached: `orphans` (a client outlives a killed manager, and the next one
starts a second), `unsignalled` (SIGTERM is refused and the client forgotten),
`unbacked`, `stray` and `bare` in `App`, `left` (a tunnel that disappears keeps its
routes, a default route too, which selective mode then takes for the WAN's),
`renamed` in `Profiles` (a tunnel takes the name of another's device), the `doubt` of
`Ndms` (above all, an activation that fails or a client that exits leaves the
interface up), `overwritten` in `Subscription` (the refresh that generates the HWID
undoes a patch), and the reasons in `spoiled` (above all, an
Activate that fails half-way writes no state file, so nothing removes what it made).
A property says nothing of its exceptions, and a hazard that is one of them has no
property in `PROJECT.json` but a note. IntervalKept has a setting of the clock as its
only exception, but it says less than one might wish: a refresh of the loop may come
right after a user's, since the loop does not look again when it has got `a.mu`; one that
failed is tried again every minute; and an interval that overflows is negative, so
that it asks for nothing.
StrategyFollowsMode is checked without failures: a save that fails changes the mode
in memory and leaves the old strategy. The addresses of
clock-made names are outside InterfacesUnique, as they may be those of others.

Fairness. `RuntimeManager`: weak fairness of every goroutine that is able to run,
of the reaping of a process that ended, and of the end of a process that got
SIGKILL; not of a client that got SIGTERM, which may ignore it, and not of the
router. `App`: weak fairness of the steps of a request that has the lock, whose
calls end (by their timeouts, and by OperationsReturn); strong fairness of taking
`a.mu`, since a Go mutex that is contended is handed to the goroutine that waited
longest. `Subscription`: the same for the loop's wait for `a.mu`, and weak fairness of
the ticker, of the loop, of a refresh and of the end of other work under `a.mu`.
Nothing is assumed about users, Shutdown, the clock or the source.

`Ndms` has no liveness property because the code has none to state: two activations
whose events are on the way can chase each other through the hook for ever, each
event switching off what the other call activated. `ndms_hook` shows the step that
keeps them going.

## 4. The proofs

`RuntimeManagerProofs` proves, for any operations, handles, devices and restarts,
`Spec => []` of TypeOK, SingleClient, NoLostClient, StopIsSilent and
ReturnMeansGone, and `Spec => [][...]_vars` of ForgetOnlyStopped. NoLostClient and
SingleClient are not inductive: that a started client is not lost needs to know
that only one operation is in a call (`Serial`), that `m.current` is a started
client nobody holds (`CurrentOK`), that no two calls hold the same client
(`OwnOK`), that a fresh handle is in nobody's hands (`FreshOK`), and that what was
reported had not been asked to stop (`ToldOK`). `IInv` is their conjunction;
`InitIInv` and `StepIInv` show it inductive with one step per action, and the
promises follow from it.

`AppProofs` proves TypeOK and StoreConsistent for any tunnels, requests, exit
handlers and bounds: at every moment, in memory and on disk, state, active tunnel,
flags and subscription agree. The store is written in two ways that are not
consistent by themselves: Replace writes back a snapshot taken earlier, and the end
of an activation writes a tunnel chosen earlier. `IInv` therefore says that only
the request that holds `a.mu` is past the lock (`MuOK`), that it works on what it
was called for (`OpOK`), that a tunnel on its way to be stored as active is still
present (`ActivatingOK`), that a held snapshot is itself consistent (`SnapOK`) and
that nothing is under way when the process is down (`DownOK`). The lemmas about
`Cleared`, `Running`, `Merged` and the settings say that each update of the store
keeps a consistent state consistent, and are cited by the steps.

`AppRuntimeProofs` builds on that and proves RunningIsBacked, ClientIsRecorded and
RoutedUnlessKnown. All three speak only of the moments in which nobody is at work, so
`RInv` says what holds in between: a client the store does not name is at a place
from which the request names it or stops it (`ClientOK`), an active tunnel without
its client is about to be stored as stopped, by the request, the exit handler or
Shutdown (`BackedOK`), one without routes is about to get them or to stop
(`RoutedOK`), and a request writes the store only when what it writes is so
(`PlaceOK`). Two theorems hold under a condition, which is part of their statement:
StrategyFollowsMode if no save of the store fails, and RoutesFollowTunnel if no
strategy fails, no client exits and the process does not end. TLC finds each of the
excluded failures to break them, and the run `app` checks both where nothing fails
at all. For the second, `FollowOK` says of every place of a request into which
tunnels routes may lead.

For the refinement, `RuntimeManagerProofs` proves `SlotImplemented`: the manager's
first state is the slot's, and each of its actions is an action of the slot or
leaves all phases as they are. Each step needs `IInv` as well: that a started client
is the only one that serves is SingleClient, and that what is reported has exited is
part of `ToldOK`.

`NdmsProofs` proves TypeOK, RouterAgrees and RouterReady for any tunnels and bounds.
RouterAgrees speaks of the moments without a call and says nothing of the time in
which a call tells the router tunnel after tunnel. `ToldOK` does: what has been
told is right; `WantOK` adds that what a deactivation or refresh tells is what the
store says, `BeforeOK` that a call that has not begun to tell has not disturbed
anything, and `HolderOK` that the call is of the kind its place says.

`SubscriptionProofs` proves TypeOK, PatchStands, IntervalKept and FallbackTried for any
urls, intervals, word sizes and bounds. The last two are about single steps, but what
justifies a step was decided several steps before. `DueOK` says that the stored time is
that of the loop's last refresh or of a later one, and that a loop which waits for
`a.mu` or has it has let the shortest interval pass: what a user's refresh stores
meanwhile can only make that one shorter. `TriesOK` keeps that every agent that is not
to be tried any more was refused, and `LockOK` who may be at which step. `FlagsOK` and
`DataOK` are TypeOK in two halves, because one prover handles Boolean variables and
another the rest.

`RoutingProofs` proves TypeOK, Recorded, NoLoop and SubscriptionOutside for any
tunnels, hosts, groups, routes and bounds. Recorded is about rest, while the parts of
Activate and Deactivate leave things half done between any two commands. As long
as nothing spoiled it (`Clean`), `HoldOK` says that what is installed is in the state
file, or in the record of the one request that activates; `ActivateOK` that nobody
undoes routes at that time (`Alone`); `UndoOK` that who undoes works on what the file
says, and `ProgressOK` that what it has removed stays away. `RoutesOK` and `KeptOK`
follow the default route: it leads into a tunnel only when the file or the record at
its end says so, every pin in that file leads to the WAN, and a refresh that pinned its
host finds the pin there. `PinsOK` adds, when no pin was passed over, that the three
pins are among them. Each part of Activate and Deactivate has a lemma of its own, and
those of the three callers that only begin or end share `RouterKept`. `Moves` and `Rests`
say once what a step does to `job`, and no step expands it again.

`ProfilesProofs` proves TypeOK, FlagsFollowActive, InterfacesUnique and
InterfacesKept for any identifiers, any sort order, any numbers of names and
addresses, and any list. The names are given by recursion, so each needs to know
what the ones before it are: `NamesOneByOne` shows it by a smallest counterexample,
which `Least` finds. `Merges` says what a merge gives whatever its order, and
`Arranged` that sorting changes nothing of it. A tunnel may be in the list twice, with
different interfaces, of which the last is the one it keeps. `Unique`, which
InterfacesUnique follows from, therefore speaks of different tunnels only, and
`AddressesDiffer` goes from names to addresses: there are at least as many.
`MergeGivesAList` shows that `Sorted` is never empty, so a refresh is not excluded by
a comparison that nothing satisfies.

The proofs assume `ConstantsAssumption` of each module, and `NoneAssumption` of
`App`, `Ndms` and `Routing` (a record is not `None`), which TLC evaluates in every
run.

Only model-checked: liveness (OperationsReturn, ExitReported, RequestsServed,
AutoRefreshes), which the prover does not do. Every safety property that a passing run
checks is a theorem.

## 5. Not modelled

- Login and sessions: every operation on the map of sessions is one critical section
  of `sessionMu` and nothing is kept between two of them, so no interleaving can
  break anything; the challenge and its hashes are text.
- The text of the client's configuration, and the parsing of a subscription's lines
  and of a state file that is damaged; what a refresh gets is a set of profiles or an
  error.
- The ndmc client: the program uses two text conversions of its file and never makes
  the client itself. `pruneNDMSTunnels` and `DeleteInterface`: nothing calls them.
- The logger, the web page, the environment and the package scripts; the hook script
  is in `Ndms`, and what the init script does is a signal or a kill at any moment in
  `App`, without its one second of patience.
- A WAN that changes while a default route leads into a tunnel: what the router does
  then is not in the repository.
- IPv6 in `Routing`: it follows IPv4.
- A save of the store that fails, in `Routing`, other than in an update of the routing:
  only that one changes what is saved. `App` has the others.
- More than one exit handler at a time in `Routing`, and the two words of the interface
  value `a.routeMgr` that a handler may read apart while a request replaces it: there a
  handler has the old strategy or the new one.
- Real time, beyond the order of timeouts and the minutes of `Subscription`.

## 6. Plan

Done: `RuntimeManager`, `ClientSlot` and the refinement; `App`; `Ndms`; `Subscription`;
`Profiles` with addresses; `Routing` with the refresh; the proofs of section 4.

Left:

1. An abstract "routes on, routes off" that `Routing` implements and `App` uses, as
   `ClientSlot` is for the client.
2. The composition of `Ndms` with `App`: a hook call that activates a tunnel whose
   client has just exited.
