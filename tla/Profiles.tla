------------------------------- MODULE Profiles -------------------------------
(***************************************************************************)
(* The list of tunnels and the names of their interfaces: mergeProfiles    *)
(* and nextInterfaceName of src/internal/app/app.go, and the activation    *)
(* that names a tunnel after the device its client really opened.          *)
(*                                                                         *)
(* A tunnel is known by stableTunnelID, a hash of its server, port, auth   *)
(* and name: here a member of Ids.  An interface name is a number: N below *)
(* MaxNames is "opkgtunN" (256 in the code), MaxNames + s the name that is *)
(* made from the clock when all of those are used.  The address of the tun *)
(* device is computed from that name, by DefaultTunSettings of             *)
(* src/internal/runtime/config.go.                                         *)
(***************************************************************************)
EXTENDS Naturals, Sequences, FiniteSets, SequencesExt

CONSTANTS
    Ids,            \* identifiers of tunnels
    None,
    Rank,           \* what the list is sorted by within a half: IsWarp and name
    MaxNames,       \* how many names nextInterfaceName tries
    Addresses,      \* how many tun addresses there are (256 in the code)
    Checksum,       \* the sum of the characters of a name made from the clock
    MaxSeconds,     \* bound on the clock
    MaxFresh,       \* bound on the profiles of a subscription
    MaxTunnels      \* bound on the length of the list

ASSUME ConstantsAssumption ==
    /\ None \notin Ids
    /\ Rank \in [Ids -> Nat]
    /\ MaxNames \in Nat \ {0}
    /\ Addresses \in Nat /\ Addresses >= MaxNames
    /\ MaxSeconds \in Nat
    /\ Checksum \in [MaxNames .. MaxNames + MaxSeconds -> Nat]
    /\ MaxFresh \in Nat \ {0}
    /\ MaxTunnels \in Nat

Numbered == 0 .. MaxNames - 1
Names    == 0 .. MaxNames + MaxSeconds

TunnelProfiles == [id : Ids, iface : Names, missing : BOOLEAN, active : BOOLEAN]

VARIABLES
    tunnels,        \* state.Tunnels
    active,         \* state.Runtime.ActiveTunnelID
    renamed         \* whether a client was taken to have opened another device

vars == <<tunnels, active, renamed>>

Known(id) == \E i \in DOMAIN tunnels : tunnels[i].id = id

\* byID[id]: the last tunnel of the list with that ID.
ById(id) == tunnels[Max({i \in DOMAIN tunnels : tunnels[i].id = id})]

NamesOf(list) == {list[i].iface : i \in DOMAIN list}

\* The number after "opkgtun"; a name made from the clock reads as a negative one,
\* and its characters are summed.
InterfaceIndex(name) == IF name \in Numbered THEN name ELSE Checksum[name]

\* [faulty variant] Two addresses to a /30 network.
TunAddressHalved(name) == (InterfaceIndex(name) \div 2) % Addresses

\* The third byte of 10.250.x.1/30.
TunAddress(name) == InterfaceIndex(name) % Addresses

-----------------------------------------------------------------------------
\* `second` is what the clock shows.
NextInterfaceName(used, second) ==
    IF Numbered \subseteq used THEN MaxNames + second ELSE Min(Numbered \ used)

\* The names the profiles of a subscription get, one after the other: a known tunnel
\* keeps its name, a new one gets one that no tunnel and no device on the router has.
\* [faulty variant] A new tunnel is not given a name.
NamesUnset(fresh, devices, second) ==
    [i \in DOMAIN fresh |-> IF Known(fresh[i]) THEN ById(fresh[i]).iface ELSE None]

\* [faulty variant] The name a new tunnel got is not marked as used.
NamesForgotten(fresh, devices, second) ==
    [i \in DOMAIN fresh |->
        IF Known(fresh[i]) THEN ById(fresh[i]).iface
        ELSE NextInterfaceName(NamesOf(tunnels) \cup devices, second)]

NamesGiven(fresh, devices, second) ==
    LET name[i \in DOMAIN fresh] ==
            IF Known(fresh[i]) THEN ById(fresh[i]).iface
            ELSE NextInterfaceName(
                    NamesOf(tunnels) \cup devices \cup {name[j] : j \in 1 .. i - 1}, second)
    IN name

\* Where the list has the tunnels the subscription no longer names.
\* [faulty variant] They are dropped from the list.
GoneDropped(fresh) == {}

Gone(fresh) == {i \in DOMAIN tunnels : tunnels[i].id \notin Range(fresh)}

\* The merged tunnels before they are sorted: the profiles, then those that are gone.
Merged(fresh, devices, second) ==
    LET names == NamesGiven(fresh, devices, second)
    IN [k \in DOMAIN fresh \cup {Len(fresh) + i : i \in Gone(fresh)} |->
            IF k \in DOMAIN fresh
            THEN [id |-> fresh[k], iface |-> names[k], missing |-> FALSE,
                  active |-> Known(fresh[k]) /\ ById(fresh[k]).active]
            ELSE [tunnels[k - Len(fresh)] EXCEPT !.missing = TRUE, !.active = FALSE]]

\* sort.Slice is not stable: tunnels that compare equal come in any order.
Before(x, y) == IF x.missing = y.missing THEN Rank[x.id] < Rank[y.id] ELSE y.missing

Sorted(entries) ==
    {list \in {[i \in DOMAIN order |-> entries[order[i]]] :
                    order \in SetToSeqs(DOMAIN entries)} :
        \A i, j \in DOMAIN list : i < j => ~Before(list[j], list[i])}

MergeProfiles(fresh, devices, second) == Sorted(Merged(fresh, devices, second))

WithFlags(list, id) == [i \in DOMAIN list |-> [list[i] EXCEPT !.active = list[i].id = id]]

-----------------------------------------------------------------------------
Init ==
    /\ tunnels = <<>>
    /\ active = None
    /\ renamed = FALSE

\* The profiles of a subscription, which parseProfiles does not check for
\* duplicates; there is at least one.
Subscriptions ==
    {fresh \in SeqOf(Ids, MaxFresh) :
        fresh # <<>> /\ Len(fresh) + Cardinality(Gone(fresh)) <= MaxTunnels}

\* The update of refreshSubscriptionLocked.
Refresh ==
    \E fresh \in Subscriptions, devices \in SUBSET Numbered, second \in 0 .. MaxSeconds :
    \E merged \in MergeProfiles(fresh, devices, second) :
        /\ IF active \in Range(fresh) \cup {None}
           THEN tunnels' = merged /\ UNCHANGED active
           ELSE tunnels' = WithFlags(merged, None) /\ active' = None
        /\ UNCHANGED renamed

\* ActivateTunnel when the client came up: the tunnel is named after the first
\* opkgtun device that appeared, the one the client was told to open or another.
\* [faulty variant] The flags of other tunnels are kept.
ActivateKeepsFlags(id) ==
    /\ Known(id)
    /\ ~tunnels[SelectInSeq(tunnels, LAMBDA tunnel : tunnel.id = id)].missing
    /\ tunnels' = [i \in DOMAIN tunnels |->
            [tunnels[i] EXCEPT !.active = @ \/ tunnels[i].id = id]]
    /\ active' = id
    /\ UNCHANGED renamed

Activate(id) ==
    LET selected == tunnels[SelectInSeq(tunnels, LAMBDA tunnel : tunnel.id = id)] IN
    /\ Known(id)
    /\ ~selected.missing
    /\ \E actual \in {selected.iface} \cup Numbered :
        /\ tunnels' = WithFlags([i \in DOMAIN tunnels |->
            IF tunnels[i].id = id THEN [tunnels[i] EXCEPT !.iface = actual] ELSE tunnels[i]], id)
        /\ renamed' = (renamed \/ actual # selected.iface)
    /\ active' = id

\* Every other end of an activation, a deactivation and an unexpected exit.
Clear ==
    /\ active # None
    /\ tunnels' = WithFlags(tunnels, None)
    /\ active' = None
    /\ UNCHANGED renamed

Next == Refresh \/ Clear \/ \E id \in Ids : Activate(id)

Spec == Init /\ [][Next]_vars

-----------------------------------------------------------------------------
(* Every tunnel of the list has a name.                                     *)
TypeOK ==
    /\ tunnels \in Seq(TunnelProfiles)
    /\ active \in Ids \cup {None}
    /\ renamed \in BOOLEAN

(* README:13: "unique interfaces of the form opkgtunX with separate TUN     *)
(* addresses".  No two different tunnels share a numbered interface or its  *)
(* TUN address, through every sequence of subscriptions that drop, bring    *)
(* back, add and repeat profiles, while other programs have opkgtun devices *)
(* of their own - as long as every client opened the device it was told to. *)
(* (The name that is made from the clock when the numbers are used up can   *)
(* be given twice, and its address can be that of a numbered one.)          *)
InterfacesUnique ==
    ~renamed => \A i, j \in DOMAIN tunnels :
        LET x == tunnels[i]
            y == tunnels[j]
        IN x.id # y.id /\ {x.iface, y.iface} \subseteq Numbered
               => x.iface # y.iface /\ TunAddress(x.iface) # TunAddress(y.iface)

(* The flags of the list and the active tunnel name the same tunnel, also   *)
(* when a subscription names a profile twice, and it is not a missing one.  *)
FlagsFollowActive ==
    /\ \A i \in DOMAIN tunnels : tunnels[i].active <=> tunnels[i].id = active
    /\ active # None => \E i \in DOMAIN tunnels : tunnels[i].active /\ ~tunnels[i].missing

\* The interfaces a tunnel has in a list; more than one if it is in it twice.
IfacesOf(id, list) == {list[i].iface : i \in {j \in DOMAIN list : list[j].id = id}}

(* Under the same condition a tunnel is never forgotten nor given another   *)
(* interface: one that disappears from the subscription and comes back      *)
(* finds the router's configuration of its interface as it was.             *)
InterfacesKept ==
    [][\A id \in Ids : Known(id) /\ ~renamed' =>
        /\ IfacesOf(id, tunnels') # {}
        /\ IfacesOf(id, tunnels') \subseteq IfacesOf(id, tunnels)]_vars

=============================================================================
