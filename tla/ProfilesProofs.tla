--------------------------- MODULE ProfilesProofs ---------------------------
(***************************************************************************)
(* Proofs about Profiles, for any tunnels, subscriptions, numbers of names *)
(* and addresses, and any list.                                            *)
(*                                                                         *)
(* The names of a merge are given one after the other, by a recursive      *)
(* function.  That it has the values its definition says is an induction,  *)
(* which is done with a smallest counterexample: Least says that there is  *)
(* one.                                                                    *)
(***************************************************************************)
EXTENDS Profiles, FiniteSetTheorems, WellFoundedInduction, TLAPS

(* A set of natural numbers has a smallest one.                             *)
LEMMA Least ==
  ASSUME NEW T \in SUBSET Nat, T # {}
  PROVE  \E m \in T : \A k \in T : m <= k
<1>. DEFINE R == OpToRel(<, Nat)
<1>1. IsWellFoundedOn(R, Nat)
  BY NatLessThanWellFounded
<1>2. ASSUME NEW x \in Nat, NEW y \in Nat, x < y
      PROVE  <<x, y>> \in R
  BY <1>2, Zenon DEF OpToRel
<1>. HIDE DEF R
<1>3. PICK m \in T : \A k \in T : ~(<<k, m>> \in R)
  BY <1>1, WFMin
<1>4. \A k \in T : ~(k < m)
  BY <1>2, <1>3
<1>. QED
  BY <1>4

(* Min of a set of natural numbers.                                         *)
LEMMA MinIsLeast ==
  ASSUME NEW S \in SUBSET Nat, S # {}
  PROVE  Min(S) \in S /\ \A k \in S : Min(S) <= k
<1>1. \E m \in S : \A k \in S : m <= k
  BY Least
<1>. QED
  BY <1>1 DEF Min

(* Max of a set of places in a list.                                        *)
LEMMA MaxIsGreatest ==
  ASSUME NEW n \in Nat, NEW S \in SUBSET (1 .. n), S # {}
  PROVE  Max(S) \in S /\ \A k \in S : k <= Max(S)
<1>. DEFINE T == {n - k : k \in S}
<1>1. T \in SUBSET Nat /\ T # {}
  <2>1. \A k \in S : n - k \in Nat
    OBVIOUS
  <2>2. T \in SUBSET Nat
    BY <2>1
  <2>3. PICK k \in S : TRUE
    OBVIOUS
  <2>4. n - k \in T
    BY <2>3
  <2>. QED
    BY <2>2, <2>4
<1>2. PICK m : m \in T /\ \A k \in T : m <= k
  <2>. HIDE DEF T
  <2>. QED
    BY <1>1, Least
<1>3. PICK k \in S : m = n - k
  BY <1>2
<1>4. \A j \in S : j <= k
  <2>. SUFFICES ASSUME NEW j \in S PROVE j <= k
    OBVIOUS
  <2>1. n - j \in T
    OBVIOUS
  <2>2. n - k <= n - j
    BY <1>2, <1>3, <2>1
  <2>. QED
    BY <2>2
<1>5. \E x \in S : \A y \in S : x >= y
  BY <1>4
<1>. QED
  BY <1>5 DEF Max

(* byID[id] is a tunnel of the list with that identifier.                   *)
LEMMA ByIdIsLast ==
  ASSUME TypeOK, NEW id, Known(id)
  PROVE  \E i \in DOMAIN tunnels : ById(id) = tunnels[i] /\ tunnels[i].id = id
<1>. DEFINE S == {i \in DOMAIN tunnels : tunnels[i].id = id}
<1>1. S \in SUBSET (1 .. Len(tunnels)) /\ S # {} /\ Len(tunnels) \in Nat
  BY DEF TypeOK, Known
<1>2. Max(S) \in S
  BY <1>1, MaxIsGreatest
<1>3. ById(id) = tunnels[Max(S)]
  BY DEF ById
<1>. QED
  BY <1>2, <1>3

(* A new name with a number is not in use.                                  *)
LEMMA NewName ==
  ASSUME NEW used, NEW second \in 0 .. MaxSeconds
  PROVE  /\ NextInterfaceName(used, second) \in Names
         /\ NextInterfaceName(used, second) \in Numbered
                => NextInterfaceName(used, second) \notin used
<1>1. CASE Numbered \subseteq used
  BY <1>1, ConstantsAssumption DEF NextInterfaceName, Names, Numbered
<1>2. CASE ~(Numbered \subseteq used)
  <2>1. Numbered \ used \in SUBSET Nat /\ Numbered \ used # {}
    BY <1>2, ConstantsAssumption DEF Numbered
  <2>2. Min(Numbered \ used) \in Numbered \ used
    BY <2>1, MinIsLeast
  <2>. QED
    BY <1>2, <2>2, ConstantsAssumption DEF NextInterfaceName, Names, Numbered
<1>. QED
  BY <1>1, <1>2

\* The name of the k-th profile, when f has those of the profiles before it.
NameOf(f, k, fresh, devices, second) ==
    IF Known(fresh[k]) THEN ById(fresh[k]).iface
    ELSE NextInterfaceName(NamesOf(tunnels) \cup devices \cup {f[j] : j \in 1 .. k - 1}, second)

(* Each profile gets its name when those before it have theirs.             *)
LEMMA NamesOneByOne ==
  ASSUME NEW n \in Nat, NEW fresh \in [1 .. n -> Ids], NEW devices, NEW second
  PROVE  LET names == NamesGiven(fresh, devices, second)
         IN  names = [i \in 1 .. n |-> NameOf(names, i, fresh, devices, second)]
<1>. DEFINE P(f, k) == NameOf(f, k, fresh, devices, second)
            T == {m \in 0 .. n : ~ \E f : f = [i \in 1 .. m |-> P(f, i)]}
<1>1. T = {}
  <2>. SUFFICES ASSUME T # {} PROVE FALSE
    OBVIOUS
  <2>1. T \in SUBSET Nat
    OBVIOUS
  <2>2. PICK m \in T : \A k \in T : m <= k
    BY <2>1, Least
  <2>. HIDE DEF P
  <2>3. m # 0
    <3>. DEFINE e == [i \in 1 .. 0 |-> 0]
    <3>1. 1 .. 0 = {}
      OBVIOUS
    <3>2. e = [i \in 1 .. 0 |-> P(e, i)]
      BY <3>1
    <3>. QED
      BY <2>2, <3>2
  <2>4. m - 1 \in 0 .. n /\ m - 1 \notin T
    BY <2>2, <2>3
  <2>5. PICK f : f = [i \in 1 .. m - 1 |-> P(f, i)]
    BY <2>4
  <2>. DEFINE g == [i \in 1 .. m |-> IF i = m THEN P(f, m) ELSE f[i]]
  <2>6. m \in Nat /\ \A j \in 1 .. m - 1 : g[j] = f[j]
    BY <2>2
  <2>7. \A i \in 1 .. m : P(g, i) = P(f, i)
    <3>. HIDE DEF g
    <3>1. ASSUME NEW i \in 1 .. m PROVE {g[j] : j \in 1 .. i - 1} = {f[j] : j \in 1 .. i - 1}
      <4>1. \A j \in 1 .. i - 1 : g[j] = f[j]
        BY <2>6
      <4>. QED
        BY <4>1
    <3>. QED
      BY <3>1 DEF P, NameOf
  <2>8. \A i \in 1 .. m : g[i] = P(g, i)
    BY <2>5, <2>6, <2>7
  <2>9. g = [i \in 1 .. m |-> P(g, i)]
    <3>1. g = [i \in 1 .. m |-> g[i]]
      OBVIOUS
    <3>. HIDE DEF g
    <3>. QED
      BY <2>8, <3>1
  <2>. QED
    BY <2>2, <2>9
<1>2. \E f : f = [i \in 1 .. n |-> P(f, i)]
  BY <1>1
<1>3. DOMAIN fresh = 1 .. n
  OBVIOUS
<1>4. NamesGiven(fresh, devices, second) = CHOOSE f : f = [i \in 1 .. n |-> P(f, i)]
  BY <1>3 DEF NamesGiven, NameOf
<1>. QED
  BY <1>2, <1>4

(* Sorting keeps every entry and adds none.                                 *)
LEMMA Arranged ==
  ASSUME NEW n \in Nat, NEW entries, DOMAIN entries \subseteq 1 .. n,
         NEW list \in Sorted(entries)
  PROVE  /\ \E m \in Nat : DOMAIN list = 1 .. m /\ list = [i \in 1 .. m |-> list[i]]
         /\ \A i \in DOMAIN list : \E k \in DOMAIN entries : list[i] = entries[k]
         /\ \A k \in DOMAIN entries : \E i \in DOMAIN list : list[i] = entries[k]
<1>. DEFINE S == DOMAIN entries
            m == Cardinality(S)
<1>1. IsFiniteSet(S) /\ m \in Nat
  <2>1. IsFiniteSet(1 .. n)
    BY FS_Interval
  <2>2. IsFiniteSet(S)
    BY <2>1, FS_Subset
  <2>. QED
    BY <2>2, FS_CardinalityType
<1>2. PICK order \in [1 .. m -> S] :
        /\ \A i, j \in 1 .. m : i # j => order[i] # order[j]
        /\ list = [i \in DOMAIN order |-> entries[order[i]]]
  BY DEF Sorted, SetToSeqs
<1>3. \A k \in S : \E i \in 1 .. m : order[i] = k
  <2>. SUFFICES ASSUME NEW k \in S, \A i \in 1 .. m : order[i] # k PROVE FALSE
    OBVIOUS
  <2>. DEFINE T == S \ {k}
  <2>1. order \in [1 .. m -> T]
    OBVIOUS
  <2>2. IsFiniteSet(T) /\ Cardinality(T) = m - 1
    BY <1>1, FS_RemoveElement
  <2>3. IsFiniteSet(1 .. m) /\ Cardinality(1 .. m) = m
    BY <1>1, FS_Interval
  <2>4. m - 1 < m
    BY <1>1
  <2>. HIDE DEF T, m
  <2>5. \E x, y \in 1 .. m : x # y /\ order[x] = order[y]
    BY <2>1, <2>2, <2>3, <2>4, FS_PigeonHole
  <2>. QED
    BY <1>2, <2>5
<1>. HIDE DEF m
<1>4. DOMAIN list = 1 .. m /\ list = [i \in 1 .. m |-> list[i]]
  BY <1>2
<1>5. \A i \in 1 .. m : list[i] = entries[order[i]] /\ order[i] \in S
  BY <1>2
<1>. QED
  BY <1>1, <1>3, <1>4, <1>5

\* An entry of the merged list that comes from the subscription, or from the list.
Incoming(x, fresh) ==
    /\ x.id \in Range(fresh)
    /\ x.missing = FALSE
    /\ x.active = (Known(x.id) /\ ById(x.id).active)
    /\ Known(x.id) => x.iface = ById(x.id).iface
    /\ ~Known(x.id) /\ x.iface \in Numbered => x.iface \notin NamesOf(tunnels)

Leftover(x, fresh) ==
    /\ x.id \notin Range(fresh)
    /\ x.active = FALSE
    /\ \E i \in DOMAIN tunnels : tunnels[i].id = x.id /\ tunnels[i].iface = x.iface

\* What merging a subscription into the list gives, in whatever order.
Merges(merged, fresh) ==
    /\ \A k \in DOMAIN merged :
        /\ merged[k] \in TunnelProfiles
        /\ Incoming(merged[k], fresh) \/ Leftover(merged[k], fresh)
    /\ \A id \in Range(fresh) : \E k \in DOMAIN merged : merged[k].id = id /\ ~merged[k].missing
    /\ \A id : Known(id) => \E k \in DOMAIN merged : merged[k].id = id
    /\ \A j, k \in DOMAIN merged :
        /\ merged[j].id # merged[k].id
        /\ {merged[j].id, merged[k].id} \subseteq Range(fresh)
        /\ ~Known(merged[j].id) /\ ~Known(merged[k].id)
        /\ {merged[j].iface, merged[k].iface} \subseteq Numbered
        => merged[j].iface # merged[k].iface

(* mergeProfiles before it sorts.                                           *)
LEMMA MergedEntries ==
  ASSUME TypeOK, NEW n \in Nat, NEW fresh \in [1 .. n -> Ids],
         NEW devices, NEW second \in 0 .. MaxSeconds
  PROVE  /\ DOMAIN Merged(fresh, devices, second) \subseteq 1 .. n + Len(tunnels)
         /\ Merges(Merged(fresh, devices, second), fresh)
<1>. DEFINE entries == Merged(fresh, devices, second)
            names == NamesGiven(fresh, devices, second)
            Used(k) == NamesOf(tunnels) \cup devices \cup {names[j] : j \in 1 .. k - 1}
<1>1. \A k \in 1 .. n : names[k] = IF Known(fresh[k]) THEN ById(fresh[k]).iface
                                   ELSE NextInterfaceName(Used(k), second)
  <2>1. names = [k \in 1 .. n |-> NameOf(names, k, fresh, devices, second)]
    BY NamesOneByOne
  <2>. HIDE DEF names
  <2>2. \A k \in 1 .. n : names[k] = NameOf(names, k, fresh, devices, second)
    BY <2>1
  <2>. QED
    BY <2>2 DEF NameOf
<1>. HIDE DEF names
<1>2. \A id \in Ids : Known(id) =>
        ById(id) \in TunnelProfiles /\ ById(id).id = id /\ ById(id).iface \in Names
  <2>. SUFFICES ASSUME NEW id \in Ids, Known(id)
                PROVE  /\ ById(id) \in TunnelProfiles /\ ById(id).id = id
                       /\ ById(id).iface \in Names
    OBVIOUS
  <2>1. PICK i \in DOMAIN tunnels : ById(id) = tunnels[i] /\ tunnels[i].id = id
    BY ByIdIsLast
  <2>2. tunnels[i] \in TunnelProfiles
    BY DEF TypeOK
  <2>. QED
    BY <2>1, <2>2 DEF TunnelProfiles
<1>3. \A k \in 1 .. n :
        /\ names[k] \in Names
        /\ ~Known(fresh[k]) /\ names[k] \in Numbered => names[k] \notin Used(k)
  <2>. HIDE DEF Used
  <2>. QED
    BY <1>1, <1>2, NewName
<1>4. /\ DOMAIN fresh = 1 .. n /\ Len(fresh) = n
      /\ tunnels \in [1 .. Len(tunnels) -> TunnelProfiles] /\ Len(tunnels) \in Nat
      /\ Gone(fresh) = {i \in 1 .. Len(tunnels) : tunnels[i].id \notin Range(fresh)}
  BY DEF TypeOK, Gone
<1>5. DOMAIN entries = 1 .. n \cup {n + i : i \in Gone(fresh)}
  BY <1>4 DEF Merged
<1>6. \A k \in 1 .. n : entries[k] =
        [id |-> fresh[k], iface |-> names[k], missing |-> FALSE,
         active |-> Known(fresh[k]) /\ ById(fresh[k]).active]
  BY <1>4 DEF Merged, names
<1>7. \A i \in Gone(fresh) :
        entries[n + i] = [tunnels[i] EXCEPT !.missing = TRUE, !.active = FALSE]
  <2>. SUFFICES ASSUME NEW i \in Gone(fresh)
                PROVE  entries[n + i] = [tunnels[i] EXCEPT !.missing = TRUE, !.active = FALSE]
    OBVIOUS
  <2>1. n + i \notin 1 .. n /\ (n + i) - n = i
    BY <1>4
  <2>. QED
    BY <1>4, <2>1 DEF Merged
<1>. HIDE DEF entries
<1>8. ASSUME NEW k \in 1 .. n
      PROVE  /\ entries[k] \in TunnelProfiles /\ Incoming(entries[k], fresh)
             /\ entries[k].id = fresh[k] /\ entries[k].iface = names[k] /\ ~entries[k].missing
  <2>1. fresh[k] \in Range(fresh) /\ fresh[k] \in Ids
    BY <1>4 DEF Range
  <2>. DEFINE flag == Known(fresh[k]) /\ ById(fresh[k]).active
  <2>2. flag \in BOOLEAN
    OBVIOUS
  <2>3. entries[k] = [id |-> fresh[k], iface |-> names[k], missing |-> FALSE, active |-> flag]
    BY <1>6
  <2>. HIDE DEF flag
  <2>4. /\ entries[k].id = fresh[k] /\ entries[k].iface = names[k]
        /\ entries[k].missing = FALSE /\ entries[k].active = flag
    BY <2>3
  <2>5. entries[k] \in TunnelProfiles
    BY <1>3, <2>1, <2>2, <2>3 DEF TunnelProfiles
  <2>6. Incoming(entries[k], fresh)
    BY <1>1, <1>3, <2>1, <2>4 DEF Incoming, flag
  <2>. QED
    BY <2>4, <2>5, <2>6
<1>9. ASSUME NEW i \in Gone(fresh)
      PROVE  /\ entries[n + i] \in TunnelProfiles /\ Leftover(entries[n + i], fresh)
             /\ entries[n + i].id = tunnels[i].id
  <2>1. /\ i \in DOMAIN tunnels /\ tunnels[i] \in TunnelProfiles
        /\ tunnels[i].id \notin Range(fresh)
    BY <1>4
  <2>2. entries[n + i] =
            [id |-> tunnels[i].id, iface |-> tunnels[i].iface,
             missing |-> TRUE, active |-> FALSE]
    BY <1>7, <2>1 DEF TunnelProfiles
  <2>. QED
    BY <2>1, <2>2 DEF TunnelProfiles, Leftover
<1>10. \A k \in DOMAIN entries : entries[k].id \in Range(fresh) => k \in 1 .. n
  BY <1>5, <1>9 DEF Leftover
<1>11. ASSUME NEW j \in DOMAIN entries, NEW k \in DOMAIN entries,
              entries[j].id # entries[k].id,
              {entries[j].id, entries[k].id} \subseteq Range(fresh),
              ~Known(entries[j].id) /\ ~Known(entries[k].id),
              {entries[j].iface, entries[k].iface} \subseteq Numbered
       PROVE  entries[j].iface # entries[k].iface
  <2>1. j \in 1 .. n /\ k \in 1 .. n /\ j # k
    BY <1>10, <1>11
  <2>2. names[j] \notin Used(j) /\ names[k] \notin Used(k)
    BY <1>3, <1>8, <1>11, <2>1
  <2>3. CASE j < k
    BY <1>8, <2>1, <2>2, <2>3
  <2>4. CASE k < j
    BY <1>8, <2>1, <2>2, <2>4
  <2>. QED
    BY <2>1, <2>3, <2>4
<1>12. DOMAIN entries \subseteq 1 .. n + Len(tunnels)
  BY <1>4, <1>5
<1>13. \A k \in DOMAIN entries :
        /\ entries[k] \in TunnelProfiles
        /\ Incoming(entries[k], fresh) \/ Leftover(entries[k], fresh)
  BY <1>5, <1>8, <1>9
<1>14. \A id \in Range(fresh) : \E k \in DOMAIN entries : entries[k].id = id /\ ~entries[k].missing
  BY <1>4, <1>5, <1>8 DEF Range
<1>15. \A id : Known(id) => \E k \in DOMAIN entries : entries[k].id = id
  BY <1>4, <1>5, <1>9, <1>14 DEF Known
<1>16. Merges(entries, fresh)
  BY <1>11, <1>13, <1>14, <1>15 DEF Merges
<1>. QED
  BY <1>12, <1>16 DEF entries

(* mergeProfiles.                                                           *)
LEMMA MergedList ==
  ASSUME TypeOK, NEW fresh \in Subscriptions, NEW devices, NEW second \in 0 .. MaxSeconds,
         NEW list \in MergeProfiles(fresh, devices, second)
  PROVE  list \in Seq(TunnelProfiles) /\ Merges(list, fresh)
<1>. DEFINE entries == Merged(fresh, devices, second)
<1>1. PICK n \in Nat : fresh \in [1 .. n -> Ids]
  BY DEF Subscriptions, SeqOf
<1>2. n + Len(tunnels) \in Nat
  BY <1>1 DEF TypeOK
<1>3. DOMAIN entries \subseteq 1 .. n + Len(tunnels) /\ Merges(entries, fresh)
  BY <1>1, MergedEntries
<1>4. list \in Sorted(entries)
  BY DEF MergeProfiles
<1>. HIDE DEF entries
<1>5. /\ \E m \in Nat : DOMAIN list = 1 .. m /\ list = [i \in 1 .. m |-> list[i]]
      /\ \A i \in DOMAIN list : \E k \in DOMAIN entries : list[i] = entries[k]
      /\ \A k \in DOMAIN entries : \E i \in DOMAIN list : list[i] = entries[k]
  BY <1>2, <1>3, <1>4, Arranged
<1>6. list \in Seq(TunnelProfiles)
  <2>1. PICK m \in Nat : DOMAIN list = 1 .. m /\ list = [i \in 1 .. m |-> list[i]]
    BY <1>5
  <2>2. \A i \in 1 .. m : list[i] \in TunnelProfiles
    BY <1>3, <1>5, <2>1 DEF Merges
  <2>3. list \in [1 .. m -> TunnelProfiles]
    BY <2>1, <2>2
  <2>. QED
    BY <2>3
<1>7. Merges(list, fresh)
  <2>1. \A i \in DOMAIN list :
            /\ list[i] \in TunnelProfiles
            /\ Incoming(list[i], fresh) \/ Leftover(list[i], fresh)
    BY <1>3, <1>5 DEF Merges
  <2>2. ASSUME NEW id \in Range(fresh)
        PROVE  \E i \in DOMAIN list : list[i].id = id /\ ~list[i].missing
    <3>1. PICK k \in DOMAIN entries : entries[k].id = id /\ ~entries[k].missing
      BY <1>3 DEF Merges
    <3>2. PICK i \in DOMAIN list : list[i] = entries[k]
      BY <1>5
    <3>. QED
      BY <3>1, <3>2
  <2>3. \A id : Known(id) => \E i \in DOMAIN list : list[i].id = id
    BY <1>3, <1>5 DEF Merges
  <2>4. ASSUME NEW i \in DOMAIN list, NEW j \in DOMAIN list,
               list[i].id # list[j].id,
               {list[i].id, list[j].id} \subseteq Range(fresh),
               ~Known(list[i].id) /\ ~Known(list[j].id),
               {list[i].iface, list[j].iface} \subseteq Numbered
        PROVE  list[i].iface # list[j].iface
    <3>1. PICK k \in DOMAIN entries : list[i] = entries[k]
      BY <1>5
    <3>2. PICK l \in DOMAIN entries : list[j] = entries[l]
      BY <1>5
    <3>. QED
      BY <1>3, <2>4, <3>1, <3>2 DEF Merges
  <2>. QED
    BY <2>1, <2>2, <2>3, <2>4 DEF Merges
<1>. QED
  BY <1>6, <1>7

(* The tunnel that ActivateTunnel selects is one with that identifier.      *)
LEMMA FirstWithId ==
  ASSUME TypeOK, NEW id, Known(id)
  PROVE  LET first == SelectInSeq(tunnels, LAMBDA tunnel : tunnel.id = id)
         IN  first \in DOMAIN tunnels /\ tunnels[first].id = id
<1>. DEFINE S == {i \in 1 .. Len(tunnels) : tunnels[i].id = id}
<1>1. S \in SUBSET Nat /\ S # {} /\ DOMAIN tunnels = 1 .. Len(tunnels)
  BY DEF TypeOK, Known
<1>2. Min(S) \in S
  BY <1>1, MinIsLeast
<1>3. SelectInSeq(tunnels, LAMBDA tunnel : tunnel.id = id) = Min(S)
  BY <1>1 DEF SelectInSeq
<1>. QED
  BY <1>1, <1>2, <1>3

(* Setting the flags changes nothing else.                                  *)
LEMMA FlagsSet ==
  ASSUME NEW list \in Seq(TunnelProfiles), NEW id
  PROVE  /\ WithFlags(list, id) \in Seq(TunnelProfiles)
         /\ DOMAIN WithFlags(list, id) = DOMAIN list
         /\ \A i \in DOMAIN list :
                LET x == WithFlags(list, id)[i] IN
                /\ x.id = list[i].id /\ x.iface = list[i].iface
                /\ x.missing = list[i].missing /\ x.active = (list[i].id = id)
<1>. DEFINE set == WithFlags(list, id)
<1>1. PICK n \in Nat : list \in [1 .. n -> TunnelProfiles] /\ DOMAIN list = 1 .. n
  OBVIOUS
<1>2. set = [i \in 1 .. n |-> [list[i] EXCEPT !.active = list[i].id = id]]
  BY <1>1 DEF WithFlags
<1>3. ASSUME NEW i \in 1 .. n
      PROVE  /\ set[i] \in TunnelProfiles
             /\ set[i].id = list[i].id /\ set[i].iface = list[i].iface
             /\ set[i].missing = list[i].missing /\ set[i].active = (list[i].id = id)
  <2>. DEFINE flag == list[i].id = id
  <2>1. /\ set[i] = [list[i] EXCEPT !.active = flag]
        /\ list[i] \in TunnelProfiles /\ flag \in BOOLEAN
    BY <1>1, <1>2
  <2>. HIDE DEF flag, set
  <2>2. set[i] = [id |-> list[i].id, iface |-> list[i].iface, missing |-> list[i].missing,
                  active |-> flag]
    BY <2>1 DEF TunnelProfiles
  <2>3. /\ set[i] \in TunnelProfiles /\ set[i].id = list[i].id /\ set[i].iface = list[i].iface
        /\ set[i].missing = list[i].missing /\ set[i].active = flag
    BY <2>1, <2>2 DEF TunnelProfiles
  <2>. QED
    BY <2>3 DEF flag
<1>4. DOMAIN set = 1 .. n
  BY <1>2
<1>5. set \in [1 .. n -> TunnelProfiles]
  <2>1. set = [i \in 1 .. n |-> set[i]]
    BY <1>2
  <2>. HIDE DEF set
  <2>. QED
    BY <1>3, <2>1
<1>. HIDE DEF set
<1>6. set \in Seq(TunnelProfiles)
  BY <1>5
<1>. QED
  BY <1>1, <1>3, <1>4, <1>6 DEF set

\* InterfacesUnique without the addresses.
Unique ==
    ~renamed => \A i, j \in DOMAIN tunnels :
        /\ tunnels[i].id # tunnels[j].id
        /\ {tunnels[i].iface, tunnels[j].iface} \subseteq Numbered
        => tunnels[i].iface # tunnels[j].iface

IInv == TypeOK /\ FlagsFollowActive /\ Unique

\* The step of InterfacesKept.
KeepsInterfaces ==
    \A id \in Ids : Known(id) /\ ~renamed' =>
        /\ IfacesOf(id, tunnels') # {}
        /\ IfacesOf(id, tunnels') \subseteq IfacesOf(id, tunnels)

(* A refresh keeps flags, names and interfaces as they should be.           *)
LEMMA RefreshStep ==
  ASSUME IInv, Refresh
  PROVE  IInv' /\ KeepsInterfaces
<1>1. PICK fresh \in Subscriptions, devices \in SUBSET Numbered, second \in 0 .. MaxSeconds :
      \E merged \in MergeProfiles(fresh, devices, second) :
        /\ IF active \in Range(fresh) \cup {None}
           THEN tunnels' = merged /\ UNCHANGED active
           ELSE tunnels' = WithFlags(merged, None) /\ active' = None
        /\ UNCHANGED renamed
  BY DEF Refresh
<1>2. PICK merged \in MergeProfiles(fresh, devices, second) :
        /\ IF active \in Range(fresh) \cup {None}
           THEN tunnels' = merged /\ UNCHANGED active
           ELSE tunnels' = WithFlags(merged, None) /\ active' = None
        /\ UNCHANGED renamed
  BY <1>1
<1>3. merged \in Seq(TunnelProfiles) /\ Merges(merged, fresh)
  BY MergedList DEF IInv
<1>4. /\ tunnels' \in Seq(TunnelProfiles) /\ DOMAIN tunnels' = DOMAIN merged
      /\ \A i \in DOMAIN merged :
            /\ tunnels'[i].id = merged[i].id /\ tunnels'[i].iface = merged[i].iface
            /\ tunnels'[i].missing = merged[i].missing
  BY <1>2, <1>3, FlagsSet
<1>5. \A id : Known(id) => \E j \in DOMAIN tunnels : ById(id) = tunnels[j] /\ tunnels[j].id = id
  BY ByIdIsLast DEF IInv
<1>6. TypeOK'
  BY <1>2, <1>4 DEF IInv, TypeOK
<1>7. FlagsFollowActive'
  <2>1. CASE active \in Range(fresh) \cup {None}
    <3>1. ASSUME NEW i \in DOMAIN merged PROVE merged[i].active <=> merged[i].id = active
      <4>1. CASE Incoming(merged[i], fresh)
        <5>. DEFINE id == merged[i].id
        <5>1. merged[i].active <=> Known(id) /\ ById(id).active
          BY <4>1 DEF Incoming
        <5>2. Known(id) => (ById(id).active <=> id = active)
          BY <1>5 DEF IInv, FlagsFollowActive
        <5>3. id = active => Known(id)
          <6>1. id # None
            BY <1>3, ConstantsAssumption DEF Merges, TunnelProfiles
          <6>. QED
            BY <6>1 DEF IInv, FlagsFollowActive, Known
        <5>. QED
          BY <5>1, <5>2, <5>3
      <4>2. CASE Leftover(merged[i], fresh)
        BY <1>3, <2>1, <4>2, ConstantsAssumption DEF Leftover, Merges, TunnelProfiles
      <4>. QED
        BY <1>3, <4>1, <4>2 DEF Merges
    <3>2. active # None => \E i \in DOMAIN merged : merged[i].id = active /\ ~merged[i].missing
      BY <1>3, <2>1 DEF Merges
    <3>. QED
      BY <1>2, <2>1, <3>1, <3>2 DEF FlagsFollowActive
  <2>2. CASE active \notin Range(fresh) \cup {None}
    <3>1. tunnels' = WithFlags(merged, None) /\ active' = None
      BY <1>2, <2>2
    <3>2. \A i \in DOMAIN merged : tunnels'[i].active = (tunnels'[i].id = None)
      BY <1>3, <3>1, FlagsSet
    <3>. QED
      BY <1>4, <3>1, <3>2 DEF FlagsFollowActive
  <2>. QED
    BY <2>1, <2>2
<1>8. \A i \in DOMAIN merged : Known(merged[i].id) =>
        \E j \in DOMAIN tunnels :
            tunnels[j].id = merged[i].id /\ tunnels[j].iface = merged[i].iface
  BY <1>3, <1>5 DEF Merges, Incoming, Leftover
<1>9. Unique'
  <2>. SUFFICES ASSUME ~renamed, NEW i \in DOMAIN merged, NEW j \in DOMAIN merged,
                       merged[i].id # merged[j].id,
                       {merged[i].iface, merged[j].iface} \subseteq Numbered
                PROVE  merged[i].iface # merged[j].iface
    BY <1>2, <1>4 DEF Unique
  <2>1. \A k \in DOMAIN merged : ~Known(merged[k].id) =>
            merged[k].id \in Range(fresh)
            /\ (merged[k].iface \in Numbered => merged[k].iface \notin NamesOf(tunnels))
    BY <1>3 DEF Merges, Incoming, Leftover, Known
  <2>2. \A k \in DOMAIN merged : Known(merged[k].id) => merged[k].iface \in NamesOf(tunnels)
    BY <1>8 DEF NamesOf
  <2>3. CASE Known(merged[i].id) /\ Known(merged[j].id)
    BY <1>8, <2>3 DEF IInv, Unique
  <2>4. CASE ~Known(merged[i].id) /\ ~Known(merged[j].id)
    BY <1>3, <2>1, <2>4 DEF Merges
  <2>5. CASE Known(merged[i].id) /\ ~Known(merged[j].id)
    BY <2>1, <2>2, <2>5
  <2>6. CASE ~Known(merged[i].id) /\ Known(merged[j].id)
    BY <2>1, <2>2, <2>6
  <2>. QED
    BY <2>3, <2>4, <2>5, <2>6
<1>10. KeepsInterfaces
  <2>. SUFFICES ASSUME NEW id \in Ids, Known(id)
                PROVE  /\ IfacesOf(id, tunnels') # {}
                       /\ IfacesOf(id, tunnels') \subseteq IfacesOf(id, tunnels)
    BY DEF KeepsInterfaces
  <2>1. PICK k \in DOMAIN merged : merged[k].id = id
    BY <1>3 DEF Merges
  <2>2. tunnels'[k].iface \in IfacesOf(id, tunnels')
    BY <1>4, <2>1 DEF IfacesOf
  <2>3. ASSUME NEW iface \in IfacesOf(id, tunnels') PROVE iface \in IfacesOf(id, tunnels)
    <3>1. PICK i \in DOMAIN merged : merged[i].id = id /\ merged[i].iface = iface
      BY <1>4 DEF IfacesOf
    <3>2. PICK j \in DOMAIN tunnels : tunnels[j].id = id /\ tunnels[j].iface = iface
      BY <1>8, <3>1
    <3>. QED
      BY <3>2 DEF IfacesOf
  <2>. QED
    BY <2>2, <2>3
<1>. QED
  BY <1>6, <1>7, <1>9, <1>10 DEF IInv

(* So does an activation, as far as the client opened its own device.       *)
LEMMA ActivateStep ==
  ASSUME IInv, NEW id \in Ids, Activate(id)
  PROVE  IInv' /\ KeepsInterfaces
<1>. DEFINE first == SelectInSeq(tunnels, LAMBDA tunnel : tunnel.id = id)
            selected == tunnels[first]
<1>1. first \in DOMAIN tunnels /\ selected.id = id
  BY FirstWithId DEF Activate, IInv
<1>. DEFINE list(actual) == [i \in DOMAIN tunnels |->
                IF tunnels[i].id = id THEN [tunnels[i] EXCEPT !.iface = actual] ELSE tunnels[i]]
<1>2. PICK actual \in {selected.iface} \cup Numbered :
        /\ tunnels' = WithFlags(list(actual), id)
        /\ renamed' = (renamed \/ actual # selected.iface)
  BY DEF Activate
<1>3. ~selected.missing /\ active' = id
  BY DEF Activate
<1>. HIDE DEF first
<1>4. actual \in Names
  <2>1. selected \in TunnelProfiles
    BY <1>1 DEF IInv, TypeOK
  <2>2. selected.iface \in Names
    BY <2>1 DEF TunnelProfiles
  <2>3. Numbered \subseteq Names
    BY ConstantsAssumption DEF Numbered, Names
  <2>. QED
    BY <1>2, <2>2, <2>3
<1>5. /\ list(actual) \in Seq(TunnelProfiles) /\ DOMAIN list(actual) = DOMAIN tunnels
      /\ \A i \in DOMAIN tunnels :
            /\ list(actual)[i].id = tunnels[i].id
            /\ list(actual)[i].missing = tunnels[i].missing
            /\ list(actual)[i].iface = IF tunnels[i].id = id THEN actual ELSE tunnels[i].iface
  <2>1. PICK n \in Nat : tunnels \in [1 .. n -> TunnelProfiles] /\ DOMAIN tunnels = 1 .. n
    BY DEF IInv, TypeOK
  <2>2. ASSUME NEW i \in 1 .. n
        PROVE  /\ list(actual)[i] \in TunnelProfiles
               /\ list(actual)[i].id = tunnels[i].id
               /\ list(actual)[i].missing = tunnels[i].missing
               /\ list(actual)[i].iface = IF tunnels[i].id = id THEN actual ELSE tunnels[i].iface
    BY <1>4, <2>1 DEF TunnelProfiles
  <2>3. DOMAIN list(actual) = 1 .. n /\ list(actual) = [i \in 1 .. n |-> list(actual)[i]]
    BY <2>1
  <2>. HIDE DEF list
  <2>4. list(actual) \in [1 .. n -> TunnelProfiles]
    BY <2>2, <2>3
  <2>. QED
    BY <2>1, <2>2, <2>3, <2>4
<1>. HIDE DEF list
<1>6. /\ tunnels' \in Seq(TunnelProfiles) /\ DOMAIN tunnels' = DOMAIN tunnels
      /\ \A i \in DOMAIN tunnels :
            /\ tunnels'[i].id = tunnels[i].id /\ tunnels'[i].missing = tunnels[i].missing
            /\ tunnels'[i].iface = IF tunnels[i].id = id THEN actual ELSE tunnels[i].iface
            /\ tunnels'[i].active = (tunnels[i].id = id)
  BY <1>2, <1>5, FlagsSet
<1>7. TypeOK'
  BY <1>2, <1>3, <1>6 DEF IInv, TypeOK
<1>8. FlagsFollowActive'
  BY <1>1, <1>3, <1>6 DEF FlagsFollowActive
<1>9. ~renamed' => ~renamed /\ actual = selected.iface
  BY <1>2
<1>10. ~renamed' => \A i \in DOMAIN tunnels :
        \E j \in DOMAIN tunnels :
            tunnels[j].id = tunnels[i].id /\ tunnels'[i].iface = tunnels[j].iface
  BY <1>1, <1>6, <1>9
<1>11. Unique'
  <2>. SUFFICES ASSUME ~renamed', NEW i \in DOMAIN tunnels, NEW j \in DOMAIN tunnels,
                       tunnels[i].id # tunnels[j].id,
                       {tunnels'[i].iface, tunnels'[j].iface} \subseteq Numbered
                PROVE  tunnels'[i].iface # tunnels'[j].iface
    BY <1>6 DEF Unique
  <2>1. PICK k \in DOMAIN tunnels :
            tunnels[k].id = tunnels[i].id /\ tunnels'[i].iface = tunnels[k].iface
    BY <1>10
  <2>2. PICK l \in DOMAIN tunnels :
            tunnels[l].id = tunnels[j].id /\ tunnels'[j].iface = tunnels[l].iface
    BY <1>10
  <2>. QED
    BY <1>9, <2>1, <2>2 DEF IInv, Unique
<1>12. KeepsInterfaces
  <2>. SUFFICES ASSUME NEW x \in Ids, Known(x), ~renamed'
                PROVE  /\ IfacesOf(x, tunnels') # {}
                       /\ IfacesOf(x, tunnels') \subseteq IfacesOf(x, tunnels)
    BY DEF KeepsInterfaces
  <2>1. PICK k \in DOMAIN tunnels : tunnels[k].id = x
    BY DEF Known
  <2>2. tunnels'[k].iface \in IfacesOf(x, tunnels')
    BY <1>6, <2>1 DEF IfacesOf
  <2>3. ASSUME NEW iface \in IfacesOf(x, tunnels') PROVE iface \in IfacesOf(x, tunnels)
    <3>1. PICK i \in DOMAIN tunnels : tunnels[i].id = x /\ tunnels'[i].iface = iface
      BY <1>6 DEF IfacesOf
    <3>. QED
      BY <1>10, <3>1 DEF IfacesOf
  <2>. QED
    BY <2>2, <2>3
<1>. QED
  BY <1>7, <1>8, <1>11, <1>12 DEF IInv

(* So does everything that leaves no tunnel active.                         *)
LEMMA ClearStep ==
  ASSUME IInv, Clear
  PROVE  IInv' /\ KeepsInterfaces
<1>1. /\ tunnels' \in Seq(TunnelProfiles) /\ DOMAIN tunnels' = DOMAIN tunnels
      /\ \A i \in DOMAIN tunnels :
            /\ tunnels'[i].id = tunnels[i].id /\ tunnels'[i].missing = tunnels[i].missing
            /\ tunnels'[i].iface = tunnels[i].iface
            /\ tunnels'[i].active = (tunnels[i].id = None)
  BY FlagsSet DEF Clear, IInv, TypeOK
<1>2. active' = None /\ renamed' = renamed
  BY DEF Clear
<1>3. TypeOK'
  BY <1>1, <1>2 DEF IInv, TypeOK
<1>4. FlagsFollowActive'
  BY <1>1, <1>2 DEF FlagsFollowActive
<1>5. Unique'
  BY <1>1, <1>2 DEF IInv, Unique
<1>6. KeepsInterfaces
  BY <1>1, <1>2 DEF KeepsInterfaces, IfacesOf, Known
<1>. QED
  BY <1>3, <1>4, <1>5, <1>6 DEF IInv

(* As many addresses as names: two numbered interfaces have two addresses.  *)
LEMMA AddressesDiffer ==
  ASSUME NEW x \in Numbered, NEW y \in Numbered, x # y
  PROVE  TunAddress(x) # TunAddress(y)
<1>1. ASSUME NEW n \in Numbered PROVE TunAddress(n) = n
  <2>1. n \in Nat /\ n < Addresses /\ Addresses \in Nat
    BY ConstantsAssumption DEF Numbered
  <2>2. n % Addresses = n
    BY <2>1
  <2>. QED
    BY <2>2 DEF TunAddress, InterfaceIndex
<1>. QED
  BY <1>1

(* IInv holds in every state.                                               *)
THEOREM Invariance == Spec => []IInv
<1>1. Init => IInv
  <2>. SUFFICES ASSUME Init PROVE IInv
    OBVIOUS
  <2>1. tunnels \in Seq(TunnelProfiles) /\ DOMAIN tunnels = {}
    BY DEF Init
  <2>. QED
    BY <2>1 DEF Init, IInv, TypeOK, FlagsFollowActive, Unique
<1>2. IInv /\ [Next]_vars => IInv'
  <2>. SUFFICES ASSUME IInv, [Next]_vars PROVE IInv'
    OBVIOUS
  <2>1. CASE UNCHANGED vars
    BY <2>1 DEF vars, IInv, TypeOK, FlagsFollowActive, Unique
  <2>. QED
    BY <2>1, RefreshStep, ActivateStep, ClearStep DEF Next
<1>. QED
  BY <1>1, <1>2, PTL DEF Spec

(* Every tunnel of the list has an identifier and a name.                   *)
THEOREM TypeCorrect == Spec => []TypeOK
<1>1. IInv => TypeOK
  BY DEF IInv
<1>. QED
  BY <1>1, Invariance, PTL

(* The flags and the active tunnel name the same tunnel, and one that is    *)
(* not missing, after any sequence of subscriptions, also those that name a *)
(* profile twice.                                                           *)
THEOREM FlagsAgree == Spec => []FlagsFollowActive
<1>1. IInv => FlagsFollowActive
  BY DEF IInv
<1>. QED
  BY <1>1, Invariance, PTL

(* No two tunnels share a numbered interface or its TUN address, however    *)
(* often profiles disappear, come back or are repeated, as long as every    *)
(* client opened the device it was told to.                                 *)
THEOREM InterfacesAreUnique == Spec => []InterfacesUnique
<1>1. IInv => InterfacesUnique
  BY AddressesDiffer DEF IInv, Unique, InterfacesUnique
<1>. QED
  BY <1>1, Invariance, PTL

(* Under the same condition no step forgets a tunnel or gives it another    *)
(* interface.                                                               *)
THEOREM InterfacesStay == Spec => InterfacesKept
<1>1. IInv /\ [Next]_vars => [KeepsInterfaces]_vars
  BY RefreshStep, ActivateStep, ClearStep DEF Next
<1>. QED
  BY <1>1, Invariance, PTL DEF Spec, InterfacesKept, KeepsInterfaces

(* One of a set of entries is before all the others, or equal to them.      *)
LEMMA FirstEntry ==
  ASSUME NEW entries, NEW S, S # {}, \A k \in S : entries[k] \in TunnelProfiles
  PROVE  \E k \in S : \A j \in S : ~Before(entries[j], entries[k])
<1>1. \A k \in S : Rank[entries[k].id] \in Nat /\ entries[k].missing \in BOOLEAN
  BY ConstantsAssumption DEF TunnelProfiles
<1>2. ASSUME NEW T \in SUBSET S, T # {}
      PROVE  \E k \in T : \A j \in T : Rank[entries[k].id] <= Rank[entries[j].id]
  <2>. DEFINE ranks == {Rank[entries[k].id] : k \in T}
  <2>1. ranks \in SUBSET Nat /\ ranks # {}
    BY <1>1, <1>2
  <2>2. PICK m \in ranks : \A x \in ranks : m <= x
    <3>. HIDE DEF ranks
    <3>. QED
      BY <2>1, Least
  <2>. QED
    BY <2>2
<1>. DEFINE P == {k \in S : ~entries[k].missing}
<1>3. CASE P # {}
  <2>1. PICK k \in P : \A j \in P : Rank[entries[k].id] <= Rank[entries[j].id]
    BY <1>2, <1>3
  <2>2. ASSUME NEW j \in S PROVE ~Before(entries[j], entries[k])
    <3>1. CASE j \in P
      BY <1>1, <2>1, <3>1 DEF Before
    <3>2. CASE j \notin P
      BY <1>1, <3>2 DEF Before
    <3>. QED
      BY <3>1, <3>2
  <2>. QED
    BY <2>2
<1>4. CASE P = {}
  <2>1. PICK k \in S : \A j \in S : Rank[entries[k].id] <= Rank[entries[j].id]
    BY <1>2
  <2>2. \A j \in S : entries[j].missing = entries[k].missing
    BY <1>1, <1>4
  <2>. QED
    BY <1>1, <2>1, <2>2 DEF Before
<1>. QED
  BY <1>3, <1>4

(* Entries can be arranged as the comparison of sort.Slice demands.         *)
LEMMA Sortable ==
  ASSUME NEW entries, IsFiniteSet(DOMAIN entries),
         \A k \in DOMAIN entries : entries[k] \in TunnelProfiles
  PROVE  Sorted(entries) # {}
<1>. DEFINE Arranges(f, S, m) ==
                /\ f \in [1 .. m -> S]
                /\ \A i, j \in 1 .. m : i # j => f[i] # f[j]
                /\ \A i, j \in 1 .. m : i < j => ~Before(entries[f[j]], entries[f[i]])
            T == {m \in Nat : \E S \in SUBSET DOMAIN entries :
                    IsFiniteSet(S) /\ Cardinality(S) = m /\ ~ \E f : Arranges(f, S, m)}
<1>1. T = {}
  <2>. SUFFICES ASSUME T # {} PROVE FALSE
    OBVIOUS
  <2>1. T \in SUBSET Nat
    OBVIOUS
  <2>2. PICK m \in T : \A k \in T : m <= k
    <3>. HIDE DEF T
    <3>. QED
      BY <2>1, Least
  <2>3. PICK S \in SUBSET DOMAIN entries :
          IsFiniteSet(S) /\ Cardinality(S) = m /\ ~ \E f : Arranges(f, S, m)
    BY <2>2
  <2>4. m \in Nat
    BY <2>1, <2>2
  <2>5. S # {}
    <3>. SUFFICES ASSUME S = {} PROVE FALSE
      OBVIOUS
    <3>. DEFINE e == [i \in 1 .. m |-> i]
    <3>1. m = 0
      BY <2>3, FS_EmptySet
    <3>2. 1 .. m = {}
      BY <3>1
    <3>3. Arranges(e, S, m)
      BY <3>2
    <3>. QED
      BY <2>3, <3>3
  <2>6. PICK first \in S : \A j \in S : ~Before(entries[j], entries[first])
    BY <2>5, FirstEntry
  <2>. DEFINE rest == S \ {first}
  <2>7. IsFiniteSet(rest) /\ Cardinality(rest) = m - 1
    BY <2>3, FS_RemoveElement
  <2>8. m - 1 \in Nat
    BY <2>7, FS_CardinalityType
  <2>9. m - 1 \notin T
    BY <2>2, <2>4
  <2>10. PICK f : Arranges(f, rest, m - 1)
    <3>1. rest \in SUBSET DOMAIN entries
      OBVIOUS
    <3>. HIDE DEF rest, Arranges
    <3>. QED
      BY <2>7, <2>8, <2>9, <3>1
  <2>. DEFINE g == [i \in 1 .. m |-> IF i = 1 THEN first ELSE f[i - 1]]
  <2>11. \A i \in 1 .. m : i # 1 => i - 1 \in 1 .. m - 1
    BY <2>4
  <2>12. \A i \in 1 .. m : g[i] = IF i = 1 THEN first ELSE f[i - 1]
    OBVIOUS
  <2>13. g \in [1 .. m -> S]
    BY <2>10, <2>11
  <2>. HIDE DEF g
  <2>14. ASSUME NEW i \in 1 .. m, NEW j \in 1 .. m, i # j PROVE g[i] # g[j]
    <3>1. CASE i = 1 \/ j = 1
      BY <2>10, <2>11, <2>12, <2>14, <3>1
    <3>2. CASE i # 1 /\ j # 1
      <4>1. i - 1 \in 1 .. m - 1 /\ j - 1 \in 1 .. m - 1 /\ i - 1 # j - 1
        BY <2>4, <2>11, <2>14, <3>2
      <4>. QED
        BY <2>10, <2>12, <3>2, <4>1
    <3>. QED
      BY <3>1, <3>2
  <2>15. ASSUME NEW i \in 1 .. m, NEW j \in 1 .. m, i < j
         PROVE  ~Before(entries[g[j]], entries[g[i]])
    <3>1. CASE i = 1
      BY <2>6, <2>12, <2>13, <3>1
    <3>2. CASE i # 1
      <4>1. /\ i - 1 \in 1 .. m - 1 /\ j - 1 \in 1 .. m - 1 /\ i - 1 < j - 1
            /\ i # 1 /\ j # 1
        BY <2>4, <2>11, <2>15, <3>2
      <4>. QED
        BY <2>10, <2>12, <4>1
    <3>. QED
      BY <3>1, <3>2
  <2>16. Arranges(g, S, m)
    BY <2>13, <2>14, <2>15
  <2>. QED
    BY <2>3, <2>16
<1>. DEFINE n == Cardinality(DOMAIN entries)
<1>2. n \in Nat
  BY FS_CardinalityType
<1>3. PICK order : Arranges(order, DOMAIN entries, n)
  <2>. HIDE DEF Arranges
  <2>. QED
    BY <1>1, <1>2
<1>. DEFINE list == [i \in DOMAIN order |-> entries[order[i]]]
<1>4. order \in SetToSeqs(DOMAIN entries)
  BY <1>3 DEF SetToSeqs
<1>5. DOMAIN list = 1 .. n /\ \A i \in 1 .. n : list[i] = entries[order[i]]
  BY <1>3
<1>6. \A i, j \in DOMAIN list : i < j => ~Before(list[j], list[i])
  BY <1>3, <1>5
<1>7. list \in Sorted(entries)
  BY <1>4, <1>6 DEF Sorted
<1>. QED
  BY <1>7

(* mergeProfiles always gives a list: the comparison can be satisfied,      *)
(* whatever is merged into whatever list, so that no state is left out      *)
(* where the theorems above speak of every result of a merge.               *)
THEOREM MergeGivesAList ==
    Spec => [](\A fresh \in Seq(Ids), devices \in SUBSET Numbered, second \in 0 .. MaxSeconds :
                    MergeProfiles(fresh, devices, second) # {})
<1>1. ASSUME TypeOK, NEW fresh \in Seq(Ids), NEW devices \in SUBSET Numbered,
             NEW second \in 0 .. MaxSeconds
      PROVE  MergeProfiles(fresh, devices, second) # {}
  <2>. DEFINE entries == Merged(fresh, devices, second)
  <2>1. Len(fresh) \in Nat /\ fresh \in [1 .. Len(fresh) -> Ids] /\ Len(tunnels) \in Nat
    BY <1>1 DEF TypeOK
  <2>2. /\ DOMAIN entries \subseteq 1 .. Len(fresh) + Len(tunnels)
        /\ Merges(entries, fresh)
    BY <1>1, <2>1, MergedEntries
  <2>. HIDE DEF entries
  <2>3. IsFiniteSet(DOMAIN entries)
    <3>1. IsFiniteSet(1 .. Len(fresh) + Len(tunnels))
      BY <2>1, FS_Interval
    <3>. QED
      BY <2>2, <3>1, FS_Subset
  <2>4. \A k \in DOMAIN entries : entries[k] \in TunnelProfiles
    BY <2>2 DEF Merges
  <2>. QED
    BY <2>3, <2>4, Sortable DEF MergeProfiles, entries
<1>2. IInv => \A fresh \in Seq(Ids), devices \in SUBSET Numbered, second \in 0 .. MaxSeconds :
                    MergeProfiles(fresh, devices, second) # {}
  BY <1>1 DEF IInv
<1>. QED
  BY <1>2, Invariance, PTL

=============================================================================
