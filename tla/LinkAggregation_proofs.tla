----------------------- MODULE LinkAggregation_proofs -----------------------
(***************************************************************************)
(* Proofs about LinkAggregation, for every set of ports and any number of  *)
(* hash slots: the hash map's arithmetic first, then the inductive         *)
(* invariant of the three tables, the partition of the ports that they     *)
(* implement, and how evenly a group's slots are shared.                   *)
(***************************************************************************)
EXTENDS LinkAggregation, FiniteSetTheorems, WellFoundedInduction, TLAPS

-----------------------------------------------------------------------------
(* A set of natural numbers has a least element: the least initial segment   *)
(* 0 .. n, for n in the set, is the one of that element.                     *)
LEMMA LeastElement ==
  ASSUME NEW S \in SUBSET Nat, S # {}
  PROVE  \E m \in S : \A k \in S : m <= k
<1> DEFINE Segments == {0 .. n : n \in S}
<1>1. Segments \subseteq FiniteSubsetsOf(Nat)
  <2>1. ASSUME NEW n \in S  PROVE 0 .. n \in SUBSET Nat /\ IsFiniteSet(0 .. n)
    BY FS_Interval
  <2>2. QED
    BY <2>1 DEF FiniteSubsetsOf
<1>2. PICK I \in Segments : \A J \in Segments : ~ (<<J, I>> \in StrictSubsetOrdering(Nat))
  <2>1. Segments # {}
    OBVIOUS
  <2>2. IsWellFoundedOn(StrictSubsetOrdering(Nat), FiniteSubsetsOf(Nat))
    BY FS_StrictSubsetOrderingWellFounded
  <2> HIDE DEF Segments
  <2>3. QED
    BY <1>1, <2>1, <2>2, WFMin
<1>3. PICK m \in S : I = 0 .. m
  BY <1>2
<1>4. ASSUME NEW k \in S, k < m  PROVE FALSE
  <2>1. 0 .. k \in SUBSET Nat /\ 0 .. m \in SUBSET Nat
    OBVIOUS
  <2>2. 0 .. k \subseteq 0 .. m /\ 0 .. k # 0 .. m
    <3>1. m \in 0 .. m /\ m \notin 0 .. k
      BY <1>4
    <3>2. QED
      BY <1>4, <3>1
  <2>3. <<0 .. k, 0 .. m>> \in StrictSubsetOrdering(Nat)
    BY <2>1, <2>2 DEF StrictSubsetOrdering
  <2>4. QED
    BY <1>2, <1>3, <2>3
<1>5. QED
  BY <1>4

(* A set of ports has a lowest one.                                          *)
LEMMA LowestInSet ==
  ASSUME NEW M \in SUBSET Ports, M # {}
  PROVE  Lowest(M) \in M
BY LeastElement, PortsAssumption DEF Lowest

Below(M, p) == {q \in M : q < p}

(* port_member[] is filled: of n ports there is one with i others below it,  *)
(* for every i < n.  The least i without one would have a predecessor's port *)
(* and, among the ports above that, a lowest one that does for i.            *)
LEMMA MemberRanked ==
  ASSUME NEW M \in SUBSET Ports, NEW i \in Nat, i < Cardinality(M)
  PROVE  \E p \in M : Cardinality(Below(M, p)) = i
<1>m. M \in SUBSET Nat /\ IsFiniteSet(M) /\ Cardinality(M) \in Nat
  BY PortsAssumption, FS_Subset, FS_CardinalityType
<1>n. \A p, q \in M : p \in Nat /\ q \in Nat /\ (p <= q <=> ~ (q < p)) /\ (p < q => p # q)
  BY <1>m
<1> DEFINE Bad == {j \in Nat : j < Cardinality(M) /\ \A p \in M : Cardinality(Below(M, p)) # j}
<1>f. \A p \in M : IsFiniteSet(Below(M, p))
  BY <1>m, FS_Subset DEF Below
<1>1. ASSUME Bad # {}  PROVE FALSE
  <2>1. PICK j \in Bad : \A k \in Bad : j <= k
    <3>1. Bad \in SUBSET Nat
      OBVIOUS
    <3> HIDE DEF Bad
    <3>2. QED
      BY <1>1, <3>1, LeastElement
  <2>2. CASE j = 0
    <3>1. PICK p \in M : \A q \in M : p <= q
      <4>1. M # {}
        BY <2>1, <2>2, FS_EmptySet
      <4>2. QED
        BY <1>m, <4>1, LeastElement
    <3>2. Below(M, p) = {}
      BY <1>n, <3>1 DEF Below
    <3>3. QED
      BY <2>1, <2>2, <3>2, FS_EmptySet
  <2>3. CASE j > 0
    <3>1. j - 1 \in Nat /\ j - 1 < Cardinality(M) /\ j - 1 \notin Bad
      BY <1>m, <2>1, <2>3
    <3>2. PICK p \in M : Cardinality(Below(M, p)) = j - 1
      BY <3>1
    <3> DEFINE Upto  == Below(M, p) \cup {p}
               Above == {q \in M : q > p}
    <3>3. IsFiniteSet(Upto) /\ Cardinality(Upto) = j
      <4>1. p \notin Below(M, p)
        BY <1>m DEF Below
      <4>2. QED
        <5>1. Cardinality(Upto) = (j - 1) + 1
          BY <1>f, <3>2, <4>1, FS_AddElement
        <5>2. IsFiniteSet(Upto)
          BY <1>f, FS_AddElement
        <5>3. QED
          BY <2>1, <5>1, <5>2
    <3>4. Above # {}
      <4>1. M \subseteq Upto \cup Above
        BY <1>m DEF Below
      <4>2. Upto \subseteq M
        BY DEF Below
      <4>3. Upto # M
        BY <1>m, <2>1, <3>3
      <4>4. QED
        BY <4>1, <4>2, <4>3
    <3>5. PICK r \in Above : \A q \in Above : r <= q
      <4>1. Above \in SUBSET Nat
        BY <1>m
      <4> HIDE DEF Above
      <4>2. QED
        BY <3>4, <4>1, LeastElement
    <3>6. Below(M, r) = Upto
      <4>1. \A q \in M : q < p => q < r
        BY <1>n, <3>5
      <4>2. \A q \in M : q < r => ~ (q > p)
        BY <1>n, <3>5
      <4>3. \A q \in M : q < r => q < p \/ q = p
        BY <1>n, <4>2
      <4>4. QED
        BY <1>n, <3>5, <4>1, <4>3 DEF Below
    <3>7. QED
      BY <2>1, <3>3, <3>5, <3>6
  <2>4. QED
    BY <2>1, <2>2, <2>3
<1>2. QED
  BY <1>1

LEMMA MemberExists ==
  ASSUME NEW M \in SUBSET Ports, NEW i \in Nat, i < Cardinality(M)
  PROVE  Member(M, i) \in M
BY MemberRanked DEF Member, Below

(* Every slot has an owner among the members: slots below share * cnt are    *)
(* sliced, and fewer than cnt are left over.                                 *)
LEMMA OwnerIsMember ==
  ASSUME NEW M \in SUBSET Ports, M # {}, NEW h \in Slot
  PROVE  Owner(M, h) \in M
<1> DEFINE cnt   == Cardinality(M)
           share == Slots \div cnt
<1>1. cnt \in Nat /\ cnt > 0
  <2>1. IsFiniteSet(M)
    BY PortsAssumption, FS_Subset
  <2>2. cnt \in Nat /\ cnt # 0
    BY <2>1, FS_CardinalityType, FS_EmptySet
  <2>3. QED
    BY <2>2
<1>2. h \in Nat /\ Slots \in Nat /\ h < Slots
  BY SlotsAssumption DEF Slot
<1> HIDE DEF cnt
<1>3. share \in Nat /\ share * cnt \in Nat /\ Slots - share * cnt \in 0 .. cnt - 1
  BY <1>1, <1>2
<1> HIDE DEF share
<1>4. CASE h < share * cnt
  <2>1. share > 0
    BY <1>1, <1>2, <1>3, <1>4
  <2>2. h \div share \in Nat /\ h \div share < cnt
    BY <1>1, <1>2, <1>3, <1>4, <2>1
  <2>3. QED
    BY <1>4, <2>2, MemberExists DEF Owner, cnt, share
<1>5. CASE ~ (h < share * cnt)
  <2>1. h - share * cnt \in Nat /\ h - share * cnt < cnt
    BY <1>1, <1>2, <1>3, <1>5
  <2>2. QED
    BY <1>5, <2>1, MemberExists DEF Owner, cnt, share
<1>6. QED
  BY <1>4, <1>5

(* After the hash map is set for M, each slot has exactly one port of M and   *)
(* what it had of other ports.                                                *)
LEMMA HashMapSetServes ==
  ASSUME NEW weight, NEW M \in SUBSET Ports, M # {}, NEW h \in Slot
  PROVE  \E o \in M : HashMapSet(weight, M)[h] = (weight[h] \ M) \cup {o}
BY OwnerIsMember DEF HashMapSet

-----------------------------------------------------------------------------
(* The inductive invariant, of a client that keeps the rules on a bus that   *)
(* works.  A port that a group lists sends to it, or is listed there alone,  *)
(* a leftover of its former own group; a group that lists ports lists its    *)
(* leader; a port that is listed at all is listed where it sends; once link  *)
(* aggregation is on, every port is listed.                                  *)

WellFormed(t) ==
  /\ t = [la |-> t.la, members |-> t.members, weight |-> t.weight]
  /\ t.la \in [Ports -> Ports \cup {0}]
  /\ t.members \in [Ports -> SUBSET Ports]
  /\ t.weight \in [Slot -> SUBSET Ports]

Alone(t, p, g) == p = g /\ t.members[g] = {p}

SendsOrLeftover(t) == \A g \in Ports : \A p \in t.members[g] : t.la[p] = g \/ Alone(t, p, g)
LeaderListed(t)    == \A g \in Ports : t.members[g] # {} => g \in t.members[g]
Listed(t, p)       == \E g \in Ports : p \in t.members[g]
ListedIn(t, p)     == t.la[p] \in Ports /\ p \in t.members[t.la[p]]
ListedWhereSends(t) == \A p \in Ports : Listed(t, p) => ListedIn(t, p)

Consistent(t) ==
  WellFormed(t) /\ SendsOrLeftover(t) /\ LeaderListed(t) /\ ListedWhereSends(t)

Heads(t, g) == g \in t.members[g] /\ t.la[g] = g
Served(t, g, bare) ==
  \A h \in Slot : \/ g \in bare /\ t.weight[h] \cap t.members[g] = {}
                  \/ \E p \in t.members[g] : t.weight[h] \cap t.members[g] = {p}
AllServed(t, bare) == \A g \in Ports : Heads(t, g) => Served(t, g, bare)

IInv == /\ Consistent(tab)
        /\ enable \in BOOLEAN /\ factor \in Factors /\ cleared \in SUBSET Ports
        /\ enable => \A p \in Ports : Listed(tab, p)
        /\ AllServed(tab, cleared)

(* The members of a group that its own port leads all send to it.            *)
LEMMA MembersSend ==
  ASSUME NEW t, Consistent(t), NEW g \in Ports, Heads(t, g)
  PROVE  \A p \in t.members[g] : t.la[p] = g
BY DEF Consistent, SendsOrLeftover, Alone, Heads

(* The group a port is listed in is led by its own port.                     *)
LEMMA ListedInLed ==
  ASSUME NEW t, Consistent(t), NEW p \in Ports, NEW g \in Ports,
         p \in t.members[g], t.la[p] = g
  PROVE  Heads(t, g)
BY DEF Consistent, WellFormed, SendsOrLeftover, LeaderListed, Alone, Heads

(* What each helper computes, as facts about the entries of the tables.      *)
LEMMA One2oneEntries ==
  ASSUME NEW t, WellFormed(t), NEW P \in SUBSET Ports
  PROVE  /\ WellFormed(One2one(t, P))
         /\ \A p \in Ports : One2one(t, P).la[p] = IF p \in P THEN p ELSE t.la[p]
         /\ \A p \in Ports : One2one(t, P).members[p] = IF p \in P THEN {p} ELSE t.members[p]
         /\ \A h \in Slot : One2one(t, P).weight[h] = t.weight[h] \cup P
<1>1. One2one(t, P).la \in [Ports -> Ports \cup {0}]
  BY DEF One2one, WellFormed
<1>2. One2one(t, P).members \in [Ports -> SUBSET Ports]
  BY DEF One2one, WellFormed
<1>3. One2one(t, P).weight \in [Slot -> SUBSET Ports]
  BY DEF One2one, WellFormed
<1>4. QED
  BY <1>1, <1>2, <1>3 DEF One2one, WellFormed

LEMMA HashMapSetEntries ==
  ASSUME NEW weight \in [Slot -> SUBSET Ports], NEW M \in SUBSET Ports
  PROVE  /\ HashMapSet(weight, M) \in [Slot -> SUBSET Ports]
         /\ \A h \in Slot : \/ M = {} /\ HashMapSet(weight, M)[h] = weight[h]
                            \/ \E o \in M : HashMapSet(weight, M)[h] = (weight[h] \ M) \cup {o}
<1>1. CASE M = {}
  BY <1>1 DEF HashMapSet
<1>2. CASE M # {}
  <2>1. \A h \in Slot : Owner(M, h) \in M
    BY <1>2, OwnerIsMember
  <2>2. QED
    BY <1>2, <2>1 DEF HashMapSet
<1>3. QED
  BY <1>1, <1>2

LEMMA GroupSetEntries ==
  ASSUME NEW t, WellFormed(t), NEW g \in Ports, NEW M \in SUBSET Ports, M # {}
  PROVE  /\ WellFormed(GroupSet(t, g, M))
         /\ \A p \in Ports : GroupSet(t, g, M).la[p] = IF p \in M THEN g ELSE t.la[p]
         /\ \A p \in Ports : GroupSet(t, g, M).members[p] = IF p = g THEN M ELSE t.members[p]
         /\ \A h \in Slot : \E o \in M :
              GroupSet(t, g, M).weight[h] = (t.weight[h] \ M) \cup {o}
<1>1. GroupSet(t, g, M).la \in [Ports -> Ports \cup {0}]
  BY DEF GroupSet, WellFormed
<1>2. GroupSet(t, g, M).members \in [Ports -> SUBSET Ports]
  BY DEF GroupSet, WellFormed
<1>3. GroupSet(t, g, M).weight \in [Slot -> SUBSET Ports]
  BY HashMapSetEntries DEF GroupSet, WellFormed
<1>4. \A h \in Slot : \E o \in M : GroupSet(t, g, M).weight[h] = (t.weight[h] \ M) \cup {o}
  BY HashMapSetEntries DEF GroupSet, WellFormed
<1>5. QED
  BY <1>1, <1>2, <1>3, <1>4 DEF GroupSet, WellFormed

-----------------------------------------------------------------------------
(* Making single ports of a set P that shares no group with the others.      *)
LEMMA SinglesConsistent ==
  ASSUME NEW t, Consistent(t), NEW P \in SUBSET Ports, NEW bare \in SUBSET Ports,
         AllServed(t, bare),
         \A g \in Ports \ P : t.members[g] \cap P = {},
         \A g \in P : t.members[g] \subseteq P
  PROVE  /\ Consistent(One2one(t, P))
         /\ AllServed(One2one(t, P), bare \ P)
         /\ \A p \in Ports : p \in P \/ Listed(t, p) => Listed(One2one(t, P), p)
<1> DEFINE u == One2one(t, P)
<1>1. /\ WellFormed(u)
      /\ \A p \in Ports : u.la[p] = IF p \in P THEN p ELSE t.la[p]
      /\ \A p \in Ports : u.members[p] = IF p \in P THEN {p} ELSE t.members[p]
      /\ \A h \in Slot : u.weight[h] = t.weight[h] \cup P
  BY One2oneEntries DEF Consistent
<1> HIDE DEF u
<1>t. t.members \in [Ports -> SUBSET Ports]
  BY DEF Consistent, WellFormed
<1>2. ASSUME NEW g \in Ports, NEW p \in u.members[g]
      PROVE  u.la[p] = g \/ Alone(u, p, g)
  <2>1. CASE g \in P
    <3>1. u.la[g] = g /\ u.members[g] = {g}
      BY <1>1, <2>1
    <3>2. p = g
      BY <3>1
    <3>3. QED
      BY <3>1, <3>2
  <2>2. CASE g \notin P
    <3>1. p \in t.members[g] /\ p \in Ports /\ p \notin P /\ u.members[g] = t.members[g]
      BY <1>1, <1>t, <2>2
    <3>2. t.la[p] = g \/ Alone(t, p, g)
      BY <3>1 DEF Consistent, SendsOrLeftover
    <3>3. QED
      BY <1>1, <3>1, <3>2 DEF Alone
  <2>3. QED
    BY <2>1, <2>2
<1>3. LeaderListed(u)
  BY <1>1 DEF Consistent, LeaderListed
<1>4. ASSUME NEW p \in P  PROVE Listed(u, p) /\ ListedIn(u, p)
  <2>1. u.la[p] = p /\ u.members[p] = {p}
    BY <1>1
  <2>2. QED
    BY <2>1 DEF Listed, ListedIn
<1>5. ASSUME NEW p \in Ports \ P, NEW g \in Ports, p \in u.members[g]
      PROVE  p \in t.members[g]
  <2>1. g \notin P
    <3>1. ASSUME g \in P  PROVE FALSE
      <4>1. u.members[g] = {g}
        BY <1>1, <3>1
      <4>2. QED
        BY <1>5, <3>1, <4>1
    <3>2. QED
      BY <3>1
  <2>2. QED
    BY <1>1, <1>5, <2>1
<1>6. ASSUME NEW p \in Ports \ P, Listed(t, p)
      PROVE  ListedIn(u, p) /\ Listed(u, p)
  <2>1. t.la[p] \in Ports /\ p \in t.members[t.la[p]]
    BY <1>6 DEF Consistent, ListedWhereSends, ListedIn
  <2>2. t.la[p] \notin P
    BY <2>1
  <2>3. u.la[p] = t.la[p] /\ u.members[t.la[p]] = t.members[t.la[p]]
    BY <1>1, <2>1, <2>2
  <2>4. QED
    BY <2>1, <2>3 DEF ListedIn, Listed
<1>7. ListedWhereSends(u)
  BY <1>4, <1>5, <1>6 DEF ListedWhereSends, Listed
<1>8. ASSUME NEW g \in Ports, Heads(u, g)  PROVE Served(u, g, bare \ P)
  <2>1. CASE g \in P
    <3>1. u.members[g] = {g}
      BY <1>1, <2>1
    <3>2. ASSUME NEW h \in Slot  PROVE u.weight[h] \cap {g} = {g}
      <4>1. u.weight[h] = t.weight[h] \cup P
        BY <1>1
      <4>2. QED
        BY <2>1, <4>1
    <3>3. QED
      BY <3>1, <3>2 DEF Served
  <2>2. CASE g \notin P
    <3>1. Heads(t, g) /\ u.members[g] = t.members[g]
      BY <1>1, <1>8, <2>2 DEF Heads
    <3>2. \A h \in Slot : u.weight[h] \cap u.members[g] = t.weight[h] \cap t.members[g]
      BY <1>1, <2>2, <3>1
    <3>3. QED
      BY <2>2, <3>1, <3>2 DEF AllServed, Served
  <2>3. QED
    BY <2>1, <2>2
<1>9. QED
  BY <1>1, <1>2, <1>3, <1>4, <1>6, <1>7, <1>8 DEF Consistent, SendsOrLeftover, AllServed, u

(* Making a group of a set M that no other group has a claim to; nothing is  *)
(* asked of what the tables say of the group itself.                         *)
LEMMA GroupConsistent ==
  ASSUME NEW t, WellFormed(t), NEW g \in Ports, NEW M \in SUBSET Ports, g \in M,
         NEW bare \in SUBSET Ports,
         \A k \in Ports \ {g} : \A p \in t.members[k] : t.la[p] = k \/ Alone(t, p, k),
         \A k \in Ports \ {g} : t.members[k] # {} => k \in t.members[k],
         \A k \in Ports \ {g} : t.members[k] \cap M # {} => t.members[k] = {k},
         \A k \in Ports \ M : Heads(t, k) => Served(t, k, bare) /\ t.members[k] \cap M = {},
         \A k \in Ports \ {g} : \A p \in t.members[k] \ M : ListedIn(t, p) /\ t.la[p] # g
  PROVE  /\ Consistent(GroupSet(t, g, M))
         /\ AllServed(GroupSet(t, g, M), bare)
         /\ \A p \in M : Listed(GroupSet(t, g, M), p)
         /\ \A p \in Ports, k \in Ports \ {g} :
              p \in t.members[k] => Listed(GroupSet(t, g, M), p)
<1> DEFINE u == GroupSet(t, g, M)
<1>1. /\ WellFormed(u)
      /\ \A p \in Ports : u.la[p] = IF p \in M THEN g ELSE t.la[p]
      /\ \A p \in Ports : u.members[p] = IF p = g THEN M ELSE t.members[p]
      /\ \A h \in Slot : \E o \in M : u.weight[h] = (t.weight[h] \ M) \cup {o}
  BY GroupSetEntries
<1> HIDE DEF u
<1>t. t.members \in [Ports -> SUBSET Ports]
  BY DEF WellFormed
<1>2. ASSUME NEW k \in Ports, NEW p \in u.members[k]
      PROVE  u.la[p] = k \/ Alone(u, p, k)
  <2>1. CASE k = g
    BY <1>1, <2>1
  <2>2. CASE k # g
    <3>1. p \in t.members[k] /\ p \in Ports /\ u.members[k] = t.members[k]
      BY <1>1, <1>t, <2>2
    <3>2. CASE p \in M
      BY <2>2, <3>1, <3>2 DEF Alone
    <3>3. CASE p \notin M
      <4>1. t.la[p] = k \/ Alone(t, p, k)
        BY <2>2, <3>1
      <4>2. QED
        BY <1>1, <3>1, <3>3, <4>1 DEF Alone
    <3>4. QED
      BY <3>2, <3>3
  <2>3. QED
    BY <2>1, <2>2
<1>3. LeaderListed(u)
  BY <1>1 DEF LeaderListed
<1>4. ASSUME NEW p \in Ports, NEW k \in Ports, p \in u.members[k]  PROVE ListedIn(u, p)
  <2>1. CASE p \in M
    BY <1>1, <2>1 DEF ListedIn
  <2>2. CASE p \notin M
    <3>1. k # g /\ p \in t.members[k] \ M
      BY <1>1, <1>4, <2>2
    <3>2. ListedIn(t, p) /\ t.la[p] # g
      BY <3>1
    <3>3. QED
      BY <1>1, <2>2, <3>2 DEF ListedIn
  <2>3. QED
    BY <2>1, <2>2
<1>5. ASSUME NEW k \in Ports, Heads(u, k)  PROVE Served(u, k, bare)
  <2>1. CASE k = g
    <3>1. ASSUME NEW h \in Slot  PROVE \E p \in M : u.weight[h] \cap M = {p}
      <4>1. PICK o \in M : u.weight[h] = (t.weight[h] \ M) \cup {o}
        BY <1>1
      <4>2. u.weight[h] \cap M = {o}
        BY <4>1
      <4>3. QED
        BY <4>2
    <3>2. QED
      BY <1>1, <2>1, <3>1 DEF Served
  <2>2. CASE k # g
    <3>1. k \notin M
      BY <1>1, <1>5, <2>2 DEF Heads
    <3>2. Heads(t, k) /\ u.members[k] = t.members[k]
      BY <1>1, <1>5, <2>2, <3>1 DEF Heads
    <3>3. t.members[k] \cap M = {} /\ Served(t, k, bare)
      BY <3>1, <3>2
    <3>4. ASSUME NEW h \in Slot
          PROVE  u.weight[h] \cap u.members[k] = t.weight[h] \cap t.members[k]
      <4>1. PICK o \in M : u.weight[h] = (t.weight[h] \ M) \cup {o}
        BY <1>1
      <4>2. QED
        BY <3>2, <3>3, <4>1
    <3>5. QED
      BY <3>2, <3>3, <3>4 DEF Served
  <2>3. QED
    BY <2>1, <2>2
<1>6. \A p \in M : Listed(u, p)
  BY <1>1 DEF Listed
<1>7. ASSUME NEW p \in Ports, NEW k \in Ports \ {g}, p \in t.members[k]  PROVE Listed(u, p)
  BY <1>1, <1>7 DEF Listed
<1>8. QED
  BY <1>1, <1>2, <1>3, <1>4, <1>5, <1>6, <1>7
     DEF Consistent, SendsOrLeftover, ListedWhereSends, Listed, AllServed, u

-----------------------------------------------------------------------------
(* The calls keep the invariant.  portmask_set first: port_del of a port     *)
(* that does not lead the group comes to the same.                           *)

TrunkOf(t, p)  == {g \in Ports : p \in t.members[g] /\ t.la[p] = g}
Allowed(t, g, M) ==
  \A p \in M : g \in TrunkOf(t, p) \/ \A k \in TrunkOf(t, p) : t.members[k] = {p}

LEMMA RegroupedEntries ==
  ASSUME NEW t, WellFormed(t), NEW g \in Ports, NEW M \in SUBSET Ports
  PROVE  LET left == t.members[g] \ M
             r    == Regrouped(t, g, M)
         IN  /\ WellFormed(r)
             /\ \A p \in Ports : r.la[p] = IF p \in left THEN p ELSE t.la[p]
             /\ \A p \in Ports : r.members[p] = IF p \in left THEN {p}
                                                ELSE IF p \in M \ t.members[g] THEN {}
                                                ELSE t.members[p]
             /\ \A h \in Slot : r.weight[h] = t.weight[h] \cup left
<1> DEFINE left == t.members[g] \ M
           o    == One2one(t, left)
           r    == Regrouped(t, g, M)
<1>1. left \in SUBSET Ports
  BY DEF WellFormed
<1>2. /\ WellFormed(o)
      /\ \A p \in Ports : o.la[p] = IF p \in left THEN p ELSE t.la[p]
      /\ \A p \in Ports : o.members[p] = IF p \in left THEN {p} ELSE t.members[p]
      /\ \A h \in Slot : o.weight[h] = t.weight[h] \cup left
  <2> HIDE DEF left
  <2>1. QED
    BY <1>1, One2oneEntries
<1>3. r = [o EXCEPT !.members = [p \in Ports |-> IF p \in M \ t.members[g] THEN {} ELSE @[p]]]
  BY DEF Regrouped
<1> HIDE DEF o, r
<1>4. /\ r.la = o.la /\ r.weight = o.weight
      /\ r.members = [p \in Ports |-> IF p \in M \ t.members[g] THEN {} ELSE o.members[p]]
      /\ r = [la |-> r.la, members |-> r.members, weight |-> r.weight]
  BY <1>2, <1>3 DEF WellFormed
<1>5. WellFormed(r)
  BY <1>2, <1>4 DEF WellFormed
<1>6. QED
  BY <1>2, <1>4, <1>5 DEF r

LEMMA PortmaskSetConsistent ==
  ASSUME NEW t, Consistent(t), NEW g \in Ports, NEW M \in SUBSET Ports, g \in M,
         Allowed(t, g, M), NEW bare \in SUBSET Ports, AllServed(t, bare)
  PROVE  LET u == GroupSet(Regrouped(t, g, M), g, M)
         IN  /\ Consistent(u)
             /\ AllServed(u, bare \ (t.members[g] \cup M))
             /\ \A p \in Ports : Listed(t, p) => Listed(u, p)
<1> DEFINE left == t.members[g] \ M
           r    == Regrouped(t, g, M)
           u    == GroupSet(r, g, M)
           kept == bare \ (t.members[g] \cup M)
<1>1. /\ WellFormed(r)
      /\ \A p \in Ports : r.la[p] = IF p \in left THEN p ELSE t.la[p]
      /\ \A p \in Ports : r.members[p] = IF p \in left THEN {p}
                                         ELSE IF p \in M \ t.members[g] THEN {} ELSE t.members[p]
      /\ \A h \in Slot : r.weight[h] = t.weight[h] \cup left
  BY RegroupedEntries DEF Consistent
<1>t. t.members \in [Ports -> SUBSET Ports] /\ r.members \in [Ports -> SUBSET Ports]
  BY <1>1 DEF Consistent, WellFormed
<1> HIDE DEF r
<1>2. \A k \in Ports : \A p \in t.members[k] : t.la[p] = k \/ (p = k /\ t.members[k] = {p})
  BY DEF Consistent, SendsOrLeftover, Alone
<1>3. \A k \in Ports : t.members[k] # {} => k \in t.members[k]
  BY DEF Consistent, LeaderListed
\* what leaves the group was in no other
<1>4. \A k \in Ports \ left : k # g => t.members[k] \cap left = {}
  BY <1>2
\* a port of M that another group lists is that group's only port
<1>5. ASSUME NEW k \in Ports \ {g}, NEW p \in M, p \in t.members[k]
      PROVE  p = k /\ t.members[k] = {k}
  <2>1. CASE t.la[p] = k
    <3>1. k \in TrunkOf(t, p)
      BY <1>5, <2>1 DEF TrunkOf
    <3>2. g \notin TrunkOf(t, p)
      BY <2>1 DEF TrunkOf
    <3>3. t.members[k] = {p}
      BY <3>1, <3>2 DEF Allowed
    <3>4. QED
      BY <1>3, <3>3
  <2>2. CASE t.la[p] # k
    BY <1>2, <1>5, <2>2
  <2>3. QED
    BY <2>1, <2>2
<1>6. ASSUME NEW k \in Ports \ {g}, NEW p \in r.members[k]
      PROVE  /\ r.la[p] = k \/ Alone(r, p, k)
             /\ k \in r.members[k]
             /\ p \in M => r.members[k] = {k}
  <2>1. CASE k \in left
    <3>1. r.members[k] = {k} /\ r.la[k] = k
      BY <1>1, <2>1
    <3>2. QED
      BY <3>1
  <2>2. CASE k \notin left
    <3>1. p \in t.members[k] /\ r.members[k] = t.members[k] /\ p \in Ports
      BY <1>1, <1>6, <1>t, <2>2
    <3>2. p \notin left
      BY <1>4, <2>2, <3>1
    <3>3. QED
      BY <1>1, <1>2, <1>3, <1>5, <3>1, <3>2 DEF Alone
  <2>3. QED
    BY <2>1, <2>2
<1>7. ASSUME NEW k \in Ports \ M, Heads(r, k)
      PROVE  Served(r, k, kept) /\ r.members[k] \cap M = {}
  <2>1. CASE k \in left
    <3>1. r.members[k] = {k}
      BY <1>1, <2>1
    <3>2. ASSUME NEW h \in Slot  PROVE r.weight[h] \cap {k} = {k}
      <4>1. r.weight[h] = t.weight[h] \cup left
        BY <1>1
      <4>2. QED
        BY <2>1, <4>1
    <3>3. QED
      BY <3>1, <3>2 DEF Served
  <2>2. CASE k \notin left
    <3>1. Heads(t, k) /\ r.members[k] = t.members[k]
      BY <1>1, <1>7, <2>2 DEF Heads
    <3>2. t.members[k] \cap left = {}
      BY <1>4, <2>2
    <3>3. \A h \in Slot : r.weight[h] \cap r.members[k] = t.weight[h] \cap t.members[k]
      BY <1>1, <3>1, <3>2
    <3>4. Served(r, k, kept)
      BY <2>2, <3>1, <3>3 DEF AllServed, Served
    <3>5. t.members[k] \cap M = {}
      BY <1>5
    <3>6. QED
      BY <3>1, <3>4, <3>5
  <2>3. QED
    BY <2>1, <2>2
\* a port outside M that a group other than g lists is listed where it sends
<1>8. ASSUME NEW p \in Ports \ M, p \notin left, Listed(t, p)
      PROVE  ListedIn(r, p) /\ r.la[p] # g
  <2>1. t.la[p] \in Ports /\ p \in t.members[t.la[p]]
    BY <1>8 DEF Consistent, ListedWhereSends, ListedIn
  <2>2. r.la[p] = t.la[p] /\ t.la[p] # g
    BY <1>1, <1>8, <2>1
  <2>3. Heads(t, t.la[p])
    BY <2>1, ListedInLed
  <2>4. t.la[p] \notin left
    BY <1>2, <2>2, <2>3 DEF Heads
  <2>5. t.la[p] \notin M
    BY <1>5, <2>1, <2>2, <2>3 DEF Heads
  <2>6. QED
    BY <1>1, <2>1, <2>2, <2>4, <2>5 DEF ListedIn
<1>9. ASSUME NEW k \in Ports \ {g}, NEW p \in r.members[k] \ M
      PROVE  ListedIn(r, p) /\ r.la[p] # g
  <2>1. CASE p \in left
    <3>1. r.la[p] = p /\ r.members[p] = {p} /\ p \in Ports
      BY <1>1, <1>t, <2>1
    <3>2. QED
      BY <2>1, <3>1 DEF ListedIn
  <2>2. CASE p \notin left
    <3>1. k \notin left
      <4>1. ASSUME k \in left  PROVE FALSE
        <5>1. r.members[k] = {k}
          BY <1>1, <4>1
        <5>2. QED
          BY <2>2, <4>1, <5>1
      <4>2. QED
        BY <4>1
    <3>2. p \in t.members[k] /\ p \in Ports
      BY <1>1, <1>t, <3>1
    <3>3. QED
      BY <1>8, <2>2, <3>2 DEF Listed
  <2>3. QED
    BY <2>1, <2>2
<1>10. /\ Consistent(u) /\ AllServed(u, kept)
       /\ \A p \in M : Listed(u, p)
       /\ \A p \in Ports, k \in Ports \ {g} : p \in r.members[k] => Listed(u, p)
  <2>1. \A k \in Ports \ {g} : \A p \in r.members[k] : r.la[p] = k \/ Alone(r, p, k)
    BY <1>6
  <2>2. \A k \in Ports \ {g} : r.members[k] # {} => k \in r.members[k]
    BY <1>6
  <2>3. \A k \in Ports \ {g} : r.members[k] \cap M # {} => r.members[k] = {k}
    BY <1>6
  <2>4. \A k \in Ports \ {g} : \A p \in r.members[k] \ M : ListedIn(r, p) /\ r.la[p] # g
    BY <1>9
  <2>5. kept \in SUBSET Ports
    OBVIOUS
  <2> HIDE DEF kept
  <2>6. QED
    BY <1>1, <1>7, <2>1, <2>2, <2>3, <2>4, <2>5, GroupConsistent
<1>11. ASSUME NEW p \in Ports, Listed(t, p)  PROVE Listed(u, p)
  <2>1. CASE p \in M
    BY <1>10, <2>1
  <2>2. CASE p \in left
    <3>1. p \in r.members[p] /\ p # g
      BY <1>1, <2>2
    <3>2. QED
      BY <1>10, <3>1
  <2>3. CASE p \notin M /\ p \notin left
    <3>1. ListedIn(r, p) /\ r.la[p] # g
      BY <1>8, <1>11, <2>3
    <3>2. QED
      BY <1>10, <3>1 DEF ListedIn
  <2>4. QED
    BY <2>1, <2>2, <2>3
<1>12. QED
  BY <1>10, <1>11 DEF r

(* A group that its own port leads shares its ports with no other.           *)
LEMMA GroupsSeparate ==
  ASSUME NEW t, Consistent(t), NEW g \in Ports, Heads(t, g)
  PROVE  /\ t.members[g] \in SUBSET Ports
         /\ \A k \in Ports \ t.members[g] : t.members[k] \cap t.members[g] = {}
         /\ \A k \in t.members[g] : t.members[k] \subseteq t.members[g]
<1>1. t.members[g] \in SUBSET Ports
  BY DEF Consistent, WellFormed
<1>2. \A p \in t.members[g] : t.la[p] = g
  BY MembersSend
<1>3. \A k \in Ports : \A p \in t.members[k] : t.la[p] = k \/ (p = k /\ t.members[k] = {p})
  BY DEF Consistent, SendsOrLeftover, Alone
<1>4. \A k \in Ports : t.members[k] # {} => k \in t.members[k]
  BY DEF Consistent, LeaderListed
<1>5. ASSUME NEW k \in Ports \ t.members[g]  PROVE t.members[k] \cap t.members[g] = {}
  BY <1>1, <1>2, <1>3 DEF Heads
<1>6. ASSUME NEW k \in t.members[g]  PROVE t.members[k] \subseteq t.members[g]
  <2>1. CASE k = g
    BY <2>1
  <2>2. CASE k # g
    <3>1. t.members[k] # {} => t.members[k] = {k}
      BY <1>1, <1>2, <1>3, <1>4, <2>2
    <3>2. QED
      BY <3>1
  <2>3. QED
    BY <2>1, <2>2
<1>7. QED
  BY <1>1, <1>5, <1>6

LEMMA GroupClearIsSingles ==
  ASSUME NEW t, WellFormed(t), NEW g \in Ports, Heads(t, g)
  PROVE  GroupClear(t, g) = One2one(t, t.members[g])
<1> DEFINE e == [t EXCEPT !.members[g] = {}]
<1>1. /\ e.la = t.la /\ e.weight = t.weight
      /\ \A p \in Ports : p # g => e.members[p] = t.members[p]
  BY DEF WellFormed
<1> HIDE DEF e
<1>2. g \in t.members[g]
  BY DEF Heads
<1>3. [p \in Ports |-> IF p \in t.members[g] THEN {p} ELSE e.members[p]]
      = [p \in Ports |-> IF p \in t.members[g] THEN {p} ELSE t.members[p]]
  BY <1>1, <1>2
<1>4. One2one(e, t.members[g]) = One2one(t, t.members[g])
  BY <1>1, <1>3 DEF One2one
<1>5. QED
  BY <1>4 DEF GroupClear, e

LEMMA GroupDelConsistent ==
  ASSUME NEW t, Consistent(t), NEW g \in Ports, Heads(t, g),
         NEW bare \in SUBSET Ports, AllServed(t, bare)
  PROVE  LET u == GroupClear(t, g)
         IN  /\ u = One2one(t, t.members[g])
             /\ Consistent(u)
             /\ AllServed(u, bare \ t.members[g])
             /\ \A p \in Ports : Listed(t, p) => Listed(u, p)
<1>1. GroupClear(t, g) = One2one(t, t.members[g])
  BY GroupClearIsSingles DEF Consistent
<1>2. QED
  BY <1>1, GroupsSeparate, SinglesConsistent

(* port_del of the leader: the rest of the group under its lowest port.      *)
LEMMA LeaderDelConsistent ==
  ASSUME NEW t, Consistent(t), NEW g \in Ports, Heads(t, g),
         NEW bare \in SUBSET Ports, AllServed(t, bare),
         t.members[g] \ {g} # {}
  PROVE  LET rest == t.members[g] \ {g}
             u    == GroupSet(GroupClear(t, g), Lowest(rest), rest)
         IN  /\ Consistent(u)
             /\ AllServed(u, bare \ t.members[g])
             /\ \A p \in Ports : Listed(t, p) => Listed(u, p)
<1> DEFINE P    == t.members[g]
           rest == P \ {g}
           o    == GroupClear(t, g)
           c    == Lowest(rest)
           kept == bare \ P
           u    == GroupSet(o, c, rest)
<1>1. P \in SUBSET Ports /\ g \in P /\ rest \in SUBSET Ports /\ kept \in SUBSET Ports
  BY GroupsSeparate DEF Heads
<1>2. c \in rest /\ c \in Ports
  BY <1>1, LowestInSet
<1>3. /\ Consistent(o) /\ AllServed(o, kept)
      /\ \A p \in Ports : Listed(t, p) => Listed(o, p)
  BY GroupDelConsistent
<1>4. /\ \A k \in P : o.members[k] = {k}
      /\ \A k \in Ports \ P : o.members[k] = t.members[k] /\ o.members[k] \cap P = {}
  <2>1. o = One2one(t, P)
    BY GroupDelConsistent
  <2>2. \A p \in Ports : One2one(t, P).members[p] = IF p \in P THEN {p} ELSE t.members[p]
    <3> HIDE DEF P
    <3>1. QED
      BY <1>1, One2oneEntries DEF Consistent
  <2>3. \A k \in Ports \ P : t.members[k] \cap P = {}
    BY GroupsSeparate
  <2> HIDE DEF o, P
  <2>4. QED
    BY <1>1, <2>1, <2>2, <2>3
<1> HIDE DEF o, c, kept, P
<1>5. \A k \in Ports \ {c} : \A p \in o.members[k] : o.la[p] = k \/ Alone(o, p, k)
  BY <1>3 DEF Consistent, SendsOrLeftover
<1>6. \A k \in Ports \ {c} : o.members[k] # {} => k \in o.members[k]
  BY <1>3 DEF Consistent, LeaderListed
<1>7. \A k \in Ports \ {c} : o.members[k] \cap rest # {} => o.members[k] = {k}
  BY <1>4
<1>8. \A k \in Ports \ rest : Heads(o, k) => Served(o, k, kept) /\ o.members[k] \cap rest = {}
  BY <1>1, <1>3, <1>4 DEF AllServed
<1>9. ASSUME NEW k \in Ports \ {c}, NEW p \in o.members[k] \ rest
      PROVE  ListedIn(o, p) /\ o.la[p] # c
  <2>1. p \in Ports
    BY <1>3 DEF Consistent, WellFormed
  <2>2. ListedIn(o, p)
    BY <1>3, <1>9, <2>1 DEF Consistent, ListedWhereSends, Listed
  <2>3. o.members[c] = {c}
    BY <1>2, <1>4
  <2>4. QED
    BY <1>2, <2>2, <2>3 DEF ListedIn
<1>10. /\ Consistent(u) /\ AllServed(u, kept)
       /\ \A p \in rest : Listed(u, p)
       /\ \A p \in Ports, k \in Ports \ {c} : p \in o.members[k] => Listed(u, p)
  <2> HIDE DEF rest
  <2>1. WellFormed(o)
    BY <1>3 DEF Consistent
  <2>2. QED
    BY <1>1, <1>2, <1>5, <1>6, <1>7, <1>8, <1>9, <2>1, GroupConsistent
<1>11. ASSUME NEW p \in Ports, Listed(t, p)  PROVE Listed(u, p)
  <2>1. PICK k \in Ports : p \in o.members[k]
    BY <1>3, <1>11 DEF Listed
  <2>2. CASE k = c
    <3>1. p \in rest
      BY <1>2, <1>4, <2>1, <2>2
    <3>2. QED
      BY <1>10, <3>1
  <2>3. CASE k # c
    BY <1>10, <2>1, <2>3
  <2>4. QED
    BY <2>2, <2>3
<1>12. QED
  BY <1>10, <1>11 DEF o, c, kept, P

(* port_del of another member leaves the tables portmask_set would leave.    *)
LEMMA MemberDelIsPortmaskSet ==
  ASSUME NEW t, Consistent(t), NEW g \in Ports, Heads(t, g), NEW p \in t.members[g], p # g
  PROVE  LET rest == t.members[g] \ {p}
         IN  PortDeleted(t, g, p) = GroupSet(Regrouped(t, g, rest), g, rest)
<1> DEFINE rest == t.members[g] \ {p}
           X == [ la      |-> [t.la EXCEPT ![p] = 0],
                  members |-> [t.members EXCEPT ![g] = rest],
                  weight  |-> HashMapSet(t.weight, rest) ]
           r == Regrouped(t, g, rest)
<1>1. p \in Ports /\ rest \in SUBSET Ports /\ g \in rest
  BY GroupsSeparate DEF Heads
<1>2. t.members[g] \ rest = {p} /\ rest \ t.members[g] = {}
  OBVIOUS
<1>w. WellFormed(t)
  BY DEF Consistent
<1>3. /\ WellFormed(r)
      /\ \A q \in Ports : r.la[q] = IF q = p THEN p ELSE t.la[q]
      /\ \A q \in Ports : r.members[q] = IF q = p THEN {p} ELSE t.members[q]
      /\ \A h \in Slot : r.weight[h] = t.weight[h] \cup {p}
  <2> HIDE DEF rest
  <2>1. /\ WellFormed(r)
        /\ \A q \in Ports : r.la[q] = IF q \in t.members[g] \ rest THEN q ELSE t.la[q]
        /\ \A q \in Ports : r.members[q] = IF q \in t.members[g] \ rest THEN {q}
                                            ELSE IF q \in rest \ t.members[g] THEN {}
                                            ELSE t.members[q]
        /\ \A h \in Slot : r.weight[h] = t.weight[h] \cup (t.members[g] \ rest)
    BY <1>1, <1>w, RegroupedEntries
  <2> HIDE DEF r
  <2>2. \A q \in Ports : (q \in t.members[g] \ rest <=> q = p) /\ q \notin rest \ t.members[g]
    BY <1>2
  <2>3. QED
    BY <1>2, <2>1, <2>2
<1> HIDE DEF r
<1>4. [q \in Ports |-> IF q \in {p} THEN q ELSE X.la[q]]
      = [q \in Ports |-> IF q \in rest THEN g ELSE r.la[q]]
  <2>1. \A q \in rest : t.la[q] = g
    BY MembersSend
  <2>2. \A q \in Ports : q # p => X.la[q] = t.la[q]
    BY <1>w DEF WellFormed
  <2> HIDE DEF X
  <2>3. QED
    BY <1>1, <1>3, <2>1, <2>2
<1>5. [q \in Ports |-> IF q \in {p} THEN {q} ELSE X.members[q]] = [r.members EXCEPT ![g] = rest]
  <2>1. \A q \in Ports : X.members[q] = IF q = g THEN rest ELSE t.members[q]
    BY <1>w DEF WellFormed
  <2>2. r.members \in [Ports -> SUBSET Ports]
    BY <1>3 DEF WellFormed
  <2> HIDE DEF X, rest
  <2>3. [r.members EXCEPT ![g] = rest] = [q \in Ports |-> IF q = g THEN rest ELSE r.members[q]]
    BY <2>2
  <2>4. \A q \in Ports : (IF q \in {p} THEN {q} ELSE X.members[q])
                         = (IF q = g THEN rest ELSE r.members[q])
    BY <1>3, <2>1
  <2>5. QED
    BY <2>3, <2>4
<1>6. [h \in Slot |-> X.weight[h] \cup {p}] = HashMapSet(r.weight, rest)
  <2>1. rest # {}
    BY <1>1
  <2>2. \A h \in Slot : X.weight[h] = (t.weight[h] \ rest) \cup {Owner(rest, h)}
    BY <2>1 DEF HashMapSet
  <2>3. HashMapSet(r.weight, rest) = [h \in Slot |-> (r.weight[h] \ rest) \cup {Owner(rest, h)}]
    BY <2>1 DEF HashMapSet
  <2>4. \A h \in Slot : X.weight[h] \cup {p} = (r.weight[h] \ rest) \cup {Owner(rest, h)}
    <3> HIDE DEF X
    <3>1. QED
      BY <1>3, <2>2
  <2> HIDE DEF X, rest
  <2>5. QED
    BY <2>3, <2>4
<1>7. PortDeleted(t, g, p) = One2one(X, {p})
  BY DEF PortDeleted
<1>8. One2one(X, {p}) = GroupSet(r, g, rest)
  <2> HIDE DEF X, rest
  <2>1. QED
    BY <1>4, <1>5, <1>6 DEF One2one, GroupSet
<1>9. QED
  BY <1>7, <1>8 DEF r

-----------------------------------------------------------------------------
(* The specification, on a bus that works.                                   *)

WellUsed == ~ Faulty

LEMMA EmptyConsistent == Consistent(Empty) /\ AllServed(Empty, {})
<1>1. WellFormed(Empty)
  BY DEF WellFormed, Empty
<1>2. \A g \in Ports : Empty.members[g] = {}
  BY DEF Empty
<1>3. QED
  BY <1>1, <1>2 DEF Consistent, SendsOrLeftover, LeaderListed, ListedWhereSends, Listed,
                    AllServed, Heads

\* the hash map calls change the weights only
WithWeight(t, w) == [t EXCEPT !.weight = w]

LEMMA WeightOnly ==
  ASSUME NEW t, Consistent(t), NEW w \in [Slot -> SUBSET Ports]
  PROVE  /\ Consistent(WithWeight(t, w))
         /\ WithWeight(t, w).la = t.la /\ WithWeight(t, w).members = t.members
         /\ WithWeight(t, w).weight = w
<1> DEFINE u == WithWeight(t, w)
<1>1. WellFormed(t)
  BY DEF Consistent
<1>2. u.la = t.la /\ u.members = t.members /\ u.weight = w
  BY <1>1 DEF WellFormed, WithWeight
<1>3. u = [la |-> u.la, members |-> u.members, weight |-> u.weight]
  BY <1>1 DEF WellFormed, WithWeight
<1> HIDE DEF u
<1>4. WellFormed(u)
  BY <1>1, <1>2, <1>3 DEF WellFormed
<1>5. QED
  BY <1>2, <1>4 DEF Consistent, SendsOrLeftover, LeaderListed, ListedWhereSends, Listed,
                    ListedIn, Alone, u

LEMMA InitIInv == Init => IInv
<1> SUFFICES ASSUME Init PROVE IInv
  OBVIOUS
<1>1. cleared = {} /\ tab = Empty /\ enable = FALSE /\ factor \in Factors
  BY FactorsAssumption DEF Init
<1>2. QED
  BY <1>1, EmptyConsistent DEF IInv

LEMMA NextIInv == WellUsed /\ IInv /\ [Next]_vars => IInv'
<1> SUFFICES ASSUME WellUsed, IInv, [Next]_vars  PROVE IInv'
  OBVIOUS
<1>i. /\ Consistent(tab) /\ AllServed(tab, cleared) /\ cleared \in SUBSET Ports
      /\ enable \in BOOLEAN /\ factor \in Factors
      /\ enable => \A p \in Ports : Listed(tab, p)
      /\ tab.members \in [Ports -> SUBSET Ports] /\ WellFormed(tab)
  BY DEF IInv, Consistent, WellFormed
\* the invariant of the next state, from facts about the new tables
<1>s. ASSUME NEW u, NEW bare, tab' = u, cleared' = bare, bare \in SUBSET Ports, Consistent(u),
             AllServed(u, bare), enable' \in BOOLEAN, factor' \in Factors,
             enable' => \A p \in Ports : Listed(u, p)
      PROVE  IInv'
  <2>1. Consistent(tab)' /\ AllServed(tab, cleared)' /\ cleared' \in SUBSET Ports
    BY <1>s DEF Consistent, AllServed, WellFormed, SendsOrLeftover, LeaderListed,
                ListedWhereSends, Listed, ListedIn, Alone, Heads, Served
  <2>2. (enable => \A p \in Ports : Listed(tab, p))'
    BY <1>s DEF Listed
  <2>3. QED
    BY <1>s, <2>1, <2>2 DEF IInv
<1>1. ASSUME NEW e \in BOOLEAN, EnableSet(e)  PROVE IInv'
  <2>1. CASE e = TRUE
    <3> DEFINE P == Ports \ UNION {tab.members[g] : g \in Ports}
    <3>1. tab' = One2one(tab, P) /\ enable' = TRUE /\ factor' = factor /\ cleared' = cleared
      BY <1>1, <2>1 DEF EnableSet, AfterHelper, RestOne2one, WellUsed
    <3>2. \A g \in Ports : tab.members[g] \cap P = {}
      OBVIOUS
    <3>3. \A g \in P : tab.members[g] \subseteq P
      BY <3>2 DEF IInv, Consistent, LeaderListed
    <3>4. \A p \in Ports : p \in P \/ Listed(tab, p)
      BY DEF Listed
    <3>5. P \in SUBSET Ports
      OBVIOUS
    <3> HIDE DEF P
    <3>6. /\ Consistent(One2one(tab, P)) /\ AllServed(One2one(tab, P), cleared \ P)
          /\ \A p \in Ports : Listed(One2one(tab, P), p)
      BY <1>i, <3>2, <3>3, <3>4, <3>5, SinglesConsistent
    <3>7. AllServed(One2one(tab, P), cleared)
      BY <3>6 DEF AllServed, Served
    <3>8. QED
      BY <1>s, <1>i, <3>1, <3>6, <3>7
  <2>2. CASE e = FALSE
    <3>1. tab' = Empty /\ enable' = FALSE /\ factor' = 0 /\ cleared' = {}
      BY <1>1, <2>2 DEF EnableSet, ClearAll, WellUsed
    <3>2. QED
      BY <1>s, <3>1, EmptyConsistent, FactorsAssumption
  <2>3. QED
    BY <2>1, <2>2
<1>2. ASSUME NEW g \in Ports, NEW M \in SUBSET Ports, PortmaskSet(g, M)  PROVE IInv'
  <2>1. g \in M /\ Allowed(tab, g, M)
    BY <1>2 DEF PortmaskSet, Addable, Single, Trunk, Allowed, TrunkOf, WellUsed
  <2>2. /\ tab' = GroupSet(Regrouped(tab, g, M), g, M)
        /\ cleared' = cleared \ (tab.members[g] \cup M)
        /\ enable' = enable /\ factor' = factor
    BY <1>2 DEF PortmaskSet, AfterHelper, WellUsed
  <2> DEFINE u    == GroupSet(Regrouped(tab, g, M), g, M)
             kept == cleared \ (tab.members[g] \cup M)
  <2>3. /\ Consistent(u) /\ AllServed(u, kept)
        /\ \A p \in Ports : Listed(tab, p) => Listed(u, p)
    BY <1>i, <2>1, PortmaskSetConsistent
  <2>4. tab' = u /\ cleared' = kept /\ kept \in SUBSET Ports
    BY <1>i, <2>2
  <2> HIDE DEF u, kept
  <2>5. QED
    BY <1>i, <1>s, <2>2, <2>3, <2>4
<1>3. ASSUME NEW g \in Ports, NEW p \in Ports, PortDel(g, p)  PROVE IInv'
  <2>1. Heads(tab, g) /\ p \in tab.members[g]
    BY <1>3 DEF PortDel, Nameable, Leads, Heads, WellUsed
  <2>2. /\ tab' = PortDeleted(tab, g, p) /\ cleared' = cleared \ tab.members[g]
        /\ enable' = enable /\ factor' = factor
    BY <1>3 DEF PortDel, AfterHelper, WellUsed
  <2>3. CASE p = g /\ tab.members[g] \ {g} = {}
    <3>1. tab' = GroupClear(tab, g)
      BY <2>2, <2>3 DEF PortDeleted
    <3>2. QED
      BY <1>i, <1>s, <2>1, <2>2, <3>1, GroupDelConsistent
  <2>4. CASE p = g /\ tab.members[g] \ {g} # {}
    <3>1. tab' = GroupSet(GroupClear(tab, g), Lowest(tab.members[g] \ {g}), tab.members[g] \ {g})
      BY <2>2, <2>4 DEF PortDeleted
    <3> DEFINE u == GroupSet(GroupClear(tab, g), Lowest(tab.members[g] \ {g}), tab.members[g] \ {g})
    <3>2. /\ Consistent(u) /\ AllServed(u, cleared \ tab.members[g])
          /\ \A q \in Ports : Listed(tab, q) => Listed(u, q)
      BY <1>i, <2>1, <2>4, LeaderDelConsistent
    <3>3. tab' = u
      BY <3>1
    <3> HIDE DEF u
    <3>4. QED
      BY <1>i, <1>s, <2>2, <3>2, <3>3
  <2>5. CASE p # g
    <3> DEFINE rest == tab.members[g] \ {p}
    <3>1. tab' = GroupSet(Regrouped(tab, g, rest), g, rest)
      BY <1>i, <2>1, <2>2, <2>5, MemberDelIsPortmaskSet
    <3>2. rest \in SUBSET Ports /\ g \in rest /\ tab.members[g] \cup rest = tab.members[g]
      BY <1>i, <2>1, <2>5 DEF Heads
    <3>3. Allowed(tab, g, rest)
      <4>1. \A q \in tab.members[g] : tab.la[q] = g
        BY <1>i, <2>1, MembersSend
      <4>2. QED
        BY <4>1 DEF Allowed, TrunkOf
    <3> DEFINE u == GroupSet(Regrouped(tab, g, rest), g, rest)
    <3> HIDE DEF rest
    <3>4. /\ Consistent(u) /\ AllServed(u, cleared \ (tab.members[g] \cup rest))
          /\ \A q \in Ports : Listed(tab, q) => Listed(u, q)
      BY <1>i, <3>2, <3>3, PortmaskSetConsistent
    <3>5. tab' = u /\ cleared' = cleared \ (tab.members[g] \cup rest)
      BY <2>2, <3>1, <3>2
    <3> HIDE DEF u
    <3>6. QED
      BY <1>i, <1>s, <2>2, <3>4, <3>5
  <2>6. QED
    BY <2>3, <2>4, <2>5
<1>4. ASSUME NEW g \in Ports, GroupDel(g)  PROVE IInv'
  <2>1. Heads(tab, g)
    BY <1>4 DEF GroupDel, Nameable, Leads, Heads, WellUsed
  <2>2. /\ tab' = GroupClear(tab, g) /\ cleared' = cleared \ tab.members[g]
        /\ enable' = enable /\ factor' = factor
    BY <1>4 DEF GroupDel, AfterHelper, WellUsed
  <2>3. QED
    BY <1>i, <1>s, <2>1, <2>2, GroupDelConsistent
<1>5. ASSUME NEW f \in Factors, HashfactorSet(f)  PROVE IInv'
  BY <1>i, <1>s, <1>5 DEF HashfactorSet
<1>h. ASSUME NEW g \in Ports, Heads(tab, g), NEW M \in SUBSET tab.members[g],
             NEW w \in [Slot -> SUBSET Ports], NEW k \in Ports, Heads(tab, k), k # g,
             \A h \in Slot : w[h] \ M = tab.weight[h] \ M
      PROVE  \A h \in Slot : w[h] \cap tab.members[k] = tab.weight[h] \cap tab.members[k]
  <2>1. tab.members[k] \cap tab.members[g] = {}
    BY <1>h, <1>i, MembersSend
  <2>2. QED
    BY <1>h, <2>1
<1>6. ASSUME NEW g \in Ports, NEW M \in SUBSET Ports, HashMapSetFor(g, M)  PROVE IInv'
  <2>1. /\ Heads(tab, g) /\ M \subseteq tab.members[g]
        /\ \A h \in Slot : tab.weight[h] \cap tab.members[g] \subseteq M
    BY <1>6 DEF HashMapSetFor, Nameable, Mappable, Leads, Heads, WellUsed
  <2>2. /\ tab' = WithWeight(tab, HashMapSet(tab.weight, M))
        /\ enable' = enable /\ factor' = factor
    BY <1>6 DEF HashMapSetFor, AfterHelper, WellUsed, WithWeight
  <2>3. CASE M = {}
    <3>1. cleared' = cleared /\ HashMapSet(tab.weight, M) = tab.weight
      BY <1>6, <2>3 DEF HashMapSetFor, HashMapSet
    <3>2. WithWeight(tab, tab.weight) = tab
      BY <1>i DEF WithWeight, WellFormed
    <3>3. QED
      BY <1>i, <1>s, <2>2, <3>1, <3>2
  <2>4. CASE M # {}
    <3> DEFINE w == HashMapSet(tab.weight, M)
               u == WithWeight(tab, w)
    <3>1. cleared' = cleared \ {g}
      BY <1>6, <2>4 DEF HashMapSetFor
    <3>2. /\ w \in [Slot -> SUBSET Ports]
          /\ \A h \in Slot : \E o \in M : w[h] = (tab.weight[h] \ M) \cup {o}
      BY <1>i, <2>4, HashMapSetEntries DEF WellFormed
    <3> HIDE DEF w
    <3>3. /\ Consistent(u) /\ u.la = tab.la /\ u.members = tab.members /\ u.weight = w
      BY <1>i, <3>2, WeightOnly
    <3> HIDE DEF u
    <3>4. ASSUME NEW k \in Ports, Heads(u, k)  PROVE Served(u, k, cleared \ {g})
      <4>1. Heads(tab, k)
        BY <3>3, <3>4 DEF Heads
      <4>2. CASE k = g
        <5>1. ASSUME NEW h \in Slot  PROVE \E p \in tab.members[g] : w[h] \cap tab.members[g] = {p}
          <6>1. PICK o \in M : w[h] = (tab.weight[h] \ M) \cup {o}
            BY <3>2
          <6>2. w[h] \cap tab.members[g] = {o}
            BY <2>1, <6>1
          <6>3. QED
            BY <2>1, <6>2
        <5>2. QED
          BY <3>3, <4>2, <5>1 DEF Served
      <4>3. CASE k # g
        <5>1. w \in [Slot -> SUBSET Ports] /\ \A h \in Slot : w[h] \ M = tab.weight[h] \ M
          BY <3>2
        <5>2. \A h \in Slot : w[h] \cap tab.members[k] = tab.weight[h] \cap tab.members[k]
          <6>1. M \in SUBSET tab.members[g] /\ Heads(tab, g)
            BY <2>1
          <6>2. QED
            BY <1>h, <4>1, <4>3, <5>1, <6>1
        <5>3. QED
          BY <1>i, <3>3, <4>1, <4>3, <5>2 DEF AllServed, Served
      <4>4. QED
        BY <4>2, <4>3
    <3>5. AllServed(u, cleared \ {g}) /\ \A p \in Ports : Listed(tab, p) => Listed(u, p)
      BY <3>3, <3>4 DEF AllServed, Listed
    <3>6. tab' = u
      BY <2>2 DEF u, w
    <3>7. QED
      BY <1>i, <1>s, <2>2, <3>1, <3>3, <3>5, <3>6
  <2>5. QED
    BY <2>3, <2>4
<1>7. ASSUME NEW g \in Ports, NEW M \in SUBSET Ports, HashMapClearFor(g, M)  PROVE IInv'
  <2> DEFINE w == HashMapClear(tab.weight, M)
             u == WithWeight(tab, w)
  <2>1. Heads(tab, g) /\ M \subseteq tab.members[g]
    BY <1>7 DEF HashMapClearFor, Nameable, Leads, Heads, WellUsed
  <2>2. /\ tab' = u /\ cleared' = cleared \cup {g}
        /\ enable' = enable /\ factor' = factor
    BY <1>7 DEF HashMapClearFor, AfterHelper, WellUsed, WithWeight
  <2>3. w \in [Slot -> SUBSET Ports] /\ \A h \in Slot : w[h] = tab.weight[h] \ M
    BY <1>i DEF HashMapClear, WellFormed
  <2> HIDE DEF w
  <2>4. /\ Consistent(u) /\ u.la = tab.la /\ u.members = tab.members /\ u.weight = w
    BY <1>i, <2>3, WeightOnly
  <2> HIDE DEF u
  <2>5. ASSUME NEW k \in Ports, Heads(u, k)  PROVE Served(u, k, cleared \cup {g})
    <3>1. Heads(tab, k)
      BY <2>4, <2>5 DEF Heads
    <3>2. CASE k = g
      <4>1. ASSUME NEW h \in Slot
            PROVE  \/ w[h] \cap tab.members[g] = {}
                   \/ \E p \in tab.members[g] : w[h] \cap tab.members[g] = {p}
        <5>1. \/ tab.weight[h] \cap tab.members[g] = {}
              \/ \E p \in tab.members[g] : tab.weight[h] \cap tab.members[g] = {p}
          BY <1>i, <2>1 DEF AllServed, Served
        <5>2. w[h] = tab.weight[h] \ M
          BY <2>3
        <5>3. QED
          BY <5>1, <5>2
      <4>2. QED
        BY <2>4, <3>2, <4>1 DEF Served
    <3>3. CASE k # g
      <4>1. \A h \in Slot : w[h] \ M = tab.weight[h] \ M
        BY <2>3
      <4>2. \A h \in Slot : w[h] \cap tab.members[k] = tab.weight[h] \cap tab.members[k]
        BY <1>h, <2>1, <2>3, <3>1, <3>3, <4>1
      <4>3. QED
        BY <1>i, <2>4, <3>1, <4>2 DEF AllServed, Served
    <3>4. QED
      BY <3>2, <3>3
  <2>6. AllServed(u, cleared \cup {g}) /\ \A p \in Ports : Listed(tab, p) => Listed(u, p)
    BY <2>4, <2>5 DEF AllServed, Listed
  <2>7. QED
    BY <1>i, <1>s, <2>2, <2>4, <2>6
<1>8. CASE UNCHANGED vars
  BY <1>i, <1>s, <1>8 DEF vars
<1>9. QED
  BY <1>1, <1>2, <1>3, <1>4, <1>5, <1>6, <1>7, <1>8 DEF Next

LEMMA Invariance == ASSUME WellUsed PROVE Spec => []IInv
<1>1. IInv /\ [Next]_vars => IInv'
  BY NextIInv
<1>2. QED
  BY <1>1, InitIInv, PTL DEF Spec

(* Whatever the client does within the rules, a group's port lists and the   *)
(* ports' own group numbers tell the same.                                   *)
THEOREM GroupTablesAgree == ASSUME WellUsed PROVE Spec => []TablesAgree
<1>1. IInv => TablesAgree
  <2> SUFFICES ASSUME IInv, enable = TRUE
               PROVE  /\ \A p \in Ports : Leads(tab.la[p]) /\ p \in tab.members[tab.la[p]]
                      /\ \A g \in Ports : Leads(g) => tab.members[g] = {p \in Ports : tab.la[p] = g}
    BY DEF TablesAgree
  <2>1. Consistent(tab) /\ \A p \in Ports : ListedIn(tab, p)
    BY DEF IInv, Consistent, ListedWhereSends
  <2>2. \A p \in Ports : Leads(tab.la[p]) /\ p \in tab.members[tab.la[p]]
    BY <2>1, ListedInLed DEF ListedIn, Leads, Heads
  <2>3. ASSUME NEW g \in Ports, Leads(g)  PROVE tab.members[g] = {p \in Ports : tab.la[p] = g}
    <3>1. \A p \in tab.members[g] : tab.la[p] = g
      BY <2>1, <2>3, MembersSend DEF Leads, Heads
    <3>2. tab.members[g] \subseteq Ports
      BY <2>1 DEF Consistent, WellFormed
    <3>3. QED
      BY <2>1, <3>1, <3>2 DEF ListedIn
  <2>4. QED
    BY <2>2, <2>3
<1>2. QED
  BY <1>1, Invariance, PTL

(* Every packet for a group leaves by exactly one of its ports, for any      *)
(* number of ports and slots.                                                *)
THEOREM EveryPacketHasOneEgress == ASSUME WellUsed PROVE Spec => []OneEgress
<1>1. IInv => OneEgress
  BY DEF IInv, AllServed, Served, Heads, Leads, OneEgress
<1>2. QED
  BY <1>1, Invariance, PTL

(* Every reachable state is of the declared type: no slot is ever without an *)
(* owner to name.                                                            *)
THEOREM TypeCorrect == ASSUME WellUsed PROVE Spec => []TypeOK
<1>1. IInv => TypeOK
  BY DEF IInv, Consistent, WellFormed, TypeOK
<1>2. QED
  BY <1>1, Invariance, PTL

-----------------------------------------------------------------------------
(* The partition of the ports that the tables stand for.                     *)

GroupOf(t, p) == IF ListedIn(t, p) THEN t.la[p] ELSE None

LEMMA NoneIsNoPort == None \notin Ports
BY PortsAssumption DEF None

\* The mapping of the refinement is this partition.
LEMMA GroupIsMapped ==
  ASSUME NEW t, Consistent(t)
  PROVE  [p \in Ports |-> IF TrunkOf(t, p) = {} THEN None ELSE CHOOSE g \in TrunkOf(t, p) : TRUE]
         = [p \in Ports |-> GroupOf(t, p)]
<1>1. ASSUME NEW p \in Ports
      PROVE  (IF TrunkOf(t, p) = {} THEN None ELSE CHOOSE g \in TrunkOf(t, p) : TRUE) = GroupOf(t, p)
  <2>1. TrunkOf(t, p) = IF ListedIn(t, p) THEN {t.la[p]} ELSE {}
    BY DEF TrunkOf, ListedIn
  <2>. QED  BY <2>1 DEF GroupOf
<1>. QED  BY <1>1

\* Who is in a group is in a group that is named by one of its ports, and the
\* members of such a group are the ports that are in it.
LEMMA GroupsNamed ==
  ASSUME NEW t, Consistent(t), NEW g \in Ports
  PROVE  /\ (\E p \in Ports : GroupOf(t, p) = g) => Heads(t, g)
         /\ Heads(t, g) => GroupOf(t, g) = g /\ t.members[g] = {p \in Ports : GroupOf(t, p) = g}
<1>1. ASSUME NEW p \in Ports, GroupOf(t, p) = g PROVE Heads(t, g) /\ p \in t.members[g]
  <2>1. t.la[p] = g /\ p \in t.members[g]
    BY <1>1, NoneIsNoPort DEF GroupOf, ListedIn
  <2>. QED  BY <2>1, ListedInLed
<1>2. ASSUME Heads(t, g) PROVE \A p \in t.members[g] : p \in Ports /\ GroupOf(t, p) = g
  BY <1>2, MembersSend DEF Consistent, WellFormed, GroupOf, ListedIn
<1>. QED  BY <1>1, <1>2 DEF Heads

\* Ports that share no group with the others become groups of their own.
LEMMA SinglesGroups ==
  ASSUME NEW t, WellFormed(t), NEW P \in SUBSET Ports,
         \A g \in Ports \ P : t.members[g] \cap P = {},
         \A g \in P : t.members[g] \subseteq P,
         NEW p \in Ports
  PROVE  GroupOf(One2one(t, P), p) = IF p \in P THEN p ELSE GroupOf(t, p)
<1>. DEFINE u == One2one(t, P)
<1>1. /\ \A q \in Ports : u.la[q] = IF q \in P THEN q ELSE t.la[q]
      /\ \A q \in Ports : u.members[q] = IF q \in P THEN {q} ELSE t.members[q]
  BY One2oneEntries
<1>. SUFFICES GroupOf(u, p) = IF p \in P THEN p ELSE GroupOf(t, p)
  OBVIOUS
<1>. HIDE DEF u
<1>2. CASE p \in P
  <2>1. u.la[p] = p /\ u.members[p] = {p}
    BY <1>1, <1>2
  <2>2. ListedIn(u, p)
    BY <2>1 DEF ListedIn
  <2>. QED  BY <1>2, <2>1, <2>2 DEF GroupOf
<1>3. CASE p \notin P
  <2>1. u.la[p] = t.la[p]
    BY <1>1, <1>3
  <2>2. ListedIn(u, p) <=> ListedIn(t, p)
    <3>1. CASE t.la[p] \in P
      <4>1. t.la[p] \in Ports /\ p \notin t.members[t.la[p]]
        BY <1>3, <3>1
      <4>2. u.members[t.la[p]] = {t.la[p]} /\ t.la[p] # p
        BY <1>1, <1>3, <3>1, <4>1
      <4>. QED  BY <2>1, <4>1, <4>2 DEF ListedIn
    <3>2. CASE t.la[p] \notin P
      BY <1>1, <2>1, <3>2 DEF ListedIn
    <3>. QED  BY <3>1, <3>2
  <2>. QED  BY <1>3, <2>1, <2>2 DEF GroupOf
<1>. QED  BY <1>2, <1>3

\* A group is made of M, and what was sent to it from elsewhere is in no group.
LEMMA GroupSetGroups ==
  ASSUME NEW t, WellFormed(t), NEW g \in Ports, NEW M \in SUBSET Ports, g \in M, NEW p \in Ports
  PROVE  GroupOf(GroupSet(t, g, M), p)
         = IF p \in M THEN g ELSE IF t.la[p] = g THEN None ELSE GroupOf(t, p)
<1>. DEFINE u == GroupSet(t, g, M)
<1>1. /\ \A q \in Ports : u.la[q] = IF q \in M THEN g ELSE t.la[q]
      /\ \A q \in Ports : u.members[q] = IF q = g THEN M ELSE t.members[q]
  BY GroupSetEntries
<1>. SUFFICES GroupOf(u, p) = IF p \in M THEN g ELSE IF t.la[p] = g THEN None ELSE GroupOf(t, p)
  OBVIOUS
<1>. HIDE DEF u
<1>2. CASE p \in M
  <2>1. u.la[p] = g /\ u.members[g] = M
    BY <1>1, <1>2
  <2>2. ListedIn(u, p)
    BY <1>2, <2>1 DEF ListedIn
  <2>. QED  BY <1>2, <2>1, <2>2 DEF GroupOf
<1>3. CASE p \notin M
  <2>1. u.la[p] = t.la[p]
    BY <1>1, <1>3
  <2>2. CASE t.la[p] = g
    <3>1. ~ ListedIn(u, p)
      BY <1>1, <1>3, <2>1, <2>2 DEF ListedIn
    <3>. QED  BY <1>3, <2>2, <3>1 DEF GroupOf
  <2>3. CASE t.la[p] # g
    <3>1. ListedIn(u, p) <=> ListedIn(t, p)
      BY <1>1, <2>1, <2>3 DEF ListedIn
    <3>. QED  BY <1>3, <2>1, <2>3, <3>1 DEF GroupOf
  <2>. QED  BY <2>2, <2>3
<1>. QED  BY <1>2, <1>3

\* jl61xx_link_aggregation_portmask_set on the partition.
LEMMA RegroupedGroups ==
  ASSUME NEW t, Consistent(t), NEW g \in Ports, NEW M \in SUBSET Ports, g \in M,
         Allowed(t, g, M), NEW p \in Ports
  PROVE  GroupOf(GroupSet(Regrouped(t, g, M), g, M), p)
         = IF p \in M THEN g ELSE IF GroupOf(t, p) = g THEN p ELSE GroupOf(t, p)
<1>. DEFINE left == t.members[g] \ M
            r    == Regrouped(t, g, M)
<1>1. /\ WellFormed(r)
      /\ \A q \in Ports : r.la[q] = IF q \in left THEN q ELSE t.la[q]
      /\ \A q \in Ports : r.members[q] = IF q \in left THEN {q}
                                         ELSE IF q \in M \ t.members[g] THEN {}
                                         ELSE t.members[q]
  BY RegroupedEntries DEF Consistent
<1>2. \A q \in left : q # g /\ q \in t.members[g] /\ q \in Ports /\ t.la[q] = g
  BY DEF Consistent, WellFormed, SendsOrLeftover, Alone
<1>3. \A q \in Ports \ M : q \in left <=> GroupOf(t, q) = g
  <2>1. ASSUME NEW q \in Ports \ M, GroupOf(t, q) = g PROVE q \in left
    BY <2>1, NoneIsNoPort DEF GroupOf, ListedIn
  <2>2. ASSUME NEW q \in left PROVE GroupOf(t, q) = g
    BY <1>2 DEF GroupOf, ListedIn
  <2>. QED  BY <2>1, <2>2
<1>4. CASE p \in M
  BY <1>1, <1>4, GroupSetGroups
<1>5. CASE p \in left
  <2>1. r.la[p] = p /\ r.members[p] = {p} /\ p # g /\ p \notin M
    BY <1>1, <1>2, <1>5
  <2>. HIDE DEF r, left
  <2>2. GroupOf(r, p) = p
    BY <2>1 DEF GroupOf, ListedIn
  <2>. QED  BY <1>1, <1>3, <1>5, <2>1, <2>2, GroupSetGroups DEF r
<1>6. CASE p \notin M /\ p \notin left
  <2>1. r.la[p] = t.la[p] /\ GroupOf(t, p) # g
    BY <1>1, <1>3, <1>6
  <2>2. CASE t.la[p] = g
    <3>1. GroupOf(t, p) = None
      BY <2>1, <2>2 DEF GroupOf
    <3>. QED  BY <1>1, <1>6, <2>1, <2>2, <3>1, NoneIsNoPort, GroupSetGroups
  <2>3. CASE t.la[p] # g
    <3>. DEFINE k == t.la[p]
    <3>1. CASE ListedIn(t, p)
      <4>1. k \in Ports /\ p \in t.members[k] /\ Heads(t, k)
        BY <3>1, ListedInLed DEF ListedIn
      <4>2. k \notin left
        BY <1>2, <2>3, <4>1 DEF Heads
      <4>3. k \notin M \ t.members[g]
        <5>1. SUFFICES ASSUME k \in M, k \notin t.members[g] PROVE FALSE
          OBVIOUS
        <5>2. k \in TrunkOf(t, k) /\ g \notin TrunkOf(t, k)
          BY <4>1, <5>1 DEF TrunkOf, Heads
        <5>3. t.members[k] = {k}
          BY <5>1, <5>2 DEF Allowed
        <5>. QED  BY <1>6, <4>1, <5>1, <5>3
      <4>4. r.members[k] = t.members[k]
        BY <1>1, <4>1, <4>2, <4>3
      <4>. HIDE DEF r, left
      <4>5. GroupOf(r, p) = GroupOf(t, p)
        BY <2>1, <4>4 DEF GroupOf, ListedIn
      <4>. QED  BY <1>1, <1>6, <2>1, <2>3, <4>5, GroupSetGroups DEF r
    <3>2. CASE ~ ListedIn(t, p)
      <4>1. k \in Ports => p \notin t.members[k]
        BY <3>2 DEF ListedIn
      <4>2. k \in Ports => p \notin r.members[k]
        BY <1>1, <1>6, <4>1
      <4>. HIDE DEF r, left
      <4>3. GroupOf(r, p) = None /\ GroupOf(t, p) = None
        BY <2>1, <3>2, <4>2 DEF GroupOf, ListedIn
      <4>. QED  BY <1>1, <1>6, <2>1, <2>3, <4>3, NoneIsNoPort, GroupSetGroups DEF r
    <3>. QED  BY <3>1, <3>2
  <2>. QED  BY <2>2, <2>3
<1>. QED  BY <1>4, <1>5, <1>6

\* jl61xx_link_aggregation_group_del on the partition.
LEMMA GroupClearGroups ==
  ASSUME NEW t, Consistent(t), NEW g \in Ports, Heads(t, g), NEW p \in Ports
  PROVE  GroupOf(GroupClear(t, g), p) = IF GroupOf(t, p) = g THEN p ELSE GroupOf(t, p)
<1>1. GroupClear(t, g) = One2one(t, t.members[g]) /\ WellFormed(t)
  BY GroupClearIsSingles DEF Consistent
<1>2. GroupOf(One2one(t, t.members[g]), p) = IF p \in t.members[g] THEN p ELSE GroupOf(t, p)
  BY <1>1, GroupsSeparate, SinglesGroups
<1>3. p \in t.members[g] <=> GroupOf(t, p) = g
  BY GroupsNamed
<1>. QED  BY <1>1, <1>2, <1>3

\* jl61xx_link_aggregation_port_del on the partition.
Heir(t, g, p) ==
  IF p # g THEN g ELSE IF t.members[g] = {g} THEN g ELSE Lowest(t.members[g] \ {g})

LEMMA PortDeletedGroups ==
  ASSUME NEW t, Consistent(t), NEW g \in Ports, Heads(t, g), NEW p \in t.members[g],
         NEW q \in Ports
  PROVE  GroupOf(PortDeleted(t, g, p), q)
         = IF q = p THEN p ELSE IF GroupOf(t, q) = g THEN Heir(t, g, p) ELSE GroupOf(t, q)
<1>. DEFINE heir == Heir(t, g, p)  P == t.members[g]  rest == P \ {p}
<1>1. /\ P \in SUBSET Ports /\ g \in P /\ p \in Ports
      /\ \A k \in Ports \ P : t.members[k] \cap P = {}
      /\ \A k \in P : t.members[k] \subseteq P
  BY GroupsSeparate DEF Heads
<1>2. q \in P <=> GroupOf(t, q) = g
  BY GroupsNamed
<1>3. CASE p # g
  <2>1. g \in rest /\ rest \in SUBSET Ports
    BY <1>1, <1>3
  <2>2. PortDeleted(t, g, p) = GroupSet(Regrouped(t, g, rest), g, rest)
    BY <1>3, MemberDelIsPortmaskSet
  <2>3. Allowed(t, g, rest)
    BY MembersSend DEF Allowed, TrunkOf
  <2>. HIDE DEF rest
  <2>4. GroupOf(PortDeleted(t, g, p), q)
        = IF q \in rest THEN g ELSE IF GroupOf(t, q) = g THEN q ELSE GroupOf(t, q)
    BY <2>1, <2>2, <2>3, RegroupedGroups
  <2>. QED  BY <1>2, <1>3, <2>4 DEF rest, Heir
<1>4. CASE p = g /\ rest = {}
  <2>1. PortDeleted(t, g, p) = GroupClear(t, g) /\ P = {g}
    BY <1>1, <1>4 DEF PortDeleted
  <2>. QED  BY <1>1, <1>2, <1>4, <2>1, GroupClearGroups DEF Heir
<1>5. CASE p = g /\ rest # {}
  <2>. DEFINE o == GroupClear(t, g)
  <2>1. /\ P # {g} /\ heir = Lowest(rest) /\ rest \in SUBSET Ports
        /\ PortDeleted(t, g, p) = GroupSet(o, heir, rest)
    BY <1>1, <1>5 DEF PortDeleted, Heir
  <2>2. heir \in rest
    BY <1>5, <2>1, LowestInSet
  <2>3. o = One2one(t, P) /\ WellFormed(t)
    BY GroupClearIsSingles DEF Consistent
  <2>4. WellFormed(o) /\ \A k \in Ports : o.la[k] = IF k \in P THEN k ELSE t.la[k]
    BY <1>1, <2>3, One2oneEntries
  <2>5. GroupOf(o, q) = IF q \in P THEN q ELSE GroupOf(t, q)
    BY <1>2, GroupClearGroups
  <2>. HIDE DEF o, rest, heir
  <2>6. GroupOf(PortDeleted(t, g, p), q)
        = IF q \in rest THEN heir ELSE IF o.la[q] = heir THEN None ELSE GroupOf(o, q)
    BY <2>1, <2>2, <2>4, GroupSetGroups
  <2>7. CASE q \in P
    BY <1>1, <1>2, <1>5, <2>2, <2>4, <2>5, <2>6, <2>7 DEF rest, heir
  <2>8. CASE q \notin P
    <3>1. o.la[q] = t.la[q] /\ q \notin rest /\ q # p
      BY <1>1, <2>4, <2>8 DEF rest
    <3>2. t.la[q] = heir => GroupOf(t, q) = None
      BY <1>1, <2>2, <2>8 DEF GroupOf, ListedIn, rest
    <3>. QED  BY <1>2, <2>5, <2>6, <2>8, <3>1, <3>2
  <2>. QED  BY <2>7, <2>8 DEF heir
<1>. QED  BY <1>3, <1>4, <1>5

-----------------------------------------------------------------------------
(* The simulation.                                                           *)

Groups == [p \in Ports |-> GroupOf(tab, p)]

LEMMA MapInit == Init => Promise!Init
<1>. SUFFICES ASSUME Init PROVE Promise!Init
  OBVIOUS
<1>1. tab = Empty /\ enable = FALSE /\ Consistent(tab)
  BY EmptyConsistent DEF Init
<1>2. \A p \in Ports : GroupOf(tab, p) = None
  BY <1>1 DEF GroupOf, ListedIn, Empty
<1>. QED  BY <1>1, <1>2, GroupIsMapped DEF Promise!Init, Trunk, TrunkOf

LEMMA StepRefines ==
  ASSUME WellUsed, IInv, [Next]_vars
  PROVE  [Promise!Next]_(Promise!vars)
<1>1. IInv' /\ Consistent(tab) /\ Consistent(tab)' /\ WellFormed(tab)
  BY NextIInv DEF IInv, Consistent
<1>2. /\ [p \in Ports |-> IF Trunk(p) = {} THEN None ELSE CHOOSE g \in Trunk(p) : TRUE] = Groups
      /\ [p \in Ports |-> IF Trunk(p) = {} THEN None ELSE CHOOSE g \in Trunk(p) : TRUE]' = Groups'
  <2>1. /\ [p \in Ports |-> GroupOf(tab, p)] = Groups
        /\ [p \in Ports |-> GroupOf(tab', p)] = Groups'
    BY DEF Groups, GroupOf, ListedIn
  <2>2. Consistent(tab')
    BY <1>1 DEF Consistent, WellFormed, SendsOrLeftover, LeaderListed, ListedWhereSends, Listed,
                ListedIn, Alone
  <2>3. \A p \in Ports : Trunk(p) = TrunkOf(tab, p) /\ Trunk(p)' = TrunkOf(tab', p)
    BY DEF Trunk, TrunkOf
  <2>. QED  BY <1>1, <2>1, <2>2, <2>3, GroupIsMapped
<1>3. \A g \in Ports : Heads(tab, g) => /\ Groups[g] = g
                                        /\ tab.members[g] = {p \in Ports : Groups[p] = g}
  BY <1>1, GroupsNamed DEF Groups
<1>4. \A p \in Ports : Groups[p] = None \/ (Groups[p] \in Ports /\ Heads(tab, Groups[p]))
  BY <1>1, GroupsNamed DEF Groups, GroupOf, ListedIn
<1>5. ASSUME NEW e \in BOOLEAN, EnableSet(e)
      PROVE  Promise!SwitchOn \/ Promise!SwitchOff
  <2>1. CASE e = TRUE
    <3>. DEFINE P == Ports \ UNION {tab.members[g] : g \in Ports}
    <3>1. tab' = One2one(tab, P) /\ enable' = TRUE
      BY <1>5, <2>1 DEF EnableSet, AfterHelper, RestOne2one, WellUsed
    <3>2. \A g \in Ports : tab.members[g] \cap P = {}
      OBVIOUS
    <3>3. \A g \in P : tab.members[g] \subseteq P
      BY <3>2, <1>1 DEF Consistent, LeaderListed
    <3>4. P \in SUBSET Ports /\ \A p \in Ports : p \in P <=> ~ Listed(tab, p)
      BY DEF Listed
    <3>. HIDE DEF P
    <3>5. \A p \in Ports : Groups'[p] = IF p \in P THEN p ELSE Groups[p]
      BY <1>1, <3>1, <3>2, <3>3, <3>4, SinglesGroups DEF Groups
    <3>6. \A p \in Ports : p \in P <=> Groups[p] = None
      BY <1>1, <3>4, NoneIsNoPort DEF Groups, GroupOf, ListedIn, Listed, Consistent, ListedWhereSends
    <3>7. Groups' = [p \in Ports |-> IF Groups[p] = None THEN p ELSE Groups[p]]
      BY <3>5, <3>6 DEF Groups
    <3>. QED  BY <1>2, <3>1, <3>7 DEF Promise!SwitchOn
  <2>2. CASE e = FALSE
    <3>1. tab' = Empty /\ enable' = FALSE
      BY <1>5, <2>2 DEF EnableSet, ClearAll, WellUsed
    <3>2. \A p \in Ports : Groups'[p] = None
      BY <3>1 DEF Groups, GroupOf, ListedIn, Empty
    <3>3. Groups' = [p \in Ports |-> None]
      BY <3>2 DEF Groups
    <3>. QED  BY <1>2, <3>1, <3>3 DEF Promise!SwitchOff
  <2>. QED  BY <2>1, <2>2
<1>6. ASSUME NEW g \in Ports, NEW M \in SUBSET Ports, PortmaskSet(g, M)  PROVE Promise!Form(g, M)
  <2>1. g \in M /\ Allowed(tab, g, M)
    BY <1>6 DEF PortmaskSet, Addable, Single, Trunk, Allowed, TrunkOf, WellUsed
  <2>2. tab' = GroupSet(Regrouped(tab, g, M), g, M) /\ enable' = enable
    BY <1>6 DEF PortmaskSet, AfterHelper, WellUsed
  <2>3. \A p \in Ports :
          Groups'[p] = IF p \in M THEN g ELSE IF Groups[p] = g THEN p ELSE Groups[p]
    BY <1>1, <2>1, <2>2, RegroupedGroups DEF Groups
  <2>4. Groups' = [p \in Ports |-> IF p \in M THEN g ELSE IF Groups[p] = g THEN p ELSE Groups[p]]
    BY <2>3 DEF Groups
  <2>5. ASSUME NEW p \in M
        PROVE  Groups[p] = g \/ Groups[p] = None \/ {q \in Ports : Groups[q] = p} = {p}
    <3>1. p \in Ports
      OBVIOUS
    <3>2. CASE g \in TrunkOf(tab, p)
      BY <3>1, <3>2 DEF TrunkOf, Groups, GroupOf, ListedIn
    <3>3. CASE \A k \in TrunkOf(tab, p) : tab.members[k] = {p}
      <4>1. Groups[p] # None => Groups[p] \in TrunkOf(tab, p)
        BY <3>1 DEF TrunkOf, Groups, GroupOf, ListedIn
      <4>2. CASE Groups[p] # None
        <5>. DEFINE k == Groups[p]
        <5>1. k \in Ports /\ Heads(tab, k) /\ tab.members[k] = {p}
          BY <1>4, <3>1, <3>3, <4>1, <4>2
        <5>2. k = p
          BY <5>1 DEF Heads
        <5>. QED  BY <1>3, <5>1, <5>2
      <4>. QED  BY <4>2
    <3>. QED  BY <2>1, <3>2, <3>3 DEF Allowed
  <2>. QED  BY <1>2, <2>1, <2>2, <2>4, <2>5 DEF Promise!Form, Promise!Single, Promise!Members
<1>7. ASSUME NEW g \in Ports, NEW p \in Ports, PortDel(g, p)  PROVE Promise!Leave(g, p)
  <2>1. Heads(tab, g) /\ p \in tab.members[g]
    BY <1>7 DEF PortDel, Nameable, Leads, Heads, WellUsed
  <2>2. tab' = PortDeleted(tab, g, p) /\ enable' = enable
    BY <1>7 DEF PortDel, AfterHelper, WellUsed
  <2>. DEFINE heir == Heir(tab, g, p)
  <2>3. \A q \in Ports :
          Groups'[q] = IF q = p THEN p ELSE IF Groups[q] = g THEN heir ELSE Groups[q]
    BY <1>1, <2>1, <2>2, PortDeletedGroups DEF Groups
  <2>4. heir \in tab.members[g] /\ (p # g => heir = g) /\ (heir = p <=> tab.members[g] = {p})
    <3>1. g \in tab.members[g] /\ tab.members[g] \in SUBSET Ports
      BY <1>1, <2>1, GroupsSeparate
    <3>2. p = g /\ tab.members[g] # {g} => heir \in tab.members[g] \ {g}
      BY <3>1, LowestInSet DEF Heir
    <3>. QED  BY <2>1, <3>1, <3>2 DEF Heir
  <2>. HIDE DEF heir
  <2>5. Groups' = [q \in Ports |-> IF q = p THEN p ELSE IF Groups[q] = g THEN heir ELSE Groups[q]]
    BY <2>3 DEF Groups
  <2>6. Groups[g] = g /\ Groups[p] = g /\ tab.members[g] = {q \in Ports : Groups[q] = g}
    BY <1>3, <2>1
  <2>7. \E k \in {q \in Ports : Groups[q] = g} :
          /\ k = p <=> {q \in Ports : Groups[q] = g} = {p}
          /\ g # p => k = g
          /\ Groups' = [q \in Ports |-> IF q = p THEN p ELSE IF Groups[q] = g THEN k ELSE Groups[q]]
    BY <2>4, <2>5, <2>6
  <2>8. Promise!Members(g) = {q \in Ports : Groups[q] = g}
    BY <1>2 DEF Promise!Members
  <2>. DEFINE Mapped == [q \in Ports |-> IF Trunk(q) = {} THEN None ELSE CHOOSE k \in Trunk(q) : TRUE]
  <2>9. Mapped = Groups /\ Mapped' = Groups'
    BY <1>2
  <2>. HIDE DEF Mapped
  <2>10. /\ Mapped[g] = g /\ Mapped[p] = g
         /\ \E k \in Promise!Members(g) :
              /\ k = p <=> Promise!Members(g) = {p}
              /\ g # p => k = g
              /\ Mapped' = [q \in Ports |-> IF q = p THEN p ELSE IF Mapped[q] = g THEN k ELSE Mapped[q]]
    BY <2>6, <2>7, <2>8, <2>9
  <2>. QED  BY <2>2, <2>10 DEF Promise!Leave, Mapped
<1>8. ASSUME NEW g \in Ports, GroupDel(g)  PROVE Promise!Dissolve(g)
  <2>1. Heads(tab, g)
    BY <1>8 DEF GroupDel, Nameable, Leads, Heads, WellUsed
  <2>2. tab' = GroupClear(tab, g) /\ enable' = enable
    BY <1>8 DEF GroupDel, AfterHelper, WellUsed
  <2>3. \A p \in Ports : Groups'[p] = IF Groups[p] = g THEN p ELSE Groups[p]
    BY <1>1, <2>1, <2>2, GroupClearGroups DEF Groups
  <2>4. Groups' = [p \in Ports |-> IF Groups[p] = g THEN p ELSE Groups[p]]
    BY <2>3 DEF Groups
  <2>. QED  BY <1>2, <1>3, <2>1, <2>2, <2>4 DEF Promise!Dissolve
<1>9. ASSUME \/ \E f \in Factors : HashfactorSet(f)
             \/ \E g \in Ports, M \in SUBSET Ports : HashMapSetFor(g, M) \/ HashMapClearFor(g, M)
             \/ UNCHANGED vars
      PROVE  Groups' = Groups /\ enable' = enable
  <2>1. enable' = enable /\ tab'.la = tab.la /\ tab'.members = tab.members
    BY <1>1, <1>9 DEF HashfactorSet, HashMapSetFor, HashMapClearFor, AfterHelper, vars, WellFormed, WellUsed
  <2>. QED  BY <2>1 DEF Groups, GroupOf, ListedIn
<1>10. CASE Next
  BY <1>2, <1>5, <1>6, <1>7, <1>8, <1>9, <1>10 DEF Next, Promise!Next, Promise!vars
<1>11. CASE UNCHANGED vars
  BY <1>2, <1>9, <1>11 DEF Promise!vars
<1>. QED  BY <1>10, <1>11

(* The tables implement the partition of the ports that jl_trunk.h offers,   *)
(* for any ports and slots and every legal sequence of calls.                *)
THEOREM TablesPartition == ASSUME WellUsed PROVE Spec => KeepsPartition
<1>1. IInv /\ [Next]_vars => [Promise!Next]_(Promise!vars)
  BY StepRefines
<1>. QED  BY <1>1, MapInit, Invariance, PTL DEF Spec, KeepsPartition, Promise!Spec

-----------------------------------------------------------------------------
(* Equal shares: how many slots a member is given.                           *)

\* The ports of M are ranked: each has fewer than |M| below it, no two as many.
LEMMA RankBound ==
  ASSUME NEW M \in SUBSET Ports, NEW p \in M
  PROVE  Cardinality(Below(M, p)) \in Nat /\ Cardinality(Below(M, p)) < Cardinality(M)
<1>1. IsFiniteSet(M) /\ p \in Nat
  BY PortsAssumption, FS_Subset
<1>2. Below(M, p) \subseteq M /\ p \notin Below(M, p)
  BY <1>1 DEF Below
<1>3. Below(M, p) # M
  BY <1>2
<1>. QED  BY <1>1, <1>2, <1>3, FS_Subset, FS_CardinalityType

LEMMA RankUnique ==
  ASSUME NEW M \in SUBSET Ports, NEW p \in M, NEW q \in M,
         Cardinality(Below(M, p)) = Cardinality(Below(M, q))
  PROVE  p = q
<1>1. ASSUME NEW a \in M, NEW b \in M, a < b
      PROVE  Cardinality(Below(M, a)) < Cardinality(Below(M, b))
  <2>1. M \subseteq Nat /\ IsFiniteSet(M)
    BY PortsAssumption, FS_Subset
  <2>2. \A x \in M : x \in Nat
    BY <2>1
  <2>3. IsFiniteSet(Below(M, b))
    BY <2>1, FS_Subset DEF Below
  <2>4. Below(M, a) \subseteq Below(M, b) /\ a \in Below(M, b) /\ a \notin Below(M, a)
    BY <1>1, <2>2 DEF Below
  <2>5. Below(M, a) # Below(M, b)
    BY <2>4
  <2>. QED  BY <2>3, <2>4, <2>5, FS_Subset, FS_CardinalityType
<1>2. Cardinality(Below(M, p)) \in Nat
  BY RankBound
<1>3. p \in Nat /\ q \in Nat
  BY PortsAssumption
<1>4. ~ (p < q) /\ ~ (q < p)
  BY <1>1, <1>2
<1>. QED  BY <1>3, <1>4

LEMMA MemberRank ==
  ASSUME NEW M \in SUBSET Ports, NEW p \in M, NEW i \in Nat, i < Cardinality(M)
  PROVE  Member(M, i) = p <=> Cardinality(Below(M, p)) = i
<1>1. \E q \in M : Cardinality(Below(M, q)) = i
  BY MemberRanked
<1>2. Member(M, i) \in M /\ Cardinality(Below(M, Member(M, i))) = i
  BY <1>1 DEF Member, Below
<1>. QED  BY <1>2, RankUnique

\* A port of rank i is given the i-th slice, and the i-th of the slots left over if there is one.
LEMMA OwnedSlots ==
  ASSUME NEW M \in SUBSET Ports, NEW p \in M
  PROVE  LET n     == Cardinality(M)
             share == Slots \div n
             i     == Cardinality(Below(M, p))
         IN  {h \in Slot : Owner(M, h) = p}
             = (i * share .. i * share + share - 1) \cup ({share * n + i} \cap Slot)
<1>. DEFINE n == Cardinality(M)  share == Slots \div n  i == Cardinality(Below(M, p))
<1>1. n \in Nat /\ i \in Nat /\ i < n
  <2>1. IsFiniteSet(M)
    BY PortsAssumption, FS_Subset
  <2>. QED  BY <2>1, FS_CardinalityType, RankBound
<1>2. \A j \in Nat : j < n => (Member(M, j) = p <=> j = i)
  BY MemberRank
<1>3. \A h \in Slot : Owner(M, h) = Member(M, IF h < share * n THEN h \div share ELSE h - share * n)
  BY DEF Owner
<1>. SUFFICES {h \in Slot : Owner(M, h) = p}
              = (i * share .. i * share + share - 1) \cup ({share * n + i} \cap Slot)
  OBVIOUS
<1>. HIDE DEF n, i
<1>4. share \in Nat /\ share * n \in Nat /\ share * n <= Slots /\ Slots - share * n < n
  BY <1>1, SlotsAssumption
<1>. HIDE DEF share
<1>. DEFINE a == i * share
<1>5. a \in Nat /\ a + share <= share * n
  <2>1. a + share = (i + 1) * share /\ i + 1 <= n
    BY <1>1, <1>4
  <2>2. (i + 1) * share <= n * share
    BY <1>1, <1>4, <2>1
  <2>. QED  BY <1>1, <1>4, <2>1, <2>2
<1>6. \A h \in Nat : share > 0 => (h \div share = i <=> a <= h /\ h <= a + share - 1)
  BY <1>1, <1>4
<1>. HIDE DEF a
<1>7. \A h \in Slot : h \in Nat /\ h < Slots
  BY SlotsAssumption DEF Slot
<1>8. ASSUME NEW h \in Slot
      PROVE  Owner(M, h) = p <=> h \in a .. a + share - 1 \/ h = share * n + i
  <2>1. CASE h < share * n
    <3>1. share > 0
      BY <1>1, <1>4, <1>7, <2>1
    <3>2. h \div share \in Nat /\ h \div share < n
      BY <1>1, <1>4, <1>7, <2>1, <3>1
    <3>3. Owner(M, h) = p <=> h \div share = i
      BY <1>2, <1>3, <2>1, <3>2
    <3>. QED  BY <1>1, <1>4, <1>5, <1>6, <1>7, <2>1, <3>1, <3>3
  <2>2. CASE ~ (h < share * n)
    <3>. DEFINE b == share * n
    <3>1. b \in Nat /\ Slots - b < n /\ ~ (h < b) /\ a + share <= b
      BY <1>4, <1>5, <2>2
    <3>. HIDE DEF b
    <3>2. h - b \in Nat /\ h - b < n
      BY <1>1, <1>7, <3>1, SlotsAssumption
    <3>3. Owner(M, h) = p <=> h - b = i
      BY <1>2, <1>3, <2>2, <3>2 DEF b
    <3>4. Owner(M, h) = p <=> h \in a .. a + share - 1 \/ h = b + i
      BY <1>1, <1>4, <1>5, <1>7, <3>1, <3>3
    <3>. QED  BY <3>4 DEF b
  <2>. QED  BY <2>1, <2>2
<1>9. a .. a + share - 1 \subseteq Slot
  BY <1>1, <1>4, <1>5, SlotsAssumption DEF Slot
<1>. QED  BY <1>8, <1>9 DEF a

LEMMA SharesEven ==
  ASSUME NEW M \in SUBSET Ports, NEW p \in M
  PROVE  LET share == Slots \div Cardinality(M)
         IN  /\ share \in Nat
             /\ Cardinality({h \in Slot : Owner(M, h) = p}) \in {share, share + 1}
<1>. DEFINE n == Cardinality(M)  share == Slots \div n  i == Cardinality(Below(M, p))
            slice == i * share .. i * share + share - 1
            x == share * n + i
<1>1. n \in Nat /\ i \in Nat /\ i < n
  <2>1. IsFiniteSet(M)
    BY PortsAssumption, FS_Subset
  <2>. QED  BY <2>1, FS_CardinalityType, RankBound
<1>2. {h \in Slot : Owner(M, h) = p} = slice \cup ({x} \cap Slot)
  BY OwnedSlots
<1>. SUFFICES share \in Nat /\ Cardinality(slice \cup ({x} \cap Slot)) \in {share, share + 1}
  BY <1>2
<1>. HIDE DEF n, i
<1>3. share \in Nat
  BY <1>1, SlotsAssumption
<1>. HIDE DEF share
<1>4. i * share \in Nat /\ i * share + share <= x /\ x \in Nat
  <2>1. i * share + share = (i + 1) * share /\ i + 1 <= n
    BY <1>1, <1>3
  <2>2. (i + 1) * share <= n * share
    BY <1>1, <1>3, <2>1
  <2>. QED  BY <1>1, <1>3, <2>1, <2>2
<1>5. IsFiniteSet(slice) /\ Cardinality(slice) = share
  <2>. DEFINE b == i * share
  <2>1. b \in Nat
    BY <1>4
  <2>. HIDE DEF b
  <2>2. IsFiniteSet(b .. b + share - 1)
        /\ Cardinality(b .. b + share - 1) = IF b > b + share - 1 THEN 0 ELSE b + share - 1 - b + 1
    BY <1>3, <2>1, FS_Interval
  <2>. QED  BY <1>3, <2>1, <2>2 DEF b
<1>6. x \notin slice
  BY <1>3, <1>4
<1>. HIDE DEF slice, x
<1>7. CASE x \in Slot
  <2>1. slice \cup ({x} \cap Slot) = slice \cup {x}
    BY <1>7
  <2>. QED  BY <1>3, <1>5, <1>6, <2>1, FS_AddElement
<1>8. CASE x \notin Slot
  <2>1. slice \cup ({x} \cap Slot) = slice
    BY <1>8
  <2>. QED  BY <1>3, <1>5, <2>1
<1>. QED  BY <1>3, <1>7, <1>8

-----------------------------------------------------------------------------
(* Every group that its own port leads and whose hash map is not cleared was *)
(* last sliced for some of its members.                                      *)

SlicedFor(t, g, M) == \A h \in Slot : t.weight[h] \cap t.members[g] = {Owner(M, h)}
Sliced(t, g) == \E M \in SUBSET t.members[g] : M # {} /\ SlicedFor(t, g, M)
AllSliced(t, bare) == \A g \in Ports \ bare : Heads(t, g) => Sliced(t, g)

LEMMA SliceKept ==
  ASSUME NEW t, NEW u, NEW g \in Ports, Sliced(t, g), u.members[g] = t.members[g],
         \A h \in Slot : u.weight[h] \cap u.members[g] = t.weight[h] \cap t.members[g]
  PROVE  Sliced(u, g)
BY DEF Sliced, SlicedFor

LEMMA SingleSliced ==
  ASSUME NEW u, NEW g \in Ports, u.members[g] = {g}, \A h \in Slot : g \in u.weight[h]
  PROVE  Sliced(u, g)
<1>1. \A h \in Slot : Owner({g}, h) = g
  BY OwnerIsMember
<1>2. \A h \in Slot : u.weight[h] \cap u.members[g] = {Owner({g}, h)}
  BY <1>1
<1>. QED  BY <1>2 DEF Sliced, SlicedFor

LEMMA SinglesSliced ==
  ASSUME NEW t, WellFormed(t), NEW P \in SUBSET Ports, NEW bare \in SUBSET Ports,
         AllSliced(t, bare), \A g \in Ports \ P : t.members[g] \cap P = {}
  PROVE  AllSliced(One2one(t, P), bare \ P)
<1>. DEFINE u == One2one(t, P)
<1>1. /\ \A p \in Ports : u.la[p] = IF p \in P THEN p ELSE t.la[p]
      /\ \A p \in Ports : u.members[p] = IF p \in P THEN {p} ELSE t.members[p]
      /\ \A h \in Slot : u.weight[h] = t.weight[h] \cup P
  BY One2oneEntries
<1>. SUFFICES ASSUME NEW g \in Ports \ (bare \ P), Heads(u, g) PROVE Sliced(u, g)
  BY DEF AllSliced
<1>. HIDE DEF u
<1>2. CASE g \in P
  <2>1. u.members[g] = {g}
    BY <1>1, <1>2
  <2>2. ASSUME NEW h \in Slot PROVE g \in u.weight[h]
    <3>1. u.weight[h] = t.weight[h] \cup P
      BY <1>1
    <3>. QED  BY <1>2, <3>1
  <2>. QED  BY <2>1, <2>2, SingleSliced
<1>3. CASE g \notin P
  <2>1. Heads(t, g) /\ u.members[g] = t.members[g]
    BY <1>1, <1>3 DEF Heads
  <2>2. \A h \in Slot : u.weight[h] \cap u.members[g] = t.weight[h] \cap t.members[g]
    BY <1>1, <1>3, <2>1
  <2>. QED  BY <1>3, <2>1, <2>2, SliceKept DEF AllSliced
<1>. QED  BY <1>2, <1>3

LEMMA GroupSetSliced ==
  ASSUME NEW t, WellFormed(t), NEW g \in Ports, NEW M \in SUBSET Ports, g \in M,
         NEW bare \in SUBSET Ports,
         \A k \in Ports \ (M \cup bare) : Heads(t, k) => Sliced(t, k) /\ t.members[k] \cap M = {}
  PROVE  AllSliced(GroupSet(t, g, M), bare)
<1>. DEFINE u == GroupSet(t, g, M)
<1>1. /\ \A p \in Ports : u.la[p] = IF p \in M THEN g ELSE t.la[p]
      /\ \A p \in Ports : u.members[p] = IF p = g THEN M ELSE t.members[p]
  BY GroupSetEntries
<1>2. \A h \in Slot : Owner(M, h) \in M /\ u.weight[h] = (t.weight[h] \ M) \cup {Owner(M, h)}
  BY OwnerIsMember DEF GroupSet, HashMapSet
<1>. SUFFICES ASSUME NEW k \in Ports \ bare, Heads(u, k) PROVE Sliced(u, k)
  BY DEF AllSliced
<1>. HIDE DEF u
<1>3. CASE k = g
  <2>1. u.members[k] = M /\ \A h \in Slot : u.weight[h] \cap u.members[k] = {Owner(M, h)}
    BY <1>1, <1>2, <1>3
  <2>. QED  BY <2>1 DEF Sliced, SlicedFor
<1>4. CASE k # g
  <2>1. k \notin M /\ Heads(t, k) /\ u.members[k] = t.members[k]
    BY <1>1, <1>4 DEF Heads
  <2>2. Sliced(t, k) /\ t.members[k] \cap M = {}
    BY <2>1
  <2>3. \A h \in Slot : u.weight[h] \cap u.members[k] = t.weight[h] \cap t.members[k]
    BY <1>2, <2>1, <2>2
  <2>. QED  BY <2>1, <2>2, <2>3, SliceKept
<1>. QED  BY <1>3, <1>4

\* jl61xx_link_aggregation_portmask_set
LEMMA PortmaskSetSliced ==
  ASSUME NEW t, Consistent(t), NEW g \in Ports, NEW M \in SUBSET Ports, g \in M, Allowed(t, g, M),
         NEW bare \in SUBSET Ports, AllSliced(t, bare)
  PROVE  AllSliced(GroupSet(Regrouped(t, g, M), g, M), bare \ (t.members[g] \cup M))
<1>. DEFINE left == t.members[g] \ M
            r    == Regrouped(t, g, M)
            kept == bare \ (t.members[g] \cup M)
<1>1. /\ WellFormed(r)
      /\ \A q \in Ports : r.la[q] = IF q \in left THEN q ELSE t.la[q]
      /\ \A q \in Ports : r.members[q] = IF q \in left THEN {q}
                                         ELSE IF q \in M \ t.members[g] THEN {}
                                         ELSE t.members[q]
      /\ \A h \in Slot : r.weight[h] = t.weight[h] \cup left
  BY RegroupedEntries DEF Consistent
<1>2. \A q \in left : q # g /\ q \in Ports /\ t.la[q] = g
  BY DEF Consistent, WellFormed, SendsOrLeftover, Alone
<1>3. ASSUME NEW k \in Ports \ (M \cup kept), Heads(r, k)
      PROVE  Sliced(r, k) /\ r.members[k] \cap M = {}
  <2>1. CASE k \in left
    <3>1. r.members[k] = {k} /\ \A h \in Slot : k \in r.weight[h]
      BY <1>1, <2>1
    <3>2. Sliced(r, k)
      BY <3>1, SingleSliced
    <3>. QED  BY <3>1, <3>2
  <2>2. CASE k \notin left
    <3>1. Heads(t, k) /\ r.members[k] = t.members[k] /\ k # g
      BY <1>1, <1>3, <2>2 DEF Heads
    <3>2. \A p \in t.members[k] : p \in Ports /\ t.la[p] = k
      BY <3>1, MembersSend DEF Consistent, WellFormed
    <3>3. ASSUME NEW p \in M, p \in t.members[k] PROVE FALSE
      <4>1. k \in TrunkOf(t, p) /\ g \notin TrunkOf(t, p)
        BY <3>1, <3>2, <3>3 DEF TrunkOf
      <4>2. t.members[k] = {p}
        BY <4>1 DEF Allowed
      <4>. QED  BY <3>1, <3>3, <4>2 DEF Heads
    <3>4. \A h \in Slot : r.weight[h] \cap r.members[k] = t.weight[h] \cap t.members[k]
      BY <1>1, <1>2, <3>1, <3>2
    <3>5. k \notin bare
      BY <1>3, <2>2
    <3>. QED  BY <3>1, <3>3, <3>4, <3>5, SliceKept DEF AllSliced
  <2>. QED  BY <2>1, <2>2
<1>4. kept \in SUBSET Ports
  OBVIOUS
<1>. HIDE DEF r, kept
<1>5. AllSliced(GroupSet(r, g, M), kept)
  BY <1>1, <1>3, <1>4, GroupSetSliced
<1>. QED  BY <1>5 DEF r, kept

\* _link_aggregation_port_del of the leader
LEMMA LeaderDelSliced ==
  ASSUME NEW t, Consistent(t), NEW g \in Ports, Heads(t, g), t.members[g] \ {g} # {},
         NEW bare \in SUBSET Ports, AllSliced(t, bare)
  PROVE  AllSliced(PortDeleted(t, g, g), bare \ t.members[g])
<1>. DEFINE P == t.members[g]  rest == P \ {g}  o == GroupClear(t, g)  c == Lowest(rest)
            kept == bare \ P
<1>1. /\ P \in SUBSET Ports /\ g \in P /\ rest \in SUBSET Ports /\ kept \in SUBSET Ports
      /\ \A k \in Ports \ P : t.members[k] \cap P = {}
  BY GroupsSeparate DEF Heads
<1>2. c \in rest /\ c \in Ports
  BY <1>1, LowestInSet
<1>3. PortDeleted(t, g, g) = GroupSet(o, c, rest) /\ o = One2one(t, P) /\ WellFormed(t)
  BY GroupClearIsSingles DEF PortDeleted, Consistent
<1>. HIDE DEF o, c, P, kept
<1>4. /\ WellFormed(o) /\ AllSliced(o, kept)
      /\ \A p \in Ports : o.members[p] = IF p \in P THEN {p} ELSE t.members[p]
  BY <1>1, <1>3, One2oneEntries, SinglesSliced DEF kept
<1>5. \A k \in Ports \ (rest \cup kept) : Heads(o, k) => Sliced(o, k) /\ o.members[k] \cap rest = {}
  BY <1>1, <1>4 DEF AllSliced
<1>. HIDE DEF rest
<1>6. AllSliced(GroupSet(o, c, rest), kept)
  BY <1>1, <1>2, <1>4, <1>5, GroupSetSliced
<1>. QED  BY <1>3, <1>6 DEF kept, P

\* the hash map of one group is written: the other groups' slots stay
LEMMA OtherSliced ==
  ASSUME NEW t, Consistent(t), NEW g \in Ports, Heads(t, g), NEW u, NEW k \in Ports, k # g,
         Heads(t, k), Sliced(t, k), u.members = t.members,
         \A h \in Slot : u.weight[h] \ t.members[g] = t.weight[h] \ t.members[g]
  PROVE  Sliced(u, k)
<1>1. t.members[k] \cap t.members[g] = {}
  BY MembersSend
<1>2. \A h \in Slot : u.weight[h] \cap t.members[k] = t.weight[h] \cap t.members[k]
  BY <1>1
<1>. QED  BY <1>2, SliceKept

LEMMA NextSliced ==
  ASSUME WellUsed, IInv, AllSliced(tab, cleared), [Next]_vars
  PROVE  AllSliced(tab', cleared')
<1>1. Consistent(tab) /\ WellFormed(tab) /\ cleared \in SUBSET Ports
  BY DEF IInv, Consistent
<1>2. ASSUME NEW e \in BOOLEAN, EnableSet(e) PROVE AllSliced(tab', cleared')
  <2>1. CASE e = TRUE
    <3>. DEFINE P == Ports \ UNION {tab.members[g] : g \in Ports}
    <3>1. tab' = One2one(tab, P) /\ cleared' = cleared
      BY <1>2, <2>1 DEF EnableSet, AfterHelper, RestOne2one, WellUsed
    <3>2. P \in SUBSET Ports /\ \A g \in Ports : tab.members[g] \cap P = {}
      OBVIOUS
    <3>. HIDE DEF P
    <3>3. AllSliced(One2one(tab, P), cleared \ P)
      BY <1>1, <3>2, SinglesSliced
    <3>. QED  BY <3>1, <3>3 DEF AllSliced
  <2>2. CASE e = FALSE
    <3>1. tab' = Empty
      BY <1>2, <2>2 DEF EnableSet, ClearAll, WellUsed
    <3>2. \A g \in Ports : ~ Heads(Empty, g)
      BY DEF Heads, Empty
    <3>. QED  BY <3>1, <3>2 DEF AllSliced
  <2>. QED  BY <2>1, <2>2
<1>3. ASSUME NEW g \in Ports, NEW M \in SUBSET Ports, PortmaskSet(g, M)
      PROVE  AllSliced(tab', cleared')
  <2>1. g \in M /\ Allowed(tab, g, M)
    BY <1>3 DEF PortmaskSet, Addable, Single, Trunk, Allowed, TrunkOf, WellUsed
  <2>2. /\ tab' = GroupSet(Regrouped(tab, g, M), g, M)
        /\ cleared' = cleared \ (tab.members[g] \cup M)
    BY <1>3 DEF PortmaskSet, AfterHelper, WellUsed
  <2>. QED  BY <1>1, <2>1, <2>2, PortmaskSetSliced
<1>4. ASSUME NEW g \in Ports, NEW p \in Ports, PortDel(g, p) PROVE AllSliced(tab', cleared')
  <2>1. Heads(tab, g) /\ p \in tab.members[g]
    BY <1>4 DEF PortDel, Nameable, Leads, Heads, WellUsed
  <2>2. tab' = PortDeleted(tab, g, p) /\ cleared' = cleared \ tab.members[g]
    BY <1>4 DEF PortDel, AfterHelper, WellUsed
  <2>3. CASE p = g /\ tab.members[g] \ {g} = {}
    <3>1. tab' = One2one(tab, tab.members[g])
      BY <1>1, <2>1, <2>2, <2>3, GroupClearIsSingles DEF PortDeleted
    <3>. QED  BY <1>1, <2>1, <2>2, <3>1, GroupsSeparate, SinglesSliced
  <2>4. CASE p = g /\ tab.members[g] \ {g} # {}
    BY <1>1, <2>1, <2>2, <2>4, LeaderDelSliced
  <2>5. CASE p # g
    <3>. DEFINE rest == tab.members[g] \ {p}
    <3>1. tab' = GroupSet(Regrouped(tab, g, rest), g, rest)
      BY <1>1, <2>1, <2>2, <2>5, MemberDelIsPortmaskSet
    <3>2. rest \in SUBSET Ports /\ g \in rest /\ tab.members[g] \cup rest = tab.members[g]
      BY <1>1, <2>1, <2>5 DEF Heads, WellFormed
    <3>3. Allowed(tab, g, rest)
      BY <1>1, <2>1, MembersSend DEF Allowed, TrunkOf
    <3>. HIDE DEF rest
    <3>. QED  BY <1>1, <2>2, <3>1, <3>2, <3>3, PortmaskSetSliced
  <2>. QED  BY <2>3, <2>4, <2>5
<1>5. ASSUME NEW g \in Ports, GroupDel(g) PROVE AllSliced(tab', cleared')
  <2>1. Heads(tab, g)
    BY <1>5 DEF GroupDel, Nameable, Leads, Heads, WellUsed
  <2>2. tab' = One2one(tab, tab.members[g]) /\ cleared' = cleared \ tab.members[g]
    BY <1>1, <1>5, <2>1, GroupClearIsSingles DEF GroupDel, AfterHelper, WellUsed
  <2>. QED  BY <1>1, <2>1, <2>2, GroupsSeparate, SinglesSliced
<1>6. ASSUME NEW g \in Ports, NEW M \in SUBSET Ports, HashMapSetFor(g, M)
      PROVE  AllSliced(tab', cleared')
  <2>1. /\ Heads(tab, g) /\ M \subseteq tab.members[g]
        /\ \A h \in Slot : tab.weight[h] \cap tab.members[g] \subseteq M
    BY <1>6 DEF HashMapSetFor, Nameable, Mappable, Leads, Heads, WellUsed
  <2>2. /\ tab'.la = tab.la /\ tab'.members = tab.members
        /\ tab'.weight = HashMapSet(tab.weight, M)
    BY <1>1, <1>6 DEF HashMapSetFor, AfterHelper, WellUsed, WellFormed
  <2>3. CASE M = {}
    <3>1. cleared' = cleared /\ tab'.weight = tab.weight
      BY <1>6, <2>2, <2>3 DEF HashMapSetFor, HashMapSet
    <3>. QED  BY <2>2, <3>1 DEF AllSliced, Heads, Sliced, SlicedFor
  <2>4. CASE M # {}
    <3>1. cleared' = cleared \ {g}
      BY <1>6, <2>4 DEF HashMapSetFor
    <3>2. \A h \in Slot : /\ Owner(M, h) \in M
                          /\ tab'.weight[h] = (tab.weight[h] \ M) \cup {Owner(M, h)}
      BY <2>2, <2>4, OwnerIsMember DEF HashMapSet
    <3>3. ASSUME NEW k \in Ports \ cleared', Heads(tab', k) PROVE Sliced(tab', k)
      <4>1. Heads(tab, k)
        BY <2>2, <3>3 DEF Heads
      <4>2. CASE k = g
        <5>1. \A h \in Slot : tab'.weight[h] \cap tab'.members[k] = {Owner(M, h)}
          BY <2>1, <2>2, <3>2, <4>2
        <5>. QED  BY <2>1, <2>2, <2>4, <4>2, <5>1 DEF Sliced, SlicedFor
      <4>3. CASE k # g
        <5>1. Sliced(tab, k)
          BY <3>1, <4>1, <4>3 DEF AllSliced
        <5>2. \A h \in Slot : tab'.weight[h] \ tab.members[g] = tab.weight[h] \ tab.members[g]
          BY <2>1, <3>2
        <5>. QED  BY <1>1, <2>1, <2>2, <4>1, <4>3, <5>1, <5>2, OtherSliced
      <4>. QED  BY <4>2, <4>3
    <3>. QED  BY <3>3 DEF AllSliced
  <2>. QED  BY <2>3, <2>4
<1>7. ASSUME NEW g \in Ports, NEW M \in SUBSET Ports, HashMapClearFor(g, M)
      PROVE  AllSliced(tab', cleared')
  <2>1. Heads(tab, g) /\ M \subseteq tab.members[g] /\ cleared' = cleared \cup {g}
    BY <1>7 DEF HashMapClearFor, Nameable, Leads, Heads, WellUsed
  <2>2. /\ tab'.la = tab.la /\ tab'.members = tab.members
        /\ \A h \in Slot : tab'.weight[h] = tab.weight[h] \ M
    BY <1>1, <1>7 DEF HashMapClearFor, HashMapClear, AfterHelper, WellUsed, WellFormed
  <2>3. ASSUME NEW k \in Ports \ cleared', Heads(tab', k) PROVE Sliced(tab', k)
    <3>1. Heads(tab, k) /\ k # g /\ Sliced(tab, k)
      BY <2>1, <2>2, <2>3 DEF Heads, AllSliced
    <3>2. \A h \in Slot : tab'.weight[h] \ tab.members[g] = tab.weight[h] \ tab.members[g]
      BY <2>1, <2>2
    <3>. QED  BY <1>1, <2>1, <2>2, <3>1, <3>2, OtherSliced
  <2>. QED  BY <2>3 DEF AllSliced
<1>8. CASE UNCHANGED vars \/ \E f \in Factors : HashfactorSet(f)
  BY <1>8 DEF vars, HashfactorSet
<1>. QED  BY <1>2, <1>3, <1>4, <1>5, <1>6, <1>7, <1>8 DEF Next

\* Two members of a group that is sliced differ by at most the slot that is left over.
LEMMA SlicedShares ==
  ASSUME NEW g \in Ports, Sliced(tab, g), tab.members[g] \subseteq Ports,
         NEW p \in tab.members[g], NEW q \in tab.members[g], Share(q) > 0
  PROVE  Share(p) <= Share(q) + 1
<1>1. PICK M \in SUBSET tab.members[g] : M # {} /\ SlicedFor(tab, g, M)
  BY DEF Sliced
<1>. DEFINE share == Slots \div Cardinality(M)
<1>2. M \in SUBSET Ports /\ \A h \in Slot : Owner(M, h) \in M
  BY <1>1, OwnerIsMember
<1>3. ASSUME NEW r \in tab.members[g]
      PROVE  {h \in Slot : r \in tab.weight[h]} = {h \in Slot : Owner(M, h) = r}
  BY <1>1 DEF SlicedFor
<1>4. \A r \in M : share \in Nat /\ Share(r) \in {share, share + 1}
  BY <1>2, <1>3, SharesEven DEF Share
<1>5. ASSUME NEW r \in tab.members[g] \ M PROVE Share(r) = 0
  <2>1. {h \in Slot : Owner(M, h) = r} = {}
    BY <1>2
  <2>. QED  BY <1>3, <2>1, FS_EmptySet DEF Share
<1>6. q \in M
  BY <1>5
<1>. HIDE DEF share
<1>7. CASE p \in M
  BY <1>4, <1>6, <1>7
<1>8. CASE p \notin M
  BY <1>4, <1>5, <1>6, <1>8
<1>. QED  BY <1>7, <1>8

(* The ports of a group that send at all send the same number of hash slots, *)
(* give or take the one that is left over, for any number of ports and slots *)
(* and every legal sequence of calls.                                        *)
THEOREM SharesAreEqual == ASSUME WellUsed PROVE Spec => []EqualShares
<1>1. Init => AllSliced(tab, cleared)
  <2>1. \A g \in Ports : ~ Heads(Empty, g)
    BY DEF Heads, Empty
  <2>. QED  BY <2>1 DEF Init, AllSliced
<1>2. IInv /\ AllSliced(tab, cleared) /\ [Next]_vars => (IInv /\ AllSliced(tab, cleared))'
  <2>1. IInv /\ AllSliced(tab, cleared) /\ [Next]_vars => AllSliced(tab', cleared')
    BY NextSliced
  <2>. QED  BY <2>1, NextIInv DEF AllSliced, Heads, Sliced, SlicedFor
<1>3. IInv /\ AllSliced(tab, cleared) => EqualShares
  <2>1. ASSUME IInv, AllSliced(tab, cleared), NEW g \in Ports \ cleared, Leads(g),
               NEW p \in tab.members[g], NEW q \in tab.members[g], Share(q) > 0
        PROVE  Share(p) <= Share(q) + 1
    BY <2>1, SlicedShares DEF IInv, Consistent, WellFormed, AllSliced, Leads, Heads
  <2>. QED  BY <2>1 DEF EqualShares
<1>. QED  BY <1>1, <1>2, <1>3, InitIInv, PTL DEF Spec
=============================================================================
