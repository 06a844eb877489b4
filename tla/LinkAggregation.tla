-------------------------- MODULE LinkAggregation --------------------------
(***************************************************************************)
(* Link aggregation (jl61xx_drv_trunk.c and its jl6107x twin).  The driver *)
(* keeps no state: every call reads and rewrites three register tables.    *)
(*   tab.la[p]       LINK_AGGREGATION_MEMBERSHIP, the group p sends to     *)
(*   tab.members[g]  LINK_AGGREGATION_TO_PHYSICAL_PORTS_MEMBERS            *)
(*   tab.weight[h]   LINK_AGGREGATE_WEIGHT, the ports that send what       *)
(*                   hashes to slot h                                      *)
(* Ports are chip ports; a call names them by their logical numbers, which *)
(* jlxx_port_l2c and portmask_l2c map one to one.  The range checks of     *)
(* port numbers are left out: they refuse and change nothing.  One call    *)
(* runs at a time.                                                         *)
(***************************************************************************)
EXTENDS Integers, FiniteSets

CONSTANTS
  Ports,      \* the chip ports of the switch core port mask
  Slots,      \* the hash slots, 256 in the chip
  Factors,    \* hash factor bit masks in use
  Faulty      \* whether the bus can fail in a helper

ASSUME PortsAssumption   == Ports \subseteq Nat /\ IsFiniteSet(Ports)
ASSUME SlotsAssumption   == Slots \in Nat \ {0}
ASSUME FactorsAssumption == 0 \in Factors
ASSUME FaultAssumption   == Faulty \in BOOLEAN

VARIABLES
  enable,     \* LINK_AGGREGATION_CTRL: enable
  factor,     \* LINK_AGGREGATION_CTRL: the hash factor bits
  tab,        \* the tables
  cleared     \* history: groups whose hash map the client has cleared and not yet set again

vars == <<enable, factor, tab, cleared>>

Slot  == 0 .. Slots - 1
Empty == [ la      |-> [p \in Ports |-> 0],
           members |-> [p \in Ports |-> {}],
           weight  |-> [h \in Slot |-> {}] ]

TypeOK ==
  /\ enable \in BOOLEAN
  /\ factor \in Factors
  /\ tab \in [ la : [Ports -> Ports \cup {0}], members : [Ports -> SUBSET Ports],
               weight : [Slot -> SUBSET Ports] ]
  /\ cleared \in SUBSET Ports

Init == enable = FALSE /\ factor = 0 /\ tab = Empty /\ cleared = {}

-----------------------------------------------------------------------------
(* The helpers, each a function of the tables.                              *)

\* port_member[i]
Member(M, i) == CHOOSE p \in M : Cardinality({q \in M : q < p}) = i

\* Mutant: the slots that are left over go to the last member.
OwnerOfRest(M, h) ==
  LET cnt == Cardinality(M)  share == Slots \div cnt
  IN Member(M, IF h < share * cnt THEN h \div share ELSE cnt - 1)

\* the member that sends slot h: equal slices, then one slot each from the first on
Owner(M, h) ==
  LET cnt == Cardinality(M)  share == Slots \div cnt
  IN Member(M, IF h < share * cnt THEN h \div share ELSE h - share * cnt)

\* Mutant: the other members keep their bit.
HashMapShared(weight, M) ==
  IF M = {} THEN weight ELSE [h \in Slot |-> weight[h] \cup {Owner(M, h)}]

\* Mutant: hash_index <= 256
HashMapPast(weight, M) ==
  IF M = {} THEN weight ELSE [h \in 0 .. Slots |-> {Owner(M, h % Slots)}]

\* _link_aggregation_hash_map_set
HashMapSet(weight, M) ==
  IF M = {} THEN weight ELSE [h \in Slot |-> (weight[h] \ M) \cup {Owner(M, h)}]

\* _link_aggregation_hash_map_clear
HashMapClear(weight, M) == [h \in Slot |-> weight[h] \ M]

\* _link_aggregation_one_port_one2one_set, for the ports of P
One2one(t, P) ==
  [ la      |-> [p \in Ports |-> IF p \in P THEN p ELSE t.la[p]],
    members |-> [p \in Ports |-> IF p \in P THEN {p} ELSE t.members[p]],
    weight  |-> [h \in Slot |-> t.weight[h] \cup P] ]

\* _link_aggregation_one2one_set
RestOne2one(t) == One2one(t, Ports \ UNION {t.members[g] : g \in Ports})

\* _link_aggregation_group_clear
GroupClear(t, g) == One2one([t EXCEPT !.members[g] = {}], t.members[g])

\* _link_aggregation_portmask_set
GroupSet(t, g, M) ==
  [ la      |-> [p \in Ports |-> IF p \in M THEN g ELSE t.la[p]],
    members |-> [t.members EXCEPT ![g] = M],
    weight  |-> HashMapSet(t.weight, M) ]

\* Mutant: the rest is regrouped under the port that left.
PortDeletedKeepsName(t, g, p) ==
  LET rest == t.members[g] \ {p}
  IN IF rest = {} THEN GroupClear(t, g) ELSE GroupSet(GroupClear(t, g), g, rest)

Lowest(M) == CHOOSE p \in M : \A q \in M : p <= q

\* _link_aggregation_port_del of a member
PortDeleted(t, g, p) ==
  LET rest == t.members[g] \ {p}
  IN IF p = g
     THEN IF rest = {} THEN GroupClear(t, g) ELSE GroupSet(GroupClear(t, g), Lowest(rest), rest)
     ELSE One2one([ la      |-> [t.la EXCEPT ![p] = 0],
                    members |-> [t.members EXCEPT ![g] = rest],
                    weight  |-> HashMapSet(t.weight, rest) ], {p})

\* Mutant: a port that leaves keeps sending to the group.
RegroupedKeepsOld(t, g, M) ==
  [t EXCEPT !.members = [p \in Ports |-> IF p \in M \ t.members[g] THEN {} ELSE @[p]]]

\* jl61xx_link_aggregation_portmask_set up to its last helper: what leaves the
\* group is on its own, what joins it is no group any more
Regrouped(t, g, M) ==
  LET left == One2one(t, t.members[g] \ M)
  IN [left EXCEPT !.members = [p \in Ports |-> IF p \in M \ t.members[g] THEN {} ELSE @[p]]]

\* No caller looks at what a helper returns: when the bus fails in the last one
\* of a call, its work is missing and the call answers JL_ERR_OK all the same.
AfterHelper(before, after) == tab' = after \/ (Faulty /\ tab' = before)

-----------------------------------------------------------------------------
(* The client.  It names a group by the port that leads it, adds only ports  *)
(* that are in no other trunk, and clears a hash map before it sets another. *)

Leads(g)   == g \in tab.members[g] /\ tab.la[g] = g
Trunk(p)   == {g \in Ports : p \in tab.members[g] /\ tab.la[p] = g}
Single(p)  == \A g \in Trunk(p) : tab.members[g] = {p}
Addable(g, M)  == \A p \in M : g \in Trunk(p) \/ Single(p)
Nameable(g)    == Leads(g)
Mappable(g, M) == \A h \in Slot : tab.weight[h] \cap tab.members[g] \subseteq M

-----------------------------------------------------------------------------
(* The calls.                                                                *)

\* _link_aggregation_clear_all
ClearAll(t) == Empty

EnableSet(e) ==
  /\ enable' = e
  /\ IF e
     THEN AfterHelper(tab, RestOne2one(tab)) /\ UNCHANGED <<factor, cleared>>
     ELSE \/ tab' = ClearAll(tab) /\ factor' = 0 /\ cleared' = {}
          \/ Faulty /\ UNCHANGED <<tab, factor, cleared>>

PortmaskSet(g, M) ==
  /\ g \in M /\ Addable(g, M)
  /\ AfterHelper(Regrouped(tab, g, M), GroupSet(Regrouped(tab, g, M), g, M))
  /\ cleared' = cleared \ (tab.members[g] \cup M)
  /\ UNCHANGED <<enable, factor>>

PortDel(g, p) ==
  /\ Nameable(g) /\ p \in tab.members[g]
  /\ AfterHelper(tab, PortDeleted(tab, g, p))
  /\ cleared' = cleared \ tab.members[g]
  /\ UNCHANGED <<enable, factor>>

GroupDel(g) ==
  /\ Nameable(g)
  /\ AfterHelper(tab, GroupClear(tab, g))
  /\ cleared' = cleared \ tab.members[g]
  /\ UNCHANGED <<enable, factor>>

HashfactorSet(f) ==
  /\ factor' = f
  /\ UNCHANGED <<enable, tab, cleared>>

\* jl61xx_link_aggregation_hash_map_set and _clear of members
HashMapSetFor(g, M) ==
  /\ Nameable(g) /\ M \subseteq tab.members[g] /\ Mappable(g, M)
  /\ AfterHelper(tab, [tab EXCEPT !.weight = HashMapSet(@, M)])
  /\ cleared' = IF M = {} THEN cleared ELSE cleared \ {g}
  /\ UNCHANGED <<enable, factor>>

HashMapClearFor(g, M) ==
  /\ Nameable(g) /\ M \subseteq tab.members[g]
  /\ AfterHelper(tab, [tab EXCEPT !.weight = HashMapClear(@, M)])
  /\ cleared' = cleared \cup {g}
  /\ UNCHANGED <<enable, factor>>

Next ==
  \/ \E e \in BOOLEAN : EnableSet(e)
  \/ \E g \in Ports, M \in SUBSET Ports : PortmaskSet(g, M)
  \/ \E g, p \in Ports : PortDel(g, p)
  \/ \E g \in Ports : GroupDel(g)
  \/ \E f \in Factors : HashfactorSet(f)
  \/ \E g \in Ports, M \in SUBSET Ports : HashMapSetFor(g, M)
  \/ \E g \in Ports, M \in SUBSET Ports : HashMapClearFor(g, M)

Spec == Init /\ [][Next]_vars
-----------------------------------------------------------------------------
(* Properties *)

(* The two group tables tell the same: while link aggregation is on, a port  *)
(* is a member of the group it sends to, and the members of a group that is  *)
(* led by its own port are the ports that send to it.                        *)
TablesAgree ==
  enable => /\ \A p \in Ports : Leads(tab.la[p]) /\ p \in tab.members[tab.la[p]]
            /\ \A g \in Ports : Leads(g) => tab.members[g] = {p \in Ports : tab.la[p] = g}

(* One egress: a packet for a group, whichever slot it hashes to, is sent by *)
(* exactly one port of the group; never by two, and by none only while the   *)
(* client is between clearing and setting the group's hash map.              *)
OneEgress ==
  \A g \in Ports : Leads(g) => \A h \in Slot :
    LET senders == tab.weight[h] \cap tab.members[g]
    IN \/ g \in cleared /\ senders = {}
       \/ \E p \in tab.members[g] : senders = {p}

(* "Equal amount of traffic" (jl_trunk.h): the ports of a group that send at  *)
(* all send the same number of slots, give or take the one that is left over. *)
Share(p) == Cardinality({h \in Slot : p \in tab.weight[h]})
EqualShares ==
  \A g \in Ports \ cleared : Leads(g) =>
    \A p, q \in tab.members[g] : Share(q) > 0 => Share(p) <= Share(q) + 1

-----------------------------------------------------------------------------
(* The refinement: a port's group is the one its two tables agree on.        *)

None == -1

Promise == INSTANCE Trunks WITH
  on    <- enable,
  group <- [p \in Ports |-> IF Trunk(p) = {} THEN None ELSE CHOOSE g \in Trunk(p) : TRUE]

(* The tables implement the partition of the ports that jl_trunk.h offers.   *)
KeepsPartition == Promise!Spec
=============================================================================
