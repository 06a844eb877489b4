------------------------------- MODULE Trunks -------------------------------
(***************************************************************************)
(* What the link aggregation calls (jl_trunk.h) promise their user: every  *)
(* port carries the traffic of exactly one aggregation, its own or a       *)
(* trunk's, and a trunk is named by one of its ports.                      *)
(***************************************************************************)
CONSTANTS Ports, None
VARIABLES on, group

vars == <<on, group>>

Members(g) == {p \in Ports : group[p] = g}
Single(p)  == group[p] = None \/ Members(p) = {p}

Init == on = FALSE /\ group = [p \in Ports |-> None]

\* jl_link_aggregation_enable_set
SwitchOn  == /\ on' = TRUE
             /\ group' = [p \in Ports |-> IF group[p] = None THEN p ELSE group[p]]
SwitchOff == /\ on' = FALSE
             /\ group' = [p \in Ports |-> None]

\* jl_link_aggregation_portmask_set: g's trunk becomes M, what leaves it is single
Form(g, M) ==
  /\ g \in M
  /\ \A p \in M : group[p] = g \/ Single(p)
  /\ group' = [p \in Ports |-> IF p \in M THEN g ELSE IF group[p] = g THEN p ELSE group[p]]
  /\ UNCHANGED on

\* jl_link_aggregation_port_del: the trunk survives the loss of its name
Leave(g, p) ==
  /\ group[g] = g /\ group[p] = g
  /\ \E heir \in Members(g) :
       /\ heir = p <=> Members(g) = {p}
       /\ g # p => heir = g
       /\ group' = [q \in Ports |-> IF q = p THEN p ELSE IF group[q] = g THEN heir ELSE group[q]]
  /\ UNCHANGED on

\* jl_link_aggregation_group_del
Dissolve(g) ==
  /\ group[g] = g
  /\ group' = [p \in Ports |-> IF group[p] = g THEN p ELSE group[p]]
  /\ UNCHANGED on

Next == \/ SwitchOn \/ SwitchOff
        \/ \E g \in Ports, M \in SUBSET Ports : Form(g, M)
        \/ \E g, p \in Ports : Leave(g, p)
        \/ \E g \in Ports : Dissolve(g)

Spec == Init /\ [][Next]_vars
=============================================================================
