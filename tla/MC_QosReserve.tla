--------------------------- MODULE MC_QosReserve ---------------------------
(* QosReserve for TLC: three limits, one of them low already.              *)
EXTENDS QosReserve, TLC

MCFwXon == [i \in Pointers |-> IF i = 1 THEN 3 ELSE 9]
MCMaps  == {FwPrio, [q \in Queues |-> 1]}
MCPorts == Permutations(Ports)
=============================================================================
