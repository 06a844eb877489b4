---------------------------- MODULE MC_MacTable ----------------------------
(* MacTable for TLC: one bucket shared by all addresses.                    *)
EXTENDS MacTable, TLC

CONSTANTS m1, m2, m3, p, A

MCWay   == [m \in Macs |-> [i \in WayNums |-> i]]
MCFidOf == [m \in Macs \union {NoMac} |-> IF m = m3 THEN "f1" ELSE "f0"]

\* one address in a group; the other to a port, or to all ports, the mask that marks
\* a free group
TableWanted == [m \in Macs |-> IF m = m1 THEN {A} ELSE {Free, p}]

\* one in a group, the others to a port
StaticWanted == [m \in Macs |-> IF m = m1 THEN {A} ELSE {p}]

FewClears == {<<"static", NoWhere>>, <<"mac", m1>>}
AllClears ==
  {<<"static", NoWhere>>} \union ({"sport"} \X Ports) \union ({"mask"} \X Masks)
    \union ({"fid"} \X Fids) \union ({"mac"} \X Macs)
=============================================================================
