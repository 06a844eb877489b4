--------------------------- MODULE MC_PortIsolation ---------------------------
(* Values for the constants of PortIsolation that a .cfg cannot write.      *)
EXTENDS PortIsolation
CONSTANTS d1, d2, g1, g2

\* two ports, two others that share one with them, all (the pairs of both), and none
MCMasks == {{}, {0, 1}, {1, 2}, {0, 1, 2}}

\* all three, and two of them: the pair 1-2 is of both
Overlapping == {{1, 2}, {0, 1, 2}}

\* the calls by port: the ports 0 and 2, which two groups keep apart together with 1
MCSingleMasks == {{}, {0}}

\* both groups on the first device, none on the second
OneDevice == {<<d1, g1>>, <<d1, g2>>}

\* both on the first, one of them on the second too
BothDevices == {<<d1, g1>>, <<d1, g2>>, <<d2, g1>>}
=============================================================================
