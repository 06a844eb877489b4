---------------------------- MODULE MC_IdaAccess ----------------------------
(* Values for the constants of IdaAccess that a .cfg cannot write.          *)
EXTENDS IdaAccess

Read(a, n)   == [op |-> "read", addr |-> a, n |-> n, words |-> <<>>]
Write(a, ws) == [op |-> "write", addr |-> a, n |-> Len(ws), words |-> ws]

Addresses == {0, 1}

\* A burst each way over the same registers, and one whose size wraps to none.
Calls == { Read(0, 2), Write(0, <<1, 1>>), Read(0, 4) }
=============================================================================
