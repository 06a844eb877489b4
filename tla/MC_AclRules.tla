---------------------------- MODULE MC_AclRules ----------------------------
(* Values for the constants of AclRules that a .cfg cannot write.          *)
EXTENDS AclRules

CONSTANTS a, b, c, t, m

\* a, b and c collide in both tables; slot 11 is of a column no key here hashes to.
LargeOf == [k \in Keys |-> IF k = t THEN {} ELSE {10}]
SmallOf == [k \in Keys |-> IF k = t THEN {} ELSE {20}]

\* A rule of one key, one with a key for the TCAM, and one whose keys do not fit but are so
\* many that a byte holds none of their number.
Wishlist == { [keys |-> {a},          counter |-> 0, meter |-> NoMeter],
              [keys |-> {b, t},       counter |-> 1, meter |-> m],
              [keys |-> {a, b, c, t}, counter |-> 0, meter |-> m] }

Ranges == { <<"smac", 0>> }
=============================================================================
