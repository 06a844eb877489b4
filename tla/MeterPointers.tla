--------------------------- MODULE MeterPointers ---------------------------
(***************************************************************************)
(* Who uses a meter (Meter-Marker-Policer) of the chip: for each pointer   *)
(* to one, a byte per user that says how often, and is_used                *)
(* (jl_mmp_used_info_t, jl61xx_drv_switch.c).  The functions of that file  *)
(* as functions of the bytes `num' and of the set `on' of the pointers     *)
(* that are in use.                                                        *)
(***************************************************************************)
EXTENDS Integers

CONSTANTS
  Meters,     \* the pointers
  NoMeter,    \* mmp_valid is FALSE
  ByteMod     \* 256, the width of a jl_uint8

ASSUME NoMeterAssumption == NoMeter \notin Meters
ASSUME ByteAssumption    == ByteMod \in Nat \ {0}

Users == {"adm", "smac", "dmac", "acl", "vlan"}
Bytes == 0 .. (ByteMod - 1)

\* jl61xx_set_mmp_pointer_info
NumSet(num, u, m) == [num EXCEPT ![<<m, u>>] = (@ + 1) % ByteMod]
OnSet(on, m)      == on \union {m}

\* Mutant: is_used is cleared as soon as no rule uses the meter.
OnClearByRules(num, on, m) == {p \in on : p = m => num[<<m, "acl">>] # 0}

\* jl61xx_clear_mmp_pointer_info: the byte is counted down whatever it is
NumClear(num, u, m) == [num EXCEPT ![<<m, u>>] = (@ - 1) % ByteMod]
OnClear(num, on, m) == {p \in on : p = m => \E u \in Users : num[<<m, u>>] # 0}

\* what jl61xx_get_unused_mmp_pointer chooses from
Unused(on) == Meters \ on
=============================================================================
