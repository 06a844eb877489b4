------------------------------ MODULE MacTable ------------------------------
(***************************************************************************)
(* The MAC address tables of a switch (jl61xx_drv_l2.c).                   *)
(*                                                                         *)
(* An entry has one of the slots its address and FID hash to, one per way, *)
(* or a slot of the small collision table.  It says whether it is valid    *)
(* and static, which address it is of, and where frames go: to one port,   *)
(* or to a multicast group, whose port mask is in a table of its own.  The *)
(* chip learns, moves and ages dynamic entries while the driver writes.    *)
(*                                                                         *)
(* A call looks for a slot (one step: nothing is changed before the first  *)
(* write) and then writes the tables one after the other; a clear takes    *)
(* one slot a step.  A write that fails may have been done.  A MAC here is *)
(* an address with its FID.  Not modelled: entries that drop frames, sets  *)
(* with valid = 0, the shadows of the aging tables, and the searches.      *)
(***************************************************************************)
EXTENDS Integers

CONSTANTS
  Macs, NoMac,          \* addresses; a lookup table as it is at reset
  Ways, HashNum, Cols,  \* L2_HASH_WAY_VALUE, hash slots, L2_COL_TBL_MAX_DEPTH
  Way,                  \* Way[m][i]: __l2_hash(m) + (i << L2_HASH_WIDTH)
  FidOf,                \* the FID of an address; of NoMac it is 0
  Ports, Masks,         \* chip ports and port masks: where an entry may lead
  GroupNum,             \* SWCORE_L2_MULTICAST_TABLE_NUM
  Free,                 \* L2_MULTICAST_PORTMSK_DEFAULT: the group is not in use
  ByNumber,             \* the groups that clients write themselves
  Wanted,               \* where clients and stations want an address to lead
  Clears,               \* the clears that clients call: a mode and what it selects
  NoSlot, NoWhere,      \* no slot is written, no destination
  MaxFailures           \* bound: failures of the bus

WayNums   == 0 .. Ways - 1
ColNums   == 0 .. Cols - 1
HashSlots == 0 .. HashNum - 1
ColSlots  == HashNum .. HashNum + Cols - 1
Slots     == 0 .. HashNum + Cols - 1
Groups    == 0 .. GroupNum - 1
Fids      == {FidOf[m] : m \in Macs}

ASSUME NumbersAssumption ==
  Ways \in Nat /\ HashNum \in Nat \ {0} /\ Cols \in Nat /\ GroupNum \in Nat \ {0}
ASSUME MacsAssumption   == NoMac \notin Macs /\ DOMAIN FidOf = Macs \union {NoMac}
ASSUME WayAssumption    == Way \in [Macs -> [WayNums -> HashSlots]]
ASSUME PlacesAssumption ==
  /\ Ports \intersect Groups = {} /\ Ports \intersect (Masks \union {Free}) = {}
  /\ ByNumber \subseteq Groups
  /\ Wanted \in [Macs -> SUBSET (Ports \union Masks)]
ASSUME ClearsAssumption ==
  Clears \subseteq {<<"static", NoWhere>>} \union ({"sport"} \X Ports)
    \union ({"mask"} \X Masks) \union ({"fid"} \X Fids) \union ({"mac"} \X Macs)
ASSUME NonesAssumption  == NoSlot \notin Slots /\ NoWhere \notin Ports \union Masks
ASSUME BoundAssumption  == MaxFailures \in Nat

VARIABLES
  \* the tables of the chip
  valid, static,        \* L2_AGING_TABLE, L2_AGING_COLLISION_TABLE
  lookup,               \* L2_DA_HASH_LOOKUP_TABLE, L2_LOOKUP_COLLISION_TABLE
  dst,                  \* L2_DESTINATION_TABLE: a port, or a group
  mc,                   \* L2_MULTICAST_TABLE
  \* the call that runs
  pc, slot,             \* the slot it writes, or looks at
  mac, to, stat,        \* the entry to set: its address, its place, static or not
  dest,                 \* what goes into the destination table
  by,                   \* how the slot was found
  mode, sel,            \* the clear: its mode, and what it selects
  \* history
  torn,                 \* slots left half written
  redirected,           \* groups a client gave a mask of its own
  flooded,              \* slots set to lead to all ports, the mask of a free group
  missed,               \* slots the clear that runs could not compare
  fresh,                \* slots the chip wrote after that clear had passed them
  failures

tables  == <<valid, static, lookup, dst, mc>>
call    == <<pc, slot, mac, to, stat, dest, by, mode, sel>>
history == <<torn, redirected, flooded, missed, fresh, failures>>
vars    == <<tables, call, history>>

Writing == {"group", "age", "lookup", "dst"}
Half    == {"lookup", "dst"}       \* the slot is half written
Modes   == {"static", "sport", "mask", "fid", "mac"}
Selects == Ports \union Masks \union Fids \union Macs

TypeOK ==
  /\ valid \in [Slots -> BOOLEAN]
  /\ static \in [Slots -> BOOLEAN]
  /\ lookup \in [Slots -> Macs \union {NoMac}]
  /\ dst \in [Slots -> Ports \union Groups]
  /\ mc \in [Groups -> Masks \union {Free}]
  /\ pc \in Writing \union {"idle", "clear", "done"}
  /\ slot \in Slots \union {NoSlot}
  /\ pc # "idle" <=> slot \in Slots
  /\ mac \in Macs \union {NoMac}
  /\ pc \in Writing => mac \in Macs
  /\ to \in Ports \union Masks \union {NoWhere}
  /\ pc \in Writing => to \in Ports \union Masks
  /\ pc = "group" => to \in Masks
  /\ stat \in BOOLEAN
  /\ dest \in Ports \union Groups
  /\ by \in {"none", "found", "blind", "direct"}
  /\ mode \in Modes \union {"none"}
  /\ sel \in Selects \union {NoWhere}
  /\ torn \subseteq Slots
  /\ redirected \subseteq Groups
  /\ flooded \subseteq Slots /\ missed \subseteq Slots /\ fresh \subseteq Slots
  /\ failures \in 0 .. MaxFailures

\* the tables after a reset of the chip
Init ==
  /\ valid = [s \in Slots |-> FALSE] /\ static = [s \in Slots |-> FALSE]
  /\ lookup = [s \in Slots |-> NoMac] /\ dst = [s \in Slots |-> 0]
  /\ mc = [g \in Groups |-> Free]
  /\ pc = "idle" /\ slot = NoSlot /\ mac = NoMac /\ to = NoWhere /\ stat = FALSE
  /\ dest = 0 /\ by = "none" /\ mode = "none" /\ sel = NoWhere
  /\ torn = {} /\ redirected = {} /\ flooded = {} /\ missed = {} /\ fresh = {} /\ failures = 0

-----------------------------------------------------------------------------
Fault    == failures < MaxFailures /\ failures' = failures + 1
NoFault  == UNCHANGED failures
At(next) == pc' = next /\ UNCHANGED <<slot, mac, to, stat, dest, by, mode, sel>>

CallEnds ==
  /\ pc' = "idle" /\ slot' = NoSlot /\ mac' = NoMac /\ to' = NoWhere /\ stat' = FALSE
  /\ dest' = 0 /\ by' = "none" /\ mode' = "none" /\ sel' = NoWhere

Static(s) == valid[s] /\ static[s]

-----------------------------------------------------------------------------
(* jl61xx_l2_table_set: where an entry goes                                 *)

ColSlot(i) == HashNum + i
Least(i, S) == i \in S /\ \A j \in S : i <= j

\* Mutant: a dynamic set takes any slot.
OpenToDynamic(s, st) == ~valid[s] \/ (st => ~static[s])

\* A slot that a set may take: one not in use or, by a static set, a dynamic one.
Open(s, st) == ~valid[s] \/ (st /\ ~static[s])

\* s is the slot for address m.  The compare with slot k fails: its error counts as
\* "not the same" among the hash slots, as "the same" in the collision table.  A
\* static set that finds collision slot i unused writes the hash slot of way i
\* (beyond the last way it would write other tables, which is not modelled).
Finds(m, st, k, s) ==
  LET same(r) == r # k /\ lookup[r] = m
      known   == {i \in WayNums : valid[Way[m][i]] /\ same(Way[m][i])}
      open    == {i \in WayNums : Open(Way[m][i], st)}
      spare   == {i \in ColNums : LET r == ColSlot(i) IN Open(r, st) \/ r = k \/ same(r)}
  IN  \/ \E i \in WayNums : Least(i, known) /\ s = Way[m][i]
      \/ known = {} /\ \E i \in WayNums : Least(i, open) /\ s = Way[m][i]
      \/ /\ known = {} /\ open = {}
         /\ \E i \in ColNums :
              /\ Least(i, spare)
              /\ IF st /\ ~valid[ColSlot(i)] THEN i \in WayNums /\ s = Way[m][i]
                 ELSE s = ColSlot(i)

\* Mutant: the search for a group ends at the first one.
TakesFirst(g, mask) == g = 0

\* The destination: a port, or the first group that is free or has the mask.
Takes(g, mask) ==
  /\ mc[g] \in {Free, mask}
  /\ \A h \in Groups : h < g => mc[h] \notin {Free, mask}

Starts(s, m, st, t, how) ==
  /\ slot' = s /\ mac' = m /\ stat' = st /\ to' = t /\ by' = how
  /\ \/ t \in Ports /\ dest' = t /\ pc' = "age"
     \/ t \in Masks /\ pc' = "group" /\ \E g \in Groups : Takes(g, t) /\ dest' = g
  /\ UNCHANGED <<tables, mode, sel, torn, redirected, flooded, missed, fresh>>

TableSet(m, st, t) ==
  /\ pc = "idle"
  /\ \E k \in Slots \union {NoSlot}, s \in Slots :
       /\ Finds(m, st, k, s)
       /\ \/ k = NoSlot /\ NoFault /\ Starts(s, m, st, t, "found")
          \/ k \in Slots /\ Fault /\ Starts(s, m, st, t, "blind")

\* jl61xx_l2_hash_col_table_set: the client names the slot
ColTableSet(i, m, st, t) ==
  /\ pc = "idle"
  /\ Starts(ColSlot(i), m, st, t, "direct")
  /\ NoFault

-----------------------------------------------------------------------------
(* _jl61xx_l2_tbl_update and _jl61xx_l2_col_tbl_update                      *)

WriteGroup ==
  /\ pc = "group"
  /\ LET done == [mc EXCEPT ![dest] = to] IN
     \/ mc' = done /\ At("age") /\ NoFault
     \/ mc' \in {mc, done} /\ Fault /\ CallEnds
  /\ UNCHANGED <<valid, static, lookup, dst, torn, redirected, flooded, missed, fresh>>

\* a write of the slot fails, done or not: the slot may be left half written
Tears == Fault /\ CallEnds /\ torn' = torn \union {slot}

WriteAge ==
  /\ pc = "age"
  /\ \/ /\ valid' = [valid EXCEPT ![slot] = TRUE] /\ static' = [static EXCEPT ![slot] = stat]
        /\ \/ At("lookup") /\ NoFault /\ UNCHANGED torn
           \/ Tears
     \/ Tears /\ UNCHANGED <<valid, static>>
  /\ UNCHANGED <<lookup, dst, mc, redirected, flooded, missed, fresh>>

WriteLookup ==
  /\ pc = "lookup"
  /\ \/ /\ lookup' = [lookup EXCEPT ![slot] = mac]
        /\ \/ At("dst") /\ NoFault /\ UNCHANGED torn
           \/ Tears
     \/ Tears /\ UNCHANGED lookup
  /\ UNCHANGED <<valid, static, dst, mc, redirected, flooded, missed, fresh>>

WriteDst ==
  /\ pc = "dst"
  /\ \/ /\ dst' = [dst EXCEPT ![slot] = dest]
        /\ flooded' = IF to = Free THEN flooded \union {slot} ELSE flooded \ {slot}
        /\ \/ CallEnds /\ NoFault /\ torn' = torn \ {slot}
           \/ Tears
     \/ Tears /\ UNCHANGED <<dst, flooded>>
  /\ UNCHANGED <<valid, static, lookup, mc, redirected, missed, fresh>>

\* jl61xx_l2_mc_table_set
McTableSet(g, mask) ==
  /\ pc = "idle"
  /\ mc' = [mc EXCEPT ![g] = mask] /\ redirected' = redirected \union {g}
  /\ NoFault \/ Fault
  /\ UNCHANGED <<valid, static, lookup, dst, call, torn, flooded, missed, fresh>>

-----------------------------------------------------------------------------
(* jl61xx_l2_table_clear                                                    *)

\* The entries a clear takes.  It does not ask whether they are valid, except
\* for a FID; of an address it takes every hash slot.  For a mask the code makes
\* one pass for every group that has it: here they are one pass.
Selected(s) ==
  \/ mode = "static" /\ static[s]
  \/ mode = "sport" /\ dst[s] = sel
  \/ mode = "mask" /\ dst[s] \in Groups /\ mc[dst[s]] = sel
  \/ mode = "fid" /\ valid[s] /\ FidOf[lookup[s]] = sel
  \/ mode = "mac" /\ s \in HashSlots /\ \E i \in WayNums : s = Way[sel][i]
  \/ mode = "mac" /\ s \in ColSlots /\ lookup[s] = sel

\* for a FID the entries of the collision table are written back as they were
Cleared(s) == Selected(s) /\ ~(mode = "fid" /\ s \in ColSlots)

\* Mutant: the walk begins behind the first slot.
ClearSkipsFirst(how, what) ==
  /\ pc = "idle"
  /\ pc' = "clear" /\ slot' = 1 /\ mode' = how /\ sel' = what
  /\ UNCHANGED <<tables, mac, to, stat, dest, by, history>>

Clear(how, what) ==
  /\ pc = "idle"
  /\ pc' = "clear" /\ slot' = 0 /\ mode' = how /\ sel' = what
  /\ UNCHANGED <<tables, mac, to, stat, dest, by, history>>

Wipe(s) == valid' = [valid EXCEPT ![s] = FALSE] /\ static' = [static EXCEPT ![s] = FALSE]

\* Mutant: the walk goes one slot too far.
NextSlotTooFar ==
  /\ \/ slot \in Slots /\ slot' = slot + 1 /\ UNCHANGED pc
     \/ slot \notin Slots /\ pc' = "done" /\ UNCHANGED slot
  /\ UNCHANGED <<mac, to, stat, dest, by, mode, sel>>

NextSlot ==
  /\ \/ slot + 1 \in Slots /\ slot' = slot + 1 /\ UNCHANGED pc
     \/ slot + 1 \notin Slots /\ pc' = "done" /\ UNCHANGED slot
  /\ UNCHANGED <<mac, to, stat, dest, by, mode, sel>>

ClearEnds == CallEnds /\ missed' = {} /\ fresh' = {}

\* A clear by address compares the slots of the collision table; of the result it
\* looks at "the same" only, so that one that fails is passed over.
Compares == mode = "mac" /\ slot \in ColSlots

\* any other access that fails ends the call; a clear by address has no other than
\* its compares and writes
ClearSlot ==
  /\ pc = "clear"
  /\ \/ /\ IF Cleared(slot) THEN Wipe(slot) ELSE UNCHANGED <<valid, static>>
        /\ NextSlot /\ NoFault /\ UNCHANGED <<missed, fresh>>
     \/ /\ Compares /\ Fault /\ missed' = missed \union {slot}
        /\ NextSlot /\ UNCHANGED <<valid, static, fresh>>
     \/ /\ mode # "mac" \/ Cleared(slot)
        /\ \/ Cleared(slot) /\ Wipe(slot)
           \/ UNCHANGED <<valid, static>>
        /\ Fault /\ ClearEnds
  /\ UNCHANGED <<lookup, dst, mc, torn, redirected, flooded>>

\* JL_ERR_OK
ClearReturns ==
  /\ pc = "done" /\ ClearEnds /\ NoFault
  /\ UNCHANGED <<tables, torn, redirected, flooded>>

-----------------------------------------------------------------------------
(* The chip (external).  It learns a station it does not know into an unused *)
(* slot, follows one that moves, and drops one long unheard of: aging takes  *)
(* seconds, so it never meets the entry that is being written.               *)

Passed(s) == pc = "done" \/ (pc = "clear" /\ s < slot)
Refreshes(s) == fresh' = IF Passed(s) THEN fresh \union {s} ELSE fresh

Learn(m, p, s) ==
  /\ ~valid[s] /\ (s \in ColSlots \/ \E i \in WayNums : s = Way[m][i])
  /\ \A r \in Slots : ~(valid[r] /\ lookup[r] = m)
  /\ valid' = [valid EXCEPT ![s] = TRUE] /\ static' = [static EXCEPT ![s] = FALSE]
  /\ lookup' = [lookup EXCEPT ![s] = m] /\ dst' = [dst EXCEPT ![s] = p]
  /\ torn' = torn \ {s} /\ flooded' = flooded \ {s} /\ Refreshes(s)
  /\ UNCHANGED <<mc, call, redirected, missed, failures>>

Move(p, s) ==
  /\ valid[s] /\ ~static[s] /\ lookup[s] \in Macs /\ p \in Wanted[lookup[s]]
  /\ dst' = [dst EXCEPT ![s] = p]
  /\ flooded' = flooded \ {s} /\ Refreshes(s)
  /\ UNCHANGED <<valid, static, lookup, mc, call, torn, redirected, missed, failures>>

Age(s) ==
  /\ valid[s] /\ ~static[s] /\ ~(pc \in Writing /\ s = slot)
  /\ valid' = [valid EXCEPT ![s] = FALSE]
  /\ UNCHANGED <<static, lookup, dst, mc, call, history>>

Next ==
  \/ \E m \in Macs, st \in BOOLEAN : \E t \in Wanted[m] :
       \/ TableSet(m, st, t)
       \/ \E i \in ColNums : ColTableSet(i, m, st, t)
  \/ WriteGroup \/ WriteAge \/ WriteLookup \/ WriteDst
  \/ \E g \in ByNumber, mask \in Masks : McTableSet(g, mask)
  \/ \E c \in Clears : Clear(c[1], c[2])
  \/ ClearSlot \/ ClearReturns
  \/ \E m \in Macs, s \in Slots : \E p \in Wanted[m] \intersect Ports : Learn(m, p, s)
  \/ \E p \in Ports, s \in Slots : Move(p, s)
  \/ \E s \in Slots : Age(s)

Spec == Init /\ [][Next]_vars

-----------------------------------------------------------------------------
(* Properties                                                               *)

\* Where the frames for the address in a slot go.
LeadsTo(s) == IF dst[s] \in Ports THEN dst[s] ELSE mc[dst[s]]

\* what the call that runs is in the middle of writing
InWork(s) == pc \in Half /\ s = slot

\* A valid entry leads where it was set, learned or moved to, whatever has been
\* written since into the group table it shares: no set gives a group in use to
\* another mask.  Left out: the slot being written, slots that a failed call left
\* half written, groups a client gave another mask, and the entries for all ports:
\* their group looks free, and the code gives it to the next mask that is set.
NeverElsewhere ==
  \A s \in Slots \ (torn \union flooded) :
    valid[s] /\ ~InWork(s) /\ dst[s] \notin redirected
      => lookup[s] \in Macs /\ LeadsTo(s) \in Wanted[lookup[s]]

\* A static entry is lost or changed only by a static set, a set of its own
\* address, one whose compare failed, one by the number of the slot, or a clear.
DynamicKeepsStatic ==
  [][\A s \in Slots :
       Static(s) /\ ~(Static(s)' /\ lookup'[s] = lookup[s] /\ dst'[s] = dst[s])
         => \/ pc = "clear"
            \/ s = slot /\ pc \in Writing
               /\ (stat \/ by # "found" \/ lookup[s] = mac)]_vars

\* The entries a clear is about, wherever the tables keep them.
About(s) ==
  CASE mode = "static" -> static[s]
    [] mode = "sport"  -> dst[s] = sel
    [] mode = "mask"   -> dst[s] \in Groups /\ mc[dst[s]] = sel
    [] mode = "fid"    -> FidOf[lookup[s]] = sel
    [] mode = "mac"    -> lookup[s] = sel
    [] OTHER           -> FALSE

\* A clear that answers OK leaves no valid entry it is about: none in a slot its walk
\* has passed, or in one where its hash does not lead.  Left out: slots the chip
\* wrote after the walk had passed them, and what the code leaves: slots whose compare
\* failed, which a clear by address passes over and answers OK nevertheless, and the
\* collision table's entries of a FID, which are written back as they were.
ClearComplete ==
  pc = "done" =>
    \A s \in Slots \ (missed \union fresh) :
      About(s) /\ valid[s] => mode = "fid" /\ s \in ColSlots

\* A set whose compares succeed never writes over the static entry of another
\* address ("all static, so use hash collision"; "JL_ERR_FULL means both l2 table
\* and hash collision table are full").
StaticKept ==
  by = "found" /\ pc = "age" => ~(Static(slot) /\ lookup[slot] # mac)
=============================================================================
