------------------------------ MODULE AclRules ------------------------------
(***************************************************************************)
(* Access control rules (jl61xx_drv_acl.c; jl6107x has a copy) and the     *)
(* other users of meters: MAC address ranges and the initial admission of  *)
(* ingress packets (jl61xx_drv_qos.c).                                     *)
(*                                                                         *)
(* A rule is split into keys.  A key takes one slot of the chip: of the    *)
(* TCAM, or of the few slots of a hash table that its hash selects.  The   *)
(* driver keeps which slots each rule has, masks and counts of the slots   *)
(* taken, and how many rules share a packet counter or a meter.            *)
(*                                                                         *)
(* A call is a sequence of register accesses and allocations, one a step.  *)
(* Lists are the sets of their elements: what walks one may do so in any   *)
(* order.  Calls run one at a time; packets arrive between any two steps.  *)
(* A refused call changes nothing and is no step, and neither is one whose *)
(* only write failed: an access that fails has not been done.              *)
(***************************************************************************)
EXTENDS MeterPointers, FiniteSets

CONSTANTS
  Rules, Inputs,                  \* indexes of rules and of initial pointers
  MacRules,                       \* smac_rule[] and dmac_rule[]: <<"smac" or "dmac", index>>
  Counters, NoCounter,            \* packet counters; update_counter is off
  Keys, TcamKeys,                 \* keys, those no hash table can hold
  Wanted,                         \* what clients ask for: keys, counter and meter of a rule
  Tcam, Large, Small,             \* slots of the tables, by number
  HashLarge, HashSmall,           \* the slots a key's hash selects
  Faults,                         \* what can fail
  MaxUse, MaxFailures             \* bounds: the uses of a meter by MAC ranges; failures

Slots    == Tcam \union Large \union Small
Entries  == [key : Keys, counter : Counters \union {NoCounter}, meter : Meters \union {NoMeter}]
Wishes   == [keys : SUBSET Keys, counter : Counters \union {NoCounter}, meter : Meters \union {NoMeter}]

ASSUME RulesAssumption == Rules # {} /\ IsFiniteSet(Rules) /\ Cardinality(Rules) < ByteMod
ASSUME InputsAssumption == IsFiniteSet(Inputs) /\ Cardinality(Inputs) < ByteMod
ASSUME CountersAssumption == NoCounter \notin Counters
ASSUME MacRulesAssumption ==
  IsFiniteSet(MacRules) /\ \A r \in MacRules : r[1] \in {"smac", "dmac"}
ASSUME KeysAssumption == TcamKeys \subseteq Keys /\ "none" \notin Keys
ASSUME WantedAssumption == Wanted \subseteq Wishes
ASSUME SlotsAssumption ==
  /\ IsFiniteSet(Slots) /\ Slots \subseteq Nat
  /\ \A T \in {Tcam, Large, Small} : Cardinality(T) < ByteMod
  /\ Tcam \intersect Large = {} /\ Tcam \intersect Small = {} /\ Large \intersect Small = {}
ASSUME HashAssumption ==
  HashLarge \in [Keys -> SUBSET Large] /\ HashSmall \in [Keys -> SUBSET Small]
ASSUME FaultsAssumption == Faults \subseteq {"mem", "reg", "stat"}
ASSUME MaxFailuresAssumption == MaxFailures \in Nat
ASSUME MaxUseAssumption == MaxUse \in 0 .. (ByteMod - 1)

VARIABLES
  valid, list, keys,              \* acl_rule[]: the rules there are, their slots and their fields
  counterOf, meterOf,             \* acl_rule[]: counter_valid and _index, mmp_valid and _index
  mask, used,                     \* entry_mask_* and used_*_num
  counter,                        \* counter[]: rules per counter
  num, on,                        \* the uses of the meters
  mac, adm,                       \* smac_rule[] and dmac_rule[]; the initial pointers in the chip
  chip,                           \* external: what each slot holds
  packets,                        \* external: whether a counter has counted since it was cleared
  pc, cur, wish, todo, new, rest, \* the call that runs: its place, rule and arguments, the keys
                                  \* it has to write and the slots it took, the slots left to visit
  answer,                         \* history: the last that the client was told of each rule
  failures, uncleared             \* history: how many accesses and allocations have failed, and
                                  \* how many of them were to clear a packet counter

rules  == <<valid, list, keys, counterOf, meterOf>>
tables == <<mask, used>>
meters == <<num, on>>
macs   == <<mac, adm>>
call   == <<pc, cur, wish, todo, new, rest>>
history == <<failures, uncleared>>
vars   == <<rules, tables, counter, meters, macs, chip, packets, call, answer, history>>

Empty    == [key |-> "none", counter |-> NoCounter, meter |-> NoMeter]
NoneInCall == CHOOSE i \in Rules : TRUE   \* cur between calls
NoWish   == [keys |-> {}, counter |-> NoCounter, meter |-> NoMeter]
Places   == {"idle", "replace", "write", "stuck", "undo", "delete", "count"}

TypeOK ==
  /\ valid \subseteq Rules
  /\ list \in [Rules -> SUBSET Slots]
  /\ keys \in [Rules -> SUBSET Keys]
  /\ counterOf \in [Rules -> Counters \union {NoCounter}]
  /\ meterOf \in [Rules -> Meters \union {NoMeter}]
  /\ mask \subseteq Slots
  /\ used \in [{"tcam", "large", "small"} -> Bytes]
  /\ counter \in [Counters -> Bytes]
  /\ num \in [Meters \X Users -> Bytes]
  /\ on \subseteq Meters
  /\ mac \in [MacRules -> Meters \union {NoMeter}]
  /\ adm \in [Inputs -> Meters \union {NoMeter}]
  /\ chip \in [Slots -> Entries \union {Empty}]
  /\ packets \subseteq Counters
  /\ pc \in Places
  /\ cur \in Rules
  /\ wish \in Wishes
  /\ todo \subseteq Keys
  /\ new \subseteq Slots
  /\ rest \subseteq Slots
  /\ answer \in [Rules -> {"unknown", "gone", "set", "freed"}]
  /\ failures \in Nat /\ uncleared \in 0 .. failures

Init ==
  /\ valid = {}
  /\ list = [i \in Rules |-> {}]
  /\ keys = [i \in Rules |-> {}]
  /\ counterOf = [i \in Rules |-> NoCounter]
  /\ meterOf = [i \in Rules |-> NoMeter]
  /\ mask = {}
  /\ used = [t \in {"tcam", "large", "small"} |-> 0]
  /\ counter = [c \in Counters |-> 0]
  /\ num = [x \in Meters \X Users |-> 0]
  /\ on = {}
  /\ mac = [r \in MacRules |-> NoMeter]
  /\ adm = [p \in Inputs |-> NoMeter]
  /\ chip = [s \in Slots |-> Empty]
  /\ packets = {}
  /\ pc = "idle"
  /\ cur = NoneInCall
  /\ wish = NoWish
  /\ todo = {} /\ new = {} /\ rest = {}
  /\ answer = [i \in Rules |-> "gone"]
  /\ failures = 0 /\ uncleared = 0

-----------------------------------------------------------------------------
(* Steps of a call.                                                         *)

Goes(place) == pc' = place /\ UNCHANGED <<cur, wish, todo, new, rest>>
Done ==
  /\ pc' = "idle" /\ wish' = NoWish
  /\ todo' = {} /\ new' = {} /\ rest' = {}
  /\ cur' = NoneInCall

Answers(a)  == answer' = [answer EXCEPT ![cur] = a]
FailsBy(f)  == /\ f \in Faults /\ failures < MaxFailures
               /\ failures' = failures + 1
               /\ uncleared' = IF f = "stat" THEN uncleared + 1 ELSE uncleared
Lowest(S)   == {s \in S : \A t \in S : s <= t}
TableOf(s)  == IF s \in Tcam THEN "tcam" ELSE IF s \in Large THEN "large" ELSE "small"
Listed(i)   == IF i \in valid THEN list[i] ELSE {}

\* A client begins a call on rule i: w is what it wants, S the slots to visit.
Begins(place, i, w, S) ==
  /\ pc = "idle" /\ answer[i] # "freed"
  /\ pc' = place /\ cur' = i /\ wish' = w /\ todo' = w.keys /\ rest' = S
  /\ UNCHANGED <<rules, tables, counter, meters, macs, chip, packets, new, answer, history>>

\* jl61xx_acl_space_chk: the numbers are bytes, and the free slots of the hash tables
\* are counted wherever they are
SpaceChk(i, K) ==
  LET ruleNum  == Cardinality(K) % ByteMod
      hashNum  == Cardinality(K \ TcamKeys) % ByteMod
      tcamNum  == (ruleNum - hashNum) % ByteMod
      tcamFree == Cardinality(Tcam) - used["tcam"] + Cardinality(Listed(i) \intersect Tcam)
      hashFree == Cardinality(Large) + Cardinality(Small) - (used["large"] + used["small"])
                    + Cardinality(Listed(i) \ Tcam)
  IN tcamNum <= tcamFree /\ hashNum <= hashFree + (tcamFree - tcamNum)

\* jl61xx_acl_rule_add up to the clearing of what the rule was
RuleAdd(i, w) ==
  /\ w.keys # {} /\ SpaceChk(i, w.keys)
  /\ Begins("replace", i, w, Listed(i))

\* jl61xx_acl_rule_del
RuleDel(i) == i \in valid /\ Begins("delete", i, NoWish, list[i])

\* jl61xx_acl_clear_table: a slot is cleared, key first.
ClearSlot(s) ==
  /\ pc \in {"replace", "undo", "delete"} /\ s \in rest
  /\ chip' = [chip EXCEPT ![s] = Empty]
  /\ rest' = rest \ {s}
  /\ UNCHANGED <<rules, tables, counter, meters, macs, packets, pc, cur, wish, todo, new,
                 answer, history>>

\* A slot cannot be cleared, or of a TCAM slot only the key can: the call ends.
ClearSlotFails(s) ==
  /\ pc \in {"replace", "undo", "delete"} /\ s \in rest
  /\ FailsBy("reg")
  /\ \/ UNCHANGED chip
     \/ s \in Tcam /\ chip' = [chip EXCEPT ![s] = Empty]
  /\ Done /\ Answers("unknown")
  /\ UNCHANGED <<rules, tables, counter, meters, macs, packets>>

\* Mutant: the bits of the small table stay set.
ListClearButSmall(S) ==
  /\ mask' = mask \ (S \ Small)
  /\ used' = [t \in DOMAIN used |-> (used[t] - Cardinality({s \in S : TableOf(s) = t})) % ByteMod]

\* jl61xx_acl_rule_info_clear, the part before the counter
ListClear(S) ==
  /\ mask' = mask \ S
  /\ used' = [t \in DOMAIN used |-> (used[t] - Cardinality({s \in S : TableOf(s) = t})) % ByteMod]

\* Mutant: a counter that replaces another does not release it.
CounterMovesAdding(c, d) ==
  LET less == IF c = NoCounter \/ d # NoCounter THEN counter
              ELSE [counter EXCEPT ![c] = (@ - 1) % ByteMod]
  IN /\ counter' = IF d = NoCounter THEN less ELSE [less EXCEPT ![d] = (@ + 1) % ByteMod]
     /\ packets' = {p \in packets : p = c => less[c] # 0}

\* Mutant: a counter that no rule uses keeps its packets.
CounterMovesUnzeroed(c, d) ==
  LET less == IF c = NoCounter THEN counter ELSE [counter EXCEPT ![c] = (@ - 1) % ByteMod]
  IN /\ counter' = IF d = NoCounter THEN less ELSE [less EXCEPT ![d] = (@ + 1) % ByteMod]
     /\ UNCHANGED packets

\* A rule gives up counter c and takes d (jl61xx_acl_info_counter_clear, _counter_add): a
\* counter that no rule uses is zeroed.
CounterMoves(c, d) ==
  LET less == IF c = NoCounter THEN counter ELSE [counter EXCEPT ![c] = (@ - 1) % ByteMod]
  IN /\ counter' = IF d = NoCounter THEN less ELSE [less EXCEPT ![d] = (@ + 1) % ByteMod]
     /\ packets' = {p \in packets : p = c => less[c] # 0}

\* User u gives up meter m and takes n.
MeterMoves(u, m, n) ==
  LET fewer == IF m = NoMeter THEN num ELSE NumClear(num, u, m)
      still == IF m = NoMeter THEN on ELSE OnClear(fewer, on, m)
  IN /\ num' = IF n = NoMeter THEN fewer ELSE NumSet(fewer, u, n)
     /\ on' = IF n = NoMeter THEN still ELSE OnSet(still, n)

\* The rule is forgotten (jl61xx_acl_rule_info_clear): a rule that is replaced is then
\* written, a write that got stuck or a deletion is over.
InfoClear ==
  /\ pc \in {"replace", "undo", "delete"} /\ rest = {} /\ cur \in valid
  /\ ListClear(list[cur])
  /\ CounterMoves(counterOf[cur], NoCounter)
  /\ MeterMoves("acl", meterOf[cur], NoMeter)
  /\ valid' = valid \ {cur}
  /\ list' = [list EXCEPT ![cur] = {}]
  /\ keys' = [keys EXCEPT ![cur] = {}]
  /\ counterOf' = [counterOf EXCEPT ![cur] = NoCounter]
  /\ meterOf' = [meterOf EXCEPT ![cur] = NoMeter]
  /\ IF pc = "replace" THEN Goes("write") /\ UNCHANGED answer
     ELSE Done /\ Answers(IF pc = "delete" THEN "gone" ELSE "unknown")
  /\ UNCHANGED <<macs, chip, history>>

\* There was no rule to clear.
NothingToClear ==
  /\ pc = "replace" /\ cur \notin valid
  /\ Goes("write")
  /\ UNCHANGED <<rules, tables, counter, meters, macs, chip, packets, answer, history>>

\* The counter cannot be zeroed: the entries are freed, the rule and its list stay.  What a
\* later call finds in the freed list is undefined, and no call on the rule is modelled.
InfoClearFails ==
  /\ pc \in {"replace", "undo", "delete"} /\ rest = {} /\ cur \in valid
  /\ counterOf[cur] # NoCounter /\ counter[counterOf[cur]] = 1
  /\ FailsBy("stat")
  /\ ListClear(list[cur])
  /\ counter' = [counter EXCEPT ![counterOf[cur]] = 0]
  /\ Answers("freed") /\ Done
  /\ UNCHANGED <<rules, meters, macs, chip, packets>>

\* Mutant: the buckets of the small table are taken to be as far apart as the large one's.
RoomFarApart(k) ==
  LET large == HashLarge[k] \ mask
      small == {s + Cardinality(Large) : s \in HashSmall[k]} \ mask
  IN IF k \in TcamKeys THEN Tcam \ mask
     ELSE IF large # {} THEN large
     ELSE IF small # {} THEN small
     ELSE Tcam \ mask

\* Mutant: the mask of the large table is not looked at.
RoomUnderLarge(k) ==
  LET large == HashLarge[k]
      small == HashSmall[k] \ mask
  IN IF k \in TcamKeys THEN Tcam \ mask
     ELSE IF large # {} THEN large
     ELSE IF small # {} THEN small
     ELSE Tcam \ mask

\* the free slots for a key: large table, small table, TCAM
Room(k) ==
  LET large == HashLarge[k] \ mask
      small == HashSmall[k] \ mask
  IN IF k \in TcamKeys THEN Tcam \ mask
     ELSE IF large # {} THEN large
     ELSE IF small # {} THEN small
     ELSE Tcam \ mask

EntryOf(k) == [key |-> k, counter |-> wish.counter, meter |-> wish.meter]

\* jl61xx_acl_write_tcam, _hash_large, _hash_small: the slot is written, then recorded
WriteKey(k) ==
  /\ pc = "write" /\ k \in todo
  /\ \E s \in Lowest(Room(k)) :
       /\ chip' = [chip EXCEPT ![s] = EntryOf(k)]
       /\ mask' = mask \union {s}
       /\ used' = [used EXCEPT ![TableOf(s)] = (@ + 1) % ByteMod]
       /\ new' = new \union {s}
  /\ todo' = todo \ {k}
  /\ UNCHANGED <<rules, counter, meters, macs, packets, pc, cur, wish, rest, answer, history>>

Stuck == Goes("stuck") /\ UNCHANGED <<rules, tables, counter, meters, macs, packets, answer>>

\* Every slot the key could have is taken.
NoRoom(k) ==
  /\ pc = "write" /\ k \in todo /\ Room(k) = {}
  /\ Stuck /\ UNCHANGED <<chip, history>>

\* The slot cannot be written, or, in the TCAM, only its answer can, or it is written but not
\* recorded for want of memory.
WriteKeyFails(k) ==
  /\ pc = "write" /\ k \in todo
  /\ \E s \in Lowest(Room(k)) :
       LET answered == IF s \in Tcam /\ chip[s] # Empty THEN EntryOf(chip[s].key) ELSE chip[s]
       IN \/ FailsBy("reg") /\ chip' \in {chip, [chip EXCEPT ![s] = answered]}
          \/ FailsBy("mem") /\ chip' = [chip EXCEPT ![s] = EntryOf(k)]
  /\ Stuck

\* jl61xx_acl_info_set, whatever became of the keys: a rule that got stuck is then undone.
InfoSet ==
  /\ (pc = "write" /\ todo = {}) \/ pc = "stuck"
  /\ valid' = valid \union {cur}
  /\ list' = [list EXCEPT ![cur] = new]
  /\ keys' = [keys EXCEPT ![cur] = wish.keys]
  /\ counterOf' = [counterOf EXCEPT ![cur] = wish.counter]
  /\ meterOf' = [meterOf EXCEPT ![cur] = wish.meter]
  /\ CounterMoves(NoCounter, wish.counter)
  /\ MeterMoves("acl", NoMeter, wish.meter)
  /\ IF pc = "write" THEN Done /\ Answers("set")
     ELSE /\ pc' = "undo" /\ rest' = new /\ new' = {} /\ todo' = {}
          /\ UNCHANGED <<cur, wish, answer>>
  /\ UNCHANGED <<tables, macs, chip, history>>

-----------------------------------------------------------------------------
(* The packet counters.                                                     *)

\* jl61xx_acl_stat_enable with counter c, jl61xx_acl_stat_disable with none
StatSet(i, c) ==
  /\ i \in valid /\ counterOf[i] # c
  /\ Begins("count", i, [NoWish EXCEPT !.counter = c], list[i])

\* Mutant: the entries in the TCAM are passed over.
CountSlotInHash(s) ==
  /\ pc = "count" /\ s \in rest
  /\ chip' = [chip EXCEPT ![s] = IF @ = Empty \/ s \in Tcam THEN @
                                 ELSE [key |-> @.key, counter |-> wish.counter, meter |-> @.meter]]
  /\ rest' = rest \ {s}
  /\ UNCHANGED <<rules, tables, counter, meters, macs, packets, pc, cur, wish, todo, new,
                 answer, history>>

\* One entry is read and written with the other counter.
CountSlot(s) ==
  /\ pc = "count" /\ s \in rest
  /\ chip' = [chip EXCEPT ![s] = IF @ = Empty THEN Empty
                                 ELSE [key |-> @.key, counter |-> wish.counter, meter |-> @.meter]]
  /\ rest' = rest \ {s}
  /\ UNCHANGED <<rules, tables, counter, meters, macs, packets, pc, cur, wish, todo, new,
                 answer, history>>

CountSlotFails(s) ==
  /\ pc = "count" /\ s \in rest
  /\ FailsBy("reg") /\ Done /\ Answers("unknown")
  /\ UNCHANGED <<rules, tables, counter, meters, macs, chip, packets>>

CountDone ==
  /\ pc = "count" /\ rest = {}
  /\ CounterMoves(counterOf[cur], wish.counter)
  /\ counterOf' = [counterOf EXCEPT ![cur] = wish.counter]
  /\ Done
  /\ UNCHANGED <<valid, list, keys, meterOf, tables, meters, macs, chip, answer, history>>

\* The old counter cannot be zeroed: it has been counted down, and stays with the rule.
CountDoneFails ==
  /\ pc = "count" /\ rest = {}
  /\ counterOf[cur] # NoCounter /\ counter[counterOf[cur]] = 1
  /\ FailsBy("stat")
  /\ counter' = [counter EXCEPT ![counterOf[cur]] = 0]
  /\ Done /\ Answers("unknown")
  /\ UNCHANGED <<rules, tables, meters, macs, chip, packets>>

\* jl_acl_stat_clear
StatClear(c) ==
  /\ pc = "idle" /\ c \in packets
  /\ packets' = packets \ {c}
  /\ UNCHANGED <<rules, tables, counter, meters, macs, chip, call, answer, history>>

\* External: a packet matches the entry in slot s.
Match(s) ==
  /\ chip[s] # Empty /\ chip[s].counter \in Counters \ packets
  /\ packets' = packets \union {chip[s].counter}
  /\ UNCHANGED <<rules, tables, counter, meters, macs, chip, call, answer, history>>

-----------------------------------------------------------------------------
(* The other users of meters.                                               *)

\* jl61xx_acl_mac_rule_add
MacRuleAdd(r, m) ==
  /\ pc = "idle"
  /\ m # NoMeter => num[<<m, r[1]>>] < MaxUse
  /\ MeterMoves(r[1], mac[r], m)
  /\ mac' = [mac EXCEPT ![r] = m]
  /\ UNCHANGED <<rules, tables, counter, adm, chip, packets, call, answer, history>>

\* jl61xx_acl_mac_rule_del: it takes the meter once more
MacRuleDel(r) ==
  /\ pc = "idle" /\ mac[r] # NoMeter /\ num[<<mac[r], r[1]>>] < MaxUse
  /\ MeterMoves(r[1], NoMeter, mac[r])
  /\ mac' = [mac EXCEPT ![r] = NoMeter]
  /\ UNCHANGED <<rules, tables, counter, adm, chip, packets, call, answer, history>>

\* jl61xx_qos_ingress_initial_mmp_set
InitialMmpSet(p, m) ==
  /\ pc = "idle"
  /\ MeterMoves("adm", adm[p], m)
  /\ adm' = [adm EXCEPT ![p] = m]
  /\ UNCHANGED <<rules, tables, counter, mac, chip, packets, call, answer, history>>

-----------------------------------------------------------------------------
Next ==
  \/ \E i \in Rules, w \in Wanted : RuleAdd(i, w)
  \/ \E i \in Rules : RuleDel(i)
  \/ \E i \in Rules, c \in Counters \union {NoCounter} : StatSet(i, c)
  \/ \E s \in Slots : ClearSlot(s) \/ ClearSlotFails(s) \/ CountSlot(s) \/ CountSlotFails(s)
  \/ NothingToClear \/ InfoClear \/ InfoClearFails
  \/ \E k \in Keys : WriteKey(k) \/ NoRoom(k) \/ WriteKeyFails(k)
  \/ InfoSet \/ CountDone \/ CountDoneFails
  \/ \E c \in Counters : StatClear(c)
  \/ \E s \in Slots : Match(s)
  \/ \E r \in MacRules, m \in Meters \union {NoMeter} : MacRuleAdd(r, m)
  \/ \E r \in MacRules : MacRuleDel(r)
  \/ \E p \in Inputs, m \in Meters \union {NoMeter} : InitialMmpSet(p, m)

Spec == Init /\ [][Next]_vars

-----------------------------------------------------------------------------
(* Properties.                                                              *)

Kept          == {i \in valid : answer[i] # "freed"}
UsersOf(c)    == {i \in valid : counterOf[i] = c}
RulesOf(m)    == {i \in valid : meterOf[i] = m}
RangesOf(u, m) == {r \in MacRules : r[1] = u /\ mac[r] = m}
InputsOf(m)   == {p \in Inputs : adm[p] = m}

\* The masks name exactly the slots that rules list or that the running call has taken, no
\* slot has two owners, and the counts count the masks, whatever failed (acl_rule[].rule_entry
\* against entry_mask_*, used_*_num).  Only a rule whose list was freed owns nothing.
SlotsOwned ==
  /\ mask = new \union UNION {list[i] : i \in Kept}
  /\ \A i, j \in Kept : i # j => list[i] \intersect list[j] = {}
  /\ \A i \in Kept : list[i] \intersect new = {}
  /\ \A t \in DOMAIN used : used[t] = Cardinality({s \in mask : TableOf(s) = t})

\* counter[] counts the rules that update a packet counter, so jl61xx_acl_stat_counter_get
\* offers a counter exactly when no rule uses it.
CountersCounted ==
  uncleared = 0 => \A c \in Counters : counter[c] = Cardinality(UsersOf(c))

\* A meter that any rule, MAC range or initial pointer refers to is in use, and the uses by
\* rules and initial pointers are counted exactly, whatever failed: jl61xx_get_unused_mmp_pointer
\* never offers the meter of one of them to another.
MetersCounted ==
  \A m \in Meters :
    /\ num[<<m, "acl">>] = Cardinality(RulesOf(m))
    /\ num[<<m, "adm">>] = Cardinality(InputsOf(m))
    /\ \A u \in {"smac", "dmac"} : num[<<m, u>>] >= Cardinality(RangesOf(u, m))
    /\ m \in on <=> \E u \in Users : num[<<m, u>>] # 0

\* Between calls, a rule whose last change was answered with OK is in the chip as it was asked
\* for, key by key and with its counter and meter, whatever became of the calls on other
\* rules; a rule whose deletion was answered with OK is gone. While nothing has failed, the
\* chip holds nothing else, also after a rule found no room and was undone.
RulesInForce ==
  pc = "idle" =>
    /\ \A i \in Rules :
         /\ answer[i] = "gone" => i \notin valid
         /\ answer[i] = "set" =>
              /\ i \in valid /\ Cardinality(list[i]) = Cardinality(keys[i])
              /\ \A k \in keys[i] : \E s \in list[i] :
                   chip[s] = [key |-> k, counter |-> counterOf[i], meter |-> meterOf[i]]
    /\ failures = 0 => \A s \in Slots : chip[s] # Empty <=> \E i \in valid : s \in list[i]

\* While nothing has failed, a packet counter that is offered to a new user starts from zero:
\* the entries stop to count before the counter is cleared, also on the way out of a call
\* that got stuck after packets had matched what it had written.
FreeCountersReadZero ==
  failures = 0 /\ pc = "idle" => \A c \in packets : UsersOf(c) # {}

\* A call on one rule leaves the slots and the data of the others alone, whatever fails.
OthersUndisturbed ==
  [][\A i \in Rules : i \notin {cur, cur'} /\ answer[i] # "freed" =>
       /\ (i \in valid') <=> (i \in valid)
       /\ list'[i] = list[i] /\ counterOf'[i] = counterOf[i] /\ meterOf'[i] = meterOf[i]
       /\ \A s \in Listed(i) : chip'[s] = chip[s]]_vars
=============================================================================
