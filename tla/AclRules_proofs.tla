-------------------------- MODULE AclRules_proofs --------------------------
(***************************************************************************)
(* Proofs about AclRules, for all tables, rules, counters and meters, and  *)
(* any number of failures: types first, then that slots have one owner,    *)
(* that the numbers of users are right, and that the chip holds the rules  *)
(* that the client was told of and counts packets for nothing else.        *)
(***************************************************************************)
EXTENDS AclRules, FiniteSetTheorems, TLAPS

-----------------------------------------------------------------------------
(* Bytes and numbers of elements.                                           *)

LEMMA ByteArithmetic ==
  /\ ByteMod \in Nat \ {0} /\ 0 \in Bytes
  /\ \A x \in Bytes : (x + 1) % ByteMod \in Bytes /\ (x - 1) % ByteMod \in Bytes
  /\ \A x \in Int : x % ByteMod \in Bytes
  /\ \A x \in Bytes : x % ByteMod = x
<1>1. ByteMod \in Nat \ {0} /\ 0 \in Bytes
  BY ByteAssumption DEF Bytes
<1>2. \A x \in Int : x % ByteMod \in Bytes
  BY <1>1 DEF Bytes
<1>3. \A x \in Bytes : x % ByteMod = x
  BY <1>1 DEF Bytes
<1>4. \A x \in Bytes : x + 1 \in Int /\ x - 1 \in Int
  BY <1>1 DEF Bytes
<1>5. QED
  BY <1>1, <1>2, <1>3, <1>4

(* One user more and one less are counted right, as long as the users are    *)
(* fewer than a byte can count.                                              *)
LEMMA CountUp ==
  ASSUME NEW S, IsFiniteSet(S), NEW x, x \notin S, Cardinality(S \union {x}) < ByteMod
  PROVE  (Cardinality(S) + 1) % ByteMod = Cardinality(S \union {x})
<1>1. Cardinality(S \union {x}) = Cardinality(S) + 1 /\ IsFiniteSet(S \union {x})
  BY FS_AddElement
<1>2. Cardinality(S \union {x}) \in Nat
  BY <1>1, FS_CardinalityType
<1>3. Cardinality(S \union {x}) \in Bytes
  BY <1>2, ByteArithmetic DEF Bytes
<1>4. QED
  BY <1>1, <1>3, ByteArithmetic

LEMMA CountDown ==
  ASSUME NEW S, IsFiniteSet(S), NEW T \in SUBSET S, Cardinality(S) < ByteMod
  PROVE  (Cardinality(S) - Cardinality(T)) % ByteMod = Cardinality(S \ T)
<1>1. S \intersect T = T
  OBVIOUS
<1>2. Cardinality(S \ T) = Cardinality(S) - Cardinality(T) /\ IsFiniteSet(S \ T)
  BY <1>1, FS_Difference
<1>3. Cardinality(S \ T) \in Nat /\ Cardinality(S \ T) <= Cardinality(S) /\ Cardinality(S) \in Nat
  BY <1>2, FS_Subset, FS_CardinalityType
<1>4. Cardinality(S \ T) \in Bytes
  BY <1>3, ByteArithmetic DEF Bytes
<1>5. QED
  BY <1>2, <1>4, ByteArithmetic

-----------------------------------------------------------------------------
(* Types.                                                                   *)

LEMMA MeterMovesTypes ==
  ASSUME num \in [Meters \X Users -> Bytes], on \subseteq Meters,
         NEW u \in Users, NEW p \in Meters \union {NoMeter}, NEW n \in Meters \union {NoMeter},
         MeterMoves(u, p, n)
  PROVE  num' \in [Meters \X Users -> Bytes] /\ on' \subseteq Meters
<1> DEFINE fewer == IF p = NoMeter THEN num ELSE NumClear(num, u, p)
           still == IF p = NoMeter THEN on ELSE OnClear(fewer, on, p)
<1>1. fewer \in [Meters \X Users -> Bytes] /\ still \subseteq Meters
  BY ByteArithmetic DEF NumClear, OnClear
<1>2. /\ num' = IF n = NoMeter THEN fewer ELSE NumSet(fewer, u, n)
      /\ on' = IF n = NoMeter THEN still ELSE OnSet(still, n)
  BY DEF MeterMoves
<1> HIDE DEF fewer, still
<1>3. QED
  BY <1>1, <1>2, ByteArithmetic DEF NumSet, OnSet

LEMMA CounterMovesTypes ==
  ASSUME counter \in [Counters -> Bytes], packets \subseteq Counters,
         NEW c \in Counters \union {NoCounter}, NEW d \in Counters \union {NoCounter},
         CounterMoves(c, d)
  PROVE  counter' \in [Counters -> Bytes] /\ packets' \subseteq Counters
<1> DEFINE less == IF c = NoCounter THEN counter ELSE [counter EXCEPT ![c] = (@ - 1) % ByteMod]
<1>1. less \in [Counters -> Bytes]
  BY ByteArithmetic
<1>2. /\ counter' = IF d = NoCounter THEN less ELSE [less EXCEPT ![d] = (@ + 1) % ByteMod]
      /\ packets' \subseteq packets
  BY DEF CounterMoves
<1> HIDE DEF less
<1>3. QED
  BY <1>1, <1>2, ByteArithmetic

Tables == {"tcam", "large", "small"}

LEMMA ListClearTypes ==
  ASSUME mask \subseteq Slots, used \in [Tables -> Bytes],
         NEW S \in SUBSET Slots, ListClear(S)
  PROVE  mask' \subseteq Slots /\ used' \in [Tables -> Bytes]
<1>1. \A t \in Tables : used[t] - Cardinality({s \in S : TableOf(s) = t}) \in Int
  <2>1. TAKE t \in Tables
  <2>2. {s \in S : TableOf(s) = t} \in SUBSET Slots
    OBVIOUS
  <2>3. Cardinality({s \in S : TableOf(s) = t}) \in Nat
    BY <2>2, SlotsAssumption, FS_Subset, FS_CardinalityType
  <2>4. used[t] \in Int
    BY ByteArithmetic DEF Bytes
  <2>5. QED
    BY <2>3, <2>4
<1>2. /\ mask' = mask \ S
      /\ used' = [t \in Tables |-> (used[t] - Cardinality({s \in S : TableOf(s) = t})) % ByteMod]
  BY DEF ListClear
<1>3. QED
  BY <1>1, <1>2, ByteArithmetic

(* What a call leaves behind.                                                *)
LEMMA DoneTypes ==
  ASSUME Done
  PROVE  /\ pc' \in Places /\ cur' \in Rules /\ wish' \in Wishes
         /\ todo' \subseteq Keys /\ new' \subseteq Slots /\ rest' \subseteq Slots
<1>1. NoneInCall \in Rules
  BY RulesAssumption DEF NoneInCall
<1>2. NoWish \in Wishes
  BY DEF NoWish, Wishes
<1>3. QED
  BY <1>1, <1>2 DEF Done, Places

Answered == {"unknown", "gone", "set", "freed"}

(* The parts of TypeOK that change together.                                 *)
RuleTypes ==
  /\ valid \subseteq Rules
  /\ list \in [Rules -> SUBSET Slots]
  /\ keys \in [Rules -> SUBSET Keys]
  /\ counterOf \in [Rules -> Counters \union {NoCounter}]
  /\ meterOf \in [Rules -> Meters \union {NoMeter}]
TableTypes   == mask \subseteq Slots /\ used \in [Tables -> Bytes]
CounterTypes == counter \in [Counters -> Bytes] /\ packets \subseteq Counters
MeterTypes   == num \in [Meters \X Users -> Bytes] /\ on \subseteq Meters
MacTypes     == /\ mac \in [MacRules -> Meters \union {NoMeter}]
                /\ adm \in [Inputs -> Meters \union {NoMeter}]
ChipTypes    == chip \in [Slots -> Entries \union {Empty}]
CallTypes ==
  /\ pc \in Places /\ cur \in Rules /\ wish \in Wishes
  /\ todo \subseteq Keys /\ new \subseteq Slots /\ rest \subseteq Slots
HistoryTypes ==
  /\ answer \in [Rules -> Answered]
  /\ failures \in Nat /\ uncleared \in 0 .. failures

LEMMA TypeParts ==
  TypeOK <=> /\ RuleTypes /\ TableTypes /\ CounterTypes /\ MeterTypes
             /\ MacTypes /\ ChipTypes /\ CallTypes /\ HistoryTypes
BY DEF TypeOK, RuleTypes, TableTypes, CounterTypes, MeterTypes, MacTypes, ChipTypes, CallTypes,
       HistoryTypes, Tables, Answered

LEMMA FailsByTypes ==
  ASSUME HistoryTypes, NEW f, FailsBy(f)
  PROVE  failures' \in Nat /\ uncleared' \in 0 .. failures'
BY DEF HistoryTypes, FailsBy

LEMMA WishTypes ==
  ASSUME CallTypes
  PROVE  /\ wish.keys \subseteq Keys /\ wish.counter \in Counters \union {NoCounter}
         /\ wish.meter \in Meters \union {NoMeter}
BY DEF CallTypes, Wishes

LEMMA EntryTypes ==
  ASSUME CallTypes, NEW k \in Keys
  PROVE  EntryOf(k) \in Entries
BY WishTypes DEF EntryOf, Entries
(* TypeOK is kept, a step of a call and a part at a time.                    *)
LEMMA TypesKept ==
  ASSUME TypeOK, [Next]_vars
  PROVE  TypeOK'
<1> USE TypeParts
<1> DEFINE T == /\ RuleTypes' /\ TableTypes' /\ CounterTypes' /\ MeterTypes'
                /\ MacTypes' /\ ChipTypes' /\ CallTypes' /\ HistoryTypes'
<1>0. SUFFICES T
  BY TypeParts DEF TypeOK, RuleTypes, TableTypes, CounterTypes, MeterTypes, MacTypes, ChipTypes,
       CallTypes, HistoryTypes, Tables, Answered
<1>e. Empty \in Entries \union {Empty}
  OBVIOUS
<1>a. ASSUME NEW i \in Rules, NEW w \in Wishes, NEW S \in SUBSET Slots, NEW place \in Places,
             Begins(place, i, w, S)
      PROVE  T
  <2>1. w.keys \subseteq Keys
    BY DEF Wishes
  <2>2. CallTypes'
    BY <1>a, <2>1 DEF Begins, CallTypes
  <2>3. QED
    BY <1>a, <2>2 DEF Begins, rules, tables, meters, macs, history, RuleTypes, TableTypes,
         CounterTypes, MeterTypes, MacTypes, ChipTypes, HistoryTypes
<1>l. \A i \in Rules : Listed(i) \subseteq Slots
  BY DEF Listed, RuleTypes
<1>p. {"replace", "delete", "count"} \subseteq Places
  BY DEF Places
<1>1. ASSUME NEW i \in Rules, NEW w \in Wanted, RuleAdd(i, w)  PROVE T
  BY <1>1, <1>a, <1>l, <1>p, WantedAssumption DEF RuleAdd
<1>2. ASSUME NEW i \in Rules, RuleDel(i)  PROVE T
  <2>1. NoWish \in Wishes
    BY DEF NoWish, Wishes
  <2>2. list[i] \in SUBSET Slots
    BY DEF RuleTypes
  <2>3. QED
    BY <1>2, <1>a, <1>p, <2>1, <2>2 DEF RuleDel
<1>3. ASSUME NEW i \in Rules, NEW c \in Counters \union {NoCounter}, StatSet(i, c)  PROVE T
  <2>1. [NoWish EXCEPT !.counter = c] \in Wishes
    BY DEF NoWish, Wishes
  <2>2. list[i] \in SUBSET Slots
    BY DEF RuleTypes
  <2>3. QED
    BY <1>3, <1>a, <1>p, <2>1, <2>2 DEF StatSet
<1>4. ASSUME NEW s \in Slots, ClearSlot(s)  PROVE T
  BY <1>4, <1>e DEF ClearSlot, rules, tables, meters, macs, history, RuleTypes, TableTypes, CounterTypes,
       MeterTypes, MacTypes, ChipTypes, CallTypes, HistoryTypes
<1>5. ASSUME NEW s \in Slots, ClearSlotFails(s)  PROVE T
  <2>1. CallTypes'
    BY <1>5, DoneTypes DEF ClearSlotFails, CallTypes
  <2>2. HistoryTypes'
    BY <1>5, FailsByTypes DEF ClearSlotFails, Answers, HistoryTypes, Answered
  <2>3. ChipTypes'
    BY <1>5, <1>e DEF ClearSlotFails, ChipTypes
  <2>4. QED
    BY <1>5, <2>1, <2>2, <2>3 DEF ClearSlotFails, rules, tables, meters, macs, RuleTypes, TableTypes,
         CounterTypes, MeterTypes, MacTypes
<1>r. ASSUME NEW s \in Slots, chip[s] # Empty  PROVE chip[s] \in Entries
  BY <1>r DEF ChipTypes
<1>6. ASSUME NEW s \in Slots, CountSlot(s)  PROVE T
  <2> DEFINE e == IF chip[s] = Empty THEN Empty
                  ELSE [key |-> chip[s].key, counter |-> wish.counter, meter |-> chip[s].meter]
  <2>1. e \in Entries \union {Empty}
    BY <1>r, WishTypes DEF Entries
  <2>2. chip' = [chip EXCEPT ![s] = e]
    BY <1>6 DEF CountSlot
  <2> HIDE DEF e
  <2>3. ChipTypes'
    BY <2>1, <2>2 DEF ChipTypes
  <2>4. QED
    BY <1>6, <2>3 DEF CountSlot, rules, tables, meters, macs, history, RuleTypes, TableTypes,
         CounterTypes, MeterTypes, MacTypes, CallTypes, HistoryTypes
<1>7. ASSUME NEW s \in Slots, CountSlotFails(s)  PROVE T
  <2>1. CallTypes'
    BY <1>7, DoneTypes DEF CountSlotFails, CallTypes
  <2>2. HistoryTypes'
    BY <1>7, FailsByTypes DEF CountSlotFails, Answers, HistoryTypes, Answered
  <2>3. QED
    BY <1>7, <2>1, <2>2 DEF CountSlotFails, rules, tables, meters, macs, RuleTypes, TableTypes,
         CounterTypes, MeterTypes, MacTypes, ChipTypes
<1>8. CASE NothingToClear
  BY <1>8 DEF NothingToClear, Goes, Places, rules, tables, meters, macs, history, RuleTypes,
       TableTypes, CounterTypes, MeterTypes, MacTypes, ChipTypes, CallTypes, HistoryTypes
<1>9. CASE InfoClear
  <2>1. /\ list[cur] \subseteq Slots /\ counterOf[cur] \in Counters \union {NoCounter}
        /\ meterOf[cur] \in Meters \union {NoMeter} /\ cur \in Rules
    BY DEF RuleTypes, CallTypes
  <2>2. TableTypes'
    BY <1>9, <2>1, ListClearTypes DEF InfoClear, TableTypes
  <2>3. CounterTypes'
    BY <1>9, <2>1, CounterMovesTypes DEF InfoClear, CounterTypes
  <2>4. MeterTypes'
    BY <1>9, <2>1, MeterMovesTypes DEF InfoClear, MeterTypes, Users
  <2>5. CallTypes'
    BY <1>9, DoneTypes DEF InfoClear, Goes, Places, CallTypes
  <2>6. HistoryTypes'
    BY <1>9 DEF InfoClear, Answers, Answered, history, HistoryTypes
  <2>7. RuleTypes'
    BY <1>9 DEF InfoClear, RuleTypes
  <2>8. QED
    BY <1>9, <2>2, <2>3, <2>4, <2>5, <2>6, <2>7 DEF InfoClear, macs, MacTypes, ChipTypes
<1>10. CASE InfoClearFails
  <2>1. list[cur] \subseteq Slots /\ counterOf[cur] \in Counters
    BY <1>10 DEF InfoClearFails, RuleTypes, CallTypes
  <2>2. TableTypes'
    BY <1>10, <2>1, ListClearTypes DEF InfoClearFails, TableTypes
  <2>3. CounterTypes'
    BY <1>10, <2>1, ByteArithmetic DEF InfoClearFails, CounterTypes
  <2>4. CallTypes'
    BY <1>10, DoneTypes DEF InfoClearFails, CallTypes
  <2>5. HistoryTypes'
    BY <1>10, FailsByTypes DEF InfoClearFails, Answers, Answered, HistoryTypes
  <2>6. QED
    BY <1>10, <2>2, <2>3, <2>4, <2>5 DEF InfoClearFails, rules, meters, macs, RuleTypes, MeterTypes,
         MacTypes, ChipTypes
<1>s. \A k \in Keys : Lowest(Room(k)) \subseteq Slots
  BY HashAssumption DEF Lowest, Room, Slots
<1>11. ASSUME NEW k \in Keys, WriteKey(k)  PROVE T
  <2>1. PICK s \in Slots : /\ chip' = [chip EXCEPT ![s] = EntryOf(k)]
                           /\ mask' = mask \union {s}
                           /\ used' = [used EXCEPT ![TableOf(s)] = (@ + 1) % ByteMod]
                           /\ new' = new \union {s}
    BY <1>11, <1>s DEF WriteKey
  <2>2. TableTypes'
    BY <2>1, ByteArithmetic DEF TableTypes, TableOf, Tables
  <2>3. ChipTypes'
    BY <2>1, EntryTypes DEF ChipTypes
  <2>4. CallTypes'
    BY <1>11, <2>1 DEF WriteKey, CallTypes
  <2>5. QED
    BY <1>11, <2>2, <2>3, <2>4 DEF WriteKey, rules, meters, macs, history, RuleTypes, CounterTypes,
         MeterTypes, MacTypes, HistoryTypes
<1>12. ASSUME NEW k \in Keys, NoRoom(k)  PROVE T
  BY <1>12 DEF NoRoom, Stuck, Goes, Places, rules, tables, meters, macs, history, RuleTypes, TableTypes,
       CounterTypes, MeterTypes, MacTypes, ChipTypes, CallTypes, HistoryTypes
<1>13. ASSUME NEW k \in Keys, WriteKeyFails(k)  PROVE T
  <2>1. PICK s \in Slots :
          LET answered == IF s \in Tcam /\ chip[s] # Empty THEN EntryOf(chip[s].key) ELSE chip[s]
          IN \/ FailsBy("reg") /\ chip' \in {chip, [chip EXCEPT ![s] = answered]}
             \/ FailsBy("mem") /\ chip' = [chip EXCEPT ![s] = EntryOf(k)]
    BY <1>13, <1>s DEF WriteKeyFails
  <2>2. chip[s] # Empty => EntryOf(chip[s].key) \in Entries
    BY <1>r, EntryTypes DEF Entries
  <2>3. ChipTypes'
    BY <2>1, <2>2, EntryTypes DEF ChipTypes
  <2>4. HistoryTypes'
    <3>1. failures' \in Nat /\ uncleared' \in 0 .. failures'
      BY <2>1, FailsByTypes
    <3>2. QED
      BY <1>13, <3>1 DEF WriteKeyFails, Stuck, HistoryTypes
  <2>5. QED
    BY <1>13, <2>3, <2>4 DEF WriteKeyFails, Stuck, Goes, Places, rules, tables, meters, macs, RuleTypes,
         TableTypes, CounterTypes, MeterTypes, MacTypes, CallTypes
<1>14. CASE InfoSet
  <2>1. RuleTypes'
    BY <1>14, WishTypes DEF InfoSet, RuleTypes, CallTypes
  <2>2. CounterTypes'
    BY <1>14, WishTypes, CounterMovesTypes DEF InfoSet, CounterTypes
  <2>3. MeterTypes'
    BY <1>14, WishTypes, MeterMovesTypes DEF InfoSet, MeterTypes, Users
  <2>4. CallTypes'
    BY <1>14, DoneTypes DEF InfoSet, CallTypes, Places
  <2>5. HistoryTypes'
    BY <1>14 DEF InfoSet, Answers, Answered, history, HistoryTypes
  <2>6. QED
    BY <1>14, <2>1, <2>2, <2>3, <2>4, <2>5 DEF InfoSet, tables, macs, TableTypes, MacTypes, ChipTypes
<1>15. CASE CountDone
  <2>1. counterOf[cur] \in Counters \union {NoCounter}
    BY DEF RuleTypes, CallTypes
  <2>2. CounterTypes'
    BY <1>15, <2>1, WishTypes, CounterMovesTypes DEF CountDone, CounterTypes
  <2>3. RuleTypes'
    BY <1>15, WishTypes DEF CountDone, RuleTypes
  <2>4. CallTypes'
    BY <1>15, DoneTypes DEF CountDone, CallTypes
  <2>5. QED
    BY <1>15, <2>2, <2>3, <2>4 DEF CountDone, tables, meters, macs, history, TableTypes, MeterTypes,
         MacTypes, ChipTypes, HistoryTypes
<1>16. CASE CountDoneFails
  <2>1. CounterTypes'
    BY <1>16, ByteArithmetic DEF CountDoneFails, CounterTypes
  <2>2. CallTypes'
    BY <1>16, DoneTypes DEF CountDoneFails, CallTypes
  <2>3. HistoryTypes'
    BY <1>16, FailsByTypes DEF CountDoneFails, Answers, Answered, HistoryTypes
  <2>4. QED
    BY <1>16, <2>1, <2>2, <2>3 DEF CountDoneFails, rules, tables, meters, macs, RuleTypes, TableTypes,
         MeterTypes, MacTypes, ChipTypes
<1>17. ASSUME NEW c \in Counters, StatClear(c)  PROVE T
  BY <1>17 DEF StatClear, call, rules, tables, meters, macs, history, RuleTypes, TableTypes,
       CounterTypes, MeterTypes, MacTypes, ChipTypes, CallTypes, HistoryTypes
<1>18. ASSUME NEW s \in Slots, Match(s)  PROVE T
  BY <1>18 DEF Match, call, rules, tables, meters, macs, history, RuleTypes, TableTypes,
       CounterTypes, MeterTypes, MacTypes, ChipTypes, CallTypes, HistoryTypes
<1>u. \A r \in MacRules : r[1] \in Users /\ mac[r] \in Meters \union {NoMeter}
  BY MacRulesAssumption DEF Users, MacTypes
<1>19. ASSUME NEW r \in MacRules, NEW m \in Meters \union {NoMeter}, MacRuleAdd(r, m)  PROVE T
  <2>1. MeterTypes'
    BY <1>19, <1>u, MeterMovesTypes DEF MacRuleAdd, MeterTypes
  <2>2. QED
    BY <1>19, <2>1 DEF MacRuleAdd, call, rules, tables, history, RuleTypes, TableTypes,
       CounterTypes, MacTypes, ChipTypes, CallTypes, HistoryTypes
<1>20. ASSUME NEW r \in MacRules, MacRuleDel(r)  PROVE T
  <2>1. MeterTypes'
    BY <1>20, <1>u, MeterMovesTypes DEF MacRuleDel, MeterTypes
  <2>2. QED
    BY <1>20, <2>1 DEF MacRuleDel, call, rules, tables, history, RuleTypes, TableTypes,
       CounterTypes, MacTypes, ChipTypes, CallTypes, HistoryTypes
<1>21. ASSUME NEW p \in Inputs, NEW m \in Meters \union {NoMeter}, InitialMmpSet(p, m)  PROVE T
  <2>1. MeterTypes'
    BY <1>21, MeterMovesTypes DEF InitialMmpSet, MeterTypes, MacTypes, Users
  <2>2. QED
    BY <1>21, <2>1 DEF InitialMmpSet, call, rules, tables, history, RuleTypes, TableTypes,
       CounterTypes, MacTypes, ChipTypes, CallTypes, HistoryTypes
<1>22. CASE UNCHANGED vars
  BY <1>22 DEF vars, call, rules, tables, meters, macs, history, RuleTypes, TableTypes,
       CounterTypes, MeterTypes, MacTypes, ChipTypes, CallTypes, HistoryTypes
<1> HIDE DEF T
<1>23. QED
  BY <1>1, <1>2, <1>3, <1>4, <1>5, <1>6, <1>7, <1>8, <1>9, <1>10, <1>11, <1>12, <1>13, <1>14, <1>15,
     <1>16, <1>17, <1>18, <1>19, <1>20, <1>21, <1>22 DEF Next
-----------------------------------------------------------------------------
(* Where a call is says what it may be working on: the slots it took are     *)
(* remembered only while it writes, when the rule is not there, and what it  *)
(* visits are slots of its rule, whose list is in order.                     *)
CallShape ==
  /\ pc \in {"write", "stuck"} => cur \notin valid /\ rest = {}
  /\ pc \notin {"write", "stuck"} => new = {}
  /\ pc \in {"undo", "delete", "count"} => cur \in valid
  /\ pc # "idle" => answer[cur] # "freed"
  /\ rest \subseteq Listed(cur)

LEMMA DoneShape ==
  ASSUME Done
  PROVE  CallShape'
BY DEF Done, CallShape

LEMMA CallShapeKept ==
  ASSUME TypeOK, CallShape, [Next]_vars
  PROVE  CallShape'
<1>t. /\ valid \subseteq Rules /\ cur \in Rules
      /\ list \in [Rules -> SUBSET Slots] /\ answer \in [Rules -> Answered]
  BY DEF TypeOK, Answered
<1>b. ASSUME NEW i \in Rules, NEW w, NEW place, Begins(place, i, w, Listed(i)),
             place \in {"replace", "delete", "count"}, place # "replace" => i \in valid
      PROVE  CallShape'
  BY <1>b DEF Begins, CallShape, Listed, rules
<1>1. ASSUME NEW i \in Rules, NEW w \in Wanted, RuleAdd(i, w)  PROVE CallShape'
  BY <1>1, <1>b DEF RuleAdd
<1>2. ASSUME NEW i \in Rules, RuleDel(i)  PROVE CallShape'
  BY <1>2, <1>b DEF RuleDel, Listed
<1>3. ASSUME NEW i \in Rules, NEW c \in Counters \union {NoCounter}, StatSet(i, c)  PROVE CallShape'
  BY <1>3, <1>b DEF StatSet, Listed
<1>4. ASSUME NEW s \in Slots, ClearSlot(s) \/ CountSlot(s)  PROVE CallShape'
  BY <1>4 DEF ClearSlot, CountSlot, CallShape, Listed, rules
<1>5. ASSUME NEW s \in Slots, ClearSlotFails(s) \/ CountSlotFails(s)  PROVE CallShape'
  BY <1>5, DoneShape DEF ClearSlotFails, CountSlotFails
<1>6. CASE NothingToClear
  BY <1>6 DEF NothingToClear, Goes, CallShape, Listed, rules
<1>7. CASE InfoClear
  <2>1. CASE pc = "replace"
    BY <1>7, <2>1, <1>t DEF InfoClear, Goes, CallShape, Listed
  <2>2. CASE pc # "replace"
    BY <1>7, <2>2, DoneShape DEF InfoClear
  <2>3. QED
    BY <2>1, <2>2
<1>8. CASE InfoClearFails \/ CountDone \/ CountDoneFails
  BY <1>8, DoneShape DEF InfoClearFails, CountDone, CountDoneFails
<1>9. ASSUME NEW k \in Keys, WriteKey(k)  PROVE CallShape'
  BY <1>9 DEF WriteKey, CallShape, Listed, rules
<1>10. ASSUME NEW k \in Keys, NoRoom(k) \/ WriteKeyFails(k)  PROVE CallShape'
  BY <1>10 DEF NoRoom, WriteKeyFails, Stuck, Goes, CallShape, Listed, rules
<1>11. CASE InfoSet
  <2>1. CASE pc = "write"
    BY <1>11, <2>1, DoneShape DEF InfoSet
  <2>2. CASE pc = "stuck"
    BY <1>11, <2>2, <1>t DEF InfoSet, CallShape, Listed
  <2>3. QED
    BY <1>11, <2>1, <2>2 DEF InfoSet
<1>12. ASSUME UNCHANGED <<rules, call, answer>>  PROVE CallShape'
  BY <1>12 DEF CallShape, Listed, rules, call
<1>13. ASSUME NEW c \in Counters, StatClear(c)  PROVE CallShape'
  BY <1>12, <1>13 DEF StatClear
<1>14. ASSUME NEW s \in Slots, Match(s)  PROVE CallShape'
  BY <1>12, <1>14 DEF Match
<1>15. ASSUME NEW r \in MacRules, NEW m \in Meters \union {NoMeter}, MacRuleAdd(r, m)  PROVE CallShape'
  BY <1>12, <1>15 DEF MacRuleAdd
<1>16. ASSUME NEW r \in MacRules, MacRuleDel(r)  PROVE CallShape'
  BY <1>12, <1>16 DEF MacRuleDel
<1>17. ASSUME NEW p \in Inputs, NEW m \in Meters \union {NoMeter}, InitialMmpSet(p, m)  PROVE CallShape'
  BY <1>12, <1>17 DEF InitialMmpSet
<1>18. CASE UNCHANGED vars
  BY <1>12, <1>18 DEF vars
<1>19. QED
  BY <1>1, <1>2, <1>3, <1>4, <1>5, <1>6, <1>7, <1>8, <1>9, <1>10, <1>11, <1>13, <1>14, <1>15, <1>16,
     <1>17, <1>18 DEF Next

-----------------------------------------------------------------------------
(* The owners of the slots, as a predicate of values: V the rules that own   *)
(* their lists L, N the slots of the running call, M the masks, U the counts. *)

InTable(S, t) == {s \in S : TableOf(s) = t}

Owned(V, L, N, M, U) ==
  /\ \A s : s \in M <=> s \in N \/ \E i \in V : s \in L[i]
  /\ \A i, j \in V : i # j => L[i] \intersect L[j] = {}
  /\ \A i \in V : L[i] \intersect N = {}
  /\ \A t \in Tables : U[t] = Cardinality(InTable(M, t))

(* A byte can count the slots of a table.                                    *)
LEMMA TableFits ==
  ASSUME NEW S \in SUBSET Slots, NEW t \in Tables
  PROVE  IsFiniteSet(InTable(S, t)) /\ Cardinality(InTable(S, t)) < ByteMod
<1> DEFINE T == IF t = "tcam" THEN Tcam ELSE IF t = "large" THEN Large ELSE Small
<1>1. InTable(S, t) \in SUBSET T
  BY DEF InTable, TableOf, Tables, Slots
<1>2. T \in SUBSET Slots /\ Cardinality(T) < ByteMod
  BY SlotsAssumption DEF Slots
<1> HIDE DEF T
<1>3. IsFiniteSet(T)
  BY <1>2, SlotsAssumption, FS_Subset
<1>4. IsFiniteSet(InTable(S, t)) /\ Cardinality(InTable(S, t)) <= Cardinality(T)
  BY <1>1, <1>3, FS_Subset
<1>5. Cardinality(InTable(S, t)) \in Nat /\ Cardinality(T) \in Nat
  BY <1>3, <1>4, FS_CardinalityType
<1>6. QED
  BY <1>2, <1>4, <1>5, ByteArithmetic

(* A key is written: the slot was free.                                      *)
LEMMA WriteOwned ==
  ASSUME NEW V \in SUBSET Rules, NEW L \in [Rules -> SUBSET Slots], NEW N, NEW M \in SUBSET Slots,
         NEW U \in [Tables -> Bytes], Owned(V, L, N, M, U), NEW s \in Slots, s \notin M
  PROVE  Owned(V, L, N \union {s}, M \union {s}, [U EXCEPT ![TableOf(s)] = (@ + 1) % ByteMod])
<1> DEFINE W == [U EXCEPT ![TableOf(s)] = (@ + 1) % ByteMod]
<1>1. \A t \in Tables : W[t] = Cardinality(InTable(M \union {s}, t))
  <2>1. TAKE t \in Tables
  <2>2. CASE t = TableOf(s)
    <3>1. InTable(M \union {s}, t) = InTable(M, t) \union {s} /\ s \notin InTable(M, t)
      BY <2>2 DEF InTable
    <3>2. IsFiniteSet(InTable(M, t)) /\ Cardinality(InTable(M \union {s}, t)) < ByteMod
      BY TableFits
    <3>3. (Cardinality(InTable(M, t)) + 1) % ByteMod = Cardinality(InTable(M \union {s}, t))
      BY <3>1, <3>2, CountUp
    <3>4. W[t] = (U[t] + 1) % ByteMod /\ U[t] = Cardinality(InTable(M, t))
      BY <2>2 DEF Owned
    <3>5. QED
      BY <3>3, <3>4
  <2>3. CASE t # TableOf(s)
    BY <2>3 DEF InTable, Owned
  <2>4. QED
    BY <2>2, <2>3
<1>2. \A i \in V : s \notin L[i]
  BY DEF Owned
<1> HIDE DEF W
<1>3. Owned(V, L, N \union {s}, M \union {s}, W)
  BY <1>1, <1>2 DEF Owned
<1>4. QED
  BY <1>3 DEF W

(* A rule gives its slots up, or its list is freed.                          *)
LEMMA ClearOwned ==
  ASSUME NEW V \in SUBSET Rules, NEW L \in [Rules -> SUBSET Slots], NEW N, NEW M \in SUBSET Slots,
         NEW U \in [Tables -> Bytes], Owned(V, L, N, M, U), NEW i \in V,
         NEW K \in [Rules -> SUBSET Slots], \A j \in V \ {i} : K[j] = L[j],
         NEW W, W = [t \in Tables |-> (U[t] - Cardinality(InTable(L[i], t))) % ByteMod]
  PROVE  Owned(V \ {i}, K, N, M \ L[i], W)
<1>1. L[i] \subseteq M
  BY DEF Owned
<1>2. \A t \in Tables : W[t] = Cardinality(InTable(M \ L[i], t))
  <2>1. TAKE t \in Tables
  <2>2. /\ InTable(L[i], t) \in SUBSET InTable(M, t)
        /\ InTable(M \ L[i], t) = InTable(M, t) \ InTable(L[i], t)
    BY <1>1 DEF InTable
  <2>3. IsFiniteSet(InTable(M, t)) /\ Cardinality(InTable(M, t)) < ByteMod
    BY TableFits
  <2>4. (Cardinality(InTable(M, t)) - Cardinality(InTable(L[i], t))) % ByteMod
          = Cardinality(InTable(M \ L[i], t))
    BY <2>2, <2>3, CountDown
  <2>5. U[t] = Cardinality(InTable(M, t))
    BY DEF Owned
  <2>6. QED
    BY <2>4, <2>5
<1>3. \A s : s \in M \ L[i] <=> s \in N \/ \E j \in V \ {i} : s \in K[j]
  <2>1. \A j \in V \ {i} : L[j] \intersect L[i] = {} /\ K[j] = L[j]
    BY DEF Owned
  <2>2. N \intersect L[i] = {} /\ \A s : s \in M <=> s \in N \/ \E j \in V : s \in L[j]
    BY DEF Owned
  <2>3. QED
    BY <2>1, <2>2
<1>4. QED
  BY <1>2, <1>3 DEF Owned

(* The slots of the call become the list of its rule.                        *)
LEMMA SetOwned ==
  ASSUME NEW V \in SUBSET Rules, NEW L \in [Rules -> SUBSET Slots], NEW N \in SUBSET Slots, NEW M,
         NEW U, Owned(V, L, N, M, U), NEW i \in Rules, i \notin V
  PROVE  Owned(V \union {i}, [L EXCEPT ![i] = N], {}, M, U)
<1> DEFINE K == [L EXCEPT ![i] = N]
<1>1. K[i] = N /\ \A j \in V : K[j] = L[j]
  OBVIOUS
<1> HIDE DEF K
<1>2. \A s : s \in M <=> s \in {} \/ \E j \in V \union {i} : s \in K[j]
  BY <1>1 DEF Owned
<1>3. Owned(V \union {i}, K, {}, M, U)
  BY <1>1, <1>2 DEF Owned
<1>4. QED
  BY <1>3 DEF K
OwnedNow == Owned(Kept, list, new, mask, used)

LEMMA SlotsOwnedNow ==
  ASSUME TypeOK
  PROVE  SlotsOwned <=> OwnedNow
<1>1. DOMAIN used = Tables
  BY DEF TypeOK, Tables
<1>2. mask = new \union UNION {list[i] : i \in Kept}
        <=> \A s : s \in mask <=> s \in new \/ \E i \in Kept : s \in list[i]
  OBVIOUS
<1>3. QED
  BY <1>1, <1>2 DEF SlotsOwned, OwnedNow, Owned, InTable

LEMMA RoomIsFree ==
  ASSUME NEW k \in Keys, NEW s \in Lowest(Room(k))
  PROVE  s \in Slots /\ s \notin mask
BY HashAssumption DEF Lowest, Room, Slots

LEMMA OwnedKept ==
  ASSUME TypeOK, CallShape, OwnedNow, [Next]_vars
  PROVE  OwnedNow'
<1>t. /\ valid \subseteq Rules /\ cur \in Rules /\ mask \subseteq Slots /\ new \subseteq Slots
      /\ list \in [Rules -> SUBSET Slots] /\ answer \in [Rules -> Answered]
      /\ used \in [Tables -> Bytes] /\ Kept \subseteq Rules
  BY DEF TypeOK, Answered, Tables, Kept
<1>u. ASSUME Kept' = Kept, list' = list, new' = new, mask' = mask, used' = used
      PROVE  OwnedNow'
  BY <1>u DEF OwnedNow, Owned
<1>a. ASSUME valid' = valid, answer' = answer, UNCHANGED <<list, new, mask, used>>
      PROVE  OwnedNow'
  BY <1>a, <1>u DEF Kept
<1>b. ASSUME valid' = valid, answer' = [answer EXCEPT ![cur] = "unknown"], pc # "idle",
             UNCHANGED <<list, new, mask, used>>
      PROVE  OwnedNow'
  BY <1>b, <1>t, <1>u DEF CallShape, Kept
<1>c. ASSUME Done, pc \notin {"write", "stuck"}
      PROVE  new' = new
  BY <1>c DEF Done, CallShape
<1>1. ASSUME NEW i \in Rules, NEW w \in Wanted, RuleAdd(i, w)  PROVE OwnedNow'
  BY <1>1, <1>a DEF RuleAdd, Begins, rules, tables
<1>2. ASSUME NEW i \in Rules, RuleDel(i)  PROVE OwnedNow'
  BY <1>2, <1>a DEF RuleDel, Begins, rules, tables
<1>3. ASSUME NEW i \in Rules, NEW c \in Counters \union {NoCounter}, StatSet(i, c)  PROVE OwnedNow'
  BY <1>3, <1>a DEF StatSet, Begins, rules, tables
<1>4. ASSUME NEW s \in Slots, ClearSlot(s) \/ CountSlot(s)  PROVE OwnedNow'
  BY <1>4, <1>a DEF ClearSlot, CountSlot, rules, tables
<1>5. ASSUME NEW s \in Slots, ClearSlotFails(s) \/ CountSlotFails(s)  PROVE OwnedNow'
  BY <1>5, <1>b, <1>c DEF ClearSlotFails, CountSlotFails, Answers, rules, tables
<1>6. CASE NothingToClear
  BY <1>6, <1>a DEF NothingToClear, Goes, rules, tables
<1>f. ASSUME ListClear(list[cur]), cur \in valid, pc \in {"replace", "undo", "delete"}, new' = new,
             Kept' = Kept \ {cur}, list' \in [Rules -> SUBSET Slots],
             \A j \in Kept \ {cur} : list'[j] = list[j]
      PROVE  OwnedNow'
  <2>1. cur \in Kept
    BY <1>f DEF CallShape, Kept
  <2>2. /\ mask' = mask \ list[cur]
        /\ used' = [t \in Tables |-> (used[t] - Cardinality(InTable(list[cur], t))) % ByteMod]
    BY <1>f, <1>t DEF ListClear, InTable
  <2>3. Owned(Kept \ {cur}, list', new, mask \ list[cur], used')
    BY <1>f, <1>t, <2>1, <2>2, ClearOwned DEF OwnedNow
  <2>4. QED
    BY <1>f, <2>2, <2>3 DEF OwnedNow
<1>7. CASE InfoClear
  <2>1. new' = new
    BY <1>7, <1>c DEF InfoClear, Goes
  <2>2. Kept' = Kept \ {cur}
    BY <1>7, <1>t DEF InfoClear, Answers, Kept
  <2>3. QED
    BY <1>7, <1>f, <1>t, <2>1, <2>2 DEF InfoClear
<1>8. CASE InfoClearFails
  <2>1. new' = new
    BY <1>8, <1>c DEF InfoClearFails
  <2>2. Kept' = Kept \ {cur}
    BY <1>8, <1>t DEF InfoClearFails, Answers, Kept, rules
  <2>3. QED
    BY <1>8, <1>f, <1>t, <2>1, <2>2 DEF InfoClearFails, rules
<1>9. ASSUME NEW k \in Keys, WriteKey(k)  PROVE OwnedNow'
  <2>1. PICK s \in Lowest(Room(k)) : /\ mask' = mask \union {s}
                                     /\ used' = [used EXCEPT ![TableOf(s)] = (@ + 1) % ByteMod]
                                     /\ new' = new \union {s}
    BY <1>9 DEF WriteKey
  <2>2. s \in Slots /\ s \notin mask
    BY RoomIsFree
  <2>3. Owned(Kept, list, new \union {s}, mask \union {s},
              [used EXCEPT ![TableOf(s)] = (@ + 1) % ByteMod])
    BY <1>t, <2>2, WriteOwned DEF OwnedNow
  <2>4. Kept' = Kept /\ list' = list
    BY <1>9 DEF WriteKey, Kept, rules
  <2>5. QED
    BY <2>1, <2>3, <2>4 DEF OwnedNow
<1>10. ASSUME NEW k \in Keys, NoRoom(k) \/ WriteKeyFails(k)  PROVE OwnedNow'
  BY <1>10, <1>a DEF NoRoom, WriteKeyFails, Stuck, Goes, rules, tables
<1>11. CASE InfoSet
  <2>1. cur \notin Kept /\ answer[cur] # "freed"
    BY <1>11 DEF InfoSet, CallShape, Kept
  <2>2. Owned(Kept \union {cur}, [list EXCEPT ![cur] = new], {}, mask, used)
    BY <1>t, <2>1, SetOwned DEF OwnedNow
  <2>3. Kept' = Kept \union {cur}
    BY <1>11, <1>t, <2>1 DEF InfoSet, Answers, Kept
  <2>4. new' = {}
    BY <1>11 DEF InfoSet, Done
  <2>5. list' = [list EXCEPT ![cur] = new] /\ mask' = mask /\ used' = used
    BY <1>11 DEF InfoSet, tables
  <2>6. QED
    BY <2>2, <2>3, <2>4, <2>5 DEF OwnedNow
<1>12. CASE CountDone
  BY <1>12, <1>a, <1>c DEF CountDone, tables
<1>13. CASE CountDoneFails
  BY <1>13, <1>b, <1>c DEF CountDoneFails, Answers, rules, tables
<1>14. ASSUME UNCHANGED <<rules, tables, call, answer>>  PROVE OwnedNow'
  BY <1>14, <1>a DEF rules, tables, call
<1>15. ASSUME NEW c \in Counters, StatClear(c)  PROVE OwnedNow'
  BY <1>14, <1>15 DEF StatClear
<1>16. ASSUME NEW s \in Slots, Match(s)  PROVE OwnedNow'
  BY <1>14, <1>16 DEF Match
<1>17. ASSUME NEW r \in MacRules, NEW m \in Meters \union {NoMeter}, MacRuleAdd(r, m)  PROVE OwnedNow'
  BY <1>14, <1>17 DEF MacRuleAdd
<1>18. ASSUME NEW r \in MacRules, MacRuleDel(r)  PROVE OwnedNow'
  BY <1>14, <1>18 DEF MacRuleDel
<1>19. ASSUME NEW p \in Inputs, NEW m \in Meters \union {NoMeter}, InitialMmpSet(p, m)  PROVE OwnedNow'
  BY <1>14, <1>19 DEF InitialMmpSet
<1>20. CASE UNCHANGED vars
  BY <1>14, <1>20 DEF vars
<1>21. QED
  BY <1>1, <1>2, <1>3, <1>4, <1>5, <1>6, <1>7, <1>8, <1>9, <1>10, <1>11, <1>12, <1>13, <1>15, <1>16,
     <1>17, <1>18, <1>19, <1>20 DEF Next
(* A call writes to no slot of another rule: what it visits is its own, and  *)
(* what it takes was free.                                                   *)
LEMMA OthersLeftAlone ==
  ASSUME TypeOK, CallShape, OwnedNow, [Next]_vars,
         NEW i \in Rules, i # cur, answer[i] # "freed"
  PROVE  /\ (i \in valid') <=> (i \in valid)
         /\ list'[i] = list[i] /\ counterOf'[i] = counterOf[i] /\ meterOf'[i] = meterOf[i]
         /\ \A s \in Listed(i) : chip'[s] = chip[s]
<1> DEFINE Same == /\ (i \in valid') <=> (i \in valid)
                   /\ list'[i] = list[i] /\ counterOf'[i] = counterOf[i] /\ meterOf'[i] = meterOf[i]
           Alone == \A s \in Listed(i) : chip'[s] = chip[s]
<1>0. SUFFICES Same /\ Alone
  OBVIOUS
<1>t. /\ valid \subseteq Rules /\ cur \in Rules
      /\ list \in [Rules -> SUBSET Slots] /\ chip \in [Slots -> Entries \union {Empty}]
      /\ keys \in [Rules -> SUBSET Keys]
      /\ counterOf \in [Rules -> Counters \union {NoCounter}]
      /\ meterOf \in [Rules -> Meters \union {NoMeter}]
  BY DEF TypeOK
<1>d. ASSUME NEW s \in rest, pc # "idle"  PROVE s \notin Listed(i)
  <2>1. s \in list[cur] /\ cur \in Kept
    BY <1>d DEF CallShape, Listed, Kept
  <2>2. i \in valid => i \in Kept
    BY DEF Kept
  <2>3. QED
    BY <2>1, <2>2 DEF OwnedNow, Owned, Listed
<1>f. ASSUME NEW s, s \notin mask  PROVE s \notin Listed(i)
  BY <1>f DEF OwnedNow, Owned, Listed, Kept
<1>u. ASSUME UNCHANGED rules  PROVE Same
  BY <1>u DEF rules
<1>c. ASSUME UNCHANGED chip  PROVE Alone
  BY <1>c
<1>v. Listed(i) \subseteq Slots
  BY <1>t DEF Listed
<1>w. ASSUME NEW s, NEW e, s \notin Listed(i), chip' = [chip EXCEPT ![s] = e]  PROVE Alone
  BY <1>t, <1>v, <1>w
<1> HIDE DEF Same, Alone
<1>1. ASSUME NEW j \in Rules, NEW w, NEW S, NEW place, Begins(place, j, w, S)  PROVE Same /\ Alone
  BY <1>1, <1>u, <1>c DEF Begins
<1>2. ASSUME NEW s \in Slots, ClearSlot(s)  PROVE Same /\ Alone
  BY <1>2, <1>u, <1>d, <1>w DEF ClearSlot
<1>3. ASSUME NEW s \in Slots, ClearSlotFails(s)  PROVE Same /\ Alone
  BY <1>3, <1>u, <1>c, <1>d, <1>w DEF ClearSlotFails
<1>4. ASSUME NEW s \in Slots, CountSlot(s)  PROVE Same /\ Alone
  <2>1. PICK e : chip' = [chip EXCEPT ![s] = e]
    BY <1>4 DEF CountSlot
  <2>2. QED
    BY <1>4, <2>1, <1>u, <1>d, <1>w DEF CountSlot
<1>5. ASSUME NEW s \in Slots, CountSlotFails(s)  PROVE Same /\ Alone
  BY <1>5, <1>u, <1>c DEF CountSlotFails
<1>6. CASE NothingToClear \/ InfoClearFails \/ CountDoneFails
  BY <1>6, <1>u, <1>c DEF NothingToClear, InfoClearFails, CountDoneFails
<1>7. CASE InfoClear
  BY <1>7, <1>t, <1>c DEF InfoClear, Same
<1>8. ASSUME NEW k \in Keys, WriteKey(k)  PROVE Same /\ Alone
  <2>1. PICK s \in Lowest(Room(k)) : chip' = [chip EXCEPT ![s] = EntryOf(k)]
    BY <1>8 DEF WriteKey
  <2>2. s \notin Listed(i)
    BY <1>f, RoomIsFree
  <2>3. QED
    BY <1>8, <2>1, <2>2, <1>u, <1>w DEF WriteKey
<1>9. ASSUME NEW k \in Keys, NoRoom(k)  PROVE Same /\ Alone
  BY <1>9, <1>u, <1>c DEF NoRoom, Stuck
<1>10. ASSUME NEW k \in Keys, WriteKeyFails(k)  PROVE Same /\ Alone
  <2>1. PICK s \in Lowest(Room(k)) : chip' = chip \/ \E e : chip' = [chip EXCEPT ![s] = e]
    BY <1>10 DEF WriteKeyFails
  <2>2. s \notin Listed(i)
    BY <1>f, RoomIsFree
  <2>3. QED
    BY <1>10, <2>1, <2>2, <1>u, <1>c, <1>w DEF WriteKeyFails, Stuck
<1>11. CASE InfoSet
  BY <1>11, <1>t, <1>c DEF InfoSet, Same
<1>12. CASE CountDone
  BY <1>12, <1>t, <1>c DEF CountDone, Same
<1>13. ASSUME UNCHANGED <<rules, chip>>  PROVE Same /\ Alone
  BY <1>13, <1>u, <1>c
<1>14. QED
  BY <1>1, <1>2, <1>3, <1>4, <1>5, <1>6, <1>7, <1>8, <1>9, <1>10, <1>11, <1>12, <1>13
     DEF Next, RuleAdd, RuleDel, StatSet, StatClear, Match, MacRuleAdd, MacRuleDel, InitialMmpSet, vars

-----------------------------------------------------------------------------
(* Numbers of users.                                                        *)

Uses(V, F, x) == {i \in V : F[i] = x}
One(x, y)     == IF x = y THEN 1 ELSE 0

LEMMA UsesFinite ==
  ASSUME NEW R, IsFiniteSet(R), NEW V \in SUBSET R, NEW F, NEW x
  PROVE  /\ IsFiniteSet(Uses(V, F, x)) /\ Cardinality(Uses(V, F, x)) \in Nat
         /\ Cardinality(Uses(V, F, x)) <= Cardinality(R)
<1>1. Uses(V, F, x) \in SUBSET R
  BY DEF Uses
<1>2. QED
  BY <1>1, FS_Subset, FS_CardinalityType

LEMMA UsesLess ==
  ASSUME NEW R, IsFiniteSet(R), NEW V \in SUBSET R, NEW F, NEW G, NEW x, NEW i \in V,
         \A j \in V \ {i} : G[j] = F[j]
  PROVE  Cardinality(Uses(V \ {i}, G, x)) = Cardinality(Uses(V, F, x)) - One(F[i], x)
<1>1. Uses(V \ {i}, G, x) = Uses(V, F, x) \ {i} /\ (i \in Uses(V, F, x) <=> F[i] = x)
  BY DEF Uses
<1>2. IsFiniteSet(Uses(V, F, x)) /\ Cardinality(Uses(V, F, x)) \in Nat
  BY UsesFinite
<1>3. Cardinality(Uses(V, F, x) \ {i}) = IF i \in Uses(V, F, x) THEN Cardinality(Uses(V, F, x)) - 1
                                         ELSE Cardinality(Uses(V, F, x))
  BY <1>2, FS_RemoveElement
<1>4. CASE F[i] = x
  BY <1>1, <1>3, <1>4 DEF One
<1>5. CASE F[i] # x
  BY <1>1, <1>2, <1>3, <1>5 DEF One
<1>6. QED
  BY <1>4, <1>5

LEMMA UsesMore ==
  ASSUME NEW R, IsFiniteSet(R), NEW V \in SUBSET R, NEW F, NEW G, NEW x, NEW i \in R, i \notin V,
         \A j \in V : G[j] = F[j]
  PROVE  Cardinality(Uses(V \union {i}, G, x)) = Cardinality(Uses(V, F, x)) + One(G[i], x)
<1>1. /\ Uses(V \union {i}, G, x) = IF G[i] = x THEN Uses(V, F, x) \union {i} ELSE Uses(V, F, x)
      /\ i \notin Uses(V, F, x)
  BY DEF Uses
<1>2. IsFiniteSet(Uses(V, F, x)) /\ Cardinality(Uses(V, F, x)) \in Nat
  BY UsesFinite
<1>3. Cardinality(Uses(V, F, x) \union {i}) = Cardinality(Uses(V, F, x)) + 1
  BY <1>1, <1>2, FS_AddElement
<1>4. QED
  BY <1>1, <1>2, <1>3 DEF One

(* A user that changes what it uses.                                         *)
LEMMA UsesChange ==
  ASSUME NEW R, IsFiniteSet(R), NEW V \in SUBSET R, NEW F, NEW G, NEW x, NEW i \in V,
         \A j \in V \ {i} : G[j] = F[j]
  PROVE  Cardinality(Uses(V, G, x)) = Cardinality(Uses(V, F, x)) - One(F[i], x) + One(G[i], x)
<1>1. Cardinality(Uses(V \ {i}, G, x)) = Cardinality(Uses(V, F, x)) - One(F[i], x)
  BY UsesLess
<1>2. V \ {i} \in SUBSET R /\ i \in R /\ i \notin V \ {i} /\ (V \ {i}) \union {i} = V
  OBVIOUS
<1>3. Cardinality(Uses((V \ {i}) \union {i}, G, x)) = Cardinality(Uses(V \ {i}, G, x)) + One(G[i], x)
  BY <1>2, UsesMore
<1>4. QED
  BY <1>1, <1>2, <1>3

(* The byte of a counter follows the rules that use it.                      *)
LEMMA CounterMovesCounts ==
  ASSUME counter \in [Counters -> Bytes],
         NEW c \in Counters \union {NoCounter}, NEW d \in Counters \union {NoCounter},
         CounterMoves(c, d), NEW x \in Counters,
         x = c => counter[x] # 0,
         x = d => counter[x] - One(x, c) + 1 < ByteMod
  PROVE  counter'[x] = counter[x] - One(x, c) + One(x, d)
<1> DEFINE less == IF c = NoCounter THEN counter ELSE [counter EXCEPT ![c] = (@ - 1) % ByteMod]
<1>1. counter[x] \in Bytes /\ x # NoCounter /\ ByteMod \in Nat
  BY CountersAssumption, ByteArithmetic
<1>2. less \in [Counters -> Bytes]
  BY ByteArithmetic
<1>3. less[x] = counter[x] - One(x, c)
  <2>1. CASE x = c
    <3>1. less[x] = (counter[x] - 1) % ByteMod
      BY <1>1, <2>1
    <3>2. counter[x] - 1 \in Bytes
      BY <1>1, <2>1 DEF Bytes
    <3>3. QED
      BY <2>1, <3>1, <3>2, ByteArithmetic DEF One
  <2>2. CASE x # c
    BY <1>1, <2>2 DEF One, Bytes
  <2>3. QED
    BY <2>1, <2>2
<1>4. counter' = IF d = NoCounter THEN less ELSE [less EXCEPT ![d] = (@ + 1) % ByteMod]
  BY DEF CounterMoves
<1> HIDE DEF less
<1>5. CASE x = d
  <2>1. counter'[x] = (less[x] + 1) % ByteMod
    BY <1>1, <1>2, <1>4, <1>5
  <2>2. less[x] \in Bytes /\ less[x] + 1 < ByteMod
    BY <1>2, <1>3, <1>5
  <2>3. less[x] + 1 \in Bytes
    BY <1>1, <2>2 DEF Bytes
  <2>4. QED
    BY <1>3, <1>5, <2>1, <2>3, ByteArithmetic DEF One
<1>6. CASE x # d
  <2>1. counter'[x] = less[x]
    BY <1>2, <1>4, <1>6
  <2>2. QED
    BY <1>1, <1>3, <1>6, <2>1 DEF One, Bytes
<1>7. QED
  BY <1>5, <1>6
(* The same of the bytes of a meter; and a meter is in use as long as any    *)
(* byte is not 0.                                                            *)
InUse == \A m \in Meters : m \in on <=> \E u \in Users : num[<<m, u>>] # 0

LEMMA MeterMovesCounts ==
  ASSUME num \in [Meters \X Users -> Bytes], on \subseteq Meters, InUse,
         NEW u \in Users, NEW p \in Meters \union {NoMeter}, NEW n \in Meters \union {NoMeter},
         MeterMoves(u, p, n),
         p # NoMeter => num[<<p, u>>] # 0,
         n # NoMeter => num[<<n, u>>] - One(n, p) + 1 < ByteMod
  PROVE  /\ \A m \in Meters : /\ num'[<<m, u>>] = num[<<m, u>>] - One(m, p) + One(m, n)
                              /\ \A v \in Users \ {u} : num'[<<m, v>>] = num[<<m, v>>]
         /\ InUse'
<1> DEFINE fewer == IF p = NoMeter THEN num ELSE NumClear(num, u, p)
           still == IF p = NoMeter THEN on ELSE OnClear(fewer, on, p)
<1>0. /\ \A m \in Meters, v \in Users : num[<<m, v>>] \in Bytes
      /\ NoMeter \notin Meters /\ ByteMod \in Nat
  BY NoMeterAssumption, ByteArithmetic
<1>1. fewer \in [Meters \X Users -> Bytes]
  BY ByteArithmetic DEF NumClear
<1>2. \A m \in Meters, v \in Users :
         fewer[<<m, v>>] = IF m = p /\ v = u THEN num[<<m, v>>] - 1 ELSE num[<<m, v>>]
  <2>1. TAKE m \in Meters, v \in Users
  <2>2. CASE m = p /\ v = u
    <3>1. fewer[<<m, v>>] = (num[<<m, v>>] - 1) % ByteMod
      BY <1>0, <2>2 DEF NumClear
    <3>2. num[<<m, v>>] # 0 /\ num[<<m, v>>] \in Bytes
      BY <1>0, <2>2
    <3>3. num[<<m, v>>] - 1 \in Bytes
      BY <1>0, <3>2 DEF Bytes
    <3>4. QED
      BY <2>2, <3>1, <3>3, ByteArithmetic
  <2>3. CASE ~ (m = p /\ v = u)
    <3>1. <<m, v>> # <<p, u>>
      BY <2>3
    <3>2. QED
      BY <2>3, <3>1 DEF NumClear
  <2>4. QED
    BY <2>2, <2>3
<1>3. \A m \in Meters : m \in still <=> \E v \in Users : fewer[<<m, v>>] # 0
  <2>1. TAKE m \in Meters
  <2>2. CASE m = p
    <3>1. num[<<m, u>>] # 0
      BY <1>0, <2>2
    <3>2. m \in on
      BY <3>1 DEF InUse
    <3>3. QED
      BY <1>0, <2>2, <3>2 DEF OnClear
  <2>3. CASE m # p
    <3>1. \A v \in Users : fewer[<<m, v>>] = num[<<m, v>>]
      BY <1>2, <2>3
    <3>2. m \in still <=> m \in on
      BY <2>3 DEF OnClear
    <3>3. QED
      BY <3>1, <3>2 DEF InUse
  <2>4. QED
    BY <2>2, <2>3
<1>4. /\ num' = IF n = NoMeter THEN fewer ELSE NumSet(fewer, u, n)
      /\ on' = IF n = NoMeter THEN still ELSE OnSet(still, n)
  BY DEF MeterMoves
<1> HIDE DEF fewer, still
<1>5. \A m \in Meters, v \in Users :
         num'[<<m, v>>] = IF m = n /\ v = u THEN fewer[<<m, v>>] + 1 ELSE fewer[<<m, v>>]
  <2>1. TAKE m \in Meters, v \in Users
  <2>2. CASE m = n /\ v = u
    <3>1. num'[<<m, v>>] = (fewer[<<m, v>>] + 1) % ByteMod
      BY <1>0, <1>1, <1>4, <2>2 DEF NumSet
    <3>2. num[<<m, v>>] - One(m, p) + 1 < ByteMod
      BY <1>0, <2>2
    <3>3. fewer[<<m, v>>] \in Bytes /\ fewer[<<m, v>>] + 1 < ByteMod
      BY <1>0, <1>1, <1>2, <2>2, <3>2 DEF One, Bytes
    <3>4. fewer[<<m, v>>] + 1 \in Bytes
      BY <1>0, <3>3 DEF Bytes
    <3>5. QED
      BY <2>2, <3>1, <3>4, ByteArithmetic
  <2>3. CASE ~ (m = n /\ v = u)
    <3>1. <<m, v>> # <<n, u>>
      BY <2>3
    <3>2. QED
      BY <1>1, <1>4, <2>3, <3>1 DEF NumSet
  <2>4. QED
    BY <2>2, <2>3
<1>6. ASSUME NEW m \in Meters
      PROVE  /\ num'[<<m, u>>] = num[<<m, u>>] - One(m, p) + One(m, n)
             /\ \A v \in Users \ {u} : num'[<<m, v>>] = num[<<m, v>>]
  BY <1>0, <1>2, <1>5 DEF One, Bytes
<1>7. InUse'
  <2>1. SUFFICES ASSUME NEW m \in Meters
                 PROVE  m \in on' <=> \E v \in Users : num'[<<m, v>>] # 0
    BY DEF InUse
  <2>2. CASE m = n
    <3>1. m \in on'
      BY <1>0, <1>4, <2>2 DEF OnSet
    <3>2. num'[<<m, u>>] = fewer[<<m, u>>] + 1 /\ fewer[<<m, u>>] \in Nat
      BY <1>1, <1>5, <2>2 DEF Bytes
    <3>3. QED
      BY <3>1, <3>2
  <2>3. CASE m # n
    <3>1. \A v \in Users : num'[<<m, v>>] = fewer[<<m, v>>]
      BY <1>5, <2>3
    <3>2. m \in on' <=> m \in still
      BY <1>4, <2>3 DEF OnSet
    <3>3. QED
      BY <1>3, <3>1, <3>2
  <2>4. QED
    BY <2>2, <2>3
<1>8. QED
  BY <1>6, <1>7
LEMMA UsedOnce ==
  ASSUME NEW R, IsFiniteSet(R), NEW V \in SUBSET R, NEW F, NEW i \in V
  PROVE  Cardinality(Uses(V, F, F[i])) # 0
<1>1. i \in Uses(V, F, F[i])
  BY DEF Uses
<1>2. IsFiniteSet(Uses(V, F, F[i]))
  BY UsesFinite
<1>3. QED
  BY <1>1, <1>2, FS_EmptySet

(* The rules that use a counter are no more than a byte can count.           *)
LEMMA RuleUses ==
  ASSUME NEW V \in SUBSET Rules, NEW F, NEW x
  PROVE  Cardinality(Uses(V, F, x)) \in Nat /\ Cardinality(Uses(V, F, x)) < ByteMod
<1>1. /\ Cardinality(Uses(V, F, x)) \in Nat /\ Cardinality(Rules) \in Nat
      /\ Cardinality(Uses(V, F, x)) <= Cardinality(Rules)
  BY RulesAssumption, UsesFinite, FS_CardinalityType
<1>2. QED
  BY <1>1, RulesAssumption, ByteArithmetic

CountersRight == \A c \in Counters : counter[c] = Cardinality(Uses(valid, counterOf, c))

LEMMA CountersKept ==
  ASSUME TypeOK, CallShape, uncleared = 0 => CountersRight, [Next]_vars, uncleared' = 0
  PROVE  CountersRight'
<1>t. /\ valid \in SUBSET Rules /\ cur \in Rules /\ uncleared \in Nat
      /\ counterOf \in [Rules -> Counters \union {NoCounter}]
      /\ counter \in [Counters -> Bytes]
  BY DEF TypeOK
<1>w. wish.counter \in Counters \union {NoCounter}
  BY TypeParts, WishTypes
<1>f. ASSUME NEW f, FailsBy(f)  PROVE uncleared = 0 /\ f # "stat"
  BY <1>f, <1>t DEF FailsBy
<1>u. ASSUME valid' = valid, counterOf' = counterOf, counter' = counter, uncleared = 0
      PROVE  CountersRight'
  BY <1>u DEF CountersRight
<1>m. ASSUME uncleared = 0,
             NEW c \in Counters \union {NoCounter}, NEW d \in Counters \union {NoCounter},
             CounterMoves(c, d), valid' \in SUBSET Rules,
             c # NoCounter => Cardinality(Uses(valid, counterOf, c)) # 0,
             \A x \in Counters : Cardinality(Uses(valid', counterOf', x))
               = Cardinality(Uses(valid, counterOf, x)) - One(x, c) + One(x, d)
      PROVE  CountersRight'
  <2>1. SUFFICES ASSUME NEW x \in Counters
                 PROVE  counter'[x] = Cardinality(Uses(valid', counterOf', x))
    BY DEF CountersRight
  <2>2. counter[x] = Cardinality(Uses(valid, counterOf, x)) /\ x # NoCounter
    BY <1>m, CountersAssumption DEF CountersRight
  <2>3. x = c => counter[x] # 0
    BY <1>m, <2>2
  <2>4. Cardinality(Uses(valid', counterOf', x)) < ByteMod
    BY <1>m, RuleUses
  <2>5. x = d => counter[x] - One(x, c) + 1 < ByteMod
    <3>1. Cardinality(Uses(valid', counterOf', x)) = counter[x] - One(x, c) + One(x, d)
      BY <1>m, <2>2
    <3>2. SUFFICES ASSUME x = d  PROVE counter[x] - One(x, c) + 1 < ByteMod
      OBVIOUS
    <3>3. One(x, d) = 1
      BY <3>2 DEF One
    <3>4. QED
      BY <2>4, <3>1, <3>3
  <2>6. counter'[x] = counter[x] - One(x, c) + One(x, d)
    BY <1>t, <1>m, <2>3, <2>5, CounterMovesCounts
  <2>7. QED
    BY <1>m, <2>2, <2>6
<1>n. \A x \in Counters : One(x, NoCounter) = 0
  BY CountersAssumption DEF One
<1>c. \A x \in Counters : Cardinality(Uses(valid, counterOf, x)) \in Nat
  BY <1>t, RuleUses
<1>o. \A x, y : One(x, y) = One(y, x) /\ One(x, y) \in {0, 1}
  BY DEF One
<1>1. CASE InfoClear
  <2>1. /\ uncleared = 0 /\ cur \in valid /\ valid' = valid \ {cur}
        /\ CounterMoves(counterOf[cur], NoCounter)
        /\ \A j \in valid \ {cur} : counterOf'[j] = counterOf[j]
    BY <1>1, <1>t DEF InfoClear, history
  <2>2. counterOf[cur] \in Counters \union {NoCounter}
    BY <1>t
  <2>3. Cardinality(Uses(valid, counterOf, counterOf[cur])) # 0
    BY <1>t, <2>1, RulesAssumption, UsedOnce
  <2>4. \A x \in Counters : Cardinality(Uses(valid', counterOf', x))
           = Cardinality(Uses(valid, counterOf, x)) - One(x, counterOf[cur]) + One(x, NoCounter)
    <3>1. TAKE x \in Counters
    <3>2. Cardinality(Uses(valid \ {cur}, counterOf', x))
            = Cardinality(Uses(valid, counterOf, x)) - One(counterOf[cur], x)
      BY <1>t, <2>1, RulesAssumption, UsesLess
    <3>3. QED
      BY <1>c, <1>n, <1>o, <2>1, <3>2
  <2>5. valid' \in SUBSET Rules
    BY <1>t, <2>1
  <2>6. QED
    BY <1>m, <2>1, <2>2, <2>3, <2>4, <2>5
<1>2. CASE InfoSet
  <2>1. /\ uncleared = 0 /\ cur \notin valid /\ valid' = valid \union {cur}
        /\ CounterMoves(NoCounter, wish.counter)
        /\ counterOf'[cur] = wish.counter
        /\ \A j \in valid : counterOf'[j] = counterOf[j]
    BY <1>2, <1>t DEF InfoSet, history, CallShape
  <2>2. \A x \in Counters : Cardinality(Uses(valid', counterOf', x))
           = Cardinality(Uses(valid, counterOf, x)) - One(x, NoCounter) + One(x, wish.counter)
    <3>1. TAKE x \in Counters
    <3>2. Cardinality(Uses(valid \union {cur}, counterOf', x))
            = Cardinality(Uses(valid, counterOf, x)) + One(wish.counter, x)
      BY <1>t, <2>1, RulesAssumption, UsesMore
    <3>3. QED
      BY <1>c, <1>n, <1>o, <2>1, <3>2
  <2>3. valid' \in SUBSET Rules
    BY <1>t, <2>1
  <2>4. QED
    BY <1>m, <1>w, <2>1, <2>2, <2>3
<1>3. CASE CountDone
  <2>1. /\ uncleared = 0 /\ cur \in valid /\ valid' = valid
        /\ CounterMoves(counterOf[cur], wish.counter)
        /\ counterOf'[cur] = wish.counter
        /\ \A j \in valid \ {cur} : counterOf'[j] = counterOf[j]
    BY <1>3, <1>t DEF CountDone, history, CallShape
  <2>2. counterOf[cur] \in Counters \union {NoCounter}
    BY <1>t
  <2>3. Cardinality(Uses(valid, counterOf, counterOf[cur])) # 0
    BY <1>t, <2>1, RulesAssumption, UsedOnce
  <2>4. \A x \in Counters : Cardinality(Uses(valid', counterOf', x))
           = Cardinality(Uses(valid, counterOf, x)) - One(x, counterOf[cur]) + One(x, wish.counter)
    <3>1. TAKE x \in Counters
    <3>2. Cardinality(Uses(valid, counterOf', x))
            = Cardinality(Uses(valid, counterOf, x)) - One(counterOf[cur], x) + One(wish.counter, x)
      BY <1>t, <2>1, RulesAssumption, UsesChange
    <3>3. QED
      BY <1>o, <2>1, <3>2
  <2>5. QED
    BY <1>m, <1>t, <1>w, <2>1, <2>2, <2>3, <2>4
<1>4. ASSUME NEW s \in Slots, ClearSlotFails(s) \/ CountSlotFails(s)  PROVE CountersRight'
  BY <1>4, <1>f, <1>u DEF ClearSlotFails, CountSlotFails, rules
<1>5. ASSUME NEW k \in Keys, WriteKeyFails(k)  PROVE CountersRight'
  <2>1. uncleared = 0
    BY <1>5, <1>f DEF WriteKeyFails
  <2>2. QED
    BY <1>5, <1>u, <2>1 DEF WriteKeyFails, Stuck, rules
<1>6. CASE InfoClearFails \/ CountDoneFails
  BY <1>6, <1>f DEF InfoClearFails, CountDoneFails
<1>7. ASSUME UNCHANGED <<rules, counter, history>>  PROVE CountersRight'
  BY <1>7, <1>u DEF rules, history
<1>8. ASSUME NEW i \in Rules, NEW w, NEW S, NEW place, Begins(place, i, w, S)  PROVE CountersRight'
  BY <1>7, <1>8 DEF Begins
<1>9. ASSUME NEW s \in Slots, ClearSlot(s) \/ CountSlot(s)  PROVE CountersRight'
  BY <1>7, <1>9 DEF ClearSlot, CountSlot
<1>10. CASE NothingToClear
  BY <1>7, <1>10 DEF NothingToClear
<1>11. ASSUME NEW k \in Keys, WriteKey(k) \/ NoRoom(k)  PROVE CountersRight'
  BY <1>7, <1>11 DEF WriteKey, NoRoom, Stuck
<1>12. ASSUME NEW c \in Counters, StatClear(c)  PROVE CountersRight'
  BY <1>7, <1>12 DEF StatClear
<1>13. ASSUME NEW s \in Slots, Match(s)  PROVE CountersRight'
  BY <1>7, <1>13 DEF Match
<1>14. ASSUME NEW r \in MacRules, NEW m \in Meters \union {NoMeter}, MacRuleAdd(r, m)
       PROVE  CountersRight'
  BY <1>7, <1>14 DEF MacRuleAdd
<1>15. ASSUME NEW r \in MacRules, MacRuleDel(r)  PROVE CountersRight'
  BY <1>7, <1>15 DEF MacRuleDel
<1>16. ASSUME NEW p \in Inputs, NEW m \in Meters \union {NoMeter}, InitialMmpSet(p, m)
       PROVE  CountersRight'
  BY <1>7, <1>16 DEF InitialMmpSet
<1>17. CASE UNCHANGED vars
  BY <1>7, <1>17 DEF vars
<1>18. QED
  BY <1>1, <1>2, <1>3, <1>4, <1>5, <1>6, <1>8, <1>9, <1>10, <1>11, <1>12, <1>13, <1>14, <1>15, <1>16,
     <1>17 DEF Next, RuleAdd, RuleDel, StatSet
RangesWith(u) == {r \in MacRules : r[1] = u}

MetersRight ==
  /\ \A m \in Meters :
       /\ num[<<m, "acl">>] = Cardinality(Uses(valid, meterOf, m))
       /\ num[<<m, "adm">>] = Cardinality(Uses(Inputs, adm, m))
       /\ \A u \in {"smac", "dmac"} : num[<<m, u>>] >= Cardinality(Uses(RangesWith(u), mac, m))
  /\ InUse

LEMMA MetersKept ==
  ASSUME TypeOK, CallShape, MetersRight, [Next]_vars
  PROVE  MetersRight'
<1>t. /\ valid \in SUBSET Rules /\ cur \in Rules
      /\ meterOf \in [Rules -> Meters \union {NoMeter}]
      /\ num \in [Meters \X Users -> Bytes] /\ on \subseteq Meters
      /\ mac \in [MacRules -> Meters \union {NoMeter}]
      /\ adm \in [Inputs -> Meters \union {NoMeter}]
  BY DEF TypeOK
<1>a. {"acl", "adm", "smac", "dmac"} \subseteq Users
  BY DEF Users
<1>b. /\ ByteMod \in Nat /\ NoMeter \notin Meters
      /\ \A m \in Meters, u \in Users : num[<<m, u>>] \in Bytes /\ num[<<m, u>>] \in Nat
  BY <1>t, ByteArithmetic, NoMeterAssumption DEF Bytes
<1>n. \A m \in Meters : One(m, NoMeter) = 0
  BY <1>b DEF One
<1>o. \A x, y : One(x, y) = One(y, x) /\ One(x, y) \in {0, 1}
  BY DEF One
<1>c. \A m \in Meters : /\ Cardinality(Uses(valid, meterOf, m)) \in Nat
                        /\ Cardinality(Uses(Inputs, adm, m)) \in Nat
                        /\ \A u \in Users : Cardinality(Uses(RangesWith(u), mac, m)) \in Nat
  <2>1. \A u : RangesWith(u) \in SUBSET MacRules
    BY DEF RangesWith
  <2>2. QED
    BY <1>t, <2>1, RulesAssumption, InputsAssumption, MacRulesAssumption, UsesFinite
<1>u. ASSUME valid' = valid, meterOf' = meterOf, num' = num, on' = on, mac' = mac, adm' = adm
      PROVE  MetersRight'
  BY <1>u DEF MetersRight, InUse
<1>r. ASSUME NEW u \in Users, NEW p \in Meters \union {NoMeter}, NEW n \in Meters \union {NoMeter},
             MeterMoves(u, p, n),
             p # NoMeter => num[<<p, u>>] # 0,
             n # NoMeter => num[<<n, u>>] - One(n, p) + 1 < ByteMod
      PROVE  /\ \A m \in Meters :
                  /\ num'[<<m, u>>] = num[<<m, u>>] - One(m, p) + One(m, n)
                  /\ \A v \in Users \ {u} : num'[<<m, v>>] = num[<<m, v>>]
             /\ InUse'
  BY <1>t, <1>r, MeterMovesCounts DEF MetersRight
(* Rules.                                                                    *)
<1>m. ASSUME NEW p \in Meters \union {NoMeter}, NEW n \in Meters \union {NoMeter},
             MeterMoves("acl", p, n), mac' = mac, adm' = adm, valid' \in SUBSET Rules,
             p # NoMeter => Cardinality(Uses(valid, meterOf, p)) # 0,
             \A x \in Meters : Cardinality(Uses(valid', meterOf', x))
               = Cardinality(Uses(valid, meterOf, x)) - One(x, p) + One(x, n)
      PROVE  MetersRight'
  <2>1. p # NoMeter => num[<<p, "acl">>] # 0
    BY <1>m DEF MetersRight
  <2>2. n # NoMeter => num[<<n, "acl">>] - One(n, p) + 1 < ByteMod
    <3>1. SUFFICES ASSUME n # NoMeter  PROVE num[<<n, "acl">>] - One(n, p) + 1 < ByteMod
      OBVIOUS
    <3>2. Cardinality(Uses(valid', meterOf', n)) < ByteMod
      BY <1>m, RuleUses
    <3>3. Cardinality(Uses(valid', meterOf', n)) = num[<<n, "acl">>] - One(n, p) + One(n, n)
      BY <1>m, <3>1 DEF MetersRight
    <3>4. One(n, n) = 1
      BY DEF One
    <3>5. QED
      BY <3>2, <3>3, <3>4
  <2>3. /\ \A m \in Meters :
             /\ num'[<<m, "acl">>] = num[<<m, "acl">>] - One(m, p) + One(m, n)
             /\ \A v \in Users \ {"acl"} : num'[<<m, v>>] = num[<<m, v>>]
        /\ InUse'
    BY <1>a, <1>m, <1>r, <2>1, <2>2
  <2>4. {"adm", "smac", "dmac"} \subseteq Users \ {"acl"}
    BY DEF Users
  <2>5. QED
    BY <1>m, <2>3, <2>4 DEF MetersRight
<1>1. CASE InfoClear
  <2>1. /\ cur \in valid /\ valid' = valid \ {cur} /\ MeterMoves("acl", meterOf[cur], NoMeter)
        /\ mac' = mac /\ adm' = adm /\ \A j \in valid \ {cur} : meterOf'[j] = meterOf[j]
    BY <1>1, <1>t DEF InfoClear, macs
  <2>2. meterOf[cur] \in Meters \union {NoMeter}
    BY <1>t
  <2>3. Cardinality(Uses(valid, meterOf, meterOf[cur])) # 0
    BY <1>t, <2>1, RulesAssumption, UsedOnce
  <2>4. \A x \in Meters : Cardinality(Uses(valid', meterOf', x))
           = Cardinality(Uses(valid, meterOf, x)) - One(x, meterOf[cur]) + One(x, NoMeter)
    <3>1. TAKE x \in Meters
    <3>2. Cardinality(Uses(valid \ {cur}, meterOf', x))
            = Cardinality(Uses(valid, meterOf, x)) - One(meterOf[cur], x)
      BY <1>t, <2>1, RulesAssumption, UsesLess
    <3>3. QED
      BY <1>c, <1>n, <1>o, <2>1, <3>2
  <2>5. valid' \in SUBSET Rules
    BY <1>t, <2>1
  <2>6. QED
    BY <1>m, <2>1, <2>2, <2>3, <2>4, <2>5
<1>2. CASE InfoSet
  <2>1. /\ cur \notin valid /\ valid' = valid \union {cur} /\ MeterMoves("acl", NoMeter, wish.meter)
        /\ mac' = mac /\ adm' = adm /\ meterOf'[cur] = wish.meter
        /\ \A j \in valid : meterOf'[j] = meterOf[j]
    BY <1>2, <1>t DEF InfoSet, macs, CallShape
  <2>2. wish.meter \in Meters \union {NoMeter}
    BY TypeParts, WishTypes
  <2>3. \A x \in Meters : Cardinality(Uses(valid', meterOf', x))
           = Cardinality(Uses(valid, meterOf, x)) - One(x, NoMeter) + One(x, wish.meter)
    <3>1. TAKE x \in Meters
    <3>2. Cardinality(Uses(valid \union {cur}, meterOf', x))
            = Cardinality(Uses(valid, meterOf, x)) + One(wish.meter, x)
      BY <1>t, <2>1, RulesAssumption, UsesMore
    <3>3. QED
      BY <1>c, <1>n, <1>o, <2>1, <3>2
  <2>4. valid' \in SUBSET Rules
    BY <1>t, <2>1
  <2>5. QED
    BY <1>m, <2>1, <2>2, <2>3, <2>4
(* MAC ranges: their uses are bounded by MaxUse, so that no byte wraps.      *)
<1>v. ASSUME NEW r \in MacRules, NEW m \in Meters \union {NoMeter}, MacRuleAdd(r, m)
      PROVE  MetersRight'
  <2> DEFINE u == r[1]
             V == RangesWith(u)
  <2>1. /\ valid' = valid /\ meterOf' = meterOf /\ adm' = adm /\ mac' = [mac EXCEPT ![r] = m]
        /\ MeterMoves(u, mac[r], m)
        /\ m # NoMeter => num[<<m, u>>] < MaxUse
    BY <1>v DEF MacRuleAdd, rules
  <2>2. u \in {"smac", "dmac"} /\ u \in Users /\ mac[r] \in Meters \union {NoMeter}
    BY <1>a, <1>t, MacRulesAssumption
  <2>3. V \in SUBSET MacRules /\ r \in V /\ \A j \in V \ {r} : mac'[j] = mac[j]
    BY <1>t, <2>1 DEF RangesWith
  <2>4. mac'[r] = m
    BY <1>t, <2>1
  <2> HIDE DEF u, V
  <2>5. \A x \in Meters : Cardinality(Uses(V, mac', x))
          = Cardinality(Uses(V, mac, x)) - One(mac[r], x) + One(m, x)
    BY <2>3, <2>4, MacRulesAssumption, UsesChange
  <2>6. mac[r] # NoMeter => num[<<mac[r], u>>] # 0
    <3>1. Cardinality(Uses(V, mac, mac[r])) # 0
      BY <2>3, MacRulesAssumption, UsedOnce
    <3>2. mac[r] # NoMeter => num[<<mac[r], u>>] >= Cardinality(Uses(V, mac, mac[r]))
      BY <2>2 DEF MetersRight, V
    <3>3. mac[r] # NoMeter => num[<<mac[r], u>>] \in Nat /\ Cardinality(Uses(V, mac, mac[r])) \in Nat
      BY <1>b, <1>c, <2>2 DEF V
    <3>4. QED
      BY <3>1, <3>2, <3>3
  <2>7. m # NoMeter => num[<<m, u>>] - One(m, mac[r]) + 1 < ByteMod
    BY <1>b, <1>o, <2>1, <2>2, MaxUseAssumption DEF Bytes
  <2>8. /\ \A x \in Meters :
             /\ num'[<<x, u>>] = num[<<x, u>>] - One(x, mac[r]) + One(x, m)
             /\ \A v \in Users \ {u} : num'[<<x, v>>] = num[<<x, v>>]
        /\ InUse'
    BY <1>r, <2>1, <2>2, <2>6, <2>7
  <2>9. ASSUME NEW x \in Meters  PROVE num'[<<x, u>>] >= Cardinality(Uses(V, mac', x))
    <3>1. num[<<x, u>>] >= Cardinality(Uses(V, mac, x))
      BY <2>2 DEF MetersRight, V
    <3>2. num[<<x, u>>] \in Nat /\ Cardinality(Uses(V, mac, x)) \in Nat
      BY <1>b, <1>c, <2>2 DEF V
    <3>3. QED
      BY <1>o, <2>5, <2>8, <3>1, <3>2
  <2>10. ASSUME NEW x \in Meters, NEW v \in {"smac", "dmac"}, v # u
         PROVE  num'[<<x, v>>] >= Cardinality(Uses(RangesWith(v), mac', x))
    <3>1. Uses(RangesWith(v), mac', x) = Uses(RangesWith(v), mac, x)
      BY <1>t, <2>1, <2>10 DEF Uses, RangesWith, u
    <3>2. num'[<<x, v>>] = num[<<x, v>>]
      BY <1>a, <2>8, <2>10
    <3>3. QED
      BY <3>1, <3>2 DEF MetersRight
  <2>11. u \notin {"acl", "adm"}
    BY <2>2
  <2>12. \A x \in Meters : num'[<<x, "acl">>] = num[<<x, "acl">>] /\ num'[<<x, "adm">>] = num[<<x, "adm">>]
    BY <1>a, <2>8, <2>11
  <2>13. \A x \in Meters, v \in {"smac", "dmac"} : num'[<<x, v>>] >= Cardinality(Uses(RangesWith(v), mac', x))
    BY <2>9, <2>10 DEF V
  <2>14. QED
    BY <2>1, <2>8, <2>12, <2>13 DEF MetersRight
<1>w. ASSUME NEW r \in MacRules, MacRuleDel(r)  PROVE MetersRight'
  <2> DEFINE u == r[1]
             V == RangesWith(u)
  <2>1. /\ valid' = valid /\ meterOf' = meterOf /\ adm' = adm /\ mac' = [mac EXCEPT ![r] = NoMeter]
        /\ MeterMoves(u, NoMeter, mac[r])
        /\ mac[r] # NoMeter /\ num[<<mac[r], u>>] < MaxUse
    BY <1>w DEF MacRuleDel, rules
  <2>2. u \in {"smac", "dmac"} /\ u \in Users /\ mac[r] \in Meters
    BY <1>a, <1>t, <2>1, MacRulesAssumption
  <2>3. V \in SUBSET MacRules /\ r \in V /\ \A j \in V \ {r} : mac'[j] = mac[j]
    BY <1>t, <2>1 DEF RangesWith
  <2>4. mac'[r] = NoMeter
    BY <1>t, <2>1
  <2> HIDE DEF u, V
  <2>5. \A x \in Meters : Cardinality(Uses(V, mac', x))
          = Cardinality(Uses(V, mac, x)) - One(mac[r], x) + One(NoMeter, x)
    <3>1. TAKE x \in Meters
    <3>2. Cardinality(Uses(V, mac', x))
            = Cardinality(Uses(V, mac, x)) - One(mac[r], x) + One(mac'[r], x)
      <4>1. IsFiniteSet(MacRules) /\ V \in SUBSET MacRules /\ r \in V
        BY <2>3, MacRulesAssumption
      <4>2. \A j \in V \ {r} : mac'[j] = mac[j]
        BY <2>3
      <4>3. QED
        BY ONLY <4>1, <4>2, UsesChange
    <3>3. QED
      BY <2>4, <3>2
  <2>6. num[<<mac[r], u>>] - One(mac[r], NoMeter) + 1 < ByteMod
    BY <1>b, <1>o, <2>1, <2>2, MaxUseAssumption DEF Bytes
  <2>7. /\ \A x \in Meters :
             /\ num'[<<x, u>>] = num[<<x, u>>] - One(x, NoMeter) + One(x, mac[r])
             /\ \A v \in Users \ {u} : num'[<<x, v>>] = num[<<x, v>>]
        /\ InUse'
    BY <1>r, <2>1, <2>2, <2>6
  <2>8. ASSUME NEW x \in Meters  PROVE num'[<<x, u>>] >= Cardinality(Uses(V, mac', x))
    <3>1. num[<<x, u>>] >= Cardinality(Uses(V, mac, x))
      BY <2>2 DEF MetersRight, V
    <3>2. num[<<x, u>>] \in Nat /\ Cardinality(Uses(V, mac, x)) \in Nat
      BY <1>b, <1>c, <2>2 DEF V
    <3>3. QED
      BY <1>n, <1>o, <2>5, <2>7, <3>1, <3>2
  <2>9. ASSUME NEW x \in Meters, NEW v \in {"smac", "dmac"}, v # u
        PROVE  num'[<<x, v>>] >= Cardinality(Uses(RangesWith(v), mac', x))
    <3>1. Uses(RangesWith(v), mac', x) = Uses(RangesWith(v), mac, x)
      BY <1>t, <2>1, <2>9 DEF Uses, RangesWith, u
    <3>2. num'[<<x, v>>] = num[<<x, v>>]
      BY <1>a, <2>7, <2>9
    <3>3. QED
      BY <3>1, <3>2 DEF MetersRight
  <2>10. u \notin {"acl", "adm"}
    BY <2>2
  <2>11. \A x \in Meters : num'[<<x, "acl">>] = num[<<x, "acl">>] /\ num'[<<x, "adm">>] = num[<<x, "adm">>]
    BY <1>a, <2>7, <2>10
  <2>12. \A x \in Meters, v \in {"smac", "dmac"} : num'[<<x, v>>] >= Cardinality(Uses(RangesWith(v), mac', x))
    BY <2>8, <2>9 DEF V
  <2>13. QED
    BY <2>1, <2>7, <2>11, <2>12 DEF MetersRight
(* Initial pointers.                                                         *)
<1>x. ASSUME NEW q \in Inputs, NEW m \in Meters \union {NoMeter}, InitialMmpSet(q, m)
      PROVE  MetersRight'
  <2>1. /\ valid' = valid /\ meterOf' = meterOf /\ mac' = mac /\ adm' = [adm EXCEPT ![q] = m]
        /\ MeterMoves("adm", adm[q], m)
    BY <1>x DEF InitialMmpSet, rules
  <2>2. adm[q] \in Meters \union {NoMeter} /\ adm'[q] = m /\ \A j \in Inputs \ {q} : adm'[j] = adm[j]
    BY <1>t, <2>1
  <2>3. \A x \in Meters : Cardinality(Uses(Inputs, adm', x))
          = Cardinality(Uses(Inputs, adm, x)) - One(adm[q], x) + One(m, x)
    BY <2>2, InputsAssumption, UsesChange
  <2>4. adm[q] # NoMeter => num[<<adm[q], "adm">>] # 0
    <3>1. Cardinality(Uses(Inputs, adm, adm[q])) # 0
      BY InputsAssumption, UsedOnce
    <3>2. QED
      BY <2>2, <3>1 DEF MetersRight
  <2>5. m # NoMeter => num[<<m, "adm">>] - One(m, adm[q]) + 1 < ByteMod
    <3>1. SUFFICES ASSUME m # NoMeter  PROVE num[<<m, "adm">>] - One(m, adm[q]) + 1 < ByteMod
      OBVIOUS
    <3>2. Cardinality(Uses(Inputs, adm', m)) <= Cardinality(Inputs) /\ Cardinality(Uses(Inputs, adm', m)) \in Nat
      BY InputsAssumption, UsesFinite
    <3>3. Cardinality(Inputs) < ByteMod /\ Cardinality(Inputs) \in Nat
      BY InputsAssumption, FS_CardinalityType
    <3>4. Cardinality(Uses(Inputs, adm', m)) = num[<<m, "adm">>] - One(adm[q], m) + One(m, m)
      BY <2>3, <3>1 DEF MetersRight
    <3>5. One(m, m) = 1 /\ One(adm[q], m) = One(m, adm[q])
      BY DEF One
    <3>6. QED
      BY <1>b, <3>2, <3>3, <3>4, <3>5
  <2>6. /\ \A x \in Meters :
             /\ num'[<<x, "adm">>] = num[<<x, "adm">>] - One(x, adm[q]) + One(x, m)
             /\ \A v \in Users \ {"adm"} : num'[<<x, v>>] = num[<<x, v>>]
        /\ InUse'
    BY <1>a, <1>r, <2>1, <2>2, <2>4, <2>5
  <2>7. {"acl", "smac", "dmac"} \subseteq Users \ {"adm"}
    BY DEF Users
  <2>8. \A x \in Meters : num'[<<x, "adm">>] = Cardinality(Uses(Inputs, adm', x))
    BY <1>o, <2>3, <2>6 DEF MetersRight
  <2>9. QED
    BY <2>1, <2>6, <2>7, <2>8 DEF MetersRight
<1>3. ASSUME NEW i \in Rules, NEW w, NEW S, NEW place, Begins(place, i, w, S)  PROVE MetersRight'
  BY <1>3, <1>u DEF Begins, rules, meters, macs
<1>4. ASSUME NEW s \in Slots, ClearSlot(s) \/ ClearSlotFails(s) \/ CountSlot(s) \/ CountSlotFails(s)
      PROVE  MetersRight'
  BY <1>4, <1>u DEF ClearSlot, ClearSlotFails, CountSlot, CountSlotFails, rules, meters, macs
<1>5. CASE NothingToClear \/ InfoClearFails \/ CountDone \/ CountDoneFails
  BY <1>5, <1>u DEF NothingToClear, InfoClearFails, CountDone, CountDoneFails, rules, meters, macs
<1>6. ASSUME NEW k \in Keys, WriteKey(k) \/ NoRoom(k) \/ WriteKeyFails(k)  PROVE MetersRight'
  BY <1>6, <1>u DEF WriteKey, NoRoom, WriteKeyFails, Stuck, rules, meters, macs
<1>7. ASSUME NEW c \in Counters, StatClear(c)  PROVE MetersRight'
  BY <1>7, <1>u DEF StatClear, rules, meters, macs
<1>8. ASSUME NEW s \in Slots, Match(s)  PROVE MetersRight'
  BY <1>8, <1>u DEF Match, rules, meters, macs
<1>9. CASE UNCHANGED vars
  BY <1>9, <1>u DEF vars, rules, meters, macs
<1>10. QED
  BY <1>1, <1>2, <1>v, <1>w, <1>x, <1>3, <1>4, <1>5, <1>6, <1>7, <1>8, <1>9
     DEF Next, RuleAdd, RuleDel, StatSet
-----------------------------------------------------------------------------
(* What the chip holds of a rule while calls are under way.                 *)

\* The counter that slot s of rule i is to update: a running call that changes the counter
\* has done so in the slots it has visited.
CounterIn(i, s) ==
  IF i = cur /\ pc = "count" /\ s \notin rest THEN wish.counter ELSE counterOf[i]

\* The last answer on rule i is true of the chip.
InForce(i) ==
  /\ answer[i] = "gone" => i \notin valid
  /\ answer[i] = "set" =>
       /\ i \in valid /\ Cardinality(list[i]) = Cardinality(keys[i])
       /\ \A k \in keys[i] : \E s \in list[i] :
            chip[s] = [key |-> k, counter |-> CounterIn(i, s), meter |-> meterOf[i]]

\* The keys that the running call has written are in the slots it took, one in each.
KeysWritten ==
  /\ pc = "replace" => todo = wish.keys
  /\ pc = "write" =>
       /\ todo \subseteq wish.keys /\ IsFiniteSet(wish.keys \ todo)
       /\ Cardinality(new) = Cardinality(wish.keys \ todo)
       /\ \A k \in wish.keys \ todo : \E s \in new : chip[s] = EntryOf(k)

\* The answer on a rule that a call is replacing or deleting is of the past.
Standing ==
  /\ \A i \in Rules : pc \in {"idle", "count"} \/ i # cur => InForce(i)
  /\ KeysWritten

\* The slots of rule i that are not yet cleared.
Left(i) == IF i = cur /\ pc \in {"replace", "undo", "delete"} THEN rest ELSE list[i]

\* What slot s updates is a counter of who has it.
Accounted(s) ==
  \/ s \in new /\ chip[s].counter = wish.counter
  \/ \E i \in valid : s \in Left(i) /\ chip[s].counter = CounterIn(i, s)

\* As long as nothing fails, no list is freed, the chip holds what the lists say and nothing
\* else, and only a counter that a rule has, or will have when its call is done, has counted.
NoneFreed == \A i \in Rules : answer[i] # "freed"

ChipAccounted ==
  /\ \A s \in Slots : chip[s] # Empty => Accounted(s)
  /\ \A s \in Slots : chip[s] = Empty => s \notin new /\ \A i \in valid : s \notin Left(i)

PacketsAccounted ==
  \A c \in packets : \/ \E i \in valid : counterOf[i] = c
                     \/ pc \in {"write", "stuck", "count"} /\ c = wish.counter

Calm == NoneFreed /\ ChipAccounted /\ PacketsAccounted

LEMMA OthersAnswered ==
  ASSUME TypeOK, [Next]_vars, NEW i \in Rules, i # cur
  PROVE  keys'[i] = keys[i] /\ answer'[i] = answer[i]
<1>t. keys \in [Rules -> SUBSET Keys] /\ answer \in [Rules -> Answered]
  BY DEF TypeOK, Answered
<1>k. keys'[i] = keys[i]
  <2>1. ASSUME UNCHANGED rules  PROVE keys'[i] = keys[i]
    BY <2>1 DEF rules
  <2>2. ASSUME NEW j \in Rules, NEW w, NEW S, NEW place, Begins(place, j, w, S)  PROVE UNCHANGED rules
    BY <2>2 DEF Begins
  <2>3. CASE InfoClear \/ InfoSet
    BY <2>3, <1>t DEF InfoClear, InfoSet
  <2>4. CASE CountDone
    BY <2>4 DEF CountDone
  <2>5. QED
    BY <2>1, <2>2, <2>3, <2>4 DEF Next, RuleAdd, RuleDel, StatSet, ClearSlot, ClearSlotFails, CountSlot,
       CountSlotFails, NothingToClear, InfoClearFails, WriteKey, NoRoom, WriteKeyFails, Stuck,
       CountDoneFails, StatClear, Match, MacRuleAdd, MacRuleDel, InitialMmpSet, vars
<1>a. answer'[i] = answer[i]
  <2>1. ASSUME NEW a, Answers(a)  PROVE answer'[i] = answer[i]
    BY <2>1, <1>t DEF Answers
  <2>2. ASSUME NEW j \in Rules, NEW w, NEW S, NEW place, Begins(place, j, w, S)  PROVE answer' = answer
    BY <2>2 DEF Begins
  <2>3. CASE InfoClear \/ InfoSet
    BY <2>3, <2>1 DEF InfoClear, InfoSet
  <2>4. QED
    BY <2>1, <2>2, <2>3 DEF Next, RuleAdd, RuleDel, StatSet, ClearSlot, ClearSlotFails, CountSlot,
       CountSlotFails, NothingToClear, InfoClearFails, WriteKey, NoRoom, WriteKeyFails, Stuck, CountDone,
       CountDoneFails, StatClear, Match, MacRuleAdd, MacRuleDel, InitialMmpSet, vars
<1>q. QED
  BY <1>k, <1>a

(* A call that is under way leaves every other rule as it stands.            *)
LEMMA OthersInForce ==
  ASSUME TypeOK, CallShape, OwnedNow, [Next]_vars,
         NEW i \in Rules, i # cur, InForce(i), cur' = i => pc' = "idle"
  PROVE  InForce(i)'
<1>1. keys'[i] = keys[i] /\ answer'[i] = answer[i]
  BY OthersAnswered
<1>2. CASE answer[i] # "set" /\ answer[i] # "gone"
  BY <1>1, <1>2 DEF InForce
<1>3. CASE answer[i] \in {"set", "gone"}
  <2>1. /\ (i \in valid') <=> (i \in valid)
        /\ list'[i] = list[i] /\ counterOf'[i] = counterOf[i] /\ meterOf'[i] = meterOf[i]
        /\ \A s \in Listed(i) : chip'[s] = chip[s]
    BY <1>3, OthersLeftAlone
  <2>2. \A s : CounterIn(i, s) = counterOf[i] /\ CounterIn(i, s)' = counterOf'[i]
    BY DEF CounterIn
  <2>3. answer[i] = "set" => \A k \in keys[i] : \E s \in list[i] :
          chip'[s] = [key |-> k, counter |-> counterOf'[i], meter |-> meterOf'[i]]
    BY <2>1, <2>2 DEF InForce, Listed
  <2>4. QED
    BY <1>1, <2>1, <2>2, <2>3 DEF InForce
<1>4. QED
  BY <1>2, <1>3

(* A call begins, on a rule that is as it stands.                            *)
LEMMA BeginsStanding ==
  ASSUME TypeOK, Standing, NEW i \in Rules, NEW w, NEW S, NEW place,
         Begins(place, i, w, S), place \in {"replace", "delete", "count"},
         place = "count" => S = list[i]
  PROVE  Standing'
<1>1. /\ pc = "idle" /\ pc' = place /\ cur' = i /\ wish' = w /\ todo' = w.keys /\ rest' = S
      /\ UNCHANGED <<valid, list, keys, counterOf, meterOf, chip, answer>>
  BY DEF Begins, rules
<1>2. ASSUME NEW j \in Rules, pc' \in {"idle", "count"} \/ j # cur'  PROVE InForce(j)'
  <2>1. InForce(j)
    BY <1>1 DEF Standing
  <2>2. \A s : CounterIn(j, s) = counterOf[j]
    BY <1>1 DEF CounterIn
  <2>3. \A s \in list[j] : CounterIn(j, s)' = counterOf[j]
    BY <1>1 DEF CounterIn
  <2>4. QED
    BY <1>1, <2>1, <2>2, <2>3 DEF InForce
<1>3. KeysWritten'
  BY <1>1 DEF KeysWritten
<1>4. QED
  BY <1>2, <1>3 DEF Standing

(* Every step keeps the last answers true.                                   *)
LEMMA StandingKept ==
  ASSUME TypeOK, CallShape, OwnedNow, Standing, [Next]_vars
  PROVE  Standing'
<1>t. /\ valid \subseteq Rules /\ cur \in Rules /\ new \subseteq Slots
      /\ list \in [Rules -> SUBSET Slots] /\ chip \in [Slots -> Entries \union {Empty}]
      /\ keys \in [Rules -> SUBSET Keys]
      /\ counterOf \in [Rules -> Counters \union {NoCounter}]
      /\ meterOf \in [Rules -> Meters \union {NoMeter}]
      /\ answer \in [Rules -> Answered]
  BY DEF TypeOK, Answered
<1>j. PICK j \in Rules : j = cur
  BY <1>t
<1> USE <1>j
(* Of a step of a call it is enough to look at the rule of the call.         *)
<1>o. ASSUME cur' = cur \/ pc' = "idle", pc' \in {"idle", "count"} => InForce(j)', KeysWritten'
      PROVE  Standing'
  <2>1. ASSUME NEW i \in Rules, pc' \in {"idle", "count"} \/ i # cur'  PROVE InForce(i)'
    <3>1. CASE i = cur
      BY <1>o, <2>1, <3>1
    <3>2. CASE i # cur
      <4>1. InForce(i)
        BY <3>2 DEF Standing
      <4>2. cur' = i => pc' = "idle"
        BY <1>o, <3>2
      <4>3. QED
        BY <3>2, <4>1, <4>2, OthersInForce
    <3>3. QED
      BY <3>1, <3>2
  <2>2. QED
    BY <1>o, <2>1 DEF Standing
<1>d. ASSUME Done, answer' = [answer EXCEPT ![cur] = "unknown"] \/ answer' = [answer EXCEPT ![cur] = "freed"]
      PROVE  Standing'
  <2>1. answer'[cur] \in {"unknown", "freed"} /\ pc' = "idle"
    BY <1>d, <1>t DEF Done
  <2>2. InForce(j)'
    <3>1. answer'[j] # "gone" /\ answer'[cur] # "set"
      BY <2>1
    <3>2. QED
      BY <3>1 DEF InForce
  <2>3. KeysWritten'
    BY <2>1 DEF KeysWritten
  <2>4. QED
    BY <1>o, <2>1, <2>2, <2>3
<1>n. ASSUME cur' = cur, pc' \notin {"idle", "count", "replace", "write"}  PROVE Standing'
  BY <1>n, <1>o DEF KeysWritten
<1>1. ASSUME NEW i \in Rules, NEW w \in Wanted, RuleAdd(i, w)  PROVE Standing'
  BY <1>1, BeginsStanding DEF RuleAdd
<1>2. ASSUME NEW i \in Rules, RuleDel(i)  PROVE Standing'
  BY <1>2, BeginsStanding DEF RuleDel
<1>3. ASSUME NEW i \in Rules, NEW c \in Counters \union {NoCounter}, StatSet(i, c)  PROVE Standing'
  BY <1>3, BeginsStanding DEF StatSet
<1>4. ASSUME NEW s \in Slots, ClearSlot(s)  PROVE Standing'
  <2>1. pc' = pc /\ cur' = cur /\ wish' = wish /\ todo' = todo /\ pc \notin {"idle", "count", "write"}
    BY <1>4 DEF ClearSlot
  <2>2. KeysWritten'
    BY <2>1 DEF KeysWritten, Standing
  <2>3. QED
    BY <1>o, <2>1, <2>2
<1>5. ASSUME NEW s \in Slots, ClearSlotFails(s) \/ CountSlotFails(s)  PROVE Standing'
  BY <1>5, <1>d DEF ClearSlotFails, CountSlotFails, Answers
<1>6. ASSUME NEW s \in Slots, CountSlot(s)  PROVE Standing'
  <2>1. /\ pc = "count" /\ pc' = pc /\ cur' = cur /\ wish' = wish /\ rest' = rest \ {s} /\ answer' = answer
        /\ UNCHANGED <<valid, list, keys, counterOf, meterOf>>
        /\ chip' = [chip EXCEPT ![s] = IF @ = Empty THEN Empty
                      ELSE [key |-> @.key, counter |-> wish.counter, meter |-> @.meter]]
    BY <1>6 DEF CountSlot, rules
  <2>2. InForce(j)
    BY <2>1, <1>t DEF Standing
  <2>3. ASSUME NEW k \in keys[cur], NEW r \in list[cur],
               chip[r] = [key |-> k, counter |-> CounterIn(j, r), meter |-> meterOf[cur]]
        PROVE  chip'[r] = [key |-> k, counter |-> CounterIn(j, r)', meter |-> meterOf[cur]]
    <3>1. CASE r # s
      <4>1. CounterIn(j, r)' = CounterIn(j, r) /\ chip'[r] = chip[r]
        BY <1>t, <2>1, <3>1 DEF CounterIn
      <4>2. QED
        BY <2>3, <4>1
    <3>2. CASE r = s
      <4>1. CounterIn(j, r)' = wish.counter
        BY <2>1, <3>2 DEF CounterIn
      <4>2. k # "none"
        BY <1>t, KeysAssumption
      <4>3. chip[s] # Empty /\ chip[s].key = k /\ chip[s].meter = meterOf[cur]
        BY <2>3, <3>2, <4>2 DEF Empty
      <4>4. chip'[s] = [key |-> k, counter |-> wish.counter, meter |-> meterOf[cur]]
        BY <1>t, <2>1, <4>3
      <4>5. QED
        BY <3>2, <4>1, <4>4
    <3>3. QED
      BY <3>1, <3>2
  <2>4. InForce(j)'
    <3>1. answer[j] = "set" => \A k \in keys[j] : \E r \in list[j] :
            chip'[r] = [key |-> k, counter |-> CounterIn(j, r)', meter |-> meterOf[j]]
      <4>1. SUFFICES ASSUME answer[j] = "set", NEW k \in keys[j]
                     PROVE  \E r \in list[j] :
                       chip'[r] = [key |-> k, counter |-> CounterIn(j, r)', meter |-> meterOf[j]]
        OBVIOUS
      <4>2. PICK r \in list[j] : chip[r] = [key |-> k, counter |-> CounterIn(j, r), meter |-> meterOf[j]]
        BY <2>2, <4>1 DEF InForce
      <4>3. QED
        BY <2>3, <4>2
    <3>2. QED
      BY <2>1, <2>2, <3>1 DEF InForce
  <2>5. KeysWritten'
    BY <2>1 DEF KeysWritten
  <2>6. QED
    BY <1>o, <2>1, <2>4, <2>5
<1>w. ASSUME pc = "replace", Goes("write")  PROVE Standing'
  <2>1. todo' = todo /\ wish' = wish /\ new' = new /\ cur' = cur /\ pc' = "write" /\ todo = wish.keys
    BY <1>w DEF Goes, Standing, KeysWritten
  <2>2. wish.keys \ todo = {} /\ new = {}
    BY <1>w, <2>1 DEF CallShape
  <2>3. KeysWritten'
    BY <2>1, <2>2, FS_EmptySet DEF KeysWritten
  <2>4. QED
    BY <1>o, <2>1, <2>3
<1>7. CASE NothingToClear
  BY <1>7, <1>w DEF NothingToClear
<1>8. CASE InfoClear
  <2>1. CASE pc = "replace"
    BY <1>8, <1>w, <2>1 DEF InfoClear
  <2>2. CASE pc = "delete"
    <3>1. valid' = valid \ {cur} /\ answer'[cur] = "gone" /\ pc' = "idle"
      BY <1>8, <1>t, <2>2 DEF InfoClear, Answers, Done
    <3>2. InForce(j)' /\ KeysWritten'
      BY <3>1 DEF InForce, KeysWritten
    <3>3. QED
      BY <1>o, <3>1, <3>2
  <2>3. CASE pc = "undo"
    BY <1>8, <1>d, <2>3 DEF InfoClear, Answers
  <2>4. QED
    BY <1>8, <2>1, <2>2, <2>3 DEF InfoClear
<1>9. CASE InfoClearFails \/ CountDoneFails
  BY <1>9, <1>d DEF InfoClearFails, CountDoneFails, Answers
<1>10. ASSUME NEW k \in Keys, WriteKey(k)  PROVE Standing'
  <2>1. PICK s \in Lowest(Room(k)) : chip' = [chip EXCEPT ![s] = EntryOf(k)] /\ new' = new \union {s}
    BY <1>10 DEF WriteKey
  <2>2. /\ pc = "write" /\ pc' = pc /\ cur' = cur /\ wish' = wish /\ k \in todo /\ todo' = todo \ {k}
    BY <1>10 DEF WriteKey
  <2>3. s \in Slots /\ s \notin new
    BY RoomIsFree DEF OwnedNow, Owned
  <2>4. /\ todo \subseteq wish.keys /\ IsFiniteSet(wish.keys \ todo)
        /\ Cardinality(new) = Cardinality(wish.keys \ todo)
        /\ \A x \in wish.keys \ todo : \E r \in new : chip[r] = EntryOf(x)
    BY <2>2 DEF Standing, KeysWritten
  <2>5. IsFiniteSet(new)
    BY <1>t, SlotsAssumption, FS_Subset
  <2>6. wish.keys \ todo' = (wish.keys \ todo) \union {k} /\ k \notin wish.keys \ todo
    BY <2>2, <2>4
  <2>7. Cardinality(new') = Cardinality(wish.keys \ todo') /\ IsFiniteSet(wish.keys \ todo')
    <3>1. Cardinality(new \union {s}) = Cardinality(new) + 1
      BY <2>3, <2>5, FS_AddElement
    <3>2. /\ Cardinality((wish.keys \ todo) \union {k}) = Cardinality(wish.keys \ todo) + 1
          /\ IsFiniteSet((wish.keys \ todo) \union {k})
      BY <2>4, <2>6, FS_AddElement
    <3>3. QED
      BY <2>1, <2>4, <2>6, <3>1, <3>2
  <2>8. \A x \in wish.keys \ todo' : \E r \in new' : chip'[r] = EntryOf(x)
    <3>1. chip'[s] = EntryOf(k) /\ s \in new'
      BY <1>t, <2>1, <2>3
    <3>2. \A r \in new : chip'[r] = chip[r] /\ r \in new'
      BY <1>t, <2>1, <2>3
    <3>3. QED
      BY <2>4, <2>6, <3>1, <3>2
  <2>9. \A x : EntryOf(x)' = EntryOf(x)
    BY <2>2 DEF EntryOf
  <2>10. KeysWritten'
    BY <2>2, <2>4, <2>7, <2>8, <2>9 DEF KeysWritten
  <2>11. QED
    BY <1>o, <2>2, <2>10
<1>11. ASSUME NEW k \in Keys, NoRoom(k) \/ WriteKeyFails(k)  PROVE Standing'
  BY <1>11, <1>n DEF NoRoom, WriteKeyFails, Stuck, Goes
<1>12. CASE InfoSet
  <2>1. CASE pc = "write"
    <3>1. /\ todo = {} /\ pc' = "idle" /\ answer'[cur] = "set" /\ valid' = valid \union {cur} /\ chip' = chip
          /\ list'[cur] = new /\ keys'[cur] = wish.keys
          /\ counterOf'[cur] = wish.counter /\ meterOf'[cur] = wish.meter
      BY <1>12, <1>t, <2>1 DEF InfoSet, Done, Answers
    <3>2. /\ Cardinality(new) = Cardinality(wish.keys)
          /\ \A k \in wish.keys : \E s \in new : chip[s] = EntryOf(k)
      <4>1. wish.keys \ todo = wish.keys
        BY <3>1
      <4>2. QED
        BY <2>1, <4>1 DEF Standing, KeysWritten
    <3>3. \A s : CounterIn(j, s)' = wish.counter
      BY <3>1 DEF CounterIn
    <3>4. InForce(j)' /\ KeysWritten'
      <4>1. cur \in valid' /\ Cardinality(list'[cur]) = Cardinality(keys'[cur])
        BY <3>1, <3>2
      <4>2. \A k \in keys'[cur] : \E s \in list'[cur] :
              chip'[s] = [key |-> k, counter |-> CounterIn(j, s)', meter |-> meterOf'[cur]]
        BY <3>1, <3>2, <3>3 DEF EntryOf
      <4>3. QED
        BY <3>1, <4>1, <4>2 DEF InForce, KeysWritten
    <3>5. QED
      BY <1>o, <3>1, <3>4
  <2>2. CASE pc = "stuck"
    BY <1>12, <1>n, <2>2 DEF InfoSet
  <2>3. QED
    BY <1>12, <2>1, <2>2 DEF InfoSet
<1>13. CASE CountDone
  <2>1. /\ pc = "count" /\ rest = {} /\ pc' = "idle" /\ counterOf'[cur] = wish.counter
        /\ UNCHANGED <<valid, list, keys, meterOf, chip, answer>>
    BY <1>13, <1>t DEF CountDone, Done
  <2>2. InForce(j)
    BY <1>t, <2>1 DEF Standing
  <2>3. \A s : CounterIn(j, s) = wish.counter /\ CounterIn(j, s)' = wish.counter
    BY <2>1 DEF CounterIn
  <2>4. InForce(j)' /\ KeysWritten'
    BY <2>1, <2>2, <2>3 DEF InForce, KeysWritten
  <2>5. QED
    BY <1>o, <2>1, <2>4
<1>14. ASSUME UNCHANGED <<rules, chip, call, answer>>  PROVE Standing'
  <2>1. \A i : InForce(i)' <=> InForce(i)
    BY <1>14 DEF InForce, CounterIn, rules, call
  <2>2. KeysWritten' <=> KeysWritten
    BY <1>14 DEF KeysWritten, EntryOf, call
  <2>3. QED
    BY <1>14, <2>1, <2>2 DEF Standing, call
<1>15. ASSUME \/ \E c \in Counters : StatClear(c)
              \/ \E s \in Slots : Match(s)
              \/ \E r \in MacRules, m \in Meters \union {NoMeter} : MacRuleAdd(r, m)
              \/ \E r \in MacRules : MacRuleDel(r)
              \/ \E p \in Inputs, m \in Meters \union {NoMeter} : InitialMmpSet(p, m)
              \/ UNCHANGED vars
       PROVE  Standing'
  BY <1>14, <1>15 DEF StatClear, Match, MacRuleAdd, MacRuleDel, InitialMmpSet, vars
<1>16. QED
  BY <1>1, <1>2, <1>3, <1>4, <1>5, <1>6, <1>7, <1>8, <1>9, <1>10, <1>11, <1>12, <1>13, <1>15 DEF Next

LEMMA NoFailure ==
  ASSUME TypeOK, failures' = 0, NEW f
  PROVE  ~ FailsBy(f)
BY DEF TypeOK, FailsBy

LEMMA NoneFreedKept ==
  ASSUME TypeOK, NoneFreed, [Next]_vars, failures' = 0
  PROVE  NoneFreed'
<1>t. answer \in [Rules -> Answered] /\ cur \in Rules
  BY DEF TypeOK, Answered
<1>f. \A f : ~ FailsBy(f)
  BY NoFailure
<1>a. ASSUME answer' = answer \/ \E a \in {"unknown", "gone", "set"} : Answers(a)
      PROVE  NoneFreed'
  BY <1>a, <1>t DEF NoneFreed, Answers
<1>b. ASSUME NEW i, NEW w, NEW S, NEW place, Begins(place, i, w, S)  PROVE NoneFreed'
  BY <1>b, <1>a DEF Begins
<1>1. ASSUME NEW s \in Slots, ClearSlot(s) \/ CountSlot(s)  PROVE NoneFreed'
  BY <1>1, <1>a DEF ClearSlot, CountSlot
<1>2. ASSUME NEW s \in Slots, ClearSlotFails(s) \/ CountSlotFails(s)  PROVE FALSE
  BY <1>2, <1>f DEF ClearSlotFails, CountSlotFails
<1>3. CASE NothingToClear \/ InfoClear
  BY <1>3, <1>a DEF NothingToClear, InfoClear
<1>4. CASE InfoClearFails \/ CountDoneFails
  BY <1>4, <1>f DEF InfoClearFails, CountDoneFails
<1>5. ASSUME NEW k \in Keys, WriteKey(k) \/ NoRoom(k)  PROVE NoneFreed'
  BY <1>5, <1>a DEF WriteKey, NoRoom, Stuck
<1>6. ASSUME NEW k \in Keys, WriteKeyFails(k)  PROVE FALSE
  BY <1>6, <1>f DEF WriteKeyFails
<1>7. CASE InfoSet \/ CountDone
  BY <1>7, <1>a DEF InfoSet, CountDone
<1>8. ASSUME UNCHANGED answer  PROVE NoneFreed'
  BY <1>8, <1>a
<1>9. QED
  BY <1>b, <1>1, <1>2, <1>3, <1>4, <1>5, <1>6, <1>7, <1>8
     DEF Next, RuleAdd, RuleDel, StatSet, StatClear, Match, MacRuleAdd, MacRuleDel, InitialMmpSet, vars

(* While no list is freed, each rule owns its slots.                         *)
LEMMA AllOwn ==
  ASSUME TypeOK, CallShape, OwnedNow, NoneFreed
  PROVE  /\ \A i, j \in valid : i # j => list[i] \intersect list[j] = {}
         /\ \A i \in valid : list[i] \intersect new = {}
         /\ \A s : s \notin mask => s \notin new /\ \A i \in valid : s \notin list[i]
         /\ \A i \in valid : Left(i) \subseteq list[i]
         /\ \A i \in valid : i # cur \/ pc \notin {"replace", "undo", "delete"} => Left(i) = list[i]
         /\ \A i, s : i # cur \/ pc # "count" => CounterIn(i, s) = counterOf[i]
<1>1. Kept = valid
  BY DEF Kept, NoneFreed, TypeOK
<1>2. \A i \in valid : Left(i) \subseteq list[i]
  BY DEF Left, CallShape, Listed
<1>3. \A i \in valid : i # cur \/ pc \notin {"replace", "undo", "delete"} => Left(i) = list[i]
  BY DEF Left
<1>4. \A i, s : i # cur \/ pc # "count" => CounterIn(i, s) = counterOf[i]
  BY DEF CounterIn
<1>5. QED
  BY <1>1, <1>2, <1>3, <1>4 DEF OwnedNow, Owned

(* What the chip holds stays accounted for.                                  *)
LEMMA ChipAccountedKept ==
  ASSUME TypeOK, CallShape, OwnedNow, NoneFreed, ChipAccounted, [Next]_vars, failures' = 0
  PROVE  ChipAccounted'
<1>t. /\ valid \subseteq Rules /\ cur \in Rules /\ new \subseteq Slots /\ rest \subseteq Slots
      /\ list \in [Rules -> SUBSET Slots] /\ chip \in [Slots -> Entries \union {Empty}]
      /\ counterOf \in [Rules -> Counters \union {NoCounter}]
  BY DEF TypeOK
<1>f. \A f : ~ FailsBy(f)
  BY NoFailure
<1>k. ASSUME NEW k \in Keys, NEW c, NEW m  PROVE [key |-> k, counter |-> c, meter |-> m] # Empty
  <2>1. k # "none"
    BY KeysAssumption
  <2>2. QED
    BY <2>1 DEF Empty
<1>o. /\ \A i, j \in valid : i # j => list[i] \intersect list[j] = {}
      /\ \A i \in valid : list[i] \intersect new = {}
      /\ \A s : s \notin mask => s \notin new /\ \A i \in valid : s \notin list[i]
      /\ \A i \in valid : Left(i) \subseteq list[i]
      /\ \A i \in valid : i # cur \/ pc \notin {"replace", "undo", "delete"} => Left(i) = list[i]
      /\ \A i, s : i # cur \/ pc # "count" => CounterIn(i, s) = counterOf[i]
  BY AllOwn
(* Nothing is written and every slot keeps its owner.                        *)
<1>s. ASSUME chip' = chip, new' = new, new = {} \/ wish' = wish, valid' = valid,
             \A i \in valid : Left(i)' = Left(i) /\ \A s \in list[i] : CounterIn(i, s)' = CounterIn(i, s)
      PROVE  ChipAccounted'
  BY <1>s, <1>o DEF ChipAccounted, Accounted
<1>b. ASSUME NEW i \in Rules, NEW w, NEW place, Begins(place, i, w, Listed(i)),
             place \in {"replace", "delete", "count"}
      PROVE  ChipAccounted'
  <2>1. /\ pc = "idle" /\ pc' = place /\ cur' = i /\ rest' = Listed(i)
        /\ UNCHANGED <<valid, list, counterOf, chip, new>>
    BY <1>b DEF Begins, rules
  <2>2. new = {}
    BY <2>1 DEF CallShape
  <2>3. ASSUME NEW j \in valid
        PROVE  Left(j)' = Left(j) /\ \A s \in list[j] : CounterIn(j, s)' = CounterIn(j, s)
    <3>1. Left(j) = list[j] /\ \A s : CounterIn(j, s) = counterOf[j]
      BY <1>o, <2>1
    <3>2. Left(j)' = list[j]
      BY <2>1 DEF Left, Listed
    <3>3. \A s \in list[j] : CounterIn(j, s)' = counterOf[j]
      BY <2>1 DEF CounterIn, Listed
    <3>4. QED
      BY <3>1, <3>2, <3>3
  <2>4. QED
    BY <1>s, <2>1, <2>2, <2>3
<1>1. ASSUME NEW i \in Rules, NEW w \in Wanted, RuleAdd(i, w)  PROVE ChipAccounted'
  BY <1>1, <1>b DEF RuleAdd
<1>2. ASSUME NEW i \in Rules, RuleDel(i)  PROVE ChipAccounted'
  BY <1>2, <1>b DEF RuleDel, Listed
<1>3. ASSUME NEW i \in Rules, NEW c \in Counters \union {NoCounter}, StatSet(i, c)  PROVE ChipAccounted'
  BY <1>3, <1>b DEF StatSet, Listed
<1>4. ASSUME NEW s \in Slots, ClearSlot(s)  PROVE ChipAccounted'
  <2>1. /\ pc \in {"replace", "undo", "delete"} /\ s \in rest /\ chip' = [chip EXCEPT ![s] = Empty]
        /\ rest' = rest \ {s} /\ UNCHANGED <<valid, list, counterOf, pc, cur, wish, new>>
    BY <1>4 DEF ClearSlot, rules
  <2>2. new = {} /\ cur \in valid /\ s \in list[cur]
    BY <2>1 DEF CallShape, Listed
  <2>3. \A i \in valid : Left(i)' = Left(i) \ {s}
    <3>1. TAKE i \in valid
    <3>2. CASE i = cur
      BY <2>1, <3>2 DEF Left
    <3>3. CASE i # cur
      BY <1>o, <2>1, <2>2, <3>3 DEF Left
    <3>4. QED
      BY <3>2, <3>3
  <2>4. \A i, r : CounterIn(i, r)' = CounterIn(i, r)
    BY <2>1 DEF CounterIn
  <2>5. chip'[s] = Empty /\ \A r \in Slots : r # s => chip'[r] = chip[r]
    BY <1>t, <2>1
  <2>6. QED
    BY <2>1, <2>2, <2>3, <2>4, <2>5 DEF ChipAccounted, Accounted
<1>5. ASSUME NEW s \in Slots, ClearSlotFails(s) \/ CountSlotFails(s)  PROVE FALSE
  BY <1>5, <1>f DEF ClearSlotFails, CountSlotFails
<1>6. ASSUME NEW s \in Slots, CountSlot(s)  PROVE ChipAccounted'
  <2> DEFINE e == IF chip[s] = Empty THEN Empty
                  ELSE [key |-> chip[s].key, counter |-> wish.counter, meter |-> chip[s].meter]
  <2>1. /\ pc = "count" /\ s \in rest /\ chip' = [chip EXCEPT ![s] = e]
        /\ rest' = rest \ {s} /\ UNCHANGED <<valid, list, counterOf, pc, cur, wish, new>>
    BY <1>6 DEF CountSlot, rules
  <2>2. new = {} /\ cur \in valid /\ s \in list[cur]
    BY <2>1 DEF CallShape, Listed
  <2>3. chip[s] # Empty => e # Empty /\ e.counter = wish.counter
    <3>1. chip[s] # Empty => chip[s] \in Entries
      BY <1>t
    <3>2. chip[s] # Empty => chip[s].key \in Keys
      BY <3>1 DEF Entries
    <3>3. QED
      BY <1>k, <3>2
  <2>4. chip[s] = Empty => e = Empty
    OBVIOUS
  <2> HIDE DEF e
  <2>5. chip'[s] = e /\ \A r \in Slots : r # s => chip'[r] = chip[r]
    BY <1>t, <2>1
  <2>6. \A i \in valid : Left(i)' = Left(i) /\ Left(i) = list[i]
    BY <2>1 DEF Left
  <2>7. \A i, r : r # s => CounterIn(i, r)' = CounterIn(i, r)
    BY <2>1 DEF CounterIn
  <2>8. ASSUME NEW j, j = cur  PROVE CounterIn(j, s)' = wish.counter
    BY <2>1, <2>8 DEF CounterIn
  <2>9. ASSUME NEW r \in Slots, chip'[r] # Empty  PROVE Accounted(r)'
    <3>1. CASE r = s
      <4>1. chip'[s] # Empty /\ chip'[s].counter = wish.counter
        BY <2>3, <2>4, <2>5, <2>9, <3>1
      <4>2. PICK j \in valid : j = cur
        BY <2>2
      <4>3. j \in valid' /\ s \in Left(j)' /\ chip'[s].counter = CounterIn(j, s)'
        BY <2>1, <2>2, <2>6, <2>8, <4>1, <4>2
      <4>4. QED
        BY <3>1, <4>3 DEF Accounted
    <3>2. CASE r # s
      <4>1. Accounted(r) /\ chip'[r] = chip[r]
        BY <2>5, <2>9, <3>2 DEF ChipAccounted
      <4>2. QED
        BY <2>1, <2>6, <2>7, <3>2, <4>1 DEF Accounted
    <3>3. QED
      BY <3>1, <3>2
  <2>10. ASSUME NEW r \in Slots, chip'[r] = Empty  PROVE r \notin new' /\ \A i \in valid' : r \notin Left(i)'
    <3>1. chip[r] = Empty
      BY <2>3, <2>5, <2>10
    <3>2. QED
      BY <2>1, <2>6, <3>1 DEF ChipAccounted
  <2>11. QED
    BY <2>9, <2>10 DEF ChipAccounted
<1>7. CASE NothingToClear
  <2>1. /\ pc = "replace" /\ cur \notin valid /\ pc' = "write" /\ cur' = cur
        /\ UNCHANGED <<valid, list, counterOf, chip, new, wish, rest>>
    BY <1>7 DEF NothingToClear, Goes, rules
  <2>2. \A i \in valid : Left(i)' = Left(i) /\ \A s \in list[i] : CounterIn(i, s)' = CounterIn(i, s)
    BY <2>1 DEF Left, CounterIn
  <2>3. QED
    BY <1>s, <2>1, <2>2
<1>8. CASE InfoClear
  <2>1. /\ pc \in {"replace", "undo", "delete"} /\ rest = {} /\ cur \in valid /\ chip' = chip
        /\ valid' = valid \ {cur} /\ pc' \in {"write", "idle"}
        /\ \A i \in valid \ {cur} : list'[i] = list[i] /\ counterOf'[i] = counterOf[i]
    BY <1>8, <1>t DEF InfoClear, Goes, Done
  <2>2. new = {} /\ new' = {}
    <3>1. new = {}
      BY <2>1 DEF CallShape
    <3>2. QED
      BY <1>8, <3>1 DEF InfoClear, Goes, Done
  <2>3. Left(cur) = {}
    BY <2>1 DEF Left
  <2>4. \A i \in valid' : /\ Left(i)' = Left(i)
                          /\ \A s : CounterIn(i, s)' = CounterIn(i, s)
    <3>1. TAKE i \in valid'
    <3>2. i \in valid /\ i # cur
      BY <2>1
    <3>3. Left(i) = list[i] /\ \A s : CounterIn(i, s) = counterOf[i]
      BY <1>o, <3>2
    <3>4. Left(i)' = list'[i] /\ \A s : CounterIn(i, s)' = counterOf'[i]
      BY <2>1 DEF Left, CounterIn
    <3>5. QED
      BY <2>1, <3>2, <3>3, <3>4
  <2>5. QED
    BY <2>1, <2>2, <2>3, <2>4 DEF ChipAccounted, Accounted
<1>9. CASE InfoClearFails \/ CountDoneFails
  BY <1>9, <1>f DEF InfoClearFails, CountDoneFails
<1>10. ASSUME NEW k \in Keys, WriteKey(k)  PROVE ChipAccounted'
  <2>1. PICK s \in Lowest(Room(k)) : chip' = [chip EXCEPT ![s] = EntryOf(k)] /\ new' = new \union {s}
    BY <1>10 DEF WriteKey
  <2>2. pc = "write" /\ UNCHANGED <<valid, list, counterOf, pc, cur, wish, rest>>
    BY <1>10 DEF WriteKey, rules
  <2>3. s \in Slots /\ s \notin new /\ \A i \in valid : s \notin list[i]
    BY <1>o, RoomIsFree
  <2>4. \A i, r : Left(i)' = Left(i) /\ CounterIn(i, r)' = CounterIn(i, r)
    BY <2>2 DEF Left, CounterIn
  <2>5. chip'[s] = EntryOf(k) /\ \A r \in Slots : r # s => chip'[r] = chip[r]
    BY <1>t, <2>1, <2>3
  <2>6. chip'[s] # Empty /\ chip'[s].counter = wish.counter
    BY <1>k, <2>5 DEF EntryOf
  <2>7. QED
    BY <1>o, <2>1, <2>2, <2>3, <2>4, <2>5, <2>6 DEF ChipAccounted, Accounted
<1>11. ASSUME NEW k \in Keys, NoRoom(k)  PROVE ChipAccounted'
  <2>1. pc = "write" /\ pc' = "stuck" /\ UNCHANGED <<valid, list, counterOf, chip, cur, wish, new, rest>>
    BY <1>11 DEF NoRoom, Stuck, Goes, rules
  <2>2. \A i, r : Left(i)' = Left(i) /\ CounterIn(i, r)' = CounterIn(i, r)
    BY <2>1 DEF Left, CounterIn
  <2>3. QED
    BY <1>s, <2>1, <2>2
<1>12. ASSUME NEW k \in Keys, WriteKeyFails(k)  PROVE FALSE
  BY <1>12, <1>f DEF WriteKeyFails
<1>13. CASE InfoSet
  <2>1. PICK j \in Rules : j = cur
    BY <1>t
  <2>2. /\ pc \in {"write", "stuck"} /\ valid' = valid \union {j} /\ chip' = chip /\ new' = {}
        /\ list'[j] = new /\ counterOf'[j] = wish.counter
        /\ \A i \in valid \ {j} : list'[i] = list[i] /\ counterOf'[i] = counterOf[i]
    BY <1>13, <1>t, <2>1 DEF InfoSet, Done
  <2>3. pc' = "idle" \/ (pc' = "undo" /\ rest' = new /\ cur' = cur)
    BY <1>13 DEF InfoSet, Done
  <2>4. j \notin valid
    BY <2>1, <2>2 DEF CallShape
  <2>5. Left(j)' = new /\ \A s : CounterIn(j, s)' = wish.counter
    BY <2>1, <2>2, <2>3 DEF Left, CounterIn
  <2>6. ASSUME NEW i \in valid  PROVE Left(i)' = Left(i) /\ \A s : CounterIn(i, s)' = CounterIn(i, s)
    <3>1. i # cur /\ i \in valid \ {j}
      BY <2>1, <2>4
    <3>2. Left(i)' = list'[i] /\ \A s : CounterIn(i, s)' = counterOf'[i]
      BY <2>3, <3>1 DEF Left, CounterIn
    <3>3. QED
      BY <1>o, <2>2, <3>1, <3>2
  <2>7. QED
    BY <2>2, <2>5, <2>6 DEF ChipAccounted, Accounted
<1>14. CASE CountDone
  <2>1. PICK j \in Rules : j = cur
    BY <1>t
  <2>2. /\ pc = "count" /\ rest = {} /\ pc' = "idle" /\ new' = {} /\ counterOf'[j] = wish.counter
        /\ \A i \in valid \ {j} : counterOf'[i] = counterOf[i]
        /\ UNCHANGED <<valid, list, chip>>
    BY <1>14, <1>t, <2>1 DEF CountDone, Done
  <2>3. new = {}
    BY <2>2 DEF CallShape
  <2>4. ASSUME NEW i \in valid  PROVE Left(i)' = Left(i) /\ \A s : CounterIn(i, s)' = CounterIn(i, s)
    <3>1. Left(i)' = list[i] /\ Left(i) = list[i]
      BY <2>2 DEF Left
    <3>2. \A s : CounterIn(i, s)' = counterOf'[i]
      BY <2>2 DEF CounterIn
    <3>3. CASE i = j
      BY <2>1, <2>2, <3>1, <3>2, <3>3 DEF CounterIn
    <3>4. CASE i # j
      BY <1>o, <2>1, <2>2, <3>1, <3>2, <3>4
    <3>5. QED
      BY <3>3, <3>4
  <2>5. QED
    BY <1>s, <2>2, <2>3, <2>4
<1>15. ASSUME UNCHANGED <<rules, chip, call>>  PROVE ChipAccounted'
  <2>1. \A i, r : Left(i)' = Left(i) /\ CounterIn(i, r)' = CounterIn(i, r)
    BY <1>15 DEF Left, CounterIn, rules, call
  <2>2. QED
    BY <1>15, <1>s, <2>1 DEF rules, call
<1>16. ASSUME \/ \E c \in Counters : StatClear(c)
              \/ \E s \in Slots : Match(s)
              \/ \E r \in MacRules, m \in Meters \union {NoMeter} : MacRuleAdd(r, m)
              \/ \E r \in MacRules : MacRuleDel(r)
              \/ \E p \in Inputs, m \in Meters \union {NoMeter} : InitialMmpSet(p, m)
              \/ UNCHANGED vars
       PROVE  ChipAccounted'
  BY <1>15, <1>16 DEF StatClear, Match, MacRuleAdd, MacRuleDel, InitialMmpSet, vars
<1>17. QED
  BY <1>1, <1>2, <1>3, <1>4, <1>5, <1>6, <1>7, <1>8, <1>9, <1>10, <1>11, <1>12, <1>13, <1>14, <1>16 DEF Next

(* A counter that is still counted after a rule gave it up has another user. *)
LEMMA OtherUser ==
  ASSUME TypeOK, CountersRight, cur \in valid, counterOf[cur] \in Counters,
         (counter[counterOf[cur]] - 1) % ByteMod # 0
  PROVE  \E i \in valid \ {cur} : counterOf[i] = counterOf[cur]
<1> DEFINE c == counterOf[cur]
<1>1. valid \in SUBSET Rules /\ counter[c] \in Bytes /\ c \in Counters
  BY DEF TypeOK
<1>2. counter[c] = Cardinality(Uses(valid, counterOf, c)) /\ counter[c] # 0
  <2>1. Cardinality(Uses(valid, counterOf, c)) # 0
    BY <1>1, RulesAssumption, UsedOnce
  <2>2. QED
    BY <1>1, <2>1 DEF CountersRight
<1>3. counter[c] - 1 \in Bytes
  BY <1>1, <1>2, ByteArithmetic DEF Bytes
<1>4. counter[c] - 1 # 0
  BY <1>3, ByteArithmetic
<1>5. Cardinality(Uses(valid \ {cur}, counterOf, c)) = Cardinality(Uses(valid, counterOf, c)) - One(c, c)
  BY <1>1, RulesAssumption, UsesLess
<1>6. Cardinality(Uses(valid \ {cur}, counterOf, c)) # 0
  BY <1>1, <1>2, <1>4, <1>5 DEF One
<1>7. Uses(valid \ {cur}, counterOf, c) # {}
  BY <1>6, FS_EmptySet
<1>8. QED
  BY <1>7 DEF Uses

(* A packet that is still counted belongs to a rule, or to the call.         *)
LEMMA PacketsAccountedKept ==
  ASSUME TypeOK, CallShape, CountersRight, ChipAccounted, PacketsAccounted, [Next]_vars, failures' = 0
  PROVE  PacketsAccounted'
<1>t. /\ valid \subseteq Rules /\ cur \in Rules /\ packets \subseteq Counters
      /\ counterOf \in [Rules -> Counters \union {NoCounter}]
      /\ counter \in [Counters -> Bytes]
  BY DEF TypeOK
<1>f. \A f : ~ FailsBy(f)
  BY NoFailure
<1>n. NoCounter \notin Counters
  BY CountersAssumption
<1>u. ASSUME UNCHANGED <<valid, counterOf>>, packets' \subseteq packets,
             pc \notin {"write", "stuck", "count"}
               \/ (pc' \in {"write", "stuck", "count"} /\ wish' = wish)
      PROVE  PacketsAccounted'
  BY <1>u DEF PacketsAccounted
<1>1. ASSUME NEW i, NEW w, NEW S, NEW place, Begins(place, i, w, S)  PROVE PacketsAccounted'
  BY <1>1, <1>u DEF Begins, rules
<1>2. ASSUME NEW s \in Slots, ClearSlot(s) \/ CountSlot(s)  PROVE PacketsAccounted'
  BY <1>2, <1>u DEF ClearSlot, CountSlot, rules
<1>3. ASSUME NEW s \in Slots, ClearSlotFails(s) \/ CountSlotFails(s)  PROVE FALSE
  BY <1>3, <1>f DEF ClearSlotFails, CountSlotFails
<1>4. CASE NothingToClear
  BY <1>4, <1>u DEF NothingToClear, rules
(* The rule of a call gives up its counter: what stays is of the others.     *)
<1>g. ASSUME NEW d, CounterMoves(counterOf[cur], d), cur \in valid,
             NEW c \in packets', NEW i \in valid, counterOf[i] = c
      PROVE  \E j \in valid \ {cur} : counterOf[j] = c
  <2>1. CASE i # cur
    BY <1>g, <2>1
  <2>2. CASE i = cur
    <3>1. c \in packets /\ c \in Counters /\ c = counterOf[cur]
      BY <1>g, <1>t, <2>2 DEF CounterMoves
    <3>2. (counter[c] - 1) % ByteMod # 0
      BY <1>g, <1>n, <1>t, <3>1 DEF CounterMoves
    <3>3. QED
      BY <1>g, <3>1, <3>2, OtherUser
  <2>3. QED
    BY <2>1, <2>2
<1>5. CASE InfoClear
  <2>1. /\ pc \in {"replace", "undo", "delete"} /\ cur \in valid /\ valid' = valid \ {cur}
        /\ CounterMoves(counterOf[cur], NoCounter)
        /\ \A i \in valid \ {cur} : counterOf'[i] = counterOf[i]
    BY <1>5, <1>t DEF InfoClear
  <2>2. ASSUME NEW c \in packets'  PROVE \E j \in valid' : counterOf'[j] = c
    <3>1. c \in packets
      BY <2>1 DEF CounterMoves
    <3>2. PICK i \in valid : counterOf[i] = c
      BY <2>1, <3>1 DEF PacketsAccounted
    <3>3. PICK j \in valid \ {cur} : counterOf[j] = c
      BY <1>g, <2>1, <3>2
    <3>4. QED
      BY <2>1, <3>3
  <2>3. QED
    BY <2>2 DEF PacketsAccounted
<1>6. CASE InfoClearFails \/ CountDoneFails
  BY <1>6, <1>f DEF InfoClearFails, CountDoneFails
<1>7. ASSUME NEW k \in Keys, WriteKey(k) \/ NoRoom(k)  PROVE PacketsAccounted'
  BY <1>7, <1>u DEF WriteKey, NoRoom, Stuck, Goes, rules
<1>8. ASSUME NEW k \in Keys, WriteKeyFails(k)  PROVE FALSE
  BY <1>8, <1>f DEF WriteKeyFails
<1>9. CASE InfoSet
  <2>1. PICK j \in Rules : j = cur
    BY <1>t
  <2>2. /\ pc \in {"write", "stuck"} /\ valid' = valid \union {j} /\ packets' \subseteq packets
        /\ counterOf'[j] = wish.counter /\ \A i \in valid \ {j} : counterOf'[i] = counterOf[i]
    BY <1>9, <1>t, <2>1 DEF InfoSet, CounterMoves
  <2>3. j \notin valid
    BY <2>1, <2>2 DEF CallShape
  <2>4. QED
    BY <2>2, <2>3 DEF PacketsAccounted
<1>10. CASE CountDone
  <2>1. PICK j \in Rules : j = cur
    BY <1>t
  <2>2. /\ pc = "count" /\ valid' = valid /\ counterOf'[j] = wish.counter
        /\ \A i \in valid \ {j} : counterOf'[i] = counterOf[i]
        /\ CounterMoves(counterOf[cur], wish.counter)
    BY <1>10, <1>t, <2>1 DEF CountDone
  <2>3. cur \in valid
    BY <2>2 DEF CallShape
  <2>4. ASSUME NEW c \in packets'  PROVE \E i \in valid' : counterOf'[i] = c
    <3>1. c \in packets
      BY <2>2 DEF CounterMoves
    <3>2. CASE c = wish.counter
      BY <2>1, <2>2, <2>3, <3>2
    <3>3. CASE c # wish.counter
      <4>1. PICK i \in valid : counterOf[i] = c
        BY <3>1, <3>3 DEF PacketsAccounted
      <4>2. PICK k \in valid \ {cur} : counterOf[k] = c
        BY <1>g, <2>2, <2>3, <4>1
      <4>3. QED
        BY <2>1, <2>2, <4>2
    <3>4. QED
      BY <3>2, <3>3
  <2>5. QED
    BY <2>4 DEF PacketsAccounted
<1>11. ASSUME NEW s \in Slots, Match(s)  PROVE PacketsAccounted'
  <2>1. /\ chip[s] # Empty /\ packets' = packets \union {chip[s].counter}
        /\ UNCHANGED <<valid, counterOf, pc, wish>>
    BY <1>11 DEF Match, rules, call
  <2>2. Accounted(s)
    BY <2>1 DEF ChipAccounted
  <2>3. \/ \E i \in valid : counterOf[i] = chip[s].counter
        \/ pc \in {"write", "stuck", "count"} /\ chip[s].counter = wish.counter
    BY <2>2 DEF Accounted, CounterIn, CallShape
  <2>4. QED
    BY <2>1, <2>3 DEF PacketsAccounted
<1>12. ASSUME \/ \E c \in Counters : StatClear(c)
              \/ \E r \in MacRules, m \in Meters \union {NoMeter} : MacRuleAdd(r, m)
              \/ \E r \in MacRules : MacRuleDel(r)
              \/ \E p \in Inputs, m \in Meters \union {NoMeter} : InitialMmpSet(p, m)
              \/ UNCHANGED vars
       PROVE  PacketsAccounted'
  <2>1. UNCHANGED <<valid, counterOf, pc, wish>> /\ packets' \subseteq packets
    BY <1>12 DEF StatClear, MacRuleAdd, MacRuleDel, InitialMmpSet, vars, rules, call
  <2>2. QED
    BY <1>u, <2>1
<1>13. QED
  BY <1>1, <1>2, <1>3, <1>4, <1>5, <1>6, <1>7, <1>8, <1>9, <1>10, <1>11, <1>12
     DEF Next, RuleAdd, RuleDel, StatSet

LEMMA CalmKept ==
  ASSUME TypeOK, CallShape, OwnedNow, uncleared = 0 => CountersRight, failures = 0 => Calm,
         [Next]_vars, failures' = 0
  PROVE  Calm'
<1>1. failures = 0
  <2>1. failures' = failures \/ \E f : FailsBy(f)
    BY DEF Next, RuleAdd, RuleDel, StatSet, Begins, ClearSlot, ClearSlotFails, CountSlot, CountSlotFails,
       NothingToClear, InfoClear, InfoClearFails, WriteKey, NoRoom, WriteKeyFails, InfoSet, CountDone,
       CountDoneFails, StatClear, Match, MacRuleAdd, MacRuleDel, InitialMmpSet, vars, history
  <2>2. QED
    BY <2>1, NoFailure
<1>2. NoneFreed /\ ChipAccounted /\ PacketsAccounted
  BY <1>1 DEF Calm
<1>3. CountersRight
  BY <1>1 DEF TypeOK
<1>4. QED
  BY <1>2, <1>3, NoneFreedKept, ChipAccountedKept, PacketsAccountedKept DEF Calm

-----------------------------------------------------------------------------
(* The inductive invariant.  The client's calls are whole sequences of steps *)
(* only because a call has the shape CallShape at each of them.              *)
IInv ==
  /\ TypeOK
  /\ CallShape
  /\ OwnedNow
  /\ MetersRight
  /\ uncleared = 0 => CountersRight
  /\ Standing
  /\ failures = 0 => Calm

LEMMA InitIInv == Init => IInv
<1> SUFFICES ASSUME Init  PROVE IInv
  OBVIOUS
<1>1. NoneInCall \in Rules
  BY RulesAssumption DEF NoneInCall
<1>2. Cardinality({}) = 0
  BY FS_EmptySet
<1>3. TypeOK
  BY <1>1, ByteArithmetic DEF Init, TypeOK, Places, Wishes, NoWish
<1>4. CallShape
  BY <1>1 DEF Init, CallShape
<1>5. OwnedNow
  <2>1. \A t \in Tables : used[t] = 0 /\ InTable({}, t) = {}
    BY DEF Init, InTable, Tables
  <2>2. Kept = {} /\ mask = {} /\ new = {}
    BY DEF Init, Kept
  <2>3. QED
    BY <1>2, <2>1, <2>2 DEF OwnedNow, Owned
<1>6. MetersRight
  <2>1. ASSUME NEW m \in Meters
        PROVE  /\ \A u \in Users : num[<<m, u>>] = 0
               /\ Uses(valid, meterOf, m) = {} /\ Uses(Inputs, adm, m) = {}
               /\ \A u : Uses(RangesWith(u), mac, m) = {}
    <3>1. \A u \in Users : num[<<m, u>>] = 0
      BY DEF Init
    <3>2. Uses(valid, meterOf, m) = {} /\ Uses(Inputs, adm, m) = {}
      BY NoMeterAssumption DEF Init, Uses
    <3>3. \A u : Uses(RangesWith(u), mac, m) = {}
      BY NoMeterAssumption DEF Init, Uses, RangesWith
    <3>4. QED
      BY <3>1, <3>2, <3>3
  <2>2. {"acl", "adm", "smac", "dmac"} \subseteq Users /\ on = {}
    BY DEF Users, Init
  <2>3. InUse
    BY <2>1, <2>2 DEF InUse
  <2>4. ASSUME NEW m \in Meters
        PROVE  /\ num[<<m, "acl">>] = 0 /\ num[<<m, "adm">>] = 0
               /\ \A u \in {"smac", "dmac"} : num[<<m, u>>] = 0
    BY <2>1, <2>2
  <2>5. QED
    BY <1>2, <2>1, <2>3, <2>4 DEF MetersRight
<1>7. CountersRight
  <2>1. \A c \in Counters : counter[c] = 0 /\ Uses(valid, counterOf, c) = {}
    BY DEF Init, Uses
  <2>2. QED
    BY <1>2, <2>1 DEF CountersRight
<1>8. Standing
  <2>1. ASSUME NEW i \in Rules  PROVE InForce(i)
    BY DEF Init, InForce
  <2>2. QED
    BY <2>1 DEF Init, Standing, KeysWritten
<1>9. Calm
  BY DEF Init, Calm, NoneFreed, ChipAccounted, PacketsAccounted
<1>10. QED
  BY <1>3, <1>4, <1>5, <1>6, <1>7, <1>8, <1>9 DEF IInv

LEMMA IInvKept == IInv /\ [Next]_vars => IInv'
<1> SUFFICES ASSUME IInv, [Next]_vars  PROVE IInv'
  OBVIOUS
<1>1. TypeOK' /\ CallShape' /\ OwnedNow' /\ MetersRight'
  BY TypesKept, CallShapeKept, OwnedKept, MetersKept DEF IInv
<1>2. uncleared' = 0 => CountersRight'
  BY CountersKept DEF IInv
<1>3. Standing'
  BY StandingKept DEF IInv
<1>4. failures' = 0 => Calm'
  BY CalmKept DEF IInv
<1>5. QED
  BY <1>1, <1>2, <1>3, <1>4 DEF IInv

LEMMA Invariance == Spec => []IInv
BY InitIInv, IInvKept, PTL DEF Spec

(* Every reachable state of the rules, tables, counters and meters is of the *)
(* declared type, in particular each count still fits its byte.              *)
THEOREM TypeCorrect == Spec => []TypeOK
<1>1. IInv => TypeOK
  BY DEF IInv
<1>2. QED
  BY <1>1, Invariance, PTL

(* SlotsOwned of AclRules, for any tables, rules and hash and whatever fails *)
(* (jl61xx_acl_write_tcam, _hash_large, _hash_small, _rule_info_clear and    *)
(* _info_set): no slot of the chip has two owners, none is lost to the       *)
(* masks, and the counts by which a rule is refused count the masks.         *)
THEOREM SlotsAreOwned == Spec => []SlotsOwned
<1>1. IInv => SlotsOwned
  BY SlotsOwnedNow DEF IInv
<1>2. QED
  BY <1>1, Invariance, PTL

(* CountersCounted of AclRules, for any number of rules and counters: unless *)
(* a counter could not be zeroed, counter[] counts the rules that use it     *)
(* (jl61xx_acl_info_counter_add, _counter_clear, _stat_enable, _disable).    *)
THEOREM CountersAreCounted == Spec => []CountersCounted
<1>1. \A c : UsersOf(c) = Uses(valid, counterOf, c)
  BY DEF UsersOf, Uses
<1>2. IInv => CountersCounted
  BY <1>1 DEF IInv, CountersRight, CountersCounted
<1>3. QED
  BY <1>2, Invariance, PTL

(* MetersCounted of AclRules, for any number of users of meters and whatever *)
(* fails: a meter that something refers to is never offered as unused        *)
(* (jl61xx_set_mmp_pointer_info, _clear_mmp_pointer_info, _get_unused).      *)
THEOREM MetersAreCounted == Spec => []MetersCounted
<1>1. \A m : RulesOf(m) = Uses(valid, meterOf, m) /\ InputsOf(m) = Uses(Inputs, adm, m)
  BY DEF RulesOf, InputsOf, Uses
<1>2. \A m, u : RangesOf(u, m) = Uses(RangesWith(u), mac, m)
  BY DEF RangesOf, RangesWith, Uses
<1>3. IInv => MetersCounted
  BY <1>1, <1>2 DEF IInv, MetersRight, InUse, MetersCounted
<1>4. QED
  BY <1>3, Invariance, PTL

(* OthersUndisturbed of AclRules: no step of a call on a rule, failed or not *)
(* (jl61xx_acl_rule_add, _rule_del, _stat_enable, _stat_disable), changes a  *)
(* slot or the data of another rule.                                         *)
THEOREM OthersAreUndisturbed == Spec => OthersUndisturbed
<1>1. ASSUME IInv, [Next]_vars
      PROVE  [\A i \in Rules : i \notin {cur, cur'} /\ answer[i] # "freed" =>
                /\ (i \in valid') <=> (i \in valid)
                /\ list'[i] = list[i] /\ counterOf'[i] = counterOf[i] /\ meterOf'[i] = meterOf[i]
                /\ \A s \in Listed(i) : chip'[s] = chip[s]]_vars
  BY <1>1, OthersLeftAlone DEF IInv
<1>2. QED
  BY <1>1, Invariance, PTL DEF Spec, OthersUndisturbed

(* RulesInForce of AclRules, for any rules, keys, tables and hash: between   *)
(* calls the chip holds each rule as it was last accepted, key by key, also  *)
(* when calls on other rules failed midway, and while nothing has failed it  *)
(* holds nothing else (jl61xx_acl_rule_add, _rule_del, _clear_table,          *)
(* _stat_enable and _stat_disable as their client sees them).                *)
THEOREM RulesStayInForce == Spec => []RulesInForce
<1>1. ASSUME IInv, pc = "idle"
      PROVE  /\ \A i \in Rules :
                  /\ answer[i] = "gone" => i \notin valid
                  /\ answer[i] = "set" =>
                       /\ i \in valid /\ Cardinality(list[i]) = Cardinality(keys[i])
                       /\ \A k \in keys[i] : \E s \in list[i] :
                            chip[s] = [key |-> k, counter |-> counterOf[i], meter |-> meterOf[i]]
             /\ failures = 0 => \A s \in Slots : chip[s] # Empty <=> \E i \in valid : s \in list[i]
  <2>1. \A i, s : CounterIn(i, s) = counterOf[i] /\ Left(i) = list[i]
    BY <1>1 DEF CounterIn, Left
  <2>2. \A i \in Rules : InForce(i)
    BY <1>1 DEF IInv, Standing
  <2>3. new = {}
    BY <1>1 DEF IInv, CallShape
  <2>4. failures = 0 => \A s \in Slots : chip[s] # Empty <=> \E i \in valid : s \in list[i]
    BY <1>1, <2>1, <2>3 DEF IInv, Calm, ChipAccounted, Accounted
  <2>5. QED
    BY <2>1, <2>2, <2>4 DEF InForce
<1>2. IInv => RulesInForce
  BY <1>1 DEF RulesInForce
<1>3. QED
  BY <1>2, Invariance, PTL

(* FreeCountersReadZero of AclRules, for any rules and counters: while       *)
(* nothing has failed, a counter that no rule uses has counted no packet,    *)
(* however packets arrive between the steps of the calls                     *)
(* (jl61xx_acl_info_counter_clear, _stat_enable, _stat_disable, _rule_add).  *)
THEOREM FreeCountersStartAtZero == Spec => []FreeCountersReadZero
<1>1. IInv => FreeCountersReadZero
  BY DEF IInv, Calm, PacketsAccounted, FreeCountersReadZero, UsersOf
<1>2. QED
  BY <1>1, Invariance, PTL
=============================================================================
