-------------------------- MODULE MacTable_proofs --------------------------
(***************************************************************************)
(* Proofs about MacTable, for all addresses, hashes, table sizes, masks,   *)
(* and any number of failures.                                             *)
(***************************************************************************)
EXTENDS MacTable, TLAPS

LEMMA Places ==
  /\ \A i \in ColNums : ColSlot(i) \in Slots /\ ColSlot(i) \notin HashSlots
  /\ HashSlots \subseteq Slots
  /\ \A m \in Macs, i \in WayNums : Way[m][i] \in HashSlots
  /\ 0 \in Slots /\ 0 \in Groups
BY NumbersAssumption, WayAssumption
   DEF ColNums, ColSlot, Slots, HashSlots, WayNums, Groups

LEMMA FindsSlot ==
  ASSUME TypeOK, NEW m \in Macs, NEW st \in BOOLEAN, NEW k \in Slots \union {NoSlot},
         NEW s \in Slots, Finds(m, st, k, s)
  PROVE  s \in HashSlots => \E i \in WayNums : s = Way[m][i]
BY Places DEF Finds, Least

LEMMA ClearsAre ==
  ASSUME NEW c \in Clears
  PROVE  /\ c[1] \in Modes /\ c[2] \in Selects \union {NoWhere}
         /\ c[1] = "mac" => c[2] \in Macs
BY ClearsAssumption DEF Modes, Selects

(* What a dynamic set finds when its compares succeed.                       *)
LEMMA FindsDynamic ==
  ASSUME TypeOK, NEW m \in Macs, NEW s \in Slots, Finds(m, FALSE, NoSlot, s)
  PROVE  ~Static(s) \/ lookup[s] = m
BY Places, NonesAssumption DEF Finds, Least, Open, Static

-----------------------------------------------------------------------------
(* Types.                                                                   *)

LEMMA TypeInit == Init => TypeOK
<1>1. 0 \in 0 .. MaxFailures
  BY BoundAssumption
<1>2. QED
  BY <1>1, Places, NonesAssumption DEF Init, TypeOK, Writing

LEMMA CallEndsTypes ==
  ASSUME CallEnds
  PROVE  /\ pc' \in Writing \union {"idle", "clear", "done"}
         /\ slot' \in Slots \union {NoSlot}
         /\ pc' # "idle" <=> slot' \in Slots
         /\ mac' \in Macs \union {NoMac}
         /\ pc' \in Writing => mac' \in Macs
         /\ to' \in Ports \union Masks \union {NoWhere}
         /\ pc' \in Writing => to' \in Ports \union Masks
         /\ pc' = "group" => to' \in Masks
         /\ stat' \in BOOLEAN
         /\ dest' \in Ports \union Groups
         /\ by' \in {"none", "found", "blind", "direct"}
         /\ mode' \in Modes \union {"none"}
         /\ sel' \in Selects \union {NoWhere}
BY Places, NonesAssumption DEF CallEnds, Writing

LEMMA FailureTypes ==
  ASSUME TypeOK, Fault \/ NoFault
  PROVE  failures' \in 0 .. MaxFailures
BY BoundAssumption DEF TypeOK, Fault, NoFault

LEMMA StartsTypes ==
  ASSUME TypeOK, NEW s \in Slots, NEW m \in Macs, NEW st \in BOOLEAN, NEW t \in Wanted[m],
         NEW how \in {"found", "blind", "direct"}, Starts(s, m, st, t, how), Fault \/ NoFault
  PROVE  TypeOK'
<1>1. t \in Ports \union Masks
  BY PlacesAssumption
<1>2. failures' \in 0 .. MaxFailures
  BY FailureTypes
<1>3. /\ pc' \in {"age", "group"} /\ slot' = s /\ mac' = m /\ stat' = st /\ to' = t /\ by' = how
      /\ dest' \in Ports \union Groups /\ (pc' = "group" => t \in Masks)
      /\ UNCHANGED <<valid, static, lookup, dst, mc, mode, sel, torn, redirected, flooded, missed, fresh>>
  BY DEF Starts, tables
<1>4. QED
  BY <1>1, <1>2, <1>3 DEF TypeOK, Writing

LEMMA TypeStep == TypeOK /\ [Next]_vars => TypeOK'
<1> SUFFICES ASSUME TypeOK, [Next]_vars PROVE TypeOK'
  OBVIOUS
<1>1. ASSUME NEW m \in Macs, NEW st \in BOOLEAN, NEW t \in Wanted[m], TableSet(m, st, t)
      PROVE  TypeOK'
  BY <1>1, StartsTypes DEF TableSet
<1>2. ASSUME NEW m \in Macs, NEW st \in BOOLEAN, NEW t \in Wanted[m],
             NEW i \in ColNums, ColTableSet(i, m, st, t)
      PROVE  TypeOK'
  BY <1>2, Places, StartsTypes DEF ColTableSet
<1>3. CASE WriteGroup
  <2>1. failures' \in 0 .. MaxFailures
    BY <1>3, FailureTypes DEF WriteGroup
  <2>2. mc' \in [Groups -> Masks \union {Free}]
    BY <1>3 DEF WriteGroup, TypeOK
  <2>3. CASE CallEnds
    BY <1>3, <2>1, <2>2, <2>3, CallEndsTypes DEF WriteGroup, TypeOK
  <2>4. CASE At("age")
    BY <1>3, <2>1, <2>2, <2>4 DEF WriteGroup, TypeOK, At, Writing
  <2>5. QED
    BY <1>3, <2>3, <2>4 DEF WriteGroup
<1>4. CASE WriteAge
  <2>1. failures' \in 0 .. MaxFailures
    BY <1>4, FailureTypes DEF WriteAge, Tears
  <2>2. /\ valid' \in [Slots -> BOOLEAN] /\ static' \in [Slots -> BOOLEAN] /\ torn' \subseteq Slots
        /\ UNCHANGED <<lookup, dst, mc, redirected, flooded, missed, fresh>>
    BY <1>4 DEF WriteAge, Tears, TypeOK
  <2>3. CASE CallEnds
    BY <2>1, <2>2, <2>3, CallEndsTypes DEF TypeOK
  <2>4. CASE At("lookup")
    BY <1>4, <2>1, <2>2, <2>4 DEF WriteAge, TypeOK, At, Writing
  <2>5. QED
    BY <1>4, <2>3, <2>4 DEF WriteAge, Tears
<1>5. CASE WriteLookup
  <2>1. failures' \in 0 .. MaxFailures
    BY <1>5, FailureTypes DEF WriteLookup, Tears
  <2>2. /\ lookup' \in [Slots -> Macs \union {NoMac}] /\ torn' \subseteq Slots
        /\ UNCHANGED <<valid, static, dst, mc, redirected, flooded, missed, fresh>>
    BY <1>5 DEF WriteLookup, Tears, TypeOK
  <2>3. CASE CallEnds
    BY <2>1, <2>2, <2>3, CallEndsTypes DEF TypeOK
  <2>4. CASE At("dst")
    BY <1>5, <2>1, <2>2, <2>4 DEF WriteLookup, TypeOK, At, Writing
  <2>5. QED
    BY <1>5, <2>3, <2>4 DEF WriteLookup, Tears
<1>6. CASE WriteDst
  <2>1. failures' \in 0 .. MaxFailures
    BY <1>6, FailureTypes DEF WriteDst, Tears
  <2>2. /\ dst' \in [Slots -> Ports \union Groups] /\ torn' \subseteq Slots /\ flooded' \subseteq Slots
        /\ UNCHANGED <<valid, static, lookup, mc, redirected, missed, fresh>>
    BY <1>6 DEF WriteDst, Tears, TypeOK
  <2>3. QED
    BY <1>6, <2>1, <2>2, CallEndsTypes DEF WriteDst, Tears, TypeOK
<1>7. ASSUME NEW g \in ByNumber, NEW mask \in Masks, McTableSet(g, mask)
      PROVE  TypeOK'
  <2>1. failures' \in 0 .. MaxFailures
    BY <1>7, FailureTypes DEF McTableSet
  <2>2. mc' \in [Groups -> Masks \union {Free}] /\ redirected' \subseteq Groups
    BY <1>7, PlacesAssumption DEF McTableSet, TypeOK
  <2>3. QED
    BY <1>7, <2>1, <2>2 DEF McTableSet, TypeOK, call
<1>8. ASSUME NEW how \in Modes, NEW what \in Selects \union {NoWhere}, Clear(how, what)
      PROVE  TypeOK'
  BY <1>8, Places DEF Clear, TypeOK, Writing, tables, history
<1>9. CASE ClearSlot
  <2>1. failures' \in 0 .. MaxFailures
    BY <1>9, FailureTypes DEF ClearSlot
  <2>2. /\ valid' \in [Slots -> BOOLEAN] /\ static' \in [Slots -> BOOLEAN]
        /\ UNCHANGED <<lookup, dst, mc, torn, redirected, flooded>>
        /\ missed' \subseteq Slots /\ fresh' \subseteq Slots
    BY <1>9 DEF ClearSlot, Wipe, ClearEnds, TypeOK
  <2>3. CASE CallEnds
    BY <2>1, <2>2, <2>3, CallEndsTypes DEF TypeOK
  <2>4. CASE NextSlot
    BY <1>9, <2>1, <2>2, <2>4 DEF ClearSlot, NextSlot, TypeOK, Writing
  <2>5. QED
    BY <1>9, <2>3, <2>4 DEF ClearSlot, ClearEnds
<1>15. CASE ClearReturns
  <2>1. failures' \in 0 .. MaxFailures
    BY <1>15, FailureTypes DEF ClearReturns
  <2>2. QED
    BY <1>15, <2>1, CallEndsTypes DEF ClearReturns, ClearEnds, tables, TypeOK
<1>10. ASSUME NEW m \in Macs, NEW s \in Slots, NEW p \in Wanted[m] \intersect Ports, Learn(m, p, s)
       PROVE  TypeOK'
  BY <1>10 DEF Learn, Refreshes, TypeOK, call
<1>11. ASSUME NEW p \in Ports, NEW s \in Slots, Move(p, s)
       PROVE  TypeOK'
  BY <1>11 DEF Move, Refreshes, TypeOK, call
<1>12. ASSUME NEW s \in Slots, Age(s)
       PROVE  TypeOK'
  BY <1>12 DEF Age, TypeOK, call, history
<1>13. CASE UNCHANGED vars
  BY <1>13 DEF TypeOK, vars, tables, call, history
<1>14. QED
  BY <1>1, <1>2, <1>3, <1>4, <1>5, <1>6, <1>7, <1>8, <1>9, <1>10, <1>11, <1>12, <1>13, <1>15, ClearsAre
     DEF Next

(* The state is always of its type: in particular no walk leaves the tables, *)
(* and a slot is in work exactly while a call runs.                          *)
THEOREM Typing == Spec => []TypeOK
BY TypeInit, TypeStep, PTL DEF Spec

-----------------------------------------------------------------------------
(* Every address is where its hash leads.                                    *)

Bucket(m) == {Way[m][i] : i \in WayNums}

Hashed ==
  /\ \A s \in HashSlots : lookup[s] \in Macs => s \in Bucket(lookup[s])
  /\ pc \in Writing /\ slot \in HashSlots => slot \in Bucket(mac)

LEMMA HashedInit == Init => Hashed
BY MacsAssumption, Places DEF Init, Hashed, Writing

LEMMA HashedStep == TypeOK /\ Hashed /\ [Next]_vars => Hashed'
<1> SUFFICES ASSUME TypeOK, Hashed, [Next]_vars PROVE Hashed'
  OBVIOUS
<1>0. ASSUME CallEnds PROVE pc' \notin Writing
  BY <1>0 DEF CallEnds, Writing
<1>1. ASSUME NEW m \in Macs, NEW st \in BOOLEAN, NEW t \in Wanted[m], TableSet(m, st, t)
      PROVE  Hashed'
  <2>1. PICK k \in Slots \union {NoSlot}, s \in Slots, how \in {"found", "blind"} :
          Finds(m, st, k, s) /\ Starts(s, m, st, t, how)
    BY <1>1 DEF TableSet
  <2>2. s \in HashSlots => s \in Bucket(m)
    BY <2>1, FindsSlot DEF Bucket
  <2>3. lookup' = lookup /\ slot' = s /\ mac' = m
    BY <2>1 DEF Starts, tables
  <2>4. QED
    BY <2>2, <2>3 DEF Hashed
<1>2. ASSUME NEW m \in Macs, NEW st \in BOOLEAN, NEW t \in Wanted[m],
             NEW i \in ColNums, ColTableSet(i, m, st, t)
      PROVE  Hashed'
  BY <1>2, Places DEF ColTableSet, Starts, tables, Hashed
<1>3. CASE WriteGroup
  BY <1>3, <1>0 DEF WriteGroup, At, Hashed, Writing
<1>4. CASE WriteAge
  BY <1>4, <1>0 DEF WriteAge, Tears, At, Hashed, Writing
<1>5. CASE WriteLookup
  <2>1. \A s \in HashSlots : lookup'[s] \in Macs => s \in Bucket(lookup'[s])
    BY <1>5, Places DEF WriteLookup, Tears, Hashed, TypeOK, Writing
  <2>2. pc' \in Writing => pc \in Writing /\ slot' = slot /\ mac' = mac
    BY <1>5, <1>0 DEF WriteLookup, Tears, At, Writing
  <2>3. QED
    BY <2>1, <2>2 DEF Hashed
<1>6. CASE WriteDst
  BY <1>6, <1>0 DEF WriteDst, Tears, Hashed
<1>7. ASSUME NEW g \in ByNumber, NEW mask \in Masks, McTableSet(g, mask)
      PROVE  Hashed'
  BY <1>7 DEF McTableSet, Hashed, call
<1>8. ASSUME NEW how \in Modes, NEW what \in Selects \union {NoWhere}, Clear(how, what)
      PROVE  Hashed'
  BY <1>8 DEF Clear, Hashed, tables, Writing
<1>9. CASE ClearSlot
  <2>1. lookup' = lookup /\ pc' \notin Writing
    BY <1>9, <1>0 DEF ClearSlot, NextSlot, ClearEnds, Writing
  <2>2. QED
    BY <2>1 DEF Hashed
<1>15. CASE ClearReturns
  BY <1>15, <1>0 DEF ClearReturns, ClearEnds, tables, Hashed
<1>10. ASSUME NEW m \in Macs, NEW s \in Slots, NEW p \in Wanted[m] \intersect Ports, Learn(m, p, s)
       PROVE  Hashed'
  <2>1. s \in HashSlots => s \in Bucket(m)
    BY <1>10, NumbersAssumption DEF Learn, Bucket, ColSlots, HashSlots
  <2>2. \A r \in HashSlots : lookup'[r] \in Macs => r \in Bucket(lookup'[r])
    BY <1>10, <2>1, Places DEF Learn, Hashed, TypeOK
  <2>3. QED
    BY <1>10, <2>2 DEF Learn, Hashed, call
<1>11. ASSUME NEW p \in Ports, NEW s \in Slots, Move(p, s)
       PROVE  Hashed'
  BY <1>11 DEF Move, Hashed, call
<1>12. ASSUME NEW s \in Slots, Age(s)
       PROVE  Hashed'
  BY <1>12 DEF Age, Hashed, call
<1>13. CASE UNCHANGED vars
  BY <1>13 DEF Hashed, vars, tables, call
<1>14. QED
  BY <1>1, <1>2, <1>3, <1>4, <1>5, <1>6, <1>7, <1>8, <1>9, <1>10, <1>11, <1>12, <1>13, <1>15, ClearsAre
     DEF Next
-----------------------------------------------------------------------------
(* Where entries lead.                                                      *)

\* What a call is going to write, from its first step on.
CallInv ==
  /\ pc \in Writing => to \in Wanted[mac]
  /\ pc \in Writing /\ to \in Ports => dest = to
  /\ pc \in Writing /\ to \in Masks => dest \in Groups
  /\ pc = "group" => mc[dest] \in {Free, to}
  /\ pc \in {"age", "lookup", "dst"} /\ to \in Masks => mc[dest] = to
  /\ pc \in Half => valid[slot]
  /\ pc = "dst" => lookup[slot] = mac

LEMMA CallInit == Init => CallInv
BY DEF Init, CallInv, Writing, Half

LEMMA CallStep == TypeOK /\ CallInv /\ [Next]_vars => CallInv'
<1> SUFFICES ASSUME TypeOK, CallInv, [Next]_vars PROVE CallInv'
  OBVIOUS
<1>0. ASSUME pc' \in {"idle", "clear", "done"} PROVE CallInv'
  BY <1>0 DEF CallInv, Writing, Half
<1>a. ASSUME CallEnds PROVE CallInv'
  BY <1>a, <1>0 DEF CallEnds
<1>b. ASSUME NEW m \in Macs, NEW st \in BOOLEAN, NEW t \in Wanted[m], NEW s, NEW how,
             Starts(s, m, st, t, how)
      PROVE  CallInv'
  <2>1. t \in Ports \union Masks /\ t \notin Ports \intersect Masks
    BY PlacesAssumption
  <2>2. CASE t \in Ports
    BY <1>b, <2>1, <2>2 DEF Starts, CallInv, Writing, Half
  <2>3. CASE t \in Masks
    BY <1>b, <2>1, <2>3 DEF Starts, CallInv, Takes, Writing, Half, tables
  <2>4. QED
    BY <2>1, <2>2, <2>3
<1>1. ASSUME NEW m \in Macs, NEW st \in BOOLEAN, NEW t \in Wanted[m], TableSet(m, st, t)
      PROVE  CallInv'
  BY <1>1, <1>b DEF TableSet
<1>2. ASSUME NEW m \in Macs, NEW st \in BOOLEAN, NEW t \in Wanted[m],
             NEW i \in ColNums, ColTableSet(i, m, st, t)
      PROVE  CallInv'
  BY <1>2, <1>b DEF ColTableSet
<1>3. CASE WriteGroup
  <2>1. CASE CallEnds
    BY <1>a, <2>1
  <2>2. CASE At("age") /\ mc' = [mc EXCEPT ![dest] = to]
    BY <1>3, <2>2 DEF WriteGroup, At, CallInv, TypeOK, Writing, Half
  <2>3. QED
    BY <1>3, <2>1, <2>2 DEF WriteGroup
<1>4. CASE WriteAge
  <2>1. CASE CallEnds
    BY <1>a, <2>1
  <2>2. CASE At("lookup") /\ valid' = [valid EXCEPT ![slot] = TRUE]
    BY <1>4, <2>2 DEF WriteAge, At, CallInv, TypeOK, Writing, Half
  <2>3. QED
    BY <1>4, <2>1, <2>2 DEF WriteAge, Tears
<1>5. CASE WriteLookup
  <2>1. CASE CallEnds
    BY <1>a, <2>1
  <2>2. CASE At("dst") /\ lookup' = [lookup EXCEPT ![slot] = mac]
    BY <1>5, <2>2 DEF WriteLookup, At, CallInv, TypeOK, Writing, Half
  <2>3. QED
    BY <1>5, <2>1, <2>2 DEF WriteLookup, Tears
<1>6. CASE WriteDst
  BY <1>6, <1>a DEF WriteDst, Tears
<1>7. ASSUME NEW g \in ByNumber, NEW mask \in Masks, McTableSet(g, mask)
      PROVE  CallInv'
  BY <1>7, <1>0 DEF McTableSet, call
<1>8. ASSUME NEW how, NEW what, Clear(how, what)
      PROVE  CallInv'
  BY <1>8, <1>0 DEF Clear
<1>9. CASE ClearSlot
  BY <1>9, <1>0, <1>a DEF ClearSlot, NextSlot, ClearEnds
<1>15. CASE ClearReturns
  BY <1>15, <1>a DEF ClearReturns, ClearEnds
<1>10. ASSUME NEW m \in Macs, NEW s \in Slots, NEW p \in Wanted[m] \intersect Ports, Learn(m, p, s)
       PROVE  CallInv'
  BY <1>10 DEF Learn, CallInv, TypeOK, call, Half
<1>11. ASSUME NEW p \in Ports, NEW s \in Slots, Move(p, s)
       PROVE  CallInv'
  BY <1>11 DEF Move, CallInv, call
<1>12. ASSUME NEW s \in Slots, Age(s)
       PROVE  CallInv'
  BY <1>12 DEF Age, CallInv, TypeOK, call, Writing, Half
<1>13. CASE UNCHANGED vars
  BY <1>13 DEF CallInv, vars, tables, call
<1>14. QED
  BY <1>1, <1>2, <1>3, <1>4, <1>5, <1>6, <1>7, <1>8, <1>9, <1>10, <1>11, <1>12, <1>13, <1>15
     DEF Next

\* What is kept of every entry that NeverElsewhere speaks of: no such entry leads to
\* a group that looks free, which is why no set takes its group.
LeadInv ==
  \A s \in Slots \ (torn \union flooded) :
    valid[s] /\ ~InWork(s) /\ dst[s] \notin redirected
      => lookup[s] \in Macs /\ LeadsTo(s) \in Wanted[lookup[s]] /\ LeadsTo(s) # Free

LEMMA LeadStep == TypeOK /\ CallInv /\ LeadInv /\ [Next]_vars => LeadInv'
<1> SUFFICES ASSUME TypeOK, CallInv, LeadInv, [Next]_vars PROVE LeadInv'
  OBVIOUS
<1>h. "idle" \notin Half /\ "clear" \notin Half /\ "group" \notin Half /\ "age" \notin Half
  BY DEF Half
<1>a. ASSUME UNCHANGED <<valid, lookup, dst, mc, torn, redirected, flooded>>, pc \notin Half, pc' \notin Half
      PROVE  LeadInv'
  BY <1>a DEF LeadInv, InWork, LeadsTo
<1>b. ASSUME NEW m, NEW st, NEW t, NEW s, NEW how, Starts(s, m, st, t, how), pc = "idle"
      PROVE  LeadInv'
  BY <1>a, <1>b, <1>h DEF Starts, tables
<1>1. ASSUME NEW m \in Macs, NEW st \in BOOLEAN, NEW t \in Wanted[m], TableSet(m, st, t)
      PROVE  LeadInv'
  BY <1>1, <1>b DEF TableSet
<1>2. ASSUME NEW m \in Macs, NEW st \in BOOLEAN, NEW t \in Wanted[m],
             NEW i \in ColNums, ColTableSet(i, m, st, t)
      PROVE  LeadInv'
  BY <1>2, <1>b DEF ColTableSet
\* A group that is taken has the mask already, or no entry leads to it.
<1>3. CASE WriteGroup
  <2>1. /\ UNCHANGED <<valid, lookup, dst, torn, redirected, flooded>> /\ pc' \notin Half /\ pc = "group"
        /\ mc' = mc \/ mc' = [mc EXCEPT ![dest] = to]
    BY <1>3, <1>h DEF WriteGroup, At, CallEnds
  <2>2. mc[dest] \in {Free, to}
    BY <2>1 DEF CallInv
  <2>3. SUFFICES ASSUME NEW s \in Slots \ (torn \union flooded), valid[s], dst[s] \notin redirected
                 PROVE  /\ lookup[s] \in Macs /\ LeadsTo(s)' \in Wanted[lookup[s]]
                        /\ LeadsTo(s)' # Free
    BY <2>1 DEF LeadInv, InWork
  <2>4. lookup[s] \in Macs /\ LeadsTo(s) \in Wanted[lookup[s]] /\ LeadsTo(s) # Free
    BY <2>1, <2>3, <1>h DEF LeadInv, InWork
  <2>6. LeadsTo(s)' = LeadsTo(s)
    BY <2>1, <2>2, <2>4 DEF LeadsTo, TypeOK
  <2>7. QED
    BY <2>4, <2>6
<1>4. CASE WriteAge
  <2>1. /\ UNCHANGED <<lookup, dst, mc, redirected, flooded>> /\ pc = "age" /\ slot \in Slots
        /\ \A s \in Slots \ {slot} : valid'[s] = valid[s]
    BY <1>4 DEF WriteAge, TypeOK
  <2>2. \/ pc' \in Half /\ slot' = slot /\ torn' = torn
        \/ pc' \notin Half /\ torn' = torn \union {slot}
    BY <1>4, <1>h DEF WriteAge, Tears, At, CallEnds, Half
  <2>3. QED
    BY <2>1, <2>2, <1>h DEF LeadInv, InWork, LeadsTo
<1>5. CASE WriteLookup
  <2>1. /\ UNCHANGED <<valid, dst, mc, redirected, flooded>> /\ pc \in Half /\ slot \in Slots
        /\ \A s \in Slots \ {slot} : lookup'[s] = lookup[s]
    BY <1>5 DEF WriteLookup, TypeOK, Half
  <2>2. \/ pc' \in Half /\ slot' = slot /\ torn' = torn
        \/ pc' \notin Half /\ torn' = torn \union {slot}
    BY <1>5, <1>h DEF WriteLookup, Tears, At, CallEnds, Half
  <2>3. QED
    BY <2>1, <2>2 DEF LeadInv, InWork, LeadsTo
<1>6. CASE WriteDst
  <2>1. /\ UNCHANGED <<valid, lookup, mc, redirected>> /\ pc = "dst" /\ pc' \notin Half /\ slot \in Slots
        /\ pc \in Half /\ pc \in Writing
        /\ \A s \in Slots \ {slot} : dst'[s] = dst[s] /\ (s \in flooded' <=> s \in flooded)
    BY <1>6, <1>h DEF WriteDst, Tears, CallEnds, TypeOK, Half, Writing
  <2>2. CASE torn' = torn \union {slot}
    BY <2>1, <2>2 DEF LeadInv, InWork, LeadsTo
  <2>3. CASE /\ torn' = torn \ {slot} /\ dst' = [dst EXCEPT ![slot] = dest]
             /\ to = Free => slot \in flooded'
    <3>1. dst'[slot] = dest /\ lookup'[slot] = mac /\ mac \in Macs /\ to \in Wanted[mac]
      BY <2>1, <2>3 DEF CallInv, TypeOK
    <3>2. to \in Ports \union Masks /\ (to \in Ports => dest = to)
          /\ (to \in Masks => dest \in Groups /\ mc[dest] = to)
      BY <2>1 DEF CallInv, TypeOK
    <3>3. ASSUME NEW w \in Slots, w = slot
          PROVE  LeadsTo(w)' = to
      <4>1. CASE to \in Ports
        BY <3>1, <3>2, <3>3, <4>1 DEF LeadsTo
      <4>2. CASE to \in Masks
        <5>1. dest \notin Ports /\ mc'[dest] = to
          BY <3>2, <4>2, <2>1, PlacesAssumption
        <5>2. QED
          BY <3>1, <3>3, <5>1 DEF LeadsTo
      <4>3. QED
        BY <3>2, <4>1, <4>2
    <3>4. \A s \in Slots \ {slot} : LeadsTo(s)' = LeadsTo(s)
      BY <2>1 DEF LeadsTo
    <3>5. SUFFICES ASSUME NEW s \in Slots, s \notin torn' \union flooded', valid[s], dst'[s] \notin redirected
                   PROVE  /\ lookup[s] \in Macs /\ LeadsTo(s)' \in Wanted[lookup[s]]
                        /\ LeadsTo(s)' # Free
      BY <2>1 DEF LeadInv, InWork
    <3>6. CASE s = slot
      BY <3>1, <3>3, <3>5, <3>6, <2>1, <2>3
    <3>7. CASE s # slot
      <4>1. s \notin torn \union flooded /\ dst[s] \notin redirected
        BY <2>1, <2>3, <3>5, <3>7
      <4>2. LeadsTo(s) \in Wanted[lookup[s]] /\ lookup[s] \in Macs /\ LeadsTo(s) # Free
        BY <3>5, <3>7, <4>1 DEF LeadInv, InWork
      <4>3. QED
        BY <3>4, <3>7, <4>2
    <3>8. QED
      BY <3>6, <3>7
  <2>4. QED
    BY <1>6, <2>2, <2>3 DEF WriteDst, Tears
<1>7. ASSUME NEW g \in ByNumber, NEW mask \in Masks, McTableSet(g, mask)
      PROVE  LeadInv'
  <2>1. \A s \in Slots : dst[s] \notin redirected' => dst[s] \notin redirected /\ LeadsTo(s)' = LeadsTo(s)
    BY <1>7, PlacesAssumption DEF McTableSet, TypeOK, LeadsTo
  <2>2. UNCHANGED <<valid, lookup, dst, pc, slot, torn, flooded>>
    BY <1>7 DEF McTableSet, call
  <2>3. QED
    BY <2>1, <2>2 DEF LeadInv, InWork
<1>8. ASSUME NEW how, NEW what, Clear(how, what)
      PROVE  LeadInv'
  BY <1>8, <1>a, <1>h DEF Clear, tables, history
<1>9. CASE ClearSlot
  <2>1. /\ UNCHANGED <<lookup, dst, mc, torn, redirected, flooded>> /\ pc = "clear" /\ pc' \notin Half
        /\ \A s \in Slots : valid'[s] => valid[s]
    BY <1>9, <1>h DEF ClearSlot, NextSlot, ClearEnds, CallEnds, Wipe, TypeOK, Half
  <2>2. QED
    BY <2>1, <1>h DEF LeadInv, InWork, LeadsTo
<1>15. CASE ClearReturns
  BY <1>15, <1>a, <1>h DEF ClearReturns, ClearEnds, CallEnds, tables, Half
<1>10. ASSUME NEW m \in Macs, NEW s \in Slots, NEW p \in Wanted[m] \intersect Ports, Learn(m, p, s)
       PROVE  LeadInv'
  <2>1. UNCHANGED <<mc, pc, slot, redirected>> /\ torn' = torn \ {s} /\ flooded' = flooded \ {s}
    BY <1>10 DEF Learn, call
  <2>2. lookup'[s] = m /\ LeadsTo(s)' = p /\ p # Free
    BY <1>10, PlacesAssumption DEF Learn, LeadsTo, TypeOK
  <2>3. \A r \in Slots \ {s} : valid'[r] = valid[r] /\ lookup'[r] = lookup[r] /\ dst'[r] = dst[r]
    BY <1>10 DEF Learn, TypeOK
  <2>4. \A r \in Slots \ {s} : LeadsTo(r)' = LeadsTo(r)
    BY <2>1, <2>3 DEF LeadsTo
  <2>5. QED
    BY <2>1, <2>2, <2>3, <2>4 DEF LeadInv, InWork
<1>11. ASSUME NEW p \in Ports, NEW s \in Slots, Move(p, s)
       PROVE  LeadInv'
  <2>1. UNCHANGED <<valid, lookup, mc, pc, slot, torn, redirected>> /\ flooded' = flooded \ {s}
    BY <1>11 DEF Move, call
  <2>2. LeadsTo(s)' = p /\ p \in Wanted[lookup[s]] /\ lookup[s] \in Macs /\ p # Free
    BY <1>11, PlacesAssumption DEF Move, LeadsTo, TypeOK
  <2>3. \A r \in Slots \ {s} : dst'[r] = dst[r] /\ LeadsTo(r)' = LeadsTo(r)
    BY <1>11, <2>1 DEF Move, TypeOK, LeadsTo
  <2>4. QED
    BY <2>1, <2>2, <2>3 DEF LeadInv, InWork
<1>12. ASSUME NEW s \in Slots, Age(s)
       PROVE  LeadInv'
  <2>1. UNCHANGED <<lookup, dst, mc, pc, slot, torn, redirected, flooded>> /\ \A r \in Slots : valid'[r] => valid[r]
    BY <1>12 DEF Age, call, history, TypeOK
  <2>2. QED
    BY <2>1 DEF LeadInv, InWork, LeadsTo
<1>13. CASE UNCHANGED vars
  BY <1>13 DEF LeadInv, InWork, LeadsTo, vars, tables, call, history
<1>14. QED
  BY <1>1, <1>2, <1>3, <1>4, <1>5, <1>6, <1>7, <1>8, <1>9, <1>10, <1>11, <1>12, <1>13, <1>15
     DEF Next

(* Every finished entry leads where it was asked to, whoever shares its      *)
(* group, on every chip and for all masks: the entries that a set for all    *)
(* ports made are the only ones that another set can redirect.               *)
THEOREM Destinations == Spec => []NeverElsewhere
<1>1. Init => LeadInv
  BY DEF Init, LeadInv
<1>2. LeadInv => NeverElsewhere
  BY DEF LeadInv, NeverElsewhere
<1>3. QED
  BY <1>1, <1>2, LeadStep, TypeInit, TypeStep, CallInit, CallStep, PTL DEF Spec
-----------------------------------------------------------------------------
(* Static entries.                                                          *)

\* The slot a dynamic set is going to write holds no static entry of another
\* address: it did not when it was found, and the chip makes none.
SlotInv ==
  /\ pc \in {"group", "age"} /\ ~stat /\ by = "found" => ~Static(slot) \/ lookup[slot] = mac
  /\ pc \in Half => static[slot] = stat

LEMMA SlotInit == Init => SlotInv
BY DEF Init, SlotInv, Half

LEMMA SlotStep == TypeOK /\ CallInv /\ SlotInv /\ [Next]_vars => SlotInv'
<1> SUFFICES ASSUME TypeOK, CallInv, SlotInv, [Next]_vars PROVE SlotInv'
  OBVIOUS
<1>0. ASSUME pc' \in {"idle", "clear", "done"} PROVE SlotInv'
  BY <1>0 DEF SlotInv, Half
<1>a. ASSUME CallEnds PROVE SlotInv'
  BY <1>a, <1>0 DEF CallEnds
<1>1. ASSUME NEW m \in Macs, NEW st \in BOOLEAN, NEW t \in Wanted[m], TableSet(m, st, t)
      PROVE  SlotInv'
  <2>1. PICK k \in Slots \union {NoSlot}, s \in Slots, how \in {"found", "blind"} :
          /\ Finds(m, st, k, s) /\ Starts(s, m, st, t, how)
          /\ how = "found" => k = NoSlot
    BY <1>1 DEF TableSet
  <2>2. ASSUME ~st, how = "found" PROVE ~Static(s) \/ lookup[s] = m
    <3>1. Finds(m, FALSE, NoSlot, s)
      BY <2>1, <2>2
    <3>2. QED
      BY <3>1, FindsDynamic
  <2>3. /\ UNCHANGED <<valid, static, lookup>> /\ pc' \in {"group", "age"}
        /\ slot' = s /\ mac' = m /\ stat' = st /\ by' = how
    BY <2>1 DEF Starts, tables
  <2>4. QED
    BY <2>2, <2>3 DEF SlotInv, Static, Half
<1>2. ASSUME NEW m \in Macs, NEW st \in BOOLEAN, NEW t \in Wanted[m],
             NEW i \in ColNums, ColTableSet(i, m, st, t)
      PROVE  SlotInv'
  BY <1>2 DEF ColTableSet, Starts, SlotInv, Half
<1>3. CASE WriteGroup
  <2>1. CASE CallEnds
    BY <1>a, <2>1
  <2>2. CASE At("age")
    BY <1>3, <2>2 DEF WriteGroup, At, SlotInv, Static, Half
  <2>3. QED
    BY <1>3, <2>1, <2>2 DEF WriteGroup
<1>4. CASE WriteAge
  <2>1. CASE CallEnds
    BY <1>a, <2>1
  <2>2. CASE At("lookup") /\ static' = [static EXCEPT ![slot] = stat]
    BY <1>4, <2>2 DEF WriteAge, At, SlotInv, TypeOK, Half
  <2>3. QED
    BY <1>4, <2>1, <2>2 DEF WriteAge, Tears
<1>5. CASE WriteLookup
  <2>1. CASE CallEnds
    BY <1>a, <2>1
  <2>2. CASE At("dst") /\ static' = static
    BY <1>5, <2>2 DEF WriteLookup, At, SlotInv, Half
  <2>3. QED
    BY <1>5, <2>1, <2>2 DEF WriteLookup, Tears
<1>6. CASE WriteDst
  BY <1>6, <1>a DEF WriteDst, Tears
<1>7. ASSUME NEW g \in ByNumber, NEW mask \in Masks, McTableSet(g, mask)
      PROVE  SlotInv'
  BY <1>7, <1>0 DEF McTableSet, call
<1>8. ASSUME NEW how, NEW what, Clear(how, what)
      PROVE  SlotInv'
  BY <1>8, <1>0 DEF Clear
<1>9. CASE ClearSlot
  BY <1>9, <1>0, <1>a DEF ClearSlot, NextSlot, ClearEnds
<1>15. CASE ClearReturns
  BY <1>15, <1>a DEF ClearReturns, ClearEnds
<1>10. ASSUME NEW m \in Macs, NEW s \in Slots, NEW p \in Wanted[m] \intersect Ports, Learn(m, p, s)
       PROVE  SlotInv'
  <2>1. UNCHANGED <<pc, slot, mac, stat, by>>
    BY <1>10 DEF Learn, call
  <2>2. pc \in Half => s # slot
    BY <1>10 DEF Learn, CallInv
  <2>3. pc \in {"group", "age"} \union Half => slot \in Slots
    BY DEF TypeOK, Half
  <2>4. ~Static(s)'
    BY <1>10 DEF Learn, Static, TypeOK
  <2>5. \A r \in Slots \ {s} : /\ valid'[r] = valid[r] /\ static'[r] = static[r]
                               /\ lookup'[r] = lookup[r]
    BY <1>10 DEF Learn, TypeOK
  <2>6. QED
    BY <2>1, <2>2, <2>3, <2>4, <2>5 DEF SlotInv, Static
<1>11. ASSUME NEW p \in Ports, NEW s \in Slots, Move(p, s)
       PROVE  SlotInv'
  BY <1>11 DEF Move, SlotInv, Static, call
<1>12. ASSUME NEW s \in Slots, Age(s)
       PROVE  SlotInv'
  BY <1>12 DEF Age, SlotInv, Static, TypeOK, call
<1>13. CASE UNCHANGED vars
  BY <1>13 DEF SlotInv, Static, vars, tables, call
<1>14. QED
  BY <1>1, <1>2, <1>3, <1>4, <1>5, <1>6, <1>7, <1>8, <1>9, <1>10, <1>11, <1>12, <1>13, <1>15
     DEF Next

LEMMA KeepsStaticStep ==
  ASSUME TypeOK, SlotInv, [Next]_vars, NEW s \in Slots, Static(s),
         ~(Static(s)' /\ lookup'[s] = lookup[s] /\ dst'[s] = dst[s])
  PROVE  \/ pc = "clear"
         \/ s = slot /\ pc \in Writing /\ (stat \/ by # "found" \/ lookup[s] = mac)
<1>0. ASSUME UNCHANGED <<valid, static, lookup, dst>> PROVE FALSE
  BY <1>0 DEF Static
<1>1. ASSUME NEW m \in Macs, NEW st \in BOOLEAN, NEW t \in Wanted[m], TableSet(m, st, t)
      PROVE  FALSE
  BY <1>0, <1>1 DEF TableSet, Starts, tables
<1>2. ASSUME NEW m \in Macs, NEW st \in BOOLEAN, NEW t \in Wanted[m],
             NEW i \in ColNums, ColTableSet(i, m, st, t)
      PROVE  FALSE
  BY <1>0, <1>2 DEF ColTableSet, Starts, tables
<1>3. CASE WriteGroup
  BY <1>0, <1>3 DEF WriteGroup
<1>4. CASE WriteAge
  <2>1. s = slot /\ pc = "age"
    BY <1>4 DEF WriteAge, TypeOK, Static
  <2>2. QED
    BY <2>1 DEF SlotInv, Writing
<1>5. CASE WriteLookup
  <2>1. s = slot /\ pc = "lookup"
    BY <1>5 DEF WriteLookup, TypeOK, Static
  <2>2. QED
    BY <2>1 DEF SlotInv, Writing, Half, Static
<1>6. CASE WriteDst
  <2>1. s = slot /\ pc = "dst"
    BY <1>6 DEF WriteDst, TypeOK, Static
  <2>2. QED
    BY <2>1 DEF SlotInv, Writing, Half, Static
<1>7. ASSUME NEW g \in ByNumber, NEW mask \in Masks, McTableSet(g, mask)
      PROVE  FALSE
  BY <1>0, <1>7 DEF McTableSet
<1>8. ASSUME NEW how, NEW what, Clear(how, what)
      PROVE  FALSE
  BY <1>0, <1>8 DEF Clear, tables
<1>9. CASE ClearSlot
  BY <1>9 DEF ClearSlot
<1>15. CASE ClearReturns
  BY <1>0, <1>15 DEF ClearReturns, tables
<1>10. ASSUME NEW m \in Macs, NEW r \in Slots, NEW p \in Wanted[m] \intersect Ports, Learn(m, p, r)
       PROVE  FALSE
  BY <1>10 DEF Learn, Static, TypeOK
<1>11. ASSUME NEW p \in Ports, NEW r \in Slots, Move(p, r)
       PROVE  FALSE
  BY <1>11 DEF Move, Static, TypeOK
<1>12. ASSUME NEW r \in Slots, Age(r)
       PROVE  FALSE
  BY <1>12 DEF Age, Static, TypeOK
<1>13. CASE UNCHANGED vars
  BY <1>0, <1>13 DEF vars, tables
<1>14. QED
  BY <1>1, <1>2, <1>3, <1>4, <1>5, <1>6, <1>7, <1>8, <1>9, <1>10, <1>11, <1>12, <1>13, <1>15
     DEF Next

(* Neither the chip nor a dynamic set whose compares succeed takes a static  *)
(* entry of another address away, however their steps interleave.            *)
THEOREM StaticEntries == Spec => DynamicKeepsStatic
<1>1. TypeOK /\ SlotInv /\ [Next]_vars =>
        [\A s \in Slots :
           Static(s) /\ ~(Static(s)' /\ lookup'[s] = lookup[s] /\ dst'[s] = dst[s])
             => \/ pc = "clear"
                \/ s = slot /\ pc \in Writing
                   /\ (stat \/ by # "found" \/ lookup[s] = mac)]_vars
  BY KeepsStaticStep
<1>2. QED
  BY <1>1, TypeInit, TypeStep, CallInit, CallStep, SlotInit, SlotStep, PTL
     DEF Spec, DynamicKeepsStatic

-----------------------------------------------------------------------------
(* Clears.                                                                  *)

\* A clear has left nothing behind it but what it could not compare, what the chip
\* wrote since, and the collision table's entries of a FID.
Left(s) == valid[s] /\ ~(mode = "fid" /\ s \in ColSlots)

ClearInv ==
  pc \in {"clear", "done"} =>
    /\ mode \in Modes
    /\ mode = "mac" => sel \in Macs
    /\ \A s \in Slots \ (missed \union fresh) : Passed(s) /\ About(s) => ~Left(s)

LEMMA AboutCleared ==
  ASSUME TypeOK, Hashed, ClearInv, pc = "clear", NEW s \in Slots, About(s), Left(s)
  PROVE  Cleared(s)
<1>1. s \in HashSlots \/ s \in ColSlots
  BY NumbersAssumption DEF Slots, HashSlots, ColSlots
<1>3. CASE mode = "mac"
  <2>1. lookup[s] = sel /\ sel \in Macs
    BY <1>3 DEF About, ClearInv
  <2>2. s \in HashSlots => \E i \in WayNums : s = Way[sel][i]
    BY <2>1 DEF Hashed, Bucket
  <2>3. QED
    BY <1>1, <1>3, <2>1, <2>2 DEF Cleared, Selected
<1>4. CASE mode = "fid"
  BY <1>4 DEF About, Cleared, Selected, Left
<1>5. CASE mode \in {"static", "sport", "mask"}
  BY <1>5 DEF About, Cleared, Selected
<1>6. QED
  BY <1>3, <1>4, <1>5 DEF ClearInv, Modes

(* A step of the walk leaves nothing in the slot it looks at, unless its     *)
(* compare failed, and puts nothing back into the others.                    *)
LEMMA WalkStep ==
  ASSUME TypeOK, Hashed, ClearInv, ClearSlot, NextSlot,
         NEW s \in Slots \ (missed' \union fresh'), Passed(s)', About(s)'
  PROVE  ~Left(s)'
<1>1. /\ pc = "clear" /\ slot \in Slots
      /\ UNCHANGED <<mac, to, stat, dest, by, mode, sel, lookup, dst, mc, torn, redirected, flooded>>
  BY DEF ClearSlot, NextSlot, TypeOK
<1>2. pc' # "idle"
  BY <1>1 DEF NextSlot
<1>3. /\ UNCHANGED fresh
      /\ \/ Cleared(slot) /\ Wipe(slot) /\ missed' = missed
         \/ ~Cleared(slot) /\ UNCHANGED <<valid, static, missed>>
         \/ UNCHANGED <<valid, static>> /\ missed' = missed \union {slot}
  BY <1>2 DEF ClearSlot, ClearEnds, CallEnds
<1>4. \A r \in Slots : (valid'[r] => valid[r]) /\ (static'[r] => static[r])
  BY <1>1, <1>3 DEF Wipe, TypeOK
<1>5. About(s) /\ (Left(s)' => Left(s))
  BY <1>1, <1>4 DEF About, Left
<1>6. s < slot \/ s = slot
  BY <1>1, NumbersAssumption DEF Passed, NextSlot, Slots
<1>7. CASE s < slot
  BY <1>1, <1>3, <1>5, <1>7 DEF ClearInv, Passed
<1>8. CASE s = slot
  <2>1. CASE Cleared(slot) /\ Wipe(slot)
    BY <1>1, <1>8, <2>1 DEF Wipe, Left, TypeOK
  <2>2. CASE ~Cleared(slot)
    BY <1>1, <1>5, <1>8, <2>2, AboutCleared
  <2>3. QED
    BY <1>3, <1>8, <2>1, <2>2
<1>9. QED
  BY <1>6, <1>7, <1>8

LEMMA ClearInit == Init => ClearInv
BY DEF Init, ClearInv

LEMMA ClearStep == TypeOK /\ Hashed /\ ClearInv /\ [Next]_vars => ClearInv'
<1> SUFFICES ASSUME TypeOK, Hashed, ClearInv, [Next]_vars PROVE ClearInv'
  OBVIOUS
<1>0. ASSUME pc' \notin {"clear", "done"} PROVE ClearInv'
  BY <1>0 DEF ClearInv
<1>a. ASSUME CallEnds PROVE ClearInv'
  BY <1>a, <1>0 DEF CallEnds
\* what a step of the chip may do while a clear runs
<1>b. ASSUME UNCHANGED <<pc, slot, mode, sel, mc, missed>>, fresh \subseteq fresh',
             \A s \in Slots \ fresh' : Passed(s) /\ valid'[s] =>
               /\ valid[s] /\ static'[s] = static[s]
               /\ lookup'[s] = lookup[s] /\ dst'[s] = dst[s]
      PROVE  ClearInv'
  BY <1>b DEF ClearInv, About, Left, Passed
<1>1. ASSUME NEW m \in Macs, NEW st \in BOOLEAN, NEW t \in Wanted[m], TableSet(m, st, t)
      PROVE  ClearInv'
  BY <1>1, <1>0 DEF TableSet, Starts
<1>2. ASSUME NEW m \in Macs, NEW st \in BOOLEAN, NEW t \in Wanted[m],
             NEW i \in ColNums, ColTableSet(i, m, st, t)
      PROVE  ClearInv'
  BY <1>2, <1>0 DEF ColTableSet, Starts
<1>3. CASE WriteGroup
  BY <1>3, <1>0, <1>a DEF WriteGroup, At
<1>4. CASE WriteAge
  BY <1>4, <1>0, <1>a DEF WriteAge, Tears, At
<1>5. CASE WriteLookup
  BY <1>5, <1>0, <1>a DEF WriteLookup, Tears, At
<1>6. CASE WriteDst
  BY <1>6, <1>a DEF WriteDst, Tears
<1>7. ASSUME NEW g \in ByNumber, NEW mask \in Masks, McTableSet(g, mask)
      PROVE  ClearInv'
  BY <1>7, <1>0 DEF McTableSet, call
<1>8. ASSUME NEW how \in Modes, NEW what, how = "mac" => what \in Macs, Clear(how, what)
      PROVE  ClearInv'
  <2>1. \A s \in Slots : ~(s < 0)
    BY NumbersAssumption DEF Slots
  <2>2. QED
    BY <1>8, <2>1 DEF Clear, ClearInv, Passed
<1>9. CASE ClearSlot
  <2>1. CASE CallEnds
    BY <1>a, <2>1
  <2>2. CASE NextSlot
    <3>1. mode' \in Modes /\ (mode' = "mac" => sel' \in Macs)
      BY <1>9, <2>2 DEF ClearSlot, NextSlot, ClearInv
    <3>2. \A s \in Slots \ (missed' \union fresh') : Passed(s)' /\ About(s)' => ~Left(s)'
      BY <1>9, <2>2, WalkStep
    <3>3. QED
      BY <3>1, <3>2 DEF ClearInv
  <2>3. QED
    BY <1>9, <2>1, <2>2 DEF ClearSlot, ClearEnds
<1>15. CASE ClearReturns
  BY <1>15, <1>a DEF ClearReturns, ClearEnds
<1>10. ASSUME NEW m \in Macs, NEW s \in Slots, NEW p \in Wanted[m] \intersect Ports, Learn(m, p, s)
       PROVE  ClearInv'
  BY <1>10, <1>b DEF Learn, Refreshes, TypeOK, call
<1>11. ASSUME NEW p \in Ports, NEW s \in Slots, Move(p, s)
       PROVE  ClearInv'
  BY <1>11, <1>b DEF Move, Refreshes, TypeOK, call
<1>12. ASSUME NEW s \in Slots, Age(s)
       PROVE  ClearInv'
  BY <1>12, <1>b DEF Age, TypeOK, call, history
<1>13. CASE UNCHANGED vars
  BY <1>13, <1>b DEF vars, tables, call, history
<1>14. QED
  BY <1>1, <1>2, <1>3, <1>4, <1>5, <1>6, <1>7, <1>8, <1>9, <1>10, <1>11, <1>12, <1>13, <1>15, ClearsAre
     DEF Next

(* A clear that answers OK has left no valid entry it is about, but in slots *)
(* whose compare failed or that the chip wrote after the walk had passed     *)
(* them, and for a FID those of the collision table.                         *)
THEOREM ClearsComplete == Spec => []ClearComplete
<1>1. ClearInv => ClearComplete
  BY DEF ClearInv, ClearComplete, Passed, Left
<1>2. QED
  BY <1>1, TypeInit, TypeStep, HashedInit, HashedStep, ClearInit, ClearStep, PTL DEF Spec
=============================================================================
