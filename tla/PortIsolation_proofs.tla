------------------------- MODULE PortIsolation_proofs -------------------------
(* The groups of PortIsolation, for any number of devices, ports and groups, *)
(* and any number of failures.                                               *)
EXTENDS PortIsolation, TLAPS

USE NonesAssumption, PortsAssumption, UsesAssumption, BoundAssumption

-----------------------------------------------------------------------------
(* Types                                                                    *)

LEMMA TellTypes ==
  ASSUME TypeOK, NEW d \in Devices, NEW g \in Groups, NEW m \in SUBSET Ports, Tell(d, g, m)
  PROVE  told' \in [Devices -> [Groups -> SUBSET Ports]]
<1>1. [told[d] EXCEPT ![g] = m] \in [Groups -> SUBSET Ports]
  BY DEF TypeOK
<1>. QED  BY <1>1 DEF TypeOK, Tell

LEMMA FailsTypes ==
  ASSUME TypeOK, CallFails, pc # "idle"
  PROVE  /\ pc' = "idle" /\ dev' = NoDevice /\ op' = "none" /\ port' = NoPort
         /\ group' = NoGroup /\ mask' = {} /\ todo' = {}
         /\ failures' \in 0 .. MaxFailures /\ UNCHANGED <<single, reopened, loose>>
         /\ told' \in [Devices -> [Groups -> SUBSET Ports]]
<1>1. told' \in [Devices -> [Groups -> SUBSET Ports]]
  BY TellTypes DEF TypeOK, CallFails
<1>2. failures' \in 0 .. MaxFailures
  BY DEF TypeOK, CallFails, Fault
<1>. QED  BY <1>1, <1>2 DEF CallFails, CallEnds

LEMMA BeginsTypes ==
  ASSUME TypeOK, NEW d \in Devices, NEW p \in Ports \union {NoPort},
         NEW g \in Groups \union {NoGroup}, NEW m \in SUBSET Ports,
         NEW what \in {"dst", "src", "clear", "change", "set"},
         what \in {"dst", "src"} => p \in Ports,
         what \in {"clear", "change", "set"} => <<d, g>> \in Uses,
         single' \in [Devices -> SUBSET (Ports \X Ports)],
         reopened' \in [Devices -> SUBSET (Ports \X Ports)], loose' \subseteq Devices \X Groups,
         Begins(d, what, p, g, m)
  PROVE  TypeOK'
  BY DEF TypeOK, Begins, chip

LEMMA ConcernedTypes == ASSUME TypeOK, pc # "idle", op # "none" PROVE Concerned \subseteq Ports
  BY DEF TypeOK, Concerned

LEMMA PairsTypes == ASSUME NEW m \in SUBSET Ports PROVE Pairs(m) \subseteq Ports \X Ports
  BY DEF Pairs

LEMMA RewritesTypes ==
  ASSUME TypeOK, NEW d \in Devices, NEW g \in Groups, NEW m \in SUBSET Ports, <<d, g>> \in Uses,
         NEW what \in {"clear", "change", "set"}, Rewrites(d, what, g, m)
  PROVE  TypeOK'
<1>1. reopened' \in [Devices -> SUBSET (Ports \X Ports)]
  <2>1. pti_group_port[g] \in SUBSET Ports /\ reopened \in [Devices -> SUBSET (Ports \X Ports)]
    BY DEF TypeOK
  <2>2. Pairs(pti_group_port[g]) \subseteq Ports \X Ports
    BY <2>1, PairsTypes
  <2>. QED  BY <2>1, <2>2 DEF Rewrites
<1>2. UNCHANGED <<single, loose>> /\ Begins(d, what, NoPort, g, m)
  BY DEF Rewrites
<1>3. single' \in [Devices -> SUBSET (Ports \X Ports)] /\ loose' \subseteq Devices \X Groups
  BY <1>2 DEF TypeOK
<1>. QED  BY <1>1, <1>2, <1>3 DEF TypeOK, Begins, chip

LEMMA AnswersTypes ==
  ASSUME TypeOK, NEW d \in Devices, NEW g \in Groups, NEW m \in SUBSET Ports, AnswersOk(d, g, m)
  PROVE  TypeOK' /\ UNCHANGED call
<1>1. told' \in [Devices -> [Groups -> SUBSET Ports]]
  BY TellTypes DEF AnswersOk
<1>. QED  BY <1>1 DEF AnswersOk, TypeOK, chip, call

LEMMA BarredTypes ==
  ASSUME TypeOK, pc # "idle", op # "none", NEW p \in Ports
  PROVE  Barred(p) \subseteq Ports \X Ports
<1>1. filter[dev] \subseteq Ports \X Ports /\ mask \subseteq Ports
  BY DEF TypeOK
<1>2. CASE op = "dst"
  BY <1>1, <1>2 DEF Barred, TypeOK
<1>3. CASE op = "src"
  BY <1>1, <1>3 DEF Barred, TypeOK
<1>4. CASE op = "set"
  BY <1>1, <1>4 DEF Barred, TypeOK
<1>5. CASE op \in {"clear", "change"}
  BY <1>1, <1>5 DEF Barred, TypeOK
<1>. QED  BY <1>2, <1>3, <1>4, <1>5 DEF TypeOK

\* a call that runs has begun
Running == pc # "idle" => op # "none"

LEMMA TypesPreserved == TypeOK /\ Running /\ [Next]_vars => TypeOK' /\ Running'
<1>. SUFFICES ASSUME TypeOK, Running, [Next]_vars PROVE TypeOK' /\ Running'
  OBVIOUS
<1>1. ASSUME NEW d \in Devices, NEW p \in SinglePorts, NEW m \in SingleMasks,
             DstSet(d, p, m) \/ SrcSet(d, p, m)
      PROVE  TypeOK' /\ Running'
  <2>1. /\ single' \in [Devices -> SUBSET (Ports \X Ports)] /\ loose' \subseteq Devices \X Groups
        /\ reopened' \in [Devices -> SUBSET (Ports \X Ports)]
    <3>1. p \in Ports /\ m \subseteq Ports
      OBVIOUS
    <3>2. m \X {p} \subseteq Ports \X Ports /\ {p} \X m \subseteq Ports \X Ports
      BY <3>1
    <3>3. With(d, p) \subseteq Devices \X Groups
      BY DEF With
    <3>4. single[d] \subseteq Ports \X Ports
      BY DEF TypeOK
    <3>5. \E s \in SUBSET (Ports \X Ports) : single' = [single EXCEPT ![d] = s]
      <4>1. CASE DstSet(d, p, m)
        <5>1. single' = [single EXCEPT ![d] = single[d] \union (m \X {p})]
          BY <4>1 DEF DstSet
        <5>2. single[d] \union (m \X {p}) \subseteq Ports \X Ports
          BY <3>2, <3>4, Zenon
        <5>. QED  BY <5>1, <5>2
      <4>2. CASE SrcSet(d, p, m)
        <5>1. single' = [single EXCEPT ![d] = single[d] \union ({p} \X m)]
          BY <4>2 DEF SrcSet
        <5>2. single[d] \union ({p} \X m) \subseteq Ports \X Ports
          BY <3>2, <3>4, Zenon
        <5>. QED  BY <5>1, <5>2
      <4>. QED  BY <1>1, <4>1, <4>2
    <3>6. loose' = loose \union With(d, p) /\ UNCHANGED reopened
      BY <1>1 DEF DstSet, SrcSet
    <3>. QED  BY <3>3, <3>5, <3>6 DEF TypeOK
  <2>2. p \in Ports /\ m \in SUBSET Ports
    OBVIOUS
  <2>3. CASE DstSet(d, p, m)
    BY <2>1, <2>2, <2>3, BeginsTypes DEF DstSet, Running, Begins
  <2>4. CASE SrcSet(d, p, m)
    BY <2>1, <2>2, <2>4, BeginsTypes DEF SrcSet, Running, Begins
  <2>. QED  BY <1>1, <2>3, <2>4
<1>2. ASSUME NEW d \in Devices, NEW m \in Masks, NEW g \in Used(d), GroupSet(d, g, m)
      PROVE  TypeOK' /\ Running'
  <2>1. g \in Groups /\ <<d, g>> \in Uses /\ m \in SUBSET Ports
    BY DEF Used
  <2>. QED  BY <1>2, <2>1, AnswersTypes, RewritesTypes
            DEF GroupSet, Running, call, Rewrites, Begins
<1>3. ASSUME NEW d \in Devices, NEW g \in Used(d), GroupClear(d, g)
      PROVE  TypeOK' /\ Running'
  <2>1. g \in Groups /\ <<d, g>> \in Uses /\ {} \in SUBSET Ports
    BY DEF Used
  <2>. QED  BY <1>3, <2>1, AnswersTypes, RewritesTypes
            DEF GroupClear, Running, call, Rewrites, Begins
<1>4. ASSUME Hold PROVE TypeOK' /\ Running'
  <2>1. pc = "hold" /\ Concerned \subseteq Ports /\ dev \in Devices
    BY <1>4, ConcernedTypes DEF Hold, TypeOK, Running
  <2>2. CASE CallFails
    BY <1>4, <2>1, <2>2, FailsTypes DEF Hold, TypeOK, Running
  <2>3. CASE ~ CallFails
    <3>1. pti_group_port' \in [Groups -> SUBSET Ports]
      <4>1. pti_group_port' \in {pti_group_port, [pti_group_port EXCEPT ![group] = mask]}
        BY <1>4, <2>3 DEF Hold
      <4>2. mask \in SUBSET Ports /\ pti_group_port \in [Groups -> SUBSET Ports]
        BY DEF TypeOK
      <4>3. [pti_group_port EXCEPT ![group] = mask] \in [Groups -> SUBSET Ports]
        BY <4>2
      <4>. QED  BY <4>1, <4>2, <4>3
    <3>2. held' \subseteq Devices /\ todo' \subseteq Ports
      BY <1>4, <2>1, <2>3 DEF Hold, TypeOK
    <3>3. pc' \in {"write", "release"} /\ (pc' = "write" => todo' # {})
      BY <1>4, <2>3 DEF Hold
    <3>4. UNCHANGED <<filter, dev, op, port, group, mask, told, single, reopened, loose, failures>>
      BY <1>4, <2>3 DEF Hold, history
    <3>. QED  BY <2>1, <3>1, <3>2, <3>3, <3>4 DEF TypeOK, Running
  <2>. QED  BY <2>2, <2>3
<1>5. ASSUME Write PROVE TypeOK' /\ Running'
  <2>1. pc = "write" /\ dev \in Devices
    BY <1>5 DEF Write, TypeOK
  <2>. DEFINE done(p) == [filter EXCEPT ![dev] = Barred(p)]
  <2>2. PICK p \in todo :
          /\ filter' \in {filter, done(p)}
          /\ \/ /\ todo' = todo \ {p} /\ pc' = (IF todo = {p} THEN "release" ELSE "write")
                /\ pti_group_port' = (IF todo = {p} /\ op \in {"clear", "change"}
                                      THEN [pti_group_port EXCEPT ![group] = {}]
                                      ELSE pti_group_port)
                /\ UNCHANGED <<dev, op, port, group, mask, history>>
             \/ CallFails /\ UNCHANGED pti_group_port
    BY <1>5 DEF Write
  <2>3. done(p) \in [Devices -> SUBSET (Ports \X Ports)]
    BY <2>1, BarredTypes DEF TypeOK, Running
  <2>4. filter' \in [Devices -> SUBSET (Ports \X Ports)]
    BY <2>2, <2>3 DEF TypeOK
  <2>5. UNCHANGED held
    BY <1>5 DEF Write
  <2>6. CASE CallFails /\ UNCHANGED pti_group_port
    BY <2>1, <2>4, <2>5, <2>6, FailsTypes DEF TypeOK, Running
  <2>7. CASE ~ (CallFails /\ UNCHANGED pti_group_port)
    <3>1. pti_group_port' \in [Groups -> SUBSET Ports]
      <4>1. pti_group_port' \in {pti_group_port, [pti_group_port EXCEPT ![group] = {}]}
        BY <2>2, <2>7
      <4>2. pti_group_port \in [Groups -> SUBSET Ports]
        BY DEF TypeOK
      <4>3. [pti_group_port EXCEPT ![group] = {}] \in [Groups -> SUBSET Ports]
        BY <4>2
      <4>. QED  BY <4>1, <4>2, <4>3
    <3>2. /\ todo' \subseteq Ports /\ pc' \in {"write", "release"}
          /\ pc' = "write" => todo' # {}
      <4>1. todo' = todo \ {p} /\ pc' = (IF todo = {p} THEN "release" ELSE "write")
        BY <2>2, <2>7
      <4>2. todo \subseteq Ports
        BY DEF TypeOK
      <4>. QED  BY <4>1, <4>2
    <3>3. UNCHANGED <<dev, op, port, group, mask, told, single, reopened, loose, failures>>
      BY <2>2, <2>7 DEF history
    <3>. QED  BY <2>1, <2>4, <2>5, <3>1, <3>2, <3>3 DEF TypeOK, Running
  <2>. QED  BY <2>6, <2>7
<1>6. ASSUME Release PROVE TypeOK' /\ Running'
  <2>1. pc = "release" /\ dev \in Devices /\ op # "none"
    BY <1>6 DEF Release, TypeOK, Running
  <2>2. CASE CallFails
    BY <1>6, <2>1, <2>2, FailsTypes DEF Release, TypeOK, Running
  <2>3. CASE ~ CallFails /\ op = "change"
    BY <1>6, <2>1, <2>3 DEF Release, NoFault, TypeOK, Running
  <2>4. CASE ~ CallFails /\ op # "change"
    <3>1. /\ pc' = "idle" /\ dev' = NoDevice /\ op' = "none" /\ port' = NoPort
          /\ group' = NoGroup /\ mask' = {} /\ todo' = {}
      BY <1>6, <2>4 DEF Release, CallEnds
    <3>2. /\ UNCHANGED <<pti_group_port, filter, single, failures>>
          /\ held' \subseteq Devices /\ loose' \subseteq Devices \X Groups
      BY <1>6, <2>4 DEF Release, NoFault, TypeOK
    <3>4. reopened' \in [Devices -> SUBSET (Ports \X Ports)]
      <4>1. \/ reopened' = reopened
            \/ reopened' = [reopened EXCEPT ![dev] = reopened[dev] \ Pairs(mask)]
        BY <1>6, <2>4 DEF Release
      <4>2. reopened \in [Devices -> SUBSET (Ports \X Ports)]
        BY DEF TypeOK
      <4>. QED  BY <4>1, <4>2
    <3>3. told' \in [Devices -> [Groups -> SUBSET Ports]]
      <4>1. group \in Groups \union {NoGroup} /\ mask \in SUBSET Ports
        BY DEF TypeOK
      <4>2. told' = told \/ (group # NoGroup /\ Tell(dev, group, mask))
        BY <1>6, <2>4 DEF Release
      <4>. QED  BY <2>1, <4>1, <4>2, TellTypes DEF TypeOK
    <3>. QED  BY <3>1, <3>2, <3>3, <3>4 DEF TypeOK, Running
  <2>. QED  BY <2>2, <2>3, <2>4
<1>7. ASSUME NEW d \in Devices, Recreate(d) PROVE TypeOK' /\ Running'
  BY <1>7 DEF Recreate, call, Used, TypeOK, Running
<1>8. CASE UNCHANGED vars
  BY <1>8 DEF vars, chip, call, history, TypeOK, Running
<1>. QED  BY <1>1, <1>2, <1>3, <1>4, <1>5, <1>6, <1>7, <1>8 DEF Next

(* The variables keep their types: a call is on a device and a group that   *)
(* the client uses, and in its loop there is a port to be written.          *)
THEOREM Typing == Spec => []TypeOK
<1>1. Init => TypeOK /\ Running
  BY DEF Init, TypeOK, Running
<1>. QED  BY <1>1, TypesPreserved, PTL DEF Spec

-----------------------------------------------------------------------------
(* What the groups isolate                                                  *)

\* the ports a call by port is about belong to no group that is in force and counted on
Overruled ==
  /\ op \in {"none", "dst", "src"} => group = NoGroup
  /\ op \in {"dst", "src"} => With(dev, port) \subseteq loose
  /\ op = "dst" /\ pc = "write" => todo \subseteq {port}

\* what a clear or a change takes out is noted in the history
Taking ==
  /\ op = "clear" => mask = {}
  /\ op \in {"clear", "change"} => Pairs(pti_group_port[group]) \subseteq reopened[dev]
  /\ op \in {"clear", "change"} /\ pc = "write" => todo \subseteq pti_group_port[group]

\* what there is of the new mask while it is set
Adding ==
  op = "set" /\ pc \in {"write", "release"} =>
    /\ todo \subseteq mask
    /\ \A e \in Pairs(mask) : e \in filter[dev] \/ (pc = "write" /\ e[2] \in todo)

IsolationInv ==
  /\ TypeOK /\ (pc = "idle" <=> op = "none")
  /\ GroupIsolated /\ Overruled /\ Taking /\ Adding

LEMMA PairsOf ==
  ASSUME NEW m, NEW e
  PROVE  e \in Pairs(m) <=> \E x, y \in m : x # y /\ e = <<x, y>>
  BY DEF Pairs

\* What the write of a port of the group adds to the chip, and takes out of it.
LEMMA SetAdds ==
  ASSUME op = "set", NEW p \in mask, NEW e
  PROVE  e \in Barred(p) <=> e \in filter[dev] \/ (e \in Pairs(mask) /\ e[2] = p)
  BY PairsOf DEF Barred

LEMMA ClearTakes ==
  ASSUME op \in {"clear", "change"}, NEW p \in pti_group_port[group], NEW e
  PROVE  e \in Barred(p) <=>
           e \in filter[dev] /\ ~ (e \in Pairs(pti_group_port[group]) /\ e[2] = p)
  BY PairsOf DEF Barred

\* A clear takes nothing out but the group's own pairs.
LEMMA ClearLeaves ==
  ASSUME op \in {"clear", "change"}, NEW p, NEW e \in filter[dev],
         e \notin Pairs(pti_group_port[group]), p \in pti_group_port[group]
  PROVE  e \in Barred(p)
  BY ClearTakes

LEMMA CallBegins ==
  ASSUME IsolationInv, TypeOK', NEW d \in Devices, NEW what \in {"dst", "src", "set", "change", "clear"},
         NEW p, NEW g \in Groups \union {NoGroup}, NEW m, Begins(d, what, p, g, m),
         what \in {"dst", "src"} => g = NoGroup /\ With(d, p) \subseteq loose',
         what = "clear" => m = {},
         what \in {"clear", "change"} => Pairs(pti_group_port[g]) \subseteq reopened'[d],
         loose \subseteq loose',
         \A c \in Devices : reopened[c] \subseteq reopened'[c]
  PROVE  IsolationInv'
<1>1. /\ pc = "idle" /\ group = NoGroup
      /\ pc' = "hold" /\ dev' = d /\ op' = what /\ port' = p /\ group' = g /\ mask' = m
      /\ UNCHANGED <<pti_group_port, filter, todo, told>>
  BY DEF Begins, chip, IsolationInv, Overruled
<1>2. GroupIsolated'
  BY <1>1 DEF IsolationInv, GroupIsolated, Settled
<1>3. Overruled' /\ Taking' /\ Adding'
  BY <1>1 DEF Overruled, Taking, Adding, With
<1>. QED  BY <1>1, <1>2, <1>3 DEF IsolationInv

\* No operation is required.
LEMMA AnswerStep ==
  ASSUME IsolationInv, TypeOK', NEW d \in Devices, NEW g \in Groups, NEW m, AnswersOk(d, g, m)
  PROVE  IsolationInv'
<1>1. /\ pc = "idle" /\ op = "none" /\ group = NoGroup
      /\ UNCHANGED <<pti_group_port, filter, pc, dev, op, port, group, mask, todo, reopened>>
  BY DEF AnswersOk, chip, call, IsolationInv, Overruled
<1>2. \A c \in Devices, h \in Groups :
        told'[c][h] = IF c = d /\ h = g THEN m ELSE told[c][h]
  BY DEF AnswersOk, Tell, IsolationInv, TypeOK
<1>3. loose \subseteq loose' /\ (told[d][g] # m => <<d, g>> \in loose')
  BY DEF AnswersOk
<1>4. \A c \in Devices, h \in Groups : <<c, h>> \notin loose' => told'[c][h] = told[c][h]
  BY <1>2, <1>3
<1>5. GroupIsolated'
  BY <1>1, <1>3, <1>4 DEF IsolationInv, GroupIsolated, Settled
<1>6. Overruled' /\ Taking' /\ Adding'
  BY <1>1 DEF Overruled, Taking, Adding
<1>. QED  BY <1>1, <1>5, <1>6 DEF IsolationInv

\* what a call leaves alone of the other groups while it writes
Spares(f) ==
  \A d \in Devices, g \in Groups :
    <<d, g>> \notin loose /\ Settled(d, g) => Pairs(told[d][g]) \ reopened[d] \subseteq f[d]

LEMMA CutOff ==
  ASSUME IsolationInv, TypeOK', CallFails, pc # "idle", Spares(filter')
  PROVE  IsolationInv'
<1>1. /\ pc' = "idle" /\ op' = "none" /\ group' = NoGroup /\ UNCHANGED <<reopened, loose>>
      /\ group # NoGroup => Tell(dev, group, {})
      /\ group = NoGroup => told' = told
  BY DEF CallFails, CallEnds
<1>2. \A d \in Devices, g \in Groups :
        \/ told'[d][g] = {}
        \/ told'[d][g] = told[d][g] /\ Settled(d, g)
  <2>1. CASE group = NoGroup
    BY <1>1, <2>1 DEF Settled
  <2>2. CASE group # NoGroup
    <3>1. dev \in Devices /\ group \in Groups
      BY <2>2 DEF IsolationInv, TypeOK
    <3>2. told' = [told EXCEPT ![dev][group] = {}]
      BY <1>1, <2>2 DEF Tell
    <3>. QED  BY <3>1, <3>2 DEF IsolationInv, TypeOK, Settled
  <2>. QED  BY <2>1, <2>2
<1>3. Pairs({}) = {}
  BY DEF Pairs
<1>4. GroupIsolated'
  <2>. SUFFICES ASSUME NEW d \in Devices, NEW g \in Groups, <<d, g>> \notin loose
                PROVE  Pairs(told'[d][g]) \ reopened[d] \subseteq filter'[d]
    BY <1>1 DEF GroupIsolated
  <2>. QED  BY <1>2, <1>3 DEF Spares
<1>5. Overruled' /\ Taking' /\ Adding'
  BY <1>1 DEF Overruled, Taking, Adding
<1>. QED  BY <1>1, <1>4, <1>5 DEF IsolationInv

LEMMA HoldIsolates == ASSUME IsolationInv, TypeOK', Hold PROVE IsolationInv'
<1>1. pc = "hold" /\ dev \in Devices /\ op # "none" /\ UNCHANGED filter
  BY DEF Hold, IsolationInv, TypeOK
<1>2. CASE CallFails
  <2>1. Spares(filter')
    BY <1>1 DEF Spares, IsolationInv, GroupIsolated
  <2>. QED  BY <1>1, <1>2, <2>1, CutOff
<1>3. CASE ~ CallFails
  <2>1. /\ todo' = Concerned /\ pc' = (IF Concerned = {} THEN "release" ELSE "write")
        /\ op # "set" => pti_group_port' = pti_group_port
        /\ UNCHANGED <<dev, op, port, group, mask, told, reopened, loose, filter>>
    BY <1>1, <1>3 DEF Hold, history
  <2>2. GroupIsolated'
    BY <2>1 DEF IsolationInv, GroupIsolated, Settled
  <2>3. Overruled' /\ Taking'
    BY <2>1 DEF IsolationInv, Overruled, Taking, With, Concerned
  <2>4. Adding'
    <3>1. \A e \in Pairs(mask) : e[2] \in mask /\ mask # {}
      BY DEF Pairs
    <3>. QED  BY <2>1, <3>1 DEF Adding, Concerned
  <2>. QED  BY <1>1, <2>1, <2>2, <2>3, <2>4 DEF IsolationInv
<1>. QED  BY <1>2, <1>3

\* The write of a port spares the pairs of the groups in force.
LEMMA BarredSpares ==
  ASSUME IsolationInv, pc = "write", NEW p \in todo,
         NEW g \in Groups, <<dev, g>> \notin loose, g # group,
         NEW e \in Pairs(told[dev][g]) \ reopened[dev]
  PROVE  e \in Barred(p)
<1>1. dev \in Devices /\ op # "none"
  BY DEF IsolationInv, TypeOK
<1>2. e \in filter[dev]
  BY <1>1 DEF IsolationInv, GroupIsolated, Settled
<1>3. CASE op = "set"
  BY <1>2, <1>3, SetAdds DEF IsolationInv, Adding
<1>4. CASE op \in {"clear", "change"}
  BY <1>2, <1>4, ClearLeaves DEF IsolationInv, Taking
<1>5. CASE op \in {"dst", "src"}
  <2>1. port \notin told[dev][g]
    BY <1>5 DEF IsolationInv, Overruled, With
  <2>2. e[1] # port /\ e[2] # port /\ e = <<e[1], e[2]>>
    BY <2>1 DEF Pairs
  <2>3. op = "dst" => p = port
    BY DEF IsolationInv, Overruled
  <2>. QED  BY <1>2, <1>5, <2>2, <2>3 DEF Barred
<1>. QED  BY <1>1, <1>3, <1>4, <1>5 DEF IsolationInv, TypeOK

LEMMA WriteIsolates == ASSUME IsolationInv, TypeOK', Write PROVE IsolationInv'
<1>1. pc = "write" /\ dev \in Devices /\ op # "none"
  BY DEF Write, IsolationInv, TypeOK
<1>2. PICK p \in todo :
        \/ /\ filter' = [filter EXCEPT ![dev] = Barred(p)] /\ todo' = todo \ {p}
           /\ pc' = (IF todo = {p} THEN "release" ELSE "write")
           /\ pti_group_port' = (IF todo = {p} /\ op \in {"clear", "change"}
                                 THEN [pti_group_port EXCEPT ![group] = {}]
                                 ELSE pti_group_port)
           /\ UNCHANGED <<dev, op, port, group, mask, history>>
        \/ filter' \in {filter, [filter EXCEPT ![dev] = Barred(p)]} /\ CallFails
  BY DEF Write
<1>3. \A d \in Devices : filter'[d] \in {filter[d], IF d = dev THEN Barred(p) ELSE filter[d]}
  BY <1>1, <1>2 DEF IsolationInv, TypeOK
<1>4. Spares(filter')
  <2>. SUFFICES ASSUME NEW d \in Devices, NEW g \in Groups, <<d, g>> \notin loose, Settled(d, g),
                       NEW e \in Pairs(told[d][g]) \ reopened[d]
                PROVE  e \in filter'[d]
    BY DEF Spares
  <2>1. e \in filter[d]
    BY DEF IsolationInv, GroupIsolated
  <2>2. d = dev => e \in Barred(p)
    BY <1>1, BarredSpares DEF Settled
  <2>. QED  BY <1>3, <2>1, <2>2
<1>5. CASE CallFails
  BY <1>1, <1>4, <1>5, CutOff
<1>6. CASE ~ CallFails
  <2>1. /\ filter' = [filter EXCEPT ![dev] = Barred(p)] /\ todo' = todo \ {p}
        /\ pc' = (IF todo = {p} THEN "release" ELSE "write")
        /\ pti_group_port' = (IF todo = {p} /\ op \in {"clear", "change"}
                              THEN [pti_group_port EXCEPT ![group] = {}]
                              ELSE pti_group_port)
        /\ UNCHANGED <<dev, op, port, group, mask, told, reopened, loose>>
    BY <1>2, <1>6 DEF history
  <2>2. filter'[dev] = Barred(p)
    BY <1>1, <2>1 DEF IsolationInv, TypeOK
  <2>3. GroupIsolated'
    BY <1>4, <2>1 DEF GroupIsolated, Spares, Settled
  <2>4. Overruled'
    BY <1>1, <2>1 DEF IsolationInv, Overruled, With
  <2>5. Taking'
    <3>1. CASE pti_group_port' = pti_group_port
      BY <1>1, <2>1, <3>1 DEF IsolationInv, Taking
    <3>2. CASE pti_group_port' # pti_group_port
      <4>1. /\ pti_group_port' = [pti_group_port EXCEPT ![group] = {}]
            /\ op \in {"clear", "change"} /\ pc' = "release"
        BY <2>1, <3>2
      <4>2. pti_group_port'[group] = {} /\ Pairs({}) = {}
        BY <4>1 DEF IsolationInv, TypeOK, Pairs
      <4>. QED  BY <2>1, <4>1, <4>2 DEF IsolationInv, Taking
    <3>. QED  BY <3>1, <3>2
  <2>6. Adding'
    <3>1. CASE op = "set"
      <4>1. \A e \in Pairs(mask) : e \in Barred(p) \/ e[2] \in todo \ {p}
        BY <1>1, <3>1, SetAdds DEF IsolationInv, Adding
      <4>2. todo = {p} => todo \ {p} = {}
        OBVIOUS
      <4>. QED  BY <1>1, <2>1, <2>2, <4>1, <4>2 DEF IsolationInv, Adding
    <3>. QED  BY <2>1, <3>1 DEF Adding
  <2>. QED  BY <1>1, <2>1, <2>3, <2>4, <2>5, <2>6 DEF IsolationInv
<1>. QED  BY <1>5, <1>6

LEMMA ReleaseIsolates == ASSUME IsolationInv, TypeOK', Release PROVE IsolationInv'
<1>1. pc = "release" /\ dev \in Devices /\ op # "none" /\ UNCHANGED <<pti_group_port, filter>>
  BY DEF Release, IsolationInv, TypeOK
<1>2. CASE CallFails
  <2>1. Spares(filter')
    BY <1>1 DEF Spares, IsolationInv, GroupIsolated
  <2>. QED  BY <1>1, <1>2, <2>1, CutOff
<1>3. CASE ~ CallFails /\ op = "change"
  <2>1. /\ op' = "set" /\ pc' = "hold"
        /\ UNCHANGED <<dev, port, group, mask, told, reopened, loose>>
    BY <1>3 DEF Release
  <2>2. GroupIsolated'
    BY <1>1, <2>1 DEF IsolationInv, GroupIsolated, Settled
  <2>3. Overruled' /\ Taking' /\ Adding'
    BY <2>1 DEF Overruled, Taking, Adding
  <2>. QED  BY <2>1, <2>2, <2>3 DEF IsolationInv
<1>4. CASE ~ CallFails /\ op # "change"
  <2>1. pc' = "idle" /\ op' = "none" /\ dev' = NoDevice /\ group' = NoGroup
    BY <1>4 DEF Release, CallEnds
  <2>2. Overruled' /\ Taking' /\ Adding'
    BY <2>1 DEF Overruled, Taking, Adding
  <2>3. GroupIsolated'
    <3>. SUFFICES ASSUME NEW d \in Devices, NEW g \in Groups, <<d, g>> \notin loose',
                         NEW e \in Pairs(told'[d][g]) \ reopened'[d]
                  PROVE  e \in filter[d]
      BY <1>1 DEF GroupIsolated
    <3>1. CASE group = NoGroup
      <4>1. UNCHANGED <<told, reopened, loose>>
        BY <1>4, <3>1 DEF Release
      <4>. QED  BY <3>1, <4>1 DEF IsolationInv, GroupIsolated, Settled
    <3>2. CASE group # NoGroup
      <4>1. /\ told' = [told EXCEPT ![dev][group] = mask]
            /\ reopened' = [reopened EXCEPT ![dev] = @ \ Pairs(mask)]
            /\ loose' = loose \ {<<dev, group>>}
        BY <1>4, <3>2 DEF Release, Tell
      <4>2. group \in Groups /\ op \in {"clear", "set"}
        BY <1>1, <1>4, <3>2 DEF IsolationInv, Overruled, TypeOK
      <4>3. /\ \A c \in Devices, h \in Groups :
                 told'[c][h] = IF c = dev /\ h = group THEN mask ELSE told[c][h]
            /\ \A c \in Devices :
                 reopened'[c] = IF c = dev THEN reopened[c] \ Pairs(mask) ELSE reopened[c]
        BY <1>1, <4>1, <4>2 DEF IsolationInv, TypeOK
      <4>4. Pairs(mask) \subseteq filter[dev]
        <5>1. CASE op = "set"
          BY <1>1, <5>1 DEF IsolationInv, Adding
        <5>2. CASE op = "clear"
          BY <5>2 DEF IsolationInv, Taking, Pairs
        <5>. QED  BY <4>2, <5>1, <5>2
      <4>5. CASE d = dev /\ g = group
        BY <4>2, <4>3, <4>4, <4>5
      <4>6. CASE ~ (d = dev /\ g = group)
        <5>1. Settled(d, g) /\ <<d, g>> \notin loose /\ told'[d][g] = told[d][g]
          BY <4>1, <4>3, <4>6 DEF Settled
        <5>2. e \in reopened[d] => d = dev /\ e \in Pairs(mask)
          BY <4>3
        <5>. QED  BY <4>4, <5>1, <5>2 DEF IsolationInv, GroupIsolated
      <4>. QED  BY <4>5, <4>6
    <3>. QED  BY <3>1, <3>2
  <2>. QED  BY <2>1, <2>2, <2>3 DEF IsolationInv
<1>. QED  BY <1>2, <1>3, <1>4

LEMMA RecreateIsolates ==
  ASSUME IsolationInv, TypeOK', NEW d \in Devices, Recreate(d)
  PROVE  IsolationInv'
<1>1. /\ pc = "idle" /\ op = "none" /\ group = NoGroup
      /\ UNCHANGED <<pc, dev, op, port, group, mask, todo>>
  BY DEF Recreate, call, IsolationInv, Overruled
<1>2. /\ \A c \in Devices : /\ filter'[c] = IF c = d THEN {} ELSE filter[c]
                            /\ reopened'[c] = IF c = d THEN {} ELSE reopened[c]
      /\ \A c \in Devices, g \in Groups : told'[c][g] = IF c = d THEN {} ELSE told[c][g]
      /\ loose' = loose \ ({d} \X Groups)
  BY DEF Recreate, IsolationInv, TypeOK
<1>3. Pairs({}) = {}
  BY DEF Pairs
<1>4. GroupIsolated'
  BY <1>1, <1>2, <1>3 DEF IsolationInv, GroupIsolated, Settled
<1>5. Overruled' /\ Taking' /\ Adding'
  BY <1>1 DEF Overruled, Taking, Adding
<1>. QED  BY <1>1, <1>4, <1>5 DEF IsolationInv

LEMMA RewritesIsolates ==
  ASSUME IsolationInv, TypeOK', NEW d \in Devices, NEW what \in {"set", "change", "clear"},
         NEW g \in Groups, NEW m, Rewrites(d, what, g, m), what = "clear" => m = {}
  PROVE  IsolationInv'
<1>1. /\ Begins(d, what, NoPort, g, m) /\ UNCHANGED loose
      /\ reopened' = [reopened EXCEPT ![d] = @ \union Pairs(pti_group_port[g])]
  BY DEF Rewrites
<1>2. /\ \A c \in Devices : reopened[c] \subseteq reopened'[c]
      /\ Pairs(pti_group_port[g]) \subseteq reopened'[d]
  BY <1>1 DEF IsolationInv, TypeOK
<1>. QED  BY <1>1, <1>2, CallBegins

LEMMA IsolationPreserved == TypeOK' /\ IsolationInv /\ [Next]_vars => IsolationInv'
<1>. SUFFICES ASSUME TypeOK', IsolationInv, [Next]_vars PROVE IsolationInv'
  OBVIOUS
<1>1. ASSUME NEW d \in Devices, NEW p \in SinglePorts, NEW m \in SingleMasks,
             DstSet(d, p, m) \/ SrcSet(d, p, m)
      PROVE  IsolationInv'
  <2>1. PICK what \in {"dst", "src"} : Begins(d, what, p, NoGroup, m)
    BY <1>1 DEF DstSet, SrcSet
  <2>2. UNCHANGED reopened /\ loose' = loose \union With(d, p)
    BY <1>1 DEF DstSet, SrcSet
  <2>. QED  BY <2>1, <2>2, CallBegins
<1>2. ASSUME NEW d \in Devices, NEW m \in Masks, NEW g \in Used(d), GroupSet(d, g, m)
      PROVE  IsolationInv'
  BY <1>2, AnswerStep, RewritesIsolates DEF GroupSet, Used
<1>3. ASSUME NEW d \in Devices, NEW g \in Used(d), GroupClear(d, g)
      PROVE  IsolationInv'
  BY <1>3, AnswerStep, RewritesIsolates DEF GroupClear, Used
<1>4. ASSUME Hold PROVE IsolationInv'
  BY <1>4, HoldIsolates
<1>5. ASSUME Write PROVE IsolationInv'
  BY <1>5, WriteIsolates
<1>6. ASSUME Release PROVE IsolationInv'
  BY <1>6, ReleaseIsolates
<1>7. ASSUME NEW d \in Devices, Recreate(d) PROVE IsolationInv'
  BY <1>7, RecreateIsolates
<1>8. CASE UNCHANGED vars
  <2>1. UNCHANGED <<pti_group_port, filter, pc, dev, op, port, group, mask, todo, told, reopened, loose>>
    BY <1>8 DEF vars, chip, call, history
  <2>2. GroupIsolated' /\ Overruled'
    BY <2>1 DEF IsolationInv, GroupIsolated, Settled, Overruled, With
  <2>3. Taking' /\ Adding'
    BY <2>1 DEF IsolationInv, Taking, Adding
  <2>. QED  BY <2>1, <2>2, <2>3 DEF IsolationInv
<1>. QED  BY <1>1, <1>2, <1>3, <1>4, <1>5, <1>6, <1>7, <1>8 DEF Next

(* A group whose set was answered OK isolates its ports, whatever is done to *)
(* groups that share ports with it or on other devices, at every step of     *)
(* every call and wherever calls were cut off: but for the pairs that another *)
(* group's clear took out, and sets answered without an access.              *)
THEOREM Isolation == Spec => []GroupIsolated
<1>1. Init => IsolationInv
  <2>. SUFFICES ASSUME Init PROVE IsolationInv
    OBVIOUS
  <2>1. TypeOK
    BY DEF Init, TypeOK
  <2>2. GroupIsolated
    BY DEF Init, GroupIsolated, Pairs
  <2>. QED  BY <2>1, <2>2 DEF Init, IsolationInv, Overruled, Taking, Adding
<1>2. IsolationInv => GroupIsolated
  BY DEF IsolationInv
<1>. QED  BY <1>1, <1>2, IsolationPreserved, Typing, PTL DEF Spec
-----------------------------------------------------------------------------
(* What keeps ports apart                                                   *)

(* A client uses a group on one device: the masks are noted in one array for *)
(* all of them, so that a clear on one device forgets what another has.      *)
OneDeviceEach == \A d, e \in Devices, g \in Groups : <<d, g>> \in Uses /\ <<e, g>> \in Uses => d = e

\* the pairs that something but group g accounts for
Others(d, g) == single[d] \union UNION {Pairs(pti_group_port[h]) : h \in Used(d) \ {g}}

ByPort ==
  /\ op = "dst" => /\ mask \X {port} \subseteq single[dev]
                   /\ pc = "write" => todo \subseteq {port}
  /\ op = "src" => {port} \X mask \subseteq single[dev]

\* what is left of the noted mask while it is cleared
Clearing ==
  /\ op \in {"clear", "change"} /\ pc = "write" =>
       /\ todo \subseteq pti_group_port[group]
       /\ \A e \in filter[dev] : e \in Others(dev, group) \/ e[2] \in todo
  /\ op = "change" /\ pc = "release" => pti_group_port[group] = {}

\* a set notes its mask where none was noted
Setting ==
  /\ op = "set" /\ pc = "hold" => pti_group_port[group] = {}
  /\ op = "set" /\ pc = "write" => pti_group_port[group] = mask /\ todo \subseteq mask

KnownInv == TypeOK /\ (pc = "idle" <=> op = "none") /\ PairsKnown /\ ByPort /\ Clearing /\ Setting

LEMMA KnownEnds ==
  ASSUME KnownInv, TypeOK', CallEnds, PairsKnown'
  PROVE  KnownInv'
  BY DEF CallEnds, KnownInv, ByPort, Clearing, Setting

LEMMA KnownBegins ==
  ASSUME KnownInv, TypeOK', NEW d \in Devices, NEW what \in {"dst", "src", "set", "change", "clear"},
         NEW p, NEW g, NEW m, Begins(d, what, p, g, m),
         \A c \in Devices : single[c] \subseteq single'[c],
         what = "dst" => m \X {p} \subseteq single'[d],
         what = "src" => {p} \X m \subseteq single'[d],
         what = "set" => pti_group_port[g] = {}
  PROVE  KnownInv'
<1>1. /\ pc = "idle" /\ pc' = "hold" /\ dev' = d /\ op' = what /\ port' = p /\ group' = g /\ mask' = m
      /\ UNCHANGED <<pti_group_port, filter, todo>>
  BY DEF Begins, chip
<1>2. PairsKnown'
  BY <1>1 DEF KnownInv, PairsKnown, Used
<1>3. ByPort' /\ Clearing' /\ Setting'
  BY <1>1 DEF ByPort, Clearing, Setting
<1>. QED  BY <1>1, <1>2, <1>3 DEF KnownInv

LEMMA KnownHold == ASSUME OneDeviceEach, KnownInv, TypeOK', Hold PROVE KnownInv'
<1>1. pc = "hold" /\ dev \in Devices /\ op # "none" /\ UNCHANGED filter
  BY DEF Hold, KnownInv, TypeOK
<1>2. CASE CallFails /\ UNCHANGED pti_group_port
  <2>1. PairsKnown'
    BY <1>1, <1>2 DEF KnownInv, PairsKnown, Used, CallFails
  <2>. QED  BY <1>2, <2>1, KnownEnds DEF CallFails
<1>3. CASE ~ (CallFails /\ UNCHANGED pti_group_port)
  <2>1. /\ todo' = Concerned /\ pc' = (IF Concerned = {} THEN "release" ELSE "write")
        /\ pti_group_port' = (IF op = "set" THEN [pti_group_port EXCEPT ![group] = mask]
                              ELSE pti_group_port)
        /\ UNCHANGED <<dev, op, port, group, mask, single, filter>>
    BY <1>1, <1>3 DEF Hold, history
  <2>2. CASE op = "set"
    <3>1. group \in Used(dev) /\ pti_group_port[group] = {} /\ Pairs({}) = {}
      BY <1>1, <2>2 DEF KnownInv, Setting, TypeOK, Used, Pairs
    <3>2. /\ \A h \in Groups : pti_group_port'[h] = IF h = group THEN mask ELSE pti_group_port[h]
          /\ todo' = mask /\ pc' = (IF mask = {} THEN "release" ELSE "write")
      BY <2>1, <2>2 DEF KnownInv, TypeOK, Concerned
    <3>3. PairsKnown'
      <4>. SUFFICES ASSUME NEW d \in Devices, NEW e \in filter[d], e \notin single[d]
                    PROVE  \E g \in Used(d) : e \in Pairs(pti_group_port'[g])
        BY <2>1 DEF PairsKnown, Used
      <4>1. PICK g \in Used(d) : e \in Pairs(pti_group_port[g])
        BY DEF KnownInv, PairsKnown
      <4>2. g # group /\ g \in Groups
        BY <3>1, <4>1 DEF Used
      <4>. QED  BY <3>2, <4>1, <4>2
    <3>4. pti_group_port'[group] = mask
      BY <3>1, <3>2 DEF Used
    <3>5. ByPort' /\ Clearing' /\ Setting'
      BY <2>1, <2>2, <3>2, <3>4 DEF ByPort, Clearing, Setting
    <3>. QED  BY <1>1, <2>1, <2>2, <3>2, <3>3, <3>5 DEF KnownInv
  <2>3. CASE op # "set"
    <3>1. pti_group_port' = pti_group_port /\ pc' \in {"write", "release"}
      BY <2>1, <2>3
    <3>2. PairsKnown'
      BY <2>1, <3>1 DEF KnownInv, PairsKnown, Used
    <3>3. ByPort' /\ Setting'
      BY <2>1, <2>3, <3>1 DEF KnownInv, ByPort, Setting, Concerned
    <3>4. Clearing'
      <4>. SUFFICES ASSUME op \in {"clear", "change"}
                    PROVE  /\ todo' \subseteq pti_group_port[group]
                           /\ \A e \in filter[dev] : e \in Others(dev, group) \/ e[2] \in todo'
                           /\ Concerned = {} => pti_group_port[group] = {}
        BY <2>1, <3>1 DEF KnownInv, Clearing, Others, Used
      <4>1. Concerned = pti_group_port[group]
        BY DEF Concerned
      <4>2. ASSUME NEW e \in filter[dev], e \notin Others(dev, group)
            PROVE  e[2] \in pti_group_port[group]
        <5>1. e \in Pairs(pti_group_port[group])
          BY <1>1, <4>2 DEF KnownInv, PairsKnown, Others
        <5>. QED  BY <5>1 DEF Pairs
      <4>. QED  BY <2>1, <4>1, <4>2
    <3>. QED  BY <1>1, <2>1, <3>1, <3>2, <3>3, <3>4 DEF KnownInv
  <2>. QED  BY <2>2, <2>3
<1>. QED  BY <1>2, <1>3

\* What the write of a port leaves barred has an account.
LEMMA WriteKnown ==
  ASSUME KnownInv, pc = "write", NEW p \in todo
  PROVE  /\ \A e \in Barred(p) : e \in filter[dev] \/ e \in single[dev]
                                 \/ (op = "set" /\ e \in Pairs(mask))
         /\ op \in {"clear", "change"} =>
              \A e \in Barred(p) : e \in Others(dev, group) \/ e[2] \in todo \ {p}
<1>1. dev \in Devices /\ op # "none"
  BY DEF KnownInv, TypeOK
<1>2. CASE op = "set"
  <2>1. p \in mask
    BY <1>2 DEF KnownInv, Setting
  <2>. QED  BY <1>2, <2>1, SetAdds
<1>3. CASE op \in {"clear", "change"}
  <2>1. p \in pti_group_port[group]
    BY <1>3 DEF KnownInv, Clearing
  <2>2. \A e : e \in Barred(p) <=>
           e \in filter[dev] /\ ~ (e \in Pairs(pti_group_port[group]) /\ e[2] = p)
    BY <1>3, <2>1, ClearTakes
  <2>3. ASSUME NEW e \in Barred(p), e \notin Others(dev, group) PROVE e[2] \in todo \ {p}
    <3>1. e \in filter[dev] /\ e[2] \in todo
      BY <1>3, <2>2, <2>3 DEF KnownInv, Clearing
    <3>2. e \in Pairs(pti_group_port[group])
      BY <1>1, <2>3, <3>1 DEF KnownInv, PairsKnown, Others
    <3>. QED  BY <2>2, <3>1, <3>2
  <2>. QED  BY <1>3, <2>2, <2>3
<1>4. CASE op = "dst"
  <2>1. p = port /\ mask \X {port} \subseteq single[dev]
    BY <1>4 DEF KnownInv, ByPort
  <2>2. Barred(p) = {e \in filter[dev] : e[2] # p} \union (mask \X {p})
    BY <1>4 DEF Barred
  <2>. QED  BY <1>4, <2>1, <2>2
<1>5. CASE op = "src"
  <2>1. {port} \X mask \subseteq single[dev]
    BY <1>5 DEF KnownInv, ByPort
  <2>2. Barred(p) = (filter[dev] \ {<<port, p>>})
                      \union (({port} \X mask) \intersect {<<port, p>>})
    BY <1>5 DEF Barred
  <2>. QED  BY <1>5, <2>1, <2>2
<1>. QED  BY <1>1, <1>2, <1>3, <1>4, <1>5 DEF KnownInv, TypeOK

LEMMA KnownWrite == ASSUME OneDeviceEach, KnownInv, TypeOK', Write PROVE KnownInv'
<1>1. pc = "write" /\ dev \in Devices /\ op # "none"
  BY DEF Write, KnownInv, TypeOK
<1>2. PICK p \in todo :
        \/ /\ filter' = [filter EXCEPT ![dev] = Barred(p)] /\ todo' = todo \ {p}
           /\ pc' = (IF todo = {p} THEN "release" ELSE "write")
           /\ pti_group_port' = (IF todo = {p} /\ op \in {"clear", "change"}
                                 THEN [pti_group_port EXCEPT ![group] = {}]
                                 ELSE pti_group_port)
           /\ UNCHANGED <<dev, op, port, group, mask, history>>
        \/ /\ filter' \in {filter, [filter EXCEPT ![dev] = Barred(p)]} /\ CallFails
           /\ UNCHANGED pti_group_port
  BY DEF Write
<1>3. \A d \in Devices : filter'[d] \in {filter[d], IF d = dev THEN Barred(p) ELSE filter[d]}
  BY <1>1, <1>2 DEF KnownInv, TypeOK
<1>4. /\ \A e \in Barred(p) : e \in filter[dev] \/ e \in single[dev]
                              \/ (op = "set" /\ e \in Pairs(mask))
      /\ op \in {"clear", "change"} =>
           \A e \in Barred(p) : e \in Others(dev, group) \/ e[2] \in todo \ {p}
  BY <1>1, WriteKnown
<1>5. op = "set" => group \in Used(dev) /\ pti_group_port[group] = mask
  BY <1>1 DEF KnownInv, Setting, TypeOK, Used
<1>6. \A d \in Devices : \A e \in filter'[d] :
        e \in single[d] \/ \E g \in Used(d) : e \in Pairs(pti_group_port[g])
  BY <1>3, <1>4, <1>5 DEF KnownInv, PairsKnown
<1>7. CASE CallFails /\ UNCHANGED pti_group_port
  <2>1. PairsKnown'
    BY <1>6, <1>7 DEF PairsKnown, Used, CallFails
  <2>. QED  BY <1>7, <2>1, KnownEnds DEF CallFails
<1>8. CASE ~ (CallFails /\ UNCHANGED pti_group_port)
  <2>1. /\ filter' = [filter EXCEPT ![dev] = Barred(p)] /\ todo' = todo \ {p}
        /\ pc' = (IF todo = {p} THEN "release" ELSE "write")
        /\ pti_group_port' = (IF todo = {p} /\ op \in {"clear", "change"}
                              THEN [pti_group_port EXCEPT ![group] = {}]
                              ELSE pti_group_port)
        /\ UNCHANGED <<dev, op, port, group, mask, single>>
    BY <1>2, <1>8 DEF history
  <2>2. \A d \in Devices : filter'[d] = IF d = dev THEN Barred(p) ELSE filter[d]
    BY <2>1 DEF KnownInv, TypeOK
  <2>3. \A g \in Groups \ {group} : pti_group_port'[g] = pti_group_port[g]
    BY <2>1 DEF KnownInv, TypeOK
  <2>4. pti_group_port' # pti_group_port =>
          todo = {p} /\ op \in {"clear", "change"} /\ group \in Used(dev)
    BY <1>1, <2>1 DEF KnownInv, TypeOK, Used
  <2>5. PairsKnown'
    <3>0. single' = single
      BY <2>1
    <3>. SUFFICES ASSUME NEW d \in Devices, NEW e \in filter'[d], e \notin single[d]
                  PROVE  \E g \in Used(d) : e \in Pairs(pti_group_port'[g])
      BY <3>0 DEF PairsKnown, Used
    <3>1. CASE pti_group_port' = pti_group_port
      BY <1>6, <3>1
    <3>2. CASE pti_group_port' # pti_group_port
      <4>. SUFFICES \E g \in Used(d) \ {group} : e \in Pairs(pti_group_port[g])
        BY <2>3 DEF Used
      <4>1. CASE d = dev
        BY <1>4, <2>2, <2>4, <3>2, <4>1 DEF Others
      <4>2. CASE d # dev
        <5>1. group \notin Used(d)
          BY <1>1, <2>4, <3>2, <4>2 DEF OneDeviceEach, Used
        <5>. QED  BY <1>6, <5>1
      <4>. QED  BY <4>1, <4>2
    <3>. QED  BY <3>1, <3>2
  <2>6. ByPort'
    BY <1>1, <2>1 DEF KnownInv, ByPort
  <2>7. Clearing'
    <3>. SUFFICES ASSUME op \in {"clear", "change"}
                  PROVE  /\ todo # {p} => /\ todo \ {p} \subseteq pti_group_port[group]
                                          /\ \A e \in Barred(p) : e \in Others(dev, group)
                                                                  \/ e[2] \in todo \ {p}
                         /\ todo = {p} => pti_group_port'[group] = {}
      <4>1. /\ UNCHANGED <<dev, op, group, single>> /\ todo' = todo \ {p}
            /\ pc' = (IF todo = {p} THEN "release" ELSE "write")
            /\ todo # {p} => pti_group_port' = pti_group_port
        BY <2>1
      <4>2. filter'[dev] = Barred(p)
        BY <1>1, <2>2
      <4>. QED  BY <4>1, <4>2 DEF Clearing, Others, Used
    <3>1. group \in Groups
      BY DEF KnownInv, TypeOK
    <3>2. todo = {p} => pti_group_port'[group] = {}
      BY <2>1, <3>1 DEF KnownInv, TypeOK
    <3>3. todo \subseteq pti_group_port[group]
      BY <1>1 DEF KnownInv, Clearing
    <3>. QED  BY <1>4, <3>2, <3>3
  <2>8. Setting'
    BY <1>1, <2>1 DEF KnownInv, Setting
  <2>. QED  BY <1>1, <2>1, <2>5, <2>6, <2>7, <2>8 DEF KnownInv
<1>. QED  BY <1>7, <1>8

LEMMA KnownPreserved ==
  ASSUME OneDeviceEach
  PROVE  TypeOK' /\ KnownInv /\ [Next]_vars => KnownInv'
<1>. SUFFICES ASSUME TypeOK', KnownInv, [Next]_vars PROVE KnownInv'
  OBVIOUS
<1>1. ASSUME NEW d \in Devices, NEW p \in SinglePorts, NEW m \in SingleMasks,
             DstSet(d, p, m) \/ SrcSet(d, p, m)
      PROVE  KnownInv'
  <2>1. CASE DstSet(d, p, m)
    <3>1. single' = [single EXCEPT ![d] = @ \union (m \X {p})]
      BY <2>1 DEF DstSet
    <3>2. /\ \A c \in Devices : single[c] \subseteq single'[c]
          /\ m \X {p} \subseteq single'[d]
      BY <3>1 DEF KnownInv, TypeOK
    <3>. QED  BY <2>1, <3>2, KnownBegins DEF DstSet
  <2>2. CASE SrcSet(d, p, m)
    <3>1. single' = [single EXCEPT ![d] = @ \union ({p} \X m)]
      BY <2>2 DEF SrcSet
    <3>2. /\ \A c \in Devices : single[c] \subseteq single'[c]
          /\ {p} \X m \subseteq single'[d]
      BY <3>1 DEF KnownInv, TypeOK
    <3>. QED  BY <2>2, <3>2, KnownBegins DEF SrcSet
  <2>. QED  BY <1>1, <2>1, <2>2
<1>2. ASSUME NEW d \in Devices, NEW g \in Groups, NEW m, AnswersOk(d, g, m)
      PROVE  KnownInv'
  <2>1. UNCHANGED <<pti_group_port, filter, pc, dev, op, port, group, mask, todo, single>>
    BY <1>2 DEF AnswersOk, chip, call
  <2>2. PairsKnown' /\ ByPort'
    BY <2>1 DEF KnownInv, PairsKnown, Used, ByPort
  <2>3. Clearing' /\ Setting'
    BY <2>1 DEF KnownInv, Clearing, Setting, Others, Used
  <2>. QED  BY <2>1, <2>2, <2>3 DEF KnownInv
<1>3. ASSUME NEW d \in Devices, NEW g \in Groups, NEW m, NEW what \in {"set", "change", "clear"},
             what = "set" => pti_group_port[g] = {}, Rewrites(d, what, g, m)
      PROVE  KnownInv'
  BY <1>3, KnownBegins DEF Rewrites
<1>4. ASSUME NEW d \in Devices, NEW m \in Masks, NEW g \in Used(d), GroupSet(d, g, m)
      PROVE  KnownInv'
  BY <1>2, <1>3, <1>4 DEF GroupSet, Used
<1>5. ASSUME NEW d \in Devices, NEW g \in Used(d), GroupClear(d, g)
      PROVE  KnownInv'
  BY <1>2, <1>3, <1>5 DEF GroupClear, Used
<1>6. ASSUME Hold PROVE KnownInv'
  BY <1>6, KnownHold
<1>7. ASSUME Write PROVE KnownInv'
  BY <1>7, KnownWrite
<1>8. ASSUME Release PROVE KnownInv'
  <2>1. /\ pc = "release" /\ UNCHANGED <<pti_group_port, filter, single>>
        /\ \/ CallEnds
           \/ op = "change" /\ op' = "set" /\ pc' = "hold" /\ group' = group
    BY <1>8 DEF Release, CallFails
  <2>2. PairsKnown'
    BY <2>1 DEF KnownInv, PairsKnown, Used
  <2>3. CASE CallEnds
    BY <2>2, <2>3, KnownEnds
  <2>4. CASE op = "change" /\ op' = "set" /\ pc' = "hold" /\ group' = group
    <3>1. ByPort' /\ Clearing' /\ Setting'
      BY <2>1, <2>4 DEF KnownInv, ByPort, Clearing, Setting
    <3>. QED  BY <2>2, <2>4, <3>1 DEF KnownInv
  <2>. QED  BY <2>1, <2>3, <2>4
<1>9. ASSUME NEW d \in Devices, Recreate(d) PROVE KnownInv'
  <2>1. /\ pc = "idle" /\ op = "none"
        /\ UNCHANGED <<pti_group_port, pc, dev, op, port, group, mask, todo>>
    BY <1>9 DEF Recreate, call, KnownInv
  <2>2. \A c \in Devices : /\ filter'[c] = IF c = d THEN {} ELSE filter[c]
                           /\ single'[c] = IF c = d THEN {} ELSE single[c]
    BY <1>9 DEF Recreate, KnownInv, TypeOK
  <2>3. PairsKnown'
    BY <2>1, <2>2 DEF KnownInv, PairsKnown, Used
  <2>4. ByPort' /\ Clearing' /\ Setting'
    BY <2>1 DEF ByPort, Clearing, Setting
  <2>. QED  BY <2>1, <2>3, <2>4 DEF KnownInv
<1>10. CASE UNCHANGED vars
  <2>1. UNCHANGED <<pti_group_port, filter, pc, dev, op, port, group, mask, todo, single>>
    BY <1>10 DEF vars, chip, call, history
  <2>2. PairsKnown' /\ ByPort'
    BY <2>1 DEF KnownInv, PairsKnown, Used, ByPort
  <2>3. Clearing' /\ Setting'
    BY <2>1 DEF KnownInv, Clearing, Setting, Others, Used
  <2>. QED  BY <2>1, <2>2, <2>3 DEF KnownInv
<1>. QED  BY <1>1, <1>4, <1>5, <1>6, <1>7, <1>8, <1>9, <1>10 DEF Next

(* Where every group is used on one device, no two ports are kept apart that *)
(* neither a noted mask nor a call by port accounts for, at any step and     *)
(* wherever calls were cut off.                                              *)
THEOREM FilterAccounted == ASSUME OneDeviceEach PROVE Spec => []PairsKnown
<1>1. Init => KnownInv
  <2>. SUFFICES ASSUME Init PROVE KnownInv
    OBVIOUS
  <2>1. TypeOK
    BY DEF Init, TypeOK
  <2>. QED  BY <2>1 DEF Init, KnownInv, PairsKnown, Used, ByPort, Clearing, Setting
<1>2. TypeOK' /\ KnownInv /\ [Next]_vars => KnownInv'
  BY KnownPreserved
<1>3. KnownInv => PairsKnown
  BY DEF KnownInv
<1>. QED  BY <1>1, <1>2, <1>3, Typing, PTL DEF Spec
=============================================================================
