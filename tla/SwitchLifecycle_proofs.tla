----------------------- MODULE SwitchLifecycle_proofs -----------------------
(***************************************************************************)
(* Theorems about SwitchLifecycle: type correctness, the soundness of the  *)
(* operations table under every failure, and that a READY module serves    *)
(* every device it shows as long as the bus is always released.            *)
(***************************************************************************)
EXTENDS SwitchLifecycle, FiniteSetTheorems, TLAPS

(* The operators on a device record yield device records.                  *)
LEMMA DeviceOperators ==
  ASSUME NEW rec \in Device
  PROVE  /\ Zeroed \in Device
         /\ IoOpened(rec) \in Device
         /\ IoClosed(rec) \in Device
         /\ ProbedDevice(rec) \in Device
         /\ ReleasedDevice(rec) \in Device
         /\ LeftBehind(rec) \subseteq Device
BY DriversAssumption DEF Device, Zeroed, IoOpened, IoClosed, ProbedDevice,
   ReleasedDevice, LeftBehind, Stats

(* What the parts of a probe and of a removal do to the variables they own. *)
LEMMA ProbeTypes ==
  ASSUME TypeOK, NEW c \in Chips, NEW d \in Drivers, NEW rec \in Device,
         NEW left \in Device,
         ProbeSucceeds(c, d, rec) \/ ProbeFails(c, d, rec, left)
  PROVE  /\ bus' \in SUBSET Chips
         /\ tables' \in [Chips -> SUBSET Tables]
         /\ ops' \in SUBSET Drivers
         /\ ref' \in [Drivers -> 0 .. RefMod - 1]
<1>1. CASE ProbeSucceeds(c, d, rec)
  BY <1>1, BoundsAssumption DEF TypeOK, ProbeSucceeds, BusInit, Tables
<1>2. CASE ProbeFails(c, d, rec, left)
  <2>1. AllocatedBefore \in [Tables -> SUBSET Tables]
    BY DEF AllocatedBefore, Tables
  <2>2. ref' \in [Drivers -> 0 .. RefMod - 1]
    BY <1>2 DEF TypeOK, ProbeFails
  <2>3. bus' \in SUBSET Chips
    BY <1>2 DEF TypeOK, ProbeFails, ProbeWithoutOps, ProbeWithoutIo, ProbeWithoutCore, BusInit, DeadBus
  <2>4. ops' \in SUBSET Drivers
    BY <1>2 DEF TypeOK, ProbeFails, ProbeWithoutOps, ProbeWithoutIo, ProbeWithoutCore
  <2>5. tables' \in [Chips -> SUBSET Tables]
    <3>1. CASE UNCHANGED tables
      BY <3>1 DEF TypeOK
    <3>2. CASE CoreInitFails(c)
      BY <2>1, <3>2 DEF TypeOK, CoreInitFails
    <3>. QED  BY <1>2, <3>1, <3>2 DEF ProbeFails, ProbeWithoutOps, ProbeWithoutIo, ProbeWithoutCore
  <2>. QED  BY <2>2, <2>3, <2>4, <2>5
<1>. QED  BY <1>1, <1>2

LEMMA RemoveTypes ==
  ASSUME TypeOK, NEW c \in Chips, NEW d \in Drivers, TablesFreed(c),
         WatchdogFails(c) \/ \E ret \in Rets : Released(c, d, ret)
  PROVE  /\ bus' \in SUBSET Chips
         /\ tables' \in [Chips -> SUBSET Tables]
         /\ ops' \in SUBSET Drivers
         /\ ref' \in [Drivers -> 0 .. RefMod - 1]
BY BoundsAssumption DEF TypeOK, TablesFreed, WatchdogFails, Released, BusDeinit, Dec

LEMMA TypeInvariant == TypeOK /\ [Next]_vars => TypeOK'
<1>. SUFFICES ASSUME TypeOK, [Next]_vars PROVE TypeOK'
  OBVIOUS
<1>. USE DriversAssumption
<1>1. CASE SwitchInit
  <2>1. num' \in 0 .. MaxChipNum
    BY <1>1 DEF TypeOK, SwitchInit
  <2>2. job' \in [kind : {"idle", "init", "deinit"}, todo : SUBSET Chips, ret : Rets]
    BY <1>1 DEF TypeOK, SwitchInit, Ordered, Rets
  <2>3. last' \in [call : Calls, chip : Chips \cup {NoChip}, ret : Rets]
    BY <1>1 DEF TypeOK, SwitchInit, Returned, Calls, Rets
  <2>. QED  BY <1>1, <2>1, <2>2, <2>3 DEF TypeOK, SwitchInit
<1>2. CASE InitEnds
  BY <1>2 DEF TypeOK, InitEnds, Returned, Idle, Stats, Calls, Rets
<1>3. CASE SwitchDeinit
  BY <1>3 DEF TypeOK, SwitchDeinit, Returned, Calls, Rets
<1>4. CASE DeinitEnds
  BY <1>4 DEF TypeOK, DeinitEnds, Returned, Idle, Stats, Calls, Rets
<1>5. ASSUME NEW c \in job.todo, InitProbes(c)
      PROVE  TypeOK'
  <2>. DEFINE d   == dev[c].compat
              rec == [dev[c] EXCEPT !.driver = d]
  <2>1. c \in Chips /\ d \in Drivers /\ rec \in Device
    BY <1>5 DEF TypeOK, Device, InitProbes, NextInLine, Unmatched
  <2>2. PICK left \in Device : /\ ProbeSucceeds(c, d, rec) \/ ProbeFails(c, d, rec, left)
                               /\ dev' = [dev EXCEPT ![c] = left]
    BY <1>5, <2>1, DeviceOperators DEF InitProbes
  <2>3. job' \in [kind : {"idle", "init", "deinit"}, todo : SUBSET Chips, ret : Rets]
    BY <1>5 DEF TypeOK, InitProbes, Idle, Rets
  <2>4. last' \in [call : Calls, chip : Chips \cup {NoChip}, ret : Rets]
    BY <1>5 DEF TypeOK, InitProbes, Returned, Calls, Rets
  <2>. QED  BY <1>5, <2>1, <2>2, <2>3, <2>4, ProbeTypes DEF TypeOK, InitProbes
<1>6. ASSUME NEW c \in job.todo, DeinitRemoves(c)
      PROVE  TypeOK'
  <2>1. c \in Chips /\ dev[c].driver \in Drivers \cup {NoDriver} /\ Zeroed \in Device
    BY DeviceOperators DEF TypeOK, Device
  <2>2. job' \in [kind : {"idle", "init", "deinit"}, todo : SUBSET Chips, ret : Rets]
    BY <1>6 DEF TypeOK, DeinitRemoves, Rets
  <2>3. /\ bus' \in SUBSET Chips
        /\ tables' \in [Chips -> SUBSET Tables]
        /\ ops' \in SUBSET Drivers
        /\ ref' \in [Drivers -> 0 .. RefMod - 1]
    <3>1. CASE UNCHANGED <<bus, tables, ops, ref>>
      BY <3>1 DEF TypeOK
    <3>2. CASE dev[c].driver # NoDriver
      BY <1>6, <2>1, <3>2, RemoveTypes DEF DeinitRemoves
    <3>. QED  BY <1>6, <3>1, <3>2 DEF DeinitRemoves
  <2>. QED  BY <1>6, <2>1, <2>2, <2>3 DEF TypeOK, DeinitRemoves, Forget
<1>7. ASSUME NEW c \in Chips, NEW d \in Drivers \cup {NoDriver}, DeviceCreate(c, d)
      PROVE  TypeOK'
  <2>1. CASE Rejected("create", c)
    BY <2>1 DEF TypeOK, Rejected, Returned, Calls, Rets
  <2>2. CASE ~ (stat # "READY" \/ d = NoDriver \/ c \in visible)
    <3>. DEFINE rec == [dev[c] EXCEPT !.compat = d, !.driver = d]
    <3>1. d \in Drivers /\ rec \in Device
      BY <2>2 DEF TypeOK, Device
    <3>2. \E left \in Device : ProbeSucceeds(c, d, rec) \/ ProbeFails(c, d, rec, left)
      BY <1>7, <2>2, <3>1, DeviceOperators DEF DeviceCreate
    <3>3. dev' \in [Chips -> Device]
      BY <1>7, <2>2, <3>1, DeviceOperators DEF DeviceCreate, TypeOK
    <3>4. visible' \in SUBSET Chips
      BY <1>7, <2>2 DEF DeviceCreate, TypeOK
    <3>5. last' \in [call : Calls, chip : Chips \cup {NoChip}, ret : Rets]
      BY <1>7, <2>2 DEF DeviceCreate, Returned, Calls, Rets
    <3>. QED  BY <1>7, <2>2, <3>1, <3>2, <3>3, <3>4, <3>5, ProbeTypes DEF DeviceCreate, TypeOK
  <2>. QED  BY <1>7, <2>1, <2>2 DEF DeviceCreate
<1>8. ASSUME NEW c \in Chips, DeviceDelete(c)
      PROVE  TypeOK'
  <2>1. CASE Rejected("delete", c)
    BY <2>1 DEF TypeOK, Rejected, Returned, Calls, Rets
  <2>2. CASE ~ (stat # "READY" \/ c \notin visible \/ dev[c].driver = NoDriver)
    <3>1. dev[c].driver \in Drivers /\ dev[c] \in Device /\ "OK" \in Rets /\ "ERR" \in Rets
      BY <2>2 DEF TypeOK, Device, Rets
    <3>2. TablesFreed(c) /\ (\/ WatchdogFails(c)
                             \/ \E ret \in Rets : Released(c, dev[c].driver, ret))
      BY <1>8, <2>2, <3>1 DEF DeviceDelete
    <3>3. dev' \in [Chips -> Device]
      BY <1>8, <2>2, <3>1, DeviceOperators DEF DeviceDelete, TypeOK, Forget
    <3>4. visible' \in SUBSET Chips
      BY <1>8, <2>2 DEF DeviceDelete, TypeOK, Forget
    <3>5. last' \in [call : Calls, chip : Chips \cup {NoChip}, ret : Rets]
      BY <1>8, <2>2 DEF DeviceDelete, Returned, Calls, Rets
    <3>. QED  BY <1>8, <2>2, <3>1, <3>2, <3>3, <3>4, <3>5, RemoveTypes DEF DeviceDelete, TypeOK
  <2>. QED  BY <1>8, <2>1, <2>2 DEF DeviceDelete
<1>9. ASSUME NEW c \in Chips, DeviceOpen(c) \/ DeviceClose(c)
      PROVE  TypeOK'
  <2>1. CASE Rejected("open", c) \/ Rejected("close", c)
    <3>1. last' \in [call : Calls, chip : Chips \cup {NoChip}, ret : Rets]
      BY <2>1 DEF Rejected, Returned, Calls, Rets
    <3>. QED  BY <2>1, <3>1 DEF TypeOK, Rejected
  <2>2. CASE ~ (stat # "READY" \/ c \notin visible)
    <3>1. dev[c] \in Device
      BY DEF TypeOK
    <3>2. dev' \in [Chips -> Device]
      BY <1>9, <2>2, <3>1, DeviceOperators DEF DeviceOpen, DeviceClose, TypeOK
    <3>3. bus' \in SUBSET Chips
      BY <1>9, <2>2 DEF DeviceOpen, DeviceClose, BusInit, BusDeinit, TypeOK
    <3>4. last' \in [call : Calls, chip : Chips \cup {NoChip}, ret : Rets]
      BY <1>9, <2>2 DEF DeviceOpen, DeviceClose, Returned, Calls, Rets
    <3>. QED  BY <1>9, <2>2, <3>2, <3>3, <3>4 DEF DeviceOpen, DeviceClose, TypeOK
  <2>. QED  BY <1>9, <2>1, <2>2 DEF DeviceOpen, DeviceClose
<1>10. ASSUME NEW s \in Stats, InitStateSet(s)
       PROVE  TypeOK'
  BY <1>10 DEF TypeOK, InitStateSet, Returned, Calls, Rets
<1>11. CASE UNCHANGED vars
  BY <1>11 DEF TypeOK, vars
<1>. QED
  BY <1>1, <1>2, <1>3, <1>4, <1>5, <1>6, <1>7, <1>8, <1>9, <1>10, <1>11 DEF Next

LEMMA InitialTypes == Init => TypeOK
<1>. SUFFICES ASSUME Init PROVE TypeOK
  OBVIOUS
<1>1. dev \in [Chips -> Device]
  BY StaticAssumption, DriversAssumption DEF Init, Device, Zeroed, Stats
<1>2. RefMod \in Nat /\ 0 \in 0 .. RefMod - 1
  BY BoundsAssumption
<1>. QED
  BY <1>1, <1>2, ChipsAssumption, StaticAssumption
     DEF Init, TypeOK, Idle, Stats, Calls, Rets, Tables

(* Every variable keeps its type, for any set of faults.                   *)
THEOREM TypeCorrect == Spec => []TypeOK
BY InitialTypes, TypeInvariant, PTL DEF Spec

-----------------------------------------------------------------------------
(* A step changes ops and ref of one driver in one of four ways.           *)

Registers(d)   == /\ ops' = IF ref[d] = 0 THEN ops \cup {d} ELSE ops
                  /\ ref' = [ref EXCEPT ![d] = @ + 1]
Unregisters(d) == /\ ops' = IF ref[d] = 0 THEN ops \ {d} ELSE ops
                  /\ ref' = ref
Releases(d)    == /\ ops' = IF ref[d] = 1 THEN ops \ {d} ELSE ops
                  /\ ref' = [ref EXCEPT ![d] = Dec(@)]

LEMMA DriverSteps ==
  ASSUME TypeOK, Next
  PROVE  \/ UNCHANGED <<ops, ref>>
         \/ \E d \in Drivers : Registers(d) \/ Unregisters(d) \/ Releases(d)
<1>1. ASSUME NEW c \in job.todo, InitProbes(c)
      PROVE  \E d \in Drivers : Registers(d) \/ Unregisters(d) \/ (ops' = ops /\ ref' = ref)
  <2>1. dev[c].compat \in Drivers
    BY <1>1 DEF InitProbes, NextInLine, Unmatched
  <2>. QED
    BY <1>1, <2>1 DEF InitProbes, ProbeSucceeds, ProbeFails, ProbeWithoutOps, ProbeWithoutIo,
       ProbeWithoutCore, Registers, Unregisters
<1>2. ASSUME NEW c \in job.todo, DeinitRemoves(c)
      PROVE  UNCHANGED <<ops, ref>> \/ \E d \in Drivers : Releases(d)
  <2>1. dev[c].driver \in Drivers \cup {NoDriver}
    BY DEF TypeOK, Device
  <2>. QED
    BY <1>2, <2>1 DEF DeinitRemoves, WatchdogFails, Released, Releases
<1>3. ASSUME NEW c \in Chips, NEW d \in Drivers \cup {NoDriver}, DeviceCreate(c, d)
      PROVE  UNCHANGED <<ops, ref>> \/ \E e \in Drivers : Registers(e) \/ Unregisters(e)
  BY <1>3 DEF DeviceCreate, Rejected, ProbeSucceeds, ProbeFails, ProbeWithoutOps,
     ProbeWithoutIo, ProbeWithoutCore, Registers, Unregisters
<1>4. ASSUME NEW c \in Chips, DeviceDelete(c)
      PROVE  UNCHANGED <<ops, ref>> \/ \E d \in Drivers : Releases(d)
  <2>1. dev[c].driver \in Drivers \cup {NoDriver}
    BY DEF TypeOK, Device
  <2>. QED
    BY <1>4, <2>1 DEF DeviceDelete, Rejected, WatchdogFails, Released, Releases
<1>5. ASSUME \/ SwitchInit \/ InitEnds \/ SwitchDeinit \/ DeinitEnds
             \/ \E c \in Chips : DeviceOpen(c) \/ DeviceClose(c)
             \/ \E s \in Stats : InitStateSet(s)
      PROVE  UNCHANGED <<ops, ref>>
  BY <1>5 DEF SwitchInit, InitEnds, SwitchDeinit, DeinitEnds, DeviceOpen, DeviceClose,
     Rejected, InitStateSet
<1>. QED  BY <1>1, <1>2, <1>3, <1>4, <1>5 DEF Next

LEMMA LeakFreeStep == TypeOK /\ OpsLeakFree /\ [Next]_vars => OpsLeakFree'
<1>. SUFFICES ASSUME TypeOK, OpsLeakFree, [Next]_vars PROVE OpsLeakFree'
  OBVIOUS
<1>1. CASE UNCHANGED <<ops, ref>>
  BY <1>1 DEF OpsLeakFree
<1>2. ASSUME NEW d \in Drivers, Registers(d) \/ Unregisters(d) \/ Releases(d)
      PROVE  OpsLeakFree'
  BY <1>2, BoundsAssumption DEF TypeOK, OpsLeakFree, Registers, Unregisters, Releases, Dec
<1>. QED  BY <1>1, <1>2, DriverSteps DEF vars

(* Whatever fails, whatever the client calls and however often: a driver    *)
(* whose ref_count is 0 has no operations table, so __ops_regist never      *)
(* drops the pointer to one that is allocated.                              *)
THEOREM OperationsNeverLeak == Spec => []OpsLeakFree
<1>1. Init => OpsLeakFree
  BY DEF Init, OpsLeakFree
<1>. QED  BY <1>1, LeakFreeStep, TypeCorrect, PTL DEF Spec

-----------------------------------------------------------------------------
LEMMA HoldersFinite ==
  ASSUME TypeOK, NEW d \in Drivers
  PROVE  IsFiniteSet(Holders(d)) /\ Cardinality(Holders(d)) \in Nat
<1>1. IsFiniteSet(Chips)
  <2>1. IsFiniteSet(0 .. MaxChipNum - 1)
    BY ChipsAssumption, FS_Interval
  <2>. QED  BY <2>1, ChipsAssumption, FS_Subset
<1>2. Holders(d) \subseteq Chips
  BY DEF TypeOK, Holders
<1>. QED  BY <1>1, <1>2, FS_Subset, FS_CardinalityType

LEMMA ServingImplies == Serving => DevicesServable
<1>. SUFFICES ASSUME Serving, stat = "READY", NEW c \in visible PROVE Servable(c)
  BY DEF DevicesServable
<1>. DEFINE d == dev[c].driver
<1>1. Probed(c) /\ d \in Drivers /\ c \in Chips
  BY DEF Serving, ReadyProbed, MatchedVisible, Probed, TypeOK
<1>2. c \in Holders(d)
  BY <1>1 DEF Holders, Probed
<1>3. IsFiniteSet(Holders(d)) /\ Cardinality(Holders(d)) \in Nat
  BY <1>1, HoldersFinite DEF Serving
<1>4. Cardinality(Holders(d)) # 0
  BY <1>2, <1>3, FS_EmptySet
<1>5. ref[d] # 0
  BY <1>1, <1>3, <1>4 DEF Serving, RefCoversHolders, TypeOK
<1>. QED  BY <1>1, <1>5, DriversAssumption DEF Serving, OpsWhileReferenced, Servable, Probed

(* How one step may move references and holders together.                  *)

NoNewHolders(D) == \A d \in D : Holders(d)' \subseteq Holders(d)

Gains(d, c)  == /\ Registers(d)
                /\ Holders(d)' \subseteq Holders(d) \cup {c}
                /\ NoNewHolders(Drivers \ {d})
Loses(d, c)  == /\ Releases(d) /\ c \in Holders(d)
                /\ Holders(d)' \subseteq Holders(d) \ {c}
                /\ NoNewHolders(Drivers)
Keeps        == /\ NoNewHolders(Drivers)
                /\ UNCHANGED <<ops, ref>> \/ \E d \in Drivers : Unregisters(d)

LEMMA CountingPreserved ==
  ASSUME TypeOK, OpsLeakFree, OpsWhileReferenced, RefCoversHolders, TypeOK',
         \/ Keeps
         \/ \E d \in Drivers, c \in Chips : Gains(d, c) \/ Loses(d, c)
  PROVE  OpsWhileReferenced' /\ RefCoversHolders'
<1>1. \A d \in Drivers : IsFiniteSet(Holders(d)) /\ Cardinality(Holders(d)) \in Nat
  BY HoldersFinite
<1>2. ASSUME NEW e \in Drivers, Holders(e)' \subseteq Holders(e)
      PROVE  /\ Cardinality(Holders(e)') <= Cardinality(Holders(e))
             /\ Cardinality(Holders(e)') \in Nat
  BY <1>1, <1>2, FS_Subset, FS_CardinalityType
<1>3. CASE Keeps
  <2>1. OpsWhileReferenced'
    BY <1>3 DEF Keeps, OpsWhileReferenced, Unregisters
  <2>2. RefCoversHolders'
    <3>1. ref' = ref
      BY <1>3 DEF Keeps, Unregisters
    <3>2. SUFFICES ASSUME NEW e \in Drivers PROVE Cardinality(Holders(e)') <= ref[e]
      BY <3>1 DEF RefCoversHolders
    <3>3. Holders(e)' \subseteq Holders(e)
      BY <1>3 DEF Keeps, NoNewHolders
    <3>4. Cardinality(Holders(e)) <= ref[e] /\ ref[e] \in Int
      BY BoundsAssumption DEF RefCoversHolders, TypeOK
    <3>. QED  BY <1>1, <1>2, <3>3, <3>4
  <2>. QED  BY <2>1, <2>2
<1>4. ASSUME NEW d \in Drivers, NEW c \in Chips, Gains(d, c)
      PROVE  OpsWhileReferenced' /\ RefCoversHolders'
  <2>1. OpsWhileReferenced'
    BY <1>4, BoundsAssumption DEF Gains, Registers, OpsWhileReferenced, TypeOK
  <2>2. SUFFICES ASSUME NEW e \in Drivers PROVE Cardinality(Holders(e)') <= ref'[e]
    BY <2>1 DEF RefCoversHolders
  <2>3. Cardinality(Holders(e)) <= ref[e] /\ ref[e] \in Int
    BY BoundsAssumption DEF RefCoversHolders, TypeOK
  <2>4. CASE e # d
    <3>1. ref'[e] = ref[e] /\ Holders(e)' \subseteq Holders(e)
      BY <1>4, <2>4 DEF Gains, Registers, NoNewHolders, TypeOK
    <3>. QED  BY <1>1, <1>2, <2>3, <3>1
  <2>5. CASE e = d
    <3>1. ref'[d] = ref[d] + 1
      BY <1>4 DEF Gains, Registers, TypeOK
    <3>2. /\ IsFiniteSet(Holders(d) \cup {c})
          /\ Cardinality(Holders(d) \cup {c}) <= Cardinality(Holders(d)) + 1
          /\ Cardinality(Holders(d) \cup {c}) \in Nat
      <4>1. /\ IsFiniteSet(Holders(d) \cup {c})
            /\ Cardinality(Holders(d) \cup {c}) =
                 IF c \in Holders(d) THEN Cardinality(Holders(d)) ELSE Cardinality(Holders(d)) + 1
        BY <1>1, FS_AddElement
      <4>2. Cardinality(Holders(d)) \in Nat
        BY <1>1
      <4>. QED  BY <4>1, <4>2
    <3>3. Cardinality(Holders(d)') <= Cardinality(Holders(d) \cup {c})
      BY <1>4, <3>2, FS_Subset DEF Gains
    <3>4. Cardinality(Holders(d)') \in Nat
      BY <1>4, <3>2, FS_Subset, FS_CardinalityType DEF Gains
    <3>. QED  BY <1>1, <2>3, <2>5, <3>1, <3>2, <3>3, <3>4
  <2>. QED  BY <2>4, <2>5
<1>5. ASSUME NEW d \in Drivers, NEW c \in Chips, Loses(d, c)
      PROVE  OpsWhileReferenced' /\ RefCoversHolders'
  <2>1. /\ Cardinality(Holders(d) \ {c}) = Cardinality(Holders(d)) - 1
        /\ IsFiniteSet(Holders(d) \ {c})
    BY <1>1, <1>5, FS_RemoveElement DEF Loses
  <2>2. /\ Cardinality(Holders(d)') <= Cardinality(Holders(d)) - 1
        /\ Cardinality(Holders(d)') \in Nat
    BY <1>5, <2>1, FS_Subset, FS_CardinalityType DEF Loses
  <2>3. Cardinality(Holders(d)) <= ref[d] /\ ref[d] \in Int
    BY BoundsAssumption DEF RefCoversHolders, TypeOK
  <2>4. ref[d] # 0 /\ ref' = [ref EXCEPT ![d] = ref[d] - 1]
    <3>1. Cardinality(Holders(d)) \in Nat
      BY <1>1
    <3>2. ref[d] # 0
      BY <2>2, <2>3, <3>1
    <3>. QED  BY <1>5, <3>2 DEF Loses, Releases, Dec
  <2>5. OpsWhileReferenced'
    BY <1>5, <2>3, <2>4 DEF Loses, Releases, OpsWhileReferenced, TypeOK
  <2>6. SUFFICES ASSUME NEW e \in Drivers PROVE Cardinality(Holders(e)') <= ref'[e]
    BY <2>5 DEF RefCoversHolders
  <2>7. CASE e # d
    <3>1. ref'[e] = ref[e] /\ Holders(e)' \subseteq Holders(e)
      BY <1>5, <2>4, <2>7 DEF Loses, NoNewHolders, TypeOK
    <3>2. Cardinality(Holders(e)) <= ref[e] /\ ref[e] \in Int
      BY BoundsAssumption DEF RefCoversHolders, TypeOK
    <3>. QED  BY <1>1, <1>2, <3>1, <3>2
  <2>8. CASE e = d
    <3>1. ref'[d] = ref[d] - 1
      BY <2>4 DEF TypeOK
    <3>. QED  BY <1>1, <2>2, <2>3, <2>8, <3>1
  <2>. QED  BY <2>7, <2>8
<1>. QED  BY <1>3, <1>4, <1>5

-----------------------------------------------------------------------------
(* The structural half of Serving, and how each action moves the references. *)

Structure == AbsentZeroed /\ MutexProbed /\ MatchedVisible /\ ReadyProbed /\ JobDiscipline
Moves     == \/ Keeps
             \/ \E d \in Drivers, c \in Chips : Gains(d, c) \/ Loses(d, c)

\* A step that keeps visible, every mutex and every driver keeps the holders.
LEMMA SameHolders ==
  ASSUME TypeOK, visible' \subseteq visible,
         \A c \in visible' : dev'[c].mutex = dev[c].mutex /\ dev'[c].driver = dev[c].driver
  PROVE  NoNewHolders(Drivers)
BY DEF NoNewHolders, Holders

LEMMA LoopSteps ==
  ASSUME Serving, WellUsed, SwitchInit \/ InitEnds \/ SwitchDeinit \/ DeinitEnds
  PROVE  Structure' /\ Moves
<1>1. Moves
  BY SameHolders DEF Moves, Keeps, Serving, SwitchInit, InitEnds, SwitchDeinit, DeinitEnds
<1>2. AbsentZeroed' /\ MutexProbed' /\ MatchedVisible'
  BY DEF Serving, SwitchInit, InitEnds, SwitchDeinit, DeinitEnds, AbsentZeroed, MutexProbed,
     MatchedVisible, Probed
<1>3. ReadyProbed'
  <2>1. CASE InitEnds
    <3>1. job.todo = {}
      BY <2>1 DEF Serving, InitEnds, Unmatched, MatchedVisible, JobDiscipline
    <3>. QED  BY <2>1, <3>1 DEF Serving, InitEnds, ReadyProbed, JobDiscipline, Probed
  <2>2. CASE ~ InitEnds
    <3>1. stat' = stat \/ stat' = "UNINIT"
      BY <2>2 DEF SwitchInit, SwitchDeinit, DeinitEnds
    <3>. QED
      BY <2>2, <3>1 DEF Serving, SwitchInit, SwitchDeinit, DeinitEnds, ReadyProbed, Probed
  <2>. QED  BY <2>1, <2>2
<1>4. JobDiscipline'
  <2>1. CASE SwitchInit /\ stat = "READY"
    BY <2>1 DEF Serving, SwitchInit, JobDiscipline, Probed
  <2>2. CASE SwitchInit /\ stat # "READY"
    <3>1. Ordered = visible /\ stat = "UNINIT"
      BY <2>2 DEF Serving, JobDiscipline, Ordered, TypeOK, Stats
    <3>2. /\ job' = [kind |-> "init", todo |-> visible, ret |-> "OK"]
          /\ visible' = visible /\ stat' = stat
          /\ \A c \in visible : c < num'
      BY <2>2, <3>1 DEF SwitchInit, DeviceNum
    <3>. QED  BY <3>1, <3>2 DEF JobDiscipline
  <2>3. CASE InitEnds
    BY <2>3 DEF InitEnds, JobDiscipline, Idle
  <2>4. CASE SwitchDeinit
    BY <2>4 DEF Serving, SwitchDeinit, JobDiscipline, TypeOK, Stats
  <2>5. CASE DeinitEnds
    BY <2>5 DEF Serving, DeinitEnds, JobDiscipline, Idle
  <2>. QED  BY <2>1, <2>2, <2>3, <2>4, <2>5
<1>. QED  BY <1>1, <1>2, <1>3, <1>4 DEF Structure

LEMMA InitProbesStep ==
  ASSUME Serving, WellUsed, NEW c \in job.todo, InitProbes(c)
  PROVE  Structure' /\ Moves
<1>. DEFINE d   == dev[c].compat
            rec == [dev[c] EXCEPT !.driver = d]
<1>1. /\ c \in visible /\ c \in Chips /\ d \in Drivers /\ dev[c] \in Device
      /\ job.kind = "init" /\ stat = "UNINIT" /\ d # NoDriver
  BY DriversAssumption
     DEF Serving, TypeOK, JobDiscipline, InitProbes, NextInLine, Unmatched
<1>2. rec \in Device /\ rec.compat = d /\ rec.driver = d /\ rec.mutex = dev[c].mutex
  BY <1>1 DEF Device
<1>3. PICK left \in Device :
        /\ dev' = [dev EXCEPT ![c] = left]
        /\ left.compat = d /\ left.driver = d
        /\ left.mutex => left.bound \/ ~ dev[c].mutex
        /\ dev[c].mutex => left.mutex
        /\ \/ /\ ProbeSucceeds(c, d, rec) /\ left.mutex /\ left.bound
              /\ job' = [job EXCEPT !.todo = @ \ {c}]
           \/ /\ \E l \in LeftBehind(rec) : ProbeFails(c, d, rec, l)
              /\ left.mutex = dev[c].mutex /\ (left.bound \/ left.bound = dev[c].bound)
              /\ job' = Idle
  <2>1. CASE /\ ProbeSucceeds(c, d, rec)
             /\ dev' = [dev EXCEPT ![c] = ProbedDevice(rec)]
             /\ job' = [job EXCEPT !.todo = @ \ {c}]
    <3>1. /\ ProbedDevice(rec) \in Device
          /\ ProbedDevice(rec).compat = d /\ ProbedDevice(rec).driver = d
          /\ ProbedDevice(rec).mutex /\ ProbedDevice(rec).bound
      BY <1>2, DeviceOperators DEF ProbedDevice, IoOpened, Device
    <3>. QED  BY <2>1, <3>1
  <2>2. CASE \E left \in LeftBehind(rec) : /\ ProbeFails(c, d, rec, left)
                                           /\ dev' = [dev EXCEPT ![c] = left]
                                           /\ job' = Idle
    <3>1. PICK left \in LeftBehind(rec) : /\ ProbeFails(c, d, rec, left)
                                          /\ dev' = [dev EXCEPT ![c] = left]
                                          /\ job' = Idle
      BY <2>2
    <3>2. left \in Device
      BY <1>2, DeviceOperators
    <3>3. /\ left.compat = d /\ left.driver = d
          /\ left.mutex = dev[c].mutex
          /\ left.bound \/ left.bound = dev[c].bound
      BY <1>1, <1>2 DEF LeftBehind, IoOpened, IoClosed, Device
    <3>4. dev[c].mutex => dev[c].bound
      BY <1>1 DEF Serving, MutexProbed, Probed
    <3>. QED  BY <3>1, <3>2, <3>3, <3>4
  <2>. QED  BY <2>1, <2>2 DEF InitProbes
<1>4. UNCHANGED <<stat, num, visible>>
  BY DEF InitProbes
<1>5. dev[c].mutex => dev[c].bound /\ dev[c].driver = d
  BY <1>1 DEF Serving, MutexProbed, Probed
<1>6. Moves
  <2>1. NoNewHolders(Drivers \ {d})
    BY <1>1, <1>3, <1>4 DEF NoNewHolders, Holders, Serving, TypeOK
  <2>2. CASE ProbeSucceeds(c, d, rec)
    <3>1. Registers(d)
      BY <2>2 DEF ProbeSucceeds, Registers
    <3>2. Holders(d)' \subseteq Holders(d) \cup {c}
      BY <1>1, <1>3, <1>4 DEF Holders, Serving, TypeOK
    <3>3. Gains(d, c)
      BY <2>1, <3>1, <3>2 DEF Gains
    <3>. QED  BY <1>1, <3>3 DEF Moves
  <2>3. CASE \E l \in LeftBehind(rec) : ProbeFails(c, d, rec, l) /\ job' = Idle
    <3>1. Unregisters(d) \/ UNCHANGED <<ops, ref>>
      BY <2>3 DEF ProbeFails, ProbeWithoutOps, ProbeWithoutIo, ProbeWithoutCore, Unregisters
    <3>2. job' # [job EXCEPT !.todo = @ \ {c}]
      BY <1>1, <2>3 DEF Idle
    <3>3. NoNewHolders(Drivers)
      BY <1>1, <1>3, <1>4, <1>5, <2>1, <3>2 DEF NoNewHolders, Holders, Serving, TypeOK
    <3>. QED  BY <1>1, <3>1, <3>3 DEF Moves, Keeps
  <2>. QED  BY <1>3, <2>2, <2>3
<1>7. AbsentZeroed' /\ MatchedVisible' /\ ReadyProbed'
  BY <1>1, <1>3, <1>4 DEF Serving, AbsentZeroed, MatchedVisible, ReadyProbed, TypeOK
<1>8. MutexProbed'
  BY <1>1, <1>3, <1>5 DEF Serving, MutexProbed, Probed, TypeOK
<1>9. JobDiscipline'
  BY <1>1, <1>3, <1>4 DEF Serving, JobDiscipline, Probed, TypeOK, Idle
<1>. QED  BY <1>6, <1>7, <1>8, <1>9 DEF Structure
LEMMA DeinitRemovesStep ==
  ASSUME Serving, TypeOK', WellUsed, NEW c \in job.todo, DeinitRemoves(c)
  PROVE  Structure' /\ Moves
<1>1. /\ job.kind = "deinit" /\ stat = "READY" /\ job.todo = visible
      /\ c \in visible /\ c \in Chips
  BY DEF Serving, TypeOK, JobDiscipline, DeinitRemoves
<1>2. PICK d \in Drivers : dev[c].driver = d /\ d # NoDriver /\ dev[c].mutex
  BY <1>1, DriversAssumption DEF Serving, ReadyProbed, MatchedVisible, Probed
<1>3. /\ dev' = [dev EXCEPT ![c] = Zeroed] /\ visible' = visible \ {c}
      /\ stat' = stat /\ num' = num
  BY DEF DeinitRemoves, Forget
<1>4. job'.kind = "deinit" /\ job'.todo = job.todo \ {c}
  BY <1>1 DEF DeinitRemoves, Serving, TypeOK
<1>5. \A e \in Drivers : Holders(e)' \subseteq Holders(e) \ {c}
  BY <1>1, <1>3 DEF Holders, Serving, TypeOK
<1>6. Moves
  <2>1. NoNewHolders(Drivers)
    BY <1>5 DEF NoNewHolders
  <2>2. CASE UNCHANGED <<ops, ref>>
    BY <2>1, <2>2 DEF Moves, Keeps
  <2>3. CASE \E ret \in Rets : Released(c, d, ret)
    <3>0. c \in Holders(d)
      BY <1>1, <1>2 DEF Holders
    <3>1. Releases(d)
      BY <2>3 DEF Released, Releases
    <3>2. Loses(d, c)
      BY <1>1, <1>2, <1>5, <2>1, <3>1, <3>0 DEF Loses
    <3>. QED  BY <1>1, <1>2, <3>2 DEF Moves
  <2>. QED  BY <1>2, <2>2, <2>3 DEF DeinitRemoves, WatchdogFails
<1>7. AbsentZeroed'
  BY <1>3 DEF Serving, AbsentZeroed, TypeOK
<1>8. MatchedVisible' /\ ReadyProbed'
  BY <1>1, <1>3 DEF Serving, MatchedVisible, ReadyProbed, Probed, TypeOK
<1>9. MutexProbed'
  BY <1>1, <1>3 DEF Serving, MutexProbed, Probed, Zeroed, TypeOK
<1>10. JobDiscipline'
  BY <1>1, <1>3, <1>4 DEF JobDiscipline
<1>. QED  BY <1>6, <1>7, <1>8, <1>9, <1>10 DEF Structure

\* A call the module refuses, and every other step that leaves the devices,
\* the drivers and the loops alone.
LEMMA QuietStep ==
  ASSUME Serving, UNCHANGED <<stat, num, visible, dev, ops, ref, job>>
  PROVE  Structure' /\ Moves
<1>1. Moves
  BY SameHolders DEF Moves, Keeps, Serving
<1>2. AbsentZeroed' /\ MutexProbed' /\ MatchedVisible' /\ ReadyProbed'
  BY DEF Serving, AbsentZeroed, MutexProbed, MatchedVisible, ReadyProbed, Probed
<1>3. JobDiscipline'
  BY DEF Serving, JobDiscipline, Probed
<1>. QED  BY <1>1, <1>2, <1>3 DEF Structure

LEMMA DeviceCreateStep ==
  ASSUME Serving, NEW c \in Chips, NEW d \in Drivers \cup {NoDriver}, DeviceCreate(c, d)
  PROVE  Structure' /\ Moves
<1>. DEFINE rec == [dev[c] EXCEPT !.compat = d, !.driver = d]
<1>1. CASE Rejected("create", c)
  BY <1>1, QuietStep DEF Rejected
<1>2. ASSUME ~ Rejected("create", c)
      PROVE  Structure' /\ Moves
  <2>1. /\ d \in Drivers /\ c \notin visible /\ stat = "READY"
        /\ stat' = stat /\ num' = num /\ job' = job /\ job.kind = "idle"
    BY <1>2 DEF DeviceCreate
  <2>2. dev[c] = Zeroed /\ dev[c] \in Device
    BY <2>1 DEF Serving, AbsentZeroed, TypeOK
  <2>3. rec \in Device /\ rec.compat = d /\ rec.driver = d
    BY <2>1, <2>2 DEF Device
  <2>4. CASE \E left \in LeftBehind(rec) :
               ProbeFails(c, d, rec, left) /\ dev' = [dev EXCEPT ![c] = Zeroed]
               /\ UNCHANGED visible
    <3>1. dev' = dev /\ visible' = visible
      BY <2>2, <2>4 DEF Serving, TypeOK
    <3>2. Unregisters(d) \/ UNCHANGED <<ops, ref>>
      BY <2>4 DEF ProbeFails, ProbeWithoutOps, ProbeWithoutIo, ProbeWithoutCore, Unregisters
    <3>3. NoNewHolders(Drivers)
      BY <3>1, SameHolders DEF Serving
    <3>4. Moves
      BY <2>1, <3>2, <3>3 DEF Moves, Keeps
    <3>5. AbsentZeroed' /\ MutexProbed' /\ MatchedVisible' /\ ReadyProbed'
      BY <2>1, <3>1
         DEF Serving, AbsentZeroed, MutexProbed, MatchedVisible, ReadyProbed, Probed
    <3>6. JobDiscipline'
      BY <2>1, <3>1 DEF Serving, JobDiscipline
    <3>. QED  BY <3>4, <3>5, <3>6 DEF Structure
  <2>5. CASE /\ ProbeSucceeds(c, d, rec)
             /\ dev' = [dev EXCEPT ![c] = ProbedDevice(rec)]
             /\ visible' = visible \cup {c}
    <3>1. PICK new \in Device : /\ new.compat = d /\ new.driver = d /\ new.mutex /\ new.bound
                                /\ dev' = [dev EXCEPT ![c] = new]
      BY <2>3, <2>5, DeviceOperators DEF ProbedDevice, IoOpened, Device
    <3>2. Registers(d)
      BY <2>5 DEF ProbeSucceeds, Registers
    <3>3. /\ Holders(d)' \subseteq Holders(d) \cup {c}
          /\ NoNewHolders(Drivers \ {d})
      BY <2>5, <3>1 DEF Holders, NoNewHolders, Serving, TypeOK
    <3>4. Gains(d, c)
      BY <3>2, <3>3 DEF Gains
    <3>5. Moves
      BY <2>1, <3>4 DEF Moves
    <3>6. AbsentZeroed' /\ MatchedVisible'
      BY <2>1, <2>5, <3>1 DEF Serving, AbsentZeroed, MatchedVisible, TypeOK
    <3>7. MutexProbed'
      BY <3>1 DEF Serving, MutexProbed, Probed, TypeOK
    <3>8. ReadyProbed'
      BY <2>1, <2>5, <3>1 DEF Serving, ReadyProbed, Probed, TypeOK
    <3>9. JobDiscipline'
      BY <2>1 DEF Serving, JobDiscipline
    <3>. QED  BY <3>5, <3>6, <3>7, <3>8, <3>9 DEF Structure
  <2>. QED  BY <1>2, <2>4, <2>5 DEF DeviceCreate
<1>. QED  BY <1>1, <1>2

LEMMA DeviceDeleteStep ==
  ASSUME Serving, WellUsed, NEW c \in Chips, DeviceDelete(c)
  PROVE  Structure' /\ Moves
<1>1. CASE Rejected("delete", c)
  BY <1>1, QuietStep DEF Rejected
<1>2. ASSUME ~ Rejected("delete", c)
      PROVE  Structure' /\ Moves
  <2>1. /\ c \in visible /\ stat = "READY"
        /\ stat' = stat /\ num' = num /\ job' = job /\ job.kind = "idle"
    BY <1>2 DEF DeviceDelete
  <2>2. PICK d \in Drivers : dev[c].driver = d /\ dev[c].mutex
    BY <2>1 DEF Serving, ReadyProbed, MatchedVisible, Probed
  <2>3. CASE WatchdogFails(c) /\ UNCHANGED <<dev, visible>>
    BY <2>1, <2>3, QuietStep DEF WatchdogFails
  <2>4. CASE Released(c, d, "OK") /\ Forget(c)
    <3>1. dev' = [dev EXCEPT ![c] = Zeroed] /\ visible' = visible \ {c}
      BY <2>4 DEF Forget
    <3>2. Releases(d)
      BY <2>4 DEF Released, Releases
    <3>3. \A e \in Drivers : Holders(e)' \subseteq Holders(e) \ {c}
      BY <3>1 DEF Holders, Serving, TypeOK
    <3>4. c \in Holders(d)
      BY <2>1, <2>2 DEF Holders
    <3>5. Loses(d, c)
      BY <3>2, <3>3, <3>4 DEF Loses, NoNewHolders
    <3>6. Moves
      BY <3>5 DEF Moves
    <3>7. AbsentZeroed' /\ MatchedVisible' /\ ReadyProbed'
      BY <2>1, <3>1
         DEF Serving, AbsentZeroed, MatchedVisible, ReadyProbed, Probed, TypeOK
    <3>8. MutexProbed'
      BY <3>1 DEF Serving, MutexProbed, Probed, Zeroed, TypeOK
    <3>9. JobDiscipline'
      BY <2>1 DEF Serving, JobDiscipline
    <3>. QED  BY <3>6, <3>7, <3>8, <3>9 DEF Structure
  <2>5. ~ Released(c, d, "ERR")
    BY DEF Released, BusDeinit, WellUsed
  <2>. QED  BY <1>2, <2>2, <2>3, <2>4, <2>5 DEF DeviceDelete
<1>. QED  BY <1>1, <1>2

LEMMA OpenCloseStep ==
  ASSUME Serving, NEW c \in Chips, DeviceOpen(c) \/ DeviceClose(c)
  PROVE  Structure' /\ Moves
<1>1. CASE Rejected("open", c) \/ Rejected("close", c)
  BY <1>1, QuietStep DEF Rejected
<1>2. ASSUME ~ Rejected("open", c), ~ Rejected("close", c)
      PROVE  Structure' /\ Moves
  <2>1. /\ c \in visible /\ stat = "READY" /\ dev[c].bound
        /\ UNCHANGED <<stat, num, visible, ops, ref, job>>
        /\ dev' = [dev EXCEPT ![c] = IoOpened(@)] \/ dev' = [dev EXCEPT ![c] = IoClosed(@)]
    BY <1>2 DEF DeviceOpen, DeviceClose
  <2>2. dev[c] \in Device
    BY DEF Serving, TypeOK
  <2>3. PICK new \in Device :
          /\ dev' = [dev EXCEPT ![c] = new]
          /\ new.compat = dev[c].compat /\ new.driver = dev[c].driver
          /\ new.mutex = dev[c].mutex /\ new.bound
    <3>1. /\ IoOpened(dev[c]) \in Device /\ IoOpened(dev[c]).compat = dev[c].compat
          /\ IoOpened(dev[c]).driver = dev[c].driver
          /\ IoOpened(dev[c]).mutex = dev[c].mutex /\ IoOpened(dev[c]).bound
      BY <2>2, DeviceOperators DEF IoOpened, Device
    <3>2. /\ IoClosed(dev[c]) \in Device /\ IoClosed(dev[c]).compat = dev[c].compat
          /\ IoClosed(dev[c]).driver = dev[c].driver
          /\ IoClosed(dev[c]).mutex = dev[c].mutex /\ IoClosed(dev[c]).bound
      BY <2>1, <2>2, DeviceOperators DEF IoClosed, Device
    <3>. QED  BY <2>1, <3>1, <3>2
  <2>4. Moves
    <3>1. NoNewHolders(Drivers)
      BY <2>1, <2>3 DEF NoNewHolders, Holders, Serving, TypeOK
    <3>. QED  BY <2>1, <3>1 DEF Moves, Keeps
  <2>5. AbsentZeroed' /\ MatchedVisible' /\ ReadyProbed'
    BY <2>1, <2>3 DEF Serving, AbsentZeroed, MatchedVisible, ReadyProbed, Probed, TypeOK
  <2>6. MutexProbed'
    BY <2>3 DEF Serving, MutexProbed, Probed, TypeOK
  <2>7. JobDiscipline'
    BY <2>1 DEF Serving, JobDiscipline
  <2>. QED  BY <2>4, <2>5, <2>6, <2>7 DEF Structure
<1>. QED  BY <1>1, <1>2

LEMMA ServingInitially == Init /\ WellUsed => Serving
<1>. SUFFICES ASSUME Init, WellUsed PROVE Serving
  OBVIOUS
<1>1. TypeOK /\ OpsLeakFree /\ OpsWhileReferenced
  BY InitialTypes DEF Init, OpsLeakFree, OpsWhileReferenced
<1>2. /\ stat = "UNINIT" /\ num = MaxChipNum /\ job = Idle
      /\ \A c \in Chips : ~ dev[c].mutex /\ c < num
      /\ visible = StaticChips
  BY ChipsAssumption DEF Init, Zeroed
<1>3. RefCoversHolders
  <2>1. ASSUME NEW d \in Drivers PROVE Cardinality(Holders(d)) <= ref[d]
    <3>1. Holders(d) = {}
      BY <1>1, <1>2 DEF Holders, TypeOK
    <3>2. ref[d] = 0
      BY DEF Init
    <3>. QED  BY <3>1, <3>2, FS_EmptySet
  <2>. QED  BY <2>1 DEF RefCoversHolders
<1>4. AbsentZeroed
  BY DEF Init, AbsentZeroed
<1>5. MatchedVisible
  BY StaticAssumption DEF Init, MatchedVisible, WellUsed, Zeroed
<1>6. MutexProbed /\ ReadyProbed
  BY <1>2 DEF MutexProbed, ReadyProbed
<1>7. JobDiscipline
  BY <1>1, <1>2 DEF JobDiscipline, Idle, TypeOK
<1>. QED  BY <1>1, <1>3, <1>4, <1>5, <1>6, <1>7 DEF Serving

LEMMA ServingPreserved == TypeOK' /\ WellUsed /\ Serving /\ [Next]_vars => Serving'
<1>. SUFFICES ASSUME TypeOK', WellUsed, Serving, [Next]_vars PROVE Serving'
  OBVIOUS
<1>1. Structure' /\ Moves
  <2>1. CASE UNCHANGED vars
    BY <2>1, QuietStep DEF vars
  <2>2. CASE SwitchInit \/ InitEnds \/ SwitchDeinit \/ DeinitEnds
    BY <2>2, LoopSteps
  <2>3. ASSUME NEW c \in job.todo, InitProbes(c)
        PROVE  Structure' /\ Moves
    BY <2>3, InitProbesStep
  <2>4. ASSUME NEW c \in job.todo, DeinitRemoves(c)
        PROVE  Structure' /\ Moves
    BY <2>4, DeinitRemovesStep
  <2>5. ASSUME NEW c \in Chips, NEW d \in Drivers \cup {NoDriver}, DeviceCreate(c, d)
        PROVE  Structure' /\ Moves
    BY <2>5, DeviceCreateStep
  <2>6. ASSUME NEW c \in Chips, DeviceDelete(c)
        PROVE  Structure' /\ Moves
    BY <2>6, DeviceDeleteStep
  <2>7. ASSUME NEW c \in Chips, DeviceOpen(c) \/ DeviceClose(c)
        PROVE  Structure' /\ Moves
    BY <2>7, OpenCloseStep
  <2>8. ASSUME NEW s \in Stats, InitStateSet(s)
        PROVE  Structure' /\ Moves
    BY <2>8 DEF InitStateSet, WellUsed
  <2>. QED  BY <2>1, <2>2, <2>3, <2>4, <2>5, <2>6, <2>7, <2>8 DEF Next
<1>2. OpsLeakFree'
  BY LeakFreeStep DEF Serving
<1>3. OpsWhileReferenced' /\ RefCoversHolders'
  BY <1>1, CountingPreserved DEF Serving, Moves
<1>. QED  BY <1>1, <1>2, <1>3 DEF Serving, Structure

LEMMA ServingAlways == ASSUME WellUsed PROVE Spec => [](TypeOK /\ Serving)
<1>1. Init => Serving
  BY ServingInitially
<1>2. TypeOK' /\ Serving /\ [Next]_vars => Serving'
  BY ServingPreserved
<1>. QED  BY <1>1, <1>2, TypeCorrect, PTL DEF Spec

(* While the bus can always be released, nobody overwrites the module's     *)
(* state and every static device has a driver: ref_count never falls below  *)
(* the devices a driver holds, for any number of devices and drivers and    *)
(* whatever else fails.                                                     *)
THEOREM EveryHolderCounted == ASSUME WellUsed PROVE Spec => []RefCoversHolders
BY ServingAlways, PTL DEF Serving

(* Under the same conditions no branch of probe or remove frees the         *)
(* operations table of a driver that is still referred to.                  *)
THEOREM ReferencedHasOperations == ASSUME WellUsed PROVE Spec => []OpsWhileReferenced
BY ServingAlways, PTL DEF Serving

(* Hence every device a READY module lets through passes the assertions of  *)
(* JL_DRV_SAFE_CALL.                                                        *)
THEOREM ReadyModuleServes == ASSUME WellUsed PROVE Spec => []DevicesServable
<1>1. Serving => DevicesServable
  BY ServingImplies
<1>. QED  BY <1>1, ServingAlways, PTL

-----------------------------------------------------------------------------
(* What a call on one device leaves alone, and what a failed create undoes. *)

\* the calls that report a device
OnDevice(c) == \/ \E d \in Drivers \cup {NoDriver} : DeviceCreate(c, d)
               \/ DeviceDelete(c) \/ DeviceOpen(c) \/ DeviceClose(c)

LEMMA CallsReport ==
  ASSUME TypeOK, WellUsed, Next, job.kind = "idle", job' = job
  PROVE  \/ last'.chip = NoChip /\ last'.call # "create"
         \/ \E c \in Chips : last'.chip = c /\ OnDevice(c)
<1>1. ASSUME NEW c \in Chips, OnDevice(c) PROVE last'.chip = c
  <2>1. ASSUME NEW d, DeviceCreate(c, d) PROVE \E ret \in Rets : Returned("create", c, ret)
    BY <2>1 DEF DeviceCreate, Rejected, Rets
  <2>2. DeviceDelete(c) => \E ret \in Rets : Returned("delete", c, ret)
    BY DEF DeviceDelete, Rejected, Rets
  <2>3. DeviceOpen(c) => \E ret \in Rets : Returned("open", c, ret)
    BY DEF DeviceOpen, Rejected, Rets
  <2>4. DeviceClose(c) => \E ret \in Rets : Returned("close", c, ret)
    BY DEF DeviceClose, Rejected, Rets
  <2>. QED  BY <1>1, <2>1, <2>2, <2>3, <2>4 DEF OnDevice, Returned
<1>2. ASSUME SwitchInit \/ SwitchDeinit \/ \E s \in Stats : InitStateSet(s)
      PROVE  last'.chip = NoChip /\ last'.call # "create"
  BY <1>2 DEF SwitchInit, SwitchDeinit, InitStateSet, Returned
<1>3. ~ InitEnds /\ ~ DeinitEnds /\ \A c \in Chips : ~ InitProbes(c) /\ ~ DeinitRemoves(c)
  BY DEF InitEnds, DeinitEnds, InitProbes, DeinitRemoves
<1>4. job.todo \subseteq Chips
  BY DEF TypeOK
<1>. QED  BY <1>1, <1>2, <1>3, <1>4 DEF Next, OnDevice

LEMMA DeviceCallSpares ==
  ASSUME Serving, Serving', NEW k \in Chips, OnDevice(k), NEW c \in visible, c # k, Servable(c)
  PROVE  c \in visible' /\ Servable(c)'
<1>1. CASE \E call \in Calls : Rejected(call, k)
  BY <1>1 DEF Rejected, Servable
<1>2. CASE ~ \E call \in Calls : Rejected(call, k)
  <2>1. stat = "READY" /\ stat' = stat /\ c \in visible'
    BY <1>2 DEF OnDevice, DeviceCreate, DeviceDelete, DeviceOpen, DeviceClose, Forget, Calls
  <2>2. (Serving => DevicesServable)'
    BY ServingImplies, PTL
  <2>. QED  BY <2>1, <2>2 DEF DevicesServable
<1>. QED  BY <1>1, <1>2

(* A call on one device takes no other one out of service, although both    *)
(* share the driver's operations table and its reference count.             *)
THEOREM CallsSpareOthers == ASSUME WellUsed PROVE Spec => OthersUndisturbed
<1>. DEFINE Step == (job.kind = "idle" /\ job' = job) =>
                      \A c \in visible : (last'.chip \notin {c, NoChip} /\ Servable(c))
                                           => c \in visible' /\ Servable(c)'
<1>1. TypeOK /\ Serving /\ Serving' /\ [Next]_vars => [Step]_vars
  <2>. SUFFICES ASSUME TypeOK, Serving, Serving', Next, job.kind = "idle", job' = job,
                       NEW c \in visible, last'.chip \notin {c, NoChip}, Servable(c)
                PROVE  c \in visible' /\ Servable(c)'
    OBVIOUS
  <2>. QED  BY CallsReport, DeviceCallSpares
<1>. QED  BY <1>1, ServingAlways, PTL DEF Spec, OthersUndisturbed

LEMMA FailedProbeUndone ==
  ASSUME Serving, WellUsed, NEW c \in Chips, NEW d \in Drivers, c \notin visible, NEW rec, NEW left,
         rec = [dev[c] EXCEPT !.compat = d, !.driver = d], ProbeFails(c, d, rec, left)
  PROVE  ops' = ops /\ ref' = ref /\ bus' \subseteq bus
<1>1. dev[c] = Zeroed /\ (ref[d] = 0 => d \notin ops) /\ "bus_deinit" \notin Faults
  BY DEF Serving, AbsentZeroed, OpsLeakFree, WellUsed
<1>2. rec.io = "UNINIT"
  BY <1>1 DEF Zeroed
<1>3. CASE ProbeWithoutOps(d, rec, left)
  BY <1>3 DEF ProbeWithoutOps, ProbeFails
<1>4. CASE ProbeWithoutIo(c, d, rec, left)
  BY <1>1, <1>2, <1>4 DEF ProbeWithoutIo, BusInit, ProbeFails
<1>5. CASE ProbeWithoutCore(c, d, rec, left)
  BY <1>1, <1>5 DEF ProbeWithoutCore, ProbeFails
<1>. QED  BY <1>3, <1>4, <1>5 DEF ProbeFails

(* A jl_switch_device_create that fails, at whatever point of the probe,    *)
(* leaves no device, no reference, no operations table and no claimed bus.  *)
THEOREM FailedCreateUndone == ASSUME WellUsed PROVE Spec => FailedCreateRollsBack
<1>. DEFINE Step == (last'.call = "create" /\ last'.ret # "OK" /\ job.kind = "idle" /\ job' = job) =>
                      /\ UNCHANGED <<visible, dev, ops, ref>>
                      /\ bus' \subseteq bus
<1>1. TypeOK /\ Serving /\ [Next]_vars => [Step]_vars
  <2>. SUFFICES ASSUME TypeOK, Serving, Next, last'.call = "create", last'.ret # "OK",
                       job.kind = "idle", job' = job
                PROVE  UNCHANGED <<visible, dev, ops, ref>> /\ bus' \subseteq bus
    OBVIOUS
  <2>1. PICK c \in Chips : OnDevice(c)
    BY CallsReport
  <2>2. PICK d \in Drivers \cup {NoDriver} : DeviceCreate(c, d)
    BY <2>1 DEF OnDevice, DeviceDelete, DeviceOpen, DeviceClose, Rejected, Returned
  <2>3. CASE Rejected("create", c)
    BY <2>3 DEF Rejected
  <2>4. CASE ~ Rejected("create", c)
    <3>. DEFINE rec == [dev[c] EXCEPT !.compat = d, !.driver = d]
    <3>1. /\ d \in Drivers /\ c \notin visible /\ visible' = visible
          /\ dev' = [dev EXCEPT ![c] = Zeroed]
          /\ \E left \in LeftBehind(rec) : ProbeFails(c, d, rec, left)
      BY <2>2, <2>4 DEF DeviceCreate, Returned
    <3>. HIDE DEF rec
    <3>2. ops' = ops /\ ref' = ref /\ bus' \subseteq bus
      BY <3>1, FailedProbeUndone DEF rec
    <3>3. dev' = dev
      BY <3>1 DEF Serving, AbsentZeroed, TypeOK
    <3>. QED  BY <3>1, <3>2, <3>3
  <2>. QED  BY <2>3, <2>4
<1>. QED  BY <1>1, ServingAlways, PTL DEF Spec, FailedCreateRollsBack
=============================================================================
