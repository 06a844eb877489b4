-------------------------- MODULE SwitchLifecycle --------------------------
(***************************************************************************)
(* The life of switch devices in the SDK: jl_switch_init / deinit and the  *)
(* dynamic jl_switch_device_create / delete / open / close (jl_switch.c),  *)
(* and under them the chip driver's probe and remove with its reference    *)
(* count, its operations table and its tables per chip                     *)
(* (jl61xx_drv_switch.c; jl6107x_drv_switch.c is the same code), and the   *)
(* register io that every device opens (jl_reg_io.c).                      *)
(*                                                                         *)
(* One client calls the API; a call is one action, except that the loops   *)
(* of init and deinit are one action per device.  A failure the code has a *)
(* branch for may happen whenever its kind is in Faults.                   *)
(***************************************************************************)
EXTENDS Integers, FiniteSets

CONSTANTS
  MaxChipNum,     \* JL_MAX_CHIP_NUM
  Chips,          \* the ids of devices[] in use
  Drivers,        \* indices of gpp_drivers[]: jl61xx, jl6107x
  NoDriver,       \* a NULL device->driver; a compat_id that no driver has
  StaticCompat,   \* for each device put in gpp_devices[] at build time, its driver
  Faults,         \* the kinds of failure that may happen
  StateSet,       \* whether the client calls jl_switch_init_state_set
  MaxRef,         \* bound on ref_count: a probe that succeeds starts below it
  RefMod          \* number of values of a ref_count (2^32 in the code)

FaultKinds == { "ops", "mmp", "acl_template", "acl_rule", "qos",   \* allocations
                "bus_init", "bus_deinit",                          \* the io layer
                "firmware", "watchdog" }                           \* the chip

StaticChips == DOMAIN StaticCompat

ASSUME ChipsAssumption    == MaxChipNum \in Nat /\ Chips \subseteq 0 .. MaxChipNum - 1
ASSUME DriversAssumption  == Drivers \subseteq Nat /\ NoDriver \notin Drivers
ASSUME StaticAssumption   == /\ StaticChips \subseteq Chips
                             /\ StaticCompat \in [StaticChips -> Drivers \cup {NoDriver}]
ASSUME FaultsAssumption   == Faults \subseteq FaultKinds
ASSUME StateSetAssumption == StateSet \in BOOLEAN
ASSUME BoundsAssumption   == MaxRef \in Nat /\ RefMod \in Nat /\ MaxRef < RefMod

VARIABLES
  stat,      \* g_module.stat
  num,       \* g_module.device_num
  visible,   \* the ids with devices[id] # NULL
  dev,       \* the jl_device_t of an id, all zero where there is none
  bus,       \* the ids whose io has its bus claimed and working (external)
  tables,    \* the driver's file-scope tables that are allocated for an id
  ops,       \* the drivers with driver->ops # NULL
  ref,       \* driver->ref_count
  job,       \* the loop of init or deinit in progress, with the ids it has left
  last       \* the last call that returned: its name, its id, whether it said OK

vars == <<stat, num, visible, dev, bus, tables, ops, ref, job, last>>

Stats  == {"UNINIT", "READY"}
Tables == {"mmp", "acl_template", "acl_rule", "qos"}

\* mutex is set by a probe that succeeds, bound when io_desc.ops are assigned,
\* io is io_desc.stat.
Device == [ compat : Drivers \cup {NoDriver}, driver : Drivers \cup {NoDriver},
            mutex : BOOLEAN, bound : BOOLEAN, io : Stats ]

Zeroed == [ compat |-> NoDriver, driver |-> NoDriver,
            mutex |-> FALSE, bound |-> FALSE, io |-> "UNINIT" ]

Rets   == {"OK", "ERR"}
Idle   == [kind |-> "idle", todo |-> {}, ret |-> "OK"]
NoChip == -1
Calls  == {"none", "init", "deinit", "create", "delete", "open", "close", "state_set"}

TypeOK ==
  /\ stat \in Stats
  /\ num \in 0 .. MaxChipNum
  /\ visible \in SUBSET Chips
  /\ dev \in [Chips -> Device]
  /\ bus \in SUBSET Chips
  /\ tables \in [Chips -> SUBSET Tables]
  /\ ops \in SUBSET Drivers
  /\ ref \in [Drivers -> 0 .. RefMod - 1]
  /\ job \in [kind : {"idle", "init", "deinit"}, todo : SUBSET Chips, ret : Rets]
  /\ last \in [call : Calls, chip : Chips \cup {NoChip}, ret : Rets]

Returned(call, c, ret) == last' = [call |-> call, chip |-> c, ret |-> ret]

Init ==
  /\ stat = "UNINIT"
  /\ num = MaxChipNum
  /\ visible = StaticChips
  /\ dev = [c \in Chips |-> IF c \in StaticChips
                            THEN [Zeroed EXCEPT !.compat = StaticCompat[c]]
                            ELSE Zeroed]
  /\ bus = {}
  /\ tables = [c \in Chips |-> {}]
  /\ ops = {}
  /\ ref = [d \in Drivers |-> 0]
  /\ job = Idle
  /\ last = [call |-> "none", chip |-> NoChip, ret |-> "OK"]

-----------------------------------------------------------------------------
(* jl_reg_io_init does nothing when the io is READY already.  Otherwise it  *)
(* brings the bus up, and makes the io READY whether or not the bus is.     *)

IoOpened(rec) == [rec EXCEPT !.bound = TRUE, !.io = "READY"]

BusInit(c, rec, ret) ==
  IF rec.io = "READY"
  THEN ret = "OK" /\ UNCHANGED bus
  ELSE /\ ret = "OK" \/ "bus_init" \in Faults
       /\ bus' = IF ret = "OK" THEN bus \cup {c} ELSE bus \ {c}

(* jl_reg_io_deinit makes the io UNINIT even when the bus was not released. *)

IoClosed(rec) == [rec EXCEPT !.io = "UNINIT"]

BusDeinit(c, rec, ret) ==
  IF rec.io = "UNINIT"
  THEN ret = "OK" /\ UNCHANGED bus
  ELSE /\ ret = "OK" \/ "bus_deinit" \in Faults
       /\ bus' = IF ret = "OK" THEN bus \ {c} ELSE bus

-----------------------------------------------------------------------------
(* sw_core_init reads the firmware state, then allocates the tables in this *)
(* order, each only if it is not there yet; what a failure leaves stays.    *)

AllocatedBefore ==
  [ mmp          |-> {},
    acl_template |-> {"mmp"},
    acl_rule     |-> {"mmp", "acl_template"},
    qos          |-> {"mmp", "acl_template", "acl_rule"} ]

CoreInitFails(c) ==
  \/ "firmware" \in Faults /\ UNCHANGED tables
  \/ \E t \in Tables \cap Faults :
       /\ t \notin tables[c]
       /\ tables' = [tables EXCEPT ![c] = @ \cup AllocatedBefore[t]]

(* A READY io whose bus is not up: the reads of the firmware state fail.    *)

DeadBus(c, rec) == rec.io = "READY" /\ c \notin bus

(* jl61xx_chip_probe: rec is the device as the caller filled it in; a probe *)
(* that succeeds makes it ProbedDevice(rec), one that fails makes it left.   *)

ProbedDevice(rec) == [IoOpened(rec) EXCEPT !.mutex = TRUE]

ProbeSucceeds(c, d, rec) ==
  /\ ref[d] < MaxRef
  /\ ~ DeadBus(c, rec)
  /\ BusInit(c, rec, "OK")
  /\ tables' = [tables EXCEPT ![c] = Tables]
  /\ ops'    = IF ref[d] = 0 THEN ops \cup {d} ELSE ops
  /\ ref'    = [ref EXCEPT ![d] = @ + 1]

\* __ops_regist fails
ProbeWithoutOps(d, rec, left) ==
  /\ "ops" \in Faults /\ ref[d] = 0
  /\ left = rec
  /\ UNCHANGED <<bus, tables, ops>>

\* Mutant: err_io_init does not free the operations table.
ProbeWithoutIoKeepsOps(c, d, rec, left) ==
  /\ BusInit(c, rec, "ERR")
  /\ left = IoOpened(rec)
  /\ ops' = ops \cup {d}
  /\ UNCHANGED tables

\* err_io_init
ProbeWithoutIo(c, d, rec, left) ==
  /\ BusInit(c, rec, "ERR")
  /\ left = IoOpened(rec)
  /\ ops' = IF ref[d] = 0 THEN ops \ {d} ELSE ops
  /\ UNCHANGED tables

\* Mutant: err_sw_core_init frees the operations table whoever else uses it.
ProbeWithoutCoreClearsOps(c, d, rec, left) ==
  /\ IF DeadBus(c, rec) THEN UNCHANGED tables ELSE CoreInitFails(c)
  /\ bus' = bus \ {c}
  /\ left = IoClosed(IoOpened(rec))
  /\ ops' = ops \ {d}

\* err_sw_core_init: the bus comes up and is given back, the result is ignored
ProbeWithoutCore(c, d, rec, left) ==
  /\ IF DeadBus(c, rec) THEN UNCHANGED tables ELSE CoreInitFails(c)
  /\ \E ret \in Rets :
       /\ ret = "OK" \/ "bus_deinit" \in Faults
       /\ bus' = IF ret = "OK" \/ DeadBus(c, rec) THEN bus \ {c} ELSE bus \cup {c}
  /\ left = IoClosed(IoOpened(rec))
  /\ ops' = IF ref[d] = 0 THEN ops \ {d} ELSE ops

LeftBehind(rec) == {rec, IoOpened(rec), IoClosed(IoOpened(rec))}

\* Mutant: the driver is counted before the probe can still fail.
ProbeFailsCounted(c, d, rec, left) ==
  /\ \/ ProbeWithoutOps(d, rec, left)
     \/ ProbeWithoutIo(c, d, rec, left)
     \/ ProbeWithoutCore(c, d, rec, left)
  /\ ref' = [ref EXCEPT ![d] = @ + 1]

ProbeFails(c, d, rec, left) ==
  /\ \/ ProbeWithoutOps(d, rec, left)
     \/ ProbeWithoutIo(c, d, rec, left)
     \/ ProbeWithoutCore(c, d, rec, left)
  /\ UNCHANGED ref

(* jl61xx_chip_remove.  The tables go first; the watchdog register is then  *)
(* read and written through the io.  Only past that are the operations, the *)
(* io and the reference given up, and then whether or not the bus went down *)
(* well.                                                                    *)

\* Mutant: a signed ref_count.
DecSigned(n) == n - 1

Dec(n) == IF n = 0 THEN RefMod - 1 ELSE n - 1

\* Mutant: the reference is given up before the removal can still fail.
WatchdogFailsUncounted(c) ==
  /\ \/ dev[c].io = "UNINIT" \/ c \notin bus \/ "watchdog" \in Faults
  /\ ref' = [ref EXCEPT ![dev[c].driver] = Dec(@)]
  /\ UNCHANGED <<bus, ops>>

WatchdogFails(c) ==
  /\ \/ dev[c].io = "UNINIT" \/ c \notin bus \/ "watchdog" \in Faults
  /\ UNCHANGED <<bus, ops, ref>>

\* Mutant: the operations table goes with the last but one reference.
ReleasedEarly(c, d, ret) ==
  /\ dev[c].io = "READY" /\ c \in bus
  /\ BusDeinit(c, dev[c], ret)
  /\ ops' = IF ref[d] <= 2 THEN ops \ {d} ELSE ops
  /\ ref' = [ref EXCEPT ![d] = Dec(@)]

Released(c, d, ret) ==
  /\ dev[c].io = "READY" /\ c \in bus
  /\ BusDeinit(c, dev[c], ret)
  /\ ops' = IF ref[d] = 1 THEN ops \ {d} ELSE ops
  /\ ref' = [ref EXCEPT ![d] = Dec(@)]

ReleasedDevice(rec) == [IoClosed(rec) EXCEPT !.mutex = FALSE]

TablesFreed(c) == tables' = [tables EXCEPT ![c] = {}]

(* memset(device, 0), devices[id] = NULL *)

\* Mutant: the device is unlinked and not cleared.
Forget(c) ==
  /\ dev' = [dev EXCEPT ![c] = Zeroed]
  /\ visible' = visible \ {c}

-----------------------------------------------------------------------------
(* jl_switch_init: __device_reorder corrects device_num, then every driver  *)
(* probes the devices that match it, in the order of drivers and ids; the   *)
(* first failure ends the call and undoes no earlier probe.                 *)

Ordered == {c \in visible : c < num}

\* one more than the largest id, 0 without a device
DeviceNum(n) == /\ \A c \in Ordered : c < n
                /\ n = 0 \/ n - 1 \in Ordered

SwitchInit ==
  /\ job.kind = "idle"
  /\ IF stat = "READY"
     THEN /\ Returned("init", NoChip, "OK")
          /\ UNCHANGED <<num, job>>
     ELSE /\ num' \in 0 .. MaxChipNum /\ DeviceNum(num')
          /\ job' = [kind |-> "init", todo |-> Ordered, ret |-> "OK"]
          /\ UNCHANGED last
  /\ UNCHANGED <<stat, visible, dev, bus, tables, ops, ref>>

Unmatched == {c \in job.todo : dev[c].compat \notin Drivers}

NextInLine(c) ==
  /\ c \notin Unmatched
  /\ \A other \in job.todo \ (Unmatched \cup {c}) :
       \/ dev[c].compat < dev[other].compat
       \/ dev[c].compat = dev[other].compat /\ c < other

InitProbes(c) ==
  /\ job.kind = "init" /\ NextInLine(c)
  /\ LET d   == dev[c].compat
         rec == [dev[c] EXCEPT !.driver = d]
     IN \/ /\ ProbeSucceeds(c, d, rec)
           /\ dev' = [dev EXCEPT ![c] = ProbedDevice(rec)]
           /\ job' = [job EXCEPT !.todo = @ \ {c}]
           /\ UNCHANGED last
        \/ /\ \E left \in LeftBehind(rec) :
                /\ ProbeFails(c, d, rec, left)
                /\ dev' = [dev EXCEPT ![c] = left]
           /\ job' = Idle
           /\ Returned("init", NoChip, "ERR")
  /\ UNCHANGED <<stat, num, visible>>

InitEnds ==
  /\ job.kind = "init" /\ job.todo = Unmatched
  /\ stat' = "READY"
  /\ job' = Idle
  /\ Returned("init", NoChip, "OK")
  /\ UNCHANGED <<num, visible, dev, bus, tables, ops, ref>>

-----------------------------------------------------------------------------
(* jl_switch_deinit: every device is removed and forgotten, also one whose  *)
(* removal failed; the module stays READY when any of them did.             *)

SwitchDeinit ==
  /\ job.kind = "idle"
  /\ IF stat = "UNINIT"
     THEN /\ Returned("deinit", NoChip, "OK")
          /\ UNCHANGED job
     ELSE /\ job' = [kind |-> "deinit", todo |-> visible, ret |-> "OK"]
          /\ UNCHANGED last
  /\ UNCHANGED <<stat, num, visible, dev, bus, tables, ops, ref>>

DeinitRemoves(c) ==
  /\ job.kind = "deinit"
  /\ \A other \in job.todo : c <= other
  /\ LET d == dev[c].driver
         Finish(ret) == job' = [job EXCEPT !.todo = @ \ {c},
                                           !.ret = IF ret = "OK" THEN @ ELSE "ERR"]
     IN \/ /\ d = NoDriver                              \* JL_ASSERT
           /\ Finish("ERR")
           /\ UNCHANGED <<bus, tables, ops, ref>>
        \/ /\ d # NoDriver
           /\ TablesFreed(c)
           /\ \/ WatchdogFails(c) /\ Finish("ERR")
              \/ \E ret \in Rets : Released(c, d, ret) /\ Finish(ret)
  /\ Forget(c)
  /\ UNCHANGED <<stat, num, last>>

DeinitEnds ==
  /\ job.kind = "deinit" /\ job.todo = {}
  /\ stat' = IF job.ret = "OK" THEN "UNINIT" ELSE stat
  /\ job' = Idle
  /\ Returned("deinit", NoChip, job.ret)
  /\ UNCHANGED <<num, visible, dev, bus, tables, ops, ref>>

-----------------------------------------------------------------------------
(* The calls on one device; every one of them wants the module READY.       *)

Rejected(call, c) ==
  /\ Returned(call, c, "ERR")
  /\ UNCHANGED <<stat, num, visible, dev, bus, tables, ops, ref, job>>

\* jl_switch_device_create of a device with id c and a compat_id of driver d
DeviceCreate(c, d) ==
  /\ job.kind = "idle"
  /\ IF stat # "READY" \/ d = NoDriver \/ c \in visible
     THEN Rejected("create", c)
     ELSE LET rec == [dev[c] EXCEPT !.compat = d, !.driver = d]
          IN /\ \/ /\ ProbeSucceeds(c, d, rec)
                   /\ dev' = [dev EXCEPT ![c] = ProbedDevice(rec)]
                   /\ visible' = visible \cup {c}
                   /\ Returned("create", c, "OK")
                \/ /\ \E left \in LeftBehind(rec) : ProbeFails(c, d, rec, left)
                   /\ dev' = [dev EXCEPT ![c] = Zeroed]
                   /\ UNCHANGED visible
                   /\ Returned("create", c, "ERR")
             /\ UNCHANGED <<stat, num, job>>

\* jl_switch_device_delete: a device whose removal failed stays
DeviceDelete(c) ==
  /\ job.kind = "idle"
  /\ LET d == dev[c].driver
     IN IF stat # "READY" \/ c \notin visible \/ d = NoDriver
        THEN Rejected("delete", c)
        ELSE /\ TablesFreed(c)
             /\ \/ /\ WatchdogFails(c)
                   /\ Returned("delete", c, "ERR")
                   /\ UNCHANGED <<dev, visible>>
                \/ /\ Released(c, d, "ERR")
                   /\ Returned("delete", c, "ERR")
                   /\ dev' = [dev EXCEPT ![c] = ReleasedDevice(@)]
                   /\ UNCHANGED visible
                \/ /\ Released(c, d, "OK")
                   /\ Returned("delete", c, "OK")
                   /\ Forget(c)
             /\ UNCHANGED <<stat, num, job>>

\* jl_switch_device_open, through io_desc.ops.init
DeviceOpen(c) ==
  /\ job.kind = "idle"
  /\ IF stat # "READY" \/ c \notin visible
     THEN Rejected("open", c)
     ELSE /\ dev[c].bound
          /\ \E ret \in Rets : /\ BusInit(c, dev[c], ret)
                               /\ Returned("open", c, ret)
          /\ dev' = [dev EXCEPT ![c] = IoOpened(@)]
          /\ UNCHANGED <<stat, num, visible, tables, ops, ref, job>>

\* jl_switch_device_close, through io_desc.ops.deinit
DeviceClose(c) ==
  /\ job.kind = "idle"
  /\ IF stat # "READY" \/ c \notin visible
     THEN Rejected("close", c)
     ELSE /\ dev[c].bound
          /\ \E ret \in Rets : /\ BusDeinit(c, dev[c], ret)
                               /\ Returned("close", c, ret)
          /\ dev' = [dev EXCEPT ![c] = IoClosed(@)]
          /\ UNCHANGED <<stat, num, visible, tables, ops, ref, job>>

\* jl_switch_init_state_set
InitStateSet(s) ==
  /\ StateSet /\ job.kind = "idle"
  /\ stat' = s
  /\ Returned("state_set", NoChip, "OK")
  /\ UNCHANGED <<num, visible, dev, bus, tables, ops, ref, job>>

Next ==
  \/ SwitchInit
  \/ InitEnds
  \/ SwitchDeinit
  \/ DeinitEnds
  \/ \E c \in job.todo : InitProbes(c) \/ DeinitRemoves(c)
  \/ \E c \in Chips, d \in Drivers \cup {NoDriver} : DeviceCreate(c, d)
  \/ \E c \in Chips : DeviceDelete(c) \/ DeviceOpen(c) \/ DeviceClose(c)
  \/ \E s \in Stats : InitStateSet(s)

Spec == Init /\ [][Next]_vars
-----------------------------------------------------------------------------
(* Properties *)

Holders(d) == {c \in visible : dev[c].mutex /\ dev[c].driver = d}

\* What JL_DRV_SAFE_CALL asserts of a device before it calls an operation.
Servable(c) == /\ dev[c].driver # NoDriver
               /\ dev[c].bound
               /\ dev[c].driver \in ops

(* A driver nobody refers to has no operations table: __ops_regist, which   *)
(* runs when ref_count is 0, never overwrites the only pointer to a live    *)
(* allocation, whatever fails and whatever the client calls.                *)
OpsLeakFree == \A d \in Drivers : ref[d] = 0 => d \notin ops

(* While a driver is referred to its operations table exists: the branches  *)
(* of probe and remove that free it never free it under another device.     *)
OpsWhileReferenced == \A d \in Drivers : ref[d] # 0 => d \in ops

(* ref_count never falls below the number of devices that were probed by    *)
(* the driver and are still there (it may exceed it: a retried init counts  *)
(* a device twice, a failed deinit forgets one without giving it back).     *)
RefCoversHolders == \A d \in Drivers : Cardinality(Holders(d)) <= ref[d]

(* Every device the API accepts calls for passes the assertions of          *)
(* JL_DRV_SAFE_CALL (jl_ops.h): no visible device of a READY module is      *)
(* without driver, io callbacks or operations table.                        *)
DevicesServable == stat = "READY" => \A c \in visible : Servable(c)

(* A call on one device never takes another one out of service, although    *)
(* both share the driver's operations table and its reference count.        *)
OthersUndisturbed ==
  [][ (job.kind = "idle" /\ job' = job) =>
        \A c \in visible : (last'.chip \notin {c, NoChip} /\ Servable(c))
                             => c \in visible' /\ Servable(c)' ]_vars

(* A jl_switch_device_create that fails leaves no device, no reference, no  *)
(* operations table and no claimed bus behind.                              *)
FailedCreateRollsBack ==
  [][ (last'.call = "create" /\ last'.ret # "OK" /\ job.kind = "idle" /\ job' = job) =>
        /\ UNCHANGED <<visible, dev, ops, ref>>
        /\ bus' \subseteq bus ]_vars

(* "This function de-initialize the switch system": once deinit returned OK *)
(* with no device left, no driver holds a reference or an operations table. *)
DeinitReleasesDrivers ==
  (last.call = "deinit" /\ last.ret = "OK" /\ visible = {}) =>
     \A d \in Drivers : ref[d] = 0 /\ d \notin ops
-----------------------------------------------------------------------------
(* Why a READY module serves its devices.  WellUsed says when: a bus can    *)
(* always be released, the client does not overwrite the state, and every   *)
(* static device has a driver.  Serving is the invariant that is inductive  *)
(* under it.                                                                *)

WellUsed == /\ "bus_deinit" \notin Faults
            /\ ~ StateSet
            /\ StaticCompat \in [StaticChips -> Drivers]

\* a device its driver has probed
Probed(c) == /\ dev[c].mutex /\ dev[c].bound
             /\ dev[c].driver = dev[c].compat

AbsentZeroed   == \A c \in Chips \ visible : dev[c] = Zeroed
MutexProbed    == \A c \in Chips : dev[c].mutex => Probed(c)
MatchedVisible == \A c \in visible : dev[c].compat \in Drivers
ReadyProbed    == stat = "READY" => \A c \in visible : Probed(c)
JobDiscipline  ==
  /\ job.kind = "idle" => job.todo = {}
  /\ job.kind = "init" => /\ stat = "UNINIT" /\ job.todo \subseteq visible
                          /\ \A c \in visible \ job.todo : Probed(c)
  /\ job.kind = "deinit" => stat = "READY" /\ job.todo = visible
  /\ stat = "UNINIT" => \A c \in visible : c < num

(* Everything the argument for RefCoversHolders and DevicesServable needs:  *)
(* zeroed memory behind every absent id, a mutex only on probed devices,    *)
(* and what the loops of init and deinit have reached.                      *)
Serving == /\ TypeOK /\ OpsLeakFree /\ OpsWhileReferenced /\ RefCoversHolders
           /\ AbsentZeroed /\ MutexProbed /\ MatchedVisible /\ ReadyProbed
           /\ JobDiscipline
=============================================================================
