# A TLA+ model of libjl61xx

libjl61xx is the SDK of the JLSemi JL61xx and JL6107x Ethernet switch chips: a C library
linked into an operating system, a boot loader or a microcontroller. This directory holds
TLA+ models of its stateful parts, TLC configurations that check them on small instances,
and theorems that the TLA+ proof system checks for all values of the constants.
Paths below are relative to the repository.

## 1. Inventory

### 1.1 Parts and how they interact

    application            jl_<feature>_<operation>(chip_id, ...)
      |                          src/jl_<feature>.c: JL_DRV_SAFE_CALL (inc/jl_ops.h)
      v
    g_module               src/jl_module.c, jl_switch.c: stat, devices[], drivers[]
      |  device->driver->ops (jl_ops_t)      device->mutex (CONFIG_JL_API_MUTEX)
      v
    chip driver            src/jl61xx/*, src/jl6107x/*: one file per feature, tables per chip
      |  jl_reg_read/write, jl_reg_burst_*   io_desc->mutex (CONFIG_JL_IO_MUTEX)
      v
    register io            src/driver/jl_reg_io.c, then jl_reg_ida.c (SMI, I2C, SPI) or CPU
      |  smi.ops, i2c.ops, spi.ops
      v
    bus drivers            src/driver/smi, i2c, spi, cpu, over src/portable (user's code)
      v
    chip                   registers, IDA engine, a processor with firmware

There is one module object and one driver object per chip series. Devices share their
driver's operations table, which is allocated by the first probe and counted. A call is
synchronous; the SDK has no threads, timers or callbacks of its own. Concurrency is
that of the application's threads, and of the chip, which works at its own pace.

| Part | State it keeps | Operations | What makes it correct |
|---|---|---|---|
| Life cycle (`jl_switch.c`, `jl61xx_drv_switch.c`, `jl_reg_io.c` init, deinit) | `stat`, `device_num`, `devices[]`; per device driver, mutex, `io_desc`; per driver `ops`, `ref_count`; tables per chip | init, deinit; device create, delete, open, close | a device that is offered can be served; ops live exactly while they are referred to; what fails leaves nothing behind |
| Register io, IDA | io mutex, `reserved`; the chip's IDA registers | read, write, bursts | calls are atomic, and answered |
| Link aggregation | three register tables and a control register | enable, portmask, port and group deletion, hash map | ports are partitioned; each packet leaves on one port |
| Patch loader | `g_mdio_devid`, `io_desc`, the chip's mailbox | load during probe | the image is whole; driver and chip use the same way |
| Safe call | the API mutex | every API call | an operation runs on a live device |
| Meter pointers (`jl61xx_drv_switch.c` 445-555) | per pointer, five 8 bit counters of its users | get unused, set, clear | a pointer is in use exactly while it is referred to |
| ACL | rules with lists of entries; TCAM, large and small hash tables with masks and counts; counters shared by rules | rule add, delete, get, counters, MAC rules | lists, masks, counts and tables agree; a failed change undoes itself |
| QoS | saved limits of the packet buffer, the queues each port shall have, the cells each is charged; registers | queue priorities and schedulers, reservation, meters | limits are given back; a port changes only when empty; cells fit the buffer |
| L2 | hash table, collision table and multicast groups in the chip; cursors of searches | set, clear by mode, search, multicast table | an entry leads where it was set; static entries stay; a clear is complete |
| Port isolation | masks of the groups, one array for all devices; the filters in the chip | set by destination, by source, by group; clear | groups isolate; no pair is kept apart that nobody accounts for |
| VLAN, STP, storm, mirror, port, LED, MIB, loop detection, flow control, CPU port, interrupts | registers, and VLAN the meter pointers | setters and getters, table inserts and deletes | read-modify-write keeps the neighbours of a field |
| Bus drivers | pins, MDIO page | bit-banged frames | a frame is framed; pins are given back |
| Port layer, examples, tools, 3rdparty, register headers | - | - | user's code, clients, vendored or generated code |

### 1.2 What is hard here

* **Half-done work.** Nearly every call is a sequence of register accesses or allocations any
  of which may fail; few of them undo what they did, and many drop results.
* **Sharing.** The operations table and its count are shared by the devices of a driver, the
  chip's IDA registers by the application's threads, `g_mdio_devid` by the devices.
* **A second actor.** The chip completes commands late, takes image blocks late, changes the
  address it listens on, and may be dead. It also learns and ages MAC addresses, and fills and
  empties its buffers, between any two accesses of a call.
* **Two copies.** QoS and port isolation remember in the host what they put into the chip: the two part
  after a failure, a reset of the chip, or a restart of the host.
* **Boundaries.** 256 hash slots over any number of ports, 8 bit sizes and counters, poll loops
  that count down with `while (--try)`.

`PROJECT.json` lists the hazards one by one, each at its line and with the properties that
would catch it going wrong, or the reason why none does yet.

## 2. The modules

| Module | Models | State and actions |
|---|---|---|
| `SwitchLifecycle` | `jl_switch.c`, probe and remove of `jl61xx_drv_switch.c`, init and deinit of `jl_reg_io.c` | a variable per object above; an action per API call, one per device for the loops of init and deinit |
| `MC_SwitchLifecycle` | | static devices and sets of faults for TLC |
| `SwitchLifecycle_proofs` | | its theorems |
| `RegisterFile` | what `jl_reg_io.h` offers: atomic registers | invocation, effect, answer of a call |
| `IdaAccess` | `jl_reg_io.c` calls over `jl_reg_ida.c` | one action per bus access of each thread, the chip |
| `MC_IdaAccess`, `IdaAccess_proofs` | | calls for TLC; theorems |
| `Trunks` | what `jl_trunk.h` offers: a partition of the ports | form, leave, dissolve, switch on and off |
| `LinkAggregation` | `jl61xx_drv_trunk.c` | the tables; one action per API call, built of the helpers as functions of the tables |
| `LinkAggregation_proofs` | | its theorems |
| `PatchLoad` | `jl61xx_drv_patch.c` | per device a program counter, one action per register access or delay; the chip |
| `PatchLoad_proofs` | | its theorems |
| `MeterPointers` | the meter pointers of `jl61xx_drv_switch.c` | functions of the users' bytes and of the pointers in use |
| `AclRules` | `jl61xx_drv_acl.c`, and the user of meters in `jl61xx_drv_qos.c`; composes `MeterPointers` | rules, tables, counters; a call is a place and what is left to do, one action per slot or bookkeeping step; the chip and its packets |
| `MC_AclRules`, `AclRules_proofs` | | keys, hashes and wishes for TLC; theorems |
| `QosReserve` | the reservation of packet buffers in `jl61xx_drv_qos.c` | what the driver keeps, the registers, the call that runs; one action per register access; packets, restarts of chip and host |
| `MC_QosReserve`, `QosReserve_proofs` | | priorities and limits for TLC; theorems |
| `MacTable` | `jl61xx_drv_l2.c` | the tables by slot; one action for the choice of a slot, one per write, one per slot of a clear; the chip that learns |
| `MC_MacTable`, `MacTable_proofs` | | hashes and wishes for TLC; theorems |
| `PortIsolation` | `jl61xx_drv_pti.c` | the masks, the filters as pairs of ports; one action per register written |
| `MC_PortIsolation`, `PortIsolation_proofs` | | masks and groups for TLC; theorems |

The drivers of the two chip series are near copies. The models follow jl61xx; the life
cycle has both as two drivers, and the jl6107x trunk and ACL drivers are the same code. The jl6107x
patch loader is the same protocol without SPI and without the pin multiplexer.
Definitions marked *external* in `PROJECT.json` are the chip, modelled from how the
driver uses it. Operators commented `Mutant:` are wrong versions of their neighbour; they
are in no specification and are there to show that the properties notice them.

### 2.1 Switch life cycle

One client calls the API, in any order. A call is one action, since it runs to completion;
the loops of `__driver_match_device` and `__module_exit` are one action per device, in
the order of the loops (drivers, then ids). Every failure with a branch in the code may
happen when its kind is in `Faults`: allocation of the operations or of each of the four
tables (`mmp`, ACL templates, ACL rules, QoS), bus init and deinit, the reads of the
firmware state, the watchdog reset of a removal. `dev[c]` is the `jl_device_t` behind an id
and is all zero where there is none, as in the code, which clears it with `memset`.
`ref` wraps at `RefMod` as the unsigned `ref_count` does at 2^32. The model of init in full:

* a device of no driver (`compat_id` unknown) is skipped and stays NULL-driven;
* the first failure ends the call, and what was probed stays probed;
* a retried init probes these again and counts them twice. `MaxRef` bounds this.

`jl_switch_init_state_set`, which overwrites `stat`, is allowed where `StateSet` says so.
Device ids are in range (`jl_switch.c:125` does not check them) and open is not called on a
device that no driver has probed (`dev[c].bound`; `io_desc.ops.init` would be NULL).

### 2.2 Register io and indirect access

Threads make calls on one device whose io is initialised. A call takes the io mutex, fills
the IDA registers one bus access at a time, sets CMD and polls it with `while (--try)`; the
halves of a word or address are one access. The chip runs a command any time after CMD was
set, or never, with the registers as they were or as they have become. So a call that gives
up leaves a command behind that may run under the next one. `orphan` records that.
`reserved` (set by the patch loader) lets a write return unchecked.

`RegisterFile` is the promise: a call takes effect in one step between its invocation
and its answer. The promise is suspended while a command is left behind and resumes as
soon as a call begins on an idle chip. `AtomicRegisters` is that `IdaAccess` implements it; the
mapping calls a request done when the chip has run the command. The reply is the words
the client gets, so the property covers every word of every burst.

### 2.3 Link aggregation

The driver keeps no state, so the model is the registers: for each chip port the trunk it sends to
(`la`) and the members of the trunk it names (`members`), for each of the hash slots the
ports that send it (`weight`). `HashMapSet` is the loop that gives each member 256 / n
slots and the rest one each from the first. Chip port numbers stand for logical ones,
which map one to one.

The client of the model keeps to `jl_trunk.h`: it names a trunk by the port that leads it, adds only
ports that are in no other trunk, and clears the hash map before it sets another. When
`Faulty`, the last helper of a call may fail; no caller looks at its result.
`Trunks` is the promise, a partition of the ports; `KeepsPartition` that the tables
implement it.

### 2.4 Patch loader

The load hands the image to the chip's boot loader, sixteen bytes at a time, in
`FW_RESERVED20`, with a bit in `FW_RESERVED19` saying that a block is there, and another, at the end,
that the image is to run. A chip strapped to MDIO address 29 or to SPI listens on another
way while it loads (address 0; SMI over SPI) and cannot be read then: the driver skips the
polls and waits. `Ways` are these ways; `desc[d].way` is where the driver talks, `chip[d].way`
where the chip listens; an access on the wrong way fails. The chip's firmware may be slow,
be dead, refuse a block, or crash once started. Any access may fail when `Faulty`.

Assumed of the chip: a `port_udelay` is long enough for what the chip does at all; it takes a
block before the second access after it. Assumed of the client: one probe at a time,
and dynamic devices, whose `jl_dev_t` is copied at each create (a static device whose load
failed on the way keeps the changed address and `reserved`).

### 2.5 Access control rules and meters

A rule is abstracted to the set of keys it splits into, its counter and its meter; the fields,
templates and actions a key stands for are not told apart. A key is a key of the
TCAM or hashes to a few slots of the large and of the small table (`HashLarge`, `HashSmall`); `Room` is the order in
which the driver tries them, and `Lowest` its scan. The lists of `acl_rule[].rule_entry` are sets of slots, since the
driver only walks them from end to end.

`jl61xx_acl_rule_add` is a sequence of steps, as in the code: the room is estimated (`SpaceChk`, with
its bytes), the slots of the old rule are cleared one at a time (`ClearSlot`), the old rule is forgotten
(`InfoClear`), the keys are written one at a time (`WriteKey`), the rule is recorded (`InfoSet`). A key that finds no
slot, or an access that fails while keys are written, leads to `stuck`: what was written is recorded and then taken back
(`undo`), and if that fails too, it stays. `rule_del` and the two counter calls walk the list likewise.
Between any two steps the chip may match a packet (`Match`) and count it.

* `Faults` are register accesses (`reg`), memory for a list entry (`mem`: the slot has been written, so the
  chip keeps an entry nobody lists), and the clearing of a packet counter (`stat`).
* `answer` is what the client was last told of each rule. A rule is `freed` after its counter could not be
  cleared: the driver has freed its entries and kept the pointers to them. What a later call reads there is
  undefined, so the model has no call on such a rule; `Kept` leaves it out, everything else still holds of the others.
* `uncleared` counts those failures, after which `counter[]` is known to be off.
* MAC ranges and the initial pointers of QoS are one action each: their register writes come before their
  bookkeeping, and a failure of the only write changes nothing.

`ByteMod` stands for 256. `MeterPointers` counts down whatever the byte is, as the code does; that no byte goes
below zero is a consequence of `MetersCounted`, not a guard. The number of MAC ranges is not bounded by a byte in the
code: `MaxUse` bounds the uses of a meter by them.

### 2.6 Reservation of packet buffers

`jl61xx_qos_schedule_set` and `jl61xx_qos_queue_priority_set` give a port its priorities; a port with two queues of
one priority needs guaranteed cells. Their call walks the places `off` (queues closed), `drain`, `wait`, `mode`, `prio`,
`undrain`, `on`, with one action each; at every place an access may fail, the port may not get empty in time
(`Tries` looks) or the budget may be spent, and the call is then abandoned where it stands (`Abandon`), as the code does. A write that
fails may have been done. `Fill` and `Empty` are the packets: they come while a queue is open and leave at any time, also never.
`resouce_init` and `resouce_deinit` are a loop each over the limits (`Lower`, `Restore`), which can be cut off too.
`Recreate` is a delete and create, which resets the chip; `Restart` a restart of the host at any step, after which
`jl61xx_qos_init` reads from the chip what was charged.

`out`, `forgot` and `slipped` name what the driver does not keep (section 5). They are the exceptions in the properties: a port
after a failed call about it, limits after a failed or interrupted `resouce_deinit`, and a guarantee whose write seemed to fail.
The cells of the multicast resource only take from the budget and are part of `Budget`. The setters of single registers
(maps, remarks, shapers, meter rates) keep no state and are left out.

### 2.7 MAC tables

A slot is a slot of the hash table or, behind these, of the collision table. `Finds` is the search of `jl61xx_l2_table_set`: the first
way that holds the address, the first that is open, the first open slot of the collision table. Its reads are one action, being
before the first write; then the group (`WriteGroup`), the ageing entry, which makes the slot valid (`WriteAge`), the
lookup entry and the destination are written one by one. A clear visits one slot a step. The chip learns into unused slots,
moves and ages entries between any two steps; ageing does not meet the entry that is being written, since it takes seconds.

A failing access ends a clear, with one exception that the code makes: a clear by address looks at each collision slot with
`_jl61xx_l2_hash_col_check` and tests its result for "the same" only, so a compare that fails is passed over (`Compares`) and the walk
goes on. `done` is the place where a clear answers OK (`ClearReturns`).

`torn` are the slots a failed call left half written, `redirected` the groups a client gave a mask of its own with
`jl61xx_l2_mc_table_set`. A client may ask for any mask, also for all ports, which on a chip of eleven ports is the mask by which the driver
knows a free group (`Free`); `flooded` are the slots of such entries. Of the clear that runs, `missed` are the slots whose compare failed, and
`fresh` those the chip learned into or moved after the walk had passed them. Abstracted: an address stands for itself with its FID; a clear by
mask is one pass, where the code makes one for each group with that mask; the shadows of the ageing tables are not told apart from the tables.
`Clears` and `ByNumber` say which clears and which groups by number a client calls for.

### 2.8 Port isolation

The chip's `src_port_filter` of all ports is a set of pairs of a source and a destination. A call walks `hold` (the firmware's
own filter is suspended), `write` (one port after the other) and `release`; a `group_set` over another mask does so twice, first for the
clear (`op = "change"`), then for the set. The mask is noted after `hold` and forgotten with the last port of a clear, as in the code. Any access may
fail, done or not. `Recreate` resets the chip and leaves the masks, which are a static array.

A set of the noted mask, and a clear where none is noted, is answered without an access (`AnswersOk`); every other call first takes the noted
mask out of the chip, if there is one (`Rewrites`). Groups may overlap. The chip does not count who keeps a pair apart: what the clear
of a group opens is `reopened` on that device until it is set again by a group. `loose` are the groups of a device that a call by
port overruled, and those whose set was answered OK without an access although it was not in force. The masks are one array for all devices:
`Uses` says which groups a client uses where.

## 3. The runs

| Run | Asks | Answer |
|---|---|---|
| `lifecycle_served` | Two drivers, two static devices, a third id for dynamic ones, every fault but a bus that cannot be released: does every device of a READY module pass the assertions of `JL_DRV_SAFE_CALL`, does the operations table live while referred to, does a call on one device leave the others in service, does a failed create leave nothing? | yes: `OpsWhileReferenced`, `RefCoversHolders`, `DevicesServable`, `OthersUndisturbed`, `FailedCreateRollsBack` |
| `lifecycle_all` | With every fault, and with the state overwritten by the client: is the operations table at least never leaked? | yes: `TypeOK`, `OpsLeakFree` |
| `deinit_leak` | Does a deinit that says OK release the drivers? | **no**, `DeinitReleasesDrivers` |
| `ida_calls` | Two threads, overlapping bursts, completion checks on or off: mutual exclusion, ownership of commands, atomic registers, and is every call answered, whatever the chip does? | yes: `TypeOK`, `MutualExclusion`, `CommandsOwned`, `AtomicRegisters`, `CallsAnswered` |
| `trunk_groups` | Four ports, five slots, any calls of a client that keeps to the rules: do the tables agree, does every packet leave once, are shares equal, is the partition kept? | yes: `TypeOK`, `TablesAgree`, `OneEgress`, `EqualShares`, `KeepsPartition` |
| `patch_load` | Two devices, three ways, three blocks, any error: is a patch that starts whole, do driver and chip agree on the way, does every load end? | yes: `TypeOK`, `WholeImage`, `SameWay`, `LoadsAnswered` |
| `acl_rules` | Two rules, two tables' worth of collisions, one failure of any kind anywhere: does each slot have one owner, are shared counters and meters counted right, is a rule that was answered OK in the chip as asked and, without failures, nothing else, does a free counter start at zero, do calls leave other rules alone? | yes: `TypeOK`, `SlotsOwned`, `CountersCounted`, `MetersCounted`, `RulesInForce`, `FreeCountersReadZero`, `OthersUndisturbed` |
| `qos_reserve` | Two ports of which one can have guaranteed cells, a failing access anywhere, packets and restarts at any time: is no limit lost, does a port change only while empty, is a port out of service only after a failed call about it, do the guaranteed cells fit? | yes: `TypeOK`, `LimitsKept`, `ChangedEmpty`, `OutOfService`, `BudgetKept` |
| `l2_tables` | Two addresses of one bucket, a collision table, two groups, every way to set and clear, two failing accesses anywhere, a chip that learns, moves and ages: does every finished entry but those for all ports lead where it was sent, do dynamic entries leave static ones alone, is a clear that answers OK complete but for failed compares and the collision slots of a FID? | yes: `TypeOK`, `NeverElsewhere`, `ClearComplete`, `DynamicKeepsStatic` |
| `l2_static` | Does a static set spare the static entries of other addresses? | **no**, `StaticKept` |
| `pti_groups` | Two groups with any masks on one device of two, calls by port besides, a failing access anywhere, resets of the chip: does a group that was set isolate its ports, but for the pairs that another group's clear opened, and is every pair that is kept apart accounted for? | yes: `TypeOK`, `GroupIsolated`, `PairsKnown` |
| `pti_answers` | Two groups on two devices: does a group whose set was answered OK isolate its ports also where the driver found no access required? | **no**, `AnsweredIsolated` |

### 3.1 Bounds, and why they are enough

* *Life cycle.* Three ids: two devices of one driver, so that one can disturb the other and the
  count reaches 2 and 1, and one that comes and goes. `MaxRef = 2` bounds the
  count before a probe, `RefMod = 4` keeps the wrap at 0 apart from every count reached.
* *IDA.* Two threads and two registers: bursts that overlap, a word in the first half
  of one and the second of another, a size that wraps to 0. The poll loop runs once or twice before it
  gives up, so a command completes before, while and after it is polled, and under the next
  call. The run checks liveness, so it uses no symmetry.
* *Trunks.* Four ports make two trunks of two or one of three or four; five slots divide by none
  of 2, 3 and 4, so there is always a rest, and with four ports and five slots it is a rest of one, with three a rest of two.
  Port 0 is a member because `la = 0` also means "cleared". A helper writes a table entry at
  a time; calls run one at a time, so the model makes it one step.
* *Patch.* Three blocks: a first, a middle and a last. Three tries: the loop ends by success,
  by another round, and by running out. Two devices share `g_mdio_devid`.
* *ACL.* Two rules share slots, counters and the meter. Three keys hash to the same slot of each table and then
  compete for the only TCAM slot with a fourth that can go nowhere else, so every way of `Room` is taken and the last
  key of a big rule finds none; slot 11 is free and counted by `SpaceChk`, but no key hashes to it. The rule of four
  keys also wraps the numbers of `SpaceChk` (`ByteMod = 4`). One failure (`MaxFailures`) at every point of every call,
  each followed by every further call. `MaxUse = 3` is the largest byte, so a meter's count is taken to its limit by
  adding and deleting a range.
* *QoS.* Two interchangeable ports, `PortCells = 2` and `Budget = 3`: a second guarantee finds no room. Two queues give a strict
  and a shared order. Three limits, of which one is below the floor and stays: the loops end at the first, a middle or the last. Two looks at a port
  (`Tries`): it is empty at once, later, or never. One failure at every access, each followed by every further call and by restarts.
  `ChangedEmpty` is a safety property, so symmetry of the ports is sound.
* *L2.* Two addresses of a bucket of one way, and two collision slots: the second address spills, a set finds the tables full when learned
  entries have them too, and the walk of a clear goes on behind a compare that failed. Of two groups clients write one by number; entries for a mask and
  for all ports (`Free`) take the same groups. Two failures, so that one may mislead a compare and another cut off the same or a later call.
  `l2_static` has two ways, one collision slot and three addresses.
* *Port isolation.* Three ports, masks of two and of all three, so that two groups have one port or the same two in common, and none; two groups on one of
  two devices, so that one group changes in every phase of the other's life. Calls by port on port 2. One failure. Groups on several
  devices are in `pti_answers` and, for `GroupIsolated`, in the theorem.

### 3.2 Fairness

`ida_calls`: each thread keeps running once it has the mutex (weak fairness of its steps) and gets
a mutex that is free again and again (strong fairness of `Acquire`): what an operating
system's scheduler and mutex give. Nothing is assumed of the chip.

`patch_load`: the driver keeps running (weak fairness of `Advance`). Nothing is
assumed of the chip, and no fault is bound to happen: an access that fails because driver and
chip are on different ways is part of `Advance`, one that fails by chance is not.

## 4. The proofs

| Theorem | Says | Under |
|---|---|---|
| `SwitchLifecycle_proofs!TypeCorrect` | `Spec => []TypeOK` | - |
| `OperationsNeverLeak` | `Spec => []OpsLeakFree` | - |
| `EveryHolderCounted`, `ReferencedHasOperations`, `ReadyModuleServes` | `RefCoversHolders`, `OpsWhileReferenced`, `DevicesServable` | `WellUsed` |
| `CallsSpareOthers`, `FailedCreateUndone` | `Spec => OthersUndisturbed`, `Spec => FailedCreateRollsBack` | `WellUsed` |
| `IdaAccess_proofs!TypeCorrect`, `IoMutexExcludes`, `CommandsAreOwned` | `TypeOK`, `MutualExclusion`, `CommandsOwned` | - |
| `CallsAreAtomic` | `Spec => AtomicRegisters`, the refinement of `RegisterFile` | `WellAsked` |
| `LinkAggregation_proofs!TypeCorrect`, `GroupTablesAgree`, `EveryPacketHasOneEgress`, `SharesAreEqual` | `TypeOK`, `TablesAgree`, `OneEgress`, `EqualShares` | `~ Faulty` |
| `TablesPartition` | `Spec => KeepsPartition`, the refinement of `Trunks` | `~ Faulty` |
| `PatchLoad_proofs!LoadTypeCorrect`, `PatchesAreWhole`, `DriverFollowsChip` | `TypeOK`, `WholeImage`, `SameWay` | - |
| `AclRules_proofs!TypeCorrect`, `SlotsAreOwned`, `CountersAreCounted`, `MetersAreCounted` | `TypeOK`, `SlotsOwned`, `CountersCounted`, `MetersCounted` | - |
| `RulesStayInForce`, `FreeCountersStartAtZero` | `RulesInForce`, `FreeCountersReadZero` | - |
| `AclRules_proofs!OthersAreUndisturbed` | `Spec => OthersUndisturbed` | - |
| `QosReserve_proofs!Typing`, `Limits`, `EmptyPorts`, `Service`, `Cells` | `TypeOK`, `LimitsKept`, `ChangedEmpty`, `OutOfService`, `BudgetKept` | - |
| `MacTable_proofs!Typing`, `Destinations`, `StaticEntries`, `ClearsComplete` | `TypeOK`, `NeverElsewhere`, `DynamicKeepsStatic`, `ClearComplete` | - |
| `PortIsolation_proofs!Typing`, `Isolation` | `TypeOK`, `GroupIsolated` | - |
| `PortIsolation_proofs!FilterAccounted` | `Spec => []PairsKnown` | `OneDeviceEach` |

All hold for all values of the constants that meet the named assumptions: any drivers, threads and
devices, any finite set of ports, any number of slots, blocks and tries, any finite tables, rules and hash functions and any
number of failures. The assumptions of `AclRules` on sizes are what the code has: no table, and not the rules nor the
inputs, are as many as a byte can count. Along which argument:

* **Life cycle.** `OpsLeakFree` is inductive with `TypeOK`: each branch of probe and remove that changes
  `ref` or `ops` changes both alike. `DevicesServable` is not: a device could be READY and
  unprobed, or its count could be wrong. `Serving` adds that absent devices are zeroed, that a mutex is set
  only on a probed device, that a READY module has only probed devices, and, for the loops
  of init and deinit, that a visible device outside `todo` is probed. Counting is the
  heart: `RefCoversHolders` bounds a cardinality, so each step that removes a holder must take
  away at most one reference. `WellUsed` names what the code needs for it: buses can be released
  (section 5 says what happens otherwise), the state is not overwritten, static devices have drivers.
  The action properties are read off the same invariant. `OthersUndisturbed`: what is served before a call of a READY module is
  served after it, since `Serving` holds on both sides. `FailedCreateRollsBack`: the id was absent and so zeroed, and each way out of
  the probe (`ProbeWithoutOps`, `ProbeWithoutIo`, `ProbeWithoutCore`) gives back what it took; that a fresh driver holds no table is
  `OpsLeakFree`.
* **IDA.** `MutualExclusion` is inductive with the types of its variables (`Control`). `CommandKnown` says that a
  running command is an orphan or belongs to the holder of the mutex, which is then at the poll or past it: it
  needs mutual exclusion, since only the holder can issue a command. `BufferClean` strengthens the second half of
  `CommandsOwned`: the data buffer is empty from the moment a command has run, so also at the unlock.
  `OwnCalls` adds to the types what each thread has in hand at each place (`Own`: which call, how many words are filled in or fetched),
  which is why no call reads past the words it was given. `AtomicRegisters` is a step simulation. `Faithful` says, while no command is left
  behind, that the IDA registers are those of the call in the mutex: the buffer is the words filled in so far, the command that runs is the
  one asked for, and the words fetched and those left make up the burst. `Seen` says when a call may take the chip for idle.
  Under these each step of the code is a step of `RegisterFile` or a stutter: the step of the chip that runs the command is the effect
  (`Perform`), the bus accesses before and after it stutter. `WellAsked` says that the registers a call reads exist, and
  that no size beyond a burst wraps to a smaller one; with such a size the call does less than it is asked for and says OK (section 5).
* **Trunks.** `Consistent` holds whether aggregation is on or off: a listed port sends to the trunk that
  lists it or is a left-over entry of one port (section 5), a trunk that lists anybody lists its
  leader, and a port that is listed at all is listed where it sends. With every port listed, which is so once aggregation is
  on, this gives `TablesAgree`. `AllServed` is `OneEgress`. The lemmas say of each helper, as a function of the tables, what it does to either; a
  member that leaves a trunk is shown to be a `portmask_set` of the rest (`MemberDelIsPortmaskSet`). The arithmetic is
  in `OwnerIsMember`: the equal shares and the left-over slots name a member each, whatever the number of members.
  `KeepsPartition` is a step simulation on the lemmas about the helpers: `Consistent` makes the group of a port (`la` and `members` agree)
  a partition, and each call a step of `Trunks`. For `EqualShares` the invariant is `AllSliced`: the slots of a trunk are
  divided as `HashMapSet` would among some of its members, who then have the share or one more each (`RankBound`, `OwnedSlots`, `SharesEven`:
  a member of rank r owns the slots of one interval and at most one left-over slot). A port that joins has none until the map is set again.
* **Patch loader.** The invariant is per device and over values, so that one lemma serves every step:
  `Addressed` (`g_mdio_devid` is the address of this device while it loads, which needs `OneAtATime`), `WayKept` (the
  way each side uses at each place of the load), and `Mailbox`: the blocks taken and the one in the mailbox are
  the blocks written so far, in order. `WholeImage` and `SameWay` are then read off at the places that matter.
* **ACL.** Four invariants, each inductive with the ones before. `CallShape` says what a call has in hand at
  each of its places: a rule that is being written is not valid, slots are taken only while writing, what is left to visit
  is in the rule's list. `OwnedNow` is `SlotsOwned` with the union spelled out; it is kept because `Room` looks at the mask
  before a slot is taken (`WriteOwned`), a list is removed whole from mask and counts (`ClearOwned`, the arithmetic of bytes
  being `CountDown`), and the new slots become the list of a rule that was not valid (`SetOwned`). `OthersUndisturbed` follows
  from it: a step writes a free slot or one in the list of its own rule. `MetersRight` and `CountersRight` equate a byte with the
  number of users; a step that moves a user from one counter to another changes the two sides by the same ones
  (`UsesLess`, `UsesMore`, `UsesChange` against `CounterMovesCounts`, `MeterMovesCounts`), and no byte wraps because there are
  fewer users than values. `RulesInForce` speaks of the moments between calls; `Standing` of every moment: the answer on every rule but
  one that is being replaced or deleted is true of the chip, where `CounterIn` is the counter a slot has while a call changes the
  rule's (`InForce`), and the keys a call has written are in as many slots it took (`KeysWritten`). The rules of other calls need
  `OthersUndisturbed`. While nothing has failed there is `Calm`: a slot of the chip is in use exactly when the running call took it or it is in a list and
  not yet visited (`ChipAccounted`), so that what a packet counts for is a rule's counter or the one of the running call
  (`PacketsAccounted`); that a counter is cleared exactly when its last rule gives it up is `CountersRight` again (`OtherUser`).
* **QoS.** `LimitInv` ties each limit to its saved copy: a limit is the firmware's in the chip, or it is lowered to the floor and the firmware's is saved;
  nothing is saved outside a stay of `resouce_init` or its restore, and the restore has put back all below its index. `EmptyInv` says
  that the port's queues are closed from `drain` on and that it holds no packet from `mode` on, which no packet can change while they are
  closed. `ServiceInv` says that every port not in `out` has the queues it was asked for noted, and, unless it is the call's own, open and not
  draining; for the call's own port that it has left the drain mask, one register for all ports, by `on`. `BudgetInv`: unless a
  call slipped, the ports in guarantee mode are among those charged, and these fit.
* **MAC tables.** `Hashed`: an address is only in slots its hash leads to, or in the collision table; it is what makes a clear by address complete. `CallInv`
  is the entry that a call has in hand: its group has the mask it was taken for. `LeadInv` adds to `NeverElsewhere` that no entry it speaks of leads to
  a group that looks free: a set takes a group that looks free or has its own mask, so it changes where none of them leads, and the entries that
  get a group with the mask `Free` are `flooded`. `SlotInv`: the slot found for a dynamic set holds no static entry of another address, and the
  chip, which learns dynamic entries only, makes it none. `ClearInv`: of the slots the walk has passed, all but those in `missed` and `fresh`
  and the collision slots of a FID hold no valid entry the clear is about: `AboutCleared` says that the walk takes every such entry, `Hashed` being
  needed for an address, and what the chip writes behind the walk is `fresh`. The driver runs no set while it clears, and a clear moves no group's mask.
* **Port isolation.** `IsolationInv` is `GroupIsolated` with what the call that runs may do to groups in force: a call by port is about a port of no
  group but loose ones (`Overruled`); what a clear takes out is in `reopened` before its first write (`Taking`), on the device it writes,
  so that the other devices need no assumption on `Uses`; a set has every pair of its mask in the chip or still to be written (`Adding`), which is why
  the pairs of its mask leave `reopened` when it is done. `KnownInv` is `PairsKnown` with its mirror image: while a noted mask is cleared, every pair of
  the chip is accounted for by something else or its destination is still to be written (`Clearing`); a set has noted its mask where none was
  noted (`Setting`). `OneDeviceEach` names what the code needs for this: with a group on two devices the mask forgotten on one is still in the other.

Every safety property that a passing run checks is the subject of a theorem. Only model-checked: the liveness properties
`CallsAnswered` and `LoadsAnswered`, as fairness and ENABLED are out of this prover's reach, and so is induction over data; what a recursive
definition computes for every input is not claimed anywhere. The runs that end in a violation have nothing to prove. The theorems say of
the bounds (`MaxRef`, `MaxUse`, `MaxFailures`, `Try`, `Tries`) no more than the assumptions do: any values.

## 5. What the checks found

1. `deinit_leak`: a device whose removal failed is unlinked by deinit; the next deinit says OK with the
   driver still referred to and its operations allocated (`src/jl_switch.c:295`).
2. `l2_static`: a static set whose bucket is full of static entries writes the hash slot of the collision slot's number
   (`src/jl61xx/jl61xx_drv_l2.c:518`) instead of the collision slot, over the static entry of another address; the dynamic branch does it right
   (559). From collision slot 4 on the slot is beyond the ways of the bucket, which the model leaves out.
3. `pti_answers`: a set compares with the noted mask (`src/jl61xx/jl61xx_drv_pti.c:159`), which is one for all devices and noted before the ports are written,
   and says OK without an access when they are the same: on a second device, as the run shows, and likewise after a set that failed
   half-way and after the chip was reset. The ports then reach each other.

Seen while modelling, without a run: `jl_reg_io_deinit` marks the io uninitialised although its bus could not be released, so the next
deinit says OK and the bus is never released (`jl_reg_io.c:455`); `jl_reg_io_init` marks the io initialised although the bus is not, so a
second open says OK (`jl_reg_io.c:431`); when the port that names a trunk leaves it, the others stay listed as groups of their own
(`jl61xx_drv_trunk.c:217`); the integrity check of a patch cannot fail a load (`jl61xx_drv_patch.c:329`); deleting a closed device frees its
tables and then fails; a burst of more than 255 words is cut to its low byte (`jl_reg_io.c:412`); a trunk that loses its leader is renamed
after the lowest *chip* port, while `inc/jl_trunk.h:128` speaks of logical ports (the JL6110's extension port 26 is chip port 0,
`jl61xx_chip.c:96`); a port added to a second trunk stays listed in the first (`jl61xx_drv_trunk.c:328`); disabling the aggregation drops
the errors of clearing its tables (`jl61xx_drv_trunk.c:283`); remove gives up operations and reference although the bus cannot be released,
and the device stays (`jl61xx_drv_switch.c:902`; `DevicesServable` fails with that fault); the debug loops of `__pinmux_read` and
`__pinmux_write` run over the bytes of an array of ten words (`jl61xx_drv_patch.c:350`, 371); over SPI nothing of a patch is verified; a
time-out of the SMI controller is answered as a failure (`hal_jl51xx_smi.c:95`).

In the ACL driver (`jl61xx_drv_acl.c`): deleting a MAC range counts the uses of its meter up (3290, 3305) instead of down, so the meter is never offered
again (`MacRuleDel` has it so, and `MetersCounted` allows a meter more uses by ranges than it has ranges); when memory for a list entry fails, the slot has been written and stays in force
without an owner, so not even `jl_acl_rule_del_all` removes it (1947-1954); a counter that cannot be cleared leaves a
rule with a list of freed entries (1610); a replacement that does not fit after all has lost the rule it replaced (2660),
which the estimate of room allows, counting free hash slots anywhere and in bytes (1744-1802); the counter of
a rule may be counted down twice when a disable is repeated after its clearing failed (1565); inserting a field of the same type as the first
drops the rest of the list (917-984); in the small table `new_vid` is never written (497). The VLAN table
refers to meters (`jl61xx_drv_vlan.c:128`) without counting itself as a user.

In the QoS driver (`jl61xx_drv_qos.c`): a call that ends with an error between draining and recovery leaves its port drained and its
queues closed (2056-2070); when only the recovery failed, a retry finds the priorities set, says OK, and the port stays dead. The JL6107x driver has a
`RECOVER` label for this (`jl6107x_drv_qos.c:1987`), but not for the write of the priorities. A `resouce_deinit` that failed
half-way and is called again says OK with limits still lowered, since `res_init` was cleared first (3567), and the next `resouce_init` forgets
them; a failed `resouce_init` that is called again says OK likewise (3526). A guarantee whose write failed and was done later is never charged. A restart of the host
forgets the lowered limits, and one in the middle of a call takes the closed queues for the ones the port shall have. In the
JL6107x driver the restart indexes its table by logical ports.

In the L2 driver (`jl61xx_drv_l2.c`): the mask of all eleven ports of a JL6110 is the mark of a free group (0x7FF), so the next multicast
entry with another mask takes over the group of an entry for all ports (150); the JL6107x has the same with 0xFF. `NeverElsewhere` without
`flooded` fails so. A clear by address passes over a compare that failed on the bus (1127) and answers OK (1138) with the entry still valid,
and one by FID zeroes its copy of the lookup entry where it means the ageing entry (1032), so the collision slots of the FID stay valid;
`ClearComplete` without these exceptions fails. A clear of an address takes the other addresses of the bucket too. The last entry of the
collision table, which the chip may use, is never written, cleared or searched. An entry is made valid before its address and destination
are written (176): a failure in between leaves a valid entry that leads where the last one in that slot did, or one of the last address, and
nothing takes it back. A compare whose read fails counts as "the same" in the collision table, so the set overwrites whatever is there.
Groups are never given up. The cursors of the searches are statics shared by all devices (22).

In the isolation driver (`jl61xx_drv_pti.c`): a clear takes every pair of its mask out of the chip (244), also those that another group in force has: after sets
of {0,1,2} and {1,2} and a clear of the second, ports 1 and 2 of the first reach each other, against `inc/jl_pti.h:127`, which forbids no overlap; `AnsweredIsolated` fails
so, too. A restart of the host forgets the masks, and the chip keeps the pairs. A group that is used on two devices
and cleared on one stays in the other, where no clear takes it out any more. `FW_RESERVED14` is written back from one read at the start of the call.

## 6. Not modelled, and the plan

Not modelled: the parts marked so in `PROJECT.json`; vendored and generated code, the user's port layer, the
examples and tools for good. In the modelled parts: getters, logging, formatting of register
words, range checks that refuse and change nothing, delays as times.

Planned, the most important first:

1. `SafeCall`: `JL_DRV_SAFE_CALL` with the API mutex by several threads, against create and delete,
   which take no lock; abstract specification: an operation runs on a live device and excludes others on it.
   With it read-modify-write setters of one register by two threads: no update is lost.
2. The rest of ACL: templates, field lists and the split of a rule into keys.
3. The rest of L2 (searches, drop entries, fast clear, ageing), VLAN, STP, storm, mirror, port.
4. `Algorithms`: bit fields over register words (`jl_reg_io.c` 271-310), the split of ACL ranges into
   value and mask (`jl61xx_drv_acl.c` 3529-3705), `__device_reorder`, each against a reference definition.
5. Bit-banged SMI and I2C frames.
6. Proofs of the invariants of 1 and 2.
