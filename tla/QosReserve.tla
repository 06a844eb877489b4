----------------------------- MODULE QosReserve -----------------------------
(***************************************************************************)
(* How egress queues share the packet buffer (jl61xx_drv_qos.c).           *)
(*                                                                         *)
(* A port whose queues all have priorities of their own lives under the    *)
(* limits of the chip; one with queues of the same priority (DWRR) gets    *)
(* cells of its own, which all ports share out of one budget.  A port must *)
(* be empty when that changes: its queues are closed, it is drained and    *)
(* watched until it is empty, changed, and put back into service.  Between *)
(* resouce_init and resouce_deinit the limits are lowered to make room,    *)
(* and the driver keeps the old ones.                                      *)
(*                                                                         *)
(* A call is a sequence of register accesses, one a step; one call runs at *)
(* a time, packets come and go between any two steps.  A write that fails  *)
(* may have been done: the chip can execute a command after its timeout.   *)
(* Ports are chip ports; checks of arguments refuse and change nothing.    *)
(***************************************************************************)
EXTENDS Integers, FiniteSets

CONSTANTS
  Ports, NoPort,        \* chip ports; no call is about a port
  QueueNum,             \* QOS_QUEUE_NUM: queues, and priorities
  Masks, Maps,          \* queue masks and priorities clients ask for
  PointerNum,           \* QOS_RESOURCE_MANAGEMENT_POINTER_NUM: limits
  FwXon,                \* the limits the firmware sets
  Floor,                \* QOS_RES_LIMITER_XON
  NoLimit,              \* 0xffff
  PortCells,            \* cells of a guaranteed port: QOS_QUEUE_NUM * guarantee[0]
  Budget,               \* QOS_RESOURCE_TOTAL_CELLS without margins and multicast
  Tries,                \* how often a port is looked at until it is empty
  MaxFailures           \* bound: failures of the bus

Queues   == 0 .. QueueNum - 1
Pointers == 0 .. PointerNum - 1

ASSUME PortsAssumption    == IsFiniteSet(Ports) /\ NoPort \notin Ports
ASSUME NumbersAssumption  == QueueNum \in Nat \ {0} /\ PointerNum \in Nat \ {0}
ASSUME AskedAssumption    == Masks \subseteq SUBSET Queues /\ Maps \subseteq [Queues -> Queues]
ASSUME LimitsAssumption   == Floor \in Nat /\ FwXon \in [Pointers -> Nat] /\ NoLimit \notin Nat
ASSUME CellsAssumption    == PortCells \in Nat /\ Budget \in Nat
ASSUME BoundsAssumption   == Tries \in Nat \ {0} /\ MaxFailures \in Nat

VARIABLES
  \* gp_res_mag_grt[] and g_rsvd_limiter_xon[]
  res_init,
  enqueue_mask,         \* the queues a port shall have
  charged,              \* ports whose resource[].mode is guarantee
  saved,                \* the limits to put back
  \* the registers
  xon, q_on, drain_mask,
  mode,                 \* ports in guarantee mode
  prio,                 \* MAP_QUEUE_TO_PRIORITY
  busy,                 \* external: ports with packets in the buffer
  \* the call that runs
  pc, port,
  new,                  \* the priorities asked for
  idx,                  \* a limit, or how often the port has been looked at
  \* history
  asked,                \* the queues the client asked for last
  out,                  \* ports a call about which has failed, until one puts it right
  forgot,               \* a resouce_deinit failed, or the host restarted with limits lowered
  slipped,              \* a port got its guarantee from a write that seemed to fail
  failures

driver  == <<res_init, enqueue_mask, charged, saved>>
chip    == <<xon, q_on, drain_mask, mode, prio, busy>>
call    == <<pc, port, new, idx>>
history == <<asked, out, forgot, slipped, failures>>
vars    == <<driver, chip, call, history>>

Prios      == [Queues -> Queues]
FwPrio     == [q \in Queues |-> q]
ScheduleSteps == {"off", "drain", "wait", "mode", "prio", "undrain", "on"}

TypeOK ==
  /\ res_init \in BOOLEAN
  /\ enqueue_mask \in [Ports -> SUBSET Queues]
  /\ charged \subseteq Ports
  /\ saved \in [Pointers -> Nat \union {NoLimit}]
  /\ xon \in [Pointers -> Nat]
  /\ q_on \in [Ports -> SUBSET Queues]
  /\ drain_mask \subseteq Ports
  /\ mode \subseteq Ports
  /\ prio \in [Ports -> Prios]
  /\ busy \subseteq Ports
  /\ pc \in ScheduleSteps \union {"idle", "lower", "restore"}
  /\ port \in Ports \union {NoPort}
  /\ pc \in ScheduleSteps <=> port \in Ports
  /\ new \in Prios
  /\ idx \in Nat
  /\ asked \in [Ports -> SUBSET Queues]
  /\ out \subseteq Ports
  /\ forgot \in BOOLEAN
  /\ slipped \in BOOLEAN
  /\ failures \in 0 .. MaxFailures

\* the chip as its firmware leaves it, and jl61xx_qos_init
Init ==
  /\ res_init = FALSE /\ charged = {}
  /\ enqueue_mask = [p \in Ports |-> Queues]
  /\ saved = [i \in Pointers |-> NoLimit]
  /\ xon = FwXon /\ q_on = [p \in Ports |-> Queues]
  /\ drain_mask = {} /\ mode = {} /\ prio = [p \in Ports |-> FwPrio] /\ busy = {}
  /\ pc = "idle" /\ port = NoPort /\ new = FwPrio /\ idx = 0
  /\ asked = [p \in Ports |-> Queues]
  /\ out = {} /\ forgot = FALSE /\ slipped = FALSE /\ failures = 0

-----------------------------------------------------------------------------
(* How a step ends.                                                         *)

At(next)  == pc' = next /\ UNCHANGED <<port, new, idx>>
\* Mutant: the call leaves its port behind.
CallEndsKeepsPort == pc' = "idle" /\ new' = FwPrio /\ idx' = 0 /\ UNCHANGED port

CallEnds  == pc' = "idle" /\ port' = NoPort /\ new' = FwPrio /\ idx' = 0
Fault     == failures < MaxFailures /\ failures' = failures + 1
NoFault   == UNCHANGED failures

\* the port is left as it is: jl61xx_qos_queue_priority_set returns what failed
Abandon   == CallEnds /\ out' = out \union {port}

-----------------------------------------------------------------------------
(* jl61xx_qos_queue_priority_set                                            *)

\* the priorities of jl61xx_qos_schedule_set: DWRR queues share the last one
SchedulePrio(dwrr) ==
  [q \in Queues |-> IF q \in dwrr THEN QueueNum - 1
                    ELSE Cardinality({r \in Queues \ dwrr : r < q})]

NeedsGuarantee(pri) == \E q, r \in Queues : q # r /\ pri[q] = pri[r]

\* up to the first write
PrioritySet(p, pri) ==
  /\ pc = "idle" /\ pri # prio[p]
  /\ pc' = "off" /\ port' = p /\ new' = pri /\ idx' = 0
  /\ UNCHANGED <<driver, chip, history>>

ScheduleSet(p, dwrr) ==
  /\ res_init /\ Cardinality(dwrr) # 1
  /\ PrioritySet(p, SchedulePrio(dwrr))

\* jl61xx_qos_drain_port
QueuesOff ==
  /\ pc = "off"
  /\ LET off == [q_on EXCEPT ![port] = {}] IN
     \/ q_on' = off /\ At("drain") /\ NoFault /\ UNCHANGED out
     \/ q_on' \in {q_on, off} /\ Fault /\ Abandon
  /\ UNCHANGED <<driver, xon, drain_mask, mode, prio, busy, asked, forgot, slipped>>

Drain ==
  /\ pc = "drain"
  /\ \/ drain_mask' = {port} /\ At("wait") /\ NoFault /\ UNCHANGED out
     \/ drain_mask' \in {drain_mask, {port}} /\ Fault /\ Abandon
  /\ UNCHANGED <<driver, xon, q_on, mode, prio, busy, asked, forgot, slipped>>

\* Mutant: the port is taken to be empty when time is up.
WaitGivesIn ==
  /\ pc = "wait"
  /\ \/ /\ port \notin busy \/ idx + 1 >= Tries
        /\ At("mode") /\ NoFault /\ UNCHANGED out
     \/ /\ port \in busy /\ idx + 1 < Tries
        /\ idx' = idx + 1 /\ NoFault /\ UNCHANGED <<pc, port, new, out>>
  /\ UNCHANGED <<driver, chip, asked, forgot, slipped>>

\* jl61xx_qos_check_port_empty, one look
WaitEmpty ==
  /\ pc = "wait"
  /\ \/ /\ port \notin busy
        /\ At("mode") /\ NoFault /\ UNCHANGED out
     \/ /\ port \in busy /\ idx + 1 < Tries
        /\ idx' = idx + 1 /\ NoFault /\ UNCHANGED <<pc, port, new, out>>
     \/ /\ port \in busy /\ idx + 1 >= Tries   \* JL_ERR_BUSY
        /\ NoFault /\ Abandon
     \/ Fault /\ Abandon
  /\ UNCHANGED <<driver, chip, asked, forgot, slipped>>

\* jl61xx_qos_guarantee_res_chk
Fits(ports) == Cardinality(ports) * PortCells + PortCells <= Budget

\* jl61xx_qos_res_manage_mode_set
ModeSet ==
  LET want    == NeedsGuarantee(new)
      With(S) == IF want THEN S \union {port} ELSE S \ {port} IN
  /\ pc = "mode"
  /\ \/ /\ want = (port \in mode)              \* has been set already
        /\ At("prio") /\ NoFault /\ UNCHANGED <<mode, charged, slipped, out>>
     \/ /\ want # (port \in mode) /\ want /\ ~Fits(charged)   \* JL_ERR_RESOURCE
        /\ NoFault /\ Abandon /\ UNCHANGED <<mode, charged, slipped>>
     \/ /\ want # (port \in mode) /\ (want => Fits(charged))
        /\ mode' = With(mode) /\ charged' = With(charged)
        /\ At("prio") /\ NoFault /\ UNCHANGED <<slipped, out>>
     \/ /\ want # (port \in mode) /\ (want => Fits(charged))
        /\ mode' = With(mode) /\ slipped' = (slipped \/ want)
        /\ Fault /\ Abandon /\ UNCHANGED charged
     \/ Fault /\ Abandon /\ UNCHANGED <<mode, charged, slipped>>
  /\ UNCHANGED <<res_init, enqueue_mask, saved, xon, q_on, drain_mask, prio, busy, asked, forgot>>

PrioWrite ==
  /\ pc = "prio"
  /\ LET set == [prio EXCEPT ![port] = new] IN
     \/ prio' = set /\ At("undrain") /\ NoFault /\ UNCHANGED out
     \/ prio' \in {prio, set} /\ Fault /\ Abandon
  /\ UNCHANGED <<driver, xon, q_on, drain_mask, mode, busy, asked, forgot, slipped>>

\* Mutant: only the queues are opened again.
UndrainSkipped ==
  /\ pc = "undrain" /\ At("on")
  /\ UNCHANGED <<driver, chip, history>>

\* jl61xx_qos_recover_port
Undrain ==
  /\ pc = "undrain"
  /\ \/ drain_mask' = {} /\ At("on") /\ NoFault /\ UNCHANGED out
     \/ drain_mask' \in {drain_mask, {}} /\ Fault /\ Abandon
  /\ UNCHANGED <<driver, xon, q_on, mode, prio, busy, asked, forgot, slipped>>

QueuesOn ==
  /\ pc = "on"
  /\ LET on == [q_on EXCEPT ![port] = enqueue_mask[port]] IN
     \/ /\ q_on' = on /\ NoFault /\ CallEnds
        /\ out' = IF enqueue_mask[port] = asked[port] THEN out \ {port} ELSE out
     \/ q_on' \in {q_on, on} /\ Fault /\ Abandon
  /\ UNCHANGED <<driver, xon, drain_mask, mode, prio, busy, asked, forgot, slipped>>

\* jl61xx_qos_enqueue_enable_set
EnqueueEnableSet(p, mask) ==
  /\ pc = "idle"
  /\ LET on == [q_on EXCEPT ![p] = mask] IN
     \/ /\ q_on' = on /\ NoFault
        /\ enqueue_mask' = [enqueue_mask EXCEPT ![p] = mask]
        /\ asked' = [asked EXCEPT ![p] = mask]
        /\ out' = IF p \in drain_mask THEN out ELSE out \ {p}
     \/ /\ q_on' \in {q_on, on} /\ Fault
        /\ out' = out \union {p} /\ UNCHANGED <<enqueue_mask, asked>>
  /\ UNCHANGED <<res_init, charged, saved, xon, drain_mask, mode, prio, busy, call, forgot, slipped>>

-----------------------------------------------------------------------------
(* jl61xx_qos_resouce_init and jl61xx_qos_resouce_deinit                    *)

\* Mutant: the limits count as saved when all of them are lowered.
ResInitFlagLast ==
  /\ pc = "idle" /\ ~res_init
  /\ \E n \in 0 .. PointerNum :
       /\ saved' = [i \in Pointers |-> IF i >= n THEN saved[i]
                                       ELSE IF xon[i] > Floor THEN xon[i] ELSE NoLimit]
       /\ IF n = PointerNum THEN pc' = "lower" /\ NoFault ELSE Fault /\ UNCHANGED pc
  /\ UNCHANGED <<res_init, enqueue_mask, charged, chip, port, new, idx, asked, out, forgot, slipped>>

\* the limits are read, up to the one whose register cannot be
ResInit ==
  /\ pc = "idle" /\ ~res_init
  /\ res_init' = TRUE
  /\ \E n \in 0 .. PointerNum :
       /\ saved' = [i \in Pointers |-> IF i >= n THEN saved[i]
                                       ELSE IF xon[i] > Floor THEN xon[i] ELSE NoLimit]
       /\ IF n = PointerNum THEN pc' = "lower" /\ NoFault ELSE Fault /\ UNCHANGED pc
  /\ UNCHANGED <<enqueue_mask, charged, chip, port, new, idx, asked, out, forgot, slipped>>

\* one limit is lowered
Lower ==
  LET low  == IF saved[idx] = NoLimit THEN xon ELSE [xon EXCEPT ![idx] = Floor]
      last == idx = PointerNum - 1 IN
  /\ pc = "lower"
  /\ \/ /\ xon' = low /\ NoFault
        /\ IF last THEN CallEnds ELSE idx' = idx + 1 /\ UNCHANGED <<pc, port, new>>
     \/ /\ saved[idx] # NoLimit /\ xon' \in {xon, low} /\ Fault
        /\ CallEnds
  /\ UNCHANGED <<driver, q_on, drain_mask, mode, prio, busy, asked, out, forgot, slipped>>

ResDeinit ==
  /\ pc = "idle" /\ res_init
  /\ res_init' = FALSE /\ pc' = "restore"
  /\ UNCHANGED <<enqueue_mask, charged, saved, chip, port, new, idx, history>>

\* one limit is put back
Restore ==
  LET back == IF saved[idx] = NoLimit THEN xon ELSE [xon EXCEPT ![idx] = saved[idx]]
      last == idx = PointerNum - 1 IN
  /\ pc = "restore"
  /\ \/ /\ xon' = back /\ saved' = [saved EXCEPT ![idx] = NoLimit] /\ NoFault
        /\ IF last THEN CallEnds ELSE idx' = idx + 1 /\ UNCHANGED <<pc, port, new>>
        /\ UNCHANGED forgot
     \/ /\ saved[idx] # NoLimit /\ xon' \in {xon, back} /\ Fault
        /\ CallEnds /\ forgot' = TRUE /\ UNCHANGED saved
  /\ UNCHANGED <<res_init, enqueue_mask, charged, q_on, drain_mask, mode, prio, busy, asked, out, slipped>>

-----------------------------------------------------------------------------
(* The device and the chip.                                                 *)

\* the device is deleted, which resets the chip, and created again
Recreate ==
  /\ pc = "idle"
  /\ res_init' = FALSE /\ charged' = {}
  /\ enqueue_mask' = [p \in Ports |-> Queues]
  /\ saved' = [i \in Pointers |-> NoLimit]
  /\ xon' = FwXon /\ q_on' = [p \in Ports |-> Queues]
  /\ drain_mask' = {} /\ mode' = {} /\ prio' = [p \in Ports |-> FwPrio] /\ busy' = {}
  /\ asked' = [p \in Ports |-> Queues]
  /\ out' = {} /\ forgot' = FALSE /\ slipped' = FALSE
  /\ UNCHANGED <<call, failures>>

\* Mutant: ports start with nothing charged.
RestartUncharged ==
  /\ res_init' = FALSE /\ charged' = {} /\ enqueue_mask' = q_on
  /\ saved' = [i \in Pointers |-> NoLimit]
  /\ forgot' = (forgot \/ \E i \in Pointers : saved[i] # NoLimit)
  /\ out' = IF port = NoPort THEN out ELSE out \union {port}
  /\ CallEnds
  /\ UNCHANGED <<chip, asked, slipped, failures>>

\* the host restarts at any moment; jl61xx_qos_init collects what the chip says
Restart ==
  /\ res_init' = FALSE /\ charged' = mode /\ enqueue_mask' = q_on
  /\ saved' = [i \in Pointers |-> NoLimit]
  /\ forgot' = (forgot \/ \E i \in Pointers : saved[i] # NoLimit)
  /\ out' = IF port = NoPort THEN out ELSE out \union {port}
  /\ CallEnds
  /\ UNCHANGED <<chip, asked, slipped, failures>>

\* external: a packet comes, all packets of a port have left
Fill(p) ==
  /\ q_on[p] # {} /\ busy' = busy \union {p}
  /\ UNCHANGED <<driver, xon, q_on, drain_mask, mode, prio, call, history>>

Empty(p) ==
  /\ p \in busy /\ busy' = busy \ {p}
  /\ UNCHANGED <<driver, xon, q_on, drain_mask, mode, prio, call, history>>

Next ==
  \/ \E p \in Ports, dwrr \in SUBSET Queues : ScheduleSet(p, dwrr)
  \/ \E p \in Ports, pri \in Maps : PrioritySet(p, pri)
  \/ QueuesOff \/ Drain \/ WaitEmpty \/ ModeSet \/ PrioWrite \/ Undrain \/ QueuesOn
  \/ \E p \in Ports, mask \in Masks : EnqueueEnableSet(p, mask)
  \/ ResInit \/ Lower \/ ResDeinit \/ Restore
  \/ Recreate \/ Restart
  \/ \E p \in Ports : Fill(p) \/ Empty(p)

Spec == Init /\ [][Next]_vars
-----------------------------------------------------------------------------
(* Properties.                                                              *)

(* A limit of the firmware is never lost: it is in the chip, or the driver   *)
(* has it in store and the chip runs on the lowered one; and after a         *)
(* resouce_deinit, or before a resouce_init, all are in the chip.  Two loops  *)
(* that can fail in the middle and be called again after that could forget   *)
(* one.  What the driver cannot help is excepted: a deinit that failed,      *)
(* whose retry does nothing, and a host that restarts with limits lowered.   *)
LimitsKept ==
  ~forgot =>
    /\ \A i \in Pointers : \/ xon[i] = FwXon[i]
                           \/ xon[i] = Floor /\ saved[i] = FwXon[i]
    /\ pc = "idle" /\ ~res_init => xon = FwXon

(* "must drain port first before this setting": the mode and the priorities  *)
(* of a port change only while its queues are closed and it holds no packet, *)
(* whatever comes in, however slowly the port drains and wherever an earlier *)
(* call was cut off.  A reset of the chip is excepted.                       *)
ChangedEmpty ==
  [][ Recreate \/ \A p \in Ports :
        (p \in mode) # (p \in mode') \/ prio[p] # prio'[p]
          => q_on[p] = {} /\ p \notin busy ]_vars

(* Between calls, a port whose queues are not those the client asked for, or *)
(* that is still draining, is one that a failed call was about: calls about  *)
(* other ports, which write the drain mask of all ports, do no harm to it.   *)
OutOfService ==
  pc = "idle" => \A p \in Ports \ out : q_on[p] = asked[p] /\ p \notin drain_mask

(* The guaranteed cells of all ports never exceed the budget, also after a   *)
(* restart of the host, which must find in the chip what it charges ports    *)
(* for.  Excepted is a guarantee whose write failed and was done later: the  *)
(* driver does not charge it, and finds it "set already" ever after.         *)
BudgetKept == ~slipped => Cardinality(mode) * PortCells <= Budget
=============================================================================
