------------------------- MODULE QosReserve_proofs -------------------------
(***************************************************************************)
(* Proofs about QosReserve, for all ports, queues, limits and budgets, and *)
(* any number of failures.                                                 *)
(***************************************************************************)
EXTENDS QosReserve, FiniteSetTheorems, TLAPS

USE DEF Prios

LEMMA FirmwareTypes ==
  /\ FwPrio \in Prios
  /\ 0 \in Pointers /\ 0 \in Queues
  /\ "idle" \notin ScheduleSteps /\ "lower" \notin ScheduleSteps /\ "restore" \notin ScheduleSteps
<1>1. 0 \in Pointers /\ 0 \in Queues
  BY NumbersAssumption DEF Pointers, Queues
<1>2. QED
  BY <1>1 DEF FwPrio, ScheduleSteps

LEMMA SchedulePrioType ==
  ASSUME NEW dwrr \in SUBSET Queues
  PROVE  SchedulePrio(dwrr) \in Prios
<1>1. IsFiniteSet(Queues) /\ Cardinality(Queues) = QueueNum
  <2>1. 0 \in Int /\ QueueNum - 1 \in Int
    BY NumbersAssumption
  <2>2. QED
    BY <2>1, FS_Interval, NumbersAssumption DEF Queues
<1>2. SUFFICES ASSUME NEW q \in Queues, q \notin dwrr
               PROVE  Cardinality({r \in Queues \ dwrr : r < q}) \in Queues
  BY NumbersAssumption DEF SchedulePrio, Queues
<1> DEFINE below == {r \in Queues \ dwrr : r < q}
<1>3. below \subseteq Queues \ {q}
  BY NumbersAssumption DEF Queues
<1>4. IsFiniteSet(Queues \ {q}) /\ Cardinality(Queues \ {q}) = QueueNum - 1
  BY <1>1, FS_RemoveElement
<1>5. IsFiniteSet(below) /\ Cardinality(below) <= QueueNum - 1 /\ Cardinality(below) \in Nat
  BY <1>3, <1>4, FS_Subset, FS_CardinalityType
<1>6. QED
  BY <1>5, NumbersAssumption DEF Queues

-----------------------------------------------------------------------------
(* Types.                                                                   *)

LEMMA TypeInit == Init => TypeOK
<1>1. SUFFICES ASSUME Init PROVE TypeOK
  OBVIOUS
<1>2. 0 \in 0 .. MaxFailures
  BY BoundsAssumption
<1>3. QED
  BY <1>1, <1>2, FirmwareTypes, PortsAssumption, LimitsAssumption DEF Init, TypeOK

(* What the ends of a step leave.                                            *)
LEMMA CallEndsTypes ==
  ASSUME CallEnds
  PROVE  /\ pc' \in ScheduleSteps \union {"idle", "lower", "restore"}
         /\ port' \in Ports \union {NoPort}
         /\ pc' \in ScheduleSteps <=> port' \in Ports
         /\ new' \in Prios /\ idx' \in Nat
BY FirmwareTypes, PortsAssumption DEF CallEnds

LEMMA AtTypes ==
  ASSUME TypeOK, pc \in ScheduleSteps, NEW next \in ScheduleSteps, At(next)
  PROVE  /\ pc' \in ScheduleSteps \union {"idle", "lower", "restore"}
         /\ port' \in Ports \union {NoPort}
         /\ pc' \in ScheduleSteps <=> port' \in Ports
         /\ new' \in Prios /\ idx' \in Nat
BY DEF At, TypeOK

LEMMA FaultTypes ==
  ASSUME failures \in 0 .. MaxFailures, Fault \/ NoFault
  PROVE  failures' \in 0 .. MaxFailures
BY BoundsAssumption DEF Fault, NoFault

CallTypes ==
  /\ pc \in ScheduleSteps \union {"idle", "lower", "restore"}
  /\ port \in Ports \union {NoPort}
  /\ pc \in ScheduleSteps <=> port \in Ports
  /\ new \in Prios
  /\ idx \in Nat

LEMMA TypeStep == TypeOK /\ [Next]_vars => TypeOK'
<1>1. SUFFICES ASSUME TypeOK, [Next]_vars PROVE TypeOK'
  OBVIOUS
<1>2. /\ \A s \in ScheduleSteps : pc \in ScheduleSteps /\ At(s) => CallTypes'
      /\ CallEnds => CallTypes'
      /\ UNCHANGED call => CallTypes'
  <2>1. ASSUME NEW s \in ScheduleSteps, pc \in ScheduleSteps, At(s) PROVE CallTypes'
    BY <1>1, <2>1, AtTypes DEF CallTypes
  <2>2. CallEnds => CallTypes'
    BY CallEndsTypes DEF CallTypes
  <2>3. UNCHANGED call => CallTypes'
    BY <1>1 DEF CallTypes, TypeOK, call
  <2>4. QED
    BY <2>1, <2>2, <2>3
<1>3. (Fault \/ NoFault) => failures' \in 0 .. MaxFailures
  BY <1>1, FaultTypes DEF TypeOK
<1>4. port \in Ports => out \union {port} \subseteq Ports
  BY <1>1 DEF TypeOK
<1>a. ASSUME NEW p \in Ports, NEW pri \in Prios, PrioritySet(p, pri) PROVE TypeOK'
  BY <1>1, <1>a DEF TypeOK, PrioritySet, ScheduleSteps, driver, chip, history
<1>b. CASE \E p \in Ports, dwrr \in SUBSET Queues : ScheduleSet(p, dwrr)
  BY <1>a, <1>b, SchedulePrioType DEF ScheduleSet
<1>c. CASE \E p \in Ports, pri \in Maps : PrioritySet(p, pri)
  BY <1>a, <1>c, AskedAssumption
<1>d. CASE QueuesOff
  <2>1. pc \in ScheduleSteps /\ "drain" \in ScheduleSteps /\ port \in Ports
    BY <1>1, <1>d DEF QueuesOff, ScheduleSteps, TypeOK
  <2>2. CallTypes' /\ failures' \in 0 .. MaxFailures /\ out' \subseteq Ports
    BY <1>1, <1>2, <1>3, <1>4, <1>d, <2>1 DEF QueuesOff, Abandon, TypeOK
  <2>3. q_on' \in [Ports -> SUBSET Queues]
    BY <1>1, <1>d DEF QueuesOff, TypeOK
  <2>4. QED
    BY <1>1, <1>d, <2>2, <2>3 DEF QueuesOff, TypeOK, CallTypes, driver
<1>e. CASE Drain
  <2>1. pc \in ScheduleSteps /\ "wait" \in ScheduleSteps /\ port \in Ports
    BY <1>1, <1>e DEF Drain, ScheduleSteps, TypeOK
  <2>2. CallTypes' /\ failures' \in 0 .. MaxFailures /\ out' \subseteq Ports
    BY <1>1, <1>2, <1>3, <1>4, <1>e, <2>1 DEF Drain, Abandon, TypeOK
  <2>3. drain_mask' \subseteq Ports
    BY <1>1, <1>e, <2>1 DEF Drain, TypeOK
  <2>4. QED
    BY <1>1, <1>e, <2>2, <2>3 DEF Drain, TypeOK, CallTypes, driver
<1>f. CASE WaitEmpty
  <2>1. pc \in ScheduleSteps /\ "mode" \in ScheduleSteps /\ port \in Ports
    BY <1>1, <1>f DEF WaitEmpty, ScheduleSteps, TypeOK
  <2>2. idx' = idx + 1 /\ UNCHANGED <<pc, port, new>> => CallTypes'
    BY <1>1 DEF TypeOK, CallTypes
  <2>3. CallTypes' /\ failures' \in 0 .. MaxFailures /\ out' \subseteq Ports
    BY <1>1, <1>2, <1>3, <1>4, <1>f, <2>1, <2>2 DEF WaitEmpty, Abandon, TypeOK
  <2>4. QED
    BY <1>1, <1>f, <2>3 DEF WaitEmpty, TypeOK, CallTypes, driver, chip
<1>g. CASE ModeSet
  <2>1. pc \in ScheduleSteps /\ "prio" \in ScheduleSteps /\ port \in Ports
    BY <1>1, <1>g DEF ModeSet, ScheduleSteps, TypeOK
  <2>2. CallTypes' /\ failures' \in 0 .. MaxFailures /\ out' \subseteq Ports
    BY <1>1, <1>2, <1>3, <1>4, <1>g, <2>1 DEF ModeSet, Abandon, TypeOK
  <2>3. mode' \subseteq Ports /\ charged' \subseteq Ports
    BY <1>1, <1>g, <2>1 DEF ModeSet, TypeOK
  <2>4. slipped' \in BOOLEAN
    BY <1>1, <1>g DEF ModeSet, TypeOK
  <2>5. QED
    BY <1>1, <1>g, <2>2, <2>3, <2>4 DEF ModeSet, TypeOK, CallTypes
<1>h. CASE PrioWrite
  <2>1. pc \in ScheduleSteps /\ "undrain" \in ScheduleSteps /\ port \in Ports
    BY <1>1, <1>h DEF PrioWrite, ScheduleSteps, TypeOK
  <2>2. CallTypes' /\ failures' \in 0 .. MaxFailures /\ out' \subseteq Ports
    BY <1>1, <1>2, <1>3, <1>4, <1>h, <2>1 DEF PrioWrite, Abandon, TypeOK
  <2>3. prio' \in [Ports -> Prios]
    BY <1>1, <1>h DEF PrioWrite, TypeOK
  <2>4. QED
    BY <1>1, <1>h, <2>2, <2>3 DEF PrioWrite, TypeOK, CallTypes, driver
<1>i. CASE Undrain
  <2>1. pc \in ScheduleSteps /\ "on" \in ScheduleSteps /\ port \in Ports
    BY <1>1, <1>i DEF Undrain, ScheduleSteps, TypeOK
  <2>2. CallTypes' /\ failures' \in 0 .. MaxFailures /\ out' \subseteq Ports
    BY <1>1, <1>2, <1>3, <1>4, <1>i, <2>1 DEF Undrain, Abandon, TypeOK
  <2>3. drain_mask' \subseteq Ports
    BY <1>1, <1>i DEF Undrain, TypeOK
  <2>4. QED
    BY <1>1, <1>i, <2>2, <2>3 DEF Undrain, TypeOK, CallTypes, driver
<1>j. CASE QueuesOn
  <2>1. pc \in ScheduleSteps /\ port \in Ports
    BY <1>1, <1>j DEF QueuesOn, ScheduleSteps, TypeOK
  <2>2. CallTypes' /\ failures' \in 0 .. MaxFailures /\ out' \subseteq Ports
    BY <1>1, <1>2, <1>3, <1>4, <1>j, <2>1 DEF QueuesOn, Abandon, TypeOK
  <2>3. q_on' \in [Ports -> SUBSET Queues]
    BY <1>1, <1>j, <2>1 DEF QueuesOn, TypeOK
  <2>4. QED
    BY <1>1, <1>j, <2>2, <2>3 DEF QueuesOn, TypeOK, CallTypes, driver
<1>k. CASE \E p \in Ports, mask \in Masks : EnqueueEnableSet(p, mask)
  <2>1. PICK p \in Ports, mask \in Masks : EnqueueEnableSet(p, mask)
    BY <1>k
  <2>2. mask \in SUBSET Queues
    BY AskedAssumption
  <2>3. CallTypes' /\ failures' \in 0 .. MaxFailures /\ out' \subseteq Ports
    BY <1>1, <1>2, <1>3, <2>1 DEF EnqueueEnableSet, TypeOK
  <2>4. /\ q_on' \in [Ports -> SUBSET Queues]
        /\ enqueue_mask' \in [Ports -> SUBSET Queues]
        /\ asked' \in [Ports -> SUBSET Queues]
    BY <1>1, <2>1, <2>2 DEF EnqueueEnableSet, TypeOK
  <2>5. QED
    BY <1>1, <2>1, <2>3, <2>4 DEF EnqueueEnableSet, TypeOK, CallTypes
<1>l. CASE ResInit
  <2>1. saved' \in [Pointers -> Nat \union {NoLimit}]
    BY <1>1, <1>l DEF ResInit, TypeOK
  <2>2. failures' \in 0 .. MaxFailures /\ pc' \in {"idle", "lower"}
    BY <1>1, <1>3, <1>l DEF ResInit
  <2>3. CallTypes'
    BY <1>1, <1>l, <2>2, FirmwareTypes DEF ResInit, TypeOK, CallTypes
  <2>4. QED
    BY <1>1, <1>l, <2>1, <2>2, <2>3 DEF ResInit, TypeOK, CallTypes, chip
<1>m. CASE Lower
  <2>1. xon' \in [Pointers -> Nat]
    BY <1>1, <1>m, LimitsAssumption DEF Lower, TypeOK
  <2>2. idx' = idx + 1 /\ UNCHANGED <<pc, port, new>> => CallTypes'
    BY <1>1 DEF TypeOK, CallTypes
  <2>3. CallTypes' /\ failures' \in 0 .. MaxFailures
    BY <1>1, <1>2, <1>3, <1>m, <2>2 DEF Lower
  <2>4. QED
    BY <1>1, <1>m, <2>1, <2>3 DEF Lower, TypeOK, CallTypes, driver
<1>n. CASE ResDeinit
  BY <1>1, <1>n, FirmwareTypes DEF ResDeinit, TypeOK, chip, history
<1>o. CASE Restore
  <2>1. xon' \in [Pointers -> Nat] /\ saved' \in [Pointers -> Nat \union {NoLimit}]
    BY <1>1, <1>o DEF Restore, TypeOK
  <2>2. idx' = idx + 1 /\ UNCHANGED <<pc, port, new>> => CallTypes'
    BY <1>1 DEF TypeOK, CallTypes
  <2>3. CallTypes' /\ failures' \in 0 .. MaxFailures /\ forgot' \in BOOLEAN
    BY <1>1, <1>2, <1>3, <1>o, <2>2 DEF Restore, TypeOK
  <2>4. QED
    BY <1>1, <1>o, <2>1, <2>3 DEF Restore, TypeOK, CallTypes
<1>p. CASE Recreate
  <2>1. CallTypes'
    BY <1>2, <1>p DEF Recreate
  <2>2. QED
    BY <1>1, <1>p, <2>1, FirmwareTypes, LimitsAssumption DEF Recreate, TypeOK, CallTypes
<1>q. CASE Restart
  <2>1. CallTypes' /\ out' \subseteq Ports
    BY <1>1, <1>2, <1>q DEF Restart, TypeOK
  <2>2. QED
    BY <1>1, <1>q, <2>1 DEF Restart, TypeOK, CallTypes, chip
<1>r. CASE \E p \in Ports : Fill(p) \/ Empty(p)
  <2>1. CallTypes'
    BY <1>2, <1>r DEF Fill, Empty
  <2>2. QED
    BY <1>1, <1>r, <2>1 DEF Fill, Empty, TypeOK, CallTypes, driver, history
<1>s. CASE UNCHANGED vars
  BY <1>1, <1>s DEF TypeOK, vars, driver, chip, call, history
<1>t. QED
  BY <1>1, <1>b, <1>c, <1>d, <1>e, <1>f, <1>g, <1>h, <1>i, <1>j, <1>k, <1>l, <1>m,
     <1>n, <1>o, <1>p, <1>q, <1>r, <1>s DEF Next

(* TypeOK holds for all values of the constants.                             *)
THEOREM Typing == Spec => []TypeOK
BY TypeInit, TypeStep, PTL DEF Spec

-----------------------------------------------------------------------------
(* Limits.  A saved limit is the firmware's; there are none outside a stay   *)
(* of resouce_init, and a resouce_deinit has put those back it has passed.   *)

LimitInv ==
  /\ pc = "idle" => idx = 0
  /\ pc = "lower" => res_init /\ idx \in Pointers
  /\ pc = "restore" => ~res_init /\ idx \in Pointers
  /\ ~forgot => \A i \in Pointers :
       /\ saved[i] \in {NoLimit, FwXon[i]}
       /\ xon[i] = FwXon[i] \/ (xon[i] = Floor /\ saved[i] = FwXon[i])
       /\ ~res_init /\ pc # "restore" => saved[i] = NoLimit
       /\ pc = "restore" /\ i < idx => saved[i] = NoLimit

LEMMA NoLimitIsNone == \A i \in Pointers : FwXon[i] # NoLimit /\ Floor # NoLimit
BY LimitsAssumption

LEMMA LimitInit == Init => LimitInv
BY FirmwareTypes DEF Init, LimitInv

LEMMA LimitsImplied == TypeOK /\ LimitInv => LimitsKept
<1>1. SUFFICES ASSUME TypeOK, LimitInv, ~forgot
               PROVE  /\ \A i \in Pointers : \/ xon[i] = FwXon[i]
                                             \/ xon[i] = Floor /\ saved[i] = FwXon[i]
                      /\ pc = "idle" /\ ~res_init => xon = FwXon
  BY DEF LimitsKept
<1>2. \A i \in Pointers : \/ xon[i] = FwXon[i]
                          \/ xon[i] = Floor /\ saved[i] = FwXon[i]
  BY <1>1 DEF LimitInv
<1>3. ASSUME pc = "idle", ~res_init PROVE xon = FwXon
  <2>1. \A i \in Pointers : saved[i] = NoLimit
    BY <1>1, <1>3 DEF LimitInv
  <2>2. \A i \in Pointers : xon[i] = FwXon[i]
    BY <1>2, <2>1, NoLimitIsNone
  <2>3. QED
    BY <1>1, <2>2, LimitsAssumption DEF TypeOK
<1>4. QED
  BY <1>2, <1>3

(* Steps of calls about ports.                                               *)
LEMMA LimitSchedule ==
  ASSUME LimitInv, UNCHANGED <<res_init, saved, xon, forgot>>,
         pc \in ScheduleSteps \union {"idle"}, pc' \in ScheduleSteps \union {"idle"},
         pc' = "idle" => idx' = 0
  PROVE  LimitInv'
BY DEF LimitInv, ScheduleSteps

LEMMA LimitStep == TypeOK /\ LimitInv /\ [Next]_vars => LimitInv'
<1>1. SUFFICES ASSUME TypeOK, LimitInv, [Next]_vars PROVE LimitInv'
  OBVIOUS
<1>2. ASSUME NEW p \in Ports, NEW pri, PrioritySet(p, pri) PROVE LimitInv'
  BY <1>1, <1>2, LimitSchedule DEF PrioritySet, driver, chip, history, ScheduleSteps
<1>3. CASE QueuesOff
  BY <1>1, <1>3, LimitSchedule DEF QueuesOff, driver, At, Abandon, CallEnds, ScheduleSteps
<1>4. CASE Drain
  BY <1>1, <1>4, LimitSchedule DEF Drain, driver, At, Abandon, CallEnds, ScheduleSteps
<1>5. CASE WaitEmpty
  BY <1>1, <1>5, LimitSchedule DEF WaitEmpty, driver, chip, At, Abandon, CallEnds, ScheduleSteps
<1>6. CASE ModeSet
  BY <1>1, <1>6, LimitSchedule DEF ModeSet, At, Abandon, CallEnds, ScheduleSteps
<1>7. CASE PrioWrite
  BY <1>1, <1>7, LimitSchedule DEF PrioWrite, driver, At, Abandon, CallEnds, ScheduleSteps
<1>8. CASE Undrain
  BY <1>1, <1>8, LimitSchedule DEF Undrain, driver, At, Abandon, CallEnds, ScheduleSteps
<1>9. CASE QueuesOn
  BY <1>1, <1>9, LimitSchedule DEF QueuesOn, driver, At, Abandon, CallEnds, ScheduleSteps
<1>10. CASE \E p \in Ports, mask \in Masks : EnqueueEnableSet(p, mask)
  BY <1>1, <1>10, LimitSchedule DEF EnqueueEnableSet, call, LimitInv
<1>11. CASE ResInit
  <2>1. /\ pc = "idle" /\ idx' = 0 /\ res_init' /\ pc' \in {"idle", "lower"}
        /\ ~res_init /\ UNCHANGED <<xon, forgot>>
    BY <1>1, <1>11 DEF ResInit, LimitInv, chip
  <2>2. ASSUME ~forgot, NEW i \in Pointers
        PROVE  saved'[i] \in {NoLimit, FwXon[i]} /\ xon[i] = FwXon[i]
    <3>1. saved[i] = NoLimit /\ xon[i] = FwXon[i]
      BY <1>1, <2>1, <2>2, NoLimitIsNone DEF LimitInv
    <3>2. QED
      BY <1>11, <3>1 DEF ResInit
  <2>3. QED
    BY <2>1, <2>2, FirmwareTypes DEF LimitInv
<1>12. CASE Lower
  <2>1. /\ res_init /\ pc = "lower" /\ idx \in Pointers
        /\ UNCHANGED <<res_init, saved, forgot>>
    BY <1>1, <1>12 DEF Lower, LimitInv, driver
  <2>2. /\ pc' \in {"idle", "lower"} /\ (pc' = "idle" => idx' = 0)
        /\ pc' = "lower" => idx' \in Pointers
    BY <1>12, <2>1, NumbersAssumption DEF Lower, CallEnds, Pointers
  <2>3. ASSUME ~forgot, NEW i \in Pointers
        PROVE  \/ xon'[i] = FwXon[i]
               \/ xon'[i] = Floor /\ saved[i] = FwXon[i]
    BY <1>1, <1>12, <2>1, <2>3 DEF Lower, LimitInv, TypeOK
  <2>4. QED
    BY <1>1, <2>1, <2>2, <2>3 DEF LimitInv
<1>13. CASE ResDeinit
  <2>1. pc = "idle" /\ pc' = "restore" /\ idx' = 0 /\ idx = 0 /\ ~res_init'
    BY <1>1, <1>13 DEF ResDeinit, LimitInv
  <2>2. UNCHANGED <<saved, xon, forgot>>
    BY <1>13 DEF ResDeinit, chip, history
  <2>3. \A i \in Pointers : ~(i < 0)
    BY NumbersAssumption DEF Pointers
  <2>4. QED
    BY <1>1, <2>1, <2>2, <2>3, FirmwareTypes DEF LimitInv
<1>14. CASE Restore
  <2>1. pc = "restore" /\ ~res_init /\ idx \in Pointers /\ UNCHANGED res_init
    BY <1>1, <1>14 DEF Restore, LimitInv
  <2>2. SUFFICES ASSUME ~forgot, ~forgot' PROVE LimitInv'
    <3>1. /\ pc' = "idle" => idx' = 0
          /\ pc' # "lower"
          /\ pc' = "restore" => idx' \in Pointers
      BY <1>14, <2>1, NumbersAssumption DEF Restore, CallEnds, Pointers
    <3>2. QED
      BY <1>14, <2>1, <2>2, <3>1 DEF Restore, LimitInv
  <2>3. /\ xon' = IF saved[idx] = NoLimit THEN xon ELSE [xon EXCEPT ![idx] = saved[idx]]
        /\ saved' = [saved EXCEPT ![idx] = NoLimit]
        /\ IF idx = PointerNum - 1 THEN CallEnds ELSE idx' = idx + 1 /\ UNCHANGED <<pc, port, new>>
    BY <1>14, <2>2 DEF Restore
  <2>4. \A i \in Pointers : saved'[i] \in {NoLimit, FwXon[i]} /\ (i <= idx => saved'[i] = NoLimit)
    BY <1>1, <2>1, <2>2, <2>3, NumbersAssumption DEF LimitInv, TypeOK, Pointers
  <2>5. \A i \in Pointers : \/ xon'[i] = FwXon[i]
                            \/ xon'[i] = Floor /\ saved'[i] = FwXon[i]
    BY <1>1, <2>1, <2>2, <2>3 DEF LimitInv, TypeOK
  <2>6. CASE idx = PointerNum - 1
    <3>1. \A i \in Pointers : i <= idx
      BY <2>6, NumbersAssumption DEF Pointers
    <3>2. pc' = "idle" /\ idx' = 0
      BY <2>3, <2>6 DEF CallEnds
    <3>3. QED
      BY <2>4, <2>5, <3>1, <3>2 DEF LimitInv
  <2>7. CASE idx # PointerNum - 1
    <3>1. pc' = "restore" /\ idx' = idx + 1 /\ idx' \in Pointers
      BY <2>1, <2>3, <2>7, NumbersAssumption DEF Pointers
    <3>2. \A i \in Pointers : i < idx' => i <= idx
      BY <2>1, <3>1, NumbersAssumption DEF Pointers
    <3>3. QED
      BY <2>1, <2>4, <2>5, <3>1, <3>2 DEF LimitInv
  <2>8. QED
    BY <2>6, <2>7
<1>15. CASE Recreate
  <2>1. \A i \in Pointers : saved'[i] = NoLimit /\ xon'[i] = FwXon[i]
    BY <1>15 DEF Recreate
  <2>2. pc' = "idle" /\ idx' = 0
    BY <1>1, <1>15 DEF Recreate, call, LimitInv
  <2>3. QED
    BY <2>1, <2>2 DEF LimitInv
<1>16. CASE Restart
  <2>1. pc' = "idle" /\ idx' = 0 /\ UNCHANGED xon /\ \A i \in Pointers : saved'[i] = NoLimit
    BY <1>16 DEF Restart, CallEnds, chip
  <2>2. ASSUME ~forgot', NEW i \in Pointers PROVE xon[i] = FwXon[i]
    <3>1. ~forgot /\ saved[i] = NoLimit
      BY <1>16, <2>2 DEF Restart
    <3>2. QED
      BY <1>1, <3>1, NoLimitIsNone DEF LimitInv
  <2>3. QED
    BY <2>1, <2>2 DEF LimitInv
<1>17. CASE \E p \in Ports : Fill(p) \/ Empty(p)
  BY <1>1, <1>17 DEF LimitInv, Fill, Empty, driver, call, history
<1>18. CASE UNCHANGED vars
  BY <1>1, <1>18 DEF LimitInv, vars, driver, chip, call, history
<1>19. QED
  BY <1>1, <1>2, <1>3, <1>4, <1>5, <1>6, <1>7, <1>8, <1>9, <1>10, <1>11, <1>12,
     <1>13, <1>14, <1>15, <1>16, <1>17, <1>18 DEF Next, ScheduleSet

(* No limit of the firmware is lost.                                         *)
THEOREM Limits == Spec => []LimitsKept
<1>1. Init => TypeOK /\ LimitInv
  BY TypeInit, LimitInit
<1>2. TypeOK /\ LimitInv /\ [Next]_vars => (TypeOK /\ LimitInv)'
  BY TypeStep, LimitStep
<1>3. TypeOK /\ LimitInv => LimitsKept
  BY LimitsImplied
<1>4. QED
  BY <1>1, <1>2, <1>3, PTL DEF Spec

-----------------------------------------------------------------------------
(* Ports.  From when its queues are closed to when they are opened a port    *)
(* takes no packet, so it stays empty once it was seen empty.                *)

EmptyInv ==
  /\ pc \in {"drain", "wait", "mode", "prio", "undrain", "on"} => q_on[port] = {}
  /\ pc \in {"mode", "prio", "undrain", "on"} => port \notin busy

LEMMA EmptyStep == TypeOK /\ EmptyInv /\ [Next]_vars => EmptyInv'
<1>1. SUFFICES ASSUME TypeOK, EmptyInv, [Next]_vars PROVE EmptyInv'
  OBVIOUS
<1>2. ASSUME CallEnds PROVE EmptyInv'
  BY <1>2 DEF CallEnds, EmptyInv
<1>3. ASSUME NEW p \in Ports, NEW pri, PrioritySet(p, pri) PROVE EmptyInv'
  BY <1>3 DEF PrioritySet, EmptyInv
<1>4. CASE QueuesOff
  <2>1. port \in Ports
    BY <1>1, <1>4 DEF QueuesOff, TypeOK, ScheduleSteps
  <2>2. QED
    BY <1>1, <1>2, <1>4, <2>1 DEF QueuesOff, Abandon, At, TypeOK, EmptyInv
<1>5. CASE Drain
  BY <1>1, <1>2, <1>5 DEF Drain, Abandon, At, EmptyInv
<1>6. CASE WaitEmpty
  BY <1>1, <1>2, <1>6 DEF WaitEmpty, Abandon, At, EmptyInv, chip
<1>7. CASE ModeSet
  BY <1>1, <1>2, <1>7 DEF ModeSet, Abandon, At, EmptyInv
<1>8. CASE PrioWrite
  BY <1>1, <1>2, <1>8 DEF PrioWrite, Abandon, At, EmptyInv
<1>9. CASE Undrain
  BY <1>1, <1>2, <1>9 DEF Undrain, Abandon, At, EmptyInv
<1>10. CASE QueuesOn
  BY <1>2, <1>10 DEF QueuesOn, Abandon
<1>11. CASE \E p \in Ports, mask \in Masks : EnqueueEnableSet(p, mask)
  BY <1>1, <1>11 DEF EnqueueEnableSet, EmptyInv, call
<1>12. CASE ResInit
  BY <1>12 DEF ResInit, EmptyInv
<1>13. CASE Lower
  BY <1>2, <1>13 DEF Lower, EmptyInv
<1>14. CASE ResDeinit
  BY <1>14 DEF ResDeinit, EmptyInv
<1>15. CASE Restore
  BY <1>2, <1>15 DEF Restore, EmptyInv
<1>16. CASE Recreate
  BY <1>16 DEF Recreate, EmptyInv, call
<1>17. CASE Restart
  BY <1>2, <1>17 DEF Restart
<1>18. CASE \E p \in Ports : Fill(p) \/ Empty(p)
  BY <1>1, <1>18 DEF EmptyInv, Fill, Empty, call
<1>19. CASE UNCHANGED vars
  BY <1>1, <1>19 DEF EmptyInv, vars, chip, call
<1>20. QED
  BY <1>1, <1>3, <1>4, <1>5, <1>6, <1>7, <1>8, <1>9, <1>10, <1>11, <1>12, <1>13,
     <1>14, <1>15, <1>16, <1>17, <1>18, <1>19 DEF Next, ScheduleSet

ChangesEmpty ==
  Recreate \/ \A p \in Ports :
    (p \in mode) # (p \in mode') \/ prio[p] # prio'[p] => q_on[p] = {} /\ p \notin busy

LEMMA ChangeStep == TypeOK /\ EmptyInv /\ [Next]_vars => ChangesEmpty
<1>1. SUFFICES ASSUME TypeOK, EmptyInv, [Next]_vars, ~Recreate,
                      NEW p \in Ports, (p \in mode) # (p \in mode') \/ prio[p] # prio'[p]
               PROVE  q_on[p] = {} /\ p \notin busy
  BY DEF ChangesEmpty
<1>2. CASE ModeSet
  <2>1. p = port
    BY <1>1, <1>2 DEF ModeSet
  <2>2. QED
    BY <1>1, <1>2, <2>1 DEF ModeSet, EmptyInv
<1>3. CASE PrioWrite
  <2>1. p = port
    BY <1>1, <1>3 DEF PrioWrite, TypeOK
  <2>2. QED
    BY <1>1, <1>3, <2>1 DEF PrioWrite, EmptyInv
<1>4. CASE UNCHANGED <<mode, prio>>
  BY <1>1, <1>4
<1>5. ModeSet \/ PrioWrite \/ UNCHANGED <<mode, prio>>
  BY <1>1 DEF Next, ScheduleSet, PrioritySet, QueuesOff, Drain, WaitEmpty, Undrain, QueuesOn,
     EnqueueEnableSet, ResInit, Lower, ResDeinit, Restore, Restart, Fill, Empty,
     vars, driver, chip, call, history
<1>6. QED
  BY <1>2, <1>3, <1>4, <1>5

(* Modes and priorities change on empty ports only.                          *)
THEOREM EmptyPorts == Spec => ChangedEmpty
<1>1. Init => TypeOK /\ EmptyInv
  <2>1. Init => EmptyInv
    BY DEF Init, EmptyInv
  <2>2. QED
    BY <2>1, TypeInit
<1>2. TypeOK /\ EmptyInv /\ [Next]_vars => (TypeOK /\ EmptyInv)'
  BY TypeStep, EmptyStep
<1>3. TypeOK /\ EmptyInv /\ [Next]_vars =>
        [ Recreate \/ \A p \in Ports :
            (p \in mode) # (p \in mode') \/ prio[p] # prio'[p]
              => q_on[p] = {} /\ p \notin busy ]_vars
  BY ChangeStep DEF ChangesEmpty
<1>4. QED
  BY <1>1, <1>2, <1>3, PTL DEF Spec, ChangedEmpty

-----------------------------------------------------------------------------
(* Service.  Only the port of the call that runs can be out of service       *)
(* without having had a call that failed.                                    *)

ServiceInv ==
  /\ pc = "on" => port \notin drain_mask
  /\ \A p \in Ports \ out :
       /\ enqueue_mask[p] = asked[p]
       /\ p # port => q_on[p] = asked[p] /\ p \notin drain_mask

LEMMA ServiceStep == TypeOK /\ ServiceInv /\ [Next]_vars => ServiceInv'
<1>1. SUFFICES ASSUME TypeOK, ServiceInv, [Next]_vars PROVE ServiceInv'
  OBVIOUS
<1>2. ASSUME Abandon, UNCHANGED <<enqueue_mask, asked>>,
             \A p \in Ports : p # port => q_on'[p] = q_on[p] /\ (p \in drain_mask' => p \in drain_mask)
      PROVE  ServiceInv'
  BY <1>1, <1>2 DEF Abandon, CallEnds, ServiceInv
<1>3. ASSUME NEW p \in Ports, NEW pri, PrioritySet(p, pri) PROVE ServiceInv'
  <2>1. port \notin Ports /\ UNCHANGED <<enqueue_mask, asked, out, q_on, drain_mask>> /\ pc' # "on"
    BY <1>1, <1>3 DEF PrioritySet, TypeOK, ScheduleSteps, driver, chip, history
  <2>2. QED
    BY <1>1, <2>1 DEF ServiceInv
<1>4. CASE QueuesOff
  <2>1. UNCHANGED <<enqueue_mask, asked, drain_mask>> /\ \A p \in Ports : p # port => q_on'[p] = q_on[p]
    BY <1>1, <1>4 DEF QueuesOff, driver, TypeOK
  <2>2. Abandon \/ (At("drain") /\ UNCHANGED out)
    BY <1>4 DEF QueuesOff
  <2>3. QED
    BY <1>1, <1>2, <2>1, <2>2 DEF At, ServiceInv
<1>5. CASE Drain
  <2>1. /\ UNCHANGED <<enqueue_mask, asked, q_on>>
        /\ \A p \in Ports : p # port /\ p \in drain_mask' => p \in drain_mask
    BY <1>5 DEF Drain, driver
  <2>2. Abandon \/ (At("wait") /\ UNCHANGED out)
    BY <1>5 DEF Drain
  <2>3. QED
    BY <1>1, <1>2, <2>1, <2>2 DEF At, ServiceInv
<1>6. CASE WaitEmpty
  <2>1. UNCHANGED <<enqueue_mask, asked, q_on, drain_mask>>
    BY <1>6 DEF WaitEmpty, driver, chip
  <2>2. Abandon \/ (UNCHANGED <<port, out>> /\ pc' # "on")
    BY <1>6 DEF WaitEmpty, At
  <2>3. QED
    BY <1>1, <1>2, <2>1, <2>2 DEF ServiceInv
<1>7. CASE ModeSet
  <2>1. UNCHANGED <<enqueue_mask, asked, q_on, drain_mask>>
    BY <1>7 DEF ModeSet
  <2>2. Abandon \/ (At("prio") /\ UNCHANGED out)
    BY <1>7 DEF ModeSet
  <2>3. QED
    BY <1>1, <1>2, <2>1, <2>2 DEF At, ServiceInv
<1>8. CASE PrioWrite
  <2>1. UNCHANGED <<enqueue_mask, asked, q_on, drain_mask>>
    BY <1>8 DEF PrioWrite, driver
  <2>2. Abandon \/ (At("undrain") /\ UNCHANGED out)
    BY <1>8 DEF PrioWrite
  <2>3. QED
    BY <1>1, <1>2, <2>1, <2>2 DEF At, ServiceInv
<1>9. CASE Undrain
  <2>1. UNCHANGED <<enqueue_mask, asked, q_on>> /\ (drain_mask' = drain_mask \/ drain_mask' = {})
    BY <1>9 DEF Undrain, driver
  <2>2. Abandon \/ (At("on") /\ UNCHANGED out /\ drain_mask' = {})
    BY <1>9 DEF Undrain
  <2>3. QED
    BY <1>1, <1>2, <2>1, <2>2 DEF At, ServiceInv
<1>10. CASE QueuesOn
  <2>1. /\ UNCHANGED <<enqueue_mask, asked, drain_mask>>
        /\ \A p \in Ports : p # port => q_on'[p] = q_on[p]
    BY <1>1, <1>10 DEF QueuesOn, driver, TypeOK
  <2>2. CASE Abandon
    BY <1>2, <2>1, <2>2
  <2>3. CASE ~Abandon
    <3>1. /\ q_on' = [q_on EXCEPT ![port] = enqueue_mask[port]] /\ CallEnds
          /\ out' = IF enqueue_mask[port] = asked[port] THEN out \ {port} ELSE out
      BY <1>10, <2>3 DEF QueuesOn
    <3>2. port \in Ports /\ port \notin drain_mask
      BY <1>1, <1>10 DEF QueuesOn, TypeOK, ScheduleSteps, ServiceInv
    <3>3. q_on'[port] = enqueue_mask[port]
      BY <1>1, <3>1, <3>2 DEF TypeOK
    <3>4. \A p \in Ports \ out' : enqueue_mask[p] = asked[p] /\ q_on'[p] = asked[p] /\ p \notin drain_mask
      BY <1>1, <2>1, <3>1, <3>2, <3>3 DEF ServiceInv
    <3>5. QED
      BY <2>1, <3>1, <3>4 DEF CallEnds, ServiceInv
  <2>4. QED
    BY <2>2, <2>3
<1>11. CASE \E p \in Ports, mask \in Masks : EnqueueEnableSet(p, mask)
  <2>1. PICK p \in Ports, mask \in Masks : EnqueueEnableSet(p, mask)
    BY <1>11
  <2>2. /\ UNCHANGED <<drain_mask, port, pc>> /\ port \notin Ports /\ pc # "on"
        /\ \A r \in Ports : r # p =>
             q_on'[r] = q_on[r] /\ enqueue_mask'[r] = enqueue_mask[r] /\ asked'[r] = asked[r]
    BY <1>1, <2>1 DEF EnqueueEnableSet, call, TypeOK, ScheduleSteps
  <2>3. \/ p \in out' /\ \A r \in Ports : r # p /\ r \notin out' => r \notin out
        \/ /\ q_on'[p] = mask /\ enqueue_mask'[p] = mask /\ asked'[p] = mask
           /\ (p \notin drain_mask \/ out' = out) /\ \A r \in Ports : r # p /\ r \notin out' => r \notin out
    BY <1>1, <2>1 DEF EnqueueEnableSet, TypeOK
  <2>4. QED
    BY <1>1, <2>2, <2>3 DEF ServiceInv
<1>12. CASE ResInit
  BY <1>1, <1>12 DEF ResInit, ServiceInv, chip
<1>13. CASE Lower
  <2>1. port \notin Ports /\ UNCHANGED <<enqueue_mask, asked, out, q_on, drain_mask>> /\ pc' # "on"
    BY <1>1, <1>13 DEF Lower, driver, CallEnds, TypeOK, ScheduleSteps
  <2>2. QED
    BY <1>1, <2>1 DEF ServiceInv
<1>14. CASE ResDeinit
  BY <1>1, <1>14 DEF ResDeinit, ServiceInv, chip, history
<1>15. CASE Restore
  <2>1. port \notin Ports /\ UNCHANGED <<enqueue_mask, asked, out, q_on, drain_mask>> /\ pc' # "on"
    BY <1>1, <1>15 DEF Restore, CallEnds, TypeOK, ScheduleSteps
  <2>2. QED
    BY <1>1, <2>1 DEF ServiceInv
<1>16. CASE Recreate
  BY <1>1, <1>16 DEF Recreate, ServiceInv, call
<1>17. CASE Restart
  <2>1. /\ pc' = "idle" /\ port' = NoPort /\ UNCHANGED <<q_on, drain_mask, asked>>
        /\ enqueue_mask' = q_on
        /\ out' = IF port = NoPort THEN out ELSE out \union {port}
    BY <1>17 DEF Restart, CallEnds, chip
  <2>2. QED
    BY <1>1, <2>1, PortsAssumption DEF ServiceInv
<1>18. CASE \E p \in Ports : Fill(p) \/ Empty(p)
  BY <1>1, <1>18 DEF ServiceInv, Fill, Empty, driver, call, history
<1>19. CASE UNCHANGED vars
  BY <1>1, <1>19 DEF ServiceInv, vars, driver, chip, call, history
<1>20. QED
  BY <1>1, <1>3, <1>4, <1>5, <1>6, <1>7, <1>8, <1>9, <1>10, <1>11, <1>12, <1>13,
     <1>14, <1>15, <1>16, <1>17, <1>18, <1>19 DEF Next, ScheduleSet

(* No port is out of service but for a call about it that failed.            *)
THEOREM Service == Spec => []OutOfService
<1>1. Init => TypeOK /\ ServiceInv
  <2>1. Init => ServiceInv
    BY DEF Init, ServiceInv
  <2>2. QED
    BY <2>1, TypeInit
<1>2. TypeOK /\ ServiceInv /\ [Next]_vars => (TypeOK /\ ServiceInv)'
  BY TypeStep, ServiceStep
<1>3. TypeOK /\ ServiceInv => OutOfService
  BY DEF TypeOK, ScheduleSteps, ServiceInv, OutOfService
<1>4. QED
  BY <1>1, <1>2, <1>3, PTL DEF Spec

-----------------------------------------------------------------------------
(* The budget.                                                              *)

BudgetInv ==
  ~slipped => mode \subseteq charged /\ Cardinality(charged) * PortCells <= Budget

LEMMA FewerCells ==
  ASSUME NEW S \in SUBSET Ports, NEW T \in SUBSET S, Cardinality(S) * PortCells <= Budget
  PROVE  Cardinality(T) * PortCells <= Budget
<1>1. /\ Cardinality(S) \in Nat /\ Cardinality(T) \in Nat
      /\ Cardinality(T) <= Cardinality(S)
  BY PortsAssumption, FS_Subset, FS_CardinalityType
<1>2. \A m, n \in Nat : m <= n => m * PortCells <= n * PortCells
  BY CellsAssumption
<1>3. Cardinality(T) * PortCells \in Nat /\ Cardinality(S) * PortCells \in Nat
  BY <1>1, CellsAssumption
<1>4. QED
  BY <1>1, <1>2, <1>3, CellsAssumption

LEMMA OneMoreFits ==
  ASSUME NEW S \in SUBSET Ports, NEW p \in Ports, Fits(S)
  PROVE  Cardinality(S \union {p}) * PortCells <= Budget
<1>1. /\ IsFiniteSet(S) /\ Cardinality(S) \in Nat /\ Cardinality(S \union {p}) \in Nat
      /\ Cardinality(S \union {p}) = Cardinality(S) \/ Cardinality(S \union {p}) = Cardinality(S) + 1
  BY PortsAssumption, FS_Subset, FS_CardinalityType, FS_AddElement
<1>2. \A n \in Nat : (n + 1) * PortCells = n * PortCells + PortCells /\ n * PortCells \in Nat
  BY CellsAssumption
<1>3. Cardinality(S) * PortCells + PortCells <= Budget
  BY DEF Fits
<1>4. QED
  BY <1>1, <1>2, <1>3, CellsAssumption

LEMMA NoCells == Cardinality({}) * PortCells <= Budget
<1>1. Cardinality({}) = 0
  BY FS_EmptySet
<1>2. 0 * PortCells <= Budget
  BY CellsAssumption
<1>3. QED
  BY <1>1, <1>2

LEMMA BudgetStep == TypeOK /\ BudgetInv /\ [Next]_vars => BudgetInv'
<1>1. SUFFICES ASSUME TypeOK, BudgetInv, [Next]_vars, ~slipped'
               PROVE  mode' \subseteq charged' /\ Cardinality(charged') * PortCells <= Budget
  BY DEF BudgetInv
<1>2. CASE ModeSet
  <2>1. port \in Ports /\ ~slipped
    BY <1>1, <1>2 DEF ModeSet, TypeOK, ScheduleSteps
  <2>2. mode \subseteq charged /\ Cardinality(charged) * PortCells <= Budget /\ charged \in SUBSET Ports
    BY <1>1, <2>1 DEF BudgetInv, TypeOK
  <2>3. \/ UNCHANGED <<mode, charged>>
        \/ mode' = mode \union {port} /\ charged' = charged \union {port} /\ Fits(charged)
        \/ mode' = mode \ {port} /\ charged' = charged \ {port}
        \/ mode' = mode \ {port} /\ charged' = charged
    BY <1>1, <1>2 DEF ModeSet
  <2>4. Cardinality(charged \ {port}) * PortCells <= Budget
    <3>1. charged \ {port} \in SUBSET charged
      OBVIOUS
    <3>2. QED
      BY <2>2, <3>1, FewerCells
  <2>5. Fits(charged) => Cardinality(charged \union {port}) * PortCells <= Budget
    BY <2>1, <2>2, OneMoreFits
  <2>6. QED
    BY <2>2, <2>3, <2>4, <2>5
<1>3. CASE Recreate
  BY <1>3, NoCells DEF Recreate
<1>4. CASE Restart
  <2>1. mode' = mode /\ charged' = mode /\ ~slipped
    BY <1>1, <1>4 DEF Restart, chip
  <2>2. mode \in SUBSET charged /\ charged \in SUBSET Ports /\ Cardinality(charged) * PortCells <= Budget
    BY <1>1, <2>1 DEF BudgetInv, TypeOK
  <2>3. QED
    BY <2>1, <2>2, FewerCells
<1>5. CASE UNCHANGED <<mode, charged, slipped>>
  BY <1>1, <1>5 DEF BudgetInv
<1>6. ModeSet \/ Recreate \/ Restart \/ UNCHANGED <<mode, charged, slipped>>
  BY <1>1 DEF Next, ScheduleSet, PrioritySet, QueuesOff, Drain, WaitEmpty, PrioWrite, Undrain,
     QueuesOn, EnqueueEnableSet, ResInit, Lower, ResDeinit, Restore, Fill, Empty,
     vars, driver, chip, call, history
<1>7. QED
  BY <1>2, <1>3, <1>4, <1>5, <1>6

(* Ports are never guaranteed more cells than there are.                     *)
THEOREM Cells == Spec => []BudgetKept
<1>1. Init => TypeOK /\ BudgetInv
  <2>1. Init => BudgetInv
    BY NoCells DEF Init, BudgetInv
  <2>2. QED
    BY <2>1, TypeInit
<1>2. TypeOK /\ BudgetInv /\ [Next]_vars => (TypeOK /\ BudgetInv)'
  BY TypeStep, BudgetStep
<1>3. TypeOK /\ BudgetInv => BudgetKept
  <2>1. SUFFICES ASSUME TypeOK, BudgetInv, ~slipped PROVE Cardinality(mode) * PortCells <= Budget
    BY DEF BudgetKept
  <2>2. mode \in SUBSET charged /\ charged \in SUBSET Ports /\ Cardinality(charged) * PortCells <= Budget
    BY <2>1 DEF BudgetInv, TypeOK
  <2>3. QED
    BY <2>2, FewerCells
<1>4. QED
  BY <1>1, <1>2, <1>3, PTL DEF Spec
=============================================================================
