---------------------------- MODULE PortIsolation ----------------------------
(***************************************************************************)
(* Which ports may not send to which (jl61xx_drv_pti.c).                   *)
(*                                                                         *)
(* The chip has, for each port, the ports whose packets it does not send.  *)
(* A client sets them by destination, by source, or by group: the ports of *)
(* a group may not send to each other.  The chip does not know of groups;  *)
(* the driver keeps their masks, in one array for all devices, to take out *)
(* of the chip what an earlier mask put in.  While it writes it holds back *)
(* the filter of the firmware with a bit of FW_RESERVED14.                 *)
(*                                                                         *)
(* A call is a sequence of register accesses, one a step (a read with the  *)
(* write that follows it).  A write that fails may have been done.  Calls  *)
(* run one at a time.  Chip ports stand for logical ones.                  *)
(***************************************************************************)
EXTENDS Integers

CONSTANTS
  Devices, NoDevice,
  Ports, NoPort,
  Groups, NoGroup,      \* jl_pti_group_t
  Masks,                \* port masks clients ask for a group
  SinglePorts,          \* ports that clients ask for by destination or source
  SingleMasks,          \* and the masks they give with them
  Uses,                 \* the groups that clients use on a device
  MaxFailures           \* bound: failures of the bus

ASSUME NonesAssumption  == NoDevice \notin Devices /\ NoGroup \notin Groups /\ NoPort \notin Ports
ASSUME PortsAssumption  ==
  /\ Ports \subseteq Nat /\ SinglePorts \subseteq Ports
  /\ Masks \subseteq SUBSET Ports /\ SingleMasks \subseteq SUBSET Ports
ASSUME UsesAssumption   == Uses \subseteq Devices \X Groups
ASSUME BoundAssumption  == MaxFailures \in Nat

VARIABLES
  pti_group_port,       \* the masks of the groups
  \* the registers of the chips
  filter,               \* src_port_filter, as pairs of a source and a destination
  held,                 \* the devices whose firmware is held back
  \* the call that runs
  pc, dev, op, port, group, mask,
  todo,                 \* ports whose filter is still to be written
  \* history
  told,                 \* the masks a client has been told are in force
  single,               \* pairs a client asked for by source or destination
  reopened,             \* pairs that a clear or a change of some group took out
  loose,                \* groups a call by port overruled, or set to OK without an access
  failures

chip    == <<filter, held>>
call    == <<pc, dev, op, port, group, mask, todo>>
history == <<told, single, reopened, loose, failures>>
vars    == <<pti_group_port, chip, call, history>>

Pairs(m) == {e \in m \X m : e[1] # e[2]}
Used(d)  == {g \in Groups : <<d, g>> \in Uses}

TypeOK ==
  /\ pti_group_port \in [Groups -> SUBSET Ports]
  /\ filter \in [Devices -> SUBSET (Ports \X Ports)]
  /\ held \subseteq Devices
  /\ pc \in {"idle", "hold", "write", "release"}
  /\ dev \in Devices \union {NoDevice}
  /\ pc # "idle" => dev \in Devices
  /\ op \in {"none", "dst", "src", "clear", "change", "set"}
  /\ port \in Ports \union {NoPort}
  /\ op \in {"dst", "src"} => port \in Ports
  /\ group \in Groups \union {NoGroup}
  /\ op \in {"clear", "change", "set"} => <<dev, group>> \in Uses
  /\ mask \subseteq Ports
  /\ todo \subseteq Ports
  /\ pc = "write" => todo # {}
  /\ told \in [Devices -> [Groups -> SUBSET Ports]]
  /\ single \in [Devices -> SUBSET (Ports \X Ports)]
  /\ reopened \in [Devices -> SUBSET (Ports \X Ports)]
  /\ loose \subseteq Devices \X Groups
  /\ failures \in 0 .. MaxFailures

Init ==
  /\ pti_group_port = [g \in Groups |-> {}]
  /\ filter = [d \in Devices |-> {}] /\ held = {}
  /\ pc = "idle" /\ dev = NoDevice /\ op = "none" /\ port = NoPort /\ group = NoGroup
  /\ mask = {} /\ todo = {}
  /\ told = [d \in Devices |-> [g \in Groups |-> {}]]
  /\ single = [d \in Devices |-> {}] /\ reopened = [d \in Devices |-> {}]
  /\ loose = {} /\ failures = 0

-----------------------------------------------------------------------------
Fault   == failures < MaxFailures /\ failures' = failures + 1
NoFault == UNCHANGED failures

CallEnds ==
  /\ pc' = "idle" /\ dev' = NoDevice /\ op' = "none" /\ port' = NoPort
  /\ group' = NoGroup /\ mask' = {} /\ todo' = {}

Tell(d, g, m) == told' = [told EXCEPT ![d][g] = m]

\* the macros return what failed
CallFails ==
  /\ Fault /\ CallEnds
  /\ IF group = NoGroup THEN UNCHANGED told ELSE Tell(dev, group, {})
  /\ UNCHANGED <<single, reopened, loose>>

-----------------------------------------------------------------------------
(* The calls, up to their first access                                      *)

Begins(d, what, p, g, m) ==
  /\ pc = "idle"
  /\ pc' = "hold" /\ dev' = d /\ op' = what /\ port' = p /\ group' = g /\ mask' = m
  /\ UNCHANGED <<pti_group_port, chip, todo, told, failures>>

\* The groups in force on d with port p: a change by port overrules them.
With(d, p) == {d} \X {g \in Groups : p \in told[d][g]}

\* jl61xx_port_isolation_dst_set, jl61xx_port_isolation_src_set
DstSet(d, p, m) ==
  /\ Begins(d, "dst", p, NoGroup, m)
  /\ single' = [single EXCEPT ![d] = @ \union (m \X {p})]
  /\ loose' = loose \union With(d, p)
  /\ UNCHANGED reopened

SrcSet(d, p, m) ==
  /\ Begins(d, "src", p, NoGroup, m)
  /\ single' = [single EXCEPT ![d] = @ \union ({p} \X m)]
  /\ loose' = loose \union With(d, p)
  /\ UNCHANGED reopened

\* A call that first takes the noted mask out of the chip, if there is one.
Rewrites(d, what, g, m) ==
  /\ Begins(d, what, NoPort, g, m)
  /\ reopened' = [reopened EXCEPT ![d] = @ \union Pairs(pti_group_port[g])]
  /\ UNCHANGED <<single, loose>>

\* No operation is required: the mask is the noted one, whether or not this chip has it.
AnswersOk(d, g, m) ==
  /\ pc = "idle" /\ pti_group_port[g] = m
  /\ Tell(d, g, m)
  /\ loose' = IF told[d][g] = m THEN loose ELSE loose \union {<<d, g>>}
  /\ UNCHANGED <<pti_group_port, chip, call, single, reopened, failures>>

\* Mutant: a group with a mask is given another without a clear.
GroupSetOver(d, g, m) == Rewrites(d, "set", g, m)

\* jl61xx_port_isolation_group_set
GroupSet(d, g, m) ==
  \/ AnswersOk(d, g, m)
  \/ /\ pti_group_port[g] # m
     /\ Rewrites(d, IF pti_group_port[g] = {} THEN "set" ELSE "change", g, m)

\* jl61xx_port_isolation_group_clear
GroupClear(d, g) ==
  \/ AnswersOk(d, g, {})
  \/ pti_group_port[g] # {} /\ Rewrites(d, "clear", g, {})

-----------------------------------------------------------------------------
(* The steps of a call                                                      *)

\* the ports whose filter a call writes
Concerned ==
  CASE op = "dst" -> {port}
    [] op = "src" -> Ports
    [] op = "set" -> mask
    [] OTHER      -> pti_group_port[group]

\* Mutant: the loop is entered for a mask without ports.
HoldEnters ==
  /\ pc = "hold"
  /\ held' = held \union {dev} /\ todo' = Concerned /\ pc' = "write"
  /\ pti_group_port' = (IF op = "set" THEN [pti_group_port EXCEPT ![group] = mask]
                        ELSE pti_group_port)
  /\ UNCHANGED <<filter, dev, op, port, group, mask, history>>

\* fw_reserved14, bit 16; the mask of a group is noted before it is written
Hold ==
  /\ pc = "hold"
  /\ \/ /\ held' = held \union {dev} /\ todo' = Concerned
        /\ pc' = (IF Concerned = {} THEN "release" ELSE "write")
        /\ pti_group_port' = (IF op = "set" THEN [pti_group_port EXCEPT ![group] = mask]
                              ELSE pti_group_port)
        /\ UNCHANGED <<dev, op, port, group, mask, history>>
     \/ /\ held' \in {held, held \union {dev}} /\ CallFails
        /\ UNCHANGED pti_group_port
  /\ UNCHANGED filter

\* Mutant: a clear opens the port of a group to every source.
BarredNone(p) ==
  CASE op = "dst" -> {e \in filter[dev] : e[2] # p} \union (mask \X {p})
    [] op = "src" -> (filter[dev] \ {<<port, p>>}) \union (({port} \X mask) \intersect {<<port, p>>})
    [] op = "set" -> filter[dev] \union ((mask \ {p}) \X {p})
    [] OTHER      -> {e \in filter[dev] : e[2] # p}

\* the pairs that are barred when the filter of p has been written
Barred(p) ==
  LET old == filter[dev] IN
  CASE op = "dst" -> {e \in old : e[2] # p} \union (mask \X {p})
    [] op = "src" -> (old \ {<<port, p>>}) \union (({port} \X mask) \intersect {<<port, p>>})
    [] op = "set" -> old \union ((mask \ {p}) \X {p})
    [] OTHER      -> old \ ((pti_group_port[group] \ {p}) \X {p})

\* src_port_filter of one port after the other
Write ==
  /\ pc = "write"
  /\ \E p \in todo :
       LET done == [filter EXCEPT ![dev] = Barred(p)] IN
       /\ \A q \in todo : p <= q
       /\ \/ /\ filter' = done /\ todo' = todo \ {p}
             /\ pc' = (IF todo = {p} THEN "release" ELSE "write")
             /\ pti_group_port' = (IF todo = {p} /\ op \in {"clear", "change"}
                                   THEN [pti_group_port EXCEPT ![group] = {}]
                                   ELSE pti_group_port)
             /\ UNCHANGED <<dev, op, port, group, mask, history>>
          \/ /\ filter' \in {filter, done} /\ CallFails
             /\ UNCHANGED pti_group_port
  /\ UNCHANGED held

Release ==
  /\ pc = "release"
  /\ \/ /\ op = "change" /\ held' = held \ {dev} /\ NoFault
        /\ op' = "set" /\ pc' = "hold"
        /\ UNCHANGED <<dev, port, group, mask, todo, told, single, reopened, loose>>
     \/ /\ op # "change" /\ held' = held \ {dev} /\ NoFault
        /\ CallEnds
        /\ IF group = NoGroup THEN UNCHANGED <<told, reopened, loose>>
           ELSE /\ Tell(dev, group, mask)
                /\ reopened' = [reopened EXCEPT ![dev] = @ \ Pairs(mask)]
                /\ loose' = loose \ {<<dev, group>>}
        /\ UNCHANGED single
     \/ held' \in {held, held \ {dev}} /\ CallFails
  /\ UNCHANGED <<pti_group_port, filter>>

\* The device is deleted, which resets the chip, and created again; the masks of
\* the groups stay.
Recreate(d) ==
  /\ pc = "idle"
  /\ filter' = [filter EXCEPT ![d] = {}] /\ held' = held \ {d}
  /\ told' = [told EXCEPT ![d] = [g \in Groups |-> {}]]
  /\ single' = [single EXCEPT ![d] = {}] /\ reopened' = [reopened EXCEPT ![d] = {}]
  /\ loose' = loose \ ({d} \X Groups)
  /\ UNCHANGED <<pti_group_port, call, failures>>

Next ==
  \/ \E d \in Devices, p \in SinglePorts, m \in SingleMasks : DstSet(d, p, m) \/ SrcSet(d, p, m)
  \/ \E d \in Devices, m \in Masks : \E g \in Used(d) : GroupSet(d, g, m)
  \/ \E d \in Devices : \E g \in Used(d) : GroupClear(d, g)
  \/ Hold \/ Write \/ Release
  \/ \E d \in Devices : Recreate(d)

Spec == Init /\ [][Next]_vars

-----------------------------------------------------------------------------
(* Properties                                                               *)

\* no call is about to change group g on d
Settled(d, g) == ~(dev = d /\ group = g)

(* "the ports members in the portmask can't transmit packets to each other":  *)
(* a group whose set was answered OK isolates its ports, whatever is then set, *)
(* changed or cleared for other groups or on other devices, at every step of   *)
(* those calls and wherever they fail.  Left out: the pairs that a clear or a  *)
(* change of another group with the same two ports took out, groups overruled  *)
(* by port, and groups whose set the driver answered without an access; the    *)
(* last and the first of these are in AnsweredIsolated.                        *)
GroupIsolated ==
  \A d \in Devices, g \in Groups :
    <<d, g>> \notin loose /\ Settled(d, g)
      => Pairs(told[d][g]) \ reopened[d] \subseteq filter[d]

(* What a client may think it was told: a group whose last set was answered OK *)
(* isolates its ports, whether or not the driver found an access required for  *)
(* it ("the portmask from the group id is the same, no operation is required") *)
(* and whatever is then done to other groups.  For clients without calls by    *)
(* port, which overrule groups.                                                *)
AnsweredIsolated ==
  \A d \in Devices, g \in Groups : Settled(d, g) => Pairs(told[d][g]) \subseteq filter[d]

(* No two ports are kept apart that nobody asked for: a barred pair was set by *)
(* port, or is of a mask the driver has noted, so that a clear takes it out,   *)
(* at every step of every call and wherever one was cut off.                   *)
PairsKnown ==
  \A d \in Devices :
    filter[d] \subseteq single[d] \union UNION {Pairs(pti_group_port[g]) : g \in Used(d)}
=============================================================================
