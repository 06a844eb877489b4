----------------------------- MODULE PatchLoad -----------------------------
(***************************************************************************)
(* Loading the firmware patch while a device is probed (jl61xx_load_patch, *)
(* jl61xx_drv_patch.c; the jl6107x one is the same protocol without SPI    *)
(* and pin multiplexer).  The driver resets the chip's processor, hands    *)
(* the image over block by block through a mailbox, has it run and checks  *)
(* that it does.  While it loads, the chip listens on another way than the *)
(* one it is wired for, and for two of the wirings the driver cannot read  *)
(* it: it then works blind, with delays.                                   *)
(*                                                                         *)
(* A way is an MDIO address or a bus.  The chip is external: it works at   *)
(* its own pace, except that a port_udelay is long enough for what the     *)
(* chip will do at all, and that it takes a block before the second        *)
(* register access after it.  Devices are probed one at a time.            *)
(***************************************************************************)
EXTENDS Integers, Sequences

CONSTANTS
  Devices,    \* the devices
  Straps,     \* the ways a chip can be strapped to, and its jl_dev_t asks for
  Blocks,     \* blocks of 16 bytes in the image
  Tries,      \* what the poll loops count down from
  Faulty      \* whether a register access can fail

Ways == {"mid0", "mid5", "mid29", "spi", "smi_over_spi"}

ASSUME StrapsAssumption == Straps \subseteq Ways \ {"smi_over_spi"}
ASSUME BlocksAssumption == Blocks \in Nat \ {0}
ASSUME TriesAssumption  == Tries \in Nat \ {0}
ASSUME FaultyAssumption == Faulty \in BOOLEAN

VARIABLES
  devid,      \* g_mdio_devid, one for all devices
  desc,       \* per device: io_desc, the way it takes and `reserved'
  chip,       \* per device: the chip (external)
  pc,         \* per device: where its load is
  at,         \* per device: blocks written
  left,       \* per device: `try'
  pins,       \* per device: pmx_load
  last        \* per device: what the last load answered

vars == <<devid, desc, chip, pc, at, left, pins, last>>

Firmware == {"factory", "reset", "loading", "refused", "dead", "patched", "crashed"}
Places   == {"idle", "select", "save", "prepare", "reset", "ready", "room", "block",
             "announce", "boot", "execute", "done", "verify", "restore"}

\* csr is FW_RESERVED19: bit 15 says that a block is there, bit 14 that the image is
\* to run; data is the block in FW_RESERVED20, told is FW_RESERVED26, took the blocks
\* the chip has got since its reset.
Chip == [ strap : Straps, fw : Firmware, way : Ways, data : 0 .. Blocks, csr : {"clear", "full", "go"},
          told : Ways, took : Seq(1 .. Blocks), pins : {"board", "default"} ]

Fresh(w) == [ strap |-> w, fw |-> "factory", way |-> w, data |-> 0, csr |-> "clear",
              told |-> "mid0", took |-> <<>>, pins |-> "board" ]

TypeOK ==
  /\ devid \in Ways
  /\ desc \in [Devices -> [way : Ways, reserved : {0, 1}]]
  /\ chip \in [Devices -> Chip]
  /\ pc \in [Devices -> Places]
  /\ at \in [Devices -> 0 .. Blocks]
  /\ left \in [Devices -> 0 .. Tries]
  /\ pins \in [Devices -> {"board", "default"}]
  /\ last \in [Devices -> {"none", "skipped", "patched", "failed"}]

Init ==
  /\ devid = "mid0"
  /\ \E strap \in [Devices -> Straps] :
       /\ desc = [d \in Devices |-> [way |-> strap[d], reserved |-> 0]]
       /\ chip = [d \in Devices |-> Fresh(strap[d])]
  /\ pc = [d \in Devices |-> "idle"]
  /\ at = [d \in Devices |-> 0]
  /\ left = [d \in Devices |-> 0]
  /\ pins = [d \in Devices |-> "board"]
  /\ last = [d \in Devices |-> "none"]

-----------------------------------------------------------------------------
(* The chip.                                                                *)

\* where a chip listens that is strapped to w and waits for an image
LoadingWay(w) == CASE w = "mid29" -> "mid0" [] w = "spi" -> "smi_over_spi" [] OTHER -> w

\* what a chip does with a block that is announced to it
Taken(c) == IF c.csr = "full" /\ c.fw = "loading"
            THEN [c EXCEPT !.csr = "clear", !.data = 0, !.took = Append(@, c.data)] ELSE c

\* what a chip that was told to run may become: whatever its image is worth
Ran(c) == IF c.csr = "go" /\ c.fw = "loading"
             THEN {[c EXCEPT !.fw = f, !.csr = "clear", !.pins = "default",
                             !.way = IF c.strap = "spi" THEN "spi" ELSE c.told] :
                        f \in {"patched", "crashed"}}
             ELSE {c}

ChipStep(d) ==
  /\ \/ chip[d].fw = "reset" /\ chip' = [chip EXCEPT ![d].fw = "loading"]
     \/ chip[d].csr = "full" /\ chip' = [chip EXCEPT ![d] = Taken(@)]
     \/ chip[d].csr = "full" /\ chip[d].fw = "loading" /\ chip' = [chip EXCEPT ![d].fw = "refused"]
     \/ \E c \in Ran(chip[d]) : chip' = [chip EXCEPT ![d] = c]
  /\ UNCHANGED <<devid, desc, pc, at, left, pins, last>>

-----------------------------------------------------------------------------
(* The load, one register access or delay a step.                           *)

Type(d)    == IF chip[d].strap = "spi" THEN "SPI" ELSE "SMI"
Mid29(d)   == Type(d) = "SMI" /\ devid = "mid29"       \* __is_mid29_load_patch
Blind(d)   == Type(d) = "SPI" \/ Mid29(d)
Reaches(d) == desc[d].way = chip[d].way

Goes(d, place) == pc' = [pc EXCEPT ![d] = place]
Counts(d, n)   == left' = [left EXCEPT ![d] = n]
Wrote(d, n)    == at' = [at EXCEPT ![d] = n]
Saved(d, pmx)  == pins' = [pins EXCEPT ![d] = pmx]
Answers(d, ret) ==
  /\ Goes(d, "idle") /\ Counts(d, 0) /\ Wrote(d, 0) /\ Saved(d, "board")
  /\ last' = [last EXCEPT ![d] = ret]

\* __exchange_mid: the check of the completion is off while the address is not 29's own
ExchangeMid(io, mid) == [way |-> mid, reserved |-> IF io.way = "mid29" THEN 1 ELSE 0]
\* __exchange_io
ExchangeIo(way) == [way |-> way, reserved |-> IF way = "smi_over_spi" THEN 1 ELSE 0]

\* an access whose error makes the load fail
Fails(d, place) ==
  /\ pc[d] = place /\ (Faulty \/ ~ Reaches(d))
  /\ Answers(d, "failed")
  /\ UNCHANGED <<devid, desc, chip>>

\* jl_switch_device_create up to jl61xx_load_patch: it has copied the jl_dev_t and
\* read the firmware's state
Probe(d) ==
  /\ \A e \in Devices : pc[e] = "idle"
  /\ last[d] \in {"none", "failed"} /\ chip[d].way = chip[d].strap
  /\ desc' = [desc EXCEPT ![d] = [way |-> chip[d].strap, reserved |-> 0]]
  /\ Goes(d, "select")
  /\ UNCHANGED <<devid, chip, at, left, pins, last>>

\* jl61xx_watchdog_reset of a delete, or the user's power switch
ResetChip(d) ==
  /\ pc[d] = "idle" /\ last[d] # "none"
  /\ last' = [last EXCEPT ![d] = "none"]
  /\ chip' = [chip EXCEPT ![d] = Fresh(@.strap)]
  /\ UNCHANGED <<devid, desc, pc, at, left, pins>>

\* __patch_select: no image for this chip, or its version cannot be read
Select(d) ==
  /\ pc[d] = "select"
  /\ \/ Goes(d, "save") /\ UNCHANGED <<at, left, pins, last>>
     \/ Answers(d, "skipped")
  /\ UNCHANGED <<devid, desc, chip>>

\* __pinmux_read, then g_mdio_devid
SavePins(d) ==
  /\ pc[d] = "save"
  /\ Saved(d, chip[d].pins)
  /\ devid' = IF Type(d) = "SMI" THEN desc[d].way ELSE "mid0"
  /\ Goes(d, "prepare")
  /\ UNCHANGED <<desc, chip, at, left, last>>

\* clear FW_RESERVED19 and set FW_RESERVED20 to 0xed0c
Prepare(d) ==
  /\ pc[d] = "prepare" /\ Reaches(d)
  /\ chip' = [chip EXCEPT ![d].csr = "clear"]
  /\ desc' = [desc EXCEPT ![d].reserved = IF Blind(d) THEN 1 ELSE @]
  /\ Goes(d, "reset")
  /\ UNCHANGED <<devid, at, left, pins, last>>

\* CRG_CCS_RST; blind, it waits until the chip is ready if it will be at all
ResetCcs(d) ==
  /\ pc[d] = "reset" /\ Reaches(d)
  /\ \E fw \in IF Blind(d) THEN {"loading", "dead"} ELSE {"reset"} :
       chip' = [chip EXCEPT ![d].fw = fw, ![d].took = <<>>, ![d].way = LoadingWay(chip[d].strap)]
  /\ desc' = [desc EXCEPT ![d] = CASE Type(d) = "SPI" -> ExchangeIo("smi_over_spi")
                                   [] Mid29(d) -> ExchangeMid(@, "mid0")
                                   [] OTHER -> @]
  /\ Counts(d, Tries)
  /\ Goes(d, IF Blind(d) THEN "room" ELSE "ready")
  /\ UNCHANGED <<devid, at, pins, last>>

\* Mutant: the loop does not count down.
PollForever(d, from, seen, place) ==
  /\ pc[d] = from /\ Reaches(d)
  /\ Goes(d, IF seen THEN place ELSE from)
  /\ UNCHANGED <<devid, desc, chip, at, left, pins, last>>

\* while (--try): poll until `seen', then go to `place' with the next loop's count
Poll(d, from, seen, place) ==
  /\ pc[d] = from
  /\ \/ left[d] = 1 /\ Answers(d, "failed")
     \/ /\ left[d] > 1 /\ Reaches(d)
        /\ IF seen THEN Goes(d, place) /\ Counts(d, Tries)
                   ELSE Goes(d, from) /\ Counts(d, left[d] - 1)
        /\ UNCHANGED <<at, pins, last>>
  /\ UNCHANGED <<devid, desc, chip>>

\* FW_RESERVED20 is 0xc0de
Ready(d) == Poll(d, "ready", chip[d].fw = "loading", "room")

\* Mutant: the mailbox is not looked at.
RoomAssumed(d) ==
  /\ pc[d] = "room"
  /\ Goes(d, IF at[d] = Blocks THEN "boot" ELSE "block")
  /\ UNCHANGED <<devid, desc, chip, at, left, pins, last>>

\* Mutant: while (index <= patch_size)
RoomPast(d) ==
  /\ pc[d] = "room"
  /\ Goes(d, IF at[d] > Blocks THEN "boot" ELSE "block")
  /\ chip' = [chip EXCEPT ![d] = Taken(@)]
  /\ UNCHANGED <<devid, desc, at, left, pins, last>>

\* The head of the loop of __patch_load: bit 8 is an error, bit 15 a block the
\* chip has not taken yet; blind, port_udelay
Room(d) ==
  \/ /\ pc[d] = "room" /\ at[d] = Blocks
     /\ Goes(d, "boot")
     /\ UNCHANGED <<devid, desc, chip, at, left, pins, last>>
  \/ /\ pc[d] = "room" /\ at[d] < Blocks /\ Blind(d)
     /\ chip' = [chip EXCEPT ![d] = Taken(@)]
     /\ Goes(d, "block")
     /\ UNCHANGED <<devid, desc, at, left, pins, last>>
  \/ /\ at[d] < Blocks /\ ~ Blind(d) /\ chip[d].fw # "refused"
     /\ Poll(d, "room", chip[d].csr # "full", "block")
  \/ /\ pc[d] = "room" /\ at[d] < Blocks /\ ~ Blind(d) /\ chip[d].fw = "refused"
     /\ Answers(d, "failed")
     /\ UNCHANGED <<devid, desc, chip>>

\* the block goes to FW_RESERVED20 and on
Block(d) ==
  /\ pc[d] = "block" /\ Reaches(d)
  /\ chip' = [chip EXCEPT ![d].data = at[d] + 1]
  /\ Wrote(d, at[d] + 1)
  /\ Goes(d, "announce")
  /\ UNCHANGED <<devid, desc, left, pins, last>>

\* bit 15 of FW_RESERVED19
Announce(d) ==
  /\ pc[d] = "announce" /\ Reaches(d)
  /\ chip' = [chip EXCEPT ![d].csr = "full"]
  /\ Goes(d, "room")
  /\ UNCHANGED <<devid, desc, at, left, pins, last>>

\* FW_RESERVED26: the address the patched firmware takes
Boot(d) ==
  /\ pc[d] = "boot" /\ Reaches(d)
  /\ chip' = [chip EXCEPT ![d].told = devid]
  /\ Goes(d, "execute")
  /\ UNCHANGED <<devid, desc, at, left, pins, last>>

\* Mutant: the way is not changed back.
ExecuteStays(d) ==
  /\ pc[d] = "execute" /\ Reaches(d)
  /\ chip' = [chip EXCEPT ![d] = [Taken(@) EXCEPT !.csr = "go"]]
  /\ Goes(d, IF Type(d) = "SPI" THEN "restore" ELSE "done")
  /\ UNCHANGED <<devid, desc, at, left, pins, last>>

\* FW_RESERVED19 := bit 14, which takes bit 15 back; over SPI the chip has its
\* millisecond and nothing is checked
Execute(d) ==
  /\ pc[d] = "execute" /\ Reaches(d)
  /\ LET told == [Taken(chip[d]) EXCEPT !.csr = "go"]
     IN \E c \in IF Type(d) = "SPI" THEN Ran(told) ELSE {told} : chip' = [chip EXCEPT ![d] = c]
  /\ desc' = [desc EXCEPT ![d] = CASE Type(d) = "SPI" -> ExchangeIo("spi")
                                   [] Mid29(d) -> ExchangeMid(@, devid)
                                   [] OTHER -> @]
  /\ Counts(d, Tries)
  /\ Goes(d, IF Type(d) = "SPI" THEN "restore" ELSE "done")
  /\ UNCHANGED <<devid, at, pins, last>>

\* bits 5 to 7 of FW_RESERVED19: the firmware has been started
Done(d) == Poll(d, "done", chip[d].fw \in {"patched", "crashed"}, "verify")

\* FW_RESERVED26 twice: a firmware that runs keeps changing it, but where it has
\* not the code goes to err with ret still JL_ERR_OK
Verify(d) ==
  /\ pc[d] = "verify" /\ Reaches(d)
  /\ Goes(d, "restore")
  /\ UNCHANGED <<devid, desc, chip, at, left, pins, last>>

\* __pinmux_write
RestorePins(d) ==
  /\ pc[d] = "restore" /\ Reaches(d)
  /\ chip' = [chip EXCEPT ![d].pins = pins[d]]
  /\ Answers(d, "patched")
  /\ UNCHANGED <<devid, desc>>

\* what the driver does if the register accesses do what they can
Advance(d) ==
  \/ Select(d) \/ SavePins(d) \/ Prepare(d) \/ ResetCcs(d) \/ Ready(d) \/ Room(d) \/ Block(d)
  \/ Announce(d) \/ Boot(d) \/ Execute(d) \/ Done(d) \/ Verify(d) \/ RestorePins(d)
  \/ ~ Reaches(d) /\ \E place \in Places \ {"idle", "select"} : Fails(d, place)

Step(d) == Advance(d) \/ \E place \in Places \ {"idle", "select"} : Fails(d, place)

Next == \E d \in Devices : Probe(d) \/ ResetChip(d) \/ ChipStep(d) \/ Step(d)

Spec == Init /\ [][Next]_vars

\* The driver keeps running; the chip owes nothing, and no access is bound to fail.
FairSpec == Spec /\ \A d \in Devices : WF_vars(Advance(d))
-----------------------------------------------------------------------------
(* Properties *)

Image == [i \in 1 .. Blocks |-> i]

(* A chip that runs a patch has been given the whole image, every block     *)
(* once and in order: the handshake of the mailbox, the delays where the    *)
(* driver is blind, and the errors that end a load.                         *)
WholeImage == \A d \in Devices : chip[d].fw \in {"patched", "crashed"} => chip[d].took = Image

(* While a load talks to a chip, and after one that answered OK, the driver *)
(* speaks to the chip on the way on which it listens, unless the chip has   *)
(* still to start the image; once it is loaded that is the way it is wired  *)
(* for, with the completion check on.                                       *)
SameWay ==
  \A d \in Devices :
    /\ pc[d] # "idle" => Reaches(d) \/ chip[d].csr = "go"
    /\ pc[d] = "idle" /\ last[d] = "patched" =>
         Reaches(d) /\ desc[d] = [way |-> chip[d].strap, reserved |-> 0]

(* Every load is answered, whatever the chip does.                           *)
LoadsAnswered == \A d \in Devices : (pc[d] = "select") ~> (pc[d] = "idle")
=============================================================================
