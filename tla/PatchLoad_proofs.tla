-------------------------- MODULE PatchLoad_proofs --------------------------
(***************************************************************************)
(* Proofs about PatchLoad: the chip that runs a patch has got the whole     *)
(* image, and driver and chip find each other on the same way, for any      *)
(* number of devices, any straps, any image and any faults.                 *)
(*                                                                          *)
(* The inductive invariant says of every place of a load what the way of    *)
(* the chip and of the io description are there, and how much of the image  *)
(* the chip has and holds in its mailbox.  It is written over a place p, a  *)
(* chip c, an io description io, blocks written n and a last answer l, so   *)
(* that a step is reasoned about by its values before and after.            *)
(***************************************************************************)
EXTENDS PatchLoad, SequenceTheorems, TLAPS

Io      == [way : Ways, reserved : {0, 1}]
Answer  == {"none", "skipped", "patched", "failed"}
Early   == {"select", "save", "prepare", "reset"}
Loading == {"ready", "room", "block", "announce", "boot", "execute"}
Runs    == {"patched", "crashed"}
Upto(n) == [i \in 1 .. n |-> i]
Own(s)  == IF s = "spi" THEN "mid0" ELSE s
Home(c, io) == io.way = c.strap /\ io.reserved = 0

Addressed(p, c, v) == p \notin {"idle", "select", "save"} => v = Own(c.strap)

WayKept(p, c, io, l) ==
  /\ c.fw \in Runs \cup {"factory"} => c.way = c.strap
  /\ c.csr = "go" \/ p = "execute" => c.told = Own(c.strap)
  /\ p \in Early => c.way = c.strap /\ io.way = c.strap
  /\ p \in Loading =>
       /\ c.way = LoadingWay(c.strap) /\ io.way = LoadingWay(c.strap)
       /\ c.csr # "go" /\ c.fw \notin Runs \cup {"factory"}
  /\ p \in Early \cup Loading /\ c.strap \notin {"mid29", "spi"} => io.reserved = 0
  /\ p \in {"done", "restore"} => Home(c, io) /\ (c.csr = "go" \/ c.way = c.strap)
  /\ p = "verify" => Home(c, io) /\ c.way = c.strap
  /\ p = "idle" /\ l = "patched" => Home(c, io) /\ c.way = c.strap

\* the n blocks written are with the chip, but for the one in its mailbox
Handed(c, n) ==
  /\ c.csr = "full" => c.data = n /\ c.took = Upto(n - 1)
  /\ c.csr # "full" => c.took = Upto(n)

Mailbox(p, c, n) ==
  /\ c.csr = "full" => c.data \in 1 .. Blocks
  /\ c.fw = "reset" => c.csr = "clear"
  /\ c.csr = "go" /\ c.fw = "loading" => c.took = Upto(Blocks)
  /\ c.fw \in Runs => c.took = Upto(Blocks)
  /\ p \in Early \cup {"idle", "ready"} => n = 0
  /\ p = "reset" => c.csr = "clear"
  /\ p = "ready" => c.csr # "full" /\ c.took = Upto(0)
  /\ p \in Loading \ {"ready"} => c.fw # "reset"
  /\ p \in {"room", "boot", "execute"} /\ c.fw = "loading" => Handed(c, n)
  /\ p \in {"boot", "execute"} => n = Blocks
  /\ p = "block" => n < Blocks /\ (c.fw = "loading" => c.csr # "full" /\ c.took = Upto(n))
  /\ p = "announce" =>
       n > 0 /\ c.data = n /\ (c.fw = "loading" => c.csr # "full" /\ c.took = Upto(n - 1))

OneAtATime == \A d, e \in Devices : pc[d] # "idle" /\ pc[e] # "idle" => d = e

Kept(d) ==
  /\ Addressed(pc[d], chip[d], devid)
  /\ WayKept(pc[d], chip[d], desc[d], last[d])
  /\ Mailbox(pc[d], chip[d], at[d])

IInv == TypeOK /\ OneAtATime /\ \A d \in Devices : Kept(d)

-----------------------------------------------------------------------------
(* Values.                                                                   *)

\* a chip with the same strap
Alt(c, fw, way, data, csr, told, took, pmx) ==
  [strap |-> c.strap, fw |-> fw, way |-> way, data |-> data, csr |-> csr,
   told |-> told, took |-> took, pins |-> pmx]

\* what is left alone is changed to what it was
LEMMA Same ==
  ASSUME NEW S, NEW T, NEW f \in [S -> T], NEW d \in S
  PROVE  f = [f EXCEPT ![d] = f[d]] /\ f[d] \in T
OBVIOUS

\* the next block follows the ones before it
LEMMA OneMore ==
  ASSUME NEW n \in Nat, n > 0
  PROVE  Append(Upto(n - 1), n) = Upto(n)
<1>1. Upto(n - 1) \in Seq(Nat) /\ Len(Upto(n - 1)) = n - 1
  BY DEF Upto
<1>2. /\ Append(Upto(n - 1), n) \in Seq(Nat)
      /\ Len(Append(Upto(n - 1), n)) = n
      /\ \A i \in 1 .. n : Append(Upto(n - 1), n)[i] = i
  BY <1>1, AppendProperties DEF Upto
<1>3. Upto(n) \in Seq(Nat) /\ Len(Upto(n)) = n /\ \A i \in 1 .. n : Upto(n)[i] = i
  BY DEF Upto
<1> QED BY <1>2, <1>3, SeqEqual

\* a step of device d, given by its values, keeps the invariant if they do
LEMMA StepKeeps ==
  ASSUME IInv, NEW d \in Devices,
         NEW x \in Chip, NEW y \in Io, NEW p \in Places, NEW n \in 0 .. Blocks,
         NEW k \in 0 .. Tries, NEW m \in {"board", "default"}, NEW l \in Answer, NEW v \in Ways,
         chip' = [chip EXCEPT ![d] = x], desc' = [desc EXCEPT ![d] = y],
         pc' = [pc EXCEPT ![d] = p], at' = [at EXCEPT ![d] = n], left' = [left EXCEPT ![d] = k],
         pins' = [pins EXCEPT ![d] = m], last' = [last EXCEPT ![d] = l], devid' = v,
         (p # "idle" \/ v # devid) => \A e \in Devices \ {d} : pc[e] = "idle",
         Addressed(p, x, v), WayKept(p, x, y, l), Mailbox(p, x, n)
  PROVE  IInv'
<1>1. TypeOK'
  BY DEF IInv, TypeOK, Io, Answer
<1>2. OneAtATime'
  BY DEF IInv, TypeOK, OneAtATime
<1>3. ASSUME NEW e \in Devices PROVE Kept(e)'
  <2>1. CASE e = d
    <3>1. /\ chip'[e] = x /\ desc'[e] = y /\ pc'[e] = p /\ at'[e] = n /\ last'[e] = l
      BY <2>1 DEF IInv, TypeOK
    <3> QED BY <3>1 DEF Kept
  <2>2. CASE e # d
    <3>1. /\ chip'[e] = chip[e] /\ desc'[e] = desc[e] /\ pc'[e] = pc[e] /\ at'[e] = at[e]
          /\ last'[e] = last[e]
      BY <2>2 DEF IInv, TypeOK
    <3>2. Addressed(pc[e], chip[e], v)
      BY <2>2 DEF IInv, Kept, Addressed
    <3> QED BY <3>1, <3>2 DEF Kept, IInv
  <2> QED BY <2>1, <2>2
<1> QED BY <1>1, <1>2, <1>3 DEF IInv

\* what is known of a device before a step
LEMMA Before ==
  ASSUME IInv, NEW d \in Devices
  PROVE  /\ chip[d] \in Chip /\ desc[d] \in Io /\ pc[d] \in Places /\ at[d] \in 0 .. Blocks
         /\ left[d] \in 0 .. Tries /\ pins[d] \in {"board", "default"} /\ last[d] \in Answer
         /\ devid \in Ways
         /\ chip = [chip EXCEPT ![d] = chip[d]] /\ desc = [desc EXCEPT ![d] = desc[d]]
         /\ pc = [pc EXCEPT ![d] = pc[d]] /\ at = [at EXCEPT ![d] = at[d]]
         /\ left = [left EXCEPT ![d] = left[d]] /\ pins = [pins EXCEPT ![d] = pins[d]]
         /\ last = [last EXCEPT ![d] = last[d]]
         /\ pc[d] # "idle" => \A e \in Devices \ {d} : pc[e] = "idle"
         /\ Addressed(pc[d], chip[d], devid) /\ WayKept(pc[d], chip[d], desc[d], last[d])
         /\ Mailbox(pc[d], chip[d], at[d])
<1>1. pc[d] # "idle" => \A e \in Devices \ {d} : pc[e] = "idle"
  BY DEF IInv, OneAtATime
<1> QED BY <1>1, Same DEF IInv, TypeOK, Io, Answer, Kept

\* a load that ends without an answer of OK leaves nothing to be relied on
LEMMA AnswerKeeps ==
  ASSUME IInv, NEW d \in Devices, NEW ret \in {"skipped", "failed"}, Answers(d, ret),
         UNCHANGED <<devid, desc, chip>>
  PROVE  IInv'
<1>1. /\ Addressed("idle", chip[d], devid) /\ WayKept("idle", chip[d], desc[d], ret)
      /\ Mailbox("idle", chip[d], 0)
  BY Before DEF Addressed, WayKept, Mailbox, Early, Loading, Runs
<1>2. "idle" \in Places /\ 0 \in 0 .. Blocks /\ 0 \in 0 .. Tries /\ ret \in Answer
  BY BlocksAssumption, TriesAssumption DEF Places, Answer
<1> QED BY <1>1, <1>2, Before, StepKeeps DEF Answers, Goes, Counts, Wrote, Saved

-----------------------------------------------------------------------------
(* Steps that change no answer.                                              *)

Moves(d, x, y, p, n, k) ==
  /\ chip' = [chip EXCEPT ![d] = x] /\ desc' = [desc EXCEPT ![d] = y]
  /\ pc' = [pc EXCEPT ![d] = p] /\ at' = [at EXCEPT ![d] = n] /\ left' = [left EXCEPT ![d] = k]
  /\ UNCHANGED <<devid, pins, last>>

LEMMA MoveKeeps ==
  ASSUME IInv, NEW d \in Devices, NEW x \in Chip, NEW y \in Io, NEW p \in Places,
         NEW n \in 0 .. Blocks, NEW k \in 0 .. Tries, Moves(d, x, y, p, n, k),
         pc[d] = "idle" => p = "idle",
         Addressed(p, x, devid), WayKept(p, x, y, last[d]), Mailbox(p, x, n)
  PROVE  IInv'
<1>1. p # "idle" => \A e \in Devices \ {d} : pc[e] = "idle"
  BY Before
<1>2. /\ chip' = [chip EXCEPT ![d] = x] /\ desc' = [desc EXCEPT ![d] = y]
      /\ pc' = [pc EXCEPT ![d] = p] /\ at' = [at EXCEPT ![d] = n] /\ left' = [left EXCEPT ![d] = k]
  BY DEF Moves
<1>3. pins' = [pins EXCEPT ![d] = pins[d]] /\ last' = [last EXCEPT ![d] = last[d]] /\ devid' = devid
  BY Before DEF Moves
<1>4. pins[d] \in {"board", "default"} /\ last[d] \in Answer /\ devid \in Ways
  BY Before
<1> QED BY <1>1, <1>2, <1>3, <1>4, StepKeeps

LEMMA AnnounceKeeps ==
  ASSUME IInv, NEW d \in Devices, Announce(d)
  PROVE  IInv'
<1>1. PICK c \in Chip : c = chip[d]
  BY Before
<1>2. PICK x : x = [c EXCEPT !.csr = "full"]
  OBVIOUS
<1>3. x = Alt(c, c.fw, c.way, c.data, "full", c.told, c.took, c.pins)
  BY <1>2, Zenon DEF Chip, Alt
<1>4. pc[d] = "announce" /\ chip' = [chip EXCEPT ![d] = x] /\ pc' = [pc EXCEPT ![d] = "room"]
      /\ UNCHANGED <<devid, desc, at, left, pins, last>>
  BY <1>1, <1>2, Zenon DEF Announce, Goes
<1>5. Moves(d, x, desc[d], "room", at[d], left[d])
  BY <1>4, Before DEF Moves
<1>6. x \in Chip /\ "room" \in Places
  BY <1>1, <1>3, <1>4, Before DEF Chip, Alt, Places
<1>7. Addressed("room", x, devid) /\ WayKept("room", x, desc[d], last[d])
  BY <1>1, <1>3, <1>4, Before DEF Addressed, WayKept, Early, Loading, Runs, Alt
<1>8. Mailbox("room", x, at[d])
  BY <1>1, <1>3, <1>4, Before DEF Mailbox, Handed, Early, Loading, Runs, Alt
<1> QED BY <1>4, <1>5, <1>6, <1>7, <1>8, Before, MoveKeeps

\* (the address is what the load's first steps found out)
LEMMA BootKeeps ==
  ASSUME IInv, NEW d \in Devices, Boot(d)
  PROVE  IInv'
<1>1. PICK c \in Chip : c = chip[d]
  BY Before
<1>2. PICK x : x = [c EXCEPT !.told = devid]
  OBVIOUS
<1>3. x = Alt(c, c.fw, c.way, c.data, c.csr, devid, c.took, c.pins)
  BY <1>2, Zenon DEF Chip, Alt
<1>4. pc[d] = "boot" /\ chip' = [chip EXCEPT ![d] = x] /\ pc' = [pc EXCEPT ![d] = "execute"]
      /\ UNCHANGED <<devid, desc, at, left, pins, last>>
  BY <1>1, <1>2, Zenon DEF Boot, Goes
<1>5. Moves(d, x, desc[d], "execute", at[d], left[d])
  BY <1>4, Before DEF Moves
<1>6. x \in Chip /\ "execute" \in Places
  BY <1>1, <1>3, <1>4, Before DEF Chip, Alt, Places
<1>7. Addressed("execute", x, devid) /\ WayKept("execute", x, desc[d], last[d])
  BY <1>1, <1>3, <1>4, Before DEF Addressed, WayKept, Early, Loading, Runs, Alt
<1>8. Mailbox("execute", x, at[d])
  BY <1>1, <1>3, <1>4, Before DEF Mailbox, Handed, Early, Loading, Runs, Alt
<1> QED BY <1>4, <1>5, <1>6, <1>7, <1>8, Before, MoveKeeps

LEMMA BlockKeeps ==
  ASSUME IInv, NEW d \in Devices, Block(d)
  PROVE  IInv'
<1>1. PICK c \in Chip, n \in 0 .. Blocks : c = chip[d] /\ n = at[d]
  BY Before
<1>2. PICK x : x = [c EXCEPT !.data = n + 1]
  OBVIOUS
<1>3. x = Alt(c, c.fw, c.way, n + 1, c.csr, c.told, c.took, c.pins)
  BY <1>2, Zenon DEF Chip, Alt
<1>4. pc[d] = "block" /\ chip' = [chip EXCEPT ![d] = x] /\ pc' = [pc EXCEPT ![d] = "announce"]
      /\ at' = [at EXCEPT ![d] = n + 1] /\ UNCHANGED <<devid, desc, left, pins, last>>
  BY <1>1, <1>2, Zenon DEF Block, Goes, Wrote
<1>5. Moves(d, x, desc[d], "announce", n + 1, left[d])
  BY <1>4, Before DEF Moves
<1>6. n + 1 \in 1 .. Blocks
  BY <1>1, <1>4, Before, BlocksAssumption DEF Mailbox
<1>7. x \in Chip /\ "announce" \in Places /\ n + 1 \in 0 .. Blocks
  BY <1>3, <1>6, BlocksAssumption DEF Chip, Alt, Places
<1>8. Addressed("announce", x, devid) /\ WayKept("announce", x, desc[d], last[d])
  BY <1>1, <1>3, <1>4, Before DEF Addressed, WayKept, Early, Loading, Runs, Alt
<1>9. Mailbox("announce", x, n + 1)
  BY <1>1, <1>3, <1>4, <1>6, Before, BlocksAssumption DEF Mailbox, Handed, Early, Loading, Runs, Alt
<1> QED BY <1>4, <1>5, <1>7, <1>8, <1>9, Before, MoveKeeps

-----------------------------------------------------------------------------
(* What the chip does.                                                       *)

\* a chip that takes the block in its mailbox has one block more
LEMMA TakenKeeps ==
  ASSUME NEW c \in Chip, NEW p \in Places, NEW n \in 0 .. Blocks, NEW io \in Io, NEW l \in Answer,
         WayKept(p, c, io, l), Mailbox(p, c, n)
  PROVE  /\ Taken(c) \in Chip /\ Taken(c).strap = c.strap
         /\ WayKept(p, Taken(c), io, l) /\ Mailbox(p, Taken(c), n)
         /\ Taken(c).fw = c.fw /\ (c.fw = "loading" => Taken(c).csr # "full")
<1>1. CASE c.csr = "full" /\ c.fw = "loading"
  <2>1. PICK x : x = [c EXCEPT !.csr = "clear", !.data = 0, !.took = Append(@, c.data)]
    OBVIOUS
  <2>2. x = Alt(c, c.fw, c.way, 0, "clear", c.told, Append(c.took, c.data), c.pins)
    BY <2>1, Zenon DEF Chip, Alt
  <2>3. Taken(c) = x
    BY <1>1, <2>1, Zenon DEF Taken
  <2>4. c.data \in 1 .. Blocks /\ c.took \in Seq(1 .. Blocks)
    BY <1>1 DEF Mailbox, Chip
  <2>5. Append(c.took, c.data) \in Seq(1 .. Blocks)
    BY <2>4, AppendProperties
  <2>6. 0 \in 0 .. Blocks
    BY BlocksAssumption
  <2>7. x \in Chip
    BY <2>2, <2>5, <2>6 DEF Chip, Alt
  <2>8. WayKept(p, x, io, l)
    BY <1>1, <2>2 DEF WayKept, Early, Loading, Runs, Alt, Home
  <2>9. p \in {"room", "boot", "execute"} => Append(c.took, c.data) = Upto(n)
    <3>1. p \in {"room", "boot", "execute"} => c.data = n /\ c.took = Upto(n - 1) /\ n \in Nat /\ n > 0
      BY <1>1, <2>4 DEF Mailbox, Handed
    <3> QED BY <3>1, OneMore
  <2>10. Mailbox(p, x, n)
    BY <1>1, <2>2, <2>9 DEF Mailbox, Handed, Early, Loading, Runs, Alt
  <2>11. x.strap = c.strap /\ x.fw = c.fw /\ x.csr = "clear"
    BY <2>2 DEF Alt
  <2> QED BY <2>3, <2>7, <2>8, <2>10, <2>11
<1>2. CASE ~ (c.csr = "full" /\ c.fw = "loading")
  <2>1. Taken(c) = c
    BY <1>2, Zenon DEF Taken
  <2> QED BY <1>2, <2>1
<1> QED BY <1>1, <1>2

\* a chip that was told to run is found where it is wired to
LEMMA RanKeeps ==
  ASSUME NEW c \in Chip, NEW p \in Places, NEW n \in 0 .. Blocks, NEW io \in Io, NEW l \in Answer,
         WayKept(p, c, io, l), Mailbox(p, c, n), NEW r \in Ran(c)
  PROVE  /\ r \in Chip /\ r.strap = c.strap
         /\ WayKept(p, r, io, l) /\ Mailbox(p, r, n)
<1>1. CASE c.csr = "go" /\ c.fw = "loading"
  <2>1. PICK f \in Runs :
          r = [c EXCEPT !.fw = f, !.csr = "clear", !.pins = "default",
                        !.way = IF c.strap = "spi" THEN "spi" ELSE c.told]
    BY <1>1, Zenon DEF Ran, Runs
  <2>2. PICK w : w = IF c.strap = "spi" THEN "spi" ELSE c.told
    OBVIOUS
  <2>3. r = [c EXCEPT !.fw = f, !.csr = "clear", !.pins = "default", !.way = w]
    BY <2>1, <2>2, Zenon
  <2>4. r = Alt(c, f, w, c.data, "clear", c.told, c.took, "default")
    BY <2>3, Zenon DEF Chip, Alt
  <2>5. w = c.strap
    BY <1>1, <2>2 DEF WayKept, Own
  <2>6. c.strap \in Ways /\ f \in Firmware
    BY StrapsAssumption DEF Chip, Runs, Firmware
  <2>7. r \in Chip
    BY <2>4, <2>5, <2>6 DEF Chip, Alt
  <2>8. WayKept(p, r, io, l)
    BY <1>1, <2>4, <2>5 DEF WayKept, Early, Loading, Runs, Alt, Home
  <2>9. Mailbox(p, r, n)
    BY <1>1, <2>4 DEF Mailbox, Handed, Early, Loading, Runs, Alt
  <2>10. r.strap = c.strap
    BY <2>4 DEF Alt
  <2> QED BY <2>7, <2>8, <2>9, <2>10
<1>2. CASE ~ (c.csr = "go" /\ c.fw = "loading")
  <2>1. r = c
    BY <1>2, Zenon DEF Ran
  <2> QED BY <2>1
<1> QED BY <1>1, <1>2

\* the firmware's state changes, and nothing else
LEMMA FirmwareKeeps ==
  ASSUME NEW c \in Chip, NEW p \in Places, NEW n \in 0 .. Blocks, NEW io \in Io, NEW l \in Answer,
         WayKept(p, c, io, l), Mailbox(p, c, n), NEW f \in {"loading", "refused"},
         f = "loading" => c.fw = "reset",
         f = "refused" => c.fw = "loading" /\ c.csr = "full",
         NEW r, r = [c EXCEPT !.fw = f]
  PROVE  /\ r \in Chip /\ r.strap = c.strap
         /\ WayKept(p, r, io, l) /\ Mailbox(p, r, n)
<1>1. r = Alt(c, f, c.way, c.data, c.csr, c.told, c.took, c.pins)
  BY Zenon DEF Chip, Alt
<1>2. f \in Firmware
  BY DEF Firmware
<1>3. r \in Chip /\ r.strap = c.strap
  BY <1>1, <1>2 DEF Chip, Alt
<1>4. WayKept(p, r, io, l)
  BY <1>1 DEF WayKept, Early, Loading, Runs, Alt, Home
<1>5. Mailbox(p, r, n)
  <2>1. CASE f = "loading"
    BY <1>1, <2>1 DEF Mailbox, Handed, Early, Loading, Runs, Alt
  <2>2. CASE f = "refused"
    BY <1>1, <2>2 DEF Mailbox, Handed, Early, Loading, Runs, Alt
  <2> QED BY <2>1, <2>2
<1> QED BY <1>3, <1>4, <1>5

LEMMA ChipKeeps ==
  ASSUME IInv, NEW d \in Devices, ChipStep(d)
  PROVE  IInv'
<1>1. PICK c \in Chip : c = chip[d]
  BY Before
<1>2. \E x : /\ chip' = [chip EXCEPT ![d] = x]
             /\ \/ c.fw = "reset" /\ x = [c EXCEPT !.fw = "loading"]
                \/ x = Taken(c)
                \/ c.csr = "full" /\ c.fw = "loading" /\ x = [c EXCEPT !.fw = "refused"]
                \/ x \in Ran(c)
  BY <1>1, Zenon DEF ChipStep
<1>3. PICK x : /\ chip' = [chip EXCEPT ![d] = x]
               /\ \/ c.fw = "reset" /\ x = [c EXCEPT !.fw = "loading"]
                  \/ x = Taken(c)
                  \/ c.csr = "full" /\ c.fw = "loading" /\ x = [c EXCEPT !.fw = "refused"]
                  \/ x \in Ran(c)
  BY <1>2, Zenon
<1>4. /\ x \in Chip /\ x.strap = c.strap
      /\ WayKept(pc[d], x, desc[d], last[d]) /\ Mailbox(pc[d], x, at[d])
  <2>1. WayKept(pc[d], c, desc[d], last[d]) /\ Mailbox(pc[d], c, at[d])
    BY <1>1, Before
  <2>2. /\ pc[d] \in Places /\ at[d] \in 0 .. Blocks /\ desc[d] \in Io /\ last[d] \in Answer
    BY Before
  <2>3. CASE x = Taken(c)
    BY <2>1, <2>2, <2>3, TakenKeeps
  <2>4. CASE x \in Ran(c)
    BY <2>1, <2>2, <2>4, RanKeeps
  <2>5. CASE c.fw = "reset" /\ x = [c EXCEPT !.fw = "loading"]
    <3>1. PICK f : f = "loading"
      OBVIOUS
    <3>2. x = [c EXCEPT !.fw = f]
      BY <2>5, <3>1, Zenon
    <3>3. c.fw = "reset" /\ f \in {"loading", "refused"} /\ f # "refused"
      BY <2>5, <3>1, Zenon
    <3> QED BY <2>1, <2>2, <3>2, <3>3, FirmwareKeeps
  <2>6. CASE c.csr = "full" /\ c.fw = "loading" /\ x = [c EXCEPT !.fw = "refused"]
    <3>1. PICK f : f = "refused"
      OBVIOUS
    <3>2. x = [c EXCEPT !.fw = f]
      BY <2>6, <3>1, Zenon
    <3>3. c.fw = "loading" /\ c.csr = "full" /\ f \in {"loading", "refused"} /\ f # "loading"
      BY <2>6, <3>1, Zenon
    <3> QED BY <2>1, <2>2, <3>2, <3>3, FirmwareKeeps
  <2> QED BY <1>3, <2>3, <2>4, <2>5, <2>6
<1>5. UNCHANGED <<devid, desc, pc, at, left, pins, last>>
  BY Zenon DEF ChipStep
<1>6. Moves(d, x, desc[d], pc[d], at[d], left[d])
  BY <1>3, <1>5, Before DEF Moves
<1>7. Addressed(pc[d], x, devid)
  BY <1>1, <1>4, Before DEF Addressed
<1> QED BY <1>4, <1>6, <1>7, Before, MoveKeeps

-----------------------------------------------------------------------------
(* The steps of a load.                                                      *)

LEMMA SelectKeeps ==
  ASSUME IInv, NEW d \in Devices, Select(d)
  PROVE  IInv'
<1>1. CASE Answers(d, "skipped")
  BY <1>1, AnswerKeeps DEF Select
<1>2. CASE Goes(d, "save") /\ UNCHANGED <<at, left, pins, last>>
  <2>1. pc[d] = "select" /\ pc' = [pc EXCEPT ![d] = "save"] /\ UNCHANGED <<devid, desc, chip, at, left, pins, last>>
    BY <1>2 DEF Select, Goes
  <2>2. Moves(d, chip[d], desc[d], "save", at[d], left[d])
    BY <2>1, Before DEF Moves
  <2>3. /\ Addressed("save", chip[d], devid) /\ WayKept("save", chip[d], desc[d], last[d])
        /\ Mailbox("save", chip[d], at[d]) /\ "save" \in Places
    BY <2>1, Before DEF Addressed, WayKept, Mailbox, Early, Loading, Runs, Places
  <2> QED BY <2>1, <2>2, <2>3, Before, MoveKeeps
<1> QED BY <1>1, <1>2 DEF Select

\* the way the device is wired for becomes everybody's g_mdio_devid
LEMMA SavePinsKeeps ==
  ASSUME IInv, NEW d \in Devices, SavePins(d)
  PROVE  IInv'
<1>1. PICK v : v = IF Type(d) = "SMI" THEN desc[d].way ELSE "mid0"
  OBVIOUS
<1>2. PICK m : m = chip[d].pins
  OBVIOUS
<1>3. /\ pc[d] = "save" /\ pc' = [pc EXCEPT ![d] = "prepare"] /\ devid' = v
      /\ pins' = [pins EXCEPT ![d] = m] /\ UNCHANGED <<desc, chip, at, left, last>>
  BY <1>1, <1>2 DEF SavePins, Goes, Saved
<1>4. m \in {"board", "default"} /\ v \in Ways
  BY <1>1, <1>2, Before DEF Chip, Io, Ways
<1>5. v = Own(chip[d].strap)
  BY <1>1, <1>3, Before DEF WayKept, Early, Own, Type
<1>6. Addressed("prepare", chip[d], v)
  BY <1>5 DEF Addressed
<1>7. WayKept("prepare", chip[d], desc[d], last[d]) /\ Mailbox("prepare", chip[d], at[d])
  BY <1>3, Before DEF WayKept, Mailbox, Early, Loading, Runs
<1>8. "prepare" \in Places
  BY DEF Places
<1>9. \A e \in Devices \ {d} : pc[e] = "idle"
  BY <1>3, Before
<1>10. /\ chip' = [chip EXCEPT ![d] = chip[d]] /\ desc' = [desc EXCEPT ![d] = desc[d]]
       /\ at' = [at EXCEPT ![d] = at[d]] /\ left' = [left EXCEPT ![d] = left[d]]
       /\ last' = [last EXCEPT ![d] = last[d]] /\ devid' = v
       /\ pc' = [pc EXCEPT ![d] = "prepare"] /\ pins' = [pins EXCEPT ![d] = m]
  BY <1>3, Before
<1>11. /\ chip[d] \in Chip /\ desc[d] \in Io /\ at[d] \in 0 .. Blocks /\ left[d] \in 0 .. Tries
       /\ last[d] \in Answer
  BY Before
<1> QED BY <1>4, <1>6, <1>7, <1>8, <1>9, <1>10, <1>11, StepKeeps

LEMMA PrepareKeeps ==
  ASSUME IInv, NEW d \in Devices, Prepare(d)
  PROVE  IInv'
<1>1. PICK c \in Chip, io \in Io : c = chip[d] /\ io = desc[d]
  BY Before
<1>2. PICK x : x = [c EXCEPT !.csr = "clear"]
  OBVIOUS
<1>3. x = Alt(c, c.fw, c.way, c.data, "clear", c.told, c.took, c.pins)
  BY <1>2, Zenon DEF Chip, Alt
<1>4. PICK y : y = [io EXCEPT !.reserved = IF Blind(d) THEN 1 ELSE io.reserved]
  OBVIOUS
<1>5. y = [way |-> io.way, reserved |-> IF Blind(d) THEN 1 ELSE io.reserved]
  BY <1>4, Zenon DEF Io
<1>6. /\ pc[d] = "prepare" /\ pc' = [pc EXCEPT ![d] = "reset"]
      /\ chip' = [chip EXCEPT ![d] = x] /\ UNCHANGED <<devid, at, left, pins, last>>
  BY <1>1, <1>2, Zenon DEF Prepare, Goes
<1>7. desc' = [desc EXCEPT ![d] = y]
  BY <1>1, <1>4, Zenon DEF Prepare
<1>8. Moves(d, x, y, "reset", at[d], left[d])
  BY <1>6, <1>7, Before DEF Moves
<1>9. x \in Chip /\ y \in Io /\ "reset" \in Places
  BY <1>1, <1>3, <1>5 DEF Chip, Io, Alt, Places
<1>10. c.strap \notin {"mid29", "spi"} => ~ Blind(d)
  BY <1>1, <1>6, Before DEF Addressed, Own, Blind, Mid29, Type
<1>11. y.way = io.way /\ (c.strap \notin {"mid29", "spi"} => y.reserved = io.reserved)
  BY <1>5, <1>10
<1>12. Addressed("reset", x, devid)
  BY <1>1, <1>3, <1>6, Before DEF Addressed, Alt
<1>13. WayKept("reset", x, y, last[d])
  BY <1>1, <1>3, <1>6, <1>11, Before DEF WayKept, Early, Loading, Runs, Alt
<1>14. Mailbox("reset", x, at[d])
  BY <1>1, <1>3, <1>6, Before DEF Mailbox, Early, Loading, Runs, Alt
<1> QED BY <1>6, <1>8, <1>9, <1>12, <1>13, <1>14, Before, MoveKeeps

\* which of the three ways a load goes
LEMMA Kinds ==
  ASSUME IInv, NEW d \in Devices, pc[d] \notin {"idle", "select", "save"}
  PROVE  /\ (Type(d) = "SPI") <=> (chip[d].strap = "spi")
         /\ Mid29(d) <=> (chip[d].strap = "mid29")
         /\ Blind(d) <=> (chip[d].strap \in {"mid29", "spi"})
         /\ devid = Own(chip[d].strap)
BY Before DEF Addressed, Own, Blind, Mid29, Type

LEMMA ResetCcsKeeps ==
  ASSUME IInv, NEW d \in Devices, ResetCcs(d)
  PROVE  IInv'
<1>1. PICK c \in Chip, io \in Io : c = chip[d] /\ io = desc[d]
  BY Before
<1>2. PICK w : w = LoadingWay(c.strap)
  OBVIOUS
<1>3. PICK p : p = IF Blind(d) THEN "room" ELSE "ready"
  OBVIOUS
<1>4. PICK y : y = CASE Type(d) = "SPI" -> ExchangeIo("smi_over_spi")
                     [] Mid29(d) -> ExchangeMid(io, "mid0")
                     [] OTHER -> io
  OBVIOUS
<1>5. \E fw \in IF Blind(d) THEN {"loading", "dead"} ELSE {"reset"} :
        chip' = [chip EXCEPT ![d] = [c EXCEPT !.fw = fw, !.took = <<>>, !.way = w]]
  BY <1>1, <1>2, Zenon DEF ResetCcs
<1>6. PICK fw \in IF Blind(d) THEN {"loading", "dead"} ELSE {"reset"} :
        chip' = [chip EXCEPT ![d] = [c EXCEPT !.fw = fw, !.took = <<>>, !.way = w]]
  BY <1>5
<1>7. PICK x : x = [c EXCEPT !.fw = fw, !.took = <<>>, !.way = w]
  OBVIOUS
<1>8. x = Alt(c, fw, w, c.data, c.csr, c.told, <<>>, c.pins)
  BY <1>7, Zenon DEF Chip, Alt
<1>9. chip' = [chip EXCEPT ![d] = x]
  BY <1>6, <1>7, Zenon
<1>10. /\ pc[d] = "reset" /\ pc' = [pc EXCEPT ![d] = p] /\ left' = [left EXCEPT ![d] = Tries]
       /\ UNCHANGED <<devid, at, pins, last>>
  BY <1>3, Zenon DEF ResetCcs, Goes, Counts
<1>11. desc' = [desc EXCEPT ![d] = y]
  BY <1>1, <1>4, Zenon DEF ResetCcs
<1>12. Moves(d, x, y, p, at[d], Tries)
  BY <1>9, <1>10, <1>11, Before DEF Moves
<1>13. /\ (Type(d) = "SPI") <=> (c.strap = "spi")
       /\ Mid29(d) <=> (c.strap = "mid29")
       /\ Blind(d) <=> (c.strap \in {"mid29", "spi"})
  BY <1>1, <1>10, Kinds
<1>14. w \in Ways /\ c.strap \in Ways
  BY <1>2, StrapsAssumption DEF Chip, LoadingWay, Ways
<1>15. /\ io.way = c.strap /\ (c.strap \notin {"mid29", "spi"} => io.reserved = 0) /\ c.csr = "clear" /\ at[d] = 0
  BY <1>1, <1>10, Before DEF WayKept, Mailbox, Early
<1>16. y \in Io /\ y.way = w /\ (c.strap \notin {"mid29", "spi"} => y.reserved = 0)
  <2>1. CASE c.strap = "spi"
    <3>1. y = [way |-> "smi_over_spi", reserved |-> 1]
      BY <1>4, <1>13, <2>1 DEF ExchangeIo
    <3> QED BY <1>2, <2>1, <3>1 DEF Io, LoadingWay, Ways
  <2>2. CASE c.strap = "mid29"
    <3>1. y = [way |-> "mid0", reserved |-> 1]
      BY <1>4, <1>13, <1>15, <2>2 DEF ExchangeMid
    <3> QED BY <1>2, <2>2, <3>1 DEF Io, LoadingWay, Ways
  <2>3. CASE c.strap \notin {"spi", "mid29"}
    <3>1. y = io
      BY <1>4, <1>13, <2>3
    <3> QED BY <1>2, <1>15, <2>3, <3>1 DEF LoadingWay
  <2> QED BY <2>1, <2>2, <2>3
<1>17. fw \in {"loading", "dead", "reset"} /\ (p = "room" => fw # "reset")
  BY <1>3
<1>18. p \in {"ready", "room"}
  BY <1>3
<1>19. <<>> \in Seq(1 .. Blocks) /\ <<>> = Upto(0)
  BY DEF Upto
<1>20. x \in Chip /\ p \in Places /\ Tries \in 0 .. Tries
  BY <1>8, <1>14, <1>17, <1>18, <1>19, TriesAssumption DEF Chip, Alt, Places, Firmware
<1>21. Addressed(p, x, devid)
  BY <1>1, <1>8, <1>10, Before DEF Addressed, Alt
<1>22. WayKept(p, x, y, last[d])
  BY <1>2, <1>8, <1>15, <1>16, <1>17, <1>18 DEF WayKept, Early, Loading, Runs, Alt
<1>23. Mailbox(p, x, at[d])
  BY <1>8, <1>15, <1>17, <1>18, <1>19 DEF Mailbox, Handed, Early, Loading, Runs, Alt
<1> QED BY <1>10, <1>12, <1>16, <1>20, <1>21, <1>22, <1>23, Before, MoveKeeps

\* a poll goes round, goes on where it has seen what it waits for, or gives up
LEMMA PollKeeps ==
  ASSUME IInv, NEW d \in Devices, NEW from \in Places \ {"idle"}, NEW place \in Places \ {"idle"},
         NEW seen \in BOOLEAN, Poll(d, from, seen, place),
         seen => /\ Addressed(place, chip[d], devid) /\ WayKept(place, chip[d], desc[d], last[d])
                 /\ Mailbox(place, chip[d], at[d])
  PROVE  IInv'
<1>1. CASE Answers(d, "failed")
  BY <1>1, AnswerKeeps DEF Poll
<1>2. CASE /\ left[d] > 1
           /\ IF seen THEN Goes(d, place) /\ Counts(d, Tries)
                      ELSE Goes(d, from) /\ Counts(d, left[d] - 1)
           /\ UNCHANGED <<at, pins, last>>
  <2>1. PICK p, k : p = (IF seen THEN place ELSE from) /\ k = (IF seen THEN Tries ELSE left[d] - 1)
    OBVIOUS
  <2>2. /\ pc[d] = from /\ pc' = [pc EXCEPT ![d] = p] /\ left' = [left EXCEPT ![d] = k]
        /\ UNCHANGED <<devid, desc, chip, at, pins, last>>
    BY <1>2, <2>1 DEF Poll, Goes, Counts
  <2>3. Moves(d, chip[d], desc[d], p, at[d], k)
    BY <2>2, Before DEF Moves
  <2>4. p \in Places /\ k \in 0 .. Tries
    BY <1>2, <2>1, Before, TriesAssumption
  <2>5. /\ Addressed(p, chip[d], devid) /\ WayKept(p, chip[d], desc[d], last[d])
        /\ Mailbox(p, chip[d], at[d])
    BY <2>1, <2>2, Before
  <2> QED BY <2>2, <2>3, <2>4, <2>5, Before, MoveKeeps
<1> QED BY <1>1, <1>2 DEF Poll

LEMMA ReadyKeeps ==
  ASSUME IInv, NEW d \in Devices, Ready(d)
  PROVE  IInv'
<1>1. pc[d] = "ready"
  BY DEF Ready, Poll
<1>2. Addressed("room", chip[d], devid) /\ WayKept("room", chip[d], desc[d], last[d])
  BY <1>1, Before DEF Addressed, WayKept, Early, Loading, Runs
<1>3. chip[d].fw = "loading" => Mailbox("room", chip[d], at[d])
  BY <1>1, Before DEF Mailbox, Handed, Early, Loading, Runs
<1>4. "ready" \in Places \ {"idle"} /\ "room" \in Places \ {"idle"}
  BY DEF Places
<1>5. (chip[d].fw = "loading") \in BOOLEAN /\ Poll(d, "ready", chip[d].fw = "loading", "room")
  BY DEF Ready
<1> QED BY <1>2, <1>3, <1>4, <1>5, PollKeeps

LEMMA DoneKeeps ==
  ASSUME IInv, NEW d \in Devices, Done(d)
  PROVE  IInv'
<1>1. pc[d] = "done"
  BY DEF Done, Poll
<1>2. Addressed("verify", chip[d], devid) /\ Mailbox("verify", chip[d], at[d])
  BY <1>1, Before DEF Addressed, Mailbox, Early, Loading, Runs
<1>3. chip[d].fw \in {"patched", "crashed"} => WayKept("verify", chip[d], desc[d], last[d])
  BY <1>1, Before DEF WayKept, Early, Loading, Runs, Home
<1>4. "done" \in Places \ {"idle"} /\ "verify" \in Places \ {"idle"}
  BY DEF Places
<1>5. /\ (chip[d].fw \in {"patched", "crashed"}) \in BOOLEAN
      /\ Poll(d, "done", chip[d].fw \in {"patched", "crashed"}, "verify")
  BY DEF Done
<1> QED BY <1>2, <1>3, <1>4, <1>5, PollKeeps

LEMMA RoomKeeps ==
  ASSUME IInv, NEW d \in Devices, Room(d)
  PROVE  IInv'
<1>1. pc[d] = "room"
  BY DEF Room, Poll
<1>2. \A p \in {"block", "boot"} : /\ p \in Places \ {"idle"} /\ Addressed(p, chip[d], devid)
                                    /\ WayKept(p, chip[d], desc[d], last[d])
  BY <1>1, Before DEF Addressed, WayKept, Early, Loading, Runs, Places
<1>3. CASE at[d] = Blocks /\ Goes(d, "boot") /\ UNCHANGED <<devid, desc, chip, at, left, pins, last>>
  <2>1. Moves(d, chip[d], desc[d], "boot", at[d], left[d])
    BY <1>3, Before DEF Moves, Goes
  <2>2. Mailbox("boot", chip[d], at[d])
    BY <1>1, <1>3, Before DEF Mailbox, Early, Loading, Runs
  <2> QED BY <1>1, <1>2, <2>1, <2>2, Before, MoveKeeps
<1>4. CASE /\ at[d] < Blocks /\ chip' = [chip EXCEPT ![d] = Taken(@)] /\ Goes(d, "block")
           /\ UNCHANGED <<devid, desc, at, left, pins, last>>
  <2>1. PICK x : x = Taken(chip[d])
    OBVIOUS
  <2>2. chip' = [chip EXCEPT ![d] = x]
    BY <1>4, <2>1, Zenon
  <2>3. Moves(d, x, desc[d], "block", at[d], left[d])
    BY <1>4, <2>2, Before DEF Moves, Goes
  <2>4. /\ x \in Chip /\ x.strap = chip[d].strap
        /\ WayKept("room", x, desc[d], last[d]) /\ Mailbox("room", x, at[d])
        /\ (x.fw = "loading" => x.csr # "full")
    <3>1. pc[d] \in Places /\ WayKept("room", chip[d], desc[d], last[d]) /\ Mailbox("room", chip[d], at[d])
      BY <1>1, Before
    <3> QED BY <1>1, <2>1, <3>1, Before, TakenKeeps
  <2>5. Addressed("block", x, devid)
    BY <1>2, <2>4 DEF Addressed
  <2>6. WayKept("block", x, desc[d], last[d])
    BY <2>4 DEF WayKept, Early, Loading, Runs
  <2>7. Mailbox("block", x, at[d])
    BY <1>4, <2>4 DEF Mailbox, Handed, Early, Loading, Runs
  <2> QED BY <1>1, <1>2, <2>3, <2>4, <2>5, <2>6, <2>7, Before, MoveKeeps
<1>5. CASE at[d] < Blocks /\ chip[d].fw # "refused" /\ Poll(d, "room", chip[d].csr # "full", "block")
  <2>1. chip[d].csr # "full" => Mailbox("block", chip[d], at[d])
    BY <1>1, <1>5, Before DEF Mailbox, Handed, Early, Loading, Runs
  <2>2. "room" \in Places \ {"idle"} /\ (chip[d].csr # "full") \in BOOLEAN
    BY DEF Places
  <2> QED BY <1>2, <1>5, <2>1, <2>2, PollKeeps
<1>6. CASE Answers(d, "failed") /\ UNCHANGED <<devid, desc, chip>>
  BY <1>6, AnswerKeeps
<1> QED BY <1>3, <1>4, <1>5, <1>6, Zenon DEF Room

LEMMA ExecuteKeeps ==
  ASSUME IInv, NEW d \in Devices, Execute(d)
  PROVE  IInv'
<1>1. PICK c \in Chip, io \in Io : c = chip[d] /\ io = desc[d]
  BY Before
<1>2. PICK t : t = Taken(c)
  OBVIOUS
<1>3. PICK g : g = [t EXCEPT !.csr = "go"]
  OBVIOUS
<1>4. PICK x \in IF Type(d) = "SPI" THEN Ran(g) ELSE {g} : chip' = [chip EXCEPT ![d] = x]
  BY <1>1, <1>2, <1>3, Zenon DEF Execute
<1>5. PICK y : y = CASE Type(d) = "SPI" -> ExchangeIo("spi")
                     [] Mid29(d) -> ExchangeMid(io, devid)
                     [] OTHER -> io
  OBVIOUS
<1>6. PICK p : p = IF Type(d) = "SPI" THEN "restore" ELSE "done"
  OBVIOUS
<1>7. /\ pc[d] = "execute" /\ pc' = [pc EXCEPT ![d] = p] /\ left' = [left EXCEPT ![d] = Tries]
      /\ UNCHANGED <<devid, at, pins, last>>
  BY <1>6, Zenon DEF Execute, Goes, Counts
<1>8. desc' = [desc EXCEPT ![d] = y]
  BY <1>1, <1>5, Zenon DEF Execute
<1>9. Moves(d, x, y, p, at[d], Tries)
  BY <1>4, <1>7, <1>8, Before DEF Moves
<1>10. /\ (Type(d) = "SPI") <=> (c.strap = "spi")
       /\ Mid29(d) <=> (c.strap = "mid29")
       /\ devid = Own(c.strap)
  BY <1>1, <1>7, Kinds
<1>11. /\ t \in Chip /\ t.strap = c.strap
       /\ WayKept("execute", t, io, last[d]) /\ Mailbox("execute", t, at[d])
       /\ (t.fw = "loading" => t.csr # "full")
  <2>1. "execute" \in Places /\ WayKept("execute", c, io, last[d]) /\ Mailbox("execute", c, at[d])
    BY <1>1, <1>7, Before
  <2>2. at[d] \in 0 .. Blocks /\ last[d] \in Answer
    BY Before
  <2> QED BY <1>2, <2>1, <2>2, TakenKeeps
<1>12. g = Alt(t, t.fw, t.way, t.data, "go", t.told, t.took, t.pins)
  BY <1>3, <1>11, Zenon DEF Chip, Alt
<1>13. c.strap \in Ways /\ c.strap # "smi_over_spi"
  BY StrapsAssumption DEF Chip
<1>14. io.way = LoadingWay(c.strap) /\ (c.strap \notin {"mid29", "spi"} => io.reserved = 0)
  BY <1>11 DEF WayKept, Early, Loading
<1>15. y \in Io /\ Home(c, y)
  <2>1. CASE c.strap = "spi"
    <3>1. y = [way |-> "spi", reserved |-> 0]
      BY <1>5, <1>10, <2>1 DEF ExchangeIo
    <3> QED BY <2>1, <3>1 DEF Io, Home, Ways
  <2>2. CASE c.strap = "mid29"
    <3>1. y = [way |-> "mid29", reserved |-> 0]
      BY <1>5, <1>10, <1>14, <2>2 DEF ExchangeMid, LoadingWay, Own
    <3> QED BY <2>2, <3>1 DEF Io, Home, Ways
  <2>3. CASE c.strap \notin {"spi", "mid29"}
    <3>1. y = io
      BY <1>5, <1>10, <2>3
    <3> QED BY <1>14, <2>3, <3>1 DEF LoadingWay, Home
  <2> QED BY <2>1, <2>2, <2>3
<1>16. p \in {"done", "restore"} /\ p \in Places /\ Tries \in 0 .. Tries
  BY <1>6, TriesAssumption DEF Places
<1>17. /\ g \in Chip /\ g.strap = c.strap /\ Home(g, y)
  BY <1>11, <1>12, <1>15 DEF Chip, Alt, Home
<1>18. WayKept(p, g, y, last[d])
  BY <1>11, <1>12, <1>16, <1>17 DEF WayKept, Early, Loading, Runs, Alt
<1>19. Mailbox(p, g, at[d])
  BY <1>11, <1>12, <1>16 DEF Mailbox, Handed, Early, Loading, Runs, Alt
<1>20. x \in Chip /\ x.strap = c.strap /\ WayKept(p, x, y, last[d]) /\ Mailbox(p, x, at[d])
  <2>1. CASE x = g
    BY <2>1, <1>17, <1>18, <1>19
  <2>2. CASE x \in Ran(g)
    <3>1. at[d] \in 0 .. Blocks /\ last[d] \in Answer
      BY Before
    <3> QED BY <2>2, <3>1, <1>15, <1>16, <1>17, <1>18, <1>19, RanKeeps
  <2> QED BY <1>4, <2>1, <2>2
<1>21. Addressed(p, x, devid)
  BY <1>10, <1>20 DEF Addressed
<1> QED BY <1>7, <1>9, <1>15, <1>16, <1>20, <1>21, Before, MoveKeeps

LEMMA VerifyKeeps ==
  ASSUME IInv, NEW d \in Devices, Verify(d)
  PROVE  IInv'
<1>1. pc[d] = "verify" /\ pc' = [pc EXCEPT ![d] = "restore"] /\ UNCHANGED <<devid, desc, chip, at, left, pins, last>>
  BY DEF Verify, Goes
<1>2. Moves(d, chip[d], desc[d], "restore", at[d], left[d])
  BY <1>1, Before DEF Moves
<1>3. /\ Addressed("restore", chip[d], devid) /\ WayKept("restore", chip[d], desc[d], last[d])
      /\ Mailbox("restore", chip[d], at[d]) /\ "restore" \in Places
  BY <1>1, Before DEF Addressed, WayKept, Mailbox, Early, Loading, Runs, Places
<1> QED BY <1>1, <1>2, <1>3, Before, MoveKeeps

\* the load has ended, at home: only here must the chip be on the device's way
LEMMA RestorePinsKeeps ==
  ASSUME IInv, NEW d \in Devices, RestorePins(d)
  PROVE  IInv'
<1>1. PICK c \in Chip : c = chip[d]
  BY Before
<1>2. PICK m \in {"board", "default"} : m = pins[d]
  BY Before
<1>3. PICK x : x = [c EXCEPT !.pins = m]
  OBVIOUS
<1>4. x = Alt(c, c.fw, c.way, c.data, c.csr, c.told, c.took, m)
  BY <1>3, Zenon DEF Chip, Alt
<1>5. chip' = [chip EXCEPT ![d] = x]
  BY <1>1, <1>2, <1>3, Zenon DEF RestorePins
<1>6. /\ pc[d] = "restore" /\ Reaches(d)
      /\ pc' = [pc EXCEPT ![d] = "idle"] /\ left' = [left EXCEPT ![d] = 0] /\ at' = [at EXCEPT ![d] = 0]
      /\ pins' = [pins EXCEPT ![d] = "board"] /\ last' = [last EXCEPT ![d] = "patched"]
      /\ UNCHANGED <<devid, desc>>
  BY Zenon DEF RestorePins, Answers, Goes, Counts, Wrote, Saved
<1>7. desc' = [desc EXCEPT ![d] = desc[d]] /\ desc[d] \in Io /\ devid' = devid /\ devid \in Ways
  BY <1>6, Before
<1>8. /\ x \in Chip /\ "idle" \in Places /\ 0 \in 0 .. Blocks /\ 0 \in 0 .. Tries
      /\ "board" \in {"board", "default"} /\ "patched" \in Answer
  BY <1>4, BlocksAssumption, TriesAssumption DEF Chip, Alt, Places, Answer
<1>9. Addressed("idle", x, devid)
  BY DEF Addressed
<1>10. WayKept("idle", x, desc[d], "patched")
  BY <1>1, <1>4, <1>6, Before DEF WayKept, Early, Loading, Runs, Alt, Home, Reaches
<1>11. Mailbox("idle", x, 0)
  BY <1>1, <1>4, <1>6, Before DEF Mailbox, Early, Loading, Runs, Alt
<1>12. /\ pc' = [pc EXCEPT ![d] = "idle"] /\ left' = [left EXCEPT ![d] = 0] /\ at' = [at EXCEPT ![d] = 0]
       /\ pins' = [pins EXCEPT ![d] = "board"] /\ last' = [last EXCEPT ![d] = "patched"]
  BY <1>6
<1> QED BY <1>5, <1>7, <1>8, <1>9, <1>10, <1>11, <1>12, StepKeeps

LEMMA ProbeKeeps ==
  ASSUME IInv, NEW d \in Devices, Probe(d)
  PROVE  IInv'
<1>1. PICK y : y = [way |-> chip[d].strap, reserved |-> 0]
  OBVIOUS
<1>2. /\ \A e \in Devices : pc[e] = "idle"
      /\ last[d] # "patched" /\ chip[d].way = chip[d].strap
      /\ desc' = [desc EXCEPT ![d] = y] /\ pc' = [pc EXCEPT ![d] = "select"]
      /\ UNCHANGED <<devid, chip, at, left, pins, last>>
  BY <1>1 DEF Probe, Goes
<1>3. /\ y \in Io /\ "select" \in Places
  BY <1>1, Before, StrapsAssumption DEF Io, Chip, Places
<1>4. Addressed("select", chip[d], devid)
  BY DEF Addressed
<1>5. WayKept("select", chip[d], y, last[d])
  BY <1>1, <1>2, Before DEF WayKept, Early, Loading, Runs
<1>6. Mailbox("select", chip[d], at[d])
  BY <1>2, Before DEF Mailbox, Early, Loading, Runs
<1>7. /\ chip' = [chip EXCEPT ![d] = chip[d]] /\ at' = [at EXCEPT ![d] = at[d]]
      /\ left' = [left EXCEPT ![d] = left[d]] /\ pins' = [pins EXCEPT ![d] = pins[d]]
      /\ last' = [last EXCEPT ![d] = last[d]] /\ devid' = devid
      /\ desc' = [desc EXCEPT ![d] = y] /\ pc' = [pc EXCEPT ![d] = "select"]
      /\ \A e \in Devices \ {d} : pc[e] = "idle"
  BY <1>2, Before
<1>8. /\ chip[d] \in Chip /\ at[d] \in 0 .. Blocks /\ left[d] \in 0 .. Tries /\ devid \in Ways
      /\ pins[d] \in {"board", "default"} /\ last[d] \in Answer
  BY Before
<1> QED BY <1>3, <1>4, <1>5, <1>6, <1>7, <1>8, StepKeeps

\* a chip just reset is at home, and no image is on its way to it
LEMMA FreshChip ==
  ASSUME NEW s \in Straps, NEW io \in Io, NEW l \in Answer, l # "patched"
  PROVE  /\ Fresh(s) \in Chip /\ Addressed("idle", Fresh(s), "mid0")
         /\ WayKept("idle", Fresh(s), io, l) /\ Mailbox("idle", Fresh(s), 0)
<1>1. <<>> \in Seq(1 .. Blocks) /\ 0 \in 0 .. Blocks /\ s \in Ways
  BY BlocksAssumption, StrapsAssumption
<1>2. Fresh(s) \in Chip
  BY <1>1 DEF Fresh, Chip, Firmware, Ways
<1> QED BY <1>2 DEF Fresh, Addressed, WayKept, Mailbox, Early, Loading, Runs

LEMMA ResetChipKeeps ==
  ASSUME IInv, NEW d \in Devices, ResetChip(d)
  PROVE  IInv'
<1>1. PICK s \in Straps : s = chip[d].strap
  BY Before DEF Chip
<1>2. PICK x : x = Fresh(s)
  OBVIOUS
<1>3. /\ pc[d] = "idle" /\ last' = [last EXCEPT ![d] = "none"] /\ chip' = [chip EXCEPT ![d] = x]
      /\ UNCHANGED <<devid, desc, pc, at, left, pins>>
  BY <1>1, <1>2, Zenon DEF ResetChip
<1>4. "none" \in Answer /\ "none" # "patched"
  BY DEF Answer
<1>5. desc[d] \in Io
  BY Before
<1>6. /\ x \in Chip /\ WayKept("idle", x, desc[d], "none") /\ Mailbox("idle", x, 0)
  BY <1>2, <1>4, <1>5, FreshChip
<1>7. Addressed("idle", x, devid)
  BY DEF Addressed
<1>8. at[d] = 0
  BY <1>3, Before DEF Mailbox
<1>9. /\ desc' = [desc EXCEPT ![d] = desc[d]] /\ pc' = [pc EXCEPT ![d] = "idle"]
      /\ at' = [at EXCEPT ![d] = 0] /\ left' = [left EXCEPT ![d] = left[d]]
      /\ pins' = [pins EXCEPT ![d] = pins[d]] /\ devid' = devid
      /\ last' = [last EXCEPT ![d] = "none"] /\ chip' = [chip EXCEPT ![d] = x]
  BY <1>3, <1>8, Before
<1>10. /\ "idle" \in Places /\ 0 \in 0 .. Blocks /\ left[d] \in 0 .. Tries /\ devid \in Ways
       /\ pins[d] \in {"board", "default"}
  BY Before, BlocksAssumption DEF Places
<1> QED BY <1>4, <1>5, <1>6, <1>7, <1>9, <1>10, StepKeeps

-----------------------------------------------------------------------------
(* The theorems.                                                             *)

LEMMA InitHolds == Init => IInv
<1> SUFFICES ASSUME Init PROVE IInv
  OBVIOUS
<1>1. PICK strap \in [Devices -> Straps] :
        /\ desc = [d \in Devices |-> [way |-> strap[d], reserved |-> 0]]
        /\ chip = [d \in Devices |-> Fresh(strap[d])]
  BY DEF Init
<1>2. /\ devid = "mid0" /\ pc = [d \in Devices |-> "idle"] /\ at = [d \in Devices |-> 0]
      /\ left = [d \in Devices |-> 0] /\ pins = [d \in Devices |-> "board"]
      /\ last = [d \in Devices |-> "none"]
  BY DEF Init
<1>3. \A d \in Devices : desc[d] \in Io
  BY <1>1, StrapsAssumption DEF Io, Ways
<1>4. ASSUME NEW d \in Devices PROVE chip[d] \in Chip /\ Kept(d)
  <2>1. "none" \in Answer /\ "none" # "patched"
    BY DEF Answer
  <2>2. strap[d] \in Straps /\ desc[d] \in Io /\ chip[d] = Fresh(strap[d])
    BY <1>1, <1>3
  <2>3. /\ Fresh(strap[d]) \in Chip /\ Addressed("idle", Fresh(strap[d]), "mid0")
        /\ WayKept("idle", Fresh(strap[d]), desc[d], "none") /\ Mailbox("idle", Fresh(strap[d]), 0)
    BY <2>1, <2>2, FreshChip
  <2>4. pc[d] = "idle" /\ last[d] = "none" /\ at[d] = 0
    BY <1>2
  <2> QED BY <1>2, <2>2, <2>3, <2>4 DEF Kept
<1>5. chip \in [Devices -> Chip] /\ desc \in [Devices -> Io]
  <2>1. \A d \in Devices : Fresh(strap[d]) \in Chip /\ [way |-> strap[d], reserved |-> 0] \in Io
    BY <1>1, <1>3, <1>4
  <2> QED BY <1>1, <2>1
<1>6. TypeOK
  BY <1>2, <1>5, BlocksAssumption, TriesAssumption DEF TypeOK, Io, Places, Ways
<1>7. OneAtATime
  BY <1>2 DEF OneAtATime
<1> QED BY <1>4, <1>6, <1>7 DEF IInv

LEMMA FailsKeeps ==
  ASSUME IInv, NEW d \in Devices, NEW place \in Places \ {"idle", "select"}, Fails(d, place)
  PROVE  IInv'
BY AnswerKeeps DEF Fails

LEMMA Inductive == IInv /\ [Next]_vars => IInv'
<1> SUFFICES ASSUME IInv, [Next]_vars PROVE IInv'
  OBVIOUS
<1>1. CASE Next
  <2>1. PICK d \in Devices : Probe(d) \/ ResetChip(d) \/ ChipStep(d) \/ Step(d)
    BY <1>1 DEF Next
  <2>2. CASE Probe(d)      BY <2>2, ProbeKeeps
  <2>3. CASE ResetChip(d)  BY <2>3, ResetChipKeeps
  <2>4. CASE ChipStep(d)   BY <2>4, ChipKeeps
  <2>5. ASSUME NEW place \in Places \ {"idle", "select"}, Fails(d, place) PROVE IInv'
    BY <2>5, FailsKeeps
  <2>6. CASE Advance(d)
    <3>1. CASE Select(d)      BY <3>1, SelectKeeps
    <3>2. CASE SavePins(d)    BY <3>2, SavePinsKeeps
    <3>3. CASE Prepare(d)     BY <3>3, PrepareKeeps
    <3>4. CASE ResetCcs(d)    BY <3>4, ResetCcsKeeps
    <3>5. CASE Ready(d)       BY <3>5, ReadyKeeps
    <3>6. CASE Room(d)        BY <3>6, RoomKeeps
    <3>7. CASE Block(d)       BY <3>7, BlockKeeps
    <3>8. CASE Announce(d)    BY <3>8, AnnounceKeeps
    <3>9. CASE Boot(d)        BY <3>9, BootKeeps
    <3>10. CASE Execute(d)    BY <3>10, ExecuteKeeps
    <3>11. CASE Done(d)       BY <3>11, DoneKeeps
    <3>12. CASE Verify(d)     BY <3>12, VerifyKeeps
    <3>13. CASE RestorePins(d) BY <3>13, RestorePinsKeeps
    <3> QED BY <2>5, <2>6, <3>1, <3>2, <3>3, <3>4, <3>5, <3>6, <3>7, <3>8, <3>9, <3>10, <3>11,
               <3>12, <3>13 DEF Advance
  <2> QED BY <2>1, <2>2, <2>3, <2>4, <2>5, <2>6 DEF Step
<1>2. CASE UNCHANGED vars
  BY <1>2 DEF vars, IInv, TypeOK, OneAtATime, Kept
<1> QED BY <1>1, <1>2

LEMMA Invariance == Spec => []IInv
BY InitHolds, Inductive, PTL DEF Spec

(* Every reachable state of the loads is of the declared type: no index runs *)
(* past the image and no poll counts below 0 (__patch_load, __ccs_reset).     *)
THEOREM LoadTypeCorrect == Spec => []TypeOK
<1>1. IInv => TypeOK
  BY DEF IInv
<1> QED BY <1>1, Invariance, PTL

(* WholeImage of PatchLoad, for every image, wiring and fault: a chip that   *)
(* runs a patch has got every block once and in order (__patch_load and       *)
(* __patch_boot), by the mailbox' handshake or, blind, by the delays.          *)
THEOREM PatchesAreWhole == Spec => []WholeImage
<1>1. IInv => WholeImage
  BY DEF IInv, Kept, Mailbox, Runs, WholeImage, Image, Upto
<1> QED BY <1>1, Invariance, PTL

(* SameWay of PatchLoad, for every wiring and fault: __exchange_mid and       *)
(* __exchange_io follow the chip to the way it loads on and back, and a load   *)
(* that answers OK leaves the io description as the client gave it.            *)
THEOREM DriverFollowsChip == Spec => []SameWay
<1>1. ASSUME IInv, NEW d \in Devices
      PROVE  /\ pc[d] # "idle" => Reaches(d) \/ chip[d].csr = "go"
             /\ pc[d] = "idle" /\ last[d] = "patched" => Reaches(d) /\ Home(chip[d], desc[d])
  BY <1>1, Before DEF WayKept, Early, Loading, Places, Reaches, Home
<1>2. ASSUME IInv, NEW d \in Devices, Home(chip[d], desc[d])
      PROVE  desc[d] = [way |-> chip[d].strap, reserved |-> 0]
  BY <1>2, Before DEF Home, Io
<1>3. IInv => SameWay
  BY <1>1, <1>2 DEF SameWay
<1> QED BY <1>3, Invariance, PTL
=============================================================================
