------------------------------ MODULE IdaAccess ------------------------------
(***************************************************************************)
(* Register access through the chip's indirect access (IDA) registers:     *)
(* jl_reg_read / write and their burst forms (jl_reg_io.c) with the io     *)
(* mutex of CONFIG_JL_IO_MUTEX, over jl61xx_ida_read / write               *)
(* (jl_reg_ida.c).  A call fills the IDA registers one bus access at a     *)
(* time, issues a command and polls a bounded number of times; the chip    *)
(* runs the command at its own pace, so a call may leave one behind that   *)
(* still runs.  The low and high half of an address or a word are one      *)
(* access here, the page register (always IDA_PAGE_ID) is left out.        *)
(***************************************************************************)
EXTENDS Integers, Sequences

CONSTANTS
  Threads,    \* the callers
  Addrs,      \* register addresses
  Words,      \* register values
  Requests,   \* the calls that are made: [op, addr, n, words]
  BurstMax,   \* IDA_BURST_SIZE_MAX
  SizeMod,    \* the n of a call is a jl_uint32, the size of io_desc.ops a jl_uint8
  Try,        \* what the poll loop counts down from
  Unchecked   \* whether the patch loader turns completion checks off

ASSUME TryAssumption  == Try \in Nat \ {0}
ASSUME SizeAssumption == SizeMod \in Nat \ {0} /\ BurstMax \in 1 .. SizeMod - 1
ASSUME FlagAssumption == Unchecked \in BOOLEAN
ASSUME RegistersAssumption == Addrs \subseteq Int /\ Addrs # {} /\ Words # {}

\* A call hands over as many words as it says it does.
ASSUME RequestsAssumption ==
  \A r \in Requests : /\ r \in [op : {"read", "write"}, addr : Addrs, n : Nat, words : Seq(Words)]
                      /\ r.op = "write" => Len(r.words) = r.n

NoThread == "nobody"
ASSUME ThreadsAssumption == NoThread \notin Threads

VARIABLES
  mem,        \* the chip's registers (external)
  ida,        \* its IDA registers: what is written to them and the CMD bit
  cmd,        \* the command as it was when CMD was set (external)
  rd,         \* the words of the read data registers (external)
  lock,       \* the holder of io_desc->mutex
  reserved,   \* io_desc->reserved
  pc,         \* per thread: where it is in its call
  call,       \* per thread: the arguments
  left,       \* per thread: `try'
  buf,        \* per thread: the words moved so far
  ret,        \* per thread: the result it is about to answer
  reply,      \* per thread: the last answer
  orphan      \* history: a command was left behind and no call has begun on an idle chip since

chip == <<mem, ida, cmd, rd>>
vars == <<mem, ida, cmd, rd, lock, reserved, pc, call, left, buf, ret, reply, orphan>>

NoRequest == [op |-> "none", addr |-> 0, n |-> 0, words |-> <<>>]
NoReply   == [ret |-> "none", got |-> <<>>]
Command   == [dir : {"read", "write"}, addr : Addrs, size : 1 .. BurstMax]
Places    == {"idle", "lock", "data", "setup", "issue", "poll", "fetch", "unlock"}
Rets      == {"OK", "PARAM", "TIMEOUT"}
Inside(t) == pc[t] \notin {"idle", "lock"}

TypeOK ==
  /\ mem \in [Addrs -> Words]
  /\ ida \in [wd : Seq(Words), reg : Command, busy : BOOLEAN]
  /\ cmd \in Command /\ rd \in Seq(Words)
  /\ lock \in Threads \cup {NoThread}
  /\ reserved \in BOOLEAN
  /\ pc \in [Threads -> Places]
  /\ call \in [Threads -> Requests \cup {NoRequest}]
  /\ left \in [Threads -> 0 .. Try]
  /\ buf \in [Threads -> Seq(Words)]
  /\ ret \in [Threads -> Rets]
  /\ orphan \in BOOLEAN

Init ==
  /\ mem \in [Addrs -> Words]
  /\ cmd = [dir |-> "read", addr |-> CHOOSE a \in Addrs : TRUE, size |-> 1]
  /\ ida = [wd |-> <<>>, reg |-> cmd, busy |-> FALSE]
  /\ rd = <<>>
  /\ lock = NoThread
  /\ reserved = FALSE
  /\ pc = [t \in Threads |-> "idle"]
  /\ call = [t \in Threads |-> NoRequest]
  /\ left = [t \in Threads |-> 0]
  /\ buf = [t \in Threads |-> <<>>]
  /\ ret = [t \in Threads |-> "OK"]
  /\ reply = [t \in Threads |-> NoReply]
  /\ orphan = FALSE

-----------------------------------------------------------------------------
(* The chip (external).  A command runs some time after CMD was set, with   *)
(* the IDA registers as they were then or as they are when it runs, and     *)
(* leaves them idle and its data buffer empty.                              *)

Covers(c, a) == a \in c.addr .. c.addr + c.size - 1

ChipRuns ==
  /\ ida.busy
  /\ \E c \in {cmd, ida.reg} :
       IF c.dir = "write"
       THEN /\ mem' = [a \in Addrs |-> IF Covers(c, a) /\ a - c.addr + 1 <= Len(ida.wd)
                                       THEN ida.wd[a - c.addr + 1] ELSE mem[a]]
            /\ UNCHANGED rd
       ELSE /\ rd' = [i \in 1 .. c.size |-> IF c.addr + i - 1 \in Addrs
                                            THEN mem[c.addr + i - 1]
                                            ELSE CHOOSE w \in Words : TRUE]
            /\ UNCHANGED mem
  /\ ida' = [ida EXCEPT !.busy = FALSE, !.wd = <<>>]
  /\ cmd' = ida.reg
  /\ UNCHANGED <<lock, reserved, pc, call, left, buf, ret, reply, orphan>>

-----------------------------------------------------------------------------
(* One call.                                                                *)

Goes(t, place) == pc' = [pc EXCEPT ![t] = place]

\* jl_reg_read, jl_reg_burst_read, jl_reg_write, jl_reg_burst_write on a READY io
Invoke(t, request) ==
  /\ pc[t] = "idle"
  /\ call' = [call EXCEPT ![t] = request]
  /\ buf' = [buf EXCEPT ![t] = <<>>]
  /\ Goes(t, "lock")
  /\ UNCHANGED <<chip, lock, reserved, left, ret, reply, orphan>>

\* the jl_uint8 that io_desc.ops.read and write are given
Size(t) == call[t].n % SizeMod

\* Mutant: the call runs without the mutex.
AcquireNothing(t) ==
  /\ pc[t] = "lock"
  /\ lock' = t
  /\ orphan' = (orphan /\ ida.busy)
  /\ left' = [left EXCEPT ![t] = Try]
  /\ ret' = [ret EXCEPT ![t] = "OK"]
  /\ Goes(t, IF call[t].op = "write" THEN "data" ELSE "setup")
  /\ UNCHANGED <<chip, reserved, call, buf, reply>>

\* JL_IO_MUTEX_LOCK, then the check of the size
Acquire(t) ==
  /\ pc[t] = "lock" /\ lock = NoThread
  /\ lock' = t
  /\ orphan' = (orphan /\ ida.busy)
  /\ left' = [left EXCEPT ![t] = Try]
  /\ IF Size(t) = 0 \/ Size(t) > BurstMax
     THEN ret' = [ret EXCEPT ![t] = "PARAM"] /\ Goes(t, "unlock")
     ELSE ret' = [ret EXCEPT ![t] = "OK"]
          /\ Goes(t, IF call[t].op = "write" THEN "data" ELSE "setup")
  /\ UNCHANGED <<chip, reserved, call, buf, reply>>

\* WD_L, WD_H_SI0: the next word of a write; the chip has room for one burst
PutWord(t) ==
  /\ pc[t] = "data"
  /\ LET word == call[t].words[Len(buf[t]) + 1]
     IN /\ buf' = [buf EXCEPT ![t] = Append(@, word)]
        /\ ida' = [ida EXCEPT !.wd = IF Len(@) < BurstMax THEN Append(@, word) ELSE @]
  /\ Goes(t, IF Len(buf'[t]) = Size(t) THEN "setup" ELSE "data")
  /\ UNCHANGED <<mem, cmd, rd, lock, reserved, call, left, ret, reply, orphan>>

\* INFOR, ADDR_L, ADDR_H
SetUp(t) ==
  /\ pc[t] = "setup"
  /\ ida' = [ida EXCEPT !.reg = [dir |-> call[t].op, addr |-> call[t].addr, size |-> Size(t)]]
  /\ Goes(t, "issue")
  /\ UNCHANGED <<mem, cmd, rd, lock, reserved, call, left, buf, ret, reply, orphan>>

\* CMD; a busy chip takes the new command instead of the old one, or neither notices
Issue(t) ==
  /\ pc[t] = "issue"
  /\ cmd' \in (IF ida.busy THEN {cmd, ida.reg} ELSE {ida.reg})
  /\ ida' = [ida EXCEPT !.busy = TRUE]
  /\ Goes(t, IF call[t].op = "write" /\ reserved THEN "unlock" ELSE "poll")
  /\ UNCHANGED <<mem, rd, lock, reserved, call, left, buf, ret, reply, orphan>>

\* Mutant: the loop does not count down.
PollForever(t) ==
  /\ pc[t] = "poll"
  /\ Goes(t, IF ida.busy THEN "poll" ELSE IF call[t].op = "read" THEN "fetch" ELSE "unlock")
  /\ UNCHANGED <<chip, lock, reserved, call, left, buf, ret, reply, orphan>>

\* Mutant: the loop that ran out is taken for a finished command.
PollExpired(t) ==
  /\ pc[t] = "poll"
  /\ left' = [left EXCEPT ![t] = @ - 1]
  /\ Goes(t, IF left'[t] # 0 /\ ida.busy THEN "poll"
             ELSE IF call[t].op = "read" THEN "fetch" ELSE "unlock")
  /\ UNCHANGED <<chip, lock, reserved, call, buf, ret, reply, orphan>>

\* Mutant: while (try--)
PollPostfix(t) ==
  /\ pc[t] = "poll"
  /\ left' = [left EXCEPT ![t] = @ - 1]
  /\ IF left[t] = 0
     THEN ret' = [ret EXCEPT ![t] = "TIMEOUT"] /\ Goes(t, "unlock")
     ELSE /\ UNCHANGED ret
          /\ Goes(t, IF ida.busy THEN "poll"
                     ELSE IF call[t].op = "read" THEN "fetch" ELSE "unlock")
  /\ UNCHANGED <<chip, lock, reserved, call, buf, reply, orphan>>

\* while (--try) { read CMD; if (!(tmp & 1)) break; }
Poll(t) ==
  /\ pc[t] = "poll"
  /\ left' = [left EXCEPT ![t] = @ - 1]
  /\ IF left'[t] = 0
     THEN ret' = [ret EXCEPT ![t] = "TIMEOUT"] /\ Goes(t, "unlock")
     ELSE /\ UNCHANGED ret
          /\ Goes(t, IF ida.busy THEN "poll"
                     ELSE IF call[t].op = "read" THEN "fetch" ELSE "unlock")
  /\ UNCHANGED <<chip, lock, reserved, call, buf, reply, orphan>>

\* RD_L_SI0, RD_H: the next word of a read, any word if the chip has no more
GetWord(t) ==
  /\ pc[t] = "fetch"
  /\ IF rd = <<>>
     THEN /\ \E word \in Words : buf' = [buf EXCEPT ![t] = Append(@, word)]
          /\ UNCHANGED rd
     ELSE /\ buf' = [buf EXCEPT ![t] = Append(@, Head(rd))]
          /\ rd' = Tail(rd)
  /\ Goes(t, IF Len(buf'[t]) = Size(t) THEN "unlock" ELSE "fetch")
  /\ UNCHANGED <<mem, ida, cmd, lock, reserved, call, left, ret, reply, orphan>>

\* JL_IO_MUTEX_UNLOCK and return
Release(t) ==
  /\ pc[t] = "unlock"
  /\ lock' = NoThread
  /\ reply' = [reply EXCEPT ![t] =
       [ret |-> ret[t], got |-> IF call[t].op = "read" THEN buf[t] ELSE <<>>]]
  /\ orphan' = (orphan \/ ida.busy)
  /\ call' = [call EXCEPT ![t] = NoRequest]
  /\ buf' = [buf EXCEPT ![t] = <<>>]
  /\ left' = [left EXCEPT ![t] = 0]
  /\ Goes(t, "idle")
  /\ UNCHANGED <<chip, reserved, ret>>

\* the patch loader sets and clears io_desc->reserved
SetReserved(b) ==
  /\ Unchecked /\ reserved # b
  /\ reserved' = b
  /\ UNCHANGED <<chip, lock, pc, call, left, buf, ret, reply, orphan>>

Step(t) == \/ PutWord(t) \/ SetUp(t) \/ Issue(t) \/ Poll(t) \/ GetWord(t) \/ Release(t)

Next ==
  \/ \E t \in Threads, request \in Requests : Invoke(t, request)
  \/ \E t \in Threads : Acquire(t)
  \/ \E t \in Threads : PutWord(t) \/ SetUp(t)
  \/ \E t \in Threads : Issue(t)
  \/ \E t \in Threads : Poll(t)
  \/ \E t \in Threads : GetWord(t)
  \/ \E t \in Threads : Release(t)
  \/ \E b \in BOOLEAN : SetReserved(b)
  \/ ChipRuns

Spec == Init /\ [][Next]_vars

\* A thread in a call keeps running and gets the mutex when it is free often
\* enough; the chip owes nothing.
FairSpec == Spec /\ \A t \in Threads : WF_vars(Step(t)) /\ SF_vars(Acquire(t))
-----------------------------------------------------------------------------
(* Properties *)

(* The mutex: at most one thread is between lock and unlock of a call.      *)
MutualExclusion == \A t \in Threads : Inside(t) <=> lock = t

(* A command the chip still runs belongs to the call that holds the mutex   *)
(* and is waiting for it, or is known to have been left behind; the data    *)
(* buffer of a chip that is idle between two calls is empty, so no word of  *)
(* one call can end up in the next.                                         *)
CommandsOwned ==
  /\ ida.busy => orphan \/ (lock # NoThread /\ pc[lock] \in {"poll", "unlock"})
  /\ (~ ida.busy /\ lock = NoThread) => ida.wd = <<>>

(* Every call on the register file is answered, even by a chip that never   *)
(* finishes a command: the poll loop is bounded and the mutex is released   *)
(* on every path.                                                           *)
CallsAnswered == \A t \in Threads : (pc[t] = "lock") ~> (pc[t] = "idle")
-----------------------------------------------------------------------------
(* The refinement: a call has been performed when the chip has run its       *)
(* command; what a read has got is then in the buffer and the data registers. *)

Performed(t) == ~ ida.busy /\ (pc[t] \in {"poll", "fetch"} \/ (pc[t] = "unlock" /\ ret[t] # "PARAM"))

Request(t) ==
  [ phase |-> IF pc[t] = "idle" THEN "none" ELSE IF Performed(t) THEN "done" ELSE "open",
    call  |-> call[t],
    got   |-> IF Performed(t) /\ call[t].op = "read" THEN buf[t] \o rd ELSE <<>> ]

Registers == INSTANCE RegisterFile WITH
  req     <- [t \in Threads |-> Request(t)],
  suspect <- orphan

(* The calls are atomic operations on the chip's registers, until one of    *)
(* them leaves a command behind and again as soon as one begins on an idle  *)
(* chip: the register file that jl_reg_io.h offers.                         *)
AtomicRegisters == Registers!Spec
=============================================================================
