---------------------------- MODULE RegisterFile ----------------------------
(***************************************************************************)
(* What jl_reg_read, jl_reg_write and their burst forms (jl_reg_io.c)      *)
(* promise to threads that share a device: a call takes effect in one step *)
(* between its invocation and its answer, on exactly the registers it      *)
(* names, and a read answers what was in them at that step.                *)
(*                                                                         *)
(* The promise is suspended, and suspect says so, after a call gave up on  *)
(* a command the chip had not finished: it answered TIMEOUT, or it was a   *)
(* write sent while the patch loader has completion checks turned off.     *)
(***************************************************************************)
EXTENDS Integers, Sequences

CONSTANTS
  Threads,    \* the callers
  Addrs,      \* register addresses
  Words,      \* register values
  Requests,   \* the calls that are made: [op, addr, n, words]
  BurstMax,   \* IDA_BURST_SIZE_MAX
  Unchecked   \* whether writes are ever sent without a completion check

VARIABLES
  mem,        \* the chip's registers
  req,        \* per thread: its call, the call's phase and what a read has got
  reply,      \* per thread: the last answer
  suspect     \* a command was left behind

vars == <<mem, req, reply, suspect>>

NoRequest == [op |-> "none", addr |-> 0, n |-> 0, words |-> <<>>]
Free      == [phase |-> "none", call |-> NoRequest, got |-> <<>>]
NoReply   == [ret |-> "none", got |-> <<>>]

Accepted(n) == n \in 1 .. BurstMax

Stored(m, call) == [a \in Addrs |-> IF a \in call.addr .. call.addr + call.n - 1
                                    THEN call.words[a - call.addr + 1]
                                    ELSE m[a]]
Loaded(m, call) == [i \in 1 .. call.n |-> m[call.addr + i - 1]]

Init == /\ mem \in [Addrs -> Words]
        /\ req = [t \in Threads |-> Free]
        /\ reply = [t \in Threads |-> NoReply]
        /\ suspect = FALSE

Invoke(t, call) ==
  /\ req[t].phase = "none"
  /\ req' = [req EXCEPT ![t] = [phase |-> "open", call |-> call, got |-> <<>>]]
  /\ UNCHANGED <<mem, reply, suspect>>

Perform(t) ==
  /\ req[t].phase = "open" /\ Accepted(req[t].call.n)
  /\ IF req[t].call.op = "write"
     THEN /\ mem' = Stored(mem, req[t].call)
          /\ req' = [req EXCEPT ![t].phase = "done"]
     ELSE /\ req' = [req EXCEPT ![t] = [phase |-> "done", call |-> @.call, got |-> Loaded(mem, @.call)]]
          /\ UNCHANGED mem
  /\ UNCHANGED <<reply, suspect>>

Answer(t, ret) ==
  /\ \/ ret = "OK" /\ req[t].phase = "done" /\ UNCHANGED suspect
     \/ ret = "PARAM" /\ req[t].phase = "open" /\ ~ Accepted(req[t].call.n)
        /\ UNCHANGED suspect
     \/ ret = "TIMEOUT" /\ req[t].phase = "open" /\ suspect' = TRUE
     \/ ret = "TIMEOUT" /\ req[t].phase = "done" /\ UNCHANGED suspect
     \/ ret = "OK" /\ req[t].phase = "open" /\ suspect' = TRUE
        /\ Unchecked /\ req[t].call.op = "write"
  /\ req' = [req EXCEPT ![t] = Free]
  /\ reply' = [reply EXCEPT ![t] = [ret |-> ret,
                                     got |-> IF ret = "OK" THEN req[t].got ELSE <<>>]]
  /\ UNCHANGED mem

\* While a command is left behind the registers and the calls under way may
\* come out in any way; a call that is answered is out of its reach.
Disturbed ==
  /\ suspect /\ suspect' = TRUE
  /\ \A t \in Threads :
       \/ req[t].phase # "none" /\ req'[t].phase # "none"
          /\ req'[t].call = req[t].call /\ reply'[t] = reply[t]
       \/ req[t].phase # "none" /\ req'[t] = Free
       \/ req'[t] = req[t] /\ reply'[t] = reply[t]

Recovered == suspect /\ suspect' = FALSE /\ UNCHANGED <<mem, req, reply>>

Next == \/ \E t \in Threads, call \in Requests : Invoke(t, call)
        \/ \E t \in Threads : Perform(t)
        \/ \E t \in Threads, ret \in {"OK", "PARAM", "TIMEOUT"} : Answer(t, ret)
        \/ Disturbed
        \/ Recovered

Spec == Init /\ [][Next]_vars
=============================================================================
