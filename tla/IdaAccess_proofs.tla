-------------------------- MODULE IdaAccess_proofs --------------------------
(***************************************************************************)
(* Proofs about IdaAccess, for any number of threads, any calls and a chip *)
(* of any speed: mutual exclusion of the calls on one device, whose a      *)
(* running command and a buffered word are, types, and the refinement of   *)
(* RegisterFile.                                                           *)
(***************************************************************************)
EXTENDS IdaAccess, TLAPS

Control == /\ pc \in [Threads -> Places]
           /\ lock \in Threads \cup {NoThread}
           /\ ida = [wd |-> ida.wd, reg |-> ida.reg, busy |-> ida.busy]

\* The buffer is empty not only between calls but from the moment a command
\* has run until the next call writes data.
BufferClean ==
  (~ ida.busy /\ (lock = NoThread \/ pc[lock] \in {"poll", "fetch", "unlock"})) => ida.wd = <<>>

CommandKnown == ida.busy => orphan \/ (lock # NoThread /\ pc[lock] \in {"poll", "unlock"})

IInv == Control /\ MutualExclusion /\ CommandKnown /\ BufferClean

LEMMA IInvInitially == Init => IInv
BY ThreadsAssumption
   DEF Init, IInv, Control, MutualExclusion, Inside, CommandKnown, BufferClean, Places

LEMMA ControlPreserved == Control /\ [Next]_vars => Control'
<1>. SUFFICES ASSUME Control, [Next]_vars PROVE Control'
  OBVIOUS
<1>1. ASSUME NEW t \in Threads, NEW request \in Requests, Invoke(t, request) PROVE Control'
  BY <1>1 DEF Control, Invoke, Goes, Places, chip
<1>2. ASSUME NEW t \in Threads, Acquire(t) PROVE Control'
  BY <1>2 DEF Control, Acquire, Goes, Places, chip
<1>3. ASSUME NEW t \in Threads, PutWord(t) \/ SetUp(t) PROVE Control'
  BY <1>3 DEF Control, PutWord, SetUp, Goes, Places
<1>4. ASSUME NEW t \in Threads, Issue(t) PROVE Control'
  BY <1>4 DEF Control, Issue, Goes, Places
<1>5. ASSUME NEW t \in Threads, Poll(t) PROVE Control'
  BY <1>5 DEF Control, Poll, Goes, Places, chip
<1>6. ASSUME NEW t \in Threads, GetWord(t) PROVE Control'
  BY <1>6 DEF Control, GetWord, Goes, Places
<1>7. ASSUME NEW t \in Threads, Release(t) PROVE Control'
  BY <1>7 DEF Control, Release, Goes, Places, chip
<1>8. CASE ChipRuns \/ (\E b \in BOOLEAN : SetReserved(b)) \/ UNCHANGED vars
  BY <1>8 DEF Control, ChipRuns, SetReserved, chip, vars
<1>. QED  BY <1>1, <1>2, <1>3, <1>4, <1>5, <1>6, <1>7, <1>8 DEF Next

LEMMA IInvPreserved == IInv /\ [Next]_vars => IInv'
<1>. SUFFICES ASSUME IInv, [Next]_vars PROVE IInv'
  OBVIOUS
<1>0. Control /\ Control' /\ MutualExclusion
  BY ControlPreserved DEF IInv
<1>1. ASSUME NEW t \in Threads, NEW request \in Requests, Invoke(t, request) PROVE IInv'
  <2>1. /\ pc' = [pc EXCEPT ![t] = "lock"] /\ pc[t] = "idle" /\ lock # t
        /\ UNCHANGED <<ida, lock, orphan>>
    BY <1>0, <1>1, ThreadsAssumption DEF Invoke, Goes, chip, MutualExclusion, Inside
  <2>2. MutualExclusion'
    BY <1>0, <2>1 DEF Control, MutualExclusion, Inside
  <2>3. lock # NoThread => pc'[lock] = pc[lock]
    BY <1>0, <2>1 DEF Control
  <2>4. CommandKnown' /\ BufferClean'
    BY <2>1, <2>3 DEF IInv, CommandKnown, BufferClean
  <2>. QED  BY <1>0, <2>2, <2>4 DEF IInv
<1>2. ASSUME NEW t \in Threads, Acquire(t) PROVE IInv'
  <2>1. \E place \in {"data", "setup", "unlock"} : pc' = [pc EXCEPT ![t] = place]
    BY <1>2 DEF Acquire, Goes
  <2>2. /\ lock = NoThread /\ lock' = t /\ pc[t] = "lock" /\ t # NoThread
        /\ orphan' = (orphan /\ ida.busy) /\ UNCHANGED ida
    BY <1>2, ThreadsAssumption DEF Acquire, chip
  <2>3. MutualExclusion'
    BY <1>0, <2>1, <2>2, ThreadsAssumption DEF Control, MutualExclusion, Inside
  <2>4. CommandKnown' /\ BufferClean'
    BY <2>2 DEF IInv, CommandKnown, BufferClean
  <2>. QED  BY <1>0, <2>3, <2>4 DEF IInv
<1>3. ASSUME NEW t \in Threads, Step(t) /\ ~ Release(t) PROVE IInv'
  <2>1. pc[t] \notin {"idle", "lock"} /\ lock = t /\ t # NoThread
    BY <1>0, <1>3, ThreadsAssumption
       DEF Step, PutWord, SetUp, Issue, Poll, GetWord, MutualExclusion, Inside
  <2>2. /\ lock' = lock /\ UNCHANGED orphan
        /\ \E place \in {"data", "setup", "issue", "poll", "fetch", "unlock"} :
             pc' = [pc EXCEPT ![t] = place]
    BY <1>3 DEF Step, PutWord, SetUp, Issue, Poll, GetWord, Goes
  <2>3. MutualExclusion'
    BY <1>0, <2>1, <2>2 DEF Control, MutualExclusion, Inside
  <2>4. CASE PutWord(t)
    <3>1. pc[t] = "data" /\ pc'[t] \in {"data", "setup"} /\ ida'.busy = ida.busy
      BY <1>0, <2>4 DEF PutWord, Goes, Control
    <3>. QED  BY <1>0, <2>1, <2>2, <2>3, <3>1 DEF IInv, CommandKnown, BufferClean
  <2>5. CASE SetUp(t)
    <3>1. pc[t] = "setup" /\ pc'[t] = "issue" /\ ida'.busy = ida.busy
      BY <1>0, <2>5 DEF SetUp, Goes, Control
    <3>. QED  BY <1>0, <2>1, <2>2, <2>3, <3>1 DEF IInv, CommandKnown, BufferClean
  <2>6. CASE Issue(t)
    <3>1. pc'[t] \in {"poll", "unlock"} /\ ida' = [ida EXCEPT !.busy = TRUE]
      BY <1>0, <2>6 DEF Issue, Goes, Control
    <3>2. CommandKnown'
      BY <2>1, <2>2, <3>1 DEF CommandKnown
    <3>3. BufferClean'
      BY <1>0, <2>1, <2>2, <2>6, <3>1 DEF IInv, CommandKnown, BufferClean, Issue
    <3>. QED  BY <1>0, <2>3, <3>2, <3>3 DEF IInv
  <2>7. CASE Poll(t)
    <3>1. /\ pc[t] = "poll" /\ ida' = ida
          /\ pc'[t] \in {"poll", "unlock"} \/ (pc'[t] = "fetch" /\ ~ ida.busy)
      BY <1>0, <2>7 DEF Poll, Goes, Control, chip
    <3>. QED  BY <1>0, <2>1, <2>2, <2>3, <3>1 DEF IInv, CommandKnown, BufferClean
  <2>8. CASE GetWord(t)
    <3>1. pc[t] = "fetch" /\ pc'[t] \in {"fetch", "unlock"} /\ ida' = ida
      BY <1>0, <2>8 DEF GetWord, Goes, Control
    <3>. QED  BY <1>0, <2>1, <2>2, <2>3, <3>1 DEF IInv, CommandKnown, BufferClean
  <2>. QED  BY <1>3, <2>4, <2>5, <2>6, <2>7, <2>8 DEF Step
<1>4. ASSUME NEW t \in Threads, Release(t) PROVE IInv'
  <2>1. /\ pc[t] = "unlock" /\ lock = t /\ t # NoThread
    BY <1>0, <1>4, ThreadsAssumption DEF Release, MutualExclusion, Inside
  <2>2. /\ lock' = NoThread /\ pc' = [pc EXCEPT ![t] = "idle"] /\ ida' = ida
        /\ orphan' = (orphan \/ ida.busy)
    BY <1>4 DEF Release, Goes, chip
  <2>3. MutualExclusion'
    BY <1>0, <2>1, <2>2, ThreadsAssumption DEF Control, MutualExclusion, Inside
  <2>4. CommandKnown' /\ BufferClean'
    BY <2>1, <2>2 DEF IInv, CommandKnown, BufferClean
  <2>. QED  BY <1>0, <2>3, <2>4 DEF IInv
<1>5. CASE ChipRuns
  <2>1. /\ UNCHANGED <<lock, pc, orphan>>
        /\ ida' = [ida EXCEPT !.busy = FALSE, !.wd = <<>>]
    BY <1>5 DEF ChipRuns
  <2>2. MutualExclusion'
    BY <1>0, <2>1 DEF MutualExclusion, Inside
  <2>3. CommandKnown' /\ BufferClean'
    BY <1>0, <2>1 DEF CommandKnown, BufferClean, Control
  <2>. QED  BY <1>0, <2>2, <2>3 DEF IInv
<1>6. CASE (\E b \in BOOLEAN : SetReserved(b)) \/ UNCHANGED vars
  BY <1>0, <1>6 DEF SetReserved, chip, vars, IInv, MutualExclusion, Inside, CommandKnown, BufferClean
<1>. QED  BY <1>1, <1>2, <1>3, <1>4, <1>5, <1>6 DEF Next, Step

(* JL_IO_MUTEX_LOCK / UNLOCK keep the calls on a device apart.              *)
THEOREM IoMutexExcludes == Spec => []MutualExclusion
<1>1. IInv => MutualExclusion
  BY DEF IInv
<1>. QED  BY <1>1, IInvInitially, IInvPreserved, PTL DEF Spec

(* A running command is the one the holder of the mutex waits for or one    *)
(* known to be left behind, and no word of one call waits in the chip's     *)
(* data buffer for the next.                                                *)
THEOREM CommandsAreOwned == Spec => []CommandsOwned
<1>1. IInv => CommandsOwned
  BY DEF IInv, CommandKnown, BufferClean, CommandsOwned
<1>. QED  BY <1>1, IInvInitially, IInvPreserved, PTL DEF Spec
-----------------------------------------------------------------------------
(* Types.  What a call has in hand at each of its places: its arguments, a    *)
(* size the chip takes once it has passed the check, tries that are left,     *)
(* and fewer words than it asked for while it still moves them.               *)

Working == {"data", "setup", "issue", "poll", "fetch"}

Own(t) ==
  /\ call[t] \in IF pc[t] = "idle" THEN {NoRequest} ELSE Requests
  /\ pc[t] \in Working => ret[t] = "OK" /\ Size(t) \in 1 .. BurstMax
  /\ pc[t] \in {"data", "setup", "issue"} => left[t] = Try
  /\ pc[t] = "poll" => left[t] >= 1
  /\ pc[t] = "data" => call[t].op = "write" /\ Len(buf[t]) < Size(t)
  /\ pc[t] \in {"idle", "lock"} => buf[t] = <<>>
  /\ pc[t] = "fetch" => call[t].op = "read" /\ Len(buf[t]) < Size(t)
  /\ call[t].op = "read" /\ (pc[t] \in Working \ {"fetch"} \/ (pc[t] = "unlock" /\ ret[t] # "OK"))
       => buf[t] = <<>>
  /\ pc[t] = "unlock" /\ ret[t] = "OK" =>
       Size(t) \in 1 .. BurstMax /\ (call[t].op = "read" => Len(buf[t]) = Size(t))
  /\ pc[t] = "unlock" /\ ret[t] = "PARAM" => Size(t) \notin 1 .. BurstMax
  /\ pc[t] = "unlock" /\ ret[t] = "TIMEOUT" => Size(t) \in 1 .. BurstMax

OwnCalls == TypeOK /\ \A t \in Threads : Own(t)

LEMMA SizeFits ==
  ASSUME NEW n \in Nat
  PROVE  /\ n % SizeMod \in 0 .. SizeMod - 1
         /\ n % SizeMod <= n
         /\ n < SizeMod => n % SizeMod = n
<1>1. SizeMod \in Nat /\ SizeMod > 0
  BY SizeAssumption
<1>2. n % SizeMod \in 0 .. SizeMod - 1
  BY <1>1
<1>3. n < SizeMod => n % SizeMod = n
  BY <1>1
<1>. QED  BY <1>1, <1>2, <1>3

LEMMA CommandsTyped ==
  \A c \in Command : c.addr \in Int /\ c.size \in Nat
<1>1. \A c \in Command : c.addr \in Int
  BY RegistersAssumption DEF Command
<1>2. BurstMax \in Nat
  BY SizeAssumption
<1>3. \A c \in Command : c.size \in Nat
  BY <1>2 DEF Command
<1>. QED  BY <1>1, <1>3

\* A step of thread t is no other thread's.
Alone(t) == \A u \in Threads \ {t} :
  /\ pc'[u] = pc[u] /\ call'[u] = call[u] /\ left'[u] = left[u]
  /\ buf'[u] = buf[u] /\ ret'[u] = ret[u]

LEMMA StepsAreAlone ==
  ASSUME OwnCalls, NEW t \in Threads,
         (\E request \in Requests : Invoke(t, request)) \/ Acquire(t) \/ Step(t)
  PROVE  Alone(t)
<1>1. CASE (\E request \in Requests : Invoke(t, request)) \/ Acquire(t)
  BY <1>1 DEF OwnCalls, TypeOK, Alone, Invoke, Acquire, Goes
<1>2. CASE PutWord(t) \/ SetUp(t) \/ Issue(t)
  BY <1>2 DEF OwnCalls, TypeOK, Alone, PutWord, SetUp, Issue, Goes
<1>3. CASE Poll(t) \/ GetWord(t) \/ Release(t)
  BY <1>3 DEF OwnCalls, TypeOK, Alone, Poll, GetWord, Release, Goes
<1>. QED  BY <1>1, <1>2, <1>3 DEF Step

LEMMA OwnElsewhere ==
  ASSUME OwnCalls, NEW t \in Threads, Alone(t), NEW u \in Threads \ {t}
  PROVE  Own(u)'
BY DEF OwnCalls, Alone, Own, Size, Working

\* What is known of a call that is under way.
LEMMA RequestKnown ==
  ASSUME OwnCalls, NEW t \in Threads, pc[t] # "idle"
  PROVE  /\ call[t] \in Requests
         /\ call[t].op \in {"read", "write"} /\ call[t].addr \in Addrs
         /\ call[t].n \in Nat /\ call[t].words \in Seq(Words)
         /\ call[t].op = "write" => Len(call[t].words) = call[t].n
         /\ Size(t) \in 0 .. SizeMod - 1 /\ Size(t) <= call[t].n
BY RequestsAssumption, SizeFits, SizeAssumption DEF OwnCalls, Own, Size

LEMMA OwnInitially == Init => OwnCalls
<1>. SUFFICES ASSUME Init PROVE OwnCalls
  OBVIOUS
<1>1. cmd \in Command
  BY RegistersAssumption, SizeAssumption DEF Init, Command
<1>0. <<>> \in Seq(Words)
  OBVIOUS
<1>4. ida \in [wd : Seq(Words), reg : Command, busy : BOOLEAN] /\ rd \in Seq(Words)
  BY <1>0, <1>1 DEF Init
<1>5. /\ pc \in [Threads -> Places] /\ left \in [Threads -> 0 .. Try]
      /\ ret \in [Threads -> Rets] /\ call \in [Threads -> Requests \cup {NoRequest}]
  BY TryAssumption DEF Init, Places, Rets
<1>2. TypeOK
  BY <1>0, <1>1, <1>4, <1>5 DEF Init, TypeOK
<1>3. \A t \in Threads : Own(t)
  BY DEF Init, Own, Working, NoRequest
<1>. QED  BY <1>2, <1>3 DEF OwnCalls

LEMMA OwnPreserved == OwnCalls /\ [Next]_vars => OwnCalls'
<1>. SUFFICES ASSUME OwnCalls, [Next]_vars PROVE OwnCalls'
  OBVIOUS
<1>. USE DEF Rets
<1>1. ASSUME NEW t \in Threads, NEW request \in Requests, Invoke(t, request) PROVE OwnCalls'
  <2>1. TypeOK'
    BY <1>1 DEF OwnCalls, TypeOK, Invoke, Goes, Places, chip
  <2>2. Own(t)'
    BY <1>1 DEF OwnCalls, TypeOK, Own, Size, Working, Invoke, Goes
  <2>. QED  BY <1>1, <2>1, <2>2, StepsAreAlone, OwnElsewhere DEF OwnCalls
<1>2. ASSUME NEW t \in Threads, Acquire(t) PROVE OwnCalls'
  <2>1. TypeOK'
    <3>1. pc' \in [Threads -> Places] /\ ret' \in [Threads -> Rets]
      BY <1>2 DEF OwnCalls, TypeOK, Acquire, Goes, Places
    <3>2. left' \in [Threads -> 0 .. Try] /\ orphan' \in BOOLEAN
      BY <1>2, TryAssumption DEF OwnCalls, TypeOK, Acquire
    <3>. QED  BY <1>2, <3>1, <3>2 DEF OwnCalls, TypeOK, Acquire, chip
  <2>2. /\ call[t] \in Requests /\ call[t].op \in {"read", "write"} /\ Size(t) \in Nat
        /\ Size(t)' = Size(t) /\ call'[t] = call[t] /\ buf'[t] = <<>> /\ left'[t] = Try
    <3>1. pc[t] = "lock" /\ call' = call /\ buf' = buf /\ left' = [left EXCEPT ![t] = Try]
      BY <1>2 DEF Acquire
    <3>2. buf[t] = <<>> /\ left \in [Threads -> 0 .. Try]
      BY <3>1 DEF OwnCalls, TypeOK, Own
    <3>3. Size(t) \in Nat
      BY <3>1, RequestKnown, SizeAssumption
    <3>. QED  BY <3>1, <3>2, <3>3, RequestKnown DEF Size
  <2>3. \/ pc'[t] = "unlock" /\ ret'[t] = "PARAM" /\ Size(t) \notin 1 .. BurstMax
        \/ /\ ret'[t] = "OK" /\ Size(t) \in 1 .. BurstMax
           /\ \/ call[t].op = "write" /\ pc'[t] = "data"
              \/ call[t].op = "read" /\ pc'[t] = "setup"
    BY <1>2, <2>2, SizeAssumption DEF OwnCalls, TypeOK, Acquire, Goes
  <2>4. Own(t)'
    BY <2>2, <2>3 DEF Own, Working
  <2>. QED  BY <1>2, <2>1, <2>4, StepsAreAlone, OwnElsewhere DEF OwnCalls
<1>3. ASSUME NEW t \in Threads, PutWord(t) PROVE OwnCalls'
  <2>. DEFINE word == call[t].words[Len(buf[t]) + 1]
  <2>1. /\ pc[t] = "data" /\ call[t].op = "write" /\ Len(buf[t]) < Size(t) /\ buf[t] \in Seq(Words)
        /\ Size(t) \in 1 .. BurstMax /\ ret[t] = "OK" /\ left[t] = Try
        /\ Size(t)' = Size(t) /\ call'[t] = call[t] /\ ret'[t] = ret[t] /\ left'[t] = left[t]
    BY <1>3 DEF OwnCalls, TypeOK, Own, Working, PutWord, Size
  <2>2. word \in Words
    BY <2>1, RequestKnown
  <2>3. /\ buf'[t] = Append(buf[t], word)
        /\ pc'[t] = IF Len(buf'[t]) = Size(t) THEN "setup" ELSE "data"
        /\ ida' = [ida EXCEPT !.wd = IF Len(@) < BurstMax THEN Append(@, word) ELSE @]
    BY <1>3 DEF OwnCalls, TypeOK, PutWord, Goes
  <2>4. TypeOK'
    <3>1. buf' \in [Threads -> Seq(Words)]
      BY <1>3, <2>2 DEF OwnCalls, TypeOK, PutWord
    <3>2. ida' \in [wd : Seq(Words), reg : Command, busy : BOOLEAN]
      <4>1. ida \in [wd : Seq(Words), reg : Command, busy : BOOLEAN]
        BY DEF OwnCalls, TypeOK
      <4>2. ida'.wd \in Seq(Words)
        BY <2>2, <2>3, <4>1
      <4>. QED  BY <2>3, <4>1, <4>2
    <3>. QED  BY <1>3, <3>1, <3>2 DEF OwnCalls, TypeOK, PutWord, Goes, Places
  <2>5. Len(buf'[t]) = Len(buf[t]) + 1 /\ Len(buf[t]) \in Nat
    BY <2>1, <2>2, <2>3
  <2>6. call[t] \in Requests
    BY <2>1, RequestKnown
  <2>7. Own(t)'
    BY <2>1, <2>3, <2>5, <2>6 DEF Own, Working
  <2>. QED  BY <1>3, <2>4, <2>7, StepsAreAlone, OwnElsewhere DEF OwnCalls, Step
<1>4. ASSUME NEW t \in Threads, SetUp(t) PROVE OwnCalls'
  <2>1. [dir |-> call[t].op, addr |-> call[t].addr, size |-> Size(t)] \in Command
    BY <1>4, RequestKnown DEF OwnCalls, Own, Working, SetUp, Command
  <2>2. TypeOK'
    BY <1>4, <2>1 DEF OwnCalls, TypeOK, SetUp, Goes, Places
  <2>3. Own(t)'
    BY <1>4 DEF OwnCalls, TypeOK, Own, Size, Working, SetUp, Goes
  <2>. QED  BY <1>4, <2>2, <2>3, StepsAreAlone, OwnElsewhere DEF OwnCalls, Step
<1>5. ASSUME NEW t \in Threads, Issue(t) PROVE OwnCalls'
  <2>1. TypeOK'
    BY <1>5 DEF OwnCalls, TypeOK, Issue, Goes, Places
  <2>2. Own(t)'
    BY <1>5, TryAssumption DEF OwnCalls, TypeOK, Own, Size, Working, Issue, Goes
  <2>. QED  BY <1>5, <2>1, <2>2, StepsAreAlone, OwnElsewhere DEF OwnCalls, Step
<1>6. ASSUME NEW t \in Threads, Poll(t) PROVE OwnCalls'
  <2>1. /\ pc[t] = "poll" /\ left[t] \in 1 .. Try /\ left'[t] = left[t] - 1
        /\ Size(t)' = Size(t) /\ call'[t] = call[t] /\ buf'[t] = buf[t] /\ ret[t] = "OK"
        /\ Size(t) \in 1 .. BurstMax /\ call[t] \in Requests /\ call[t].op \in {"read", "write"}
        /\ call[t].op = "read" => buf[t] = <<>>
    BY <1>6, RequestKnown DEF OwnCalls, TypeOK, Own, Working, Poll, Size
  <2>2. TypeOK'
    <3>1. left' \in [Threads -> 0 .. Try]
      BY <1>6, <2>1, TryAssumption DEF OwnCalls, TypeOK, Poll
    <3>2. pc' \in [Threads -> Places] /\ ret' \in [Threads -> Rets]
      BY <1>6 DEF OwnCalls, TypeOK, Poll, Goes, Places
    <3>. QED  BY <1>6, <3>1, <3>2 DEF OwnCalls, TypeOK, Poll, chip
  <2>3. \/ left'[t] = 0 /\ ret'[t] = "TIMEOUT" /\ pc'[t] = "unlock"
        \/ /\ left'[t] >= 1 /\ ret'[t] = "OK"
           /\ \/ pc'[t] = "poll"
              \/ pc'[t] = "fetch" /\ call[t].op = "read"
              \/ pc'[t] = "unlock" /\ call[t].op = "write"
    BY <1>6, <2>1 DEF OwnCalls, TypeOK, Poll, Goes
  <2>4. Own(t)'
    BY <2>1, <2>3 DEF Own, Working
  <2>. QED  BY <1>6, <2>2, <2>4, StepsAreAlone, OwnElsewhere DEF OwnCalls, Step
<1>7. ASSUME NEW t \in Threads, GetWord(t) PROVE OwnCalls'
  <2>1. /\ pc[t] = "fetch" /\ call[t].op = "read" /\ Len(buf[t]) < Size(t) /\ buf[t] \in Seq(Words)
        /\ Size(t) \in 1 .. BurstMax /\ ret[t] = "OK" /\ call[t] \in Requests
        /\ Size(t)' = Size(t) /\ call'[t] = call[t] /\ ret'[t] = ret[t]
    BY <1>7 DEF OwnCalls, TypeOK, Own, Working, GetWord, Size
  <2>2. PICK word \in Words : buf' = [buf EXCEPT ![t] = Append(@, word)]
    BY <1>7 DEF OwnCalls, TypeOK, GetWord
  <2>3. rd' \in Seq(Words)
    <3>1. rd \in Seq(Words) /\ rd' \in {rd, Tail(rd)} /\ (rd = <<>> => rd' = rd)
      BY <1>7 DEF OwnCalls, TypeOK, GetWord
    <3>. QED  BY <3>1
  <2>4. TypeOK'
    BY <1>7, <2>2, <2>3 DEF OwnCalls, TypeOK, GetWord, Goes, Places
  <2>5. /\ Len(buf'[t]) = Len(buf[t]) + 1 /\ Len(buf[t]) \in Nat
        /\ pc'[t] = IF Len(buf'[t]) = Size(t) THEN "unlock" ELSE "fetch"
    BY <1>7, <2>1, <2>2 DEF OwnCalls, TypeOK, GetWord, Goes
  <2>6. Own(t)'
    BY <2>1, <2>5 DEF Own, Working
  <2>. QED  BY <1>7, <2>4, <2>6, StepsAreAlone, OwnElsewhere DEF OwnCalls, Step
<1>8. ASSUME NEW t \in Threads, Release(t) PROVE OwnCalls'
  <2>1. TypeOK'
    <3>1. pc' \in [Threads -> Places] /\ call' \in [Threads -> Requests \cup {NoRequest}]
      BY <1>8 DEF OwnCalls, TypeOK, Release, Goes, Places
    <3>2. left' \in [Threads -> 0 .. Try] /\ buf' \in [Threads -> Seq(Words)]
      BY <1>8, TryAssumption DEF OwnCalls, TypeOK, Release
    <3>. QED  BY <1>8, <3>1, <3>2 DEF OwnCalls, TypeOK, Release, chip
  <2>2. Own(t)'
    BY <1>8 DEF OwnCalls, TypeOK, Own, Size, Working, Release, Goes, NoRequest
  <2>. QED  BY <1>8, <2>1, <2>2, StepsAreAlone, OwnElsewhere DEF OwnCalls, Step
<1>9. CASE ChipRuns
  <2>1. UNCHANGED <<lock, reserved, pc, call, left, buf, ret, reply, orphan>>
    BY <1>9 DEF ChipRuns
  <2>2. PICK c \in {cmd, ida.reg} :
          IF c.dir = "write"
          THEN /\ mem' = [a \in Addrs |-> IF Covers(c, a) /\ a - c.addr + 1 <= Len(ida.wd)
                                          THEN ida.wd[a - c.addr + 1] ELSE mem[a]]
               /\ UNCHANGED rd
          ELSE /\ rd' = [i \in 1 .. c.size |-> IF c.addr + i - 1 \in Addrs
                                               THEN mem[c.addr + i - 1]
                                               ELSE CHOOSE w \in Words : TRUE]
               /\ UNCHANGED mem
    BY <1>9 DEF ChipRuns
  <2>3. c.addr \in Int /\ c.size \in Nat /\ ida.wd \in Seq(Words) /\ mem \in [Addrs -> Words]
    <3>1. /\ cmd \in Command /\ mem \in [Addrs -> Words]
          /\ ida \in [wd : Seq(Words), reg : Command, busy : BOOLEAN]
      BY DEF OwnCalls, TypeOK
    <3>2. c \in Command
      BY <3>1
    <3>4. c.addr \in Int /\ c.size \in Nat
      BY <3>2, CommandsTyped
    <3>. QED  BY <3>1, <3>4
  <2>4. mem' \in [Addrs -> Words]
    BY <2>2, <2>3, RegistersAssumption DEF Covers
  <2>5. rd' \in Seq(Words)
    <3>1. CASE c.dir = "write"
      BY <2>2, <3>1 DEF OwnCalls, TypeOK
    <3>2. CASE c.dir # "write"
      <4>1. (CHOOSE w \in Words : TRUE) \in Words
        BY RegistersAssumption
      <4>2. rd' \in [1 .. c.size -> Words]
        BY <2>2, <2>3, <3>2, <4>1
      <4>. QED  BY <2>3, <4>2
    <3>. QED  BY <3>1, <3>2
  <2>6. TypeOK'
    <3>1. ida \in [wd : Seq(Words), reg : Command, busy : BOOLEAN]
      BY DEF OwnCalls, TypeOK
    <3>3. ida' = [wd |-> <<>>, reg |-> ida.reg, busy |-> FALSE] /\ cmd' = ida.reg
      BY <1>9, <3>1 DEF ChipRuns
    <3>2. ida' \in [wd : Seq(Words), reg : Command, busy : BOOLEAN] /\ cmd' \in Command
      BY <3>1, <3>3
    <3>. QED  BY <2>1, <2>4, <2>5, <3>2 DEF OwnCalls, TypeOK
  <2>. QED  BY <2>1, <2>6 DEF OwnCalls, Own, Size, Working
<1>10. CASE (\E b \in BOOLEAN : SetReserved(b)) \/ UNCHANGED vars
  <2>1. TypeOK' /\ UNCHANGED <<pc, call, left, buf, ret>>
    BY <1>10 DEF SetReserved, vars, chip, OwnCalls, TypeOK
  <2>. QED  BY <2>1 DEF OwnCalls, Own, Size, Working
<1>. QED  BY <1>1, <1>2, <1>3, <1>4, <1>5, <1>6, <1>7, <1>8, <1>9, <1>10 DEF Next

(* Every reachable state is of the declared type: the tries never run below   *)
(* nought, a command never names more words than a burst has, and no call     *)
(* reads past the words it was given.                                         *)
THEOREM TypeCorrect == Spec => []TypeOK
<1>1. OwnCalls => TypeOK
  BY DEF OwnCalls
<1>. QED  BY <1>1, OwnInitially, OwnPreserved, PTL DEF Spec

-----------------------------------------------------------------------------
(* The refinement.  Whatever has happened before, a call that fetches words   *)
(* or has been told OK has seen the chip idle, but for a write that did not   *)
(* look.                                                                      *)

Seen ==
  /\ reserved => Unchecked
  /\ \A t \in Threads :
       /\ pc[t] = "fetch" => ~ ida.busy
       /\ pc[t] = "unlock" /\ ret[t] = "OK" /\ ida.busy => Unchecked /\ call[t].op = "write"

Asked(t)  == [dir |-> call[t].op, addr |-> call[t].addr, size |-> Size(t)]
Filled(t) == /\ ida.wd = buf[t]
             /\ \A i \in 1 .. Len(buf[t]) : buf[t][i] = call[t].words[i]

\* While no command is left behind, the IDA registers are those of the call that
\* holds the mutex: it is filled in, it runs as it was filled in, and what is
\* left in the read data registers is what the call has not fetched.
Faithful(t) ==
  /\ pc[t] \in {"data", "setup", "issue"} => ~ ida.busy
  /\ pc[t] \in {"data", "setup", "issue"} /\ call[t].op = "write" => Filled(t)
  /\ pc[t] \in {"setup", "issue"} /\ call[t].op = "write" => Len(buf[t]) = Size(t)
  /\ pc[t] = "issue" => ida.reg = Asked(t)
  /\ ida.busy =>
       /\ pc[t] \in {"poll", "unlock"} /\ ret[t] # "PARAM"
       /\ cmd = Asked(t) /\ ida.reg = Asked(t)
       /\ call[t].op = "write" => Filled(t) /\ Len(buf[t]) = Size(t)
  /\ call[t].op = "read" /\ Performed(t) => Len(buf[t]) + Len(rd) = Size(t)

Simulating == ~ orphan => \A t \in Threads : Inside(t) => Faithful(t)

LEMMA SeenInitially == Init => Seen
BY DEF Init, Seen

LEMMA SeenPreserved == OwnCalls /\ IInv /\ Seen /\ [Next]_vars => Seen'
<1>. SUFFICES ASSUME OwnCalls, IInv, Seen, [Next]_vars PROVE Seen'
  OBVIOUS
<1>0. TypeOK /\ Control /\ MutualExclusion
  BY DEF OwnCalls, IInv
<1>1. ASSUME NEW t \in Threads, \/ \E request \in Requests : Invoke(t, request)
                                \/ Acquire(t) \/ PutWord(t) \/ SetUp(t) \/ Release(t)
      PROVE  Seen'
  <2>1. /\ reserved' = reserved /\ ida'.busy = ida.busy /\ Alone(t)
        /\ pc'[t] \notin {"fetch", "unlock"} \/ (pc'[t] = "unlock" /\ ret'[t] = "PARAM")
    <3>1. CASE (\E request \in Requests : Invoke(t, request)) \/ Acquire(t)
      BY <1>0, <3>1, StepsAreAlone DEF TypeOK, Invoke, Acquire, Goes, chip
    <3>2. CASE PutWord(t) \/ SetUp(t)
      BY <1>0, <3>2, StepsAreAlone DEF TypeOK, Step, PutWord, SetUp, Goes
    <3>3. CASE Release(t)
      BY <1>0, <3>3, StepsAreAlone DEF TypeOK, Step, Release, Goes, chip
    <3>. QED  BY <1>1, <3>1, <3>2, <3>3
  <2>. QED  BY <2>1 DEF Seen, Alone
<1>2. ASSUME NEW t \in Threads, Issue(t) \/ Poll(t) \/ GetWord(t) PROVE Seen'
  <2>1. lock = t /\ reserved' = reserved /\ Alone(t) /\ Inside(t)
    BY <1>0, <1>2, StepsAreAlone DEF MutualExclusion, Inside, Issue, Poll, GetWord, Step
  <2>2. \A u \in Threads \ {t} : pc[u] \notin {"fetch", "unlock"}
    BY <1>0, <2>1 DEF MutualExclusion, Inside
  <2>3. CASE Issue(t)
    <3>1. \/ pc'[t] = "poll"
          \/ pc'[t] = "unlock" /\ call[t].op = "write" /\ reserved /\ call' = call
      BY <1>0, <2>3 DEF TypeOK, Issue, Goes
    <3>. QED  BY <2>1, <2>2, <3>1 DEF Seen, Alone
  <2>4. CASE Poll(t)
    <3>1. /\ ida' = ida
          /\ \/ pc'[t] = "poll" \/ (pc'[t] = "unlock" /\ ret'[t] = "TIMEOUT")
             \/ pc'[t] \in {"fetch", "unlock"} /\ ~ ida.busy
      BY <1>0, <2>4 DEF TypeOK, Poll, Goes, chip
    <3>. QED  BY <2>1, <2>2, <3>1 DEF Seen, Alone
  <2>5. CASE GetWord(t)
    <3>1. ida' = ida /\ pc[t] = "fetch" /\ pc'[t] \in {"fetch", "unlock"}
      BY <1>0, <2>5 DEF TypeOK, GetWord, Goes
    <3>. QED  BY <2>1, <2>2, <3>1 DEF Seen, Alone
  <2>. QED  BY <1>2, <2>3, <2>4, <2>5
<1>3. CASE ChipRuns
  BY <1>0, <1>3 DEF Seen, ChipRuns, TypeOK
<1>4. CASE (\E b \in BOOLEAN : SetReserved(b)) \/ UNCHANGED vars
  BY <1>4 DEF Seen, SetReserved, vars, chip
<1>. QED  BY <1>1, <1>2, <1>3, <1>4 DEF Next

LEMMA SimulatingInitially == Init => Simulating
BY DEF Init, Simulating, Inside

\* A call keeps its hold of the chip through what leaves both alone.
LEMMA FaithfulKept ==
  ASSUME NEW u \in Threads, Faithful(u),
         ida' = ida, cmd' = cmd, rd' = rd,
         pc'[u] = pc[u], call'[u] = call[u], buf'[u] = buf[u], ret'[u] = ret[u]
  PROVE  Faithful(u)'
BY DEF Faithful, Filled, Asked, Size, Performed

LEMMA SimulatingPreserved == OwnCalls /\ IInv /\ Seen /\ Simulating /\ [Next]_vars => Simulating'
<1>. SUFFICES ASSUME OwnCalls, IInv, Seen, Simulating, [Next]_vars,
                     ~ orphan', NEW u \in Threads, Inside(u)'
              PROVE  Faithful(u)'
  BY DEF Simulating
<1>0. TypeOK /\ Control /\ MutualExclusion /\ MutualExclusion' /\ CommandKnown /\ BufferClean
  BY IInvPreserved DEF OwnCalls, IInv
<1>1. ASSUME NEW t \in Threads, NEW request \in Requests, Invoke(t, request) PROVE Faithful(u)'
  <2>1. Alone(t) /\ UNCHANGED <<chip, orphan>> /\ ~ Inside(t)'
    BY <1>0, <1>1, StepsAreAlone DEF TypeOK, Invoke, Goes, Inside
  <2>2. u # t /\ Inside(u)
    BY <2>1 DEF Alone, Inside
  <2>. QED  BY <2>1, <2>2, FaithfulKept DEF Alone, Simulating, chip
<1>2. ASSUME NEW t \in Threads, Acquire(t) PROVE Faithful(u)'
  <2>1. lock = NoThread /\ lock' = t /\ orphan' = (orphan /\ ida.busy) /\ UNCHANGED chip
    BY <1>2 DEF Acquire
  <2>2. u = t
    BY <1>0, <2>1 DEF MutualExclusion
  <2>3. ~ ida.busy /\ ida.wd = <<>>
    BY <1>0, <2>1 DEF CommandKnown, BufferClean
  <2>4. buf'[t] = <<>> /\ call'[t] = call[t] /\ call[t].op \in {"read", "write"}
    BY <1>2, RequestKnown DEF OwnCalls, Own, Acquire
  <2>5. \/ pc'[t] = "unlock" /\ ret'[t] = "PARAM"
        \/ call[t].op = "write" /\ pc'[t] = "data"
        \/ call[t].op = "read" /\ pc'[t] = "setup"
    BY <1>0, <1>2, <2>4 DEF TypeOK, Acquire, Goes
  <2>. QED  BY <2>1, <2>2, <2>3, <2>4, <2>5 DEF Faithful, Filled, Performed, chip
<1>3. ASSUME NEW t \in Threads, Step(t) /\ ~ Release(t)
      PROVE  /\ Faithful(t) /\ lock = t /\ u = t /\ ~ orphan
             /\ call' = call /\ Size(t)' = Size(t) /\ Asked(t)' = Asked(t)
             /\ call[t] \in Requests /\ call[t].op \in {"read", "write"} /\ buf[t] \in Seq(Words)
  <2>1. /\ pc[t] \notin {"idle", "lock"} /\ lock' = lock /\ orphan' = orphan /\ call' = call
    BY <1>3 DEF Step, PutWord, SetUp, Issue, Poll, GetWord
  <2>2. lock = t /\ u = t
    BY <1>0, <2>1, ThreadsAssumption DEF MutualExclusion, Inside
  <2>3. Faithful(t)
    BY <2>1 DEF Simulating, Inside
  <2>. QED  BY <1>0, <2>1, <2>2, <2>3, RequestKnown DEF Asked, Size, TypeOK
<1>4. ASSUME NEW t \in Threads, PutWord(t) PROVE Faithful(u)'
  <2>. DEFINE word == call[t].words[Len(buf[t]) + 1]
  <2>1. /\ Faithful(t) /\ lock = t /\ u = t /\ call' = call /\ Size(t)' = Size(t)
        /\ buf[t] \in Seq(Words)
    BY <1>3, <1>4 DEF Step, PutWord, Release
  <2>2. /\ pc[t] = "data" /\ call[t].op = "write" /\ Len(buf[t]) < Size(t)
        /\ Size(t) \in 1 .. BurstMax
    BY <1>4 DEF OwnCalls, Own, Working, PutWord
  <2>3. ~ ida.busy /\ Filled(t)
    BY <2>1, <2>2 DEF Faithful
  <2>4. /\ buf'[t] = Append(buf[t], word)
        /\ pc'[t] = IF Len(buf'[t]) = Size(t) THEN "setup" ELSE "data"
        /\ ida' = [ida EXCEPT !.wd = IF Len(@) < BurstMax THEN Append(@, word) ELSE @]
        /\ ida = [wd |-> ida.wd, reg |-> ida.reg, busy |-> ida.busy]
    BY <1>0, <1>4 DEF TypeOK, PutWord, Goes, Control
  <2>5. Len(ida.wd) < BurstMax
    BY <2>1, <2>2, <2>3, SizeAssumption DEF Filled
  <2>6. ida'.busy = FALSE /\ ida'.wd = buf'[t]
    BY <2>3, <2>4, <2>5 DEF Filled
  <2>7. word \in Words /\ Len(buf[t]) \in Nat
    BY <2>1, <2>2, RequestKnown
  <2>8. \A i \in 1 .. Len(buf'[t]) : buf'[t][i] = call[t].words[i]
    BY <2>1, <2>3, <2>4, <2>7 DEF Filled
  <2>9. Filled(t)'
    BY <2>1, <2>6, <2>8 DEF Filled
  <2>. QED  BY <2>1, <2>2, <2>4, <2>6, <2>9 DEF Faithful, Performed
<1>5. ASSUME NEW t \in Threads, SetUp(t) PROVE Faithful(u)'
  <2>1. /\ Faithful(t) /\ u = t /\ call' = call /\ Size(t)' = Size(t) /\ Asked(t)' = Asked(t)
    BY <1>3, <1>5 DEF Step, SetUp, Release
  <2>2. /\ pc[t] = "setup" /\ pc'[t] = "issue" /\ buf' = buf
        /\ ida'.reg = Asked(t) /\ ida'.wd = ida.wd /\ ida'.busy = ida.busy
    BY <1>0, <1>5 DEF TypeOK, SetUp, Goes, Asked, Control
  <2>. QED  BY <2>1, <2>2 DEF Faithful, Filled, Performed
<1>6. ASSUME NEW t \in Threads, Issue(t) PROVE Faithful(u)'
  <2>1. /\ Faithful(t) /\ u = t /\ call' = call /\ Size(t)' = Size(t) /\ Asked(t)' = Asked(t)
    BY <1>3, <1>6 DEF Step, Issue, Release
  <2>2. /\ pc[t] = "issue" /\ pc'[t] \in {"poll", "unlock"} /\ buf' = buf /\ ret' = ret
        /\ ret[t] = "OK"
        /\ ida'.reg = ida.reg /\ ida'.wd = ida.wd /\ ida'.busy = TRUE
        /\ ~ ida.busy => cmd' = ida.reg
    BY <1>0, <1>6 DEF TypeOK, Issue, Goes, OwnCalls, Own, Working, Control
  <2>. QED  BY <2>1, <2>2 DEF Faithful, Filled, Performed
<1>7. ASSUME NEW t \in Threads, Poll(t) PROVE Faithful(u)'
  <2>1. /\ Faithful(t) /\ u = t /\ call' = call /\ Size(t)' = Size(t) /\ Asked(t)' = Asked(t)
        /\ call[t].op \in {"read", "write"}
    BY <1>3, <1>7 DEF Step, Poll, Release
  <2>2. /\ pc[t] = "poll" /\ pc'[t] \in {"poll", "fetch", "unlock"} /\ buf' = buf
        /\ ret[t] = "OK" /\ ret'[t] # "PARAM" /\ UNCHANGED chip
        /\ ida.busy => pc'[t] # "fetch"
    BY <1>0, <1>7 DEF TypeOK, Poll, Goes, OwnCalls, Own, Working
  <2>. QED  BY <2>1, <2>2 DEF Faithful, Filled, Performed, chip
<1>8. ASSUME NEW t \in Threads, GetWord(t) PROVE Faithful(u)'
  <2>1. /\ Faithful(t) /\ u = t /\ call' = call /\ Size(t)' = Size(t) /\ buf[t] \in Seq(Words)
    BY <1>3, <1>8 DEF Step, GetWord, Release
  <2>2. /\ pc[t] = "fetch" /\ pc'[t] \in {"fetch", "unlock"} /\ call[t].op = "read"
        /\ Len(buf[t]) < Size(t) /\ Size(t) \in 1 .. BurstMax /\ ret' = ret /\ ret[t] = "OK"
        /\ ida' = ida /\ ~ ida.busy /\ rd \in Seq(Words)
    BY <1>0, <1>8 DEF TypeOK, GetWord, Goes, OwnCalls, Own, Working, Seen
  <2>3. Len(buf[t]) + Len(rd) = Size(t)
    BY <2>1, <2>2 DEF Faithful, Performed
  <2>4. Len(rd) \in Nat /\ Len(buf[t]) \in Nat /\ rd # <<>>
    BY <2>1, <2>2, <2>3
  <2>5. buf'[t] = Append(buf[t], Head(rd)) /\ rd' = Tail(rd) /\ Head(rd) \in Words
    BY <1>0, <1>8, <2>2, <2>4 DEF TypeOK, GetWord
  <2>6. Len(buf'[t]) = Len(buf[t]) + 1 /\ Len(rd') = Len(rd) - 1
    BY <2>1, <2>2, <2>4, <2>5
  <2>7. Len(buf'[t]) + Len(rd') = Size(t)
    BY <2>3, <2>4, <2>6
  <2>. QED  BY <2>1, <2>2, <2>7 DEF Faithful, Performed
<1>9. ASSUME NEW t \in Threads, Release(t) PROVE Faithful(u)'
  <2>1. lock' = NoThread
    BY <1>9 DEF Release
  <2>. QED  BY <1>0, <2>1, ThreadsAssumption DEF MutualExclusion
<1>10. CASE ChipRuns
  <2>1. /\ UNCHANGED <<pc, call, buf, ret, orphan>> /\ ida.busy
        /\ ida'.busy = FALSE
    BY <1>0, <1>10 DEF ChipRuns, TypeOK, Control
  <2>2. Faithful(u)
    BY <2>1 DEF Simulating, Inside
  <2>3. /\ pc[u] \in {"poll", "unlock"} /\ ret[u] # "PARAM"
        /\ cmd = Asked(u) /\ ida.reg = Asked(u) /\ Asked(u).dir = call[u].op
        /\ Asked(u).size = Size(u)
    BY <2>1, <2>2 DEF Faithful, Asked
  <2>4. ASSUME call[u].op = "read" PROVE Len(buf[u]) + Len(rd') = Size(u)
    <3>1. buf[u] = <<>> /\ Size(u) \in Nat
      <4>1. pc[u] \in {"poll", "unlock"} /\ ret[u] \in {"OK", "TIMEOUT"}
        BY <1>0, <2>3 DEF TypeOK, Rets
      <4>2. pc[u] = "unlock" => ret[u] # "OK"
        BY <2>1, <2>4 DEF Seen
      <4>. QED  BY <2>4, <4>1, <4>2, RequestKnown, SizeAssumption DEF OwnCalls, Own, Working
    <3>2. rd' \in Seq(Words) /\ DOMAIN rd' = 1 .. Size(u)
      BY <1>10, <2>3, <2>4, OwnPreserved DEF ChipRuns, OwnCalls, TypeOK
    <3>3. Len(rd') = Size(u)
      BY <3>1, <3>2
    <3>. QED  BY <3>1, <3>3
  <2>. QED  BY <2>1, <2>3, <2>4 DEF Faithful, Performed, Size
<1>11. CASE (\E b \in BOOLEAN : SetReserved(b)) \/ UNCHANGED vars
  <2>1. UNCHANGED <<chip, pc, call, buf, ret, orphan>>
    BY <1>11 DEF SetReserved, vars, chip
  <2>2. Faithful(u)
    BY <2>1 DEF Simulating, Inside
  <2>. QED  BY <2>1, <2>2, FaithfulKept DEF chip
<1>. QED  BY <1>1, <1>2, <1>4, <1>5, <1>6, <1>7, <1>8, <1>9, <1>10, <1>11 DEF Next

-----------------------------------------------------------------------------
(* The simulation, action by action.                                        *)

\* No call's size wraps to one that the chip takes, and the registers that a call
\* reads exist.
WellAsked ==
  \A r \in Requests :
    /\ r.n % SizeMod \in 1 .. BurstMax => r.n \in 1 .. BurstMax
    /\ r.op = "read" /\ r.n \in 1 .. BurstMax => r.addr .. r.addr + r.n - 1 \subseteq Addrs

Reqs == [t \in Threads |-> Request(t)]

LEMMA SizeIsAsked ==
  ASSUME WellAsked, OwnCalls, NEW t \in Threads, pc[t] # "idle"
  PROVE  /\ Registers!Accepted(call[t].n) <=> Size(t) \in 1 .. BurstMax
         /\ Size(t) \in 1 .. BurstMax => Size(t) = call[t].n
<1>1. call[t] \in Requests /\ call[t].n \in Nat
  BY RequestKnown
<1>2. SizeMod \in Nat /\ BurstMax \in Nat /\ BurstMax < SizeMod
  BY SizeAssumption
<1>3. call[t].n < SizeMod => Size(t) = call[t].n
  BY <1>1, SizeFits DEF Size
<1>4. Size(t) \in 1 .. BurstMax => call[t].n \in 1 .. BurstMax
  BY <1>1 DEF WellAsked, Size
<1>. QED  BY <1>1, <1>2, <1>3, <1>4 DEF Registers!Accepted

\* A thread whose call is not touched, or that is not at the registers, is where it was.
LEMMA RequestKept ==
  ASSUME NEW u \in Threads, ida' = ida, rd' = rd,
         pc'[u] = pc[u], call'[u] = call[u], buf'[u] = buf[u], ret'[u] = ret[u]
  PROVE  Request(u)' = Request(u)
BY DEF Request, Performed

LEMMA RequestOutside ==
  ASSUME NEW u \in Threads, ~ Inside(u), pc'[u] = pc[u], call'[u] = call[u]
  PROVE  Request(u)' = Request(u)
BY DEF Request, Performed, Inside

LEMMA StepOfOne ==
  ASSUME NEW t \in Threads, \A u \in Threads \ {t} : Request(u)' = Request(u)
  PROVE  /\ Reqs' = [Reqs EXCEPT ![t] = Request(t)']
         /\ Request(t)' = Request(t) => Reqs' = Reqs
         /\ \A u \in Threads : u # t => Reqs'[u] = Reqs[u]
         /\ Reqs[t] = Request(t) /\ Reqs'[t] = Request(t)'
BY DEF Reqs

LEMMA InitRefines == Init => Registers!Init
<1>. SUFFICES ASSUME Init PROVE Registers!Init
  OBVIOUS
<1>1. \A t \in Threads : Request(t) = Registers!Free
  BY DEF Init, Request, Performed, NoRequest, Registers!Free, Registers!NoRequest
<1>. QED  BY <1>1 DEF Init, Registers!Init, NoReply, Registers!NoReply

LEMMA StepRefines ==
  ASSUME WellAsked, OwnCalls, IInv, Seen, Simulating, [Next]_vars
  PROVE  [Registers!Next]_(Registers!vars)
<1>0. /\ TypeOK /\ Control /\ MutualExclusion /\ CommandKnown
      /\ MutualExclusion' /\ TypeOK'
  BY IInvPreserved, OwnPreserved DEF OwnCalls, IInv
<1>1. SUFFICES \/ \E t \in Threads, c \in Requests : Registers!Invoke(t, c)
               \/ \E t \in Threads : Registers!Perform(t)
               \/ \E t \in Threads, r \in {"OK", "PARAM", "TIMEOUT"} : Registers!Answer(t, r)
               \/ Registers!Disturbed \/ Registers!Recovered
               \/ UNCHANGED <<mem, Reqs, reply, orphan>>
  BY DEF Registers!Next, Registers!vars, Reqs
<1>2. ASSUME NEW t \in Threads, NEW c \in Requests, Invoke(t, c) PROVE Registers!Invoke(t, c)
  <2>1. Alone(t) /\ UNCHANGED <<chip, reply, orphan>> /\ pc[t] = "idle" /\ pc'[t] = "lock"
        /\ call'[t] = c
    BY <1>0, <1>2, StepsAreAlone DEF Invoke, Goes, TypeOK
  <2>2. \A u \in Threads \ {t} : Request(u)' = Request(u)
    BY <2>1, RequestKept DEF Alone, chip
  <2>3. /\ Request(t).phase = "none"
        /\ Request(t)' = [phase |-> "open", call |-> c, got |-> <<>>]
    BY <2>1 DEF Request, Performed
  <2>. QED  BY <2>1, <2>2, <2>3, StepOfOne DEF Registers!Invoke, Reqs, chip
<1>3. ASSUME NEW t \in Threads, Step(t) \/ Acquire(t)
      PROVE  \A u \in Threads \ {t} : Request(u)' = Request(u) /\ ~ Inside(u)
  <2>1. Alone(t)
    BY <1>3, StepsAreAlone
  <2>2. lock \in {t, NoThread}
    BY <1>0, <1>3 DEF MutualExclusion, Inside, Acquire, Step, PutWord, SetUp, Issue, Poll, GetWord, Release
  <2>3. \A u \in Threads \ {t} : ~ Inside(u)
    BY <1>0, <2>2, ThreadsAssumption DEF MutualExclusion
  <2>. QED  BY <2>1, <2>3, RequestOutside DEF Alone
<1>4. ASSUME NEW t \in Threads, Acquire(t)
      PROVE  Registers!Recovered \/ UNCHANGED <<mem, Reqs, reply, orphan>>
  <2>1. /\ UNCHANGED <<chip, reply, call>> /\ orphan' = (orphan /\ ida.busy)
        /\ pc[t] = "lock" /\ pc'[t] \in {"data", "setup", "unlock"}
        /\ pc'[t] = "unlock" => ret'[t] = "PARAM"
    BY <1>0, <1>4 DEF Acquire, Goes, TypeOK
  <2>2. Request(t)' = Request(t)
    BY <2>1 DEF Request, Performed
  <2>3. Reqs' = Reqs
    BY <1>3, <1>4, <2>2, StepOfOne
  <2>4. orphan \in BOOLEAN
    BY <1>0 DEF TypeOK
  <2>. QED  BY <2>1, <2>3, <2>4 DEF Registers!Recovered, Reqs, chip
<1>5. ASSUME NEW t \in Threads, PutWord(t) \/ SetUp(t)
      PROVE  UNCHANGED <<mem, Reqs, reply, orphan>>
  <2>1. /\ UNCHANGED <<mem, reply, call, orphan>>
        /\ pc[t] \in {"data", "setup"} /\ pc'[t] \in {"data", "setup", "issue"}
    BY <1>0, <1>5 DEF PutWord, SetUp, Goes, TypeOK
  <2>2. Request(t)' = Request(t)
    BY <2>1 DEF Request, Performed
  <2>. QED  BY <1>3, <1>5, <2>1, <2>2, StepOfOne DEF Step
<1>6. ASSUME NEW t \in Threads, Issue(t) PROVE UNCHANGED <<mem, Reqs, reply, orphan>>
  <2>1. /\ UNCHANGED <<mem, reply, call, orphan>> /\ ida'.busy
        /\ pc[t] = "issue" /\ pc'[t] \in {"poll", "unlock"}
    BY <1>0, <1>6 DEF Issue, Goes, TypeOK
  <2>2. Request(t)' = Request(t)
    BY <2>1 DEF Request, Performed
  <2>. QED  BY <1>3, <1>6, <2>1, <2>2, StepOfOne DEF Step
<1>7. ASSUME NEW t \in Threads, Poll(t) PROVE UNCHANGED <<mem, Reqs, reply, orphan>>
  <2>1. /\ UNCHANGED <<chip, reply, call, buf, orphan>>
        /\ pc[t] = "poll" /\ pc'[t] \in {"poll", "fetch", "unlock"} /\ ret'[t] # "PARAM"
    BY <1>0, <1>7 DEF Poll, Goes, TypeOK, OwnCalls, Own, Working
  <2>2. Request(t)' = Request(t)
    BY <2>1 DEF Request, Performed, chip
  <2>. QED  BY <1>3, <1>7, <2>1, <2>2, StepOfOne DEF Step, chip
<1>8. ASSUME NEW t \in Threads, GetWord(t)
      PROVE  Registers!Disturbed \/ UNCHANGED <<mem, Reqs, reply, orphan>>
  <2>1. /\ UNCHANGED <<mem, ida, reply, call, ret, orphan>> /\ ret[t] = "OK" /\ call[t].op = "read"
        /\ pc[t] = "fetch" /\ pc'[t] \in {"fetch", "unlock"} /\ ~ ida.busy
    BY <1>0, <1>8 DEF GetWord, Goes, TypeOK, OwnCalls, Own, Working, Seen
  <2>2. /\ Request(t)  = [phase |-> "done", call |-> call[t], got |-> buf[t] \o rd]
        /\ Request(t)' = [phase |-> "done", call |-> call[t], got |-> buf'[t] \o rd']
    BY <2>1 DEF Request, Performed
  <2>3. CASE orphan
    BY <1>3, <1>8, <2>1, <2>2, <2>3, StepOfOne DEF Step, Registers!Disturbed, Reqs
  <2>4. CASE ~ orphan
    <3>1. Len(buf[t]) + Len(rd) = Size(t) /\ Len(buf[t]) < Size(t) /\ Size(t) \in 1 .. BurstMax
      BY <2>1, <2>4 DEF OwnCalls, Own, Working, Simulating, Inside, Faithful, Performed
    <3>2. buf[t] \in Seq(Words) /\ rd \in Seq(Words)
      BY <1>0 DEF TypeOK
    <3>3. rd # <<>>
      BY <3>1, <3>2
    <3>4. buf'[t] = Append(buf[t], Head(rd)) /\ rd' = Tail(rd)
      BY <1>0, <1>8, <3>3 DEF GetWord, TypeOK
    <3>5. buf'[t] \o rd' = buf[t] \o rd
      BY <3>2, <3>3, <3>4
    <3>6. Request(t)' = Request(t)
      BY <2>2, <3>5
    <3>. QED  BY <1>3, <1>8, <2>1, <3>6, StepOfOne DEF Step
  <2>. QED  BY <2>3, <2>4
<1>9. ASSUME NEW t \in Threads, Release(t)
      PROVE  \/ \E r \in {"OK", "PARAM", "TIMEOUT"} : Registers!Answer(t, r)
             \/ Registers!Disturbed
  <2>. DEFINE got == IF call[t].op = "read" THEN buf[t] ELSE <<>>
  <2>1. /\ pc[t] = "unlock" /\ pc'[t] = "idle" /\ call'[t] = NoRequest /\ UNCHANGED <<mem, ida>>
        /\ reply' = [reply EXCEPT ![t] = [ret |-> ret[t], got |-> got]]
        /\ orphan' = (orphan \/ ida.busy) /\ ret[t] \in {"OK", "PARAM", "TIMEOUT"}
        /\ orphan \in BOOLEAN /\ ida.busy \in BOOLEAN
    BY <1>0, <1>9 DEF Release, Goes, TypeOK, chip, Rets
  <2>2. /\ Request(t)' = Registers!Free /\ Request(t).phase # "none"
        /\ Request(t).call = call[t]
        /\ Request(t).phase = IF Performed(t) THEN "done" ELSE "open"
        /\ Request(t).got = IF Performed(t) /\ call[t].op = "read" THEN buf[t] \o rd ELSE <<>>
        /\ Performed(t) <=> ~ ida.busy /\ ret[t] # "PARAM"
    BY <2>1 DEF Request, Performed, Registers!Free, NoRequest, Registers!NoRequest
  <2>3. /\ Reqs' = [Reqs EXCEPT ![t] = Registers!Free] /\ Reqs[t] = Request(t)
        /\ \A u \in Threads : u # t => Reqs'[u] = Reqs[u] /\ reply'[u] = reply[u]
        /\ Reqs'[t] = Registers!Free
    BY <1>3, <1>9, <2>1, <2>2, StepOfOne DEF Step
  <2>4. CASE orphan
    BY <2>1, <2>2, <2>3, <2>4 DEF Registers!Disturbed, Reqs
  <2>5. CASE ~ orphan
    <3>1. Faithful(t)
      BY <2>1, <2>5 DEF Simulating, Inside
    <3>2. ret[t] # "OK" => got = <<>>
      BY <2>1 DEF OwnCalls, Own
    <3>3. CASE ret[t] = "PARAM"
      <4>1. ~ ida.busy /\ ~ Registers!Accepted(call[t].n)
        BY <2>1, <3>1, <3>3, SizeIsAsked DEF Faithful, OwnCalls, Own
      <4>. QED  BY <2>1, <2>2, <2>3, <2>5, <3>2, <3>3, <4>1 DEF Registers!Answer, Reqs
    <3>4. CASE ret[t] = "TIMEOUT"
      BY <2>1, <2>2, <2>3, <2>5, <3>2, <3>4 DEF Registers!Answer, Reqs
    <3>5. CASE ret[t] = "OK" /\ ida.busy
      <4>1. Unchecked /\ call[t].op = "write"
        BY <2>1, <3>5 DEF Seen
      <4>. QED  BY <2>1, <2>2, <2>3, <2>5, <3>5, <4>1 DEF Registers!Answer, Reqs
    <3>6. CASE ret[t] = "OK" /\ ~ ida.busy
      <4>1. Request(t).got = got
        <5>1. CASE call[t].op = "read"
          <6>1. /\ Len(buf[t]) = Size(t) /\ Len(buf[t]) + Len(rd) = Size(t)
                /\ Size(t) \in 1 .. BurstMax
            BY <2>1, <2>2, <3>1, <3>6, <5>1 DEF OwnCalls, Own, Faithful
          <6>2. buf[t] \in Seq(Words) /\ rd \in Seq(Words)
            BY <1>0 DEF TypeOK
          <6>3. rd = <<>>
            BY <6>1, <6>2
          <6>4. buf[t] \o rd = buf[t]
            BY <6>2, <6>3
          <6>. QED  BY <2>2, <3>6, <5>1, <6>4
        <5>2. CASE call[t].op # "read"
          BY <2>2, <5>2
        <5>. QED  BY <5>1, <5>2
      <4>. QED  BY <2>1, <2>2, <2>3, <2>5, <3>6, <4>1 DEF Registers!Answer, Reqs
    <3>. QED  BY <2>1, <3>3, <3>4, <3>5, <3>6
  <2>. QED  BY <2>1, <2>4, <2>5
<1>10. ASSUME ChipRuns
       PROVE  (\E t \in Threads : Registers!Perform(t)) \/ Registers!Disturbed
  <2>1. /\ ida.busy /\ ida'.busy = FALSE /\ UNCHANGED <<pc, call, buf, ret, reply, orphan>>
    BY <1>0, <1>10 DEF ChipRuns, TypeOK
  <2>2. CASE orphan
    <3>1. ASSUME NEW u \in Threads
          PROVE  \/ /\ Reqs[u].phase # "none" /\ Reqs'[u].phase # "none"
                    /\ Reqs'[u].call = Reqs[u].call /\ reply'[u] = reply[u]
                 \/ Reqs'[u] = Reqs[u] /\ reply'[u] = reply[u]
      <4>1. CASE pc[u] = "idle"
        BY <2>1, <4>1, RequestOutside DEF Inside, Reqs
      <4>2. CASE pc[u] # "idle"
        BY <2>1, <4>2 DEF Reqs, Request
      <4>. QED  BY <4>1, <4>2
    <3>. QED  BY <2>1, <2>2, <3>1 DEF Registers!Disturbed, Reqs
  <2>3. CASE ~ orphan
    <3>1. PICK t \in Threads : lock = t /\ pc[t] \in {"poll", "unlock"}
      BY <1>0, <2>1, <2>3, ThreadsAssumption DEF CommandKnown, TypeOK
    <3>2. \A u \in Threads \ {t} : Request(u)' = Request(u)
      BY <1>0, <2>1, <3>1, RequestOutside DEF MutualExclusion
    <3>3. /\ cmd = Asked(t) /\ ida.reg = Asked(t) /\ ret[t] # "PARAM"
          /\ call[t].op = "write" => Filled(t) /\ Len(buf[t]) = Size(t)
      BY <2>1, <2>3, <3>1 DEF Simulating, Inside, Faithful
    <3>4. /\ call[t] \in Requests /\ call[t].op \in {"read", "write"} /\ call[t].addr \in Addrs
          /\ call[t].n \in Nat
      BY <3>1, RequestKnown
    <3>5. Size(t) \in 1 .. BurstMax
      <4>1. pc[t] = "poll" \/ (pc[t] = "unlock" /\ ret[t] \in {"OK", "TIMEOUT"})
        BY <1>0, <3>1, <3>3 DEF TypeOK, Rets
      <4>. QED  BY <4>1 DEF OwnCalls, Own, Working
    <3>6. Size(t) = call[t].n /\ Registers!Accepted(call[t].n)
      BY <3>1, <3>5, SizeIsAsked
    <3>7. /\ Request(t) = [phase |-> "open", call |-> call[t], got |-> <<>>]
          /\ Request(t)' = [phase |-> "done", call |-> call[t],
                            got |-> IF call[t].op = "read" THEN buf[t] \o rd' ELSE <<>>]
      BY <2>1, <3>1, <3>3 DEF Request, Performed
    <3>8. CASE call[t].op = "write"
      <4>1. mem' = [a \in Addrs |-> IF Covers(Asked(t), a) /\ a - Asked(t).addr + 1 <= Len(ida.wd)
                                    THEN ida.wd[a - Asked(t).addr + 1] ELSE mem[a]]
        BY <1>10, <3>3, <3>8 DEF ChipRuns, Asked
      <4>2. mem' = Registers!Stored(mem, call[t])
        <5>1. \A a \in Addrs : a \in Int
          BY RegistersAssumption
        <5>2. /\ Len(ida.wd) = call[t].n
              /\ \A i \in 1 .. call[t].n : ida.wd[i] = call[t].words[i]
          BY <3>3, <3>6, <3>8 DEF Filled
        <5>. QED  BY <3>4, <3>6, <4>1, <5>1, <5>2 DEF Registers!Stored, Covers, Asked
      <4>3. Reqs' = [Reqs EXCEPT ![t].phase = "done"]
        BY <3>2, <3>7, <3>8, StepOfOne
      <4>4. Registers!Perform(t)
        BY <2>1, <3>6, <3>7, <3>8, <4>2, <4>3 DEF Registers!Perform, Reqs
      <4>. QED  BY <4>4
    <3>9. CASE call[t].op = "read"
      <4>1. /\ rd' = [i \in 1 .. Size(t) |-> IF call[t].addr + i - 1 \in Addrs
                                             THEN mem[call[t].addr + i - 1]
                                             ELSE CHOOSE w \in Words : TRUE]
            /\ mem' = mem
        BY <1>10, <3>3, <3>9 DEF ChipRuns, Asked
      <4>2. \A i \in 1 .. Size(t) : call[t].addr + i - 1 \in Addrs
        <5>1. call[t].addr .. call[t].addr + call[t].n - 1 \subseteq Addrs
          BY <3>4, <3>5, <3>6, <3>9 DEF WellAsked
        <5>2. call[t].addr \in Int
          BY <3>4, RegistersAssumption
        <5>. QED  BY <3>4, <3>6, <5>1, <5>2
      <4>3. rd' = Registers!Loaded(mem, call[t])
        <5>1. rd' = [i \in 1 .. call[t].n |-> mem[call[t].addr + i - 1]]
          BY <3>6, <4>1, <4>2
        <5>. QED  BY <5>1 DEF Registers!Loaded
      <4>4. buf[t] = <<>>
        <5>1. pc[t] = "poll" \/ (pc[t] = "unlock" /\ ret[t] = "TIMEOUT")
          BY <1>0, <2>1, <3>1, <3>3, <3>9 DEF TypeOK, Rets, Seen
        <5>. QED  BY <3>9, <5>1 DEF OwnCalls, Own, Working
      <4>5. buf[t] \o rd' = rd'
        <5>1. rd' \in Seq(Words)
          BY <1>0 DEF TypeOK
        <5>. QED  BY <4>4, <5>1
      <4>6. Reqs' = [Reqs EXCEPT ![t] = [phase |-> "done", call |-> call[t],
                                         got |-> Registers!Loaded(mem, call[t])]]
        BY <3>2, <3>7, <3>9, <4>3, <4>5, StepOfOne
      <4>7. Registers!Perform(t)
        <5>1. Reqs[t].phase = "open" /\ Reqs[t].call = call[t]
          BY <3>7 DEF Reqs
        <5>2. UNCHANGED <<mem, reply, orphan>>
          BY <2>1, <4>1
        <5>3. Reqs' = [Reqs EXCEPT ![t] = [phase |-> "done", call |-> Reqs[t].call,
                                           got |-> Registers!Loaded(mem, Reqs[t].call)]]
          BY <4>6, <5>1
        <5>. QED  BY <3>6, <3>9, <5>1, <5>2, <5>3 DEF Registers!Perform, Reqs
      <4>. QED  BY <4>7
    <3>. QED  BY <3>4, <3>8, <3>9
  <2>. QED  BY <2>2, <2>3
<1>11. ASSUME (\E b \in BOOLEAN : SetReserved(b)) \/ UNCHANGED vars
       PROVE  UNCHANGED <<mem, Reqs, reply, orphan>>
  BY <1>11 DEF SetReserved, vars, chip, Reqs, Request, Performed
<1>. QED  BY <1>2, <1>4, <1>5, <1>6, <1>7, <1>8, <1>9, <1>10, <1>11 DEF Next

(* Whatever the threads ask and however slow the chip is, each call is one    *)
(* step on the registers it names between its invocation and its answer, but  *)
(* for what a command left behind can disturb.                                *)
THEOREM CallsAreAtomic == ASSUME WellAsked PROVE Spec => AtomicRegisters
<1>. DEFINE Inv == OwnCalls /\ IInv /\ Seen /\ Simulating
<1>1. Init => Inv
  BY OwnInitially, IInvInitially, SeenInitially, SimulatingInitially
<1>2. Inv /\ [Next]_vars => Inv'
  BY OwnPreserved, IInvPreserved, SeenPreserved, SimulatingPreserved
<1>3. Inv /\ [Next]_vars => [Registers!Next]_(Registers!vars)
  BY StepRefines
<1>. QED  BY <1>1, <1>2, <1>3, InitRefines, PTL DEF Spec, AtomicRegisters, Registers!Spec
=============================================================================
