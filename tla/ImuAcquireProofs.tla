-------------------------- MODULE ImuAcquireProofs --------------------------
(***************************************************************************)
(* Proofs about acquisition, for any number of readers and samples, any    *)
(* FIFO length and mode, and any depth of the kernel's buffers.            *)
(***************************************************************************)
EXTENDS ImuAcquire, SequenceTheorems, TLAPS

-----------------------------------------------------------------------------
(* The FIFO.  An offered sample is appended; at most one older sample      *)
(* makes room for it, or it is dropped itself.                             *)

LEMMA CapacityNatural == Capacity \in Nat /\ FifoMode \in {"DROP", "OVERWRITE"}
BY ConfigAssumption DEF Capacity

(* r is q followed by x, without the first of them when k is 1, or without *)
(* the last.                                                               *)
Follows(r, q, x, k) ==
  /\ Len(r) + k <= Len(q) + 1
  /\ \A i \in 1 .. Len(r) : r[i] = IF i + k <= Len(q) THEN q[i + k] ELSE x

LEMMA PutShape ==
  ASSUME NEW q \in Seq(Sample), Len(q) <= Capacity, NEW x \in Sample,
         NEW r, r = Queue!Put(q, Capacity, FifoMode, x)
  PROVE  /\ r \in Seq(Sample) /\ Len(r) <= Capacity
         /\ \E k \in {0, 1} : Follows(r, q, x, k)
<1> DEFINE a == Append(q, x)
<1>1. /\ a \in Seq(Sample) /\ a # <<>> /\ Len(a) = Len(q) + 1
      /\ \A i \in 1 .. Len(q) : a[i] = q[i]
      /\ a[Len(q) + 1] = x
      /\ Len(q) \in Nat
  BY AppendProperties, LenProperties
<1>2. /\ Tail(a) \in Seq(Sample) /\ Len(Tail(a)) = Len(a) - 1
      /\ \A i \in 1 .. Len(Tail(a)) : Tail(a)[i] = a[i + 1]
  BY <1>1, HeadTailProperties
<1>3. Capacity \in Nat
  BY CapacityNatural
<1> HIDE DEF a
<1>4. CASE ~(Len(q) >= Capacity)
  <2>1. r = a
    BY <1>4 DEF Queue!Put, Queue!IsFull, a
  <2>2. Follows(r, q, x, 0)
    BY <2>1, <1>1 DEF Follows
  <2>3. QED
    BY <2>1, <2>2, <1>1, <1>3, <1>4
<1>5. CASE Len(q) >= Capacity /\ FifoMode = "OVERWRITE"
  <2>1. r = Tail(a)
    BY <1>5 DEF Queue!Put, Queue!IsFull, a
  <2>2. Follows(r, q, x, 1)
    BY <2>1, <1>1, <1>2 DEF Follows
  <2>3. QED
    BY <2>1, <2>2, <1>1, <1>2, <1>3, <1>5
<1>6. CASE Len(q) >= Capacity /\ FifoMode = "DROP"
  <2>1. r = q
    BY <1>6 DEF Queue!Put, Queue!IsFull
  <2>2. Follows(r, q, x, 0)
    BY <2>1, <1>1 DEF Follows
  <2>3. QED
    BY <2>1, <2>2, <1>1, <1>3, <1>6
<1>7. QED
  BY <1>4, <1>5, <1>6, CapacityNatural

-----------------------------------------------------------------------------
(* Types. *)

LEMMA InitTypeOK == Init => TypeOK
<1>1. Capacity \in Nat /\ 0 \in Time
  BY CapacityNatural, ConfigAssumption DEF Time
<1>2. <<>> \in Seq(Sample) /\ Len(<<>>) = 0 /\ <<>> \in Seq(Time)
  BY EmptySeq
<1> SUFFICES ASSUME Init PROVE TypeOK
  OBVIOUS
<1>3. fifo \in Seq(Sample) /\ Len(fifo) <= Capacity /\ line \in [Device -> Seq(Time)]
  BY <1>1, <1>2 DEF Init
<1>4. pc \in [Irq -> IrqPC] /\ call \in [Controller -> CallPC] /\ mutex \in Owner
  BY DEF Init, Owner, CallPC, IrqPC
<1>5. QED
  BY <1>1, <1>3, <1>4 DEF Init, TypeOK

LEMMA IrqTypeOK ==
  ASSUME TypeOK, NEW t \in Irq, IrqStep(t)
  PROVE  TypeOK'
<1> USE DEF TypeOK, GoTo
<1>0. t[1] \in Device /\ LineOf(t[1]) \in Device /\ 0 \in Time
  BY ConfigAssumption DEF Irq, LineOf, Device, Time
<1>1. CASE IrqCheck(t)
  BY <1>0, <1>1 DEF IrqCheck, ctlVars, envVars, IrqPC
<1>2. CASE IrqWait(t)
  BY <1>2 DEF IrqWait, ctlVars, envVars, IrqPC
<1>3. CASE IrqReadEvent(t)
  <2> DEFINE l == LineOf(t[1])
  <2>1. line[l] # <<>> /\ line[l] \in Seq(Time)
    BY <1>0, <1>3 DEF IrqReadEvent
  <2>2. Head(line[l]) \in Time /\ Tail(line[l]) \in Seq(Time)
    BY <2>1, HeadTailProperties
  <2>3. event' \in [Irq -> Time] /\ line' \in [Device -> Seq(Time)]
    <3>1. event \in [Irq -> Time] /\ line \in [Device -> Seq(Time)]
      OBVIOUS
    <3>2. \/ UNCHANGED <<event, line>>
          \/ /\ event' = [event EXCEPT ![t] = Head(line[l])]
             /\ line' = [line EXCEPT ![l] = Tail(line[l])]
      BY <1>3 DEF IrqReadEvent
    <3> HIDE DEF l, TypeOK
    <3>3. QED
      BY <2>2, <3>1, <3>2
  <2>4. pc' \in [Irq -> IrqPC]
    BY <1>3 DEF IrqReadEvent, IrqPC
  <2>5. QED
    BY <1>3, <2>3, <2>4 DEF IrqReadEvent, ctlVars
<1>4. CASE IrqReadData(t)
  BY <1>0, <1>4 DEF IrqReadData, ctlVars, envVars, IrqPC
<1>5. CASE IrqLock(t)
  BY <1>5 DEF IrqLock, ctlVars, envVars, IrqPC, Owner
<1>6. CASE IrqPush(t)
  <2>1. [dev |-> t[1], ts |-> event[t], val |-> value[t]] \in Sample
    BY <1>0 DEF Sample
  <2>2. fifo' \in Seq(Sample) /\ Len(fifo') <= Capacity
    BY <1>6, <2>1, PutShape DEF IrqPush
  <2>3. QED
    BY <1>6, <2>2 DEF IrqPush, ctlVars, envVars, IrqPC, Owner
<1>7. QED
  BY <1>1, <1>2, <1>3, <1>4, <1>5, <1>6 DEF IrqStep

LEMMA SpawnTypes ==
  ASSUME TypeOK, NEW d \in Device, Spawn(d)
  PROVE  /\ pc' \in [Irq -> IrqPC]
         /\ handle' \in [Device -> Slot \union {NoSlot}]
<1>1. pc \in [Irq -> IrqPC] /\ handle \in [Device -> Slot \union {NoSlot}] /\ "check" \in IrqPC
  BY DEF TypeOK, IrqPC
<1>2. PICK s \in Slot : /\ pc' = [pc EXCEPT ![<<d, s>>] = "check"]
                        /\ handle' = [handle EXCEPT ![d] = s]
  BY DEF Spawn, GoTo
<1>3. QED
  BY <1>1, <1>2

LEMMA ControllerTypeOK ==
  ASSUME TypeOK, NEW c \in Controller, ControllerStep(c)
  PROVE  TypeOK'
<1> USE DEF TypeOK, GoTo, Resume, CallPC
<1>1. CASE EnableLock(c) \/ EnableCheck(c)
  BY <1>1 DEF EnableLock, EnableCheck, irqVars, envVars, Owner
<1>2. CASE EnablePrepare(c) \/ DisableStop(c)
  BY <1>2 DEF EnablePrepare, DisableStop, ClearRunning, irqVars, envVars
<1>3. CASE EnableCreateAccel(c) \/ EnableCreateGyro(c)
  <2>1. pc' \in [Irq -> IrqPC] /\ handle' \in [Device -> Slot \union {NoSlot}]
    BY <1>3, SpawnTypes DEF EnableCreateAccel, EnableCreateGyro, Device
  <2>2. running' \in [Device -> BOOLEAN] /\ call' \in [Controller -> CallPC]
    BY <1>3 DEF EnableCreateAccel, EnableCreateGyro, ClearRunning
  <2>3. QED
    BY <1>3, <2>1, <2>2 DEF EnableCreateAccel, EnableCreateGyro, envVars
<1>4. CASE EnableUndoJoin(c)
  BY <1>4 DEF EnableUndoJoin, Join, envVars, IrqPC
<1>5. CASE DisableJoinAccel(c) \/ DisableJoinGyro(c)
  BY <1>5 DEF DisableJoinAccel, DisableJoinGyro, DisableJoin, Join, envVars, IrqPC
<1>6. CASE EnableMark(c) \/ DisableUnmark(c) \/ DisableCheck(c)
  BY <1>6 DEF EnableMark, DisableUnmark, DisableCheck, irqVars, envVars
<1>7. QED
  BY <1>1, <1>2, <1>3, <1>4, <1>5, <1>6 DEF ControllerStep, Continue

LEMMA ReaderTypeOK ==
  ASSUME TypeOK, NEW r \in Reader, ReaderStep(r)
  PROVE  TypeOK'
<1> USE DEF TypeOK
<1>1. CASE ReaderLock(r)
  BY <1>1 DEF ReaderLock, ctlVars, irqVars, envVars, Owner
<1>2. CASE ReadIndep(r) /\ fifo # <<>>
  <2>1. Head(fifo) \in Sample /\ Tail(fifo) \in Seq(Sample) /\ Len(Tail(fifo)) = Len(fifo) - 1
    BY <1>2, HeadTailProperties
  <2>2. Len(Tail(fifo)) <= Capacity
    BY <2>1, CapacityNatural, LenProperties
  <2>3. fifo' \in Seq(Sample) /\ Len(fifo') <= Capacity
    BY <1>2, <2>1, <2>2 DEF ReadIndep
  <2>4. Head(fifo).dev \in Device /\ Head(fifo).ts \in Time
    BY <2>1 DEF Sample
  <2>5. QED
    BY <1>2, <2>3, <2>4 DEF ReadIndep, Unlock, ctlVars, irqVars, envVars, Owner
<1>3. CASE (ReadIndep(r) /\ fifo = <<>>) \/ FifoAvailable(r)
  BY <1>3 DEF ReadIndep, FifoAvailable, Unlock, ctlVars, irqVars, envVars, Owner
<1>4. QED
  BY <1>1, <1>2, <1>3 DEF ReaderStep

LEMMA SenseTypeOK ==
  ASSUME TypeOK, NEW d \in Device, Sense(d)
  PROVE  TypeOK'
<1>1. now' \in Time /\ LineOf(d) \in Device
  BY ConfigAssumption DEF Sense, TypeOK, Time, LineOf, Device
<1>2. Append(line[LineOf(d)], now') \in Seq(Time)
  BY <1>1, AppendProperties DEF TypeOK
<1>3. QED
  BY <1>1, <1>2 DEF Sense, TypeOK, ctlVars, irqVars

LEMMA StepTypeOK == TypeOK /\ [Next]_vars => TypeOK'
<1> SUFFICES ASSUME TypeOK, [Next]_vars PROVE TypeOK'
  OBVIOUS
<1>1. CASE UNCHANGED vars
  BY <1>1 DEF TypeOK, vars
<1>2. QED
  BY <1>1, IrqTypeOK, ControllerTypeOK, ReaderTypeOK, SenseTypeOK DEF Next

(* Every variable keeps its type, and the FIFO never holds more samples    *)
(* than its length allows, in any sequence of calls by any threads.        *)
THEOREM TypeCorrect == Spec => []TypeOK
BY InitTypeOK, StepTypeOK, PTL DEF Spec

(* A controller starts interrupt threads and reaps them; it does nothing   *)
(* else to them and touches neither samples nor events.                    *)
LEMMA ControllerThreads ==
  ASSUME TypeOK, NEW c \in Controller, ControllerStep(c)
  PROVE  /\ UNCHANGED <<event, value, now, data, line, fifo, delivered>>
         /\ \A t \in Irq : pc'[t] # pc[t] =>
              pc[t] \in {"none", "exited"} /\ pc'[t] \in {"none", "check"}
<1>1. UNCHANGED <<event, value, now, data, line, fifo, delivered>>
  BY DEF ControllerStep, Continue, EnableLock, EnableCheck, EnablePrepare,
     EnableCreateAccel, EnableCreateGyro, EnableUndoJoin, EnableMark, DisableCheck,
     DisableStop, DisableJoinAccel, DisableJoinGyro, DisableJoin, DisableUnmark,
     irqVars, envVars
<1>2. CASE EnableCreateAccel(c) \/ EnableCreateGyro(c)
  BY <1>1, <1>2 DEF EnableCreateAccel, EnableCreateGyro, Spawn, GoTo, TypeOK
<1>3. CASE EnableUndoJoin(c) \/ DisableJoinAccel(c) \/ DisableJoinGyro(c)
  BY <1>1, <1>3 DEF EnableUndoJoin, DisableJoinAccel, DisableJoinGyro, DisableJoin,
     Join, GoTo, TypeOK
<1>4. CASE pc' = pc
  BY <1>1, <1>4
<1>5. QED
  BY <1>2, <1>3, <1>4 DEF ControllerStep, Continue, EnableLock, EnableCheck,
     EnablePrepare, EnableMark, DisableCheck, DisableStop, DisableUnmark, irqVars

-----------------------------------------------------------------------------
(***************************************************************************)
(* The mutex.  Whoever is about to touch the FIFO owns it, and an owner is *)
(* one thread.                                                             *)
(***************************************************************************)
HoldsMutex ==
  \A p \in Controller \union Irq \union Reader : Critical(p) => mutex = p

LEMMA StepHoldsMutex ==
  ASSUME TypeOK, HoldsMutex, [Next]_vars
  PROVE  HoldsMutex'
<1> USE DEF HoldsMutex, Critical, TypeOK
<1>1. CASE UNCHANGED vars
  BY <1>1 DEF vars
<1>2. ASSUME NEW d \in Device, Sense(d) PROVE HoldsMutex'
  BY <1>2 DEF Sense, ctlVars, irqVars
<1>3. ASSUME NEW t \in Irq, IrqStep(t) PROVE HoldsMutex'
  <2>1. CASE IrqCheck(t) \/ IrqWait(t) \/ IrqReadEvent(t) \/ IrqReadData(t)
    BY <2>1 DEF IrqCheck, IrqWait, IrqReadEvent, IrqReadData, GoTo, ctlVars
  <2>2. CASE IrqLock(t) \/ IrqPush(t)
    BY <2>2, IdentityAssumption DEF IrqLock, IrqPush, GoTo, ctlVars
  <2>3. QED
    BY <1>3, <2>1, <2>2 DEF IrqStep
<1>4. ASSUME NEW c \in Controller, ControllerStep(c) PROVE HoldsMutex'
  <2>1. CASE EnableLock(c) \/ EnableCheck(c)
    BY <2>1, IdentityAssumption DEF EnableLock, EnableCheck, Resume, irqVars
  <2>2. CASE \/ EnablePrepare(c) \/ EnableMark(c) \/ DisableCheck(c)
             \/ DisableStop(c) \/ DisableUnmark(c)
    BY <2>2 DEF EnablePrepare, EnableMark, DisableCheck, DisableStop, DisableUnmark,
       Resume, irqVars
  <2>3. CASE EnableCreateAccel(c) \/ EnableCreateGyro(c)
    <3>1. /\ UNCHANGED <<mutex, reading>>
          /\ call' \in {[call EXCEPT ![c] = l] :
                        l \in {"create_gyro", "mark", "idle", "undo_join"}}
      BY <2>3 DEF EnableCreateAccel, EnableCreateGyro, Resume
    <3>2. \/ pc' = pc
          \/ \E u \in Irq : pc' = [pc EXCEPT ![u] = "check"]
      <4>1. ASSUME NEW d \in Device, Spawn(d)
            PROVE  \E u \in Irq : pc' = [pc EXCEPT ![u] = "check"]
        BY <4>1 DEF Spawn, GoTo, Irq
      <4>2. \/ pc' = pc
            \/ \E d \in Device : Spawn(d)
        BY <2>3 DEF EnableCreateAccel, EnableCreateGyro, Device
      <4>3. QED
        BY <4>1, <4>2
    <3>3. QED
      BY <3>1, <3>2
  <2>4. CASE EnableUndoJoin(c) \/ DisableJoinAccel(c) \/ DisableJoinGyro(c)
    BY <2>4 DEF EnableUndoJoin, DisableJoinAccel, DisableJoinGyro, DisableJoin,
       Join, GoTo, Resume
  <2>5. QED
    BY <1>4, <2>1, <2>2, <2>3, <2>4 DEF ControllerStep, Continue
<1>5. ASSUME NEW r \in Reader, ReaderStep(r) PROVE HoldsMutex'
  <2>1. UNCHANGED <<call, pc>>
    BY <1>5 DEF ReaderStep, ReaderLock, ReadIndep, FifoAvailable, Unlock, ctlVars, irqVars
  <2>2. CASE ReaderLock(r)
    BY <2>1, <2>2, IdentityAssumption DEF ReaderLock
  <2>3. CASE Unlock(r)
    BY <2>1, <2>3, IdentityAssumption DEF Unlock
  <2>4. QED
    BY <1>5, <2>2, <2>3 DEF ReaderStep, ReadIndep, FifoAvailable
<1>6. QED
  BY <1>1, <1>2, <1>3, <1>4, <1>5 DEF Next

(* Of all the threads that use the FIFO, interrupt threads and callers of  *)
(* the API alike, at most one is between lock and unlock.                  *)
THEOREM MutualExclusion == Spec => []MutexProtects
<1>1. Init => HoldsMutex
  BY DEF Init, HoldsMutex, Critical
<1>2. TypeOK /\ HoldsMutex /\ [Next]_vars => HoldsMutex'
  BY StepHoldsMutex
<1>3. HoldsMutex => MutexProtects
  BY DEF HoldsMutex, MutexProtects
<1>4. QED
  BY <1>1, <1>2, <1>3, TypeCorrect, PTL DEF Spec

-----------------------------------------------------------------------------
(***************************************************************************)
(* The age of the data.  A device writes its registers before it signals,  *)
(* so the registers are at least as new as any event not yet read, and as  *)
(* the event a thread holds when it reads them.                            *)
(***************************************************************************)
RegistersNotStale ==
  \A d \in Device :
    /\ data[d] <= now
    /\ \A i \in 1 .. Len(line[d]) : line[d][i] <= data[d]

CarriedNotStale ==
  \A t \in Irq :
    /\ Carrying(t) => event[t] <= data[t[1]]
    /\ pc[t] \in {"lock", "push"} => event[t] <= value[t]

QueuedNotStale == \A i \in 1 .. Len(fifo) : fifo[i].ts <= fifo[i].val

DataInv == RegistersNotStale /\ CarriedNotStale /\ QueuedNotStale

LEMMA SenseData ==
  ASSUME TypeOK, ~SharedLine, DataInv, NEW d \in Device, Sense(d)
  PROVE  DataInv'
<1>1. /\ now \in Nat /\ now' = now + 1 /\ LineOf(d) = d
      /\ data' = [data EXCEPT ![d] = now']
      /\ UNCHANGED <<pc, event, value, fifo>>
  BY DEF Sense, TypeOK, Time, LineOf, irqVars
<1>2. line[d] \in Seq(Time) /\ now' \in Time
  BY ConfigAssumption DEF TypeOK, Sense, Time
<1>3. /\ Len(Append(line[d], now')) = Len(line[d]) + 1
      /\ \A i \in 1 .. Len(line[d]) : Append(line[d], now')[i] = line[d][i]
      /\ Append(line[d], now')[Len(line[d]) + 1] = now'
      /\ Len(line[d]) \in Nat
  BY <1>2, AppendProperties, LenProperties
<1>4. \A i \in 1 .. Len(line'[d]) : line'[d][i] <= now'
  <2>1. \A i \in 1 .. Len(line[d]) : line[d][i] \in Time
    BY <1>2, ElementOfSeq
  <2>2. data[d] \in Time /\ data[d] <= now
    BY DEF DataInv, RegistersNotStale, TypeOK
  <2>3. \A i \in 1 .. Len(line[d]) : line[d][i] <= data[d]
    BY DEF DataInv, RegistersNotStale
  <2>4. \A i \in 1 .. Len(line[d]) : line[d][i] <= now'
    BY <2>1, <2>2, <2>3, <1>1 DEF Time
  <2>5. CASE line'[d] = line[d]
    BY <2>4, <2>5
  <2>6. CASE line'[d] = Append(line[d], now')
    <3> DEFINE a == Append(line[d], now')
    <3>1. \A i \in 1 .. Len(a) : i \in 1 .. Len(line[d]) \/ i = Len(line[d]) + 1
      BY <1>3
    <3>2. \A i \in 1 .. Len(a) : a[i] <= now'
      BY <2>4, <3>1, <1>1, <1>3
    <3> HIDE DEF a
    <3>3. QED
      BY <2>6, <3>2 DEF a
  <2>7. QED
    BY <2>5, <2>6, <1>1 DEF Sense, TypeOK
<1>5. \A e \in Device : e # d => line'[e] = line[e] /\ data'[e] = data[e]
  BY <1>1 DEF Sense, TypeOK
<1>6. data'[d] = now'
  BY <1>1 DEF TypeOK
<1>7. RegistersNotStale'
  BY <1>1, <1>4, <1>5, <1>6 DEF DataInv, RegistersNotStale, TypeOK, Time
<1>8. CarriedNotStale'
  <2>1. \A e \in Device : data[e] \in Int /\ data'[e] \in Int /\ data[e] <= data'[e]
    BY <1>1, <1>5, <1>6 DEF DataInv, RegistersNotStale, TypeOK, Time
  <2>2. \A t \in Irq : t[1] \in Device /\ event[t] \in Int
    BY DEF Irq, TypeOK, Time
  <2>3. QED
    BY <2>1, <2>2, <1>1 DEF DataInv, CarriedNotStale, Carrying
<1>9. QED
  BY <1>1, <1>7, <1>8 DEF DataInv, QueuedNotStale

LEMMA IrqData ==
  ASSUME TypeOK, ~SharedLine, DataInv, NEW t \in Irq, IrqStep(t)
  PROVE  DataInv'
<1>0. t[1] \in Device /\ LineOf(t[1]) = t[1]
  BY DEF Irq, LineOf
<1>1. CASE IrqCheck(t) \/ IrqWait(t) \/ IrqLock(t)
  BY <1>1 DEF IrqCheck, IrqWait, IrqLock, GoTo, envVars, ctlVars, TypeOK, Carrying,
     DataInv, RegistersNotStale, CarriedNotStale, QueuedNotStale
<1>2. CASE IrqReadEvent(t)
  <2> DEFINE l == line[t[1]]
  <2>1. l \in Seq(Time) /\ l # <<>>
    BY <1>0, <1>2 DEF IrqReadEvent, TypeOK
  <2>2. /\ Head(l) = l[1] /\ 1 \in 1 .. Len(l)
        /\ \A i \in 1 .. Len(Tail(l)) : Tail(l)[i] = l[i + 1] /\ i + 1 \in 1 .. Len(l)
    BY <2>1, HeadTailProperties, EmptySeq, LenProperties
  <2>3. RegistersNotStale'
    <3>1. \A i \in 1 .. Len(Tail(l)) : Tail(l)[i] <= data[t[1]]
      BY <1>0, <2>2 DEF DataInv, RegistersNotStale
    <3>2. \/ line' = line
          \/ /\ line'[t[1]] = Tail(l)
             /\ \A e \in Device : e # t[1] => line'[e] = line[e]
      BY <1>0, <1>2 DEF IrqReadEvent, TypeOK
    <3>3. now' = now /\ data' = data
      BY <1>2 DEF IrqReadEvent
    <3> HIDE DEF l
    <3>4. QED
      BY <3>1, <3>2, <3>3 DEF DataInv, RegistersNotStale
  <2>4. Head(l) <= data[t[1]]
    BY <1>0, <2>2 DEF DataInv, RegistersNotStale
  <2>5. CarriedNotStale'
    BY <1>0, <1>2, <2>4 DEF IrqReadEvent, GoTo, TypeOK, Carrying, DataInv, CarriedNotStale
  <2>6. QED
    BY <1>2, <2>3, <2>5 DEF IrqReadEvent, DataInv, QueuedNotStale
<1>3. CASE IrqReadData(t)
  BY <1>0, <1>3 DEF IrqReadData, GoTo, envVars, TypeOK, Carrying,
     DataInv, RegistersNotStale, CarriedNotStale, QueuedNotStale
<1>4. CASE IrqPush(t)
  <2> DEFINE x == [dev |-> t[1], ts |-> event[t], val |-> value[t]]
  <2>1. x \in Sample
    BY <1>0 DEF Sample, TypeOK
  <2>2. x.ts <= x.val
    BY <1>4 DEF IrqPush, DataInv, CarriedNotStale
  <2> HIDE DEF x
  <2>3. PICK k \in {0, 1} : Follows(fifo', fifo, x, k)
    <3>1. fifo' = Queue!Put(fifo, Capacity, FifoMode, x)
      BY <1>4 DEF IrqPush, x
    <3>2. QED
      BY <3>1, <2>1, PutShape DEF TypeOK
  <2>4. \A i \in 1 .. Len(fifo') : i + k \in Nat \ {0}
    BY <1>4, IrqTypeOK, LenProperties DEF TypeOK
  <2>5. Len(fifo) \in Nat
    BY LenProperties DEF TypeOK
  <2>6. QueuedNotStale'
    <3>1. \A i \in 1 .. Len(fifo') : i + k <= Len(fifo) => i + k \in 1 .. Len(fifo)
      BY <2>4, <2>5
    <3>2. QED
      BY <2>2, <2>3, <3>1 DEF DataInv, QueuedNotStale, Follows
  <2>7. QED
    BY <1>4, <2>6 DEF IrqPush, GoTo, envVars, TypeOK, Carrying,
       DataInv, RegistersNotStale, CarriedNotStale
<1>5. QED
  BY <1>1, <1>2, <1>3, <1>4 DEF IrqStep

LEMMA StepData ==
  ASSUME TypeOK, ~SharedLine, DataInv, [Next]_vars
  PROVE  DataInv'
<1>1. CASE UNCHANGED vars
  BY <1>1 DEF vars, DataInv, RegistersNotStale, CarriedNotStale, QueuedNotStale, Carrying
<1>2. ASSUME NEW c \in Controller, ControllerStep(c) PROVE DataInv'
  BY <1>2, ControllerThreads DEF DataInv, RegistersNotStale, CarriedNotStale,
     QueuedNotStale, Carrying
<1>3. ASSUME NEW r \in Reader, ReaderStep(r) PROVE DataInv'
  <2>1. RegistersNotStale' /\ CarriedNotStale'
    BY <1>3 DEF ReaderStep, ReaderLock, ReadIndep, FifoAvailable, Unlock, irqVars, envVars,
       DataInv, RegistersNotStale, CarriedNotStale, Carrying
  <2>2. CASE fifo' = fifo
    BY <2>1, <2>2 DEF DataInv, QueuedNotStale
  <2>3. CASE fifo # <<>> /\ fifo' = Tail(fifo)
    <3>1. \A i \in 1 .. Len(fifo') : fifo'[i] = fifo[i + 1] /\ i + 1 \in 1 .. Len(fifo)
      BY <2>3, HeadTailProperties, LenProperties DEF TypeOK
    <3>2. QED
      BY <2>1, <3>1 DEF DataInv, QueuedNotStale
  <2>4. QED
    BY <1>3, <2>2, <2>3 DEF ReaderStep, ReaderLock, ReadIndep, FifoAvailable
<1>4. QED
  BY <1>1, <1>2, <1>3, SenseData, IrqData DEF Next

(* With a line for each device, the values of a queued sample were         *)
(* measured no earlier than the moment its timestamp names.                *)
THEOREM SamplesNotStale == Spec => []DataNotStale
<1> DEFINE Inv == SharedLine \/ DataInv
<1>1. Init => Inv
  <2>1. 0 \in Int /\ Len(<<>>) = 0
    BY EmptySeq
  <2>2. QED
    BY <2>1 DEF Init, DataInv, RegistersNotStale, CarriedNotStale, QueuedNotStale, Carrying
<1>2. TypeOK /\ Inv /\ [Next]_vars => Inv'
  BY StepData
<1>3. TypeOK /\ Inv => DataNotStale
  <2> SUFFICES ASSUME TypeOK, DataInv, NEW i \in 1 .. Len(fifo)
               PROVE  fifo[i].val >= fifo[i].ts
    BY DEF DataNotStale
  <2>1. fifo[i] \in Sample
    BY ElementOfSeq DEF TypeOK
  <2>2. fifo[i].ts \in Int /\ fifo[i].val \in Int
    BY <2>1 DEF Sample, Time
  <2>3. QED
    BY <2>2 DEF DataInv, QueuedNotStale
<1> HIDE DEF Inv
<1>4. QED
  BY <1>1, <1>2, <1>3, TypeCorrect, PTL DEF Spec

-----------------------------------------------------------------------------
(***************************************************************************)
(* The threads, when one thread calls enable and disable.  What exists of  *)
(* the two interrupt threads follows from where the call in progress is;   *)
(* between calls, from the enable flag.                                    *)
(***************************************************************************)
Present(d) == handle[d] \in Slot /\ pc[<<d, handle[d]>>] # "none"
Absent(d) == \A s \in Slot : pc[<<d, s>>] = "none"

Up == \A d \in Device : running[d]
AllPresent == \A d \in Device : Present(d)
AllAbsent == \A d \in Device : Absent(d)

Stage(c) ==
  /\ call[c] \in {"idle", "check"} => IF enable THEN Up /\ AllPresent ELSE AllAbsent
  /\ call[c] = "prepare" => ~enable /\ AllAbsent
  /\ call[c] = "create_accel" => ~enable /\ Up /\ AllAbsent
  /\ call[c] = "create_gyro" => ~enable /\ Up /\ Present("accel") /\ Absent("gyro")
  /\ call[c] = "undo_join" => ~enable /\ Present("accel") /\ Absent("gyro")
  /\ call[c] = "mark" => ~enable /\ Up /\ AllPresent
  /\ call[c] \in {"stop", "join_accel"} => enable /\ AllPresent
  /\ call[c] = "join_gyro" => enable /\ Absent("accel") /\ Present("gyro")
  /\ call[c] = "unmark" => enable /\ AllAbsent

StageInv == ThreadsOwned /\ \A c \in Controller : Stage(c)

(* A step of an interrupt thread, a reader or the sensor neither starts    *)
(* nor ends a thread: it may exit, but is still there to be joined.        *)
SameThreads ==
  /\ \A t \in Irq : pc'[t] = "none" <=> pc[t] = "none"
  /\ UNCHANGED <<enable, running, handle, call>>

LEMMA SameThreadsStage ==
  ASSUME TypeOK, StageInv, SameThreads
  PROVE  StageInv'
<1>1. ThreadsOwned'
  BY DEF SameThreads, StageInv, ThreadsOwned
<1>2. \A d \in Device : (Present(d)' <=> Present(d)) /\ (Absent(d)' <=> Absent(d))
  BY DEF SameThreads, Present, Absent, Irq
<1>3. (Up' <=> Up) /\ (AllPresent' <=> AllPresent) /\ (AllAbsent' <=> AllAbsent)
  BY <1>2 DEF SameThreads, Up, AllPresent, AllAbsent
<1>4. ASSUME NEW c \in Controller PROVE Stage(c)'
  <2>1. Stage(c)
    BY DEF StageInv
  <2>2. /\ Present("accel")' <=> Present("accel")
        /\ Present("gyro")' <=> Present("gyro")
        /\ Absent("accel")' <=> Absent("accel")
        /\ Absent("gyro")' <=> Absent("gyro")
    BY <1>2 DEF Device
  <2>3. QED
    BY <2>1, <2>2, <1>3 DEF SameThreads, Stage
<1>5. QED
  BY <1>1, <1>4 DEF StageInv

LEMMA IrqSameThreads ==
  ASSUME TypeOK, NEW t \in Irq, IrqStep(t)
  PROVE  SameThreads
BY DEF IrqStep, IrqCheck, IrqWait, IrqReadEvent, IrqReadData, IrqLock, IrqPush, GoTo,
   ctlVars, TypeOK, SameThreads

LEMMA OtherSameThreads ==
  ASSUME \/ \E d \in Device : Sense(d)
         \/ \E r \in Reader : ReaderStep(r)
         \/ UNCHANGED vars
  PROVE  SameThreads
BY DEF Sense, ReaderStep, ReaderLock, ReadIndep, FifoAvailable, Unlock, ctlVars,
   irqVars, vars, SameThreads

(* pthread_create and pthread_join keep every thread named by its handle.  *)
LEMMA SpawnOwned ==
  ASSUME TypeOK, ThreadsOwned, NEW d \in Device, Absent(d), Spawn(d)
  PROVE  /\ ThreadsOwned' /\ Present(d)'
         /\ \A e \in Device \ {d} : (Present(e)' <=> Present(e)) /\ (Absent(e)' <=> Absent(e))
<1>1. PICK s \in Slot : /\ pc' = [pc EXCEPT ![<<d, s>>] = "check"]
                        /\ handle' = [handle EXCEPT ![d] = s]
  BY DEF Spawn, GoTo
<1>2. handle'[d] = s /\ \A e \in Device \ {d} : handle'[e] = handle[e]
  BY <1>1 DEF TypeOK
<1>3. pc'[<<d, s>>] = "check" /\ \A t \in Irq : t # <<d, s>> => pc'[t] = pc[t]
  BY <1>1 DEF TypeOK, Irq
<1>4. ThreadsOwned'
  BY <1>2, <1>3 DEF ThreadsOwned, Absent, Irq
<1>5. Present(d)'
  BY <1>2, <1>3 DEF Present
<1>6. \A e \in Device \ {d} : (Present(e)' <=> Present(e)) /\ (Absent(e)' <=> Absent(e))
  BY <1>2, <1>3 DEF Present, Absent, Irq
<1>7. QED
  BY <1>4, <1>5, <1>6

LEMMA JoinOwned ==
  ASSUME TypeOK, ThreadsOwned, NEW d \in Device, Present(d), Join(d), handle' = handle
  PROVE  /\ ThreadsOwned' /\ Absent(d)'
         /\ \A e \in Device \ {d} : (Present(e)' <=> Present(e)) /\ (Absent(e)' <=> Absent(e))
<1>1. pc' = [pc EXCEPT ![<<d, handle[d]>>] = "none"] /\ <<d, handle[d]>> \in Irq
  BY DEF Join, GoTo, Present, Irq
<1>2. pc'[<<d, handle[d]>>] = "none" /\ \A t \in Irq : t # <<d, handle[d]>> => pc'[t] = pc[t]
  BY <1>1 DEF TypeOK
<1>3. ThreadsOwned'
  BY <1>2 DEF ThreadsOwned
<1>4. Absent(d)'
  BY <1>2 DEF ThreadsOwned, Absent, Irq
<1>5. \A e \in Device \ {d} : (Present(e)' <=> Present(e)) /\ (Absent(e)' <=> Absent(e))
  BY <1>2 DEF Present, Absent, Irq
<1>6. QED
  BY <1>3, <1>4, <1>5

SoleController == \E c : Controller = {c}

LEMMA ControllerStage ==
  ASSUME TypeOK, StageInv, NEW c, Controller = {c}, ControllerStep(c)
  PROVE  StageInv'
<1> USE DEF Device
<1>0. Stage(c) /\ ThreadsOwned /\ call \in [Controller -> CallPC]
  BY DEF StageInv, TypeOK
<1>1. CASE \/ EnableLock(c) \/ EnableCheck(c) \/ EnablePrepare(c) \/ EnableMark(c)
           \/ DisableCheck(c) \/ DisableStop(c) \/ DisableUnmark(c)
  <2>1. UNCHANGED <<handle, pc>>
    BY <1>1 DEF EnableLock, EnableCheck, EnablePrepare, EnableMark, DisableCheck,
       DisableStop, DisableUnmark, irqVars
  <2>2. ThreadsOwned' /\ \A d \in Device : (Present(d)' <=> Present(d)) /\ (Absent(d)' <=> Absent(d))
    BY <2>1, <1>0 DEF ThreadsOwned, Present, Absent
  <2>3. (AllPresent' <=> AllPresent) /\ (AllAbsent' <=> AllAbsent)
    BY <2>2 DEF AllPresent, AllAbsent
  <2>4. CASE EnableLock(c)
    <3>1. call[c] = "idle" /\ call'[c] = "check" /\ UNCHANGED <<enable, running>>
      BY <1>0, <2>4 DEF EnableLock, Resume
    <3>2. Stage(c)'
      BY <1>0, <2>3, <3>1 DEF Stage, Up
    <3>3. QED
      BY <2>2, <3>2 DEF StageInv
  <2>5. CASE EnableCheck(c)
    <3>1. /\ call[c] = "check" /\ call'[c] = (IF enable THEN "idle" ELSE "prepare")
          /\ UNCHANGED <<enable, running>>
      BY <1>0, <2>5 DEF EnableCheck, Resume
    <3>2. Stage(c)'
      BY <1>0, <2>3, <3>1 DEF Stage, Up
    <3>3. QED
      BY <2>2, <3>2 DEF StageInv
  <2>6. CASE EnablePrepare(c)
    <3>1. /\ call[c] = "prepare" /\ enable' = enable
          /\ \/ call'[c] = "idle" /\ running' = running
             \/ call'[c] = "create_accel" /\ Up'
      BY <1>0, <2>6 DEF EnablePrepare, Resume, Up
    <3>2. Stage(c)'
      BY <1>0, <2>3, <3>1 DEF Stage, Up
    <3>3. QED
      BY <2>2, <3>2 DEF StageInv
  <2>7. CASE EnableMark(c)
    <3>1. call[c] = "mark" /\ call'[c] = "idle" /\ enable' = TRUE /\ running' = running
      BY <1>0, <2>7 DEF EnableMark, Resume
    <3>2. Stage(c)'
      BY <1>0, <2>3, <3>1 DEF Stage, Up
    <3>3. QED
      BY <2>2, <3>2 DEF StageInv
  <2>8. CASE DisableCheck(c)
    <3>1. call[c] = "idle" /\ enable /\ call'[c] = "stop" /\ enable' = enable
      BY <1>0, <2>8 DEF DisableCheck, Resume
    <3>2. Stage(c)'
      BY <1>0, <2>3, <3>1 DEF Stage, Up
    <3>3. QED
      BY <2>2, <3>2 DEF StageInv
  <2>9. CASE DisableStop(c)
    <3>1. call[c] = "stop" /\ call'[c] = "join_accel" /\ enable' = enable
      BY <1>0, <2>9 DEF DisableStop, Resume
    <3>2. Stage(c)'
      BY <1>0, <2>3, <3>1 DEF Stage, Up
    <3>3. QED
      BY <2>2, <3>2 DEF StageInv
  <2>10. CASE DisableUnmark(c)
    <3>1. call[c] = "unmark" /\ call'[c] = "idle" /\ enable' = FALSE
      BY <1>0, <2>10 DEF DisableUnmark, Resume
    <3>2. Stage(c)'
      BY <1>0, <2>3, <3>1 DEF Stage, Up
    <3>3. QED
      BY <2>2, <3>2 DEF StageInv
  <2>11. QED
    BY <1>1, <2>4, <2>5, <2>6, <2>7, <2>8, <2>9, <2>10
<1>2. CASE EnableCreateAccel(c)
  <2>1. call[c] = "create_accel" /\ ~enable /\ Up /\ AllAbsent
    BY <1>0, <1>2 DEF EnableCreateAccel, Stage
  <2>2. CASE Spawn("accel") /\ Resume(c, "create_gyro") /\ UNCHANGED running
    <3>1. ThreadsOwned' /\ Present("accel")' /\ Absent("gyro")'
      BY <2>1, <2>2, <1>0, SpawnOwned DEF AllAbsent
    <3>2. call'[c] = "create_gyro" /\ ~enable' /\ Up'
      BY <1>0, <1>2, <2>1, <2>2 DEF EnableCreateAccel, Resume, Up
    <3>3. QED
      BY <3>1, <3>2 DEF StageInv, Stage
  <2>3. CASE Resume(c, "idle") /\ UNCHANGED <<handle, pc>>
    <3>1. ThreadsOwned' /\ AllAbsent' /\ call'[c] = "idle" /\ ~enable'
      BY <1>0, <1>2, <2>1, <2>3 DEF EnableCreateAccel, Resume, ThreadsOwned, AllAbsent, Absent
    <3>2. QED
      BY <3>1 DEF StageInv, Stage
  <2>4. QED
    BY <1>2, <2>2, <2>3 DEF EnableCreateAccel
<1>3. CASE EnableCreateGyro(c)
  <2>1. call[c] = "create_gyro" /\ ~enable /\ Up /\ Present("accel") /\ Absent("gyro")
    BY <1>0, <1>3 DEF EnableCreateGyro, Stage
  <2>2. CASE Spawn("gyro") /\ Resume(c, "mark") /\ UNCHANGED running
    <3>1. ThreadsOwned' /\ AllPresent'
      BY <2>1, <2>2, <1>0, SpawnOwned DEF AllPresent
    <3>2. call'[c] = "mark" /\ ~enable' /\ Up'
      BY <1>0, <1>3, <2>1, <2>2 DEF EnableCreateGyro, Resume, Up
    <3>3. QED
      BY <3>1, <3>2 DEF StageInv, Stage
  <2>3. CASE Resume(c, "undo_join") /\ UNCHANGED <<handle, pc>>
    <3>1. /\ ThreadsOwned' /\ Present("accel")' /\ Absent("gyro")'
          /\ call'[c] = "undo_join" /\ ~enable'
      BY <1>0, <1>3, <2>1, <2>3 DEF EnableCreateGyro, Resume, ThreadsOwned, Present, Absent
    <3>2. QED
      BY <3>1 DEF StageInv, Stage
  <2>4. QED
    BY <1>3, <2>2, <2>3 DEF EnableCreateGyro
<1>4. CASE EnableUndoJoin(c)
  <2>1. /\ call[c] = "undo_join" /\ ~enable /\ Present("accel") /\ Absent("gyro")
        /\ handle' = handle
    BY <1>0, <1>4 DEF EnableUndoJoin, Stage
  <2>2. ThreadsOwned' /\ AllAbsent'
    BY <2>1, <1>0, <1>4, JoinOwned DEF EnableUndoJoin, AllAbsent
  <2>3. call'[c] = "idle" /\ ~enable'
    BY <1>0, <1>4, <2>1 DEF EnableUndoJoin, Resume
  <2>4. QED
    BY <2>2, <2>3 DEF StageInv, Stage
<1>5. CASE DisableJoinAccel(c)
  <2>1. call[c] = "join_accel" /\ enable /\ AllPresent /\ handle' = handle
    BY <1>0, <1>5 DEF DisableJoinAccel, DisableJoin, Stage
  <2>2. ThreadsOwned' /\ Absent("accel")' /\ Present("gyro")'
    BY <2>1, <1>0, <1>5, JoinOwned DEF DisableJoinAccel, DisableJoin, AllPresent
  <2>3. call'[c] = "join_gyro" /\ enable'
    BY <1>0, <1>5, <2>1 DEF DisableJoinAccel, DisableJoin, Resume
  <2>4. QED
    BY <2>2, <2>3 DEF StageInv, Stage
<1>6. CASE DisableJoinGyro(c)
  <2>1. call[c] = "join_gyro" /\ enable /\ Absent("accel") /\ Present("gyro") /\ handle' = handle
    BY <1>0, <1>6 DEF DisableJoinGyro, DisableJoin, Stage
  <2>2. ThreadsOwned' /\ AllAbsent'
    BY <2>1, <1>0, <1>6, JoinOwned DEF DisableJoinGyro, DisableJoin, AllAbsent
  <2>3. call'[c] = "unmark" /\ enable'
    BY <1>0, <1>6, <2>1 DEF DisableJoinGyro, DisableJoin, Resume
  <2>4. QED
    BY <2>2, <2>3 DEF StageInv, Stage
<1>7. QED
  BY <1>1, <1>2, <1>3, <1>4, <1>5, <1>6 DEF ControllerStep, Continue

LEMMA InitStage == Init => StageInv
BY DEF Init, StageInv, ThreadsOwned, Stage, AllAbsent, Absent, Irq

LEMMA StepStage ==
  ASSUME SoleController, TypeOK, StageInv, [Next]_vars
  PROVE  StageInv'
<1>1. PICK c : Controller = {c}
  BY DEF SoleController
<1>2. CASE \E t \in Irq : IrqStep(t)
  BY <1>2, IrqSameThreads, SameThreadsStage
<1>3. CASE \E d \in Controller : ControllerStep(d)
  BY <1>1, <1>3, ControllerStage
<1>4. CASE \/ \E d \in Device : Sense(d)
           \/ \E r \in Reader : ReaderStep(r)
           \/ UNCHANGED vars
  BY <1>4, OtherSameThreads, SameThreadsStage
<1>5. QED
  BY <1>2, <1>3, <1>4 DEF Next

LEMMA StageAlways == ASSUME SoleController PROVE Spec => []StageInv
<1>1. TypeOK /\ StageInv /\ [Next]_vars => StageInv'
  BY StepStage
<1>2. QED
  BY <1>1, InitStage, TypeCorrect, PTL DEF Spec

(* No interrupt thread is ever lost sight of: one that has not been joined *)
(* is the one its handle names, whatever creation failed on the way.       *)
THEOREM NoThreadLeaked == ASSUME SoleController PROVE Spec => []ThreadsOwned
<1>1. StageInv => ThreadsOwned
  BY DEF StageInv
<1>2. QED
  BY <1>1, StageAlways, PTL

(* A device called by one thread is never served by two threads of a kind; *)
(* the run enable_race shows that with two callers it may be.              *)
THEOREM SoleControllerOneThread ==
  ASSUME SoleController PROVE Spec => []OneThreadPerDevice
<1>1. ThreadsOwned => OneThreadPerDevice
  BY DEF ThreadsOwned, OneThreadPerDevice, Alive, Irq
<1>2. QED
  BY <1>1, NoThreadLeaked, PTL

(* Between calls the enable flag says whether there are threads: a device  *)
(* found disabled can be taken apart.                                      *)
THEOREM EnableFlagTruthful ==
  ASSUME SoleController PROVE Spec => []FlagTellsTruth
<1>1. StageInv => FlagTellsTruth
  <2>1. PICK c : Controller = {c}
    BY DEF SoleController
  <2> SUFFICES ASSUME StageInv, call[c] = "idle"
               PROVE  IF enable
                        THEN \A d \in Device :
                               /\ running[d] /\ handle[d] \in Slot
                               /\ pc[<<d, handle[d]>>] # "none"
                        ELSE \A t \in Irq : pc[t] = "none"
    BY <2>1 DEF FlagTellsTruth
  <2>2. IF enable THEN Up /\ AllPresent ELSE AllAbsent
    BY <2>1 DEF StageInv, Stage
  <2>3. QED
    BY <2>2 DEF Up, AllPresent, Present, AllAbsent, Absent, Irq
<1>2. QED
  BY <1>1, StageAlways, PTL

(* An event announced to a thread is still there when the thread reads it, *)
(* so that it does not block where the running flag cannot reach it.       *)
THEOREM AnnouncedEventRemains ==
  ASSUME SoleController PROVE Spec => []EventStillThere
<1>1. Init => EventStillThere
  BY DEF Init, EventStillThere
<1>2. TypeOK /\ ThreadsOwned /\ EventStillThere /\ [Next]_vars => EventStillThere'
  <2> SUFFICES ASSUME ~SharedLine, TypeOK, ThreadsOwned, [Next]_vars,
                      \A t \in Irq : pc[t] = "read_event" => line[t[1]] # <<>>,
                      NEW t \in Irq, pc'[t] = "read_event"
               PROVE  line'[t[1]] # <<>>
    BY DEF EventStillThere, LineOf
  <2>0. t[1] \in Device
    BY DEF Irq
  <2>1. CASE UNCHANGED vars
    BY <2>1 DEF vars
  <2>2. ASSUME NEW d \in Device, Sense(d) PROVE line'[t[1]] # <<>>
    <3>1. now' \in Time /\ LineOf(d) = d
      BY <2>2, ConfigAssumption DEF Sense, TypeOK, Time, LineOf
    <3>2. Append(line[d], now') # <<>>
      BY <3>1, AppendProperties DEF TypeOK
    <3>3. line[t[1]] # <<>>
      BY <2>2 DEF Sense, irqVars
    <3>4. QED
      BY <2>0, <2>2, <3>1, <3>2, <3>3 DEF Sense, TypeOK
  <2>3. ASSUME NEW u \in Irq, IrqStep(u) PROVE line'[t[1]] # <<>>
    <3>0. u[1] \in Device /\ LineOf(u[1]) = u[1]
      BY DEF Irq, LineOf
    <3>1. CASE IrqReadEvent(u)
      <4>1. pc'[u] # "read_event"
        BY <3>1 DEF IrqReadEvent, GoTo, TypeOK
      <4>2. pc[t] = "read_event" /\ pc[u] = "read_event"
        BY <3>1, <4>1 DEF IrqReadEvent, GoTo, TypeOK
      <4>3. t[1] # u[1]
        BY <4>1, <4>2 DEF ThreadsOwned, Irq
      <4>4. QED
        BY <2>0, <3>0, <3>1, <4>2, <4>3 DEF IrqReadEvent, TypeOK
    <3>2. CASE IrqWait(u)
      BY <3>0, <3>2 DEF IrqWait, GoTo, TypeOK, envVars
    <3>3. CASE IrqCheck(u) \/ IrqReadData(u) \/ IrqLock(u) \/ IrqPush(u)
      BY <3>3 DEF IrqCheck, IrqReadData, IrqLock, IrqPush, GoTo, TypeOK, envVars
    <3>4. QED
      BY <2>3, <3>1, <3>2, <3>3 DEF IrqStep
  <2>4. ASSUME NEW c \in Controller, ControllerStep(c) PROVE line'[t[1]] # <<>>
    <3>1. line' = line
      BY <2>4 DEF ControllerStep, Continue, EnableLock, EnableCheck, EnablePrepare,
         EnableCreateAccel, EnableCreateGyro, EnableUndoJoin, EnableMark, DisableCheck,
         DisableStop, DisableJoinAccel, DisableJoinGyro, DisableJoin, DisableUnmark,
         envVars
    <3>2. pc[t] = "read_event"
      BY <2>4, ControllerThreads
    <3>3. QED
      BY <3>1, <3>2
  <2>5. ASSUME NEW r \in Reader, ReaderStep(r) PROVE line'[t[1]] # <<>>
    BY <2>5 DEF ReaderStep, ReaderLock, ReadIndep, FifoAvailable, Unlock, irqVars, envVars
  <2>6. QED
    BY <2>1, <2>2, <2>3, <2>4, <2>5 DEF Next
<1>3. QED
  BY <1>1, <1>2, TypeCorrect, NoThreadLeaked, PTL DEF Spec

-----------------------------------------------------------------------------
(* A line's buffer: an event enters at its end and leaves at its head.     *)

Elements(s) == {s[i] : i \in 1 .. Len(s)}
Increasing(s) == \A i \in 1 .. Len(s) : \A j \in 1 .. i - 1 : s[j] < s[i]

LEMMA TailElements ==
  ASSUME NEW s \in Seq(Time), s # <<>>, Increasing(s)
  PROVE  /\ Tail(s) \in Seq(Time) /\ Increasing(Tail(s))
         /\ Elements(Tail(s)) \subseteq Elements(s)
         /\ Head(s) \in Elements(s)
         /\ \A x \in Elements(Tail(s)) : Head(s) < x
<1>1. /\ Head(s) = s[1] /\ Len(s) \in Nat /\ 1 \in 1 .. Len(s)
      /\ Tail(s) \in Seq(Time) /\ Len(Tail(s)) = Len(s) - 1
      /\ \A i \in 1 .. Len(Tail(s)) : Tail(s)[i] = s[i + 1]
  BY HeadTailProperties, EmptySeq, LenProperties
<1> DEFINE u == Tail(s)
<1> HIDE DEF u
<1>2. \A i \in 1 .. Len(u) : i + 1 \in 2 .. Len(s) /\ u[i] = s[i + 1]
  BY <1>1 DEF u
<1>3. Increasing(u)
  <2> SUFFICES ASSUME NEW i \in 1 .. Len(u), NEW j \in 1 .. i - 1 PROVE u[j] < u[i]
    BY DEF Increasing
  <2>1. j \in 1 .. Len(u) /\ i + 1 \in 1 .. Len(s) /\ j + 1 \in 1 .. (i + 1) - 1
    BY <1>1, <1>2
  <2>2. QED
    BY <2>1, <1>2 DEF Increasing
<1>4. \A x \in Elements(u) : x \in Elements(s) /\ s[1] < x
  <2> SUFFICES ASSUME NEW i \in 1 .. Len(u) PROVE u[i] \in Elements(s) /\ s[1] < u[i]
    BY DEF Elements
  <2>1. i + 1 \in 1 .. Len(s) /\ 1 \in 1 .. (i + 1) - 1 /\ u[i] = s[i + 1]
    BY <1>2
  <2>2. QED
    BY <2>1 DEF Elements, Increasing
<1>5. QED
  BY <1>1, <1>3, <1>4 DEF Elements, u

LEMMA AppendElements ==
  ASSUME NEW s \in Seq(Time), Increasing(s), NEW x \in Time, \A y \in Elements(s) : y < x
  PROVE  /\ Append(s, x) \in Seq(Time) /\ Increasing(Append(s, x))
         /\ Elements(Append(s, x)) \subseteq Elements(s) \union {x}
<1>1. /\ Append(s, x) \in Seq(Time) /\ Len(Append(s, x)) = Len(s) + 1 /\ Len(s) \in Nat
      /\ \A i \in 1 .. Len(s) : Append(s, x)[i] = s[i]
      /\ Append(s, x)[Len(s) + 1] = x
  BY AppendProperties, LenProperties
<1> DEFINE a == Append(s, x)
<1> HIDE DEF a
<1>2. \A i \in 1 .. Len(a) : \/ i \in 1 .. Len(s) /\ a[i] = s[i]
                             \/ i = Len(s) + 1 /\ a[i] = x
  BY <1>1 DEF a
<1>3. Elements(a) \subseteq Elements(s) \union {x}
  BY <1>2 DEF Elements
<1>4. Increasing(a)
  <2> SUFFICES ASSUME NEW i \in 1 .. Len(a), NEW j \in 1 .. i - 1 PROVE a[j] < a[i]
    BY DEF Increasing
  <2>1. j \in 1 .. Len(s) /\ a[j] = s[j]
    BY <1>1, <1>2 DEF a
  <2>2. CASE i \in 1 .. Len(s) /\ a[i] = s[i]
    BY <2>1, <2>2 DEF Increasing
  <2>3. CASE a[i] = x
    BY <2>1, <2>3 DEF Elements
  <2>4. QED
    BY <1>2, <2>2, <2>3
<1>5. QED
  BY <1>1, <1>3, <1>4 DEF a

-----------------------------------------------------------------------------
(***************************************************************************)
(* The order of the samples.  What a device has produced is spread over    *)
(* four places: the reader, the FIFO, a thread that carries a sample, and  *)
(* the kernel's buffer.  Each holds only later timestamps than the one     *)
(* before it, and so whatever is lost on the way order remains.            *)
(***************************************************************************)
Beyond(d, x) ==
  /\ delivered[d] < x
  /\ \A i \in 1 .. Len(fifo) : fifo[i].dev = d => fifo[i].ts < x

LineOrdered ==
  \A d \in Device :
    /\ Increasing(line[d])
    /\ \A x \in Elements(line[d]) : x <= now /\ Beyond(d, x)

CarriedOrdered ==
  \A t \in Irq : Carrying(t) =>
    /\ event[t] <= now
    /\ Beyond(t[1], event[t])
    /\ \A x \in Elements(line[t[1]]) : event[t] < x

AllPast ==
  /\ \A d \in Device : delivered[d] <= now
  /\ \A i \in 1 .. Len(fifo) : fifo[i].ts <= now

OrderInv == LineOrdered /\ CarriedOrdered /\ AllPast /\ SamplesInOrder

LEMMA NumberTypes ==
  ASSUME TypeOK
  PROVE  /\ now \in Int /\ \A d \in Device : delivered[d] \in Int
         /\ Len(fifo) \in Nat
         /\ \A i \in 1 .. Len(fifo) : fifo[i].ts \in Int /\ fifo[i].dev \in Device
         /\ \A t \in Irq : event[t] \in Int /\ t[1] \in Device
         /\ \A d \in Device : Elements(line[d]) \subseteq Int
<1>1. Time \subseteq Int
  BY DEF Time
<1>2. \A i \in 1 .. Len(fifo) : fifo[i].ts \in Int /\ fifo[i].dev \in Device
  <2>1. \A i \in 1 .. Len(fifo) : fifo[i] \in Sample
    BY ElementOfSeq DEF TypeOK
  <2>2. QED
    BY <2>1, <1>1 DEF Sample
<1>3. ASSUME NEW d \in Device PROVE Elements(line[d]) \subseteq Int
  <2>1. line[d] \in Seq(Time)
    BY DEF TypeOK
  <2>2. QED
    BY <2>1, <1>1, ElementOfSeq DEF Elements
<1>4. Len(fifo) \in Nat
  BY LenProperties DEF TypeOK
<1>5. QED
  BY <1>1, <1>2, <1>3, <1>4 DEF TypeOK, Irq

(* A push keeps what was beyond the FIFO beyond it, if the pushed sample   *)
(* is not later.                                                           *)
LEMMA PushBeyond ==
  ASSUME TypeOK, NEW x \in Sample, NEW k \in {0, 1}, Follows(fifo', fifo, x, k),
         Len(fifo') \in Nat, delivered' = delivered,
         NEW d \in Device, NEW y \in Int, Beyond(d, y), x.dev = d => x.ts < y
  PROVE  Beyond(d, y)'
<1>1. ASSUME NEW i \in 1 .. Len(fifo'), fifo'[i].dev = d
      PROVE  fifo'[i].ts < y
  <2>1. CASE i + k <= Len(fifo)
    <3>1. i + k \in 1 .. Len(fifo)
      BY <2>1, NumberTypes
    <3>2. fifo'[i] = fifo[i + k]
      BY <2>1 DEF Follows
    <3>3. QED
      BY <1>1, <3>1, <3>2 DEF Beyond
  <2>2. CASE ~(i + k <= Len(fifo))
    BY <1>1, <2>2 DEF Follows
  <2>3. QED
    BY <2>1, <2>2
<1>2. QED
  BY <1>1 DEF Beyond

(* A push of a later sample keeps the FIFO in order.                       *)
LEMMA PushInOrder ==
  ASSUME TypeOK, NEW x \in Sample, NEW k \in {0, 1}, Follows(fifo', fifo, x, k),
         Len(fifo') \in Nat, delivered' = delivered, SamplesInOrder, Beyond(x.dev, x.ts)
  PROVE  SamplesInOrder'
<1>0. Len(fifo) \in Nat
  BY NumberTypes
<1>1. ASSUME NEW i \in 1 .. Len(fifo')
      PROVE  /\ delivered'[fifo'[i].dev] < fifo'[i].ts
             /\ \A j \in 1 .. i - 1 : fifo'[j].dev = fifo'[i].dev => fifo'[j].ts < fifo'[i].ts
  <2>0. \A j \in 1 .. i - 1 : j \in 1 .. Len(fifo')
    OBVIOUS
  <2>1. CASE i + k <= Len(fifo)
    <3>1. i + k \in 1 .. Len(fifo) /\ fifo'[i] = fifo[i + k]
      BY <1>0, <2>1 DEF Follows
    <3>2. \A j \in 1 .. i - 1 : j + k \in 1 .. (i + k) - 1 /\ fifo'[j] = fifo[j + k]
      BY <1>0, <2>0, <2>1 DEF Follows
    <3>3. QED
      BY <3>1, <3>2 DEF SamplesInOrder
  <2>2. CASE ~(i + k <= Len(fifo))
    <3>1. fifo'[i] = x
      BY <2>2 DEF Follows
    <3>2. ASSUME NEW j \in 1 .. i - 1 PROVE j + k \in 1 .. Len(fifo) /\ fifo'[j] = fifo[j + k]
      <4>1. Len(fifo') + k <= Len(fifo) + 1
        BY DEF Follows
      <4>2. j + k \in 1 .. Len(fifo)
        BY <1>0, <4>1
      <4>3. QED
        BY <2>0, <4>2 DEF Follows
    <3>3. QED
      BY <3>1, <3>2 DEF Beyond
  <2>3. QED
    BY <2>1, <2>2
<1>2. QED
  BY <1>1 DEF SamplesInOrder

LEMMA SenseOrder ==
  ASSUME TypeOK, ~SharedLine, OrderInv, NEW d \in Device, Sense(d)
  PROVE  OrderInv'
<1>1. /\ now' = now + 1 /\ now' \in Time /\ LineOf(d) = d
      /\ UNCHANGED <<pc, event, fifo, delivered>>
      /\ \A e \in Device \ {d} : line'[e] = line[e]
      /\ line'[d] = line[d] \/ line'[d] = Append(line[d], now')
  BY ConfigAssumption DEF Sense, TypeOK, Time, LineOf, irqVars
<1>2. \A e \in Device : \A y : Beyond(e, y)' <=> Beyond(e, y)
  BY <1>1 DEF Beyond
<1>3. \A e \in Device : Beyond(e, now')
  BY <1>1, NumberTypes DEF OrderInv, AllPast, Beyond
<1>4. ASSUME NEW e \in Device
      PROVE  /\ Increasing(line'[e])
             /\ Elements(line'[e]) \subseteq Elements(line[e]) \union {now'}
  <2>1. line[e] \in Seq(Time) /\ Increasing(line[e]) /\ \A y \in Elements(line[e]) : y < now'
    BY <1>1, NumberTypes DEF TypeOK, OrderInv, LineOrdered
  <2>2. /\ Increasing(Append(line[e], now'))
        /\ Elements(Append(line[e], now')) \subseteq Elements(line[e]) \union {now'}
    BY <1>1, <2>1, AppendElements
  <2>3. line'[e] = line[e] \/ line'[e] = Append(line[e], now')
    BY <1>1
  <2>4. QED
    BY <2>1, <2>2, <2>3
<1>5. LineOrdered'
  <2> SUFFICES ASSUME NEW e \in Device, NEW x \in Elements(line'[e])
               PROVE  x <= now' /\ Beyond(e, x)
    BY <1>2, <1>4 DEF LineOrdered
  <2>1. CASE x \in Elements(line[e])
    <3>1. x <= now /\ Beyond(e, x)
      BY <2>1 DEF OrderInv, LineOrdered
    <3>2. x \in Int /\ now \in Int
      BY <2>1, NumberTypes
    <3>3. QED
      BY <3>1, <3>2, <1>1
  <2>2. CASE x = now'
    BY <2>2, <1>1, <1>3, NumberTypes
  <2>3. QED
    BY <1>4, <2>1, <2>2
<1>6. CarriedOrdered'
  <2> SUFFICES ASSUME NEW t \in Irq, Carrying(t), NEW x \in Elements(line'[t[1]])
               PROVE  event[t] <= now /\ Beyond(t[1], event[t]) /\ event[t] < x
    <3>1. \A t \in Irq : Carrying(t)' <=> Carrying(t)
      BY <1>1 DEF Carrying
    <3>2. \A t \in Irq : Carrying(t) => event[t] <= now /\ Beyond(t[1], event[t])
      BY DEF OrderInv, CarriedOrdered
    <3>3. \A t \in Irq : Carrying(t) => event[t] <= now'
      BY <1>1, <3>2, NumberTypes
    <3>4. QED
      BY <1>1, <1>2, <3>1, <3>2, <3>3, NumberTypes DEF CarriedOrdered
  <2>1. /\ event[t] <= now /\ Beyond(t[1], event[t]) /\ event[t] \in Int /\ t[1] \in Device
        /\ \A y \in Elements(line[t[1]]) : event[t] < y
    BY NumberTypes DEF OrderInv, CarriedOrdered
  <2>2. x \in Elements(line[t[1]]) \/ x = now'
    BY <1>4, <2>1
  <2>3. QED
    BY <2>1, <2>2, <1>1, NumberTypes
<1>7. AllPast' /\ SamplesInOrder'
  BY <1>1, NumberTypes DEF OrderInv, AllPast, SamplesInOrder
<1>8. QED
  BY <1>5, <1>6, <1>7 DEF OrderInv

LEMMA ReadEventOrder ==
  ASSUME TypeOK, ~SharedLine, OrderInv, NEW t \in Irq, IrqReadEvent(t)
  PROVE  OrderInv'
<1> DEFINE d == t[1]
<1>1. d \in Device /\ LineOf(d) = d
  BY DEF LineOf, Irq
<1>2. UNCHANGED <<now, fifo, delivered>> /\ line[d] # <<>>
  BY <1>1 DEF IrqReadEvent
<1>3. \A e \in Device : \A y : Beyond(e, y)' <=> Beyond(e, y)
  BY <1>2 DEF Beyond
<1>4. AllPast' /\ SamplesInOrder'
  BY <1>2 DEF OrderInv, AllPast, SamplesInOrder
<1>5. CASE UNCHANGED <<event, line>> /\ GoTo(t, "check")
  <2>1. \A u \in Irq : Carrying(u)' => Carrying(u)
    BY <1>5 DEF GoTo, Carrying, TypeOK
  <2>2. CarriedOrdered'
    BY <2>1, <1>2, <1>3, <1>5, NumberTypes DEF OrderInv, CarriedOrdered
  <2>3. QED
    BY <2>2, <1>2, <1>3, <1>4, <1>5 DEF OrderInv, LineOrdered
<1>6. CASE /\ event' = [event EXCEPT ![t] = Head(line[d])]
           /\ line' = [line EXCEPT ![d] = Tail(@)]
           /\ GoTo(t, "read_data")
  <2>1. /\ line'[d] = Tail(line[d]) /\ \A e \in Device \ {d} : line'[e] = line[e]
        /\ event'[t] = Head(line[d]) /\ \A u \in Irq \ {t} : event'[u] = event[u]
        /\ \A u \in Irq \ {t} : Carrying(u)' => Carrying(u)
    BY <1>1, <1>6 DEF GoTo, Carrying, TypeOK
  <2>2. line[d] \in Seq(Time) /\ Increasing(line[d])
    BY <1>1 DEF TypeOK, OrderInv, LineOrdered
  <2>3. /\ Increasing(Tail(line[d])) /\ Elements(Tail(line[d])) \subseteq Elements(line[d])
        /\ Head(line[d]) \in Elements(line[d])
        /\ \A x \in Elements(Tail(line[d])) : Head(line[d]) < x
    BY <1>2, <2>2, TailElements
  <2>4. \A e \in Device : /\ Increasing(line'[e])
                          /\ Elements(line'[e]) \subseteq Elements(line[e])
    BY <2>1, <2>3 DEF OrderInv, LineOrdered
  <2>5. LineOrdered'
    BY <1>2, <1>3, <2>4 DEF OrderInv, LineOrdered
  <2>6. CarriedOrdered'
    <3> SUFFICES ASSUME NEW u \in Irq, Carrying(u)'
                 PROVE  /\ event'[u] <= now /\ Beyond(u[1], event'[u])
                        /\ \A x \in Elements(line'[u[1]]) : event'[u] < x
      BY <1>2, <1>3, NumberTypes DEF CarriedOrdered
    <3>1. CASE u = t
      BY <3>1, <1>1, <2>1, <2>3 DEF OrderInv, LineOrdered
    <3>2. CASE u # t
      BY <3>2, <2>1, <2>4, NumberTypes DEF OrderInv, CarriedOrdered
    <3>3. QED
      BY <3>1, <3>2
  <2>7. QED
    BY <2>5, <2>6, <1>4 DEF OrderInv
<1>7. QED
  BY <1>1, <1>5, <1>6 DEF IrqReadEvent

LEMMA PushOrder ==
  ASSUME TypeOK, ThreadsOwned, OrderInv, NEW t \in Irq, IrqPush(t)
  PROVE  OrderInv'
<1> DEFINE x == [dev |-> t[1], ts |-> event[t], val |-> value[t]]
<1>1. /\ x \in Sample /\ x.dev = t[1] /\ x.ts = event[t]
      /\ t[1] \in Device /\ event[t] \in Int
  BY DEF Sample, TypeOK, Irq, Time
<1>2. /\ UNCHANGED <<now, line, event, delivered>> /\ Carrying(t)
      /\ fifo' = Queue!Put(fifo, Capacity, FifoMode, x)
      /\ pc' = [pc EXCEPT ![t] = "check"]
  BY DEF IrqPush, GoTo, envVars, Carrying
<1>3. /\ event[t] <= now /\ Beyond(t[1], event[t])
      /\ \A y \in Elements(line[t[1]]) : event[t] < y
  BY <1>2 DEF OrderInv, CarriedOrdered
<1> HIDE DEF x
<1>4. PICK k \in {0, 1} : Follows(fifo', fifo, x, k)
  BY <1>1, <1>2, PutShape DEF TypeOK
<1>5. fifo' \in Seq(Sample) /\ Len(fifo') \in Nat
  <2>1. fifo' \in Seq(Sample)
    BY <1>1, <1>2, PutShape DEF TypeOK
  <2>2. QED
    BY <2>1, LenProperties
<1>6. ASSUME NEW d \in Device, NEW y \in Int, Beyond(d, y), d = t[1] => event[t] < y
      PROVE  Beyond(d, y)'
  BY <1>1, <1>2, <1>4, <1>5, <1>6, PushBeyond
<1>7. LineOrdered'
  <2> SUFFICES ASSUME NEW d \in Device, NEW y \in Elements(line[d])
               PROVE  Beyond(d, y)'
    BY <1>2 DEF OrderInv, LineOrdered
  <2>1. y \in Int /\ Beyond(d, y) /\ (d = t[1] => event[t] < y)
    BY <1>3, NumberTypes DEF OrderInv, LineOrdered
  <2>2. QED
    BY <2>1, <1>6
<1>8. CarriedOrdered'
  <2> SUFFICES ASSUME NEW u \in Irq, Carrying(u)' PROVE Beyond(u[1], event[u])' /\ Carrying(u)
    BY <1>2 DEF OrderInv, CarriedOrdered
  <2>1. u # t /\ Carrying(u)
    BY <1>2 DEF Carrying, TypeOK
  <2>2. u[1] # t[1]
    BY <2>1, <1>2 DEF ThreadsOwned, Carrying, Irq
  <2>3. Beyond(u[1], event[u]) /\ event[u] \in Int /\ u[1] \in Device
    BY <2>1, NumberTypes DEF OrderInv, CarriedOrdered
  <2>4. PICK y \in Int : y = event[u] /\ y = event'[u]
    BY <2>3, <1>2
  <2>5. Beyond(u[1], y)'
    BY <2>2, <2>3, <2>4, <1>6
  <2>6. QED
    BY <2>1, <2>4, <2>5 DEF Beyond
<1>9. AllPast'
  <2> SUFFICES ASSUME NEW i \in 1 .. Len(fifo') PROVE fifo'[i].ts <= now
    BY <1>2 DEF OrderInv, AllPast
  <2>1. CASE i + k <= Len(fifo)
    <3>1. i + k \in 1 .. Len(fifo) /\ fifo'[i] = fifo[i + k]
      BY <2>1, <1>4, NumberTypes DEF Follows
    <3>2. QED
      BY <3>1 DEF OrderInv, AllPast
  <2>2. CASE ~(i + k <= Len(fifo))
    BY <2>2, <1>1, <1>3, <1>4 DEF Follows
  <2>3. QED
    BY <2>1, <2>2
<1>10. SamplesInOrder'
  BY <1>1, <1>2, <1>3, <1>4, <1>5, PushInOrder DEF OrderInv
<1>11. QED
  BY <1>7, <1>8, <1>9, <1>10 DEF OrderInv

LEMMA ReadIndepOrder ==
  ASSUME TypeOK, OrderInv, fifo # <<>>, fifo' = Tail(fifo),
         delivered' = [delivered EXCEPT ![Head(fifo).dev] = Head(fifo).ts],
         UNCHANGED <<now, line, event, pc>>
  PROVE  OrderInv'
<1>1. /\ Head(fifo) = fifo[1] /\ 1 \in 1 .. Len(fifo) /\ Len(fifo') \in Nat
      /\ \A i \in 1 .. Len(fifo') : fifo'[i] = fifo[i + 1] /\ i + 1 \in 2 .. Len(fifo)
  BY HeadTailProperties, EmptySeq, LenProperties DEF TypeOK
<1>2. fifo[1].dev \in Device /\ fifo[1].ts \in Int
  BY <1>1, NumberTypes
<1>3. \A d \in Device : delivered'[d] = IF d = fifo[1].dev THEN fifo[1].ts ELSE delivered[d]
  BY <1>1, <1>2 DEF TypeOK
<1>4. \A d \in Device, y \in Int : Beyond(d, y) => Beyond(d, y)'
  BY <1>1, <1>3 DEF Beyond
<1>5. LineOrdered' /\ CarriedOrdered'
  <2>1. \A u \in Irq : Carrying(u)' <=> Carrying(u)
    BY DEF Carrying
  <2>2. LineOrdered'
    BY <1>4, NumberTypes DEF OrderInv, LineOrdered
  <2>3. CarriedOrdered'
    BY <1>4, <2>1, NumberTypes DEF OrderInv, CarriedOrdered
  <2>4. QED
    BY <2>2, <2>3
<1>6. AllPast'
  BY <1>1, <1>3 DEF OrderInv, AllPast
<1>7. SamplesInOrder'
  <2> SUFFICES ASSUME NEW i \in 1 .. Len(fifo')
               PROVE  /\ delivered'[fifo'[i].dev] < fifo'[i].ts
                      /\ \A j \in 1 .. i - 1 :
                           fifo'[j].dev = fifo'[i].dev => fifo'[j].ts < fifo'[i].ts
    BY DEF SamplesInOrder
  <2>1. i + 1 \in 1 .. Len(fifo) /\ fifo'[i] = fifo[i + 1] /\ 1 \in 1 .. (i + 1) - 1
    BY <1>1
  <2>2. \A j \in 1 .. i - 1 : fifo'[j] = fifo[j + 1] /\ j + 1 \in 1 .. (i + 1) - 1
    BY <1>1
  <2>3. delivered'[fifo'[i].dev] < fifo'[i].ts
    BY <2>1, <1>3, NumberTypes DEF OrderInv, SamplesInOrder
  <2>4. QED
    BY <2>1, <2>2, <2>3 DEF OrderInv, SamplesInOrder
<1>8. QED
  BY <1>5, <1>6, <1>7 DEF OrderInv

(* A step that leaves samples and events alone and takes up no sample.     *)
LEMMA QuietOrder ==
  ASSUME OrderInv, UNCHANGED <<now, line, fifo, delivered>>,
         \A u \in Irq : Carrying(u)' => Carrying(u) /\ event'[u] = event[u]
  PROVE  OrderInv'
<1>1. \A d, y : Beyond(d, y)' <=> Beyond(d, y)
  BY DEF Beyond
<1>2. CarriedOrdered'
  BY <1>1 DEF OrderInv, CarriedOrdered
<1>3. QED
  BY <1>1, <1>2 DEF OrderInv, LineOrdered, AllPast, SamplesInOrder

LEMMA StepOrder ==
  ASSUME TypeOK, ThreadsOwned, ~SharedLine, OrderInv, [Next]_vars
  PROVE  OrderInv'
<1>1. CASE UNCHANGED vars
  BY <1>1, QuietOrder DEF vars, Carrying
<1>2. ASSUME NEW t \in Irq, IrqStep(t) PROVE OrderInv'
  <2>1. CASE IrqCheck(t) \/ IrqWait(t) \/ IrqReadData(t) \/ IrqLock(t)
    <3>1. UNCHANGED <<now, line, fifo, delivered>>
      BY <2>1 DEF IrqCheck, IrqWait, IrqReadData, IrqLock, envVars
    <3>2. \A u \in Irq : Carrying(u)' => Carrying(u) /\ event'[u] = event[u]
      BY <2>1 DEF IrqCheck, IrqWait, IrqReadData, IrqLock, GoTo, TypeOK, Carrying
    <3>3. QED
      BY <3>1, <3>2, QuietOrder
  <2>2. QED
    BY <1>2, <2>1, ReadEventOrder, PushOrder DEF IrqStep
<1>3. ASSUME NEW c \in Controller, ControllerStep(c) PROVE OrderInv'
  <2>1. \A u \in Irq : Carrying(u)' => Carrying(u) /\ event'[u] = event[u]
    BY <1>3, ControllerThreads DEF Carrying
  <2>2. QED
    BY <1>3, <2>1, ControllerThreads, QuietOrder
<1>4. ASSUME NEW r \in Reader, ReaderStep(r) PROVE OrderInv'
  <2>1. UNCHANGED <<now, line, event, pc>>
    BY <1>4 DEF ReaderStep, ReaderLock, ReadIndep, FifoAvailable, Unlock, irqVars, envVars
  <2>2. CASE UNCHANGED <<fifo, delivered>>
    BY <2>1, <2>2, QuietOrder DEF Carrying
  <2>3. CASE ReadIndep(r) /\ fifo # <<>>
    BY <2>1, <2>3, ReadIndepOrder DEF ReadIndep
  <2>4. QED
    BY <1>4, <2>2, <2>3 DEF ReaderStep, ReaderLock, ReadIndep, FifoAvailable
<1>5. QED
  BY <1>1, <1>2, <1>3, <1>4, SenseOrder DEF Next

LEMMA OrderAlways ==
  ASSUME SoleController, ~SharedLine
  PROVE  Spec => []OrderInv
<1>1. Init => OrderInv
  <2>1. 0 \in Int /\ Len(<<>>) = 0 /\ Elements(<<>>) = {}
    BY EmptySeq DEF Elements
  <2>2. QED
    BY <2>1 DEF Init, OrderInv, LineOrdered, CarriedOrdered, AllPast, SamplesInOrder,
       Carrying, Increasing
<1>2. TypeOK /\ ThreadsOwned /\ OrderInv /\ [Next]_vars => OrderInv'
  BY StepOrder
<1>3. QED
  BY <1>1, <1>2, TypeCorrect, NoThreadLeaked, PTL DEF Spec

(* The samples of a device that one thread controls and that has a line of *)
(* its own reach the readers in the order they were taken and at most      *)
(* once, whatever is lost on the way.                                      *)
THEOREM SamplesStayInOrder ==
  ASSUME SoleController, ~SharedLine
  PROVE  Spec => []SamplesInOrder
<1>1. OrderInv => SamplesInOrder
  BY DEF OrderInv
<1>2. QED
  BY <1>1, OrderAlways, PTL
=============================================================================
