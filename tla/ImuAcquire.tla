----------------------------- MODULE ImuAcquire -----------------------------
(***************************************************************************)
(* Acquisition: the two interrupt threads of core/src/rdkimu.c, the calls  *)
(* rdk_imu_enable and rdk_imu_disable that start and stop them, and the    *)
(* calls that drain the FIFO.  They share the enable and running flags,    *)
(* the thread handles, the FIFO and the mutex of rdk_imu_state_t.          *)
(*                                                                         *)
(* A step is what a thread does between two accesses to shared state.  The *)
(* FIFO is the queue of SampleQueue, which RingFifo implements.  The       *)
(* kernel's event buffer of a GPIO line, the data registers and the clock  *)
(* are the environment.                                                    *)
(***************************************************************************)
EXTENDS Integers, Sequences

CONSTANTS
  Controller,  \* threads that call rdk_imu_enable and rdk_imu_disable
  Reader,      \* threads that call rdk_imu_read_indep, rdk_imu_fifo_available
  Slot,        \* identities pthread_create can give a thread
  NoSlot,      \* a handle never written
  Free,        \* the owner of an unlocked mutex
  FifoLength,  \* config.fifo_length
  FifoMode,    \* config.fifo_mode
  SharedLine,  \* both DRDY outputs are wired to one GPIO line
  LineDepth,   \* events the kernel keeps for one line
  MaxTime      \* bound on the clock

Device == {"accel", "gyro"}

(* An interrupt thread: the device it serves and its identity. *)
Irq == Device \X Slot

Time == 0 .. MaxTime
Capacity == FifoLength - 1

ASSUME ConfigAssumption ==
  /\ FifoLength \in Nat \ {0}
  /\ FifoMode \in {"DROP", "OVERWRITE"}
  /\ SharedLine \in BOOLEAN
  /\ LineDepth \in Nat
  /\ MaxTime \in Nat

ASSUME IdentityAssumption ==
  /\ NoSlot \notin Slot
  /\ Free \notin Controller \union Reader \union Irq
  /\ Controller \intersect Reader = {}
  /\ Irq \intersect (Controller \union Reader) = {}

ASSUME MarkerAssumption == NoSlot \notin Time

(* A FIFO entry: its device, the timestamp taken from the event, and the   *)
(* time at which the data registers it was read from were written.         *)
Sample == [dev : Device, ts : Time, val : Time]

VARIABLES
  enable,    \* st->enable
  running,   \* st->accel_running and st->gyro_running
  handle,    \* st->accel_thread and st->gyro_thread
  mutex,     \* the owner of st->mutex
  fifo,      \* the content of st->imu_fifo, oldest first
  call,      \* where each controller is
  pc,        \* where each interrupt thread is
  event,     \* its local event timestamp
  value,     \* its local copy of the data registers
  reading,   \* where each reader is
  delivered, \* history: the timestamp last popped from each device
  now,       \* the clock
  data,      \* when the data registers of each device were last written
  line       \* the kernel's unread event timestamps of each GPIO line

ctlVars == <<enable, running, handle, call>>
irqVars == <<pc, event, value>>
envVars == <<now, data, line>>
vars == <<enable, running, handle, mutex, fifo, call, pc, event, value,
          reading, delivered, now, data, line>>

Queue == INSTANCE SampleQueue WITH
  Length <- {}, Nothing <- NoSlot, open <- TRUE, capacity <- Capacity,
  policy <- FifoMode, queue <- fifo, ret <- "OK", out <- NoSlot, count <- 0

LineOf(d) == IF SharedLine THEN "accel" ELSE d

Owner == Controller \union Reader \union Irq \union {Free}

CallPC == {"idle", "check", "prepare", "create_accel", "create_gyro", "mark",
           "undo_join", "stop", "join_accel", "join_gyro", "unmark"}
IrqPC == {"none", "check", "wait", "read_event", "read_data", "lock", "push", "exited"}

Init ==
  /\ enable = FALSE
  /\ running = [d \in Device |-> FALSE]
  /\ handle = [d \in Device |-> NoSlot]
  /\ mutex = Free
  /\ fifo = <<>>
  /\ call = [c \in Controller |-> "idle"]
  /\ pc = [t \in Irq |-> "none"]
  /\ event = [t \in Irq |-> 0]
  /\ value = [t \in Irq |-> 0]
  /\ reading = [r \in Reader |-> "idle"]
  /\ delivered = [d \in Device |-> 0]
  /\ now = 0
  /\ data = [d \in Device |-> 0]
  /\ line = [d \in Device |-> <<>>]

-----------------------------------------------------------------------------
(* The environment: device d writes its data registers and pulses DRDY;    *)
(* the kernel stamps the edge, and drops it when the line's buffer is full.*)
Sense(d) ==
  /\ now < MaxTime
  /\ now' = now + 1
  /\ data' = [data EXCEPT ![d] = now']
  /\ line' = IF Len(line[LineOf(d)]) < LineDepth
               THEN [line EXCEPT ![LineOf(d)] = Append(@, now')]
               ELSE line
  /\ UNCHANGED <<ctlVars, irqVars, mutex, fifo, reading, delivered>>

-----------------------------------------------------------------------------
(* rdk_imu_accel_irq_thread and rdk_imu_gyro_irq_thread. *)

GoTo(t, label) == pc' = [pc EXCEPT ![t] = label]

(* while (st->accel_running): the locals of the last round are gone. *)
IrqCheck(t) ==
  /\ pc[t] = "check"
  /\ GoTo(t, IF running[t[1]] THEN "wait" ELSE "exited")
  /\ event' = [event EXCEPT ![t] = 0]
  /\ value' = [value EXCEPT ![t] = 0]
  /\ UNCHANGED <<ctlVars, envVars, mutex, fifo, reading, delivered>>

(* gpiod_line_event_wait: an event is ready, the timeout ran out, or the   *)
(* wait failed and the thread leaves its loop.                             *)
IrqWait(t) ==
  /\ pc[t] = "wait"
  /\ \/ line[LineOf(t[1])] # <<>> /\ GoTo(t, "read_event")
     \/ line[LineOf(t[1])] = <<>> /\ GoTo(t, "check")
     \/ GoTo(t, "exited")
  /\ UNCHANGED <<ctlVars, event, value, envVars, mutex, fifo, reading, delivered>>

(* Mutant: the event stays in the line. *)
IrqReadEventPeek(t) ==
  /\ pc[t] = "read_event"
  /\ line[LineOf(t[1])] # <<>>
  /\ event' = [event EXCEPT ![t] = Head(line[LineOf(t[1])])]
  /\ GoTo(t, "read_data")
  /\ UNCHANGED <<ctlVars, value, envVars, mutex, fifo, reading, delivered>>

(* gpiod_line_event_read blocks until there is an event, takes it and      *)
(* keeps its timestamp; when it fails the thread starts over.              *)
IrqReadEvent(t) ==
  LET l == LineOf(t[1]) IN
  /\ pc[t] = "read_event"
  /\ line[l] # <<>>
  /\ \/ /\ event' = [event EXCEPT ![t] = Head(line[l])]
        /\ line' = [line EXCEPT ![l] = Tail(@)]
        /\ GoTo(t, "read_data")
     \/ /\ GoTo(t, "check")
        /\ UNCHANGED <<event, line>>
  /\ UNCHANGED <<ctlVars, value, now, data, mutex, fifo, reading, delivered>>

(* The data registers are read over the bus and parsed; when the transfer  *)
(* fails the event is lost.                                                *)
IrqReadData(t) ==
  /\ pc[t] = "read_data"
  /\ \/ /\ value' = [value EXCEPT ![t] = data[t[1]]]
        /\ GoTo(t, "lock")
     \/ /\ GoTo(t, "check")
        /\ UNCHANGED value
  /\ UNCHANGED <<ctlVars, event, envVars, mutex, fifo, reading, delivered>>

(* Mutant: the push does not wait for the mutex. *)
IrqLockAnyway(t) ==
  /\ pc[t] = "lock"
  /\ mutex' = t
  /\ GoTo(t, "push")
  /\ UNCHANGED <<ctlVars, event, value, envVars, fifo, reading, delivered>>

IrqLock(t) ==
  /\ pc[t] = "lock"
  /\ mutex = Free
  /\ mutex' = t
  /\ GoTo(t, "push")
  /\ UNCHANGED <<ctlVars, event, value, envVars, fifo, reading, delivered>>

(* Mutants: a sample stamped with the time of its push; a push without     *)
(* the test for a full FIFO.                                               *)
IrqPushStampedLate(t) ==
  /\ pc[t] = "push"
  /\ fifo' = Queue!Put(fifo, Capacity, FifoMode,
                       [dev |-> t[1], ts |-> now, val |-> value[t]])
  /\ mutex' = Free
  /\ GoTo(t, "check")
  /\ UNCHANGED <<ctlVars, event, value, envVars, reading, delivered>>

IrqPushUnbounded(t) ==
  /\ pc[t] = "push"
  /\ fifo' = Append(fifo, [dev |-> t[1], ts |-> event[t], val |-> value[t]])
  /\ mutex' = Free
  /\ GoTo(t, "check")
  /\ UNCHANGED <<ctlVars, event, value, envVars, reading, delivered>>

IrqPush(t) ==
  /\ pc[t] = "push"
  /\ fifo' = Queue!Put(fifo, Capacity, FifoMode,
                       [dev |-> t[1], ts |-> event[t], val |-> value[t]])
  /\ mutex' = Free
  /\ GoTo(t, "check")
  /\ UNCHANGED <<ctlVars, event, value, envVars, reading, delivered>>

IrqStep(t) ==
  \/ IrqCheck(t) \/ IrqWait(t) \/ IrqReadEvent(t) \/ IrqReadData(t)
  \/ IrqLock(t) \/ IrqPush(t)

-----------------------------------------------------------------------------
(* rdk_imu_enable. *)

Resume(c, label) == call' = [call EXCEPT ![c] = label]

EnableLock(c) ==
  /\ call[c] = "idle"
  /\ mutex = Free
  /\ mutex' = c
  /\ Resume(c, "check")
  /\ UNCHANGED <<enable, running, handle, irqVars, envVars, fifo, reading, delivered>>

(* Mutant: the enable flag is not tested. *)
EnableCheckNothing(c) ==
  /\ call[c] = "check"
  /\ mutex' = Free
  /\ Resume(c, "prepare")
  /\ UNCHANGED <<enable, running, handle, irqVars, envVars, fifo, reading, delivered>>

(* A device already enabled is refused with DEVICE_BUSY; either way the    *)
(* mutex is released before anything is started.                           *)
EnableCheck(c) ==
  /\ call[c] = "check"
  /\ mutex' = Free
  /\ Resume(c, IF enable THEN "idle" ELSE "prepare")
  /\ UNCHANGED <<enable, running, handle, irqVars, envVars, fifo, reading, delivered>>

(* The thread attributes are set up, which may fail, then the flags raised.*)
EnablePrepare(c) ==
  /\ call[c] = "prepare"
  /\ \/ /\ Resume(c, "idle")
        /\ UNCHANGED running
     \/ /\ running' = [d \in Device |-> TRUE]
        /\ Resume(c, "create_accel")
  /\ UNCHANGED <<enable, handle, irqVars, envVars, mutex, fifo, reading, delivered>>

(* pthread_create gives the new thread an identity not in use. *)
Spawn(d) ==
  \E s \in Slot :
    /\ pc[<<d, s>>] = "none"
    /\ GoTo(<<d, s>>, "check")
    /\ handle' = [handle EXCEPT ![d] = s]

ClearRunning == running' = [d \in Device |-> FALSE]

EnableCreateAccel(c) ==
  /\ call[c] = "create_accel"
  /\ \/ /\ Spawn("accel")
        /\ Resume(c, "create_gyro")
        /\ UNCHANGED running
     \/ /\ ClearRunning
        /\ Resume(c, "idle")
        /\ UNCHANGED <<handle, pc>>
  /\ UNCHANGED <<enable, event, value, envVars, mutex, fifo, reading, delivered>>

(* Mutant: the accel thread is not joined when there is no gyro thread. *)
EnableCreateGyroLeaking(c) ==
  /\ call[c] = "create_gyro"
  /\ \/ /\ Spawn("gyro")
        /\ Resume(c, "mark")
        /\ UNCHANGED running
     \/ /\ ClearRunning
        /\ Resume(c, "idle")
        /\ UNCHANGED <<handle, pc>>
  /\ UNCHANGED <<enable, event, value, envVars, mutex, fifo, reading, delivered>>

EnableCreateGyro(c) ==
  /\ call[c] = "create_gyro"
  /\ \/ /\ Spawn("gyro")
        /\ Resume(c, "mark")
        /\ UNCHANGED running
     \/ /\ ClearRunning
        /\ Resume(c, "undo_join")
        /\ UNCHANGED <<handle, pc>>
  /\ UNCHANGED <<enable, event, value, envVars, mutex, fifo, reading, delivered>>

(* pthread_join of the thread st names for device d.  Joining a handle     *)
(* whose thread was joined before is undefined; here it returns at once.   *)
Join(d) ==
  LET t == <<d, handle[d]>> IN
  /\ pc[t] \in {"exited", "none"}
  /\ GoTo(t, "none")

(* The accel thread is joined when the gyro thread could not be created.   *)
EnableUndoJoin(c) ==
  /\ call[c] = "undo_join"
  /\ Join("accel")
  /\ Resume(c, "idle")
  /\ UNCHANGED <<enable, running, handle, event, value, envVars, mutex, fifo,
                 reading, delivered>>

(* st->enable = 1.  The fusion window, cleared next, is in ImuFusion. *)
EnableMark(c) ==
  /\ call[c] = "mark"
  /\ enable' = TRUE
  /\ Resume(c, "idle")
  /\ UNCHANGED <<running, handle, irqVars, envVars, mutex, fifo, reading, delivered>>

-----------------------------------------------------------------------------
(* rdk_imu_disable.  On a device that is not enabled it returns at once.   *)

DisableCheck(c) ==
  /\ call[c] = "idle"
  /\ enable
  /\ Resume(c, "stop")
  /\ UNCHANGED <<enable, running, handle, irqVars, envVars, mutex, fifo,
                 reading, delivered>>

(* Mutant: only one of the two loops is told to stop. *)
DisableStopOne(c) ==
  /\ call[c] = "stop"
  /\ running' = [running EXCEPT !["gyro"] = FALSE]
  /\ Resume(c, "join_accel")
  /\ UNCHANGED <<enable, handle, irqVars, envVars, mutex, fifo, reading, delivered>>

DisableStop(c) ==
  /\ call[c] = "stop"
  /\ ClearRunning
  /\ Resume(c, "join_accel")
  /\ UNCHANGED <<enable, handle, irqVars, envVars, mutex, fifo, reading, delivered>>

DisableJoin(c, d, here, next) ==
  /\ call[c] = here
  /\ Join(d)
  /\ Resume(c, next)
  /\ UNCHANGED <<enable, running, handle, event, value, envVars, mutex, fifo,
                 reading, delivered>>

(* Mutant: the gyro thread is not joined. *)
DisableJoinAccelOnly(c) == DisableJoin(c, "accel", "join_accel", "unmark")
DisableJoinAccel(c) == DisableJoin(c, "accel", "join_accel", "join_gyro")
DisableJoinGyro(c) == DisableJoin(c, "gyro", "join_gyro", "unmark")

DisableUnmark(c) ==
  /\ call[c] = "unmark"
  /\ enable' = FALSE
  /\ Resume(c, "idle")
  /\ UNCHANGED <<running, handle, irqVars, envVars, mutex, fifo, reading, delivered>>

(* What a call that has begun still has to do. *)
Continue(c) ==
  \/ EnableCheck(c) \/ EnablePrepare(c) \/ EnableCreateAccel(c)
  \/ EnableCreateGyro(c) \/ EnableUndoJoin(c) \/ EnableMark(c)
  \/ DisableStop(c) \/ DisableJoinAccel(c) \/ DisableJoinGyro(c) \/ DisableUnmark(c)

ControllerStep(c) == EnableLock(c) \/ DisableCheck(c) \/ Continue(c)

-----------------------------------------------------------------------------
(* rdk_imu_read_indep and rdk_imu_fifo_available. *)

ReaderLock(r) ==
  /\ reading[r] = "idle"
  /\ mutex = Free
  /\ mutex' = r
  /\ reading' = [reading EXCEPT ![r] = "locked"]
  /\ UNCHANGED <<ctlVars, irqVars, envVars, fifo, delivered>>

Unlock(r) ==
  /\ reading[r] = "locked"
  /\ mutex' = Free
  /\ reading' = [reading EXCEPT ![r] = "idle"]
  /\ UNCHANGED <<ctlVars, irqVars, envVars>>

(* Mutant: an empty FIFO is reported with the mutex still held. *)
ReadIndepKeepsLock(r) ==
  \/ /\ reading[r] = "locked"
     /\ fifo = <<>>
     /\ reading' = [reading EXCEPT ![r] = "idle"]
     /\ UNCHANGED <<ctlVars, irqVars, envVars, mutex, fifo, delivered>>
  \/ /\ Unlock(r)
     /\ fifo # <<>>
     /\ fifo' = Tail(fifo)
     /\ delivered' = [delivered EXCEPT ![Head(fifo).dev] = Head(fifo).ts]

(* rdk_imu_read_indep pops the oldest sample, if there is one. *)
ReadIndep(r) ==
  /\ Unlock(r)
  /\ \/ /\ fifo = <<>>
        /\ UNCHANGED <<fifo, delivered>>
     \/ /\ fifo # <<>>
        /\ fifo' = Tail(fifo)
        /\ delivered' = [delivered EXCEPT ![Head(fifo).dev] = Head(fifo).ts]

(* rdk_imu_fifo_available only counts. *)
FifoAvailable(r) ==
  /\ Unlock(r)
  /\ UNCHANGED <<fifo, delivered>>

ReaderStep(r) == ReaderLock(r) \/ ReadIndep(r) \/ FifoAvailable(r)

-----------------------------------------------------------------------------
Next ==
  \/ \E d \in Device : Sense(d)
  \/ \E t \in Irq : IrqStep(t)
  \/ \E c \in Controller : ControllerStep(c)
  \/ \E r \in Reader : ReaderStep(r)

Spec == Init /\ [][Next]_vars

(***************************************************************************)
(* Threads that can run do run.  The interrupt threads are created with    *)
(* SCHED_FIFO and the highest priority, so one that keeps finding the      *)
(* mutex free obtains it: strong fairness for their lock.  Nothing makes a *)
(* controller call enable or disable, nor the sensor produce.              *)
(***************************************************************************)
Fairness ==
  /\ \A t \in Irq : WF_vars(IrqStep(t)) /\ SF_vars(IrqLock(t))
  /\ \A c \in Controller : WF_vars(Continue(c))
  /\ \A r \in Reader : WF_vars(ReadIndep(r) \/ FifoAvailable(r))

FairSpec == Spec /\ Fairness

-----------------------------------------------------------------------------
Alive(t) == pc[t] \notin {"none", "exited"}

TypeOK ==
  /\ enable \in BOOLEAN
  /\ running \in [Device -> BOOLEAN]
  /\ handle \in [Device -> Slot \union {NoSlot}]
  /\ mutex \in Owner
  /\ fifo \in Seq(Sample) /\ Len(fifo) <= Capacity
  /\ call \in [Controller -> CallPC]
  /\ pc \in [Irq -> IrqPC]
  /\ event \in [Irq -> Time]
  /\ value \in [Irq -> Time]
  /\ reading \in [Reader -> {"idle", "locked"}]
  /\ delivered \in [Device -> Time]
  /\ now \in Time
  /\ data \in [Device -> Time]
  /\ line \in [Device -> Seq(Time)]

(* OneThreadPerDevice aside, the properties are about a device whose       *)
(* rdk_imu_enable and rdk_imu_disable are called by one thread.            *)

(* st->mutex protects the FIFO: of the threads that are about to touch it, *)
(* at most one is past its pthread_mutex_lock.                             *)
Critical(p) ==
  \/ p \in Controller /\ call[p] = "check"
  \/ p \in Irq /\ pc[p] = "push"
  \/ p \in Reader /\ reading[p] = "locked"

MutexProtects ==
  \A p, q \in Controller \union Irq \union Reader :
    Critical(p) /\ Critical(q) => p = q

(* However calls of enable and disable succeed or fail, no more than one   *)
(* live thread serves a device, and every thread not yet joined is the one *)
(* its handle names, so that disable can join it: none is leaked.          *)
ThreadsOwned == \A t \in Irq : pc[t] # "none" => handle[t[1]] = t[2]

(* When no call is in progress, the enable flag tells the truth: on an     *)
(* enabled device the flags that keep the loops running are up and both    *)
(* handles name a created thread; on one that is not, no thread is left    *)
(* that could still use the GPIO lines, the bus or the FIFO, which         *)
(* rdk_imu_device_deinit is then free to release.                          *)
FlagTellsTruth ==
  (\A c \in Controller : call[c] = "idle") =>
    IF enable
      THEN \A d \in Device :
             /\ running[d] /\ handle[d] \in Slot
             /\ pc[<<d, handle[d]>>] # "none"
      ELSE \A t \in Irq : pc[t] = "none"

(* The samples of one device leave the FIFO in the order they were taken,  *)
(* each at most once, across overwriting, dropping, failed reads and any   *)
(* number of disable and enable cycles.                                    *)
SamplesInOrder ==
  \A i \in 1 .. Len(fifo) :
    /\ delivered[fifo[i].dev] < fifo[i].ts
    /\ \A j \in 1 .. i - 1 : fifo[j].dev = fifo[i].dev => fifo[j].ts < fifo[i].ts

(* The event is taken before the data registers are read, so a sample is   *)
(* never older than the timestamp it carries.  Not so on a shared line,    *)
(* where the event may be the other device's.                              *)
DataNotStale ==
  SharedLine \/ \A i \in 1 .. Len(fifo) : fifo[i].val >= fifo[i].ts

(* A thread told by gpiod_line_event_wait that an event is ready still     *)
(* finds it when it reads it, and so does not block in the read, where no  *)
(* timeout would let it see the running flag.  Not so on a shared line.    *)
EventStillThere ==
  SharedLine \/ \A t \in Irq : pc[t] = "read_event" => line[LineOf(t[1])] # <<>>

(***************************************************************************)
(* The stream the readers see.  Forgetting the threads, a device has a     *)
(* sample on its way from the moment its event is taken until it is pushed *)
(* or given up.                                                            *)
(***************************************************************************)
Carrying(t) == pc[t] \in {"read_data", "lock", "push"}

Stream == INSTANCE SampleStream WITH
  Policy    <- FifoMode,
  NoSample  <- NoSlot,
  taken     <- [d \in Device |->
                  IF \E s \in Slot : Carrying(<<d, s>>)
                    THEN event[<<d, CHOOSE s \in Slot : Carrying(<<d, s>>)>>]
                    ELSE NoSlot],
  fifo      <- [i \in 1 .. Len(fifo) |-> [dev |-> fifo[i].dev, ts |-> fifo[i].ts]]

(* With separate lines, whatever enable and disable do, the readers see    *)
(* the stream of SampleStream: at most one sample of a device is under way *)
(* and it is later than all they have seen of that device.                 *)
ImplementsStream == Stream!Spec

(* A call of rdk_imu_disable returns: both threads notice the flag, even   *)
(* when no event ever comes, because their wait has a timeout.             *)
DisableReturns == \A c \in Controller : call[c] = "stop" ~> call[c] = "idle"

(* A sample taken from the bus reaches the FIFO, however often readers     *)
(* take the mutex.                                                         *)
SamplePushed == \A t \in Irq : pc[t] = "lock" ~> pc[t] = "check"

(* The comment at rdkimu.c:657: a device is not enabled twice.  The lock   *)
(* around the test of the flag is there to remove the race (line 658).     *)
OneThreadPerDevice ==
  \A t, u \in Irq : Alive(t) /\ Alive(u) /\ t[1] = u[1] => t = u
=============================================================================
