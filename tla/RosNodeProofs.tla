---------------------------- MODULE RosNodeProofs ----------------------------
(***************************************************************************)
(* Theorems about RosNode: for any number of descriptors and chip handles, *)
(* with the device started by auto_start or by the service, whenever       *)
(* SIGINT comes and whatever of the constructor fails.                     *)
(*                                                                         *)
(* Until the destructor begins to take the handle down, the node is one    *)
(* more client of the SDK, and Lifecycle's invariant holds.  The           *)
(* destructor leaves the documented order, so from there on the invariant  *)
(* says directly what is still open.                                       *)
(***************************************************************************)
EXTENDS RosNode, LifecycleProofs

(* The destructor has begun to take the handle down. *)
Late == node \in {"bus_deinit", "destroy", "gone"}

(* What the main thread has set up where it is, and which threads it may   *)
(* have beside it.  NoStray: one initialisation, of one handle, leaks      *)
(* nothing before it fails for good.                                       *)
Place ==
  /\ node = "create" => held = "nothing"
  /\ node = "bus" => held = "handle"
  /\ node = "device" => held = "bus"
  /\ node \in {"enable", "services"} => held = "device"
  /\ stage # "idle" => node = "device"
  /\ node = "device_deinit" \/ Late => ~enable
  /\ irq # {} => enable
  /\ reader \in {"check", "reading"} =>
       held = "device" /\ node \in {"constructed", "spin", "join", "aborted"}

NoStray == node \in {"create", "bus", "device"} => stray.files = {} /\ stray.chips = {}

(* The handle names everything that is open. *)
RequestedOpen == \A l \in gpio.requested : l[1] \in gpio.chips

Named ==
  /\ RequestedOpen
  /\ gpio.chips \subseteq {chip["accel"], chip["gyro"]}
  /\ files \subseteq {0, bus["accel"], bus["gyro"]}
  /\ held = "nothing" => files \subseteq {0} /\ gpio.chips = {} /\ ~buffer

(* What the destructor has done. *)
TakenDown ==
  /\ Late => /\ gpio.chips = {} /\ ~buffer
             /\ held \in {"bus", "device"} => 0 \in files
             /\ held = "device" /\ ~shared => gpio.misuse = {}
  /\ node = "bus_deinit" /\ held \in {"bus", "device"} =>
       bus["accel"] # 0 /\ bus["gyro"] # 0
  /\ node \in {"destroy", "gone"} => files \subseteq {0}

NodeInv ==
  /\ NodeTypeOK /\ (~Late => ResourceInv) /\ Place /\ NoStray /\ Named /\ TakenDown

-----------------------------------------------------------------------------
(* libgpiod keeps a line requested no longer than its chip is open. *)
OpenLines(g) == \A l \in g.requested : l[1] \in g.chips

LEMMA OpenKeeps ==
  ASSUME NEW g \in Gpio, OpenLines(g), NEW c \in Chip
  PROVE  OpenLines(OpenChip(g, c))
BY DEF OpenChip, Gpio, OpenLines

LEMMA RequestKeeps ==
  ASSUME NEW g \in Gpio, OpenLines(g), NEW l \in Line, l[1] \in g.chips
  PROVE  OpenLines(RequestLine(g, l))
BY DEF RequestLine, Gpio, OpenLines

LEMMA ReleaseKeeps ==
  ASSUME NEW g \in Gpio, OpenLines(g), NEW l \in Line
  PROVE  OpenLines(ReleaseLine(g, l))
BY DEF ReleaseLine, Gpio, OpenLines

LEMMA CloseKeeps ==
  ASSUME NEW g \in Gpio, OpenLines(g), NEW c
  PROVE  OpenLines(CloseChip(g, c))
BY DEF CloseChip, Gpio, OpenLines

(* Whatever of the initialisation had succeeded, rdk_imu_device_deinit     *)
(* closes the chips st names.                                              *)
LEMMA ReleaseIfAnyKeeps ==
  ASSUME NEW g \in Gpio, OpenLines(g), NEW l \in Line \union {Null}
  PROVE  /\ ReleaseIfAny(g, l) \in Gpio /\ ReleaseIfAny(g, l).chips = g.chips
         /\ OpenLines(ReleaseIfAny(g, l))
<1>1. CASE l = Null
  BY <1>1 DEF ReleaseIfAny
<1>2. CASE l # Null
  <2>1. l \in Line /\ ReleaseIfAny(g, l) = ReleaseLine(g, l)
    BY <1>2 DEF ReleaseIfAny
  <2>2. QED  BY <2>1, ReleaseFields, ReleaseKeeps
<1>3. QED  BY <1>1, <1>2

LEMMA CloseIfAnyKeeps ==
  ASSUME NEW g \in Gpio, OpenLines(g), NEW c \in Chip \union {Null}
  PROVE  /\ CloseIfAny(g, c) \in Gpio /\ CloseIfAny(g, c).chips = g.chips \ {c}
         /\ OpenLines(CloseIfAny(g, c))
<1>1. CASE c = Null
  <2>1. c \notin g.chips
    BY <1>1, LifecycleAssumption DEF Gpio
  <2>2. QED  BY <1>1, <2>1 DEF CloseIfAny
<1>2. CASE c # Null
  <2>1. c \in Chip /\ CloseIfAny(g, c) = CloseChip(g, c)
    BY <1>2 DEF CloseIfAny
  <2>2. QED  BY <2>1, CloseFields, CloseKeeps
<1>3. QED  BY <1>1, <1>2

LEMMA DeinitCloses ==
  ASSUME TypeOK, OpenLines(gpio)
  PROVE  /\ DeinitGpio \in Gpio /\ OpenLines(DeinitGpio)
         /\ DeinitGpio.chips = gpio.chips \ {chip["accel"], chip["gyro"]}
<1> DEFINE g1 == ReleaseIfAny(gpio, line["accel"])
           g2 == ReleaseIfAny(g1, line["gyro"])
           g3 == CloseIfAny(g2, chip["accel"])
           g4 == CloseIfAny(g3, chip["gyro"])
<1>1. /\ gpio \in Gpio
      /\ line["accel"] \in Line \union {Null} /\ line["gyro"] \in Line \union {Null}
      /\ chip["accel"] \in Chip \union {Null} /\ chip["gyro"] \in Chip \union {Null}
  BY DEF TypeOK, Gpio, Device
<1>2. DeinitGpio = g4
  BY DeinitOrder
<1>3. g1 \in Gpio /\ g1.chips = gpio.chips /\ OpenLines(g1)
  BY <1>1, ReleaseIfAnyKeeps
<1> HIDE DEF g1
<1>4. g2 \in Gpio /\ g2.chips = gpio.chips /\ OpenLines(g2)
  BY <1>1, <1>3, ReleaseIfAnyKeeps
<1> HIDE DEF g2
<1>5. g3 \in Gpio /\ g3.chips = gpio.chips \ {chip["accel"]} /\ OpenLines(g3)
  BY <1>1, <1>4, CloseIfAnyKeeps
<1> HIDE DEF g3
<1>6. /\ g4 \in Gpio /\ OpenLines(g4)
      /\ g4.chips = gpio.chips \ {chip["accel"], chip["gyro"]}
  BY <1>1, <1>5, CloseIfAnyKeeps
<1> HIDE DEF g4
<1>7. QED  BY <1>2, <1>6

-----------------------------------------------------------------------------
(* The initial state, and what most steps have in common.                  *)

LEMMA InitNode == NodeInit => NodeInv
<1> SUFFICES ASSUME NodeInit  PROVE NodeInv
  OBVIOUS
<1>1. ResourceInv
  BY InitResource DEF NodeInit
<1>2. NodeTypeOK
  BY <1>1 DEF NodeInit, NodeTypeOK, ResourceInv
<1>3. Place /\ NoStray /\ Named /\ TakenDown
  BY DEF NodeInit, Init, Place, NoStray, Named, RequestedOpen, TakenDown, Late
<1>4. QED  BY <1>1, <1>2, <1>3 DEF NodeInv

(* A step that leaves the handle alone. *)
LEMMA HandleUntouched ==
  ASSUME NodeInv, UNCHANGED vars
  PROVE  TypeOK' /\ Named' /\ (ResourceInv => ResourceInv')
<1>1. TypeOK'
  BY DEF NodeInv, NodeTypeOK, TypeOK, vars
<1>2. Named'
  BY DEF NodeInv, Named, RequestedOpen, vars
<1>3. ResourceInv => ResourceInv'
  BY ResourceKept
<1>4. QED  BY <1>1, <1>2, <1>3

(* A call that opens and closes nothing.                                   *)
LEMMA NothingOpened ==
  ASSUME NodeInv, UNCHANGED <<files, gpio, bus, chip, buffer>>,
         held' = "nothing" => held = "nothing"
  PROVE  Named'
BY DEF NodeInv, Named, RequestedOpen

LEMMA ReaderAndIrqSteps ==
  ASSUME NodeInv,
         \/ ReaderChecks \/ ReaderPublishes \/ ReaderDrops \/ Interrupt
         \/ \E d \in Device : IrqPushes(d) \/ IrqDies(d)
         \/ UNCHANGED allVars
  PROVE  NodeInv'
<1>1. UNCHANGED <<vars, node>> /\ irq' \subseteq irq
  BY DEF ReaderChecks, ReaderPublishes, ReaderDrops, Interrupt, IrqPushes, IrqDies,
         readerUnchanged, threads, allVars, nodeVars
<1>2. /\ reader' \in {"none", "check", "reading", "ended"}
      /\ reader' \in {"check", "reading"} => reader \in {"check", "reading"}
      /\ fresh' \subseteq Device /\ ok' \in BOOLEAN
      /\ UNCHANGED <<auto, running>>
  BY DEF ReaderChecks, ReaderPublishes, ReaderDrops, Interrupt, IrqPushes, IrqDies,
         readerUnchanged, threads, allVars, nodeVars, NodeInv, NodeTypeOK
<1>3. TypeOK' /\ Named' /\ (ResourceInv => ResourceInv')
  BY <1>1, HandleUntouched
<1>4. NodeTypeOK'
  BY <1>1, <1>2, <1>3 DEF NodeInv, NodeTypeOK
<1>5. Place' /\ NoStray' /\ TakenDown' /\ (~Late' => ~Late)
  BY <1>1, <1>2 DEF NodeInv, Place, NoStray, TakenDown, Late, vars
<1>6. QED  BY <1>3, <1>4, <1>5 DEF NodeInv

(* The main thread's steps that leave the handle alone. *)
LEMMA MainOnly ==
  ASSUME NodeInv, CtorStart \/ SpinStarts \/ SpinEnds \/ DtorJoin
  PROVE  NodeInv'
<1>1. UNCHANGED <<vars, auto, ok, irq, fresh>> /\ ~Late
  BY DEF CtorStart, SpinStarts, SpinEnds, DtorJoin, dtorUnchanged, Late
<1>2. TypeOK' /\ Named' /\ ResourceInv'
  BY <1>1, HandleUntouched DEF NodeInv
<1>3. NodeTypeOK'
  BY <1>1, <1>2 DEF NodeInv, NodeTypeOK, CtorStart, SpinStarts, SpinEnds, DtorJoin,
                    dtorUnchanged
<1>4. enable => held = "device"
  BY <1>1 DEF NodeInv, ResourceInv, Position
<1>5. Place' /\ NoStray' /\ TakenDown'
  <2>1. CASE CtorStart
    BY <1>1, <2>1 DEF CtorStart, NodeInv, Place, NoStray, TakenDown, Late, vars
  <2>2. CASE SpinStarts
    BY <1>1, <2>2 DEF SpinStarts, NodeInv, Place, NoStray, TakenDown, Late, vars
  <2>3. CASE SpinEnds
    BY <1>1, <2>3 DEF SpinEnds, NodeInv, Place, NoStray, TakenDown, Late, vars
  <2>4. CASE DtorJoin
    BY <1>1, <1>4, <2>4 DEF DtorJoin, dtorUnchanged, NodeInv, Place, NoStray, Named,
                            TakenDown, Late, vars
  <2>5. QED  BY <2>1, <2>2, <2>3, <2>4
<1>6. QED  BY <1>2, <1>3, <1>5 DEF NodeInv

-----------------------------------------------------------------------------
(* The constructor's calls. *)

LEMMA StepCtorCreate ==
  ASSUME NodeInv, CtorCreate  PROVE NodeInv'
<1>1. /\ node = "create" /\ ~Late /\ held = "nothing" /\ stage = "idle"
      /\ ResourceInv /\ UNCHANGED <<auto, running, reader, irq, fresh>>
  BY DEF CtorCreate, NodeInv, Place, Late, threads
<1>2. irq = {} /\ reader \notin {"check", "reading"}
  BY <1>1 DEF NodeInv, Place, ResourceInv, Position
<1>3. CASE CreateDefault /\ CtorGoesOn("bus")
  <2>1. ResourceInv'
    BY <1>1, <1>3, HandleCalls
  <2>2. NodeTypeOK'
    BY <1>1, <1>3, <2>1 DEF CtorGoesOn, NodeInv, NodeTypeOK, ResourceInv
  <2>3. files = {0} /\ gpio.chips = {}
    BY <1>1 DEF NodeInv, NoStray, Named, ResourceInv, FilesApart, BusFiles
  <2>4. Place' /\ NoStray' /\ Named' /\ TakenDown'
    BY <1>1, <1>2, <1>3, <2>3 DEF CtorGoesOn, CreateDefault, Return, NodeInv, Place, NoStray,
       Named, RequestedOpen, TakenDown, Late
  <2>5. QED  BY <2>1, <2>2, <2>4 DEF NodeInv
<1>4. CASE CtorFails /\ UNCHANGED vars
  <2>1. TypeOK' /\ Named' /\ ResourceInv'
    BY <1>1, <1>4, HandleUntouched
  <2>2. NodeTypeOK'
    BY <1>1, <1>4, <2>1 DEF CtorFails, NodeInv, NodeTypeOK
  <2>3. Place' /\ NoStray' /\ TakenDown'
    BY <1>1, <1>2, <1>4 DEF CtorFails, NodeInv, Place, NoStray, TakenDown, Late, vars
  <2>4. QED  BY <2>1, <2>2, <2>3 DEF NodeInv
<1>5. QED  BY <1>3, <1>4 DEF CtorCreate

(* A failed scan leaves nothing open, so a constructor that fails here     *)
(* holds at most the one descriptor the handle names.                      *)
LEMMA StepCtorBusInit ==
  ASSUME NodeInv, CtorBusInit  PROVE NodeInv'
<1>1. /\ node = "bus" /\ ~Late /\ held = "handle" /\ stage = "idle"
      /\ ResourceInv /\ UNCHANGED <<auto, running, reader, irq, fresh>>
      /\ files = {0} /\ gpio.chips = {} /\ stray.chips = {} /\ stray.files = {}
  <2>1. /\ node = "bus" /\ ~Late /\ held = "handle" /\ stage = "idle"
        /\ ResourceInv /\ UNCHANGED <<auto, running, reader, irq, fresh>>
        /\ stray.files = {} /\ stray.chips = {}
    BY DEF CtorBusInit, NodeInv, Place, NoStray, Late, threads
  <2>2. files = {0}
    BY <2>1 DEF ResourceInv, FilesApart, BusFiles
  <2>3. gpio.chips = {}
    BY <2>1 DEF ResourceInv, ChipsApart, ChipsInUse, Initialised, AccelOpen, BothOpen
  <2>4. QED  BY <2>1, <2>2, <2>3
<1>2. irq = {} /\ reader \notin {"check", "reading"} /\ ~enable
  BY <1>1 DEF NodeInv, Place, ResourceInv, Position
<1>3. \/ BusInitProbeFails /\ UNCHANGED files
      \/ BusInitAccelFails \/ BusInitGyroFails \/ BusInit
  BY DEF CtorBusInit
<1>4. ResourceInv'
  BY <1>1, <1>3, BusCalls
<1>5. UNCHANGED <<shared, gpio, chip, line, buffer, mutex, enable>> /\ stage' = "idle"
  BY <1>3 DEF BusInitProbeFails, BusInitAccelFails, BusInitGyroFails, BusInit, Return, stVars
<1>6. files' \subseteq {0, bus'["accel"], bus'["gyro"]}
  <2>1. CASE BusInitProbeFails /\ UNCHANGED files
    BY <1>1, <2>1
  <2>2. CASE BusInitAccelFails
    BY <1>1, <2>2 DEF BusInitAccelFails
  <2>3. CASE BusInitGyroFails
    BY <1>1, <2>3 DEF BusInitGyroFails, Device
  <2>4. CASE BusInit
    BY <1>1, <2>4 DEF BusInit, Device
  <2>5. QED  BY <1>3, <2>1, <2>2, <2>3, <2>4
<1>7. Named'
  BY <1>1, <1>3, <1>5, <1>6 DEF NodeInv, Named, RequestedOpen, BusInitProbeFails,
     BusInitAccelFails, BusInitGyroFails, BusInit
<1>8. CASE ret' = "OK"
  <2>1. BusInit
    BY <1>3, <1>8 DEF BusInitProbeFails, BusInitAccelFails, BusInitGyroFails, Return
  <2>2. held' = "bus" /\ stray' = stray /\ node' = "device" /\ ok' = ok
    BY <1>8, <2>1 DEF BusInit, CtorBusInit, CtorGoesOn
  <2>3. NodeTypeOK'
    BY <1>1, <1>4, <2>2 DEF NodeInv, NodeTypeOK, ResourceInv
  <2>4. Place' /\ NoStray' /\ TakenDown'
    BY <1>1, <1>2, <1>5, <2>2 DEF Place, NoStray, TakenDown, Late
  <2>5. QED  BY <1>4, <1>7, <2>3, <2>4 DEF NodeInv
<1>9. CASE ret' # "OK"
  <2>1. ok' = FALSE /\ node' = "constructed"
    BY <1>9 DEF CtorBusInit, CtorFails
  <2>2. NodeTypeOK'
    BY <1>1, <1>4, <2>1 DEF NodeInv, NodeTypeOK, ResourceInv
  <2>3. Place' /\ NoStray' /\ TakenDown'
    BY <1>1, <1>2, <1>5, <2>1 DEF Place, NoStray, TakenDown, Late
  <2>4. QED  BY <1>4, <1>7, <2>2, <2>3 DEF NodeInv
<1>10. QED  BY <1>8, <1>9

(* The steps of rdk_imu_device_init request a line only on a chip they     *)
(* have opened.                                                            *)
LEMMA InitKeepsLines ==
  ASSUME ResourceInv, OpenLines(gpio),
         \/ InitRegisters \/ InitAccelChip \/ InitAccelLine \/ InitAccelRequest
         \/ InitGyroShared \/ InitGyroChip \/ InitGyroLine \/ InitGyroRequest \/ InitFifo
  PROVE  OpenLines(gpio')
<1> DEFINE la == <<chip["accel"], "accel">>  lc == <<chip["gyro"], "gyro">>
<1>1. gpio \in Gpio
  BY HandlesFound
<1>2. CASE InitRegisters \/ InitGyroShared \/ InitFifo
  BY <1>2 DEF InitRegisters, InitGyroShared, InitFifo
<1>3. CASE InitAccelChip
  BY <1>1, <1>3, OpenKeeps DEF InitAccelChip
<1>4. CASE InitAccelLine
  BY <1>1, <1>4, CloseKeeps DEF InitAccelLine
<1>5. CASE InitAccelRequest
  <2>1. la \in Line /\ la[1] \in gpio.chips
    BY <1>5, HandlesFound DEF InitAccelRequest, AccelOpen, BothOpen, Initialised
  <2>2. gpio' \in {gpio, RequestLine(gpio, la)}
    BY <1>5 DEF InitAccelRequest
  <2>3. QED  BY <1>1, <2>1, <2>2, RequestKeeps
<1>6. CASE InitGyroChip
  <2>1. line["accel"] \in Line
    BY <1>6, HandlesFound DEF InitGyroChip, AccelOpen, ResourceInv, LinesUnreleased
  <2>2. OpenLines(UndoAccel(gpio))
    BY <1>1, <2>1, ReleaseFields, ReleaseKeeps, CloseKeeps DEF UndoAccel
  <2>3. QED  BY <1>1, <1>6, <2>2, OpenKeeps DEF InitGyroChip
<1>7. CASE InitGyroLine
  <2>1. line["accel"] \in Line /\ chip["gyro"] \in Chip
    BY <1>7, HandlesFound DEF InitGyroLine, BothOpen, Initialised, ResourceInv,
                              LinesUnreleased
  <2>2. CloseChip(gpio, chip["gyro"]) \in Gpio /\ OpenLines(CloseChip(gpio, chip["gyro"]))
    BY <1>1, <2>1, CloseFields, CloseKeeps
  <2>3. OpenLines(UndoAccel(CloseChip(gpio, chip["gyro"])))
    BY <2>1, <2>2, ReleaseFields, ReleaseKeeps, CloseKeeps DEF UndoAccel
  <2>4. QED  BY <1>7, <2>3 DEF InitGyroLine
<1>8. CASE InitGyroRequest
  <2>1. lc \in Line /\ lc[1] \in gpio.chips
    BY <1>8, HandlesFound DEF InitGyroRequest, BothOpen, Initialised
  <2>2. gpio' \in {gpio, RequestLine(gpio, lc)}
    BY <1>8 DEF InitGyroRequest
  <2>3. QED  BY <1>1, <2>1, <2>2, RequestKeeps
<1>9. QED  BY <1>2, <1>3, <1>4, <1>5, <1>6, <1>7, <1>8

LEMMA StepCtorDeviceInit ==
  ASSUME NodeInv, CtorDeviceInit  PROVE NodeInv'
<1> DEFINE Init1 == \/ InitRegisters \/ InitAccelChip \/ InitAccelLine \/ InitAccelRequest
                    \/ InitGyroShared \/ InitGyroChip \/ InitGyroLine \/ InitGyroRequest
<1>1. /\ node = "device" /\ ~Late /\ held = "bus" /\ OpenLines(gpio)
      /\ ResourceInv /\ UNCHANGED <<auto, running, reader, irq, fresh>>
      /\ stray.chips = {} /\ stray.files = {}
  BY DEF CtorDeviceInit, NodeInv, Place, NoStray, Late, threads, Named, RequestedOpen,
         OpenLines
<1>2. irq = {} /\ reader \notin {"check", "reading"} /\ ~enable
  BY <1>1 DEF NodeInv, Place, ResourceInv, Position
<1>3. Init1 \/ InitFifo
  BY DEF CtorDeviceInit
<1>4. ResourceInv'
  BY <1>1, <1>3, ResourceKept DEF Next
<1>5. OpenLines(gpio')
  BY <1>1, <1>3, InitKeepsLines
<1>6. UNCHANGED <<shared, files, bus, enable>>
  BY <1>3 DEF InitRegisters, InitAccelChip, InitAccelLine, InitAccelRequest, InitGyroShared,
     InitGyroChip, InitGyroLine, InitGyroRequest, InitFifo, initUnchanged, stVars
<1>7. CASE Init1
  <2>1. UNCHANGED <<buffer, mutex, held, stray>> /\ (stage' = "idle" => ret' = "ERROR")
    BY <1>7 DEF InitRegisters, InitAccelChip, InitAccelLine, InitAccelRequest,
       InitGyroShared, InitGyroChip, InitGyroLine, InitGyroRequest, initUnchanged, stVars,
       Return
  <2>2. gpio'.chips \subseteq {chip'["accel"], chip'["gyro"]}
    BY <1>1, <1>4, <2>1 DEF ResourceInv, ChipsApart, ChipsInUse
  <2>3. Named'
    BY <1>1, <1>5, <1>6, <2>1, <2>2 DEF NodeInv, Named, RequestedOpen, OpenLines
  <2>4. /\ stage' # "idle" => node' = "device" /\ ok' = ok
        /\ stage' = "idle" => node' = "constructed" /\ ok' = FALSE
    BY <2>1 DEF CtorDeviceInit, CtorGoesOn, CtorFails
  <2>5. NodeTypeOK'
    BY <1>1, <1>4, <2>4 DEF NodeInv, NodeTypeOK, ResourceInv
  <2>6. Place' /\ NoStray' /\ TakenDown'
    BY <1>1, <1>2, <1>6, <2>1, <2>4 DEF Place, NoStray, TakenDown, Late
  <2>7. QED  BY <1>4, <2>3, <2>5, <2>6 DEF NodeInv
<1>8. CASE InitFifo
  <2>1. /\ stage' = "idle" /\ UNCHANGED <<gpio, chip>>
        /\ \/ ret' = "ERROR" /\ UNCHANGED <<buffer, held>>
           \/ ret' = "OK" /\ held' = "device"
    BY <1>8 DEF InitFifo, Return
  <2>2. Named'
    BY <1>1, <1>6, <2>1 DEF NodeInv, Named, RequestedOpen
  <2>3. /\ ret' = "OK" => node' \in {"enable", "services"} /\ ok' = ok
        /\ ret' # "OK" => node' = "constructed" /\ ok' = FALSE
    BY <2>1 DEF CtorDeviceInit, CtorGoesOn, CtorFails
  <2>4. NodeTypeOK'
    BY <1>1, <1>4, <2>3 DEF NodeInv, NodeTypeOK, ResourceInv
  <2>5. Place' /\ NoStray' /\ TakenDown'
    BY <1>1, <1>2, <1>6, <2>1, <2>3 DEF Place, NoStray, TakenDown, Late
  <2>6. QED  BY <1>4, <2>2, <2>4, <2>5 DEF NodeInv
<1>9. QED  BY <1>3, <1>7, <1>8

-----------------------------------------------------------------------------
(* rdk_imu_enable and rdk_imu_disable, by the constructor and the services.*)

LEMMA EnableDisable ==
  ASSUME NodeInv, CtorEnable \/ EnableService \/ DisableService
  PROVE  NodeInv'
<1>1. /\ ~Late /\ node \in {"enable", "spin"} /\ held = "device" /\ ResourceInv
      /\ Enable \/ Disable
      /\ UNCHANGED <<auto, running, reader>>
  BY DEF CtorEnable, EnableService, DisableService, EnableThreads, DisableThreads, Enable,
         Disable, Late, NodeInv
<1>2. ResourceInv'
  BY <1>1, EnableCalls
<1>3. /\ UNCHANGED <<shared, files, gpio, bus, chip, line, buffer, mutex, held, stray>>
      /\ stage' = "idle"
  BY <1>1 DEF Enable, Disable, Return
<1>4. Named'
  BY <1>3, NothingOpened
<1>5. /\ node' \in {"services", "constructed", "spin"}
      /\ node' # "spin" => node # "spin"
      /\ node' = "services" \/ node' = "constructed" \/ node' = node
      /\ ok' \in BOOLEAN
  BY DEF CtorEnable, EnableService, DisableService, CtorGoesOn, CtorFails, NodeInv,
         NodeTypeOK
<1>6. irq' \subseteq Device /\ fresh' \subseteq Device /\ (irq' # {} => enable')
  <2>1. irq \subseteq Device /\ fresh \subseteq Device /\ (irq # {} => enable)
    BY DEF NodeInv, NodeTypeOK, Place
  <2>2. CASE EnableThreads
    <3>1. irq' = (IF ret' = "OK" THEN Device ELSE irq) /\ Enable
      BY <2>2 DEF EnableThreads
    <3>2. fresh' \subseteq Device
      <4>1. fresh' \in SUBSET fresh \/ fresh' \in {fresh, fresh \union {"accel"}}
        BY <2>2 DEF EnableThreads
      <4>2. QED  BY <2>1, <4>1 DEF Device
    <3>3. QED  BY <2>1, <3>1, <3>2 DEF Enable, Return
  <2>3. CASE DisableThreads /\ UNCHANGED fresh
    BY <2>1, <2>3 DEF DisableThreads
  <2>4. QED  BY <2>2, <2>3 DEF CtorEnable, EnableService, DisableService
<1>7. NodeTypeOK'
  BY <1>1, <1>2, <1>5, <1>6 DEF NodeInv, NodeTypeOK, ResourceInv
<1>8. Place' /\ NoStray' /\ TakenDown'
  <2>1. reader \in {"check", "reading"} => node = "spin" /\ node' \in {"constructed", "spin"}
    BY <1>1 DEF NodeInv, Place, CtorEnable, EnableService, DisableService
  <2>2. QED  BY <1>1, <1>3, <1>5, <1>6, <2>1 DEF Place, NoStray, TakenDown, Late
<1>9. QED  BY <1>2, <1>4, <1>7, <1>8 DEF NodeInv

-----------------------------------------------------------------------------
(* The destructor. *)

LEMMA StepDtorDisable ==
  ASSUME NodeInv, DtorDisable  PROVE NodeInv'
<1>1. /\ node = "disable" /\ node' = "device_deinit" /\ ~Late /\ ~Late'
      /\ UNCHANGED <<shared, files, gpio, bus, chip, line, buffer, mutex, held, stage, ret,
                     stray, auto, ok, running, reader, fresh>>
      /\ enable' = FALSE /\ irq' = IF enable THEN {} ELSE irq
  BY DEF DtorDisable, dtorUnchanged, Late
<1>2. ResourceInv'
  <2>1. ResourceInv
    BY <1>1 DEF NodeInv
  <2>2. TypeOK'
    BY <1>1, <2>1 DEF ResourceInv, TypeOK
  <2>3. Position' /\ ChipsApart' /\ FilesApart' /\ LinesUnreleased' /\ HandlesLive'
    BY <1>1, <2>1 DEF ResourceInv, Position, ChipsApart, FilesApart, LinesUnreleased,
       HandlesLive, ChipsInUse, BusFiles, Initialised
  <2>4. QED  BY <2>2, <2>3 DEF ResourceInv
<1>3. irq' = {}
  BY <1>1 DEF NodeInv, Place
<1>4. NodeTypeOK'
  BY <1>1, <1>2, <1>3 DEF NodeInv, NodeTypeOK, ResourceInv
<1>5. Named'
  BY <1>1, NothingOpened
<1>6. Place' /\ NoStray' /\ TakenDown'
  BY <1>1, <1>3 DEF NodeInv, Place, NoStray, TakenDown, Late
<1>7. QED  BY <1>2, <1>4, <1>5, <1>6 DEF NodeInv

LEMMA StepDtorDeviceDeinit ==
  ASSUME NodeInv, DtorDeviceDeinit  PROVE NodeInv'
<1>1. /\ node = "device_deinit" /\ ~enable /\ ~Late /\ ResourceInv /\ OpenLines(gpio)
      /\ stage = "idle"
  BY DEF DtorDeviceDeinit, NodeInv, Place, Late, Named, RequestedOpen, OpenLines
<1>2. /\ gpio' = DeinitGpio /\ chip' = Cleared /\ line' = Cleared
      /\ mutex' = "destroyed" /\ buffer' = FALSE /\ node' = "bus_deinit"
      /\ UNCHANGED <<shared, files, bus, enable, held, stage, ret, stray, auto, ok, running,
                     reader, irq, fresh>>
  BY <1>1 DEF DtorDeviceDeinit, dtorUnchanged
<1>3. gpio' \in Gpio /\ OpenLines(gpio') /\ gpio'.chips = {}
  BY <1>1, <1>2, DeinitCloses DEF ResourceInv, NodeInv, Named
<1>4. held = "device" /\ ~shared => gpio'.misuse = {}
  BY <1>1, <1>2, DeinitFields DEF ResourceInv, HandlesLive
<1>5. held \in {"bus", "device"} => 0 \in files /\ bus["accel"] # 0 /\ bus["gyro"] # 0
  BY <1>1 DEF ResourceInv, FilesApart, BusFiles
<1>6. NodeTypeOK'
  <2>1. /\ chip' \in [Device -> Chip \union {Null}]
        /\ line' \in [Device -> Line \union {Null}]
    BY <1>2 DEF Cleared
  <2>2. TypeOK'
    BY <1>1, <1>2, <1>3, <2>1 DEF ResourceInv, TypeOK, Gpio
  <2>3. QED  BY <1>2, <2>2 DEF NodeInv, NodeTypeOK
<1>7. Named'
  BY <1>2, <1>3 DEF NodeInv, Named, RequestedOpen, OpenLines
<1>8. Place' /\ NoStray' /\ TakenDown' /\ Late'
  BY <1>1, <1>2, <1>3, <1>4, <1>5 DEF NodeInv, Place, NoStray, TakenDown, Late
<1>9. QED  BY <1>6, <1>7, <1>8 DEF NodeInv

LEMMA StepDtorBusDeinit ==
  ASSUME NodeInv, DtorBusDeinit  PROVE NodeInv'
<1>1. /\ node = "bus_deinit" /\ node' = "destroy" /\ Late /\ Late'
      /\ files' = files \ {bus["accel"], bus["gyro"]}
      /\ bus' = [d \in Device |-> -1]
      /\ UNCHANGED <<shared, gpio, chip, line, buffer, mutex, enable, held, stage, ret,
                     stray, auto, ok, running, reader, irq, fresh>>
  BY DEF DtorBusDeinit, dtorUnchanged, Late, Device
<1>2. files' \subseteq {0}
  BY <1>1 DEF NodeInv, Named
<1>3. NodeTypeOK'
  <2>1. bus' \in [Device -> Fd \union {-1}]
    BY <1>1
  <2>2. TypeOK'
    BY <1>1, <2>1 DEF NodeInv, NodeTypeOK, TypeOK
  <2>3. QED  BY <1>1, <2>2 DEF NodeInv, NodeTypeOK
<1>4. Named'
  BY <1>1, <1>2 DEF NodeInv, Named, RequestedOpen
<1>5. Place' /\ NoStray' /\ TakenDown'
  BY <1>1, <1>2 DEF NodeInv, Place, NoStray, TakenDown, Late
<1>6. QED  BY <1>1, <1>3, <1>4, <1>5 DEF NodeInv

LEMMA StepDtorDestroy ==
  ASSUME NodeInv, DtorDestroy  PROVE NodeInv'
<1>1. /\ node = "destroy" /\ node' = "gone" /\ Late /\ Late' /\ buffer' = FALSE
      /\ UNCHANGED <<shared, files, gpio, bus, chip, line, mutex, enable, held, stage, ret,
                     stray, auto, ok, running, reader, irq, fresh>>
  BY DEF DtorDestroy, dtorUnchanged, Late
<1>2. NodeTypeOK'
  <2>1. TypeOK'
    BY <1>1 DEF NodeInv, NodeTypeOK, TypeOK
  <2>2. QED  BY <1>1, <2>1 DEF NodeInv, NodeTypeOK
<1>3. Named'
  BY <1>1 DEF NodeInv, Named, RequestedOpen
<1>4. Place' /\ NoStray' /\ TakenDown'
  BY <1>1 DEF NodeInv, Place, NoStray, TakenDown, Late
<1>5. QED  BY <1>1, <1>2, <1>3, <1>4 DEF NodeInv

-----------------------------------------------------------------------------
(* The invariant of the node holds in every reachable state. *)
THEOREM NodeInvariant == NodeSpec => []NodeInv
<1>1. NodeInv /\ [NodeNext]_allVars => NodeInv'
  <2> SUFFICES ASSUME NodeInv, [NodeNext]_allVars  PROVE NodeInv'
    OBVIOUS
  <2>1. CASE CtorCreate
    BY <2>1, StepCtorCreate
  <2>2. CASE CtorBusInit
    BY <2>2, StepCtorBusInit
  <2>3. CASE CtorDeviceInit
    BY <2>3, StepCtorDeviceInit
  <2>4. CASE CtorEnable \/ EnableService \/ DisableService
    BY <2>4, EnableDisable
  <2>5. CASE CtorStart \/ SpinStarts \/ SpinEnds \/ DtorJoin
    BY <2>5, MainOnly
  <2>6. CASE DtorDisable
    BY <2>6, StepDtorDisable
  <2>7. CASE DtorDeviceDeinit
    BY <2>7, StepDtorDeviceDeinit
  <2>8. CASE DtorBusDeinit
    BY <2>8, StepDtorBusDeinit
  <2>9. CASE DtorDestroy
    BY <2>9, StepDtorDestroy
  <2>10. CASE \/ ReaderChecks \/ ReaderPublishes \/ ReaderDrops \/ Interrupt
              \/ \E d \in Device : IrqPushes(d) \/ IrqDies(d)
              \/ UNCHANGED allVars
    BY <2>10, ReaderAndIrqSteps
  <2>11. QED
    BY <2>1, <2>2, <2>3, <2>4, <2>5, <2>6, <2>7, <2>8, <2>9, <2>10 DEF NodeNext, Main
<1>2. QED  BY <1>1, InitNode, PTL DEF NodeSpec

(* Types, for any number of descriptors and chip handles. *)
THEOREM NodeTypesCorrect == NodeSpec => []NodeTypeOK
<1>1. NodeInv => NodeTypeOK
  BY DEF NodeInv
<1>2. QED  BY <1>1, NodeInvariant, PTL

(* No thread of the node loses what it uses: the destructor, whenever      *)
(* SIGINT starts it and whatever the services did before, takes nothing    *)
(* away from a living interrupt thread or from the reader.                 *)
THEOREM ThreadsKeepResources == NodeSpec => []ThreadsHaveResources
<1>1. NodeInv => ThreadsHaveResources
  <2> SUFFICES ASSUME NodeInv  PROVE ThreadsHaveResources
    OBVIOUS
  <2>1. irq # {} => enable /\ ~Late
    BY DEF NodeInv, Place
  <2>2. reader \in {"check", "reading"} => held = "device" /\ ~Late
    BY DEF NodeInv, Place, Late
  <2>3. irq # {} => held = "device"
    BY <2>1 DEF NodeInv, ResourceInv, Position
  <2>4. held = "device" /\ ~Late =>
          /\ buffer /\ mutex = "ready"
          /\ \A d \in Device : bus[d] \in files \ {0} /\ chip[d] \in gpio.chips
    <3> SUFFICES ASSUME held = "device", ~Late
                 PROVE  /\ buffer /\ mutex = "ready"
                        /\ \A d \in Device : bus[d] \in files \ {0} /\ chip[d] \in gpio.chips
      OBVIOUS
    <3>1. ResourceInv /\ Initialised
      BY DEF NodeInv, Initialised
    <3>2. buffer /\ mutex = "ready"
      BY <3>1 DEF ResourceInv, Position
    <3>3. bus["accel"] \in files \ {0} /\ bus["gyro"] \in files \ {0}
      BY <3>1 DEF ResourceInv, FilesApart, BusFiles
    <3>4. QED  BY <3>1, <3>2, <3>3, HandlesFound DEF Device
  <2>5. QED  BY <2>1, <2>2, <2>3, <2>4 DEF ThreadsHaveResources
<1>2. QED  BY <1>1, NodeInvariant, PTL

(* A process that has dropped its node has nothing of the SDK left open,   *)
(* however far its constructor got.  It has kept descriptor 0 only if both *)
(* buses were opened (rdkimu_bus.c:736), and it is known to have touched   *)
(* no handle twice only if the initialisation was complete (rdkimu.c:567)  *)
(* and each device had a line of its own (rdkimu.c:626, 637).              *)
THEOREM ExitLeavesNothing == NodeSpec => []ExitReleasesAll
<1>1. NodeInv => ExitReleasesAll
  <2> SUFFICES ASSUME NodeInv, node = "gone"  PROVE ExitReleasesAll
    BY DEF ExitReleasesAll
  <2>1. /\ files \subseteq {0} /\ gpio.chips = {} /\ ~buffer
        /\ held \in {"bus", "device"} => 0 \in files
        /\ held = "device" /\ ~shared => gpio.misuse = {}
    BY DEF NodeInv, TakenDown, Late
  <2>2. gpio.requested = {}
    BY <2>1 DEF NodeInv, Named, RequestedOpen
  <2>3. irq = {} /\ reader \in {"none", "ended"}
    BY DEF NodeInv, NodeTypeOK, Place, Late
  <2>4. QED  BY <2>1, <2>2, <2>3 DEF ExitReleasesAll
<1>2. QED  BY <1>1, NodeInvariant, PTL
=============================================================================
