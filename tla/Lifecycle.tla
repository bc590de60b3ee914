------------------------------ MODULE Lifecycle ------------------------------
(***************************************************************************)
(* The life of a device handle: rdk_imu_create_default, rdk_imu_bus_init,  *)
(* rdk_imu_device_init and their counterparts, and what they acquire: file *)
(* descriptors, GPIO chips and lines, the FIFO's buffer, the mutex.        *)
(*                                                                         *)
(* One client calls them in the order rdkimu.h:210-231 documents.  After a *)
(* failure it tries again or undoes what had succeeded before, as          *)
(* core/examples/test.c does.  Every call may fail wherever a system call, *)
(* libgpiod or the sensor can.                                             *)
(***************************************************************************)
EXTENDS Integers

CONSTANTS
  MaxFd,      \* the process can have the descriptors 0 .. MaxFd open
  Chip,       \* the handles libgpiod can give for an open GPIO chip
  Null        \* the null pointer

Device == {"accel", "gyro"}
Fd == 0 .. MaxFd

(* A line handle belongs to the chip it was looked up in. *)
Line == Chip \X Device

ASSUME LifecycleAssumption ==
  /\ MaxFd \in Nat
  /\ Null \notin Chip \union Line

VARIABLES
  shared,  \* both DRDY outputs are wired to one GPIO line, and configured so
  files,   \* the descriptors open in the process; 0 is its standard input
  gpio,    \* libgpiod: chips open, lines requested, lines released, misuse
  bus,     \* st->accel_bus.fd and st->gyro_bus.fd
  chip,    \* st->accel_drdy_gpio_chip and st->gyro_drdy_gpio_chip
  line,    \* st->accel_drdy_gpio_line and st->gyro_drdy_gpio_line
  buffer,  \* st->imu_fifo.buffer is allocated
  mutex,   \* st->mutex
  enable,  \* st->enable
  held,    \* what the client has set up
  stage,   \* where its call of rdk_imu_device_init is
  ret,     \* what its last call returned
  stray    \* history: what failed calls left open behind them

stVars == <<bus, chip, line, buffer, mutex, enable>>
vars == <<shared, files, gpio, bus, chip, line, buffer, mutex, enable, held, stage, ret,
          stray>>

Cleared == [d \in Device |-> Null]

Init ==
  /\ shared \in BOOLEAN
  /\ files = {0}
  /\ gpio = [chips |-> {}, requested |-> {}, released |-> {}, misuse |-> {}]
  /\ bus = [d \in Device |-> 0]
  /\ chip = Cleared /\ line = Cleared
  /\ buffer = FALSE
  /\ mutex = "zero"
  /\ enable = FALSE
  /\ held = "nothing"
  /\ stage = "idle"
  /\ ret = "OK"
  /\ stray = [files |-> {}, chips |-> {}]

-----------------------------------------------------------------------------
(* libgpiod.  Closing a chip releases its lines and frees the handle, which *)
(* a chip opened later may be given again.                                 *)

OpenChip(g, c) ==
  [g EXCEPT !.chips = @ \union {c}, !.released = {l \in @ : l[1] # c}]

RequestLine(g, l) == [g EXCEPT !.requested = @ \union {l}]

ReleaseLine(g, l) ==
  [g EXCEPT !.requested = @ \ {l}, !.released = @ \union {l},
            !.misuse = @ \union (IF l \in g.released THEN {"released twice"} ELSE {})
                         \union (IF l[1] \in g.chips THEN {} ELSE {"freed handle used"})]

CloseChip(g, c) ==
  [g EXCEPT !.chips = @ \ {c}, !.requested = {l \in @ : l[1] # c},
            !.misuse = IF c \in g.chips THEN @ ELSE @ \union {"freed handle used"}]

(* open() gives the lowest descriptor that is free.  Those that libgpiod   *)
(* and the listings of /dev open for themselves are not counted.           *)
LowestFree(f, used) == f \in Fd \ used /\ \A g \in Fd \ used : f <= g

Return(r) == ret' = r /\ stage' = "idle"

-----------------------------------------------------------------------------
(* rdk_imu_create_default: malloc and memset. *)
CreateDefault ==
  /\ held = "nothing"
  /\ bus' = [d \in Device |-> 0]
  /\ chip' = Cleared /\ line' = Cleared
  /\ buffer' = FALSE
  /\ mutex' = "zero"
  /\ enable' = FALSE
  /\ held' = "handle"
  /\ Return("OK")
  /\ UNCHANGED <<shared, files, gpio, stray>>

Destroy ==
  /\ held = "handle"
  /\ buffer' = FALSE
  /\ held' = "nothing"
  /\ Return("OK")
  /\ UNCHANGED <<shared, files, gpio, bus, chip, line, mutex, enable, stray>>

(* rdk_imu_bus_init fails before it has stored anything: the scan finds no *)
(* device, a named bus does not open or a chip id is wrong.  When the      *)
(* second of two named buses does not open, the first one stays open.      *)
BusInitProbeFails ==
  /\ held = "handle"
  /\ Return("ERROR")
  /\ \/ UNCHANGED <<files, stray>>
     \/ \E f \in Fd :
          /\ LowestFree(f, files)
          /\ files' = files \union {f}
          /\ stray' = [stray EXCEPT !.files = @ \union {f}]
  /\ UNCHANGED <<shared, gpio, stVars, held>>

BusInitAccelFails ==
  /\ held = "handle"
  /\ bus' = [bus EXCEPT !["accel"] = -1]
  /\ Return("ERROR")
  /\ UNCHANGED <<shared, files, gpio, chip, line, buffer, mutex, enable, held, stray>>

BusInitGyroFails ==
  /\ held = "handle"
  /\ \E f \in Fd :
       /\ LowestFree(f, files)
       /\ files' = files \union {f}
       /\ bus' = [d \in Device |-> IF d = "accel" THEN f ELSE -1]
       /\ stray' = [stray EXCEPT !.files = @ \union {f}]
  /\ Return("ERROR")
  /\ UNCHANGED <<shared, gpio, chip, line, buffer, mutex, enable, held>>

BusInit ==
  /\ held = "handle"
  /\ \E f, g \in Fd :
       /\ LowestFree(f, files)
       /\ LowestFree(g, files \union {f})
       /\ files' = files \union {f, g}
       /\ bus' = [d \in Device |-> IF d = "accel" THEN f ELSE g]
  /\ held' = "bus"
  /\ Return("OK")
  /\ UNCHANGED <<shared, gpio, chip, line, buffer, mutex, enable, stray>>

(* Mutant: the descriptor of the gyro is forgotten, not closed. *)
BusDeinitForgetsGyro ==
  /\ held = "bus" /\ stage = "idle"
  /\ files' = files \ {bus["accel"]}
  /\ bus' = [d \in Device |-> -1]
  /\ held' = "handle"
  /\ Return("OK")
  /\ UNCHANGED <<shared, gpio, chip, line, buffer, mutex, enable, stray>>

(* rdk_imu_bus_deinit closes every descriptor that is not negative. *)
BusDeinit ==
  /\ held = "bus" /\ stage = "idle"
  /\ files' = files \ {bus[d] : d \in Device}
  /\ bus' = [d \in Device |-> -1]
  /\ held' = "handle"
  /\ Return("OK")
  /\ UNCHANGED <<shared, gpio, chip, line, buffer, mutex, enable, stray>>

-----------------------------------------------------------------------------
(* rdk_imu_device_init *)

initUnchanged == <<shared, files, bus, buffer, mutex, enable, held>>

(* The registers of the sensor are written; any transfer may fail.         *)
InitRegisters ==
  /\ held = "bus" /\ stage = "idle"
  /\ \/ Return("ERROR")
     \/ stage' = "accel_chip" /\ UNCHANGED ret
  /\ UNCHANGED <<shared, files, gpio, stVars, held, stray>>

(* Mutant: a chip that could not be opened goes unnoticed. *)
InitAccelChipUnchecked ==
  /\ stage = "accel_chip"
  /\ \/ /\ chip' = [chip EXCEPT !["accel"] = Null]
        /\ UNCHANGED gpio
     \/ \E c \in Chip \ gpio.chips :
          /\ gpio' = OpenChip(gpio, c)
          /\ chip' = [chip EXCEPT !["accel"] = c]
  /\ stage' = "accel_line"
  /\ UNCHANGED <<initUnchanged, line, ret, stray>>

InitAccelChip ==
  /\ stage = "accel_chip"
  /\ \/ /\ chip' = [chip EXCEPT !["accel"] = Null]
        /\ Return("ERROR")
        /\ UNCHANGED gpio
     \/ \E c \in Chip \ gpio.chips :
          /\ gpio' = OpenChip(gpio, c)
          /\ chip' = [chip EXCEPT !["accel"] = c]
          /\ stage' = "accel_line" /\ UNCHANGED ret
  /\ UNCHANGED <<initUnchanged, line, stray>>

InitAccelLine ==
  /\ stage = "accel_line"
  /\ \/ /\ gpio' = CloseChip(gpio, chip["accel"])
        /\ Return("ERROR")
     \/ /\ stage' = "accel_request"
        /\ UNCHANGED <<gpio, ret>>
  /\ UNCHANGED <<initUnchanged, chip, line, stray>>

(* The request of a line reports failure with -1, stored in an             *)
(* rdk_imu_err_t.  That enumeration has no negative member, so the         *)
(* compiler the Makefile names makes it unsigned and the test ret < 0 never*)
(* holds: a line that was refused is kept like one that was granted.       *)
InitAccelRequest ==
  LET l == <<chip["accel"], "accel">> IN
  /\ stage = "accel_request"
  /\ gpio' \in {gpio, RequestLine(gpio, l)}
  /\ line' = [line EXCEPT !["accel"] = l]
  /\ stage' = "gyro_chip"
  /\ UNCHANGED <<initUnchanged, chip, ret, stray>>

(* A shared line: the handles of the accel are copied. *)
InitGyroShared ==
  /\ stage = "gyro_chip"
  /\ shared
  /\ chip' = [chip EXCEPT !["gyro"] = chip["accel"]]
  /\ line' = [line EXCEPT !["gyro"] = line["accel"]]
  /\ stage' = "fifo"
  /\ UNCHANGED <<initUnchanged, gpio, ret, stray>>

UndoAccel(g) == CloseChip(ReleaseLine(g, line["accel"]), chip["accel"])

InitGyroChip ==
  /\ stage = "gyro_chip"
  /\ ~shared
  /\ \/ /\ chip' = [chip EXCEPT !["gyro"] = Null]
        /\ gpio' = UndoAccel(gpio)
        /\ Return("ERROR")
     \/ \E c \in Chip \ gpio.chips :
          /\ gpio' = OpenChip(gpio, c)
          /\ chip' = [chip EXCEPT !["gyro"] = c]
          /\ stage' = "gyro_line" /\ UNCHANGED ret
  /\ UNCHANGED <<initUnchanged, line, stray>>

(* Mutant: the accel chip is closed before its line is released. *)
InitGyroLineSwapped ==
  /\ stage = "gyro_line"
  /\ \/ /\ gpio' = ReleaseLine(CloseChip(CloseChip(gpio, chip["gyro"]), chip["accel"]),
                               line["accel"])
        /\ Return("ERROR")
     \/ /\ stage' = "gyro_request"
        /\ UNCHANGED <<gpio, ret>>
  /\ UNCHANGED <<initUnchanged, chip, line, stray>>

InitGyroLine ==
  /\ stage = "gyro_line"
  /\ \/ /\ gpio' = UndoAccel(CloseChip(gpio, chip["gyro"]))
        /\ Return("ERROR")
     \/ /\ stage' = "gyro_request"
        /\ UNCHANGED <<gpio, ret>>
  /\ UNCHANGED <<initUnchanged, chip, line, stray>>

InitGyroRequest ==
  LET l == <<chip["gyro"], "gyro">> IN
  /\ stage = "gyro_request"
  /\ gpio' \in {gpio, RequestLine(gpio, l)}
  /\ line' = [line EXCEPT !["gyro"] = l]
  /\ stage' = "fifo"
  /\ UNCHANGED <<initUnchanged, chip, ret, stray>>

(* Mutant: success is returned without initialising the mutex.             *)
InitFifoOnly ==
  /\ stage = "fifo"
  /\ \/ /\ Return("ERROR")
        /\ stray' = [stray EXCEPT !.chips = @ \union {chip[d] : d \in Device}]
        /\ UNCHANGED <<buffer, mutex, held>>
     \/ /\ buffer' = TRUE
        /\ held' = "device"
        /\ Return("OK")
        /\ UNCHANGED <<mutex, stray>>
  /\ UNCHANGED <<shared, files, gpio, bus, chip, line, enable>>

(* rdk_imu_fifo_init and pthread_mutex_init.  When the FIFO fails, the     *)
(* lines and chips stay open.                                              *)
InitFifo ==
  /\ stage = "fifo"
  /\ \/ /\ Return("ERROR")
        /\ stray' = [stray EXCEPT !.chips = @ \union {chip[d] : d \in Device}]
        /\ UNCHANGED <<buffer, mutex, held>>
     \/ /\ buffer' = TRUE
        /\ mutex' = "ready"
        /\ held' = "device"
        /\ Return("OK")
        /\ UNCHANGED stray
  /\ UNCHANGED <<shared, files, gpio, bus, chip, line, enable>>

-----------------------------------------------------------------------------
(* rdk_imu_enable and rdk_imu_disable, in outline; ImuAcquire has them. *)

Enable ==
  /\ held = "device"
  /\ \/ enable /\ Return("BUSY") /\ UNCHANGED enable
     \/ ~enable /\ Return("ERROR") /\ UNCHANGED enable
     \/ ~enable /\ Return("OK") /\ enable' = TRUE
  /\ UNCHANGED <<shared, files, gpio, bus, chip, line, buffer, mutex, held, stray>>

Disable ==
  /\ held = "device"
  /\ enable' = FALSE
  /\ Return("OK")
  /\ UNCHANGED <<shared, files, gpio, bus, chip, line, buffer, mutex, held, stray>>

DeviceDeinitBusy ==
  /\ held = "device"
  /\ enable
  /\ Return("BUSY")
  /\ UNCHANGED <<shared, files, gpio, stVars, held, stray>>

(* What rdk_imu_device_deinit has libgpiod do.  By the time the gyro       *)
(* handles are compared with those of the accel, the latter are null.      *)
DeinitGpio ==
  LET Released(g, l, except) == IF l \in {Null, except} THEN g ELSE ReleaseLine(g, l)
      Closed(g, c, except)   == IF c \in {Null, except} THEN g ELSE CloseChip(g, c)
      accelLine == [line EXCEPT !["accel"] = Null]
      accelChip == [chip EXCEPT !["accel"] = Null]
      lines == Released(Released(gpio, line["accel"], Null), line["gyro"], accelLine["accel"])
  IN Closed(Closed(lines, chip["accel"], Null), chip["gyro"], accelChip["accel"])

DeviceDeinit ==
  /\ held = "device"
  /\ ~enable
  /\ gpio' = DeinitGpio
  /\ chip' = Cleared /\ line' = Cleared
  /\ mutex' = "destroyed"
  /\ buffer' = FALSE
  /\ held' = "bus"
  /\ Return("OK")
  /\ UNCHANGED <<shared, files, bus, enable, stray>>

Next ==
  \/ CreateDefault \/ Destroy
  \/ BusInitProbeFails \/ BusInitAccelFails \/ BusInitGyroFails \/ BusInit \/ BusDeinit
  \/ InitRegisters \/ InitAccelChip \/ InitAccelLine \/ InitAccelRequest
  \/ InitGyroShared \/ InitGyroChip \/ InitGyroLine \/ InitGyroRequest \/ InitFifo
  \/ Enable \/ Disable \/ DeviceDeinitBusy \/ DeviceDeinit

Spec == Init /\ [][Next]_vars

-----------------------------------------------------------------------------
Stage == {"idle", "accel_chip", "accel_line", "accel_request", "gyro_chip", "gyro_line",
          "gyro_request", "fifo"}

TypeOK ==
  /\ shared \in BOOLEAN
  /\ files \subseteq Fd
  /\ gpio \in [chips : SUBSET Chip, requested : SUBSET Line, released : SUBSET Line,
               misuse : SUBSET {"released twice", "freed handle used"}]
  /\ bus \in [Device -> Fd \union {-1}]
  /\ chip \in [Device -> Chip \union {Null}]
  /\ line \in [Device -> Line \union {Null}]
  /\ buffer \in BOOLEAN
  /\ mutex \in {"zero", "ready", "destroyed"}
  /\ enable \in BOOLEAN
  /\ held \in {"nothing", "handle", "bus", "device"}
  /\ stage \in Stage
  /\ ret \in {"OK", "ERROR", "BUSY"}
  /\ stray \in [files : SUBSET Fd, chips : SUBSET Chip]

(* Whatever fails, libgpiod is never handed a chip or a line it has freed, *)
(* and no line is released twice, neither by the clean-up of a failed      *)
(* rdk_imu_device_init nor by rdk_imu_device_deinit.  With a shared line   *)
(* ReleasedOnce below fails.                                               *)
HandlesLive == ~shared => gpio.misuse = {}

(* While the device is enabled, its interrupt threads have what they use:  *)
(* two open descriptors of the SDK's own, open chips, a buffer, a mutex.   *)
EnabledHasResources ==
  enable =>
    /\ \A d \in Device : bus[d] \in files \ {0} /\ chip[d] \in gpio.chips
    /\ bus["accel"] # bus["gyro"]
    /\ buffer /\ mutex = "ready"

(* Between calls the process holds what the client has set up, no more and *)
(* no less, save what three failures leave behind: the second of two buses *)
(* that does not open (when probed, and when stored), and the FIFO.        *)
(* Every other failure undoes what the call had acquired.                  *)
ResourcesAccounted ==
  stage = "idle" =>
    /\ files = {0} \union stray.files
                 \union (IF held \in {"bus", "device"} THEN {bus[d] : d \in Device} ELSE {})
    /\ gpio.chips = stray.chips
                 \union (IF held = "device" THEN {chip[d] : d \in Device} ELSE {})

(* The comment at rdkimu.c:620: a line both devices share is not released  *)
(* twice.                                                                  *)
ReleasedOnce == "released twice" \notin gpio.misuse
=============================================================================
