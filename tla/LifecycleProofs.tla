--------------------------- MODULE LifecycleProofs ---------------------------
(***************************************************************************)
(* Theorems about Lifecycle: for any number of descriptors and chip        *)
(* handles, with a GPIO line for each device or one for both.              *)
(*                                                                         *)
(* The inductive invariant says which chips are in use at each point of    *)
(* rdk_imu_device_init, and that what is in use, what failed calls left    *)
(* open and the standard input are disjoint: closing the one does not      *)
(* close the other.                                                        *)
(***************************************************************************)
EXTENDS Lifecycle, TLAPS

(* Positions of rdk_imu_device_init. *)
AccelOpen == {"accel_line", "accel_request", "gyro_chip"}
BothOpen == {"gyro_line", "gyro_request", "fifo"}
Initialised == stage \in BothOpen \/ held = "device"

(* The chips in use, and the descriptors. *)
ChipsInUse ==
  IF Initialised THEN {chip["accel"], chip["gyro"]}
  ELSE IF stage \in AccelOpen THEN {chip["accel"]}
  ELSE {}

BusFiles == IF held \in {"bus", "device"} THEN {bus["accel"], bus["gyro"]} ELSE {}

Position ==
  /\ stage # "idle" => held = "bus"
  /\ enable => held = "device"
  /\ held = "device" => buffer /\ mutex = "ready"
  /\ shared => stage \notin {"gyro_line", "gyro_request"}

ChipsApart ==
  /\ gpio.chips = stray.chips \union ChipsInUse
  /\ ChipsInUse \intersect stray.chips = {}
  /\ Initialised => (chip["accel"] = chip["gyro"] <=> shared)

FilesApart ==
  /\ files = {0} \union stray.files \union BusFiles
  /\ BusFiles \intersect ({0} \union stray.files) = {}
  /\ held \in {"bus", "device"} => bus["accel"] # bus["gyro"]

(* A line looked up in a chip just opened has not been released, and once  *)
(* looked up is the one st names.                                          *)
LinesUnreleased ==
  /\ stage \in AccelOpen \/ Initialised => <<chip["accel"], "accel">> \notin gpio.released
  /\ Initialised /\ ~shared => <<chip["gyro"], "gyro">> \notin gpio.released
  /\ stage = "gyro_chip" \/ Initialised => line["accel"] = <<chip["accel"], "accel">>
  /\ stage = "fifo" \/ held = "device" =>
       line["gyro"] = IF shared THEN line["accel"] ELSE <<chip["gyro"], "gyro">>

ResourceInv ==
  /\ TypeOK /\ Position /\ ChipsApart /\ FilesApart /\ LinesUnreleased /\ HandlesLive

-----------------------------------------------------------------------------
(* What the operations of libgpiod do to each part of its state. *)

Gpio == [chips : SUBSET Chip, requested : SUBSET Line, released : SUBSET Line,
         misuse : SUBSET {"released twice", "freed handle used"}]

Stray == [files : SUBSET Fd, chips : SUBSET Chip]

LEMMA OpenFields ==
  ASSUME NEW g \in Gpio, NEW c \in Chip
  PROVE  /\ OpenChip(g, c) \in Gpio
         /\ OpenChip(g, c).chips = g.chips \union {c}
         /\ OpenChip(g, c).released = {l \in g.released : l[1] # c}
         /\ OpenChip(g, c).misuse = g.misuse
BY DEF OpenChip, Gpio

LEMMA RequestFields ==
  ASSUME NEW g \in Gpio, NEW l \in Line
  PROVE  /\ RequestLine(g, l) \in Gpio
         /\ RequestLine(g, l).chips = g.chips
         /\ RequestLine(g, l).released = g.released
         /\ RequestLine(g, l).misuse = g.misuse
BY DEF RequestLine, Gpio

LEMMA ReleaseFields ==
  ASSUME NEW g \in Gpio, NEW l \in Line
  PROVE  /\ ReleaseLine(g, l) \in Gpio
         /\ ReleaseLine(g, l).chips = g.chips
         /\ ReleaseLine(g, l).released = g.released \union {l}
         /\ l \notin g.released /\ l[1] \in g.chips => ReleaseLine(g, l).misuse = g.misuse
BY DEF ReleaseLine, Gpio

LEMMA CloseFields ==
  ASSUME NEW g \in Gpio, NEW c \in Chip
  PROVE  /\ CloseChip(g, c) \in Gpio
         /\ CloseChip(g, c).chips = g.chips \ {c}
         /\ CloseChip(g, c).released = g.released
         /\ c \in g.chips => CloseChip(g, c).misuse = g.misuse
BY DEF CloseChip, Gpio

LEMMA StrayFields ==
  ASSUME NEW s \in Stray, NEW f \in Fd, NEW C \in SUBSET Chip
  PROVE  /\ [s EXCEPT !.files = @ \union {f}] \in Stray
         /\ [s EXCEPT !.files = @ \union {f}].chips = s.chips
         /\ [s EXCEPT !.chips = @ \union C] \in Stray
         /\ [s EXCEPT !.chips = @ \union C].chips = s.chips \union C
         /\ [s EXCEPT !.chips = @ \union C].files = s.files
BY DEF Stray

-----------------------------------------------------------------------------
(* The calls that do not touch the GPIO. *)

LEMMA InitResource == Init => ResourceInv
<1> SUFFICES ASSUME Init  PROVE ResourceInv
  OBVIOUS
<1>1. TypeOK
  <2>1. gpio \in Gpio
    BY DEF Init, Gpio
  <2>2. files \subseteq Fd /\ bus \in [Device -> Fd \union {-1}]
    BY LifecycleAssumption DEF Init, Fd
  <2>3. /\ chip \in [Device -> Chip \union {Null}]
        /\ line \in [Device -> Line \union {Null}]
    BY DEF Init, Cleared
  <2>4. QED  BY <2>1, <2>2, <2>3 DEF Init, TypeOK, Gpio, Stage
<1>2. ChipsInUse = {} /\ BusFiles = {}
  BY DEF Init, ChipsInUse, BusFiles, Initialised, AccelOpen, BothOpen
<1>3. Position /\ ChipsApart /\ FilesApart /\ LinesUnreleased /\ HandlesLive
  BY <1>2 DEF Init, Position, ChipsApart, FilesApart, LinesUnreleased, HandlesLive,
              Initialised, AccelOpen, BothOpen
<1>4. QED  BY <1>1, <1>3 DEF ResourceInv

LEMMA HandleCalls ==
  ASSUME ResourceInv, CreateDefault \/ Destroy
  PROVE  ResourceInv'
<1> USE DEF ResourceInv, TypeOK, Position, ChipsApart, FilesApart, LinesUnreleased,
            HandlesLive, ChipsInUse, BusFiles, Initialised, AccelOpen, BothOpen, Return
<1>1. CASE CreateDefault
  BY <1>1, LifecycleAssumption DEF CreateDefault, Cleared, Device, Fd, Stage
<1>2. CASE Destroy
  BY <1>2 DEF Destroy, Stage
<1>3. QED  BY <1>1, <1>2

(* Outside rdk_imu_device_init and before it has succeeded, a call that    *)
(* leaves the GPIO alone keeps what the invariant says of it.              *)
LEMMA GpioUntouched ==
  ASSUME ResourceInv,
         stage = "idle", held # "device", stage' = "idle", held' # "device",
         gpio' = gpio, chip' = chip, line' = line, stray'.chips = stray.chips,
         enable' = enable, shared' = shared
  PROVE  Position' /\ ChipsApart' /\ LinesUnreleased' /\ HandlesLive'
BY DEF ResourceInv, Position, ChipsApart, LinesUnreleased, HandlesLive, ChipsInUse,
       Initialised, AccelOpen, BothOpen

LEMMA BusCalls ==
  ASSUME ResourceInv,
         BusInitProbeFails \/ BusInitAccelFails \/ BusInitGyroFails \/ BusInit \/ BusDeinit
  PROVE  ResourceInv'
<1>1. stage = "idle" /\ held # "device" /\ held # "nothing"
  BY DEF BusInitProbeFails, BusInitAccelFails, BusInitGyroFails, BusInit, BusDeinit,
         ResourceInv, Position
<1>2. stage' = "idle" /\ held' # "device" /\ gpio' = gpio /\ chip' = chip
        /\ line' = line /\ stray'.chips = stray.chips /\ enable' = enable
        /\ shared' = shared
  BY <1>1 DEF BusInitProbeFails, BusInitAccelFails, BusInitGyroFails, BusInit, BusDeinit,
              ResourceInv, TypeOK, Return, stVars
<1>3. Position' /\ ChipsApart' /\ LinesUnreleased' /\ HandlesLive'
  BY <1>1, <1>2, GpioUntouched
<1>4. TypeOK' /\ FilesApart'
  <2> USE DEF Return, FilesApart, BusFiles, LowestFree
  <2>1. CASE BusInitProbeFails
    <3>1. files' \subseteq Fd /\ stray' \in Stray
      <4>1. stray \in Stray /\ files \subseteq Fd
        BY DEF ResourceInv, TypeOK, Stray
      <4>2. CASE UNCHANGED <<files, stray>>
        BY <4>1, <4>2
      <4>3. CASE \E f \in Fd : /\ files' = files \union {f}
                               /\ stray' = [stray EXCEPT !.files = @ \union {f}]
        <5>1. PICK f \in Fd : /\ files' = files \union {f}
                              /\ stray' = [stray EXCEPT !.files = @ \union {f}]
          BY <4>3
        <5>2. [stray EXCEPT !.files = @ \union {f}] \in Stray
          BY <4>1, StrayFields
        <5>3. QED  BY <4>1, <5>1, <5>2
      <4>4. QED  BY <2>1, <4>2, <4>3 DEF BusInitProbeFails
    <3>2. TypeOK'
      BY <2>1, <3>1 DEF Stray, BusInitProbeFails, stVars, ResourceInv, TypeOK, Stage
    <3>3. FilesApart'
      BY <2>1 DEF BusInitProbeFails, stVars, ResourceInv, TypeOK
    <3>4. QED  BY <3>2, <3>3
  <2>2. CASE BusInitAccelFails
    <3>1. bus' \in [Device -> Fd \union {-1}]
      BY <2>2 DEF BusInitAccelFails, ResourceInv, TypeOK
    <3>2. TypeOK'
      BY <2>2, <3>1 DEF BusInitAccelFails, ResourceInv, TypeOK, Stage
    <3>3. FilesApart'
      BY <2>2 DEF BusInitAccelFails, ResourceInv
    <3>4. QED  BY <3>2, <3>3
  <2>3. CASE BusInitGyroFails
    <3>1. bus' \in [Device -> Fd \union {-1}]
      <4>1. PICK f \in Fd : bus' = [d \in Device |-> IF d = "accel" THEN f ELSE -1]
        BY <2>3 DEF BusInitGyroFails
      <4>2. QED  BY <4>1
    <3>2. files' \subseteq Fd /\ stray' \in Stray
      <4>1. stray \in Stray /\ files \subseteq Fd
        BY DEF ResourceInv, TypeOK, Stray
      <4>2. PICK f \in Fd : /\ files' = files \union {f}
                            /\ stray' = [stray EXCEPT !.files = @ \union {f}]
        BY <2>3 DEF BusInitGyroFails
      <4>3. [stray EXCEPT !.files = @ \union {f}] \in Stray
        BY <4>1, StrayFields
      <4>4. QED  BY <4>1, <4>2, <4>3
    <3>3. TypeOK'
      BY <2>3, <3>1, <3>2 DEF Stray, BusInitGyroFails, ResourceInv, TypeOK, Stage
    <3>4. FilesApart'
      BY <2>3 DEF BusInitGyroFails, ResourceInv, TypeOK
    <3>5. QED  BY <3>3, <3>4
  <2>4. CASE BusInit
    <3>1. PICK f, g \in Fd :
            /\ f \notin files /\ g \notin files \union {f}
            /\ files' = files \union {f, g}
            /\ bus' = [d \in Device |-> IF d = "accel" THEN f ELSE g]
      BY <2>4 DEF BusInit
    <3>2. bus' \in [Device -> Fd \union {-1}]
      BY <3>1
    <3>3. files' \subseteq Fd
      BY <3>1 DEF ResourceInv, TypeOK
    <3>4. TypeOK'
      BY <2>4, <3>2, <3>3 DEF BusInit, ResourceInv, TypeOK, Stage
    <3>5. BusFiles' = {f, g} /\ bus'["accel"] # bus'["gyro"]
      BY <2>4, <3>1 DEF BusInit, Device
    <3>6. FilesApart'
      BY <2>4, <3>1, <3>5 DEF BusInit, ResourceInv
    <3>7. QED  BY <3>4, <3>6
  <2>5. CASE BusDeinit
    <3>1. bus' \in [Device -> Fd \union {-1}]
      BY <2>5 DEF BusDeinit
    <3>2. TypeOK'
      BY <2>5, <3>1 DEF BusDeinit, ResourceInv, TypeOK, Stage
    <3>3. FilesApart'
      BY <2>5 DEF BusDeinit, ResourceInv, Device
    <3>4. QED  BY <3>2, <3>3
  <2>6. QED  BY <2>1, <2>2, <2>3, <2>4, <2>5
<1>5. QED  BY <1>3, <1>4 DEF ResourceInv

LEMMA EnableCalls ==
  ASSUME ResourceInv, InitRegisters \/ Enable \/ Disable \/ DeviceDeinitBusy
  PROVE  ResourceInv'
<1> USE DEF ResourceInv, TypeOK, Position, ChipsApart, FilesApart, LinesUnreleased,
            HandlesLive, ChipsInUse, BusFiles, Initialised, AccelOpen, BothOpen, Return,
            Stage
<1>1. CASE InitRegisters
  BY <1>1 DEF InitRegisters, stVars
<1>2. CASE Enable
  BY <1>2 DEF Enable
<1>3. CASE Disable
  BY <1>3 DEF Disable
<1>4. CASE DeviceDeinitBusy
  BY <1>4 DEF DeviceDeinitBusy, stVars
<1>5. QED  BY <1>1, <1>2, <1>3, <1>4

-----------------------------------------------------------------------------
(* The steps of rdk_imu_device_init on the GPIO. *)

(* What these steps find: chips that are open, lines not yet released.     *)
LEMMA HandlesFound ==
  ASSUME ResourceInv
  PROVE  /\ gpio \in Gpio /\ stray \in Stray
         /\ stage \in AccelOpen \/ Initialised =>
              /\ chip["accel"] \in gpio.chips /\ chip["accel"] \in Chip
              /\ <<chip["accel"], "accel">> \in Line
         /\ Initialised =>
              /\ chip["gyro"] \in gpio.chips /\ chip["gyro"] \in Chip
              /\ <<chip["gyro"], "gyro">> \in Line
<1>1. gpio \in Gpio /\ stray \in Stray
  BY DEF ResourceInv, TypeOK, Gpio, Stray
<1>2. gpio.chips \subseteq Chip
  BY <1>1 DEF Gpio
<1>3. ChipsInUse \subseteq gpio.chips
  BY DEF ResourceInv, ChipsApart
<1>4. stage \in AccelOpen \/ Initialised => chip["accel"] \in ChipsInUse
  BY DEF ChipsInUse
<1>5. Initialised => chip["gyro"] \in ChipsInUse
  BY DEF ChipsInUse
<1>6. \A c \in Chip : \A d \in Device : <<c, d>> \in Line
  BY DEF Line
<1>7. QED  BY <1>1, <1>2, <1>3, <1>4, <1>5, <1>6 DEF Device

(* A step that leaves the descriptors and what the client holds alone.     *)
LEMMA FilesUntouched ==
  ASSUME ResourceInv, UNCHANGED <<files, bus, held>>, stray'.files = stray.files
  PROVE  FilesApart'
BY DEF ResourceInv, FilesApart, BusFiles

LEMMA StepInitAccelChip ==
  ASSUME ResourceInv, InitAccelChip  PROVE ResourceInv'
<1> USE DEF Return, initUnchanged
<1>1. UNCHANGED <<shared, files, bus, held, stray, enable, buffer, mutex, line>> /\ stage = "accel_chip"
  BY DEF InitAccelChip
<1>2. FilesApart'
  BY <1>1, FilesUntouched
<1>3. CASE UNCHANGED gpio /\ stage' = "idle" /\ ret' = "ERROR"
             /\ chip' = [chip EXCEPT !["accel"] = Null]
  <2>1. chip' \in [Device -> Chip \union {Null}]
    BY <1>3 DEF ResourceInv, TypeOK
  <2>2. TypeOK'
    BY <1>1, <1>3, <2>1 DEF ResourceInv, TypeOK, Stage
  <2>3. Position' /\ ChipsApart' /\ LinesUnreleased' /\ HandlesLive'
    BY <1>1, <1>3 DEF ResourceInv, Position, ChipsApart, LinesUnreleased, HandlesLive,
                      ChipsInUse, Initialised, AccelOpen, BothOpen
  <2>4. QED  BY <1>2, <2>2, <2>3 DEF ResourceInv
<1>4. CASE stage' = "accel_line" /\ UNCHANGED ret /\
           \E c \in Chip \ gpio.chips : /\ gpio' = OpenChip(gpio, c)
                                        /\ chip' = [chip EXCEPT !["accel"] = c]
  <2>1. PICK c \in Chip \ gpio.chips : /\ gpio' = OpenChip(gpio, c)
                                       /\ chip' = [chip EXCEPT !["accel"] = c]
    BY <1>4
  <2>2. /\ chip' \in [Device -> Chip \union {Null}]
        /\ chip'["accel"] = c
    BY <2>1 DEF ResourceInv, TypeOK, Device
  <2>3. /\ gpio' \in Gpio
        /\ gpio'.chips = gpio.chips \union {c}
        /\ gpio'.released = {l \in gpio.released : l[1] # c}
        /\ gpio'.misuse = gpio.misuse
    BY <2>1, HandlesFound, OpenFields
  <2>4. TypeOK'
    BY <1>1, <1>4, <2>2, <2>3 DEF ResourceInv, TypeOK, Stage, Gpio
  <2>5. ~Initialised /\ ~Initialised' /\ ChipsInUse = {} /\ ChipsInUse' = {c}
    BY <1>1, <1>4, <2>2 DEF ResourceInv, Position, ChipsInUse, Initialised, AccelOpen, BothOpen
  <2>6. ChipsApart'
    BY <1>1, <2>1, <2>3, <2>5 DEF ResourceInv, ChipsApart
  <2>7. LinesUnreleased'
    BY <1>4, <2>2, <2>3, <2>5 DEF LinesUnreleased, Initialised, BothOpen
  <2>8. Position' /\ HandlesLive'
    BY <1>1, <1>4, <2>3 DEF ResourceInv, Position, HandlesLive
  <2>9. QED  BY <1>2, <2>4, <2>6, <2>7, <2>8 DEF ResourceInv
<1>5. QED  BY <1>3, <1>4 DEF InitAccelChip

LEMMA StepInitAccelLine ==
  ASSUME ResourceInv, InitAccelLine  PROVE ResourceInv'
<1> USE DEF Return, initUnchanged
<1>1. /\ UNCHANGED <<shared, files, bus, held, stray, enable, buffer, mutex, line, chip>>
      /\ stage = "accel_line" /\ held = "bus" /\ enable = FALSE
  BY DEF InitAccelLine, ResourceInv, Position, TypeOK
<1>2. FilesApart'
  BY <1>1, FilesUntouched
<1>3. ~Initialised /\ ChipsInUse = {chip["accel"]}
  BY <1>1 DEF ChipsInUse, Initialised, AccelOpen, BothOpen
<1>4. CASE gpio' = CloseChip(gpio, chip["accel"]) /\ stage' = "idle" /\ ret' = "ERROR"
  <2>1. chip["accel"] \in gpio.chips /\ chip["accel"] \in Chip /\ gpio \in Gpio
    BY <1>1, HandlesFound DEF AccelOpen
  <2>2. /\ gpio' \in Gpio
        /\ gpio'.chips = gpio.chips \ {chip["accel"]}
        /\ gpio'.misuse = gpio.misuse
    BY <1>4, <2>1, CloseFields
  <2>3. TypeOK'
    BY <1>1, <1>4, <2>2 DEF ResourceInv, TypeOK, Stage, Gpio
  <2>4. ~Initialised' /\ ChipsInUse' = {}
    BY <1>1, <1>4 DEF ChipsInUse, Initialised, AccelOpen, BothOpen
  <2>5. ChipsApart'
    BY <1>1, <1>3, <2>2, <2>4 DEF ResourceInv, ChipsApart
  <2>6. Position' /\ LinesUnreleased' /\ HandlesLive'
    BY <1>1, <1>4, <2>2, <2>4 DEF ResourceInv, Position, HandlesLive, LinesUnreleased,
                                 AccelOpen, Initialised, BothOpen
  <2>7. QED  BY <1>2, <2>3, <2>5, <2>6 DEF ResourceInv
<1>5. CASE stage' = "accel_request" /\ UNCHANGED <<gpio, ret>>
  <2>1. TypeOK'
    BY <1>1, <1>5 DEF ResourceInv, TypeOK, Stage
  <2>2. Position' /\ ChipsApart' /\ LinesUnreleased' /\ HandlesLive'
    BY <1>1, <1>5 DEF ResourceInv, Position, ChipsApart, LinesUnreleased, HandlesLive,
                      ChipsInUse, Initialised, AccelOpen, BothOpen
  <2>3. QED  BY <1>2, <2>1, <2>2 DEF ResourceInv
<1>6. QED  BY <1>4, <1>5 DEF InitAccelLine

LEMMA StepInitAccelRequest ==
  ASSUME ResourceInv, InitAccelRequest  PROVE ResourceInv'
<1> DEFINE l == <<chip["accel"], "accel">>
<1>1. /\ UNCHANGED <<shared, files, bus, held, stray, enable, buffer, mutex, chip, ret>>
      /\ stage = "accel_request" /\ stage' = "gyro_chip" /\ held = "bus" /\ enable = FALSE
      /\ line' = [line EXCEPT !["accel"] = l]
      /\ gpio' \in {gpio, RequestLine(gpio, l)}
  BY DEF InitAccelRequest, ResourceInv, Position, TypeOK, initUnchanged
<1>2. FilesApart'
  BY <1>1, FilesUntouched
<1>3. l \in Line /\ gpio \in Gpio
  BY <1>1, HandlesFound DEF AccelOpen
<1>4. /\ gpio' \in Gpio
      /\ gpio'.chips = gpio.chips /\ gpio'.released = gpio.released
      /\ gpio'.misuse = gpio.misuse
  BY <1>1, <1>3, RequestFields
<1>5. line' \in [Device -> Line \union {Null}] /\ line'["accel"] = l
  BY <1>1, <1>3 DEF ResourceInv, TypeOK, Device
<1>6. TypeOK'
  BY <1>1, <1>4, <1>5 DEF ResourceInv, TypeOK, Stage, Gpio
<1>7. Position' /\ ChipsApart' /\ LinesUnreleased' /\ HandlesLive'
  BY <1>1, <1>4, <1>5 DEF ResourceInv, Position, ChipsApart, LinesUnreleased, HandlesLive,
                          ChipsInUse, Initialised, AccelOpen, BothOpen
<1>8. QED  BY <1>2, <1>6, <1>7 DEF ResourceInv

LEMMA StepInitGyroShared ==
  ASSUME ResourceInv, InitGyroShared  PROVE ResourceInv'
<1>1. /\ UNCHANGED <<shared, files, bus, held, stray, enable, buffer, mutex, gpio, ret>>
      /\ stage = "gyro_chip" /\ stage' = "fifo" /\ held = "bus" /\ enable = FALSE /\ shared
      /\ chip' = [chip EXCEPT !["gyro"] = chip["accel"]]
      /\ line' = [line EXCEPT !["gyro"] = line["accel"]]
  BY DEF InitGyroShared, ResourceInv, Position, TypeOK, initUnchanged
<1>2. FilesApart'
  BY <1>1, FilesUntouched
<1>3. /\ chip' \in [Device -> Chip \union {Null}]
      /\ line' \in [Device -> Line \union {Null}]
      /\ chip'["gyro"] = chip["accel"] /\ chip'["accel"] = chip["accel"]
      /\ line'["gyro"] = line["accel"] /\ line'["accel"] = line["accel"]
  BY <1>1 DEF ResourceInv, TypeOK, Device
<1>4. TypeOK'
  BY <1>1, <1>3 DEF ResourceInv, TypeOK, Stage
<1>5. Position' /\ ChipsApart' /\ LinesUnreleased' /\ HandlesLive'
  BY <1>1, <1>3 DEF ResourceInv, Position, ChipsApart, LinesUnreleased, HandlesLive,
                    ChipsInUse, Initialised, AccelOpen, BothOpen
<1>6. QED  BY <1>2, <1>4, <1>5 DEF ResourceInv

(* The clean-up after a failure at the gyro's line. *)
LEMMA UndoAccelFields ==
  ASSUME NEW g \in Gpio, NEW a \in Chip, a \in g.chips,
         line["accel"] = <<a, "accel">>, chip["accel"] = a, <<a, "accel">> \notin g.released
  PROVE  /\ UndoAccel(g) \in Gpio
         /\ UndoAccel(g).chips = g.chips \ {a}
         /\ UndoAccel(g).misuse = g.misuse
<1> DEFINE l == <<a, "accel">>  h == ReleaseLine(g, l)
<1>1. l \in Line /\ l[1] = a
  BY DEF Line, Device
<1>2. h \in Gpio /\ h.chips = g.chips /\ h.misuse = g.misuse
  BY <1>1, ReleaseFields
<1> HIDE DEF h
<1>3. /\ CloseChip(h, a) \in Gpio
      /\ CloseChip(h, a).chips = h.chips \ {a}
      /\ CloseChip(h, a).misuse = h.misuse
  BY <1>2, CloseFields
<1>4. UndoAccel(g) = CloseChip(h, a)
  BY DEF UndoAccel, h
<1>5. QED  BY <1>2, <1>3, <1>4

LEMMA StepInitGyroChip ==
  ASSUME ResourceInv, InitGyroChip  PROVE ResourceInv'
<1> USE DEF Return, initUnchanged
<1>1. /\ UNCHANGED <<shared, files, bus, held, stray, enable, buffer, mutex, line>>
      /\ stage = "gyro_chip" /\ held = "bus" /\ enable = FALSE /\ ~shared
  BY DEF InitGyroChip, ResourceInv, Position, TypeOK
<1>2. FilesApart'
  BY <1>1, FilesUntouched
<1>3. ~Initialised /\ ChipsInUse = {chip["accel"]}
  BY <1>1 DEF ChipsInUse, Initialised, AccelOpen, BothOpen
<1>4. /\ chip["accel"] \in gpio.chips /\ chip["accel"] \in Chip /\ gpio \in Gpio
      /\ line["accel"] = <<chip["accel"], "accel">>
      /\ <<chip["accel"], "accel">> \notin gpio.released
  BY <1>1, HandlesFound DEF AccelOpen, ResourceInv, LinesUnreleased
<1>5. CASE gpio' = UndoAccel(gpio) /\ stage' = "idle" /\ ret' = "ERROR"
             /\ chip' = [chip EXCEPT !["gyro"] = Null]
  <2>1. chip' \in [Device -> Chip \union {Null}]
    BY <1>5 DEF ResourceInv, TypeOK
  <2>2. /\ gpio' \in Gpio
        /\ gpio'.chips = gpio.chips \ {chip["accel"]}
        /\ gpio'.misuse = gpio.misuse
    BY <1>4, <1>5, UndoAccelFields
  <2>3. TypeOK'
    BY <1>1, <1>5, <2>1, <2>2 DEF ResourceInv, TypeOK, Stage, Gpio
  <2>4. ~Initialised' /\ ChipsInUse' = {}
    BY <1>1, <1>5 DEF ChipsInUse, Initialised, AccelOpen, BothOpen
  <2>5. ChipsApart'
    BY <1>1, <1>3, <2>2, <2>4 DEF ResourceInv, ChipsApart
  <2>6. Position' /\ LinesUnreleased' /\ HandlesLive'
    BY <1>1, <1>5, <2>2, <2>4 DEF ResourceInv, Position, HandlesLive, LinesUnreleased,
                                 AccelOpen, Initialised, BothOpen
  <2>7. QED  BY <1>2, <2>3, <2>5, <2>6 DEF ResourceInv
<1>6. CASE stage' = "gyro_line" /\ UNCHANGED ret /\
           \E c \in Chip \ gpio.chips : /\ gpio' = OpenChip(gpio, c)
                                        /\ chip' = [chip EXCEPT !["gyro"] = c]
  <2>1. PICK c \in Chip \ gpio.chips : /\ gpio' = OpenChip(gpio, c)
                                       /\ chip' = [chip EXCEPT !["gyro"] = c]
    BY <1>6
  <2>2. /\ chip' \in [Device -> Chip \union {Null}]
        /\ chip'["gyro"] = c /\ chip'["accel"] = chip["accel"]
    BY <2>1 DEF ResourceInv, TypeOK, Device
  <2>3. /\ gpio' \in Gpio
        /\ gpio'.chips = gpio.chips \union {c}
        /\ gpio'.released = {l \in gpio.released : l[1] # c}
        /\ gpio'.misuse = gpio.misuse
    BY <1>4, <2>1, OpenFields
  <2>4. TypeOK'
    BY <1>1, <1>6, <2>2, <2>3 DEF ResourceInv, TypeOK, Stage, Gpio
  <2>5. Initialised' /\ ChipsInUse' = {chip["accel"], c}
    BY <1>6, <2>2 DEF ChipsInUse, Initialised, BothOpen
  <2>6. ChipsApart'
    BY <1>1, <1>3, <1>4, <2>1, <2>2, <2>3, <2>5 DEF ResourceInv, ChipsApart
  <2>7. LinesUnreleased'
    BY <1>1, <1>4, <1>6, <2>2, <2>3 DEF LinesUnreleased
  <2>8. Position' /\ HandlesLive'
    BY <1>1, <1>6, <2>3 DEF ResourceInv, Position, HandlesLive
  <2>9. QED  BY <1>2, <2>4, <2>6, <2>7, <2>8 DEF ResourceInv
<1>7. QED  BY <1>5, <1>6 DEF InitGyroChip

LEMMA StepInitGyroLine ==
  ASSUME ResourceInv, InitGyroLine  PROVE ResourceInv'
<1> USE DEF Return, initUnchanged
<1>1. /\ UNCHANGED <<shared, files, bus, held, stray, enable, buffer, mutex, line, chip>>
      /\ stage = "gyro_line" /\ held = "bus" /\ enable = FALSE /\ ~shared
  BY DEF InitGyroLine, ResourceInv, Position, TypeOK
<1>2. FilesApart'
  BY <1>1, FilesUntouched
<1>3. Initialised /\ ChipsInUse = {chip["accel"], chip["gyro"]}
  BY <1>1 DEF ChipsInUse, Initialised, BothOpen
<1>4. /\ gpio \in Gpio
      /\ chip["accel"] \in gpio.chips /\ chip["accel"] \in Chip
      /\ chip["gyro"] \in gpio.chips /\ chip["gyro"] \in Chip
      /\ chip["accel"] # chip["gyro"]
      /\ line["accel"] = <<chip["accel"], "accel">>
      /\ <<chip["accel"], "accel">> \notin gpio.released
  BY <1>1, <1>3, HandlesFound DEF ResourceInv, LinesUnreleased, ChipsApart
<1>5. CASE gpio' = UndoAccel(CloseChip(gpio, chip["gyro"])) /\ stage' = "idle" /\ ret' = "ERROR"
  <2> DEFINE g == CloseChip(gpio, chip["gyro"])
  <2>1. /\ g \in Gpio /\ g.chips = gpio.chips \ {chip["gyro"]}
        /\ g.released = gpio.released /\ g.misuse = gpio.misuse
    BY <1>4, CloseFields
  <2> HIDE DEF g
  <2>2. /\ UndoAccel(g) \in Gpio
        /\ UndoAccel(g).chips = g.chips \ {chip["accel"]}
        /\ UndoAccel(g).misuse = g.misuse
    BY <1>4, <2>1, UndoAccelFields
  <2>3. /\ gpio' \in Gpio
        /\ gpio'.chips = gpio.chips \ {chip["accel"], chip["gyro"]}
        /\ gpio'.misuse = gpio.misuse
    BY <1>5, <2>1, <2>2 DEF g
  <2>4. TypeOK'
    BY <1>1, <1>5, <2>3 DEF ResourceInv, TypeOK, Stage, Gpio
  <2>5. ~Initialised' /\ ChipsInUse' = {}
    BY <1>1, <1>5 DEF ChipsInUse, Initialised, AccelOpen, BothOpen
  <2>6. ChipsApart'
    BY <1>1, <1>3, <2>3, <2>5 DEF ResourceInv, ChipsApart
  <2>7. Position' /\ LinesUnreleased' /\ HandlesLive'
    BY <1>1, <1>5, <2>3, <2>5 DEF ResourceInv, Position, HandlesLive, LinesUnreleased,
                                 AccelOpen, Initialised, BothOpen
  <2>8. QED  BY <1>2, <2>4, <2>6, <2>7 DEF ResourceInv
<1>6. CASE stage' = "gyro_request" /\ UNCHANGED <<gpio, ret>>
  <2>1. TypeOK'
    BY <1>1, <1>6 DEF ResourceInv, TypeOK, Stage
  <2>2. Position' /\ ChipsApart' /\ LinesUnreleased' /\ HandlesLive'
    BY <1>1, <1>6 DEF ResourceInv, Position, ChipsApart, LinesUnreleased, HandlesLive,
                      ChipsInUse, Initialised, AccelOpen, BothOpen
  <2>3. QED  BY <1>2, <2>1, <2>2 DEF ResourceInv
<1>7. QED  BY <1>5, <1>6 DEF InitGyroLine

LEMMA StepInitGyroRequest ==
  ASSUME ResourceInv, InitGyroRequest  PROVE ResourceInv'
<1> DEFINE l == <<chip["gyro"], "gyro">>
<1>1. /\ UNCHANGED <<shared, files, bus, held, stray, enable, buffer, mutex, chip, ret>>
      /\ stage = "gyro_request" /\ stage' = "fifo" /\ held = "bus" /\ enable = FALSE
      /\ ~shared
      /\ line' = [line EXCEPT !["gyro"] = l]
      /\ gpio' \in {gpio, RequestLine(gpio, l)}
  BY DEF InitGyroRequest, ResourceInv, Position, TypeOK, initUnchanged
<1>2. FilesApart'
  BY <1>1, FilesUntouched
<1>3. l \in Line /\ gpio \in Gpio
  BY <1>1, HandlesFound DEF Initialised, BothOpen
<1>4. /\ gpio' \in Gpio
      /\ gpio'.chips = gpio.chips /\ gpio'.released = gpio.released
      /\ gpio'.misuse = gpio.misuse
  BY <1>1, <1>3, RequestFields
<1>5. /\ line' \in [Device -> Line \union {Null}]
      /\ line'["gyro"] = l /\ line'["accel"] = line["accel"]
  BY <1>1, <1>3 DEF ResourceInv, TypeOK, Device
<1>6. TypeOK'
  BY <1>1, <1>4, <1>5 DEF ResourceInv, TypeOK, Stage, Gpio
<1>7. Position' /\ ChipsApart' /\ LinesUnreleased' /\ HandlesLive'
  BY <1>1, <1>4, <1>5 DEF ResourceInv, Position, ChipsApart, LinesUnreleased, HandlesLive,
                          ChipsInUse, Initialised, AccelOpen, BothOpen
<1>8. QED  BY <1>2, <1>6, <1>7 DEF ResourceInv

LEMMA StepInitFifo ==
  ASSUME ResourceInv, InitFifo  PROVE ResourceInv'
<1> USE DEF Return
<1>1. /\ UNCHANGED <<shared, files, gpio, bus, chip, line, enable>>
      /\ stage = "fifo" /\ stage' = "idle" /\ held = "bus" /\ enable = FALSE
  BY DEF InitFifo, ResourceInv, Position, TypeOK
<1>2. Initialised /\ ChipsInUse = {chip["accel"], chip["gyro"]}
  BY <1>1 DEF ChipsInUse, Initialised, BothOpen
<1>3. CASE /\ ret' = "ERROR" /\ UNCHANGED <<buffer, mutex, held>>
           /\ stray' = [stray EXCEPT !.chips = @ \union {chip[d] : d \in Device}]
  <2>1. {chip[d] : d \in Device} = ChipsInUse
    BY <1>2 DEF Device
  <2>2. stray \in Stray /\ ChipsInUse \in SUBSET Chip
    BY <1>2, HandlesFound
  <2>3. /\ stray' \in Stray
        /\ stray'.chips = stray.chips \union ChipsInUse
        /\ stray'.files = stray.files
    BY <1>3, <2>1, <2>2 DEF Stray
  <2>4. TypeOK'
    BY <1>1, <1>3, <2>3 DEF ResourceInv, TypeOK, Stage, Stray
  <2>5. FilesApart'
    BY <1>1, <1>3, <2>3, FilesUntouched
  <2>6. ~Initialised' /\ ChipsInUse' = {}
    BY <1>1, <1>3 DEF ChipsInUse, Initialised, AccelOpen, BothOpen
  <2>7. ChipsApart'
    BY <1>1, <2>3, <2>6 DEF ResourceInv, ChipsApart
  <2>8. Position' /\ LinesUnreleased' /\ HandlesLive'
    BY <1>1, <1>3, <2>6 DEF ResourceInv, Position, HandlesLive, LinesUnreleased,
                            AccelOpen, Initialised, BothOpen
  <2>9. QED  BY <2>4, <2>5, <2>7, <2>8 DEF ResourceInv
<1>4. CASE /\ buffer' = TRUE /\ mutex' = "ready" /\ held' = "device" /\ ret' = "OK"
           /\ UNCHANGED stray
  <2>1. TypeOK'
    BY <1>1, <1>4 DEF ResourceInv, TypeOK, Stage
  <2>2. Position' /\ ChipsApart' /\ FilesApart' /\ LinesUnreleased' /\ HandlesLive'
    BY <1>1, <1>4 DEF ResourceInv, Position, ChipsApart, FilesApart, LinesUnreleased,
                      HandlesLive, ChipsInUse, BusFiles, Initialised, AccelOpen, BothOpen
  <2>3. QED  BY <2>1, <2>2 DEF ResourceInv
<1>5. QED  BY <1>3, <1>4 DEF InitFifo

-----------------------------------------------------------------------------
(* rdk_imu_device_deinit releases both lines, then closes both chips.  The *)
(* comparison with handles just set to null never skips anything.          *)
ReleaseIfAny(g, l) == IF l = Null THEN g ELSE ReleaseLine(g, l)
CloseIfAny(g, c) == IF c = Null THEN g ELSE CloseChip(g, c)

LEMMA DeinitOrder ==
  ASSUME TypeOK
  PROVE  DeinitGpio =
           CloseIfAny(CloseIfAny(ReleaseIfAny(ReleaseIfAny(gpio, line["accel"]),
                                              line["gyro"]),
                                 chip["accel"]),
                      chip["gyro"])
<1>1. /\ [line EXCEPT !["accel"] = Null]["accel"] = Null
      /\ [chip EXCEPT !["accel"] = Null]["accel"] = Null
  BY DEF TypeOK, Device
<1>2. QED  BY <1>1 DEF DeinitGpio, ReleaseIfAny, CloseIfAny

(* On an initialised device it closes both chips and misuses neither. *)
LEMMA DeinitFields ==
  ASSUME ResourceInv, held = "device"
  PROVE  /\ DeinitGpio \in Gpio
         /\ DeinitGpio.chips = gpio.chips \ {chip["accel"], chip["gyro"]}
         /\ ~shared => DeinitGpio.misuse = gpio.misuse
<1> DEFINE a == chip["accel"]  c == chip["gyro"]
           la == line["accel"]  lc == line["gyro"]
           g1 == ReleaseLine(gpio, la)
           g2 == ReleaseLine(g1, lc)
           g3 == CloseChip(g2, a)
           g4 == CloseChip(g3, c)
<1>1. stage = "idle"
  BY DEF ResourceInv, Position
<1>2. Initialised
  BY DEF Initialised
<1>3. /\ gpio \in Gpio
      /\ a \in gpio.chips /\ a \in Chip /\ c \in gpio.chips /\ c \in Chip
      /\ la \in Line /\ lc \in Line
      /\ ~shared => /\ a # c /\ la # lc /\ la[1] = a /\ lc[1] = c
                    /\ la \notin gpio.released /\ lc \notin gpio.released
  BY <1>1, <1>2, HandlesFound DEF ResourceInv, LinesUnreleased, ChipsApart
<1>4. DeinitGpio = g4
  <2>1. a # Null /\ c # Null /\ la # Null /\ lc # Null
    BY <1>3, LifecycleAssumption
  <2>2. QED  BY <2>1, DeinitOrder DEF ResourceInv, ReleaseIfAny, CloseIfAny
<1>5. /\ g1 \in Gpio /\ g1.chips = gpio.chips
      /\ g1.released = gpio.released \union {la}
      /\ ~shared => g1.misuse = gpio.misuse
  BY <1>3, ReleaseFields
<1> HIDE DEF g1
<1>6. /\ g2 \in Gpio /\ g2.chips = gpio.chips /\ (~shared => g2.misuse = gpio.misuse)
  BY <1>3, <1>5, ReleaseFields
<1> HIDE DEF g2
<1>7. /\ g3 \in Gpio /\ g3.chips = gpio.chips \ {a} /\ (~shared => g3.misuse = gpio.misuse)
  BY <1>3, <1>6, CloseFields
<1> HIDE DEF g3
<1>8. /\ g4 \in Gpio /\ g4.chips = gpio.chips \ {a, c}
      /\ ~shared => g4.misuse = gpio.misuse
  BY <1>3, <1>7, CloseFields
<1> HIDE DEF g4
<1>9. QED  BY <1>4, <1>8

LEMMA StepDeviceDeinit ==
  ASSUME ResourceInv, DeviceDeinit  PROVE ResourceInv'
<1> USE DEF Return
<1>1. /\ UNCHANGED <<shared, files, bus, enable, stray>>
      /\ held = "device" /\ held' = "bus" /\ enable = FALSE
      /\ stage = "idle" /\ stage' = "idle" /\ ret' = "OK"
      /\ chip' = Cleared /\ line' = Cleared
      /\ mutex' = "destroyed" /\ buffer' = FALSE
  BY DEF DeviceDeinit, ResourceInv, Position, TypeOK
<1>2. ChipsInUse = {chip["accel"], chip["gyro"]}
  BY <1>1 DEF ChipsInUse, Initialised
<1>3. /\ gpio' \in Gpio
      /\ gpio'.chips = gpio.chips \ ChipsInUse
      /\ ~shared => gpio'.misuse = gpio.misuse
  BY <1>1, <1>2, DeinitFields DEF DeviceDeinit
<1>4. TypeOK'
  <2>1. /\ chip' \in [Device -> Chip \union {Null}]
        /\ line' \in [Device -> Line \union {Null}]
    BY <1>1 DEF Cleared
  <2>2. QED  BY <1>1, <1>3, <2>1 DEF ResourceInv, TypeOK, Stage, Gpio
<1>5. ~Initialised' /\ ChipsInUse' = {}
  BY <1>1 DEF ChipsInUse, Initialised, AccelOpen, BothOpen
<1>6. ChipsApart'
  BY <1>1, <1>3, <1>5 DEF ResourceInv, ChipsApart
<1>7. FilesApart'
  BY <1>1 DEF ResourceInv, FilesApart, BusFiles
<1>8. Position' /\ LinesUnreleased' /\ HandlesLive'
  BY <1>1, <1>3, <1>5 DEF ResourceInv, Position, HandlesLive, LinesUnreleased,
                          AccelOpen, Initialised, BothOpen
<1>9. QED  BY <1>4, <1>6, <1>7, <1>8 DEF ResourceInv

-----------------------------------------------------------------------------
(* No call and no step of one breaks the resource invariant. *)
LEMMA ResourceKept ==
  ASSUME ResourceInv, [Next]_vars  PROVE ResourceInv'
<1>1. CASE CreateDefault \/ Destroy
  BY <1>1, HandleCalls
<1>2. CASE BusInitProbeFails \/ BusInitAccelFails \/ BusInitGyroFails \/ BusInit \/ BusDeinit
  BY <1>2, BusCalls
<1>3. CASE InitRegisters \/ Enable \/ Disable \/ DeviceDeinitBusy
  BY <1>3, EnableCalls
<1>4. CASE InitAccelChip
  BY <1>4, StepInitAccelChip
<1>5. CASE InitAccelLine
  BY <1>5, StepInitAccelLine
<1>6. CASE InitAccelRequest
  BY <1>6, StepInitAccelRequest
<1>7. CASE InitGyroShared
  BY <1>7, StepInitGyroShared
<1>8. CASE InitGyroChip
  BY <1>8, StepInitGyroChip
<1>9. CASE InitGyroLine
  BY <1>9, StepInitGyroLine
<1>10. CASE InitGyroRequest
  BY <1>10, StepInitGyroRequest
<1>11. CASE InitFifo
  BY <1>11, StepInitFifo
<1>12. CASE DeviceDeinit
  BY <1>12, StepDeviceDeinit
<1>13. CASE UNCHANGED vars
  <2>1. TypeOK'
    BY <1>13 DEF vars, ResourceInv, TypeOK
  <2>2. Position' /\ ChipsApart' /\ FilesApart' /\ LinesUnreleased' /\ HandlesLive'
    BY <1>13 DEF vars, ResourceInv, Position, ChipsApart, FilesApart,
                 LinesUnreleased, HandlesLive, ChipsInUse, BusFiles, Initialised
  <2>3. QED  BY <2>1, <2>2 DEF ResourceInv
<1>14. QED
  BY <1>1, <1>2, <1>3, <1>4, <1>5, <1>6, <1>7, <1>8, <1>9, <1>10, <1>11, <1>12, <1>13
     DEF Next

(* The resource invariant holds in every reachable state. *)
THEOREM ResourceInvariant == Spec => []ResourceInv
<1>1. ResourceInv /\ [Next]_vars => ResourceInv'
  BY ResourceKept
<1>2. QED  BY <1>1, InitResource, PTL DEF Spec

(* Types, for any number of descriptors and chip handles. *)
THEOREM TypeCorrect == Spec => []TypeOK
<1>1. ResourceInv => TypeOK
  BY DEF ResourceInv
<1>2. QED  BY <1>1, ResourceInvariant, PTL

(* With a line for each device, no failure, in whatever order calls fail   *)
(* and are repeated, makes the SDK hand libgpiod a freed chip or line.     *)
THEOREM NoHandleMisuse == Spec => []HandlesLive
<1>1. ResourceInv => HandlesLive
  BY DEF ResourceInv
<1>2. QED  BY <1>1, ResourceInvariant, PTL

(* An enabled device has two descriptors of its own, two open chips, a     *)
(* buffer and a mutex, whatever was open or leaked before.                 *)
THEOREM EnabledDeviceHasResources == Spec => []EnabledHasResources
<1>1. ResourceInv => EnabledHasResources
  <2> SUFFICES ASSUME ResourceInv, enable  PROVE EnabledHasResources
    BY DEF EnabledHasResources
  <2>1. held = "device" /\ buffer /\ mutex = "ready"
    BY DEF ResourceInv, Position
  <2>2. chip["accel"] \in gpio.chips /\ chip["gyro"] \in gpio.chips
    BY <2>1, HandlesFound DEF Initialised
  <2>3. /\ BusFiles = {bus["accel"], bus["gyro"]}
        /\ BusFiles \subseteq files \ {0}
        /\ bus["accel"] # bus["gyro"]
    BY <2>1 DEF ResourceInv, FilesApart, BusFiles
  <2>4. QED  BY <2>1, <2>2, <2>3 DEF EnabledHasResources, Device
<1>2. QED  BY <1>1, ResourceInvariant, PTL

(* Between calls nothing is open but what the client has set up and what   *)
(* the three failures that do not undo their work left behind.             *)
THEOREM AllResourcesAccounted == Spec => []ResourcesAccounted
<1>1. ResourceInv => ResourcesAccounted
  <2> SUFFICES ASSUME ResourceInv, stage = "idle"  PROVE ResourcesAccounted
    BY DEF ResourcesAccounted
  <2>1. ChipsInUse = IF held = "device" THEN {chip[d] : d \in Device} ELSE {}
    BY DEF ChipsInUse, Initialised, AccelOpen, BothOpen, Device
  <2>2. BusFiles = IF held \in {"bus", "device"} THEN {bus[d] : d \in Device} ELSE {}
    BY DEF BusFiles, Device
  <2>3. QED  BY <2>1, <2>2 DEF ResourcesAccounted, ResourceInv, ChipsApart, FilesApart
<1>2. QED  BY <1>1, ResourceInvariant, PTL
=============================================================================
