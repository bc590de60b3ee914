------------------------------ MODULE DeviceRegs ------------------------------
(***************************************************************************)
(* What rdk_imu_device_init does to the sensor before it turns to the GPIO *)
(* lines: reset, power, and thirteen fields of its registers, each changed  *)
(* by a read, a write and a read back; and how the interrupt threads turn  *)
(* the bytes of the data registers into samples.                           *)
(*                                                                         *)
(* A register is the set of its bits that are one.  Any transfer may fail, *)
(* and a write may get lost without an error.  After a soft reset the      *)
(* accel, as the sensor is made, takes no command over SPI until it has    *)
(* been selected once: the loop that switches it on has to bridge that.    *)
(***************************************************************************)
EXTENDS Integers, Sequences

CONSTANTS
  Config,       \* the configurations the client uses, see ConfigType
  PowerUp,      \* [Register -> value]: what a reset leaves in the registers
  Sample,       \* triples of int16_t the sensor may measure
  EnableTries,  \* attempts to switch the accel on: 10
  GyroTries,    \* attempts to read the chip id of the gyro: 3
  MaxCalls      \* bound: calls of rdk_imu_device_init

AccelRegister == {"ACC_ENABLE", "ACC_PWR_CONF", "ACC_CONF", "ACC_RANGE", "ACC_INT_MAP",
                  "ACC_INT1_IOCFG", "ACC_INT2_IOCFG"}
GyroRegister == {"GYR_RANGE", "GYR_BANDWIDTH", "GYR_INT_CTRL", "GYR_INT_MAP",
                 "GYR_INT_IOCFG"}
Register == AccelRegister \union GyroRegister
Bit == 0 .. 7

GpioMode == {"PP_H", "PP_L", "OD_H", "OD_L"}

ConfigType ==
  [accel_bwp : 8 .. 10, accel_odr : 5 .. 12, accel_range : 0 .. 3,
   gyro_range : 0 .. 4, gyro_bandwidth : 0 .. 7,
   accel_drdy_int : {"INT1", "INT2"}, accel_int_gpio_mode : GpioMode,
   gyro_drdy_int : {"INT3", "INT4"}, gyro_int_gpio_mode : GpioMode]

Int16 == -(2^15) .. 2^15 - 1

ASSUME DeviceRegsAssumption ==
  /\ Config \subseteq ConfigType
  /\ PowerUp \in [Register -> SUBSET Bit]
  /\ \A s \in Sample : s \in Seq(Int16) /\ Len(s) = 3
  /\ EnableTries \in Nat \ {0} /\ GyroTries \in Nat \ {0}
  /\ MaxCalls \in Nat

VARIABLES
  interface,  \* of both buses
  regs,       \* the registers of the two chips
  selected,   \* the accel listens: it has been selected since its last reset
  config,     \* the argument of the call
  pc,         \* where the call is
  tries,      \* attempts left in the loop it is in
  step,       \* the update it is at
  scale,      \* st->accel_data_scale, st->gyro_data_scale: the range they are for
  sample,     \* the last sample: what was measured, what was read
  ret,        \* what the last call returned
  calls,      \* how many calls there were
  faulty,     \* history: in this call a transfer failed or got lost
  base        \* history: the registers when the updates of this call began

vars == <<interface, regs, selected, config, pc, tries, step, scale, sample, ret, calls,
          faulty, base>>

NoSample == [measured |-> <<>>, read |-> <<>>, range |-> {}, scale |-> {}]

Init ==
  /\ interface \in {"I2C", "SPI"}
  /\ regs = PowerUp
  /\ selected = TRUE
  /\ config \in Config
  /\ pc = "idle"
  /\ tries = 0 /\ step = 1
  /\ scale = [d \in {"accel", "gyro"} |-> -1]
  /\ sample = NoSample
  /\ ret = "none"
  /\ calls = 0
  /\ faulty = FALSE
  /\ base = PowerUp

-----------------------------------------------------------------------------
Bits(n) == {b \in Bit : (n \div 2^b) % 2 = 1}
Shifted(n, k) == {b + k : b \in Bits(n)}

(* Mutant: the bits outside the mask are not kept. *)
ModifiedAll(old, data, mask) == data \intersect mask

(* new_val in rdk_imu_i2c_update and rdk_imu_spi_update *)
Modified(old, data, mask) == (old \ mask) \union (data \intersect mask)

(* The fields in the order they are written: [reg, data, mask]. *)
Updates(c) ==
  LET U(r, data, mask) == [reg |-> r, data |-> data, mask |-> mask]
      OD(mode) == mode \in {"OD_H", "OD_L"}
      High(mode) == mode \in {"PP_H", "OD_H"}
      If(p, bits) == IF p THEN bits ELSE {}
      accMap == IF c.accel_drdy_int = "INT1" THEN {2} ELSE {6}
      gyrMap == IF c.gyro_drdy_int = "INT3" THEN {0} ELSE {7}
      accPin == IF c.accel_drdy_int = "INT1" THEN "ACC_INT1_IOCFG" ELSE "ACC_INT2_IOCFG"
  IN
  << U("ACC_CONF", Shifted(c.accel_bwp, 4), 4 .. 7),
     U("ACC_CONF", Bits(c.accel_odr), 0 .. 3),
     U("ACC_RANGE", Bits(c.accel_range), 0 .. 1),
     U("GYR_RANGE", Bits(c.gyro_range), 0 .. 2),
     U("GYR_BANDWIDTH", Bits(c.gyro_bandwidth), 0 .. 2),
     U("ACC_INT_MAP", accMap, accMap),
     U("GYR_INT_CTRL", {7}, {7}),
     U("GYR_INT_MAP", gyrMap, gyrMap),
     U(accPin, {3}, {3}),
     U(accPin, If(OD(c.accel_int_gpio_mode), {2}), {2}),
     U(accPin, If(High(c.accel_int_gpio_mode), {1}), {1}),
     U("GYR_INT_IOCFG", If(OD(c.gyro_int_gpio_mode), {1, 3}),
       IF c.gyro_drdy_int = "INT3" THEN {1} ELSE {3}),
     U("GYR_INT_IOCFG", If(High(c.gyro_int_gpio_mode), {0, 2}),
       IF c.gyro_drdy_int = "INT3" THEN {0} ELSE {2}) >>

(* What a read gives of the bytes a chip sends: over SPI they come after   *)
(* the echo of the command and, from the accel, a dummy byte.              *)
Received(d, bytes, filler) ==
  LET dummies == IF d = "accel" THEN <<filler>> ELSE <<>>
      wire    == <<filler>> \o dummies \o bytes
      rdDummy == IF d = "accel" THEN 1 ELSE 0
  IN  IF interface = "I2C" THEN bytes
      ELSE SubSeq(wire, 2 + rdDummy, 1 + rdDummy + Len(bytes))

Owner(r) == IF r \in AccelRegister THEN "accel" ELSE "gyro"

(* The scale of a device is set when its range has been. *)
ScaledFor(u) ==
  [scale EXCEPT !["accel"] = IF u.reg = "ACC_RANGE" THEN config.accel_range ELSE @,
                !["gyro"]  = IF u.reg = "GYR_RANGE" THEN config.gyro_range ELSE @]

Return(r) ==
  /\ ret' = r
  /\ pc' = IF r = "OK" THEN "ready" ELSE "failed"

Goto(label, attempts) == pc' = label /\ tries' = attempts /\ UNCHANGED ret

-----------------------------------------------------------------------------
Start ==
  /\ pc \in {"idle", "ready", "failed"}
  /\ calls < MaxCalls
  /\ calls' = calls + 1
  /\ config' \in Config
  /\ faulty' = FALSE
  /\ sample' = NoSample
  /\ pc' = "reset_accel"
  /\ base' = PowerUp /\ step' = 1 /\ tries' = 0
  /\ UNCHANGED <<interface, regs, selected, scale, ret>>

(* Mutant: the accel is not reset. *)
ResetAccelSkipped ==
  /\ pc = "reset_accel"
  /\ pc' = "reset_gyro"
  /\ UNCHANGED <<interface, regs, selected, config, tries, step, scale, sample, ret, calls,
                 faulty, base>>

(* The result of the two soft resets is not looked at: one that fails or   *)
(* gets lost leaves the registers as they are.                             *)
ResetAccel ==
  /\ pc = "reset_accel"
  /\ \/ /\ regs' = [r \in Register |-> IF r \in AccelRegister THEN PowerUp[r] ELSE regs[r]]
        /\ selected' = (interface = "I2C")
        /\ UNCHANGED faulty
     \/ /\ faulty' = TRUE
        /\ UNCHANGED <<regs, selected>>
  /\ pc' = "reset_gyro"
  /\ UNCHANGED <<interface, config, tries, step, scale, sample, ret, calls, base>>

ResetGyro ==
  /\ pc = "reset_gyro"
  /\ \/ /\ regs' = [r \in Register |-> IF r \in GyroRegister THEN PowerUp[r] ELSE regs[r]]
        /\ UNCHANGED faulty
     \/ /\ faulty' = TRUE
        /\ UNCHANGED regs
  /\ Goto("enable_accel", EnableTries)
  /\ UNCHANGED <<interface, selected, config, step, scale, sample, calls, base>>

TransferFails ==
  /\ pc \in {"enable_accel", "power_accel", "gyro_id", "update"}
  /\ Return("TRANSFER_ERR")
  /\ faulty' = TRUE
  /\ selected' = (selected \/ pc = "enable_accel")
  /\ UNCHANGED <<interface, regs, config, tries, step, scale, sample, calls, base>>

(* Mutant: the attempts are not counted. *)
EnableAccelForever ==
  LET written == [regs EXCEPT !["ACC_ENABLE"] = Bits(4)] IN
  /\ pc = "enable_accel"
  /\ regs' \in {regs} \union (IF selected THEN {written} ELSE {})
  /\ selected' = TRUE
  /\ faulty' = (faulty \/ (selected /\ regs' # written))
  /\ IF Received("accel", <<regs'["ACC_ENABLE"]>>, {}) = <<Bits(4)>>
     THEN Goto("power_accel", 0)
     ELSE Goto("enable_accel", tries - 1)
  /\ UNCHANGED <<interface, config, step, scale, sample, calls, base>>

(* Mutant: only one attempt to switch the accel on. *)
EnableAccelOnce ==
  LET written == [regs EXCEPT !["ACC_ENABLE"] = Bits(4)] IN
  /\ pc = "enable_accel"
  /\ regs' \in {regs} \union (IF selected THEN {written} ELSE {})
  /\ selected' = TRUE
  /\ faulty' = (faulty \/ (selected /\ regs' # written))
  /\ IF Received("accel", <<regs'["ACC_ENABLE"]>>, {}) = <<Bits(4)>>
     THEN Goto("power_accel", 0)
     ELSE Return("ACCEL_ENABLE_FAILED") /\ UNCHANGED tries
  /\ UNCHANGED <<interface, config, step, scale, sample, calls, base>>

(* One turn of the loop that switches the accel on and reads it back.      *)
EnableAccel ==
  LET written == [regs EXCEPT !["ACC_ENABLE"] = Bits(4)] IN
  /\ pc = "enable_accel"
  /\ regs' \in {regs} \union (IF selected THEN {written} ELSE {})
  /\ selected' = TRUE
  /\ faulty' = (faulty \/ (selected /\ regs' # written))
  /\ IF Received("accel", <<regs'["ACC_ENABLE"]>>, {}) = <<Bits(4)>>
     THEN Goto("power_accel", 0)
     ELSE IF tries > 1 THEN Goto("enable_accel", tries - 1)
     ELSE Return("ACCEL_ENABLE_FAILED") /\ UNCHANGED tries
  /\ UNCHANGED <<interface, config, step, scale, sample, calls, base>>

(* PWR_CONF is written once and read back. *)
PowerAccel ==
  LET written == [regs EXCEPT !["ACC_PWR_CONF"] = {}] IN
  /\ pc = "power_accel"
  /\ regs' \in {regs, written}
  /\ faulty' = (faulty \/ regs' # written)
  /\ IF Received("accel", <<regs'["ACC_PWR_CONF"]>>, Bits(255)) = <<{}>>
     THEN Goto("gyro_id", GyroTries)
     ELSE Return("ACCEL_ENABLE_FAILED") /\ UNCHANGED tries
  /\ UNCHANGED <<interface, selected, config, step, scale, sample, calls, base>>

(* A turn of the loop that waits for the gyro to give its chip id. *)
GyroId ==
  /\ pc = "gyro_id"
  /\ \/ /\ Goto("update", 0)
        /\ base' = regs
        /\ UNCHANGED faulty
     \/ /\ IF tries > 1 THEN Goto("gyro_id", tries - 1)
           ELSE Return("GYRO_ENABLE_FAILED") /\ UNCHANGED tries
        /\ faulty' = TRUE
        /\ UNCHANGED base
  /\ UNCHANGED <<interface, regs, selected, config, step, scale, sample, calls>>

(* Mutant: the write is not verified. *)
UpdateUnverified ==
  LET updates == Updates(config)
      u == updates[step]
      new == Modified(Received(Owner(u.reg), <<regs[u.reg]>>, {})[1], u.data, u.mask)
  IN
  /\ pc = "update"
  /\ regs' \in {regs, [regs EXCEPT ![u.reg] = new]}
  /\ faulty' = (faulty \/ regs'[u.reg] # new)
  /\ scale' = ScaledFor(u)
  /\ IF step = Len(updates)
     THEN Return("OK") /\ UNCHANGED step
     ELSE step' = step + 1 /\ UNCHANGED <<pc, ret>>
  /\ UNCHANGED <<interface, selected, config, tries, sample, calls, base>>

(* The read of a field's register, the write with the field changed and    *)
(* the read back.  The scale is set once the range is.                     *)
Update ==
  LET updates == Updates(config)
      u == updates[step]
      new == Modified(Received(Owner(u.reg), <<regs[u.reg]>>, {})[1], u.data, u.mask)
  IN
  /\ pc = "update"
  /\ regs' \in {regs, [regs EXCEPT ![u.reg] = new]}
  /\ faulty' = (faulty \/ regs'[u.reg] # new)
  /\ \/ regs'[u.reg] # new /\ Return("UPDATE_FAILED") /\ UNCHANGED <<step, scale>>
     \/ /\ regs'[u.reg] = new
        /\ scale' = ScaledFor(u)
        /\ IF step = Len(updates)
           THEN Return("OK") /\ UNCHANGED step
           ELSE step' = step + 1 /\ UNCHANGED <<pc, ret>>
  /\ UNCHANGED <<interface, selected, config, tries, sample, calls, base>>

(* The write is done, but the read back fails. *)
VerifyFails ==
  LET u == Updates(config)[step] IN
  /\ pc = "update"
  /\ regs' = [regs EXCEPT ![u.reg] = Modified(@, u.data, u.mask)]
  /\ faulty' = TRUE
  /\ Return("TRANSFER_ERR")
  /\ UNCHANGED <<interface, selected, config, tries, step, scale, sample, calls, base>>

-----------------------------------------------------------------------------
(* The chip measures three values and sends each low byte first. *)
Sent(s) == [k \in 1 .. 6 |-> LET v == s[(k + 1) \div 2] IN
                             IF k % 2 = 1 THEN v % 256 ELSE (v \div 256) % 256]

(* Mutant: the two bytes are not made a signed number. *)
ParsedUnsigned(raw) == [k \in 1 .. 3 |-> raw[2 * k - 1] + 256 * raw[2 * k]]

(* parse_accel_data and parse_gyro_data, before the value is scaled. *)
Parsed(raw) ==
  LET Word(k) == raw[2 * k - 1] + 256 * raw[2 * k]
  IN  [k \in 1 .. 3 |-> IF Word(k) >= 2^15 THEN Word(k) - 2^16 ELSE Word(k)]

(* An interrupt thread reads the data registers in one burst. *)
ReadSample ==
  /\ pc = "ready"
  /\ \E d \in {"accel", "gyro"}, s \in Sample :
       sample' = [measured |-> s,
                  read     |-> Parsed(Received(d, Sent(s), 0)),
                  range    |-> IF d = "accel" THEN regs["ACC_RANGE"] \intersect 0 .. 1
                               ELSE regs["GYR_RANGE"] \intersect 0 .. 2,
                  scale    |-> Bits(scale[d])]
  /\ UNCHANGED <<interface, regs, selected, config, pc, tries, step, scale, ret, calls,
                 faulty, base>>

Next ==
  \/ Start \/ ResetAccel \/ ResetGyro \/ EnableAccel \/ PowerAccel \/ GyroId
  \/ Update \/ VerifyFails \/ TransferFails \/ ReadSample

Spec == Init /\ [][Next]_vars

-----------------------------------------------------------------------------
TypeOK ==
  /\ interface \in {"I2C", "SPI"}
  /\ regs \in [Register -> SUBSET Bit] /\ base \in [Register -> SUBSET Bit]
  /\ selected \in BOOLEAN /\ faulty \in BOOLEAN
  /\ config \in Config
  /\ pc \in {"idle", "reset_accel", "reset_gyro", "enable_accel", "power_accel", "gyro_id",
             "update", "ready", "failed"}
  /\ tries \in 0 .. EnableTries + GyroTries
  /\ step \in 1 .. 13
  /\ scale \in [{"accel", "gyro"} -> -1 .. 4]
  /\ ret \in {"none", "OK", "TRANSFER_ERR", "ACCEL_ENABLE_FAILED", "GYRO_ENABLE_FAILED",
              "UPDATE_FAILED"}
  /\ calls \in 0 .. MaxCalls

(* The number in the bits lo .. hi of a register. *)
Field(r, lo, hi) ==
  LET b(k) == IF k <= hi /\ k \in regs[r] THEN 2^(k - lo) ELSE 0
  IN  b(lo) + b(lo + 1) + b(lo + 2) + b(lo + 3)

(* When the call returns RDK_IMU_OK, each field holds what config asks     *)
(* for, whatever got lost on the way and whatever was written after it to  *)
(* the same register: bandwidth, rate and ranges, and the chosen pins are  *)
(* outputs of the configured kind with the data-ready interrupt on them.   *)
Configured ==
  pc = "ready" =>
    LET accPin == IF config.accel_drdy_int = "INT1" THEN "ACC_INT1_IOCFG"
                  ELSE "ACC_INT2_IOCFG"
        gyrPin == IF config.gyro_drdy_int = "INT3" THEN 0 ELSE 2
        od(mode) == IF mode \in {"OD_H", "OD_L"} THEN 1 ELSE 0
        high(mode) == IF mode \in {"PP_H", "OD_H"} THEN 1 ELSE 0
    IN
    /\ Field("ACC_ENABLE", 0, 3) = 4 /\ Field("ACC_PWR_CONF", 0, 3) = 0
    /\ Field("ACC_CONF", 4, 7) = config.accel_bwp
    /\ Field("ACC_CONF", 0, 3) = config.accel_odr
    /\ Field("ACC_RANGE", 0, 1) = config.accel_range
    /\ Field("GYR_RANGE", 0, 2) = config.gyro_range
    /\ Field("GYR_BANDWIDTH", 0, 2) = config.gyro_bandwidth
    /\ IF config.accel_drdy_int = "INT1" THEN 2 \in regs["ACC_INT_MAP"]
       ELSE 6 \in regs["ACC_INT_MAP"]
    /\ IF config.gyro_drdy_int = "INT3" THEN 0 \in regs["GYR_INT_MAP"]
       ELSE 7 \in regs["GYR_INT_MAP"]
    /\ 7 \in regs["GYR_INT_CTRL"]
    /\ Field(accPin, 1, 3) = 4 + 2 * od(config.accel_int_gpio_mode)
                               + high(config.accel_int_gpio_mode)
    /\ Field("GYR_INT_IOCFG", gyrPin, gyrPin + 1)
         = 2 * od(config.gyro_int_gpio_mode) + high(config.gyro_int_gpio_mode)

(* The fields are changed and nothing else: while the updates go on and    *)
(* when they end, with success or with a field that did not take, every    *)
(* other bit of the registers is as it was when the updates began.         *)
OthersKept ==
  pc \in {"update", "ready"} \/ (pc = "failed" /\ ret = "UPDATE_FAILED") =>
    LET updates == Updates(config)
        Fields(r) == {b \in Bit : \E k \in 1 .. Len(updates) :
                                    updates[k].reg = r /\ b \in updates[k].mask}
    IN  \A r \in Register : regs[r] \ Fields(r) = base[r] \ Fields(r)

(* The retries are enough for a sensor that works: when no transfer fails  *)
(* and none gets lost, the call succeeds, on either interface, although    *)
(* the accel ignores the first command after its reset over SPI.           *)
WorkingSensorAccepted == pc = "failed" => faulty

(* The comment at rdkimu.c:468: data-ready goes to the pin the user has    *)
(* set, and to no other, after a call in which all went well; also when an *)
(* earlier call had set the other pin.                                     *)
MappedToOnePin ==
  pc = "ready" /\ ~faulty =>
    /\ regs["ACC_INT_MAP"] \intersect {2, 6}
         = IF config.accel_drdy_int = "INT1" THEN {2} ELSE {6}
    /\ regs["GYR_INT_MAP"] \intersect {0, 7}
         = IF config.gyro_drdy_int = "INT3" THEN {0} ELSE {7}

(* A sample is what the chip has measured, sign and axes included, and it  *)
(* is scaled for the range the chip has measured it with.                  *)
SamplesTrue == sample.read = sample.measured /\ sample.range = sample.scale
=============================================================================
