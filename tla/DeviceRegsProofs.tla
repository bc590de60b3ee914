--------------------------- MODULE DeviceRegsProofs ---------------------------
(***************************************************************************)
(* Theorems about DeviceRegs: for any configuration the header allows, any *)
(* contents of the registers after a reset, any samples, any number of     *)
(* calls and any sequence of failed and lost transfers.                    *)
(*                                                                         *)
(* The updates are thirteen, and two of one register never share a bit: so *)
(* a field written stays as written, and the invariant says so of all the  *)
(* fields up to the one the call is at.                                    *)
(***************************************************************************)
EXTENDS DeviceRegs, SequenceTheorems, TLAPS

Fields(r) == {b \in Bit : \E k \in 1 .. 13 : /\ Updates(config)[k].reg = r
                                             /\ b \in Updates(config)[k].mask}

Written(k) == (pc = "update" /\ k < step) \/ pc = "ready"

Holds(u) == regs[u.reg] \intersect u.mask = u.data \intersect u.mask

(* The fields written hold what they were given. *)
Applied == \A k \in 1 .. 13 : Written(k) => Holds(Updates(config)[k])

Powered ==
  /\ pc \in {"power_accel", "gyro_id", "update", "ready"} => regs["ACC_ENABLE"] = Bits(4)
  /\ pc \in {"gyro_id", "update", "ready"} => regs["ACC_PWR_CONF"] = {}

Began ==
  pc \in {"reset_accel", "reset_gyro", "enable_accel", "power_accel", "gyro_id"} => step = 1

Scaled ==
  /\ Written(3) => scale["accel"] = config.accel_range
  /\ Written(4) => scale["gyro"] = config.gyro_range

(* The accel has ignored a command only in the first turn of its loop. *)
SelectedAtOnce == pc = "enable_accel" => selected \/ tries = EnableTries

(* When all has gone well, the updates found the interrupt maps as a reset *)
(* leaves them.                                                            *)
MapsReset ==
  /\ pc \in {"reset_gyro", "enable_accel", "power_accel", "gyro_id"} /\ ~faulty =>
       regs["ACC_INT_MAP"] = PowerUp["ACC_INT_MAP"]
  /\ pc \in {"enable_accel", "power_accel", "gyro_id"} /\ ~faulty =>
       regs["GYR_INT_MAP"] = PowerUp["GYR_INT_MAP"]
  /\ pc \in {"update", "ready"} /\ ~faulty =>
       /\ base["ACC_INT_MAP"] = PowerUp["ACC_INT_MAP"]
       /\ base["GYR_INT_MAP"] = PowerUp["GYR_INT_MAP"]

RegsInv ==
  /\ TypeOK /\ Applied /\ Powered /\ Began /\ Scaled /\ OthersKept /\ MapsReset

-----------------------------------------------------------------------------
(* Over either interface a read gives the bytes the chip has sent.         *)
LEMMA ReceivedIsSent ==
  ASSUME NEW d \in {"accel", "gyro"}, NEW S, NEW bytes \in Seq(S), NEW filler \in S,
         interface \in {"I2C", "SPI"}
  PROVE  Received(d, bytes, filler) = bytes
<1>1. SubSeq(<<filler>> \o <<filler>> \o bytes, 3, 2 + Len(bytes)) = bytes
  OBVIOUS
<1>2. SubSeq(<<filler>> \o <<>> \o bytes, 2, 1 + Len(bytes)) = bytes
  OBVIOUS
<1>3. CASE interface = "I2C"
  BY <1>3 DEF Received
<1>4. CASE interface = "SPI" /\ d = "accel"
  BY <1>1, <1>4 DEF Received
<1>5. CASE interface = "SPI" /\ d = "gyro"
  BY <1>2, <1>5 DEF Received
<1>6. QED  BY <1>3, <1>4, <1>5

LEMMA ByteReceived ==
  ASSUME NEW d \in {"accel", "gyro"}, NEW x, NEW filler, interface \in {"I2C", "SPI"}
  PROVE  Received(d, <<x>>, filler) = <<x>>
<1>1. <<x>> \in Seq({x, filler}) /\ filler \in {x, filler}
  OBVIOUS
<1>2. QED  BY <1>1, ReceivedIsSent

-----------------------------------------------------------------------------
(* The updates, one by one. *)

AccPin(c) == IF c.accel_drdy_int = "INT1" THEN "ACC_INT1_IOCFG" ELSE "ACC_INT2_IOCFG"

Regs(c) == <<"ACC_CONF", "ACC_CONF", "ACC_RANGE", "GYR_RANGE", "GYR_BANDWIDTH",
             "ACC_INT_MAP", "GYR_INT_CTRL", "GYR_INT_MAP", AccPin(c), AccPin(c), AccPin(c),
             "GYR_INT_IOCFG", "GYR_INT_IOCFG">>

Masks(c) ==
  <<4 .. 7, 0 .. 3, 0 .. 1, 0 .. 2, 0 .. 2,
    IF c.accel_drdy_int = "INT1" THEN {2} ELSE {6}, {7},
    IF c.gyro_drdy_int = "INT3" THEN {0} ELSE {7}, {3}, {2}, {1},
    IF c.gyro_drdy_int = "INT3" THEN {1} ELSE {3},
    IF c.gyro_drdy_int = "INT3" THEN {0} ELSE {2}>>

LEMMA UpdatesLen == ASSUME NEW c  PROVE Len(Updates(c)) = 13
BY DEF Updates

LEMMA UpdateRegs ==
  ASSUME NEW c, NEW k \in 1 .. 13
  PROVE  Updates(c)[k].reg = Regs(c)[k] /\ Updates(c)[k].mask = Masks(c)[k]
<1> DEFINE At(n) == Updates(c)[n].reg = Regs(c)[n] /\ Updates(c)[n].mask = Masks(c)[n]
<1>1. At(1) /\ At(2) /\ At(3) /\ At(4) /\ At(5) /\ At(6) /\ At(7) /\ At(8)
  BY DEF Updates, Regs, Masks
<1>2. At(9) /\ At(10) /\ At(11) /\ At(12) /\ At(13)
  BY DEF Updates, Regs, Masks, AccPin
<1> HIDE DEF At
<1>3. At(k)
  BY <1>1, <1>2
<1>4. QED  BY <1>3 DEF At

LEMMA RegsApart ==
  ASSUME NEW c, NEW j \in 1 .. 13, NEW k \in 1 .. 13, j # k, Regs(c)[j] = Regs(c)[k]
  PROVE  Masks(c)[j] \intersect Masks(c)[k] = {}
BY DEF Regs, Masks, AccPin

LEMMA RegsTypes ==
  ASSUME NEW c, NEW k \in 1 .. 13
  PROVE  /\ Regs(c)[k] \in Register \ {"ACC_ENABLE", "ACC_PWR_CONF"}
         /\ Masks(c)[k] \subseteq Bit
         /\ Regs(c)[k] = "ACC_RANGE" <=> k = 3
         /\ Regs(c)[k] = "GYR_RANGE" <=> k = 4
         /\ Regs(c)[k] = "ACC_INT_MAP" <=> k = 6
         /\ Regs(c)[k] = "GYR_INT_MAP" <=> k = 8
BY DEF Regs, Masks, AccPin, Register, AccelRegister, GyroRegister, Bit

(* A bit outside the fields is in no mask. *)
LEMMA FieldsCover ==
  ASSUME NEW k \in 1 .. 13
  PROVE  Updates(config)[k].mask \subseteq Fields(Updates(config)[k].reg)
<1>1. Updates(config)[k].mask \subseteq Bit
  BY UpdateRegs, RegsTypes
<1>2. QED  BY <1>1 DEF Fields

LEMMA OthersRead ==
  ASSUME OthersKept, pc \in {"update", "ready"}
  PROVE  \A r \in Register : regs[r] \ Fields(r) = base[r] \ Fields(r)
<1> TAKE r \in Register
<1> DEFINE Masked == {b \in Bit : \E k \in 1 .. Len(Updates(config)) :
                        Updates(config)[k].reg = r /\ b \in Updates(config)[k].mask}
<1>1. regs[r] \ Masked = base[r] \ Masked
  BY DEF OthersKept
<1>2. Masked = Fields(r)
  <2>1. Len(Updates(config)) = 13
    BY UpdatesLen
  <2>2. QED  BY <2>1 DEF Fields
<1>3. QED  BY <1>1, <1>2

-----------------------------------------------------------------------------
(* The steps before the updates. *)

LEMMA InitRegs == Init => RegsInv
<1> SUFFICES ASSUME Init  PROVE RegsInv
  OBVIOUS
<1>1. TypeOK
  <2>1. regs \in [Register -> SUBSET Bit] /\ base \in [Register -> SUBSET Bit]
    BY DeviceRegsAssumption DEF Init
  <2>2. scale \in [{"accel", "gyro"} -> -1 .. 4]
    BY DEF Init
  <2>3. tries \in 0 .. EnableTries + GyroTries /\ calls \in 0 .. MaxCalls /\ step \in 1 .. 13
    BY DeviceRegsAssumption DEF Init
  <2>4. selected \in BOOLEAN /\ faulty \in BOOLEAN
    BY DEF Init
  <2>5. QED  BY <2>1, <2>2, <2>3, <2>4 DEF Init, TypeOK
<1>2. Applied /\ Powered /\ Began /\ Scaled /\ OthersKept /\ MapsReset
  BY DEF Init, Applied, Written, Powered, Began, Scaled, OthersKept, MapsReset
<1>3. QED  BY <1>1, <1>2 DEF RegsInv

(* Outside the updates nothing is said of the fields. *)
LEMMA FieldsUnspoken ==
  ASSUME pc' \notin {"update", "ready"}, pc' = "failed" => ret' # "UPDATE_FAILED"
  PROVE  Applied' /\ Scaled' /\ OthersKept'
BY DEF Applied, Scaled, Written, OthersKept

LEMMA StartAndResets ==
  ASSUME RegsInv, Start \/ ResetAccel \/ ResetGyro  PROVE RegsInv'
<1> USE DEF Goto
<1>1. Applied' /\ Scaled' /\ OthersKept'
  <2>1. pc' \in {"reset_accel", "reset_gyro", "enable_accel"}
    BY DEF Start, ResetAccel, ResetGyro
  <2>2. QED  BY <2>1, FieldsUnspoken
<1>2. TypeOK
  BY DEF RegsInv
<1>3. CASE Start
  <2>1. TypeOK'
    <3>1. /\ calls' \in 0 .. MaxCalls /\ tries' \in 0 .. EnableTries + GyroTries
          /\ step' \in 1 .. 13
      BY <1>2, <1>3, DeviceRegsAssumption DEF Start, TypeOK
    <3>2. base' \in [Register -> SUBSET Bit]
      BY <1>3, DeviceRegsAssumption DEF Start
    <3>3. selected' \in BOOLEAN /\ faulty' \in BOOLEAN
      BY <1>2, <1>3 DEF Start, TypeOK
    <3>4. QED  BY <1>2, <1>3, <3>1, <3>2, <3>3 DEF Start, TypeOK
  <2>2. Powered' /\ Began' /\ MapsReset'
    BY <1>3 DEF Start, Powered, Began, MapsReset
  <2>3. QED  BY <1>1, <2>1, <2>2 DEF RegsInv
<1>4. CASE ResetAccel
  <2>1. regs' \in [Register -> SUBSET Bit]
    BY <1>2, <1>4, DeviceRegsAssumption DEF ResetAccel, TypeOK
  <2>2. TypeOK'
    BY <1>2, <1>4, <2>1 DEF ResetAccel, TypeOK
  <2>3. ~faulty' => regs'["ACC_INT_MAP"] = PowerUp["ACC_INT_MAP"]
    BY <1>2, <1>4 DEF ResetAccel, TypeOK, Register, AccelRegister
  <2>4. Powered' /\ Began' /\ MapsReset'
    BY <1>4, <2>3 DEF ResetAccel, RegsInv, Powered, Began, MapsReset
  <2>5. QED  BY <1>1, <2>2, <2>4 DEF RegsInv
<1>5. CASE ResetGyro
  <2>1. regs' \in [Register -> SUBSET Bit]
    BY <1>2, <1>5, DeviceRegsAssumption DEF ResetGyro, TypeOK
  <2>2. TypeOK'
    <3>1. tries' \in 0 .. EnableTries + GyroTries
      BY <1>5, DeviceRegsAssumption DEF ResetGyro
    <3>2. QED  BY <1>2, <1>5, <2>1, <3>1 DEF ResetGyro, TypeOK
  <2>3. ~faulty' => /\ regs'["GYR_INT_MAP"] = PowerUp["GYR_INT_MAP"]
                    /\ regs'["ACC_INT_MAP"] = PowerUp["ACC_INT_MAP"]
    BY <1>2, <1>5 DEF ResetGyro, TypeOK, Register, GyroRegister, AccelRegister, RegsInv,
                      MapsReset
  <2>4. Powered' /\ Began' /\ MapsReset'
    BY <1>5, <2>3 DEF ResetGyro, RegsInv, Powered, Began, MapsReset
  <2>5. QED  BY <1>1, <2>2, <2>4 DEF RegsInv
<1>6. QED  BY <1>3, <1>4, <1>5

LEMMA StepEnableAccel ==
  ASSUME RegsInv, EnableAccel  PROVE RegsInv'
<1> DEFINE written == [regs EXCEPT !["ACC_ENABLE"] = Bits(4)]
<1>1. /\ pc = "enable_accel" /\ regs' \in {regs, written} /\ selected' = TRUE
      /\ faulty' = (faulty \/ (selected /\ regs' # written))
      /\ UNCHANGED <<interface, config, step, scale, sample, calls, base>>
  BY DEF EnableAccel
<1>2. TypeOK /\ step = 1
  BY <1>1 DEF RegsInv, Began
<1>3. written \in [Register -> SUBSET Bit]
  <2>1. Bits(4) \subseteq Bit
    BY DEF Bits
  <2>2. QED  BY <1>2, <2>1 DEF TypeOK
<1>4. regs' \in [Register -> SUBSET Bit]
  BY <1>1, <1>2, <1>3 DEF TypeOK
<1>5. Received("accel", <<regs'["ACC_ENABLE"]>>, {}) = <<regs'["ACC_ENABLE"]>>
  BY <1>2, ByteReceived DEF TypeOK
<1>6. \/ pc' = "power_accel" /\ tries' = 0 /\ ret' = ret /\ regs'["ACC_ENABLE"] = Bits(4)
      \/ pc' = "enable_accel" /\ tries > 1 /\ tries' = tries - 1 /\ ret' = ret
      \/ pc' = "failed" /\ tries' = tries /\ ret' = "ACCEL_ENABLE_FAILED"
  <2>1. CASE Received("accel", <<regs'["ACC_ENABLE"]>>, {}) = <<Bits(4)>>
    BY <1>5, <2>1 DEF EnableAccel, Goto
  <2>2. CASE Received("accel", <<regs'["ACC_ENABLE"]>>, {}) # <<Bits(4)>>
    BY <2>2 DEF EnableAccel, Goto, Return
  <2>3. QED  BY <2>1, <2>2
<1>7. Applied' /\ Scaled' /\ OthersKept'
  BY <1>6, FieldsUnspoken
<1>8. TypeOK'
  <2>1. tries' \in 0 .. EnableTries + GyroTries
    BY <1>2, <1>6, DeviceRegsAssumption DEF TypeOK
  <2>2. faulty' \in BOOLEAN
    BY <1>1
  <2>3. QED  BY <1>1, <1>2, <1>4, <1>6, <2>1, <2>2 DEF TypeOK
<1>9. Powered' /\ Began'
  BY <1>1, <1>2, <1>6 DEF Powered, Began
<1>10. MapsReset'
  <2>1. /\ regs'["ACC_INT_MAP"] = regs["ACC_INT_MAP"]
        /\ regs'["GYR_INT_MAP"] = regs["GYR_INT_MAP"]
    BY <1>1, <1>2 DEF TypeOK, Register, AccelRegister, GyroRegister
  <2>2. QED  BY <1>1, <1>6, <2>1 DEF RegsInv, MapsReset
<1>11. QED  BY <1>7, <1>8, <1>9, <1>10 DEF RegsInv

LEMMA StepPowerAccel ==
  ASSUME RegsInv, PowerAccel  PROVE RegsInv'
<1> DEFINE written == [regs EXCEPT !["ACC_PWR_CONF"] = {}]
<1>1. /\ pc = "power_accel" /\ regs' \in {regs, written}
      /\ faulty' = (faulty \/ regs' # written)
      /\ UNCHANGED <<interface, selected, config, step, scale, sample, calls, base>>
  BY DEF PowerAccel
<1>2. TypeOK /\ step = 1 /\ regs["ACC_ENABLE"] = Bits(4)
  BY <1>1 DEF RegsInv, Began, Powered
<1>3. regs' \in [Register -> SUBSET Bit]
  BY <1>1, <1>2 DEF TypeOK
<1>4. Received("accel", <<regs'["ACC_PWR_CONF"]>>, Bits(255)) = <<regs'["ACC_PWR_CONF"]>>
  BY <1>2, ByteReceived DEF TypeOK
<1>5. \/ /\ pc' = "gyro_id" /\ tries' = GyroTries /\ ret' = ret
         /\ regs'["ACC_PWR_CONF"] = {}
      \/ pc' = "failed" /\ tries' = tries /\ ret' = "ACCEL_ENABLE_FAILED"
  <2>1. CASE Received("accel", <<regs'["ACC_PWR_CONF"]>>, Bits(255)) = <<{}>>
    BY <1>4, <2>1 DEF PowerAccel, Goto
  <2>2. CASE Received("accel", <<regs'["ACC_PWR_CONF"]>>, Bits(255)) # <<{}>>
    BY <2>2 DEF PowerAccel, Goto, Return
  <2>3. QED  BY <2>1, <2>2
<1>6. Applied' /\ Scaled' /\ OthersKept'
  BY <1>5, FieldsUnspoken
<1>7. TypeOK'
  <2>1. tries' \in 0 .. EnableTries + GyroTries
    BY <1>2, <1>5, DeviceRegsAssumption DEF TypeOK
  <2>2. faulty' \in BOOLEAN
    BY <1>1, <1>2 DEF TypeOK
  <2>3. QED  BY <1>1, <1>2, <1>3, <1>5, <2>1, <2>2 DEF TypeOK
<1>8. /\ regs'["ACC_INT_MAP"] = regs["ACC_INT_MAP"]
      /\ regs'["GYR_INT_MAP"] = regs["GYR_INT_MAP"]
      /\ regs'["ACC_ENABLE"] = regs["ACC_ENABLE"]
  BY <1>1, <1>2 DEF TypeOK, Register, AccelRegister, GyroRegister
<1>9. Powered' /\ Began' /\ MapsReset'
  BY <1>1, <1>2, <1>5, <1>8 DEF RegsInv, Powered, Began, MapsReset
<1>10. QED  BY <1>6, <1>7, <1>9 DEF RegsInv

LEMMA StepGyroId ==
  ASSUME RegsInv, GyroId  PROVE RegsInv'
<1>1. /\ pc = "gyro_id"
      /\ UNCHANGED <<interface, regs, selected, config, step, scale, sample, calls>>
      /\ \/ /\ pc' = "update" /\ tries' = 0 /\ ret' = ret
            /\ base' = regs /\ faulty' = faulty
         \/ /\ faulty' = TRUE /\ base' = base
            /\ \/ pc' = "gyro_id" /\ tries > 1 /\ tries' = tries - 1 /\ ret' = ret
               \/ pc' = "failed" /\ tries' = tries /\ ret' = "GYRO_ENABLE_FAILED"
  BY DEF GyroId, Goto, Return
<1>2. TypeOK /\ step = 1
  BY <1>1 DEF RegsInv, Began
<1>3. TypeOK'
  <2>1. tries' \in 0 .. EnableTries + GyroTries
    BY <1>1, <1>2, DeviceRegsAssumption DEF TypeOK
  <2>2. faulty' \in BOOLEAN /\ base' \in [Register -> SUBSET Bit]
    BY <1>1, <1>2 DEF TypeOK
  <2>3. QED  BY <1>1, <1>2, <2>1, <2>2 DEF TypeOK
<1>4. Applied' /\ Scaled'
  BY <1>1, <1>2 DEF Applied, Scaled, Written
<1>5. OthersKept'
  BY <1>1 DEF OthersKept
<1>6. Powered' /\ Began' /\ MapsReset'
  BY <1>1, <1>2 DEF RegsInv, Powered, Began, MapsReset
<1>7. QED  BY <1>3, <1>4, <1>5, <1>6 DEF RegsInv

LEMMA StepTransferFails ==
  ASSUME RegsInv, TransferFails  PROVE RegsInv'
<1>1. /\ pc' = "failed" /\ ret' = "TRANSFER_ERR" /\ faulty' = TRUE /\ selected' \in BOOLEAN
      /\ UNCHANGED <<interface, regs, config, tries, step, scale, sample, calls, base>>
  BY DEF TransferFails, Return
<1>2. TypeOK'
  BY <1>1 DEF RegsInv, TypeOK
<1>3. Applied' /\ Scaled' /\ OthersKept'
  BY <1>1, FieldsUnspoken
<1>4. Powered' /\ Began' /\ MapsReset'
  BY <1>1 DEF Powered, Began, MapsReset
<1>5. QED  BY <1>2, <1>3, <1>4 DEF RegsInv

-----------------------------------------------------------------------------
(* The updates. *)

LEMMA ConfigRanges ==
  ASSUME TypeOK
  PROVE  config \in ConfigType /\ config.accel_range \in 0 .. 3 /\ config.gyro_range \in 0 .. 4
BY DeviceRegsAssumption DEF TypeOK, ConfigType

(* What a field's update writes, and what it leaves alone. *)
LEMMA ModifiedBits ==
  ASSUME NEW old, NEW data, NEW mask
  PROVE  /\ Modified(old, data, mask) \intersect mask = data \intersect mask
         /\ Modified(old, data, mask) \ mask = old \ mask
BY DEF Modified

LEMMA StepVerifyFails ==
  ASSUME RegsInv, VerifyFails  PROVE RegsInv'
<1> DEFINE u == Updates(config)[step]
<1>1. /\ pc = "update" /\ pc' = "failed" /\ ret' = "TRANSFER_ERR" /\ faulty' = TRUE
      /\ regs' = [regs EXCEPT ![u.reg] = Modified(regs[u.reg], u.data, u.mask)]
      /\ UNCHANGED <<interface, selected, config, tries, step, scale, sample, calls, base>>
  BY DEF VerifyFails, Return
<1>2. TypeOK /\ step \in 1 .. 13
  BY DEF RegsInv, TypeOK
<1>3. u.reg \in Register /\ u.mask \subseteq Bit
  BY <1>2, UpdateRegs, RegsTypes
<1>4. Modified(regs[u.reg], u.data, u.mask) \subseteq Bit
  BY <1>2, <1>3 DEF Modified, TypeOK
<1> HIDE DEF u
<1>5. regs' \in [Register -> SUBSET Bit]
  BY <1>1, <1>2, <1>4 DEF TypeOK
<1>6. TypeOK'
  BY <1>1, <1>2, <1>5 DEF TypeOK
<1>7. Applied' /\ Scaled' /\ OthersKept'
  BY <1>1, FieldsUnspoken
<1>8. Powered' /\ Began' /\ MapsReset'
  BY <1>1 DEF Powered, Began, MapsReset
<1>9. QED  BY <1>6, <1>7, <1>8 DEF RegsInv

(* The one update that goes on: the field is in, the others are untouched. *)
LEMMA StepUpdate ==
  ASSUME RegsInv, Update  PROVE RegsInv'
<1> DEFINE u == Updates(config)[step]
           new == Modified(regs[u.reg], u.data, u.mask)
<1>1. TypeOK /\ step \in 1 .. 13 /\ pc = "update"
  BY DEF RegsInv, TypeOK, Update
<1>2. /\ u.reg = Regs(config)[step] /\ u.mask = Masks(config)[step]
      /\ u.reg \in Register \ {"ACC_ENABLE", "ACC_PWR_CONF"} /\ u.mask \subseteq Bit
      /\ u.mask \subseteq Fields(u.reg)
  BY <1>1, UpdateRegs, RegsTypes, FieldsCover
<1>3. Received(Owner(u.reg), <<regs[u.reg]>>, {})[1] = regs[u.reg]
  <2>1. Received(Owner(u.reg), <<regs[u.reg]>>, {}) = <<regs[u.reg]>>
    BY <1>1, ByteReceived DEF TypeOK, Owner
  <2>2. QED  BY <2>1
<1>4. /\ regs' \in {regs, [regs EXCEPT ![u.reg] = new]}
      /\ faulty' = (faulty \/ regs'[u.reg] # new)
      /\ UNCHANGED <<interface, selected, config, tries, sample, calls, base>>
      /\ \/ /\ regs'[u.reg] # new /\ pc' = "failed" /\ ret' = "UPDATE_FAILED"
            /\ UNCHANGED <<step, scale>>
         \/ /\ regs'[u.reg] = new /\ scale' = ScaledFor(u)
            /\ \/ step = 13 /\ pc' = "ready" /\ ret' = "OK" /\ step' = step
               \/ step # 13 /\ pc' = "update" /\ ret' = ret /\ step' = step + 1
  BY <1>1, <1>3, UpdatesLen DEF Update, Return
<1>5. /\ new \subseteq Bit
      /\ new \intersect u.mask = u.data \intersect u.mask
      /\ new \ u.mask = regs[u.reg] \ u.mask
  BY <1>1, <1>2, ModifiedBits DEF Modified, TypeOK
<1> HIDE DEF u, new
<1>6. regs' \in [Register -> SUBSET Bit]
  BY <1>1, <1>4, <1>5 DEF TypeOK
<1>7. \A r \in Register : /\ r # u.reg => regs'[r] = regs[r]
                          /\ r = u.reg => regs'[r] \ u.mask = regs[r] \ u.mask
  BY <1>1, <1>2, <1>4, <1>5 DEF TypeOK
<1>8. /\ scale' \in [{"accel", "gyro"} -> -1 .. 4]
      /\ pc' # "failed" =>
           /\ scale'["accel"] = IF step = 3 THEN config.accel_range ELSE scale["accel"]
           /\ scale'["gyro"] = IF step = 4 THEN config.gyro_range ELSE scale["gyro"]
  <2>1. (u.reg = "ACC_RANGE" <=> step = 3) /\ (u.reg = "GYR_RANGE" <=> step = 4)
    BY <1>1, <1>2, RegsTypes
  <2>2. CASE scale' = ScaledFor(u)
    BY <1>1, <2>1, <2>2, ConfigRanges DEF ScaledFor, TypeOK
  <2>3. CASE pc' = "failed" /\ scale' = scale
    BY <1>1, <2>3 DEF TypeOK
  <2>4. QED  BY <1>4, <2>2, <2>3
<1>9. TypeOK'
  <2>1. step' \in 1 .. 13 /\ faulty' \in BOOLEAN
    BY <1>1, <1>4 DEF TypeOK
  <2>2. QED  BY <1>1, <1>4, <1>6, <1>8, <2>1 DEF TypeOK
<1>10. Applied'
  <2> SUFFICES ASSUME NEW k \in 1 .. 13, Written(k)'
               PROVE  Holds(Updates(config)[k])'
    BY DEF Applied
  <2> DEFINE v == Updates(config)[k]
  <2>1. regs'[u.reg] = new /\ k <= step
    BY <1>1, <1>4 DEF Written
  <2>2. CASE k = step
    BY <1>4, <1>5, <2>1, <2>2 DEF Holds, u
  <2>3. CASE k < step
    <3>1. regs[v.reg] \intersect v.mask = v.data \intersect v.mask
      BY <1>1, <2>3 DEF RegsInv, Applied, Written, Holds
    <3>2. v.reg \in Register /\ v.mask = Masks(config)[k] /\ v.reg = Regs(config)[k]
      BY UpdateRegs, RegsTypes
    <3>3. v.reg = u.reg => v.mask \intersect u.mask = {}
      <4>1. k # step
        BY <1>1, <2>3
      <4>2. Regs(config)[k] = Regs(config)[step] =>
              Masks(config)[k] \intersect Masks(config)[step] = {}
        BY <1>1, <4>1, RegsApart
      <4>3. QED  BY <1>2, <3>2, <4>2
    <3>4. regs'[v.reg] \intersect v.mask = regs[v.reg] \intersect v.mask
      BY <1>7, <3>2, <3>3
    <3>5. QED  BY <1>4, <3>1, <3>4 DEF Holds
  <2>4. QED  BY <1>1, <2>1, <2>2, <2>3
<1>11. OthersKept'
  <2> SUFFICES ASSUME NEW r \in Register
               PROVE  regs'[r] \ Fields(r) = base'[r] \ Fields(r)
    BY <1>4, UpdatesLen DEF OthersKept, Fields
  <2>1. regs[r] \ Fields(r) = base[r] \ Fields(r)
    <3>1. OthersKept
      BY DEF RegsInv
    <3>2. QED  BY <1>1, <3>1, OthersRead
  <2>2. regs'[r] \ Fields(r) = regs[r] \ Fields(r)
    BY <1>2, <1>7
  <2>3. QED  BY <1>4, <2>1, <2>2
<1>12. Powered' /\ Began' /\ Scaled' /\ MapsReset'
  <2>1. regs'["ACC_ENABLE"] = regs["ACC_ENABLE"] /\ regs'["ACC_PWR_CONF"] = regs["ACC_PWR_CONF"]
    BY <1>2, <1>7 DEF Register, AccelRegister
  <2>2. Powered' /\ Began'
    BY <1>1, <1>4, <2>1 DEF RegsInv, Powered, Began
  <2>3. Scaled'
    BY <1>1, <1>4, <1>8 DEF RegsInv, Scaled, Written
  <2>4. MapsReset'
    BY <1>1, <1>4 DEF RegsInv, MapsReset
  <2>5. QED  BY <2>2, <2>3, <2>4
<1>13. QED  BY <1>9, <1>10, <1>11, <1>12 DEF RegsInv

(* The invariant of the call holds in every reachable state. *)
THEOREM RegsInvariant == Spec => []RegsInv
<1>1. RegsInv /\ [Next]_vars => RegsInv'
  <2> SUFFICES ASSUME RegsInv, [Next]_vars  PROVE RegsInv'
    OBVIOUS
  <2>1. CASE Start \/ ResetAccel \/ ResetGyro
    BY <2>1, StartAndResets
  <2>2. CASE EnableAccel
    BY <2>2, StepEnableAccel
  <2>3. CASE PowerAccel
    BY <2>3, StepPowerAccel
  <2>4. CASE GyroId
    BY <2>4, StepGyroId
  <2>5. CASE TransferFails
    BY <2>5, StepTransferFails
  <2>6. CASE Update
    BY <2>6, StepUpdate
  <2>7. CASE VerifyFails
    BY <2>7, StepVerifyFails
  <2>8. CASE ReadSample \/ UNCHANGED vars
    <3>1. UNCHANGED <<interface, regs, selected, config, pc, tries, step, scale, ret, calls,
                      faulty, base>>
      BY <2>8 DEF ReadSample, vars
    <3>2. TypeOK' /\ Applied' /\ Scaled'
      BY <3>1 DEF RegsInv, TypeOK, Applied, Scaled, Written, Holds
    <3>3. Powered' /\ Began' /\ OthersKept' /\ MapsReset'
      BY <3>1 DEF RegsInv, Powered, Began, OthersKept, MapsReset
    <3>4. QED  BY <3>2, <3>3 DEF RegsInv
  <2>9. QED
    BY <2>1, <2>2, <2>3, <2>4, <2>5, <2>6, <2>7, <2>8 DEF Next
<1>2. QED  BY <1>1, InitRegs, PTL DEF Spec

(* Types, for any configuration, reset values, samples and attempts. *)
THEOREM RegTypesCorrect == Spec => []TypeOK
<1>1. RegsInv => TypeOK
  BY DEF RegsInv
<1>2. QED  BY <1>1, RegsInvariant, PTL

(* No update changes a bit that is not its field's, whatever the registers *)
(* held and whichever write got lost.                                      *)
THEOREM OtherBitsKept == Spec => []OthersKept
<1>1. RegsInv => OthersKept
  BY DEF RegsInv
<1>2. QED  BY <1>1, RegsInvariant, PTL

-----------------------------------------------------------------------------
(* Numbers and their bits. *)

LEMMA BitsOf ==
  ASSUME NEW n \in 0 .. 15
  PROVE  /\ 0 \in Bits(n) <=> n % 2 = 1
         /\ 1 \in Bits(n) <=> (n \div 2) % 2 = 1
         /\ 2 \in Bits(n) <=> (n \div 4) % 2 = 1
         /\ 3 \in Bits(n) <=> n \div 8 = 1
         /\ \A b \in Bits(n) : b \in 0 .. 3
<1>1. 2^0 = 1 /\ 2^1 = 2 /\ 2^2 = 4 /\ 2^3 = 8 /\ 2^4 = 16 /\ 2^5 = 32 /\ 2^6 = 64 /\ 2^7 = 128
  OBVIOUS
<1>2. /\ n \div 1 = n /\ n \div 16 = 0 /\ n \div 32 = 0 /\ n \div 64 = 0 /\ n \div 128 = 0
      /\ n \div 8 \in {0, 1} /\ 0 % 2 = 0 /\ 1 % 2 = 1
  OBVIOUS
<1>3. /\ 0 \in Bits(n) <=> n % 2 = 1
      /\ 1 \in Bits(n) <=> (n \div 2) % 2 = 1
      /\ 2 \in Bits(n) <=> (n \div 4) % 2 = 1
      /\ 3 \in Bits(n) <=> n \div 8 = 1
  BY <1>1, <1>2 DEF Bits, Bit
<1>4. 4 \notin Bits(n) /\ 5 \notin Bits(n) /\ 6 \notin Bits(n) /\ 7 \notin Bits(n)
  BY <1>1, <1>2 DEF Bits, Bit
<1>5. \A b \in Bits(n) : b \in 0 .. 7
  BY DEF Bits, Bit
<1>6. QED  BY <1>3, <1>4, <1>5

Weight(n, j) == IF j \in Bits(n) THEN 2^j ELSE 0

LEMMA Binary ==
  ASSUME NEW n \in 0 .. 15
  PROVE  n = Weight(n, 0) + Weight(n, 1) + Weight(n, 2) + Weight(n, 3)
<1>1. 2^0 = 1 /\ 2^1 = 2 /\ 2^2 = 4 /\ 2^3 = 8
  OBVIOUS
<1>2. n = (n % 2) + 2 * ((n \div 2) % 2) + 4 * ((n \div 4) % 2) + 8 * (n \div 8)
  OBVIOUS
<1>3. n % 2 \in {0, 1} /\ (n \div 2) % 2 \in {0, 1} /\ (n \div 4) % 2 \in {0, 1} /\ n \div 8 \in {0, 1}
  OBVIOUS
<1>4. QED  BY <1>1, <1>2, <1>3, BitsOf DEF Weight

(* The bits lo .. hi of a register that holds n there are the number n. *)
LEMMA FieldValue ==
  ASSUME NEW r, NEW lo \in Nat, NEW hi \in Nat, NEW n \in 0 .. 15,
         \A j \in 0 .. 3 : (lo + j <= hi /\ lo + j \in regs[r]) <=> j \in Bits(n)
  PROVE  Field(r, lo, hi) = n
<1> DEFINE b(k) == IF k <= hi /\ k \in regs[r] THEN 2^(k - lo) ELSE 0
<1>1. /\ b(lo) = Weight(n, 0) /\ b(lo + 1) = Weight(n, 1)
      /\ b(lo + 2) = Weight(n, 2) /\ b(lo + 3) = Weight(n, 3)
  <2>1. lo - lo = 0 /\ (lo + 1) - lo = 1 /\ (lo + 2) - lo = 2 /\ (lo + 3) - lo = 3
    OBVIOUS
  <2>2. lo + 0 = lo
    OBVIOUS
  <2>3. QED  BY <2>1, <2>2 DEF Weight
<1>2. Field(r, lo, hi) = b(lo) + b(lo + 1) + b(lo + 2) + b(lo + 3)
  BY DEF Field
<1> HIDE DEF b
<1>3. QED  BY <1>1, <1>2, Binary

LEMMA WordSigned ==
  ASSUME NEW v \in Int16
  PROVE  LET w == (v % 256) + 256 * ((v \div 256) % 256)
         IN  (IF w >= 2^15 THEN w - 2^16 ELSE w) = v
<1> DEFINE lo == v % 256  hi == v \div 256
<1>1. 2^15 = 32768 /\ 2^16 = 65536
  OBVIOUS
<1>2. v \in Int /\ -32768 <= v /\ v <= 32767
  BY <1>1 DEF Int16
<1>3. /\ v = 256 * hi + lo /\ lo \in 0 .. 255 /\ hi \in Int
  BY <1>2
<1> HIDE DEF lo, hi
<1>4. hi \in -128 .. 127
  BY <1>2, <1>3
<1>5. /\ hi >= 0 => hi % 256 = hi
      /\ hi < 0 => hi % 256 = hi + 256
  BY <1>4
<1>6. /\ hi >= 0 => lo + 256 * (hi % 256) = v /\ v < 32768
      /\ hi < 0 => lo + 256 * (hi % 256) = v + 65536 /\ v + 65536 >= 32768
  BY <1>2, <1>3, <1>4, <1>5
<1>7. hi >= 0 \/ hi < 0
  BY <1>4
<1>8. lo + 256 * (hi % 256) \in Int
  BY <1>3, <1>4
<1>9. QED  BY <1>1, <1>2, <1>6, <1>7 DEF lo, hi

-----------------------------------------------------------------------------
(* A call that returns RDK_IMU_OK has set each field to the number the     *)
(* configuration asks for.                                                 *)
LEMMA AllHold ==
  ASSUME RegsInv, pc = "ready", NEW k \in 1 .. 13
  PROVE  LET u == Updates(config)[k]
         IN  regs[u.reg] \intersect u.mask = u.data \intersect u.mask
BY DEF RegsInv, Applied, Written, Holds

(* What the header promises of a configuration: after RDK_IMU_OK each      *)
(* field of the registers holds it, whatever failed or got lost before.    *)
THEOREM ConfigurationTakes == Spec => []Configured
<1>1. RegsInv => Configured
  <2> SUFFICES ASSUME RegsInv, pc = "ready"  PROVE Configured
    BY DEF Configured
  <2> DEFINE c == config
             accPin == AccPin(c)
             od(mode) == IF mode \in {"OD_H", "OD_L"} THEN 1 ELSE 0
             high(mode) == IF mode \in {"PP_H", "OD_H"} THEN 1 ELSE 0
  <2>0. /\ c.accel_bwp \in 8 .. 10 /\ c.accel_odr \in 5 .. 12 /\ c.accel_range \in 0 .. 3
        /\ c.gyro_range \in 0 .. 4 /\ c.gyro_bandwidth \in 0 .. 7
        /\ c.accel_drdy_int \in {"INT1", "INT2"} /\ c.gyro_drdy_int \in {"INT3", "INT4"}
    BY ConfigRanges DEF RegsInv, ConfigType
  <2>1. Field("ACC_ENABLE", 0, 3) = 4
    <3>1. regs["ACC_ENABLE"] = Bits(4)
      BY DEF RegsInv, Powered
    <3>2. \A j \in 0 .. 3 : (0 + j <= 3 /\ 0 + j \in regs["ACC_ENABLE"]) <=> j \in Bits(4)
      BY <3>1
    <3>3. QED  BY <3>2, FieldValue
  <2>2. Field("ACC_PWR_CONF", 0, 3) = 0
    <3>1. regs["ACC_PWR_CONF"] = {}
      BY DEF RegsInv, Powered
    <3>2. \A j \in 0 .. 3 : j \notin Bits(0)
      BY BitsOf
    <3>3. \A j \in 0 .. 3 : (0 + j <= 3 /\ 0 + j \in regs["ACC_PWR_CONF"]) <=> j \in Bits(0)
      BY <3>1, <3>2
    <3>4. QED  BY <3>3, FieldValue
  <2>3. Field("ACC_CONF", 4, 7) = c.accel_bwp
    <3>1. regs["ACC_CONF"] \intersect (4 .. 7) = Shifted(c.accel_bwp, 4) \intersect (4 .. 7)
      <4>1. /\ Updates(c)[1].reg = "ACC_CONF" /\ Updates(c)[1].mask = 4 .. 7
            /\ Updates(c)[1].data = Shifted(c.accel_bwp, 4)
        BY DEF Updates
      <4>2. QED  BY <4>1, AllHold
    <3>2. \A j \in 0 .. 3 : 4 + j \in Shifted(c.accel_bwp, 4) <=> j \in Bits(c.accel_bwp)
      BY <2>0, BitsOf DEF Shifted
    <3>3. \A j \in 0 .. 3 : (4 + j <= 7 /\ 4 + j \in regs["ACC_CONF"])
                              <=> j \in Bits(c.accel_bwp)
      BY <3>1, <3>2
    <3> HIDE DEF c
    <3>4. QED  BY <2>0, <3>3, FieldValue
  <2>4. Field("ACC_CONF", 0, 3) = c.accel_odr
    <3>1. regs["ACC_CONF"] \intersect (0 .. 3) = Bits(c.accel_odr) \intersect (0 .. 3)
      <4>1. /\ Updates(c)[2].reg = "ACC_CONF" /\ Updates(c)[2].mask = 0 .. 3
            /\ Updates(c)[2].data = Bits(c.accel_odr)
        BY DEF Updates
      <4>2. QED  BY <4>1, AllHold
    <3>2. \A j \in 0 .. 3 : (0 + j <= 3 /\ 0 + j \in regs["ACC_CONF"])
                              <=> j \in Bits(c.accel_odr)
      BY <3>1
    <3> HIDE DEF c
    <3>3. QED  BY <2>0, <3>2, FieldValue
  <2>5. Field("ACC_RANGE", 0, 1) = c.accel_range
    <3>1. regs["ACC_RANGE"] \intersect (0 .. 1) = Bits(c.accel_range) \intersect (0 .. 1)
      <4>1. /\ Updates(c)[3].reg = "ACC_RANGE" /\ Updates(c)[3].mask = 0 .. 1
            /\ Updates(c)[3].data = Bits(c.accel_range)
        BY DEF Updates
      <4>2. QED  BY <4>1, AllHold
    <3>2. 2 \notin Bits(c.accel_range) /\ 3 \notin Bits(c.accel_range)
      BY <2>0, BitsOf
    <3>3. \A j \in 0 .. 3 : (0 + j <= 1 /\ 0 + j \in regs["ACC_RANGE"])
                              <=> j \in Bits(c.accel_range)
      BY <3>1, <3>2
    <3> HIDE DEF c
    <3>4. QED  BY <2>0, <3>3, FieldValue
  <2>6. Field("GYR_RANGE", 0, 2) = c.gyro_range
    <3>1. regs["GYR_RANGE"] \intersect (0 .. 2) = Bits(c.gyro_range) \intersect (0 .. 2)
      <4>1. /\ Updates(c)[4].reg = "GYR_RANGE" /\ Updates(c)[4].mask = 0 .. 2
            /\ Updates(c)[4].data = Bits(c.gyro_range)
        BY DEF Updates
      <4>2. QED  BY <4>1, AllHold
    <3>2. 3 \notin Bits(c.gyro_range)
      BY <2>0, BitsOf
    <3>3. \A j \in 0 .. 3 : (0 + j <= 2 /\ 0 + j \in regs["GYR_RANGE"])
                              <=> j \in Bits(c.gyro_range)
      BY <3>1, <3>2
    <3> HIDE DEF c
    <3>4. QED  BY <2>0, <3>3, FieldValue
  <2>7. Field("GYR_BANDWIDTH", 0, 2) = c.gyro_bandwidth
    <3>1. regs["GYR_BANDWIDTH"] \intersect (0 .. 2)
            = Bits(c.gyro_bandwidth) \intersect (0 .. 2)
      <4>1. /\ Updates(c)[5].reg = "GYR_BANDWIDTH" /\ Updates(c)[5].mask = 0 .. 2
            /\ Updates(c)[5].data = Bits(c.gyro_bandwidth)
        BY DEF Updates
      <4>2. QED  BY <4>1, AllHold
    <3>2. 3 \notin Bits(c.gyro_bandwidth)
      BY <2>0, BitsOf
    <3>3. \A j \in 0 .. 3 : (0 + j <= 2 /\ 0 + j \in regs["GYR_BANDWIDTH"])
                              <=> j \in Bits(c.gyro_bandwidth)
      BY <3>1, <3>2
    <3> HIDE DEF c
    <3>4. QED  BY <2>0, <3>3, FieldValue
  <2>8. /\ IF c.accel_drdy_int = "INT1" THEN 2 \in regs["ACC_INT_MAP"]
           ELSE 6 \in regs["ACC_INT_MAP"]
        /\ IF c.gyro_drdy_int = "INT3" THEN 0 \in regs["GYR_INT_MAP"]
           ELSE 7 \in regs["GYR_INT_MAP"]
        /\ 7 \in regs["GYR_INT_CTRL"]
    <3>1. /\ Updates(c)[6].reg = "ACC_INT_MAP"
          /\ Updates(c)[6].mask = IF c.accel_drdy_int = "INT1" THEN {2} ELSE {6}
          /\ Updates(c)[6].data = Updates(c)[6].mask
      BY DEF Updates
    <3>2. /\ Updates(c)[8].reg = "GYR_INT_MAP"
          /\ Updates(c)[8].mask = IF c.gyro_drdy_int = "INT3" THEN {0} ELSE {7}
          /\ Updates(c)[8].data = Updates(c)[8].mask
      BY DEF Updates
    <3>3. /\ Updates(c)[7].reg = "GYR_INT_CTRL"
          /\ Updates(c)[7].mask = {7} /\ Updates(c)[7].data = {7}
      BY DEF Updates
    <3>4. \A k \in {6, 7, 8} : Updates(c)[k].data = Updates(c)[k].mask =>
            Updates(c)[k].mask \subseteq regs[Updates(c)[k].reg]
      BY AllHold
    <3>5. QED  BY <3>1, <3>2, <3>3, <3>4
  <2>9. Field(accPin, 1, 3) = 4 + 2 * od(c.accel_int_gpio_mode) + high(c.accel_int_gpio_mode)
    <3>1. /\ Updates(c)[9].reg = accPin /\ Updates(c)[9].mask = {3}
          /\ Updates(c)[9].data = {3}
          /\ Updates(c)[10].reg = accPin /\ Updates(c)[10].mask = {2}
          /\ Updates(c)[10].data = IF od(c.accel_int_gpio_mode) = 1 THEN {2} ELSE {}
          /\ Updates(c)[11].reg = accPin /\ Updates(c)[11].mask = {1}
          /\ Updates(c)[11].data = IF high(c.accel_int_gpio_mode) = 1 THEN {1} ELSE {}
      BY DEF Updates, AccPin
    <3>2. /\ 3 \in regs[accPin]
          /\ 2 \in regs[accPin] <=> od(c.accel_int_gpio_mode) = 1
          /\ 1 \in regs[accPin] <=> high(c.accel_int_gpio_mode) = 1
      <4> HIDE DEF c, accPin, od, high
      <4>1. /\ regs[accPin] \intersect {3} = {3} \intersect {3}
            /\ regs[accPin] \intersect {2}
                 = (IF od(c.accel_int_gpio_mode) = 1 THEN {2} ELSE {}) \intersect {2}
            /\ regs[accPin] \intersect {1}
                 = (IF high(c.accel_int_gpio_mode) = 1 THEN {1} ELSE {}) \intersect {1}
        BY <3>1, AllHold DEF c
      <4>2. QED  BY <4>1
    <3>3. 2^0 = 1 /\ 2^1 = 2 /\ 2^2 = 4 /\ 1 - 1 = 0 /\ 2 - 1 = 1 /\ 3 - 1 = 2
      OBVIOUS
    <3>4. Field(accPin, 1, 3) = (IF high(c.accel_int_gpio_mode) = 1 THEN 1 ELSE 0)
            + (IF od(c.accel_int_gpio_mode) = 1 THEN 2 ELSE 0) + 4 + 0
      <4> HIDE DEF c, accPin, od, high
      <4>1. QED  BY <3>2, <3>3 DEF Field
    <3>5. QED  BY <3>4
  <2>10. LET gyrPin == IF c.gyro_drdy_int = "INT3" THEN 0 ELSE 2
         IN  Field("GYR_INT_IOCFG", gyrPin, gyrPin + 1)
               = 2 * od(c.gyro_int_gpio_mode) + high(c.gyro_int_gpio_mode)
    <3> DEFINE gyrPin == IF c.gyro_drdy_int = "INT3" THEN 0 ELSE 2
               io == regs["GYR_INT_IOCFG"]
    <3>1. /\ Updates(c)[12].reg = "GYR_INT_IOCFG" /\ Updates(c)[12].mask = {gyrPin + 1}
          /\ Updates(c)[12].data = IF od(c.gyro_int_gpio_mode) = 1 THEN {1, 3} ELSE {}
          /\ Updates(c)[13].reg = "GYR_INT_IOCFG" /\ Updates(c)[13].mask = {gyrPin}
          /\ Updates(c)[13].data = IF high(c.gyro_int_gpio_mode) = 1 THEN {0, 2} ELSE {}
      BY DEF Updates
    <3>2. /\ gyrPin + 1 \in io <=> od(c.gyro_int_gpio_mode) = 1
          /\ gyrPin \in io <=> high(c.gyro_int_gpio_mode) = 1
      <4>1. gyrPin \in {0, 2}
        OBVIOUS
      <4> HIDE DEF c, gyrPin, od, high
      <4>2. /\ io \intersect {gyrPin + 1}
                 = (IF od(c.gyro_int_gpio_mode) = 1 THEN {1, 3} ELSE {})
                     \intersect {gyrPin + 1}
            /\ io \intersect {gyrPin}
                 = (IF high(c.gyro_int_gpio_mode) = 1 THEN {0, 2} ELSE {})
                     \intersect {gyrPin}
        BY <3>1, AllHold DEF c
      <4>3. QED  BY <4>1, <4>2
    <3>3. /\ 2^0 = 1 /\ 2^1 = 2
          /\ gyrPin - gyrPin = 0 /\ (gyrPin + 1) - gyrPin = 1
          /\ gyrPin <= gyrPin + 1 /\ gyrPin + 1 <= gyrPin + 1
          /\ ~(gyrPin + 2 <= gyrPin + 1) /\ ~(gyrPin + 3 <= gyrPin + 1)
      OBVIOUS
    <3>4. Field("GYR_INT_IOCFG", gyrPin, gyrPin + 1)
            = (IF high(c.gyro_int_gpio_mode) = 1 THEN 1 ELSE 0)
              + (IF od(c.gyro_int_gpio_mode) = 1 THEN 2 ELSE 0) + 0 + 0
      <4> HIDE DEF c, gyrPin, od, high
      <4>1. QED  BY <3>2, <3>3 DEF Field
    <3>5. QED  BY <3>4
  <2>11. QED
    BY <2>1, <2>2, <2>3, <2>4, <2>5, <2>6, <2>7, <2>8, <2>9, <2>10 DEF Configured, AccPin
<1>2. QED  BY <1>1, RegsInvariant, PTL

-----------------------------------------------------------------------------
(* A reset maps data-ready to no pin. *)
ResetUnmaps ==
  /\ PowerUp["ACC_INT_MAP"] \intersect {2, 6} = {}
  /\ PowerUp["GYR_INT_MAP"] \intersect {0, 7} = {}

(* Data-ready goes to the pin the user has chosen and to no other, also    *)
(* when an earlier call had chosen another: with a sensor whose reset      *)
(* clears the maps, and a call of which nothing got lost.                  *)
THEOREM OnePinMapped ==
  ASSUME ResetUnmaps
  PROVE  Spec => []MappedToOnePin
<1>1. RegsInv => MappedToOnePin
  <2> SUFFICES ASSUME RegsInv, pc = "ready", ~faulty  PROVE MappedToOnePin
    BY DEF MappedToOnePin
  <2> DEFINE acc == IF config.accel_drdy_int = "INT1" THEN {2} ELSE {6}
             gyr == IF config.gyro_drdy_int = "INT3" THEN {0} ELSE {7}
  <2>1. acc \subseteq regs["ACC_INT_MAP"] /\ gyr \subseteq regs["GYR_INT_MAP"]
    <3>1. /\ Updates(config)[6].reg = "ACC_INT_MAP" /\ Updates(config)[6].mask = acc
          /\ Updates(config)[6].data = acc
          /\ Updates(config)[8].reg = "GYR_INT_MAP" /\ Updates(config)[8].mask = gyr
          /\ Updates(config)[8].data = gyr
      BY DEF Updates
    <3>2. \A k \in {6, 8} : Updates(config)[k].data = Updates(config)[k].mask =>
            Updates(config)[k].mask \subseteq regs[Updates(config)[k].reg]
      BY AllHold
    <3>3. QED  BY <3>1, <3>2
  <2>2. Fields("ACC_INT_MAP") \subseteq acc /\ Fields("GYR_INT_MAP") \subseteq gyr
    <3>1. \A k \in 1 .. 13 : /\ Regs(config)[k] = "ACC_INT_MAP" => Masks(config)[k] = acc
                             /\ Regs(config)[k] = "GYR_INT_MAP" => Masks(config)[k] = gyr
      <4>1. Masks(config)[6] = acc /\ Masks(config)[8] = gyr
        BY DEF Masks
      <4>2. QED  BY <4>1, RegsTypes
    <3>2. \A k \in 1 .. 13 : /\ Updates(config)[k].reg = Regs(config)[k]
                             /\ Updates(config)[k].mask = Masks(config)[k]
      BY UpdateRegs
    <3> HIDE DEF acc, gyr
    <3>3. QED  BY <3>1, <3>2 DEF Fields
  <2>3. /\ regs["ACC_INT_MAP"] \ acc = PowerUp["ACC_INT_MAP"] \ acc
        /\ regs["GYR_INT_MAP"] \ gyr = PowerUp["GYR_INT_MAP"] \ gyr
    <3>1. /\ base["ACC_INT_MAP"] = PowerUp["ACC_INT_MAP"]
          /\ base["GYR_INT_MAP"] = PowerUp["GYR_INT_MAP"]
      BY DEF RegsInv, MapsReset
    <3>2. \A r \in Register : regs[r] \ Fields(r) = base[r] \ Fields(r)
      BY OthersRead DEF RegsInv
    <3>3. "ACC_INT_MAP" \in Register /\ "GYR_INT_MAP" \in Register
      BY DEF Register, AccelRegister, GyroRegister
    <3> HIDE DEF acc, gyr
    <3>4. QED  BY <2>2, <3>1, <3>2, <3>3
  <2>4. QED  BY <2>1, <2>3 DEF MappedToOnePin, ResetUnmaps
<1>2. QED  BY <1>1, RegsInvariant, PTL

-----------------------------------------------------------------------------
(* A sensor with which nothing goes wrong is never refused, if the loop    *)
(* that switches the accel on makes a second attempt: over SPI the first   *)
(* one after a reset is ignored.                                           *)
AcceptInv == SelectedAtOnce /\ WorkingSensorAccepted

LEMMA AcceptKept ==
  ASSUME EnableTries > 1, RegsInv, AcceptInv, [Next]_vars
  PROVE  AcceptInv'
<1> USE DEF AcceptInv, SelectedAtOnce, WorkingSensorAccepted
<1>1. CASE Start \/ ResetAccel \/ ResetGyro \/ TransferFails \/ VerifyFails
  BY <1>1 DEF Start, ResetAccel, ResetGyro, TransferFails, VerifyFails, Goto, Return
<1>2. CASE EnableAccel
  <2> DEFINE written == [regs EXCEPT !["ACC_ENABLE"] = Bits(4)]
  <2>1. selected' = TRUE
    BY <1>2 DEF EnableAccel
  <2>2. TypeOK /\ pc = "enable_accel"
    BY <1>2 DEF RegsInv, EnableAccel
  <2>3. CASE pc' = "failed"
    <3>1. Received("accel", <<regs'["ACC_ENABLE"]>>, {}) = <<regs'["ACC_ENABLE"]>>
      BY <2>2, ByteReceived DEF TypeOK
    <3>2. ~(tries > 1) /\ regs'["ACC_ENABLE"] # Bits(4)
      BY <1>2, <2>3, <3>1 DEF EnableAccel, Goto
    <3>3. written["ACC_ENABLE"] = Bits(4)
      BY <2>2 DEF TypeOK, Register, AccelRegister
    <3>4. selected /\ regs' # written
      BY <2>2, <3>2, <3>3
    <3>5. faulty'
      BY <1>2, <3>4 DEF EnableAccel
    <3>6. QED  BY <2>3, <3>5
  <2>4. QED  BY <2>1, <2>3
<1>3. CASE PowerAccel
  <2> DEFINE written == [regs EXCEPT !["ACC_PWR_CONF"] = {}]
  <2>1. TypeOK /\ pc' # "enable_accel"
    BY <1>3 DEF RegsInv, PowerAccel, Goto, Return
  <2>2. CASE pc' = "failed"
    <3>1. Received("accel", <<regs'["ACC_PWR_CONF"]>>, Bits(255)) = <<regs'["ACC_PWR_CONF"]>>
      BY <2>1, ByteReceived DEF TypeOK
    <3>2. regs'["ACC_PWR_CONF"] # {}
      BY <1>3, <2>2, <3>1 DEF PowerAccel, Goto
    <3>3. written["ACC_PWR_CONF"] = {}
      BY <2>1 DEF TypeOK, Register, AccelRegister
    <3>4. faulty'
      BY <1>3, <3>2, <3>3 DEF PowerAccel
    <3>5. QED  BY <2>1, <2>2, <3>4
  <2>3. QED  BY <2>1, <2>2
<1>4. CASE GyroId
  BY <1>4 DEF GyroId, Goto, Return
<1>5. CASE Update
  BY <1>5 DEF Update, Return
<1>6. CASE ReadSample \/ UNCHANGED vars
  BY <1>6 DEF ReadSample, vars
<1>7. QED  BY <1>1, <1>2, <1>3, <1>4, <1>5, <1>6 DEF Next

(* A call of rdk_imu_device_init fails only if a transfer failed or a      *)
(* write got lost, for the ten attempts of the code and for any number     *)
(* above one.                                                              *)
THEOREM SensorAccepted ==
  ASSUME EnableTries > 1
  PROVE  Spec => []WorkingSensorAccepted
<1>1. Init => AcceptInv
  BY DEF Init, AcceptInv, SelectedAtOnce, WorkingSensorAccepted
<1>2. RegsInv /\ AcceptInv /\ [Next]_vars => AcceptInv'
  BY AcceptKept
<1>3. AcceptInv => WorkingSensorAccepted
  BY DEF AcceptInv
<1>4. QED  BY <1>1, <1>2, <1>3, RegsInvariant, PTL DEF Spec

-----------------------------------------------------------------------------
(* Every sample an interrupt thread reads is what the chip has measured,   *)
(* for each of the 2^48 there are, on either interface; and it is scaled   *)
(* for the range the chip is in.                                           *)
LEMMA SampleParsed ==
  ASSUME TypeOK, NEW d \in {"accel", "gyro"}, NEW s \in Sample
  PROVE  Parsed(Received(d, Sent(s), 0)) = s
<1>1. s \in Seq(Int16) /\ Len(s) = 3
  BY DeviceRegsAssumption
<1>2. s[1] \in Int16 /\ s[2] \in Int16 /\ s[3] \in Int16 /\ s = <<s[1], s[2], s[3]>>
  BY <1>1
<1>3. Sent(s) \in Seq(Int)
  <2>1. \A k \in 1 .. 6 : (k + 1) \div 2 \in 1 .. 3
    OBVIOUS
  <2>2. \A i \in 1 .. 3 : s[i] \in Int
    BY <1>2 DEF Int16
  <2>3. Sent(s) \in [1 .. 6 -> Int]
    BY <2>1, <2>2 DEF Sent
  <2>4. [1 .. 6 -> Int] \in {[1 .. n -> Int] : n \in Nat}
    OBVIOUS
  <2>5. Seq(Int) = UNION {[1 .. n -> Int] : n \in Nat}
    BY SeqDef
  <2>6. QED  BY <2>3, <2>4, <2>5, Zenon
<1>4. Received(d, Sent(s), 0) = Sent(s)
  BY <1>3, ReceivedIsSent DEF TypeOK
<1>5. /\ Sent(s)[1] = s[1] % 256 /\ Sent(s)[2] = (s[1] \div 256) % 256
      /\ Sent(s)[3] = s[2] % 256 /\ Sent(s)[4] = (s[2] \div 256) % 256
      /\ Sent(s)[5] = s[3] % 256 /\ Sent(s)[6] = (s[3] \div 256) % 256
  BY DEF Sent
<1>6. Parsed(Sent(s)) = [k \in 1 .. 3 |-> s[k]]
  <2> DEFINE Word(k) == Sent(s)[2 * k - 1] + 256 * Sent(s)[2 * k]
             Value(k) == IF Word(k) >= 2^15 THEN Word(k) - 2^16 ELSE Word(k)
  <2>1. /\ Word(1) = (s[1] % 256) + 256 * ((s[1] \div 256) % 256)
        /\ Word(2) = (s[2] % 256) + 256 * ((s[2] \div 256) % 256)
        /\ Word(3) = (s[3] % 256) + 256 * ((s[3] \div 256) % 256)
    <3>1. 2 * 1 - 1 = 1 /\ 2 * 1 = 2 /\ 2 * 2 - 1 = 3 /\ 2 * 2 = 4 /\ 2 * 3 - 1 = 5 /\ 2 * 3 = 6
      OBVIOUS
    <3>2. QED  BY <1>5, <3>1
  <2> HIDE DEF Word
  <2>2. Value(1) = s[1] /\ Value(2) = s[2] /\ Value(3) = s[3]
    BY <1>2, <2>1, WordSigned
  <2>3. \A k \in 1 .. 3 : Value(k) = s[k]
    BY <2>2
  <2>4. Parsed(Sent(s)) = [k \in 1 .. 3 |-> Value(k)]
    BY DEF Parsed, Word
  <2> HIDE DEF Value
  <2>5. QED  BY <2>3, <2>4
<1>7. s = [k \in 1 .. 3 |-> s[k]]
  BY <1>1
<1>8. QED  BY <1>4, <1>6, <1>7

(* What is read after a successful call is what was measured, with the     *)
(* right sign, axis and range, over either interface.                      *)
THEOREM SamplesAreTrue == Spec => []SamplesTrue
<1>1. Init => SamplesTrue
  BY DEF Init, SamplesTrue, NoSample
<1>2. RegsInv /\ SamplesTrue /\ [Next]_vars => SamplesTrue'
  <2> SUFFICES ASSUME RegsInv, SamplesTrue, [Next]_vars  PROVE SamplesTrue'
    OBVIOUS
  <2>1. CASE ReadSample
    <3>1. pc = "ready" /\ TypeOK
      BY <2>1 DEF ReadSample, RegsInv
    <3>2. PICK d \in {"accel", "gyro"}, s \in Sample :
            sample' = [measured |-> s,
                       read     |-> Parsed(Received(d, Sent(s), 0)),
                       range    |-> IF d = "accel" THEN regs["ACC_RANGE"] \intersect 0 .. 1
                                    ELSE regs["GYR_RANGE"] \intersect 0 .. 2,
                       scale    |-> Bits(scale[d])]
      BY <2>1 DEF ReadSample
    <3>3. Parsed(Received(d, Sent(s), 0)) = s
      BY <3>1, SampleParsed
    <3>4. regs["ACC_RANGE"] \intersect 0 .. 1 = Bits(scale["accel"])
      <4>1. regs["ACC_RANGE"] \intersect 0 .. 1 = Bits(config.accel_range) \intersect 0 .. 1
        <5>1. /\ Updates(config)[3].reg = "ACC_RANGE" /\ Updates(config)[3].mask = 0 .. 1
              /\ Updates(config)[3].data = Bits(config.accel_range)
          BY DEF Updates
        <5>2. QED  BY <3>1, <5>1, AllHold
      <4>2. Bits(config.accel_range) \subseteq 0 .. 1
        <5>1. config.accel_range \in 0 .. 3
          BY <3>1, ConfigRanges
        <5>2. QED  BY <5>1, BitsOf
      <4>3. scale["accel"] = config.accel_range
        BY <3>1 DEF RegsInv, Scaled, Written
      <4>4. QED  BY <4>1, <4>2, <4>3
    <3>5. regs["GYR_RANGE"] \intersect 0 .. 2 = Bits(scale["gyro"])
      <4>1. regs["GYR_RANGE"] \intersect 0 .. 2 = Bits(config.gyro_range) \intersect 0 .. 2
        <5>1. /\ Updates(config)[4].reg = "GYR_RANGE" /\ Updates(config)[4].mask = 0 .. 2
              /\ Updates(config)[4].data = Bits(config.gyro_range)
          BY DEF Updates
        <5>2. QED  BY <3>1, <5>1, AllHold
      <4>2. Bits(config.gyro_range) \subseteq 0 .. 2
        <5>1. config.gyro_range \in 0 .. 4
          BY <3>1, ConfigRanges
        <5>2. QED  BY <5>1, BitsOf
      <4>3. scale["gyro"] = config.gyro_range
        BY <3>1 DEF RegsInv, Scaled, Written
      <4>4. QED  BY <4>1, <4>2, <4>3
    <3>6. QED  BY <3>2, <3>3, <3>4, <3>5 DEF SamplesTrue
  <2>2. CASE Start
    BY <2>2 DEF Start, SamplesTrue, NoSample
  <2>3. CASE UNCHANGED sample
    BY <2>3 DEF SamplesTrue
  <2>4. QED
    BY <2>1, <2>2, <2>3 DEF Next, ResetAccel, ResetGyro, EnableAccel, PowerAccel, GyroId,
       Update, VerifyFails, TransferFails, vars
<1>3. QED  BY <1>1, <1>2, RegsInvariant, PTL DEF Spec
=============================================================================
