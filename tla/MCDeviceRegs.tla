---------------------------- MODULE MCDeviceRegs ----------------------------
(* Instances of DeviceRegs for TLC. *)
EXTENDS DeviceRegs

(* Every pin, every mode and the extreme values of the fields. *)
Configs ==
  {[accel_bwp |-> b, accel_odr |-> IF b = 8 THEN 5 ELSE 12, accel_range |-> b - 7,
    gyro_range |-> IF b = 8 THEN 0 ELSE 4, gyro_bandwidth |-> IF b = 8 THEN 7 ELSE 0,
    accel_drdy_int |-> IF m \in {"PP_H", "OD_L"} THEN "INT1" ELSE "INT2",
    accel_int_gpio_mode |-> m,
    gyro_drdy_int |-> IF b = 8 THEN "INT3" ELSE "INT4",
    gyro_int_gpio_mode |-> IF m = "PP_H" THEN "OD_L" ELSE m] :
     b \in {8, 10}, m \in GpioMode}

(* What the sensor's registers hold after a reset.  The bits outside the   *)
(* fields are not zero.                                                    *)
Defaults ==
  [r \in Register |->
     CASE r = "ACC_CONF" -> {3, 5, 7}
       [] r = "ACC_PWR_CONF" -> {0, 1}
       [] r = "ACC_RANGE" -> {0, 7}
       [] r = "GYR_BANDWIDTH" -> {7}
       [] r = "GYR_INT_IOCFG" -> {0, 1, 2, 3}
       [] OTHER -> {}]

Samples == {<<-32768, -1, 0>>, <<32767, 255, 256>>, <<-256, -257, 128>>}
=============================================================================
