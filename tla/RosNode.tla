------------------------------- MODULE RosNode -------------------------------
(***************************************************************************)
(* The ROS 2 node rdk_imu_node.cpp: the one client in the repository that  *)
(* composes a handle's whole life with threads of its own.                 *)
(*                                                                         *)
(* The main thread runs the constructor (create, scan, initialise, perhaps *)
(* enable, start the reader), then rclcpp::spin with the two services,     *)
(* then the destructor.  The reader publishes what rdk_imu_read_fused      *)
(* returns.  SIGINT shuts the context down at any moment.  The handle is   *)
(* Lifecycle's, and so are the calls made on it; ImuAcquire and ImuFusion  *)
(* have the interrupt threads and rdk_imu_read_fused in detail.            *)
(***************************************************************************)
EXTENDS Lifecycle

VARIABLES
  node,     \* where the main thread is
  auto,     \* the parameter auto_start
  ok,       \* rclcpp::ok()
  running,  \* running_
  reader,   \* where read_thread_ is
  irq,      \* the devices whose interrupt thread is alive
  fresh     \* the devices with samples for rdk_imu_read_fused, in FIFO or window

nodeVars == <<node, auto, ok, running, reader, irq, fresh>>
allVars == <<vars, nodeVars>>

NodeInit ==
  /\ Init
  /\ node = "create"
  /\ auto \in BOOLEAN
  /\ ok = TRUE
  /\ running = FALSE
  /\ reader = "none"
  /\ irq = {} /\ fresh = {}

-----------------------------------------------------------------------------
(* The constructor.  Whatever fails, it shuts the context down and returns *)
(* a node that main goes on to spin and to destroy.                        *)

CtorFails == ok' = FALSE /\ node' = "constructed"

CtorGoesOn(next) == node' = next /\ UNCHANGED ok

threads == <<running, reader, irq, fresh>>

CtorCreate ==
  /\ node = "create"
  /\ \/ CreateDefault /\ CtorGoesOn("bus")
     \/ CtorFails /\ UNCHANGED vars
  /\ UNCHANGED <<auto, threads>>

(* bus.interface is RDK_IMU_AUTO: a scan that fails leaves nothing open.   *)
CtorBusInit ==
  /\ node = "bus"
  /\ \/ BusInitProbeFails /\ UNCHANGED files
     \/ BusInitAccelFails \/ BusInitGyroFails \/ BusInit
  /\ IF ret' = "OK" THEN CtorGoesOn("device") ELSE CtorFails
  /\ UNCHANGED <<auto, threads>>

CtorDeviceInit ==
  /\ node = "device"
  /\ \/ InitRegisters \/ InitAccelChip \/ InitAccelLine \/ InitAccelRequest
     \/ InitGyroShared \/ InitGyroChip \/ InitGyroLine \/ InitGyroRequest \/ InitFifo
  /\ IF stage' # "idle" THEN CtorGoesOn("device")
     ELSE IF ret' = "OK" THEN CtorGoesOn(IF auto THEN "enable" ELSE "services")
     ELSE CtorFails
  /\ UNCHANGED <<auto, threads>>

(* rdk_imu_enable as a caller sees it.  When only the gyro thread cannot   *)
(* be created, the accel thread ran for a while before it was joined.      *)
(* A successful call empties the window, but not the FIFO.                 *)
EnableThreads ==
  /\ Enable
  /\ irq' = IF ret' = "OK" THEN Device ELSE irq
  /\ fresh' \in CASE ret' = "OK"    -> SUBSET fresh
                  [] ret' = "ERROR" -> {fresh, fresh \union {"accel"}}
                  [] OTHER          -> {fresh}

DisableThreads == Disable /\ irq' = {}

CtorEnable ==
  /\ node = "enable"
  /\ EnableThreads
  /\ IF ret' = "OK" THEN CtorGoesOn("services") ELSE CtorFails
  /\ UNCHANGED <<auto, running, reader>>

(* The publisher, the services and the reader thread.  On a context that   *)
(* SIGINT has shut down meanwhile, rclcpp may throw; nothing catches it.   *)
CtorStart ==
  /\ node = "services"
  /\ \/ /\ running' = TRUE
        /\ reader' = "check"
        /\ node' = "constructed"
     \/ /\ ~ok
        /\ node' = "aborted"
        /\ UNCHANGED <<running, reader>>
  /\ UNCHANGED <<vars, auto, ok, irq, fresh>>

-----------------------------------------------------------------------------
(* rclcpp::spin: one executor thread, so one service call after another.   *)
(* It throws when it is entered on a context already shut down, or returns *)
(* at once, as the rclcpp version has it.                                  *)

SpinStarts ==
  /\ node = "constructed"
  /\ \/ ok /\ node' = "spin" /\ UNCHANGED running
     \/ ~ok /\ node' = "join" /\ running' = FALSE
     \/ ~ok /\ node' = "aborted" /\ UNCHANGED running
  /\ UNCHANGED <<vars, auto, ok, reader, irq, fresh>>

EnableService ==
  /\ node = "spin" /\ ok
  /\ EnableThreads
  /\ UNCHANGED <<node, auto, ok, running, reader>>

DisableService ==
  /\ node = "spin" /\ ok
  /\ DisableThreads
  /\ UNCHANGED <<node, auto, ok, running, reader, fresh>>

(* rclcpp's signal handler. *)
Interrupt ==
  /\ ok /\ node # "aborted"
  /\ ok' = FALSE
  /\ UNCHANGED <<vars, node, auto, threads>>

(* spin returns and main drops the node: ~RdkImuNode begins. *)
SpinEnds ==
  /\ node = "spin" /\ ~ok
  /\ running' = FALSE
  /\ node' = "join"
  /\ UNCHANGED <<vars, auto, ok, reader, irq, fresh>>

-----------------------------------------------------------------------------
(* The destructor.  It asks only whether there is a handle, not how much   *)
(* of the initialisation had succeeded.                                    *)

dtorUnchanged == <<auto, ok, running, reader>>

(* Mutant: the handle is taken down while the reader still runs.           *)
DtorNoJoin ==
  /\ node = "join"
  /\ node' = IF held = "nothing" THEN "gone" ELSE "disable"
  /\ UNCHANGED <<vars, dtorUnchanged, irq, fresh>>

(* Mutant: the reader is detached where it should be joined.               *)
DtorDetach ==
  /\ node = "join"
  /\ reader' = IF reader = "none" THEN "none" ELSE "detached"
  /\ node' = IF held = "nothing" THEN "gone" ELSE "disable"
  /\ UNCHANGED <<vars, auto, ok, running, irq, fresh>>

DtorJoin ==
  /\ node = "join"
  /\ reader \in {"none", "ended"}
  /\ node' = IF held = "nothing" THEN "gone" ELSE "disable"
  /\ UNCHANGED <<vars, dtorUnchanged, irq, fresh>>

(* Mutant: the devices are taken down without having been disabled.        *)
DtorDisableForgotten ==
  /\ node = "disable"
  /\ node' = "device_deinit"
  /\ UNCHANGED <<vars, dtorUnchanged, irq, fresh>>

DtorDisable ==
  /\ node = "disable"
  /\ enable' = FALSE
  /\ irq' = IF enable THEN {} ELSE irq
  /\ node' = "device_deinit"
  /\ UNCHANGED <<shared, files, gpio, bus, chip, line, buffer, mutex, held, stage, ret,
                 stray, dtorUnchanged, fresh>>

DtorDeviceDeinit ==
  /\ node = "device_deinit"
  /\ IF enable
     THEN UNCHANGED <<gpio, chip, line, mutex, buffer>>
     ELSE /\ gpio' = DeinitGpio
          /\ chip' = Cleared /\ line' = Cleared
          /\ mutex' = "destroyed"
          /\ buffer' = FALSE
  /\ node' = "bus_deinit"
  /\ UNCHANGED <<shared, files, bus, enable, held, stage, ret, stray, dtorUnchanged,
                 irq, fresh>>

DtorBusDeinit ==
  /\ node = "bus_deinit"
  /\ files' = files \ {bus[d] : d \in Device}
  /\ bus' = [d \in Device |-> -1]
  /\ node' = "destroy"
  /\ UNCHANGED <<shared, gpio, chip, line, buffer, mutex, enable, held, stage, ret,
                 stray, dtorUnchanged, irq, fresh>>

DtorDestroy ==
  /\ node = "destroy"
  /\ buffer' = FALSE
  /\ node' = "gone"
  /\ UNCHANGED <<shared, files, gpio, bus, chip, line, mutex, enable, held, stage, ret,
                 stray, dtorUnchanged, irq, fresh>>

Main ==
  \/ CtorCreate \/ CtorBusInit \/ CtorDeviceInit \/ CtorEnable \/ CtorStart
  \/ SpinStarts \/ SpinEnds
  \/ DtorJoin \/ DtorDisable \/ DtorDeviceDeinit \/ DtorBusDeinit \/ DtorDestroy

-----------------------------------------------------------------------------
(* read_loop *)

Alive == node \notin {"aborted", "gone"}

readerUnchanged == <<vars, node, auto, ok, running, irq>>


ReaderChecks ==
  /\ Alive /\ reader = "check"
  /\ reader' = IF running /\ ok THEN "reading" ELSE "ended"
  /\ UNCHANGED <<readerUnchanged, fresh>>

(* rdk_imu_read_fused returns when samples of both devices have fused; the *)
(* frame is published.  With no such samples it waits, for ever if need be.*)
ReaderPublishes ==
  /\ Alive /\ reader = "reading"
  /\ fresh = Device
  /\ fresh' = {}
  /\ reader' = "check"
  /\ UNCHANGED readerUnchanged

(* rdk_imu_read_fused drops samples that have aged; they have aged because *)
(* of a newer one, which stays in the window.                              *)
ReaderDrops ==
  /\ Alive /\ reader = "reading"
  /\ fresh = Device
  /\ \E d \in fresh : fresh' = fresh \ {d}
  /\ UNCHANGED <<readerUnchanged, reader>>

(* An interrupt thread pushes a sample, or ends on an error of its line.   *)
IrqPushes(d) ==
  /\ Alive /\ d \in irq
  /\ fresh' = fresh \union {d}
  /\ UNCHANGED <<vars, node, auto, ok, running, reader, irq>>

IrqDies(d) ==
  /\ Alive /\ d \in irq
  /\ irq' = irq \ {d}
  /\ UNCHANGED <<vars, node, auto, ok, running, reader, fresh>>

NodeNext ==
  \/ Main
  \/ EnableService \/ DisableService \/ Interrupt
  \/ ReaderChecks \/ ReaderPublishes \/ ReaderDrops
  \/ \E d \in Device : IrqPushes(d) \/ IrqDies(d)

NodeSpec == NodeInit /\ [][NodeNext]_allVars

(* Both threads of the node are scheduled.  Nobody has to call a service   *)
(* or to press Ctrl+C, and rdk_imu_read_fused need not return: that takes  *)
(* samples of both devices which are close enough.                         *)
NodeFairness == WF_allVars(Main) /\ WF_allVars(ReaderChecks)

FairNodeSpec == NodeSpec /\ NodeFairness

-----------------------------------------------------------------------------
NodeTypeOK ==
  /\ TypeOK
  /\ node \in {"create", "bus", "device", "enable", "services", "constructed", "spin",
               "join", "disable", "device_deinit", "bus_deinit", "destroy", "gone",
               "aborted"}
  /\ auto \in BOOLEAN /\ ok \in BOOLEAN /\ running \in BOOLEAN
  /\ reader \in {"none", "check", "reading", "ended"}
  /\ irq \subseteq Device /\ fresh \subseteq Device

(* While an interrupt thread is alive, its descriptors and chips are open  *)
(* and st->enable is set, without which rdk_imu_disable would not join it; *)
(* while the reader is in rdk_imu_read_fused, the FIFO and the mutex are   *)
(* there.  The destructor takes none of it away too early, wherever SIGINT *)
(* and the services have left the threads.                                 *)
ThreadsHaveResources ==
  /\ irq # {} => /\ enable
                 /\ \A d \in Device : bus[d] \in files \ {0} /\ chip[d] \in gpio.chips
  /\ irq # {} \/ reader \in {"check", "reading"} => buffer /\ mutex = "ready"

(* However far the constructor got and whatever the services did, the      *)
(* destructor leaves no descriptor of the SDK, no chip, no line, no buffer *)
(* and no thread behind.                                                   *)
(*                                                                         *)
(* That it touches nothing else holds only in part.  Descriptor 0 stays    *)
(* open if the buses had opened; if not, rdk_imu_bus_deinit closes it      *)
(* (rdkimu_bus.c:736).  No handle is touched after it was given up if the  *)
(* devices had been initialised and each has a line of its own; after an   *)
(* initialisation that failed rdk_imu_device_deinit releases and closes    *)
(* again what that had closed (rdkimu.c:567), and a line that is shared it *)
(* releases twice, with its chip (rdkimu.c:626 and 637, run shared_line).  *)
ExitReleasesAll ==
  node = "gone" =>
    /\ files \subseteq {0} /\ gpio.chips = {} /\ gpio.requested = {} /\ ~buffer
    /\ irq = {} /\ reader \in {"none", "ended"}
    /\ held \in {"bus", "device"} => 0 \in files
    /\ held = "device" /\ ~shared => gpio.misuse = {}

=============================================================================
