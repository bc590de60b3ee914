------------------------------- MODULE BusScan -------------------------------
(***************************************************************************)
(* rdk_imu_bus_init: where are the accelerometer and the gyroscope?  The   *)
(* caller names an interface and two locations, which are checked, or asks *)
(* for a scan: every address of every I2C bus, then every chip select of   *)
(* every SPI bus, until both chips have answered on one interface.         *)
(*                                                                         *)
(* A location is <<"I2C", bus, address>> or <<"SPI", bus, chip select>>.   *)
(* Around the call are the contents of /dev, which readdir gives in any    *)
(* order, the chips at the locations, files that do not open and transfers *)
(* that fail.  A transfer that succeeds reads what the chip has sent.      *)
(***************************************************************************)
EXTENDS Integers, Sequences, FiniteSets, FiniteSetsExt, SequencesExt

CONSTANTS
  ByteMod,     \* 2^8: the number of values of a uint8_t
  FirstAddr,   \* 0x08
  LastAddr,    \* 0x76
  Attempts,    \* how often a chip id is asked for over SPI: 10
  MaxFaults,   \* bound: transfers that fail on an interface
  Directory,   \* what /dev may hold, see TypeOK
  Layout       \* where the chips may be: sets of [Location -> Chip]

Device == {"accel", "gyro"}
Interface == {"I2C", "SPI"}
Byte == 0 .. ByteMod - 1
Addr == FirstAddr .. LastAddr
Location == ({"I2C"} \X Byte \X Addr) \union ({"SPI"} \X Byte \X Byte)

(* What may sit at a location: one of the two chips, or none of them. *)
Chip == Device \union {"other"}

ASSUME BusScanAssumption ==
  /\ ByteMod \in Nat \ {0}
  /\ FirstAddr \in Nat /\ LastAddr \in Nat /\ FirstAddr <= LastAddr
  /\ Attempts \in Nat \ {0}
  /\ MaxFaults \in Nat
  /\ Directory \subseteq [i2c : SUBSET (Int \X Nat), spi : SUBSET (Int \X Int)]
  /\ \A l \in Layout : DOMAIN l \subseteq Location /\ Range(l) \subseteq Chip

VARIABLES
  dir,      \* /dev: [i2c : names "i2c-...", spi : names "spidevX.Y"]
  layout,   \* which chip sits where
  asked,    \* history: the locations the caller named
  overlay,  \* history: the SPI location IMU.bus wrote over that of the accel
  pc,       \* where the call is
  unread,   \* the names readdir has still to give
  list,     \* the buses found, later those still to be scanned
  csList,   \* the chip selects of the first of them, likewise
  addr,     \* the I2C address asked next
  found,    \* accel_found and gyro_found
  info,     \* *bus_info
  open,     \* how many descriptors the call has open
  bound,    \* st->accel_bus and st->gyro_bus: the locations they stand for
  ret,      \* what the call returns
  skipped,  \* history: the files a scan could not open
  faults    \* history: on each interface, the transfers that failed

vars == <<dir, layout, asked, overlay, pc, unread, list, csList, addr, found, info, open,
          bound, ret, skipped, faults>>
env == <<dir, layout, asked, overlay>>
scan == <<unread, list, csList, addr, found>>

(* Two bytes nobody has set. *)
Unset == <<-1, -1>>

(* bus_info holds the locations in a union: the two bytes of the accel are *)
(* the same for both interfaces, those of the gyro are not.                *)
Named(i, a, g) ==
  [interface |-> i, accel |-> Tail(a),
   gyro |-> [j \in Interface |-> IF j = i THEN Tail(g) ELSE Unset]]

(* IMU.bus of the Python wrapper fills in both members of the union, the   *)
(* SPI one last: with I2C the accel is looked for where the SPI arguments  *)
(* s point.  With SPI it is as if C had asked.                             *)
NamedByPython(g, s) == Named("I2C", s, g)

Init ==
  /\ dir \in Directory
  /\ layout \in Layout
  /\ \/ /\ info = [interface |-> "AUTO", accel |-> Unset, gyro |-> [i \in Interface |-> Unset]]
        /\ asked = [d \in Device |-> <<>>] /\ overlay = <<>>
     \/ \E a, g \in DOMAIN layout :
          /\ a[1] = g[1]
          /\ asked = [d \in Device |-> IF d = "accel" THEN a ELSE g]
          /\ \/ overlay = <<>> /\ info = Named(a[1], a, g)
             \/ /\ a[1] = "I2C"
                /\ overlay \in {s \in DOMAIN layout : s[1] = "SPI"}
                /\ info = NamedByPython(g, overlay)
  /\ pc = "start"
  /\ unread = {} /\ list = <<>> /\ csList = <<>> /\ addr = FirstAddr /\ found = {}
  /\ open = 0
  /\ bound = [d \in Device |-> <<>>]
  /\ ret = "none"
  /\ skipped = {}
  /\ faults = [i \in Interface |-> 0]

-----------------------------------------------------------------------------
(* The file a location is reached through. *)
File(l) == IF l[1] = "I2C" THEN <<"I2C", l[2]>> ELSE l

Exists(f) == IF f[1] = "I2C" THEN <<f[2], 0>> \in dir.i2c ELSE Tail(f) \in dir.spi

At(l) == IF l \in DOMAIN layout THEN layout[l] ELSE "other"

(* The checks of chip ids at the locations at: each is asked for up to     *)
(* tries times, until the chip has answered.  What they can end with is    *)
(* who was heard and how many transfers failed.  A failed transfer to any  *)
(* other chip changes nothing.                                             *)
Checked(i, at, tries) ==
  LET there == {d \in DOMAIN at : At(at[d]) = d}
      Lost == {lost \in [Device -> 0 .. tries] : \A d \in Device \ there : lost[d] = 0}
      Total(lost) == faults[i] + lost["accel"] + lost["gyro"]
  IN  {[heard  |-> {d \in there : lost[d] < tries},
        faults |-> [faults EXCEPT ![i] = Total(lost)]] :
         lost \in {x \in Lost : Total(x) <= MaxFaults}}

Where(d, i) == <<i>> \o (IF d = "accel" THEN info.accel ELSE info.gyro[i])

(* bus_info when the devices in heard have answered at l. *)
Noted(heard, l) ==
  [info EXCEPT !.interface = IF heard = {} THEN @ ELSE l[1],
               !.accel     = IF "accel" \in heard THEN Tail(l) ELSE @,
               !.gyro[l[1]] = IF "gyro" \in heard THEN Tail(l) ELSE @]

Return(r) == pc' = "done" /\ ret' = r

(* A list of bytes is counted in a byte. *)
Counted(s) == SubSeq(s, 1, Len(s) % ByteMod)

(* Where n goes in a sorted list: behind all that is smaller. *)
Position(s, n) ==
  {p \in 1 .. Len(s) + 1 :
     /\ \A j \in 1 .. p - 1 : s[j] < n
     /\ \A j \in p .. Len(s) : s[j] >= n}

-----------------------------------------------------------------------------
(* opendir may fail in each of the three listings. *)
OpenDirFails ==
  /\ \/ pc = "start" /\ info.interface = "AUTO"
     \/ pc \in {"opendir_spi", "opendir_cs"}
  /\ Return("OPEN_DIR_ERR")
  /\ UNCHANGED <<env, scan, info, open, bound, skipped, faults>>

(* list_i2c_bus *)
OpenDirI2c ==
  /\ pc = "start" /\ info.interface = "AUTO"
  /\ unread' = dir.i2c
  /\ pc' = "list_i2c"
  /\ UNCHANGED <<env, list, csList, addr, found, info, open, bound, ret, skipped, faults>>

(* Mutant: the numbers are listed in the order they come. *)
ListI2cUnsorted ==
  /\ pc = "list_i2c"
  /\ \E name \in unread :
       /\ unread' = unread \ {name}
       /\ list' = IF name[1] \in Byte /\ name[1] \notin ToSet(list)
                  THEN Counted(Append(list, name[1])) ELSE list
  /\ UNCHANGED <<env, pc, csList, addr, found, info, open, bound, ret, skipped, faults>>

(* Mutant: a bus number that does not fit a byte is listed. *)
ListI2cAny ==
  /\ pc = "list_i2c"
  /\ \E name \in unread :
       /\ unread' = unread \ {name}
       /\ IF name[1] \notin ToSet(list)
          THEN \E p \in Position(list, name[1]) :
                 list' = Counted(InsertAt(list, p, name[1]))
          ELSE UNCHANGED list
  /\ UNCHANGED <<env, pc, csList, addr, found, info, open, bound, ret, skipped, faults>>

(* A name is the number read from it and how it is spelled: 0 stands for   *)
(* exactly i2c-<number>.  What is no number is read as zero.               *)
ListI2c ==
  /\ pc = "list_i2c"
  /\ \E name \in unread :
       /\ unread' = unread \ {name}
       /\ IF name[1] \in Byte /\ name[1] \notin ToSet(list)
          THEN \E p \in Position(list, name[1]) :
                 list' = Counted(InsertAt(list, p, name[1]))
          ELSE UNCHANGED list
  /\ UNCHANGED <<env, pc, csList, addr, found, info, open, bound, ret, skipped, faults>>

I2cListed ==
  /\ pc = "list_i2c" /\ unread = {}
  /\ pc' = "open_i2c"
  /\ UNCHANGED <<env, scan, info, open, bound, ret, skipped, faults>>

(* Mutant: a bus that does not open is tried again and again. *)
OpenI2cAgain ==
  LET f == <<"I2C", Head(list)>> IN
  /\ pc = "open_i2c" /\ list # <<>> /\ found # Device
  /\ \/ /\ Exists(f)
        /\ open' = open + 1
        /\ addr' = FirstAddr
        /\ pc' = "probe_i2c"
        /\ UNCHANGED <<list, skipped>>
     \/ /\ skipped' = skipped \union {f}
        /\ UNCHANGED <<open, addr, pc, list>>
  /\ UNCHANGED <<env, unread, csList, found, info, bound, ret, faults>>

(* open of the next bus; one that does not open is passed over. *)
OpenI2c ==
  LET f == <<"I2C", Head(list)>> IN
  /\ pc = "open_i2c" /\ list # <<>> /\ found # Device
  /\ \/ /\ Exists(f)
        /\ open' = open + 1
        /\ addr' = FirstAddr
        /\ pc' = "probe_i2c"
        /\ UNCHANGED <<list, skipped>>
     \/ /\ list' = Tail(list)
        /\ skipped' = skipped \union {f}
        /\ UNCHANGED <<open, addr, pc>>
  /\ UNCHANGED <<env, unread, csList, found, info, bound, ret, faults>>

(* The body of the loop over the addresses. *)
ProbeI2c ==
  LET l == <<"I2C", Head(list), addr>> IN
  /\ pc = "probe_i2c" /\ addr <= LastAddr /\ found # Device
  /\ \E c \in Checked("I2C", [d \in Device \ found |-> l], 1) :
       /\ found' = found \union c.heard
       /\ info' = Noted(c.heard, l)
       /\ faults' = c.faults
  /\ addr' = addr + 1
  /\ UNCHANGED <<env, pc, unread, list, csList, open, bound, ret, skipped>>

(* Mutant: the descriptor is closed only when the scan goes on. *)
CloseI2cToGoOn ==
  /\ pc = "probe_i2c" /\ (addr > LastAddr \/ found = Device)
  /\ open' = IF found = Device THEN open ELSE open - 1
  /\ list' = Tail(list)
  /\ pc' = "open_i2c"
  /\ UNCHANGED <<env, unread, csList, addr, found, info, bound, ret, skipped, faults>>

CloseI2c ==
  /\ pc = "probe_i2c" /\ (addr > LastAddr \/ found = Device)
  /\ open' = open - 1
  /\ list' = Tail(list)
  /\ pc' = "open_i2c"
  /\ UNCHANGED <<env, unread, csList, addr, found, info, bound, ret, skipped, faults>>

(* Mutant: what was found on I2C is kept for the scan of SPI. *)
I2cHalfKept ==
  /\ pc = "open_i2c" /\ (list = <<>> \/ found = Device)
  /\ pc' = IF found = Device THEN "bind_accel" ELSE "opendir_spi"
  /\ UNCHANGED <<env, scan, info, open, bound, ret, skipped, faults>>

(* With only one device found, the scan starts afresh on SPI. *)
I2cScanned ==
  /\ pc = "open_i2c" /\ (list = <<>> \/ found = Device)
  /\ IF found = Device
     THEN pc' = "bind_accel" /\ UNCHANGED <<found, info>>
     ELSE /\ pc' = "opendir_spi"
          /\ found' = {}
          /\ info' = [info EXCEPT !.interface = "AUTO"]
  /\ UNCHANGED <<env, unread, list, csList, addr, open, bound, ret, skipped, faults>>

-----------------------------------------------------------------------------
(* list_spi_bus *)
OpenDirSpi ==
  /\ pc = "opendir_spi"
  /\ unread' = dir.spi
  /\ list' = <<>>
  /\ pc' = "list_spi"
  /\ UNCHANGED <<env, csList, addr, found, info, open, bound, ret, skipped, faults>>

ListSpi ==
  /\ pc = "list_spi"
  /\ \E name \in unread :
       /\ unread' = unread \ {name}
       /\ list' = IF name[1] \in Byte /\ name[1] \notin ToSet(list)
                  THEN Counted(Append(list, name[1])) ELSE list
  /\ UNCHANGED <<env, pc, csList, addr, found, info, open, bound, ret, skipped, faults>>

SpiListed ==
  /\ pc = "list_spi" /\ unread = {}
  /\ pc' = "next_spi"
  /\ UNCHANGED <<env, scan, info, open, bound, ret, skipped, faults>>

NextSpi ==
  /\ pc = "next_spi" /\ list # <<>> /\ found # Device
  /\ pc' = "opendir_cs"
  /\ UNCHANGED <<env, scan, info, open, bound, ret, skipped, faults>>

(* list_spi_bus_cs *)
OpenDirCs ==
  /\ pc = "opendir_cs"
  /\ unread' = {name \in dir.spi : name[1] = Head(list)}
  /\ csList' = <<>>
  /\ pc' = "list_cs"
  /\ UNCHANGED <<env, list, addr, found, info, open, bound, ret, skipped, faults>>

ListCs ==
  /\ pc = "list_cs"
  /\ \E name \in unread :
       /\ unread' = unread \ {name}
       /\ csList' = IF name[2] \in Byte THEN Counted(Append(csList, name[2])) ELSE csList
  /\ UNCHANGED <<env, pc, list, addr, found, info, open, bound, ret, skipped, faults>>

CsListed ==
  /\ pc = "list_cs" /\ unread = {}
  /\ pc' = "open_spi"
  /\ UNCHANGED <<env, scan, info, open, bound, ret, skipped, faults>>

OpenSpi ==
  LET f == <<"SPI", Head(list), Head(csList)>> IN
  /\ pc = "open_spi" /\ csList # <<>> /\ found # Device
  /\ \/ /\ open' = open + 1
        /\ pc' = "probe_spi"
        /\ UNCHANGED <<csList, skipped>>
     \/ /\ csList' = Tail(csList)
        /\ skipped' = skipped \union {f}
        /\ UNCHANGED <<open, pc>>
  /\ UNCHANGED <<env, unread, list, addr, found, info, bound, ret, faults>>

(* Mutant: a chip id is asked for once, as over I2C. *)
ProbeSpiOnce ==
  LET l == <<"SPI", Head(list), Head(csList)>> IN
  /\ pc = "probe_spi"
  /\ \E c \in Checked("SPI", [d \in Device \ found |-> l], 1) :
       /\ found' = found \union c.heard
       /\ info' = Noted(c.heard, l)
       /\ faults' = c.faults
  /\ open' = open - 1
  /\ csList' = Tail(csList)
  /\ pc' = "open_spi"
  /\ UNCHANGED <<env, unread, list, addr, bound, ret, skipped>>

(* The body of the loop over the chip selects, and close. *)
ProbeSpi ==
  LET l == <<"SPI", Head(list), Head(csList)>> IN
  /\ pc = "probe_spi"
  /\ \E c \in Checked("SPI", [d \in Device \ found |-> l], Attempts) :
       /\ found' = found \union c.heard
       /\ info' = Noted(c.heard, l)
       /\ faults' = c.faults
  /\ open' = open - 1
  /\ csList' = Tail(csList)
  /\ pc' = "open_spi"
  /\ UNCHANGED <<env, unread, list, addr, bound, ret, skipped>>

CsScanned ==
  /\ pc = "open_spi" /\ (csList = <<>> \/ found = Device)
  /\ list' = Tail(list)
  /\ pc' = "next_spi"
  /\ UNCHANGED <<env, unread, csList, addr, found, info, open, bound, ret, skipped, faults>>

SpiScanned ==
  /\ pc = "next_spi" /\ (list = <<>> \/ found = Device)
  /\ IF found = Device
     THEN pc' = "bind_accel" /\ UNCHANGED <<found, info, ret>>
     ELSE /\ Return("NO_DEV_ERR")
          /\ found' = {}
          /\ info' = [info EXCEPT !.interface = "AUTO"]
  /\ UNCHANGED <<env, unread, list, csList, addr, open, bound, skipped, faults>>

-----------------------------------------------------------------------------
(* The locations the caller has named.  When the second file does not open *)
(* the first one stays open.                                               *)
OpenNamed ==
  LET i == info.interface
      f(d) == File(Where(d, i))
  IN
  /\ pc = "start" /\ i # "AUTO"
  /\ \/ open' = open /\ Return("OPEN_FILE_ERR")
     \/ Exists(f("accel")) /\ open' = open + 1 /\ Return("OPEN_FILE_ERR")
     \/ Exists(f("accel")) /\ Exists(f("gyro")) /\ open' = open + 2 /\ pc' = "check"
        /\ UNCHANGED ret
  /\ UNCHANGED <<env, scan, info, bound, skipped, faults>>

(* Both chip ids are checked, both files closed.  The results are combined *)
(* with a bitwise or: it is zero only when both are RDK_IMU_OK.            *)
CheckNamed ==
  LET i == info.interface
      tries == IF i = "I2C" THEN 1 ELSE Attempts
  IN
  /\ pc = "check"
  /\ \E c \in Checked(i, [d \in Device |-> Where(d, i)], tries) :
       /\ faults' = c.faults
       /\ IF c.heard = Device
          THEN pc' = "bind_accel" /\ UNCHANGED ret
          ELSE Return("CHIP_ID_ERR")
  /\ open' = open - 2
  /\ UNCHANGED <<env, scan, info, bound, skipped>>

-----------------------------------------------------------------------------
(* Both files are opened again and stored in the state. *)
BindAccel ==
  /\ pc = "bind_accel"
  /\ \/ Return("OPEN_FILE_ERR") /\ UNCHANGED <<open, bound>>
     \/ /\ open' = open + 1
        /\ bound' = [bound EXCEPT !["accel"] = Where("accel", info.interface)]
        /\ pc' = "bind_gyro" /\ UNCHANGED ret
  /\ UNCHANGED <<env, scan, info, skipped, faults>>

(* Mutant: the location of the accel is used for both. *)
BindGyroToAccel ==
  /\ pc = "bind_gyro"
  /\ \/ Return("OPEN_FILE_ERR") /\ UNCHANGED <<open, bound>>
     \/ /\ open' = open + 1
        /\ bound' = [bound EXCEPT !["gyro"] = Where("accel", info.interface)]
        /\ Return("OK")
  /\ UNCHANGED <<env, scan, info, skipped, faults>>

BindGyro ==
  /\ pc = "bind_gyro"
  /\ \/ Return("OPEN_FILE_ERR") /\ UNCHANGED <<open, bound>>
     \/ /\ open' = open + 1
        /\ bound' = [bound EXCEPT !["gyro"] = Where("gyro", info.interface)]
        /\ Return("OK")
  /\ UNCHANGED <<env, scan, info, skipped, faults>>

Next ==
  \/ OpenDirFails
  \/ OpenDirI2c \/ ListI2c \/ I2cListed \/ OpenI2c \/ ProbeI2c \/ CloseI2c \/ I2cScanned
  \/ OpenDirSpi \/ ListSpi \/ SpiListed \/ NextSpi \/ OpenDirCs \/ ListCs \/ CsListed
  \/ OpenSpi \/ ProbeSpi \/ CsScanned \/ SpiScanned
  \/ OpenNamed \/ CheckNamed \/ BindAccel \/ BindGyro

Spec == Init /\ [][Next]_vars

(* The call is a thread's own code: it runs on until it returns. *)
FairSpec == Spec /\ WF_vars(Next)
-----------------------------------------------------------------------------
TypeOK ==
  /\ dir \in [i2c : SUBSET (Int \X Nat), spi : SUBSET (Int \X Int)]
  /\ layout \in Layout
  /\ asked \in [Device -> Location \union {<<>>}]
  /\ overlay \in Location \union {<<>>}
  /\ pc \in {"start", "list_i2c", "open_i2c", "probe_i2c", "opendir_spi", "list_spi",
             "next_spi", "opendir_cs", "list_cs", "open_spi", "probe_spi", "check",
             "bind_accel", "bind_gyro", "done"}
  /\ unread \subseteq dir.i2c \union dir.spi
  /\ list \in Seq(Byte) /\ csList \in Seq(Byte)
  /\ addr \in FirstAddr .. LastAddr + 1
  /\ found \subseteq Device
  /\ info.interface \in Interface \union {"AUTO"}
  /\ open \in 0 .. 2
  /\ bound \in [Device -> Location \union {<<>>}]
  /\ ret \in {"none", "OK", "OPEN_DIR_ERR", "OPEN_FILE_ERR", "NO_DEV_ERR", "CHIP_ID_ERR"}
  /\ faults \in [Interface -> 0 .. MaxFaults]

(* The bus numbers a directory names. *)
Buses(names) == {name[1] : name \in names} \intersect Byte

(* The chip selects a directory names on one bus. *)
Selects(names, bus) == {name[2] : name \in {n \in names : n[1] = bus}} \intersect Byte

(* A list with one entry for each value of a byte has a length of zero. *)
Wraps(S) == Cardinality(S) = ByteMod

(* The comment at rdkimu_bus.c:683: from there on bus_info is reliable.    *)
(* Both chips have answered where it says, on the one interface it names;  *)
(* nothing is left in it of a scan that found only one of them.  When the  *)
(* call succeeds each device's transfers go to that location.              *)
Reliable ==
  /\ pc \in {"bind_accel", "bind_gyro"} \/ ret = "OK" =>
       \A d \in Device : At(Where(d, info.interface)) = d
  /\ ret = "OK" => \A d \in Device : bound[d] = Where(d, info.interface)

(* A caller of rdk_imu_bus_init that has named two locations and succeeds  *)
(* has these bound, never what a scan might find instead.                  *)
NamedTaken ==
  ret = "OK" /\ asked["accel"] # <<>> /\ overlay = <<>> => bound = asked

(* The same of a caller of IMU.bus in the Python wrapper: its arguments    *)
(* i2c_accel_bus and i2c_accel_addr (imu.py:338) name where the accel is   *)
(* looked for, when I2C is asked for.  It does not hold: the SPI arguments *)
(* lie in the same bytes of the union and are filled in last.              *)
ArgumentsTaken == ret = "OK" /\ asked["accel"] # <<>> => bound = asked

(* Where device d could have been found on interface i. *)
Reachable(d, i) ==
  {l \in DOMAIN layout :
     l[1] = i /\ layout[l] = d /\ Exists(File(l)) /\ File(l) \notin skipped}

I2cMissed ==
  \/ \E d \in Device : Reachable(d, "I2C") = {}
  \/ faults["I2C"] > 0
  \/ Wraps(Buses(dir.i2c))

SpiMissed ==
  \/ \E d \in Device : Reachable(d, "SPI") = {}
  \/ faults["SPI"] >= Attempts
  \/ Wraps(Buses(dir.spi)) \/ \E bus \in Byte : Wraps(Selects(dir.spi, bus))

(* The scan overlooks nothing: SPI is used only when I2C did not have both *)
(* chips, or a transfer failed, or the list of buses was full; and it      *)
(* gives up only if SPI, too, lacks one, or Attempts transfers failed, or  *)
(* a list of buses or chip selects was full.                               *)
NothingOverlooked ==
  /\ info.interface = "SPI" /\ found # {} => I2cMissed
  /\ ret = "NO_DEV_ERR" => I2cMissed /\ SpiMissed

(* Of several candidates on I2C the scan takes the first: the lowest bus,  *)
(* and on it the lowest address, unless a transfer failed or the list of   *)
(* buses was full.                                                         *)
FirstTaken ==
  /\ ret = "OK" /\ found = Device /\ info.interface = "I2C"
  /\ faults["I2C"] = 0 /\ ~Wraps(Buses(dir.i2c))
  => \A d \in Device : \A l \in Reachable(d, "I2C") :
      \/ bound[d][2] < l[2]
      \/ bound[d][2] = l[2] /\ bound[d][3] <= l[3]

(* When the call returns it has closed all it opened to look, and keeps    *)
(* the two descriptors of the buses.  Only a file that does not open as    *)
(* the second of two leaves one behind.                                    *)
NothingLeftOpen ==
  pc = "done" =>
    CASE ret = "OK" -> open = 2
      [] ret = "OPEN_FILE_ERR" -> open <= 1
      [] OTHER -> open = 0

(* Whatever /dev holds, whatever does not open and whoever does not        *)
(* answer, the call returns: no bus or chip select is tried for ever.  How *)
(* the loops count is not modelled, the lists are consumed.                *)
Returns == <>(pc = "done")
=============================================================================
