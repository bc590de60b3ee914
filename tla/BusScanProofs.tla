---------------------------- MODULE BusScanProofs ----------------------------
(***************************************************************************)
(* Theorems about BusScan: for any contents of /dev, any placing of the    *)
(* chips, any files that do not open and any transfers that fail.          *)
(*                                                                         *)
(* What the scan has not found is still ahead of it: on the bus it is at,  *)
(* from the place it is at, or on a bus it has still to open.  That holds  *)
(* as long as no list has wrapped and no transfer has failed, and it is    *)
(* what makes an empty list mean that there is nothing to find.            *)
(***************************************************************************)
EXTENDS BusScan, SequenceTheorems, FiniteSetTheorems, TLAPS

I2cPhase == {"list_i2c", "open_i2c", "probe_i2c"}
OneBus == {"opendir_cs", "list_cs", "open_spi", "probe_spi"}
SpiPhase == {"opendir_spi", "list_spi", "next_spi"} \union OneBus

Two == Int \X Int

InfoOK ==
  info \in [interface : Interface \union {"AUTO"}, accel : Two, gyro : [Interface -> Two]]

Opened ==
  /\ ret = "none" <=> pc # "done"
  /\ pc \in {"probe_i2c", "probe_spi", "bind_gyro"} => open = 1
  /\ pc = "check" => open = 2
  /\ pc \notin {"probe_i2c", "probe_spi", "bind_gyro", "check", "done"} => open = 0

(* A call with named locations never scans. *)
Asked ==
  asked["accel"] # <<>> =>
    /\ pc \in {"start", "check", "bind_accel", "bind_gyro", "done"}
    /\ info.interface \in Interface
    /\ Where("gyro", info.interface) = asked["gyro"]
    /\ overlay = <<>> => Where("accel", info.interface) = asked["accel"]

(* What has been found is where bus_info says, on the interface scanned. *)
Heard ==
  /\ pc \in {"start", "list_i2c", "opendir_spi", "list_spi", "check"} => found = {}
  /\ pc \in {"check", "bind_accel", "bind_gyro"} => info.interface \in Interface
  /\ pc \in I2cPhase /\ found # {} => info.interface = "I2C"
  /\ pc \in SpiPhase /\ found # {} => info.interface = "SPI"
  /\ pc \in I2cPhase \union SpiPhase =>
       \A d \in found : At(Where(d, info.interface)) = d
  /\ pc = "bind_gyro" => bound["accel"] = Where("accel", info.interface)

-----------------------------------------------------------------------------
(* The listings. *)
Ascending(s) == \A j, k \in 1 .. Len(s) : j < k => s[j] < s[k]

(* s lists S: every element once. *)
Lists(s, S) == ToSet(s) = S /\ Cardinality(S) = Len(s)

I2cWraps == Wraps(Buses(dir.i2c))
SpiWraps == Wraps(Buses(dir.spi)) \/ \E bus \in Byte : Wraps(Selects(dir.spi, bus))

I2cLists ==
  /\ pc = "start" => list = <<>>
  /\ pc = "list_i2c" => unread \subseteq dir.i2c
  /\ pc = "probe_i2c" => list # <<>>
  /\ ~I2cWraps => /\ pc \in I2cPhase => Ascending(list)
                  /\ pc = "list_i2c" => Lists(list, Buses(dir.i2c \ unread))

SpiLists ==
  /\ pc \in {"list_spi", "list_cs"} => unread \subseteq dir.spi
  /\ pc \in OneBus => list # <<>>
  /\ pc = "probe_spi" => csList # <<>>
  /\ pc = "list_cs" => \A name \in unread : name[1] = Head(list)
  /\ ~SpiWraps =>
       /\ pc = "list_spi" => Lists(list, Buses(dir.spi \ unread))
       /\ pc = "list_cs" => Lists(csList, Selects(dir.spi \ unread, Head(list)))

-----------------------------------------------------------------------------
(* What is not found is ahead. *)
NotAfter(l, m) == l[2] < m[2] \/ (l[2] = m[2] /\ l[3] <= m[3])

I2cAhead(l) ==
  /\ pc = "open_i2c" => l[2] \in ToSet(list)
  /\ pc = "probe_i2c" => l[2] \in ToSet(Tail(list)) \/ (l[2] = Head(list) /\ l[3] >= addr)

SpiAhead(l) ==
  /\ pc \in {"next_spi", "opendir_cs", "list_cs"} => l[2] \in ToSet(list)
  /\ pc \in {"open_spi", "probe_spi"} =>
       l[2] \in ToSet(Tail(list)) \/ (l[2] = Head(list) /\ l[3] \in ToSet(csList))

I2cStill ==
  ~I2cWraps /\ faults["I2C"] = 0 =>
    \A d \in Device : \A l \in Reachable(d, "I2C") :
      /\ d \notin found => I2cAhead(l)
      /\ d \in found /\ info.interface = "I2C" => NotAfter(Where(d, "I2C"), l)

SpiStill ==
  ~SpiWraps /\ faults["SPI"] < Attempts =>
    \A d \in Device \ found : \A l \in Reachable(d, "SPI") : SpiAhead(l)

Missed == NothingOverlooked /\ (pc \in SpiPhase => I2cMissed)

BusInv ==
  /\ TypeOK /\ InfoOK /\ Opened /\ Asked /\ Heard /\ Reliable
  /\ I2cLists /\ SpiLists /\ I2cStill /\ SpiStill /\ Missed /\ NothingLeftOpen

-----------------------------------------------------------------------------
(* Sequences. *)
LEMMA HeadTail ==
  ASSUME NEW S, NEW s \in Seq(S), s # <<>>
  PROVE  /\ Head(s) \in S /\ Tail(s) \in Seq(S)
         /\ ToSet(s) = {Head(s)} \union ToSet(Tail(s))
<1>1. /\ Head(s) \in S /\ Tail(s) \in Seq(S) /\ Len(Tail(s)) = Len(s) - 1
      /\ \A i \in 1 .. Len(Tail(s)) : Tail(s)[i] = s[i + 1]
  BY HeadTailProperties
<1>2. Len(s) \in Nat \ {0} /\ Head(s) = s[1]
  BY EmptySeq
<1>3. DOMAIN s = 1 .. Len(s) /\ DOMAIN Tail(s) = 1 .. Len(s) - 1
  BY <1>1, LenProperties
<1>4. \A i \in 2 .. Len(s) : i - 1 \in 1 .. Len(s) - 1 /\ s[i] = Tail(s)[i - 1]
  BY <1>1, <1>2
<1>5. \A i \in 1 .. Len(s) - 1 : i + 1 \in 1 .. Len(s) /\ Tail(s)[i] = s[i + 1]
  BY <1>1, <1>2
<1>6. ToSet(s) \subseteq {Head(s)} \union ToSet(Tail(s))
  <2> SUFFICES ASSUME NEW i \in 1 .. Len(s)
               PROVE  s[i] = Head(s) \/ s[i] \in ToSet(Tail(s))
    BY <1>3 DEF ToSet
  <2>1. CASE i = 1
    BY <1>2, <2>1
  <2>2. CASE i # 1
    <3>1. i \in 2 .. Len(s)
      BY <1>2, <2>2
    <3>2. i - 1 \in DOMAIN Tail(s) /\ s[i] = Tail(s)[i - 1]
      BY <1>3, <1>4, <3>1
    <3> QED
      BY <3>2 DEF ToSet
  <2> QED
    BY <2>1, <2>2
<1>7. {Head(s)} \union ToSet(Tail(s)) \subseteq ToSet(s)
  BY <1>2, <1>3, <1>5 DEF ToSet
<1> QED
  BY <1>1, <1>6, <1>7

LEMMA Appended ==
  ASSUME NEW S, NEW s \in Seq(S), NEW n \in S
  PROVE  /\ Append(s, n) \in Seq(S) /\ Len(Append(s, n)) = Len(s) + 1
         /\ ToSet(Append(s, n)) = ToSet(s) \union {n}
<1> DEFINE t == Append(s, n)
<1>1. /\ t \in Seq(S) /\ Len(t) = Len(s) + 1
      /\ \A i \in 1 .. Len(s) : t[i] = s[i]
      /\ t[Len(s) + 1] = n
  BY AppendProperties
<1>2. DOMAIN s = 1 .. Len(s) /\ DOMAIN t = 1 .. Len(s) + 1 /\ Len(s) \in Nat
  BY <1>1, LenProperties
<1> HIDE DEF t
<1>3. ToSet(t) = ToSet(s) \union {n}
  BY <1>1, <1>2 DEF ToSet
<1> QED
  BY <1>1, <1>3 DEF t

LEMMA Inserted ==
  ASSUME NEW S, NEW s \in Seq(S), NEW n \in S, NEW p \in 1 .. Len(s) + 1
  PROVE  LET t == InsertAt(s, p, n)
         IN  /\ t \in Seq(S) /\ Len(t) = Len(s) + 1
             /\ \A i \in 1 .. Len(s) + 1 :
                  t[i] = IF i < p THEN s[i] ELSE IF i = p THEN n ELSE s[i - 1]
             /\ ToSet(t) = ToSet(s) \union {n}
<1> DEFINE a == SubSeq(s, 1, p - 1)
           b == SubSeq(s, p, Len(s))
           ab == a \o <<n>>
           t == InsertAt(s, p, n)
<1>1. Len(s) \in Nat /\ DOMAIN s = 1 .. Len(s) /\ \A i \in 1 .. Len(s) : s[i] \in S
  BY LenProperties, ElementOfSeq
<1>2. /\ a \in Seq(S) /\ Len(a) = p - 1
      /\ \A i \in 1 .. p - 1 : a[i] = s[i]
  <2>1. \A i \in 1 .. p - 1 : s[i] \in S
    BY <1>1
  <2>2. /\ a \in Seq(S) /\ Len(a) = IF 1 <= p - 1 THEN p - 1 - 1 + 1 ELSE 0
        /\ \A i \in 1 .. p - 1 - 1 + 1 : a[i] = s[1 + i - 1]
    BY <1>1, <2>1, SubSeqProperties
  <2> QED
    BY <1>1, <2>2
<1>3. /\ b \in Seq(S) /\ Len(b) = Len(s) - p + 1
      /\ \A i \in 1 .. Len(s) - p + 1 : b[i] = s[p + i - 1]
  <2>1. \A i \in p .. Len(s) : s[i] \in S
    BY <1>1
  <2>2. /\ b \in Seq(S) /\ Len(b) = IF p <= Len(s) THEN Len(s) - p + 1 ELSE 0
        /\ \A i \in 1 .. Len(s) - p + 1 : b[i] = s[p + i - 1]
    BY <1>1, <2>1, SubSeqProperties
  <2> QED
    BY <1>1, <2>2
<1>4. <<n>> \in Seq(S) /\ Len(<<n>>) = 1 /\ <<n>>[1] = n
  OBVIOUS
<1>5. t = ab \o b
  BY DEF InsertAt
<1> HIDE DEF a, b, t
<1>6. /\ ab \in Seq(S) /\ Len(ab) = Len(a) + Len(<<n>>)
      /\ \A i \in 1 .. Len(a) + Len(<<n>>) :
           ab[i] = IF i <= Len(a) THEN a[i] ELSE <<n>>[i - Len(a)]
  BY <1>2, <1>4, ConcatProperties
<1> HIDE DEF ab
<1>7. Len(ab) = p /\ (\A i \in 1 .. p - 1 : ab[i] = s[i]) /\ ab[p] = n
  BY <1>1, <1>2, <1>4, <1>6
<1>8. /\ t \in Seq(S) /\ Len(t) = Len(ab) + Len(b)
      /\ \A i \in 1 .. Len(ab) + Len(b) :
           t[i] = IF i <= Len(ab) THEN ab[i] ELSE b[i - Len(ab)]
  <2>1. /\ ab \o b \in Seq(S) /\ Len(ab \o b) = Len(ab) + Len(b)
        /\ \A i \in 1 .. Len(ab) + Len(b) :
             (ab \o b)[i] = IF i <= Len(ab) THEN ab[i] ELSE b[i - Len(ab)]
    <3>1. ab \in Seq(S) /\ b \in Seq(S)
      BY <1>3, <1>6
    <3> QED
      BY <3>1, ConcatProperties
  <2> QED
    BY <1>5, <2>1
<1>9. Len(t) = Len(s) + 1
  BY <1>1, <1>3, <1>7, <1>8
<1>10. ASSUME NEW i \in 1 .. Len(s) + 1
       PROVE  t[i] = IF i < p THEN s[i] ELSE IF i = p THEN n ELSE s[i - 1]
  <2>1. CASE i <= p
    BY <1>1, <1>3, <1>7, <1>8, <2>1
  <2>2. CASE i > p
    <3>1. t[i] = b[i - p] /\ i - p \in 1 .. Len(s) - p + 1 /\ p + (i - p) - 1 = i - 1
      BY <1>1, <1>3, <1>7, <1>8, <2>2
    <3> QED
      BY <1>3, <2>2, <3>1
  <2> QED
    BY <1>1, <2>1, <2>2
<1>11. DOMAIN t = 1 .. Len(s) + 1
  BY <1>8, <1>9, LenProperties
<1>12. ToSet(t) \subseteq ToSet(s) \union {n}
  <2> SUFFICES ASSUME NEW i \in 1 .. Len(s) + 1
               PROVE  t[i] \in ToSet(s) \union {n}
    BY <1>11 DEF ToSet
  <2>1. CASE i = p
    BY <1>10, <2>1
  <2>2. CASE i < p
    BY <1>1, <1>10, <2>2 DEF ToSet
  <2>3. CASE i > p
    BY <1>1, <1>10, <2>3 DEF ToSet
  <2> QED
    BY <1>1, <2>1, <2>2, <2>3
<1>13. ToSet(s) \union {n} \subseteq ToSet(t)
  <2>1. n \in ToSet(t)
    BY <1>1, <1>10, <1>11 DEF ToSet
  <2>2. ASSUME NEW i \in 1 .. Len(s)
        PROVE  s[i] \in ToSet(t)
    <3>1. CASE i < p
      BY <1>1, <1>10, <1>11, <3>1 DEF ToSet
    <3>2. CASE i >= p
      <4>1. i + 1 \in 1 .. Len(s) + 1 /\ ~(i + 1 < p) /\ i + 1 # p /\ i + 1 - 1 = i
        BY <1>1, <3>2
      <4>2. t[i + 1] = s[i]
        BY <1>10, <4>1
      <4> QED
        BY <1>11, <4>1, <4>2 DEF ToSet
    <3> QED
      BY <1>1, <3>1, <3>2
  <2> QED
    BY <1>1, <2>1, <2>2 DEF ToSet
<1>14. ToSet(t) = ToSet(s) \union {n}
  BY <1>12, <1>13
<1> QED
  BY <1>8, <1>9, <1>10, <1>14 DEF t

LEMMA ByteSize == ByteMod \in Nat /\ ByteMod > 0
BY BusScanAssumption

LEMMA CountedList ==
  ASSUME NEW S, NEW s \in Seq(S)
  PROVE  /\ Counted(s) \in Seq(S) /\ Len(Counted(s)) <= Len(s)
         /\ \A j \in 1 .. Len(Counted(s)) : Counted(s)[j] = s[j]
         /\ Len(s) < ByteMod => Counted(s) = s
<1> DEFINE m == Len(s) % ByteMod
<1>1. Len(s) \in Nat /\ \A i \in 1 .. Len(s) : s[i] \in S
  BY LenProperties, ElementOfSeq
<1>2. m \in 0 .. ByteMod - 1
  BY <1>1, ByteSize
<1>3. Len(s) < ByteMod => m = Len(s)
  BY <1>1, ByteSize
<1>4. m \in 0 .. Len(s)
  BY <1>1, <1>2, <1>3, ByteSize
<1>5. Counted(s) = SubSeq(s, 1, m)
  BY DEF Counted
<1> HIDE DEF m
<1>6. \A i \in 1 .. m : s[i] \in S
  BY <1>1, <1>4
<1>7. /\ SubSeq(s, 1, m) \in Seq(S)
      /\ Len(SubSeq(s, 1, m)) = IF 1 <= m THEN m - 1 + 1 ELSE 0
      /\ \A i \in 1 .. m - 1 + 1 : SubSeq(s, 1, m)[i] = s[1 + i - 1]
  BY <1>4, <1>6, SubSeqProperties
<1>8. Len(Counted(s)) = m /\ \A i \in 1 .. m : Counted(s)[i] = s[i]
  BY <1>1, <1>4, <1>5, <1>7
<1>9. Len(s) < ByteMod => Counted(s) = s
  BY <1>3, <1>5, SubSeqFull
<1> QED
  BY <1>1, <1>4, <1>5, <1>7, <1>8, <1>9

(* A list of fewer than ByteMod entries does not wrap. *)
LEMMA Listed ==
  ASSUME NEW s \in Seq(Byte), NEW S, Lists(s, S), NEW n, n \notin S,
         NEW t \in Seq(Byte), ToSet(t) = ToSet(s) \union {n}, Len(t) = Len(s) + 1,
         NEW T, S \union {n} \subseteq T, T \subseteq Byte, ~Wraps(T)
  PROVE  Lists(Counted(t), S \union {n}) /\ Counted(t) = t
<1>1. IsFiniteSet(Byte) /\ Cardinality(Byte) <= ByteMod /\ Cardinality(Byte) \in Nat
  <2>1. 0 \in Int /\ ByteMod - 1 \in Int
    BY ByteSize
  <2>2. /\ IsFiniteSet(0 .. ByteMod - 1)
        /\ Cardinality(0 .. ByteMod - 1) = IF 0 > ByteMod - 1 THEN 0 ELSE ByteMod - 1 - 0 + 1
    BY <2>1, FS_Interval
  <2> QED
    BY <2>2, ByteSize DEF Byte
<1>2. IsFiniteSet(T) /\ Cardinality(T) <= Cardinality(Byte)
  BY <1>1, FS_Subset
<1>3. Cardinality(T) \in Nat /\ Cardinality(T) < ByteMod
  BY <1>1, <1>2, FS_CardinalityType, ByteSize DEF Wraps
<1>4. IsFiniteSet(S)
  BY <1>2, FS_Subset
<1>5. Cardinality(S \union {n}) = Cardinality(S) + 1
  BY <1>4, FS_AddElement
<1>6. Cardinality(S \union {n}) <= Cardinality(T)
  BY <1>2, FS_Subset
<1>7. Len(t) = Cardinality(S \union {n}) /\ ToSet(t) = S \union {n}
  BY <1>5 DEF Lists
<1>8. Len(t) \in Nat
  BY LenProperties
<1>9. Len(t) < ByteMod
  BY <1>3, <1>6, <1>7, <1>8, ByteSize
<1>10. Counted(t) = t
  BY <1>9, CountedList
<1> QED
  BY <1>7, <1>10 DEF Lists

LEMMA NothingListed ==
  Lists(<<>>, {})
<1>1. ToSet(<<>>) = {} /\ Len(<<>>) = 0
  BY DEF ToSet
<1> QED
  BY <1>1, FS_EmptySet DEF Lists

(* Inserted at its position, a new number leaves the list ascending. *)
LEMMA StaysAscending ==
  ASSUME NEW s \in Seq(Byte), Ascending(s), NEW n \in Byte, n \notin ToSet(s),
         NEW p \in Position(s, n)
  PROVE  Ascending(InsertAt(s, p, n))
<1> DEFINE t == InsertAt(s, p, n)
<1>1. p \in 1 .. Len(s) + 1 /\ Len(s) \in Nat /\ DOMAIN s = 1 .. Len(s)
  BY LenProperties DEF Position
<1>2. /\ Len(t) = Len(s) + 1
      /\ \A i \in 1 .. Len(s) + 1 :
           t[i] = IF i < p THEN s[i] ELSE IF i = p THEN n ELSE s[i - 1]
  BY <1>1, Inserted
<1> HIDE DEF t
<1>3. \A i \in 1 .. Len(s) : s[i] \in Int /\ s[i] # n
  BY <1>1, ElementOfSeq, ByteSize DEF Byte, ToSet
<1>4. n \in Int
  BY ByteSize DEF Byte
<1>5. /\ \A i \in 1 .. p - 1 : s[i] < n
      /\ \A i \in p .. Len(s) : s[i] > n
  BY <1>1, <1>3, <1>4 DEF Position
<1> SUFFICES ASSUME NEW j \in 1 .. Len(s) + 1, NEW k \in 1 .. Len(s) + 1, j < k
             PROVE  t[j] < t[k]
  BY <1>2 DEF Ascending, t
<1>6. CASE k < p
  BY <1>1, <1>2, <1>6 DEF Ascending
<1>7. CASE k = p
  BY <1>1, <1>2, <1>5, <1>7
<1>8. CASE k > p /\ j > p
  <2>1. j - 1 \in 1 .. Len(s) /\ k - 1 \in 1 .. Len(s) /\ j - 1 < k - 1
    BY <1>1, <1>8
  <2>2. t[j] = s[j - 1] /\ t[k] = s[k - 1]
    BY <1>1, <1>2, <1>8
  <2> QED
    BY <2>1, <2>2 DEF Ascending
<1>9. CASE k > p /\ j <= p
  <2>1. k - 1 \in p .. Len(s) /\ k - 1 \in 1 .. Len(s) /\ t[k] = s[k - 1] /\ s[k - 1] > n
    BY <1>1, <1>2, <1>5, <1>9
  <2>2. CASE j = p
    BY <1>1, <1>2, <2>1, <2>2
  <2>3. CASE j < p
    <3>1. j \in 1 .. Len(s) /\ t[j] = s[j] /\ s[j] < n
      BY <1>1, <1>2, <1>5, <2>3
    <3> QED
      BY <1>3, <1>4, <2>1, <3>1
  <2> QED
    BY <1>1, <1>9, <2>2, <2>3
<1> QED
  BY <1>1, <1>6, <1>7, <1>8, <1>9

LEMMA AscendingTail ==
  ASSUME NEW s \in Seq(Byte), Ascending(s), s # <<>>
  PROVE  Ascending(Tail(s)) /\ \A n \in ToSet(Tail(s)) : Head(s) < n
<1>1. /\ Tail(s) \in Seq(Byte) /\ Len(Tail(s)) = Len(s) - 1
      /\ \A i \in 1 .. Len(Tail(s)) : Tail(s)[i] = s[i + 1]
  BY HeadTailProperties
<1>2. Len(s) \in Nat \ {0} /\ Head(s) = s[1]
  BY EmptySeq
<1>3. DOMAIN Tail(s) = 1 .. Len(s) - 1
  BY <1>1, LenProperties
<1>4. \A i \in 1 .. Len(s) - 1 : i + 1 \in 1 .. Len(s) /\ 1 < i + 1 /\ Tail(s)[i] = s[i + 1]
  BY <1>1, <1>2
<1>5. \A i \in 1 .. Len(s) - 1 : s[1] < Tail(s)[i]
  BY <1>2, <1>4 DEF Ascending
<1>6. \A n \in ToSet(Tail(s)) : Head(s) < n
  BY <1>2, <1>3, <1>5 DEF ToSet
<1>7. Ascending(Tail(s))
  BY <1>1, <1>2, <1>4 DEF Ascending
<1> QED
  BY <1>6, <1>7

-----------------------------------------------------------------------------
(* Locations and what bus_info says of them. *)
LEMMA Triples ==
  ASSUME NEW i, NEW a, NEW b
  PROVE  <<i>> \o <<a, b>> = <<i, a, b>> /\ Tail(<<i, a, b>>) = <<a, b>>
<1> DEFINE S == {i, a, b}
<1>1. <<i>> \in Seq(S) /\ <<a, b>> \in Seq(S) /\ <<i, a, b>> \in Seq(S)
  OBVIOUS
<1>2. Len(<<i>>) = 1 /\ Len(<<a, b>>) = 2 /\ Len(<<i, a, b>>) = 3 /\ <<i, a, b>> # <<>>
  OBVIOUS
<1> HIDE DEF S
<1>3. \A s, t \in Seq(S) : Len(s) = Len(t) /\ (\A j \in 1 .. Len(s) : s[j] = t[j]) => s = t
  BY SeqEqual
<1>4. /\ <<i>> \o <<a, b>> \in Seq(S) /\ Len(<<i>> \o <<a, b>>) = 3
      /\ \A j \in 1 .. 3 : (<<i>> \o <<a, b>>)[j] = IF j <= 1 THEN <<i>>[j] ELSE <<a, b>>[j - 1]
  BY <1>1, <1>2, ConcatProperties
<1>5. /\ Tail(<<i, a, b>>) \in Seq(S) /\ Len(Tail(<<i, a, b>>)) = 2
      /\ \A j \in 1 .. 2 : Tail(<<i, a, b>>)[j] = <<i, a, b>>[j + 1]
  BY <1>1, <1>2, HeadTailProperties
<1>6. \A j \in 1 .. 3 : (<<i>> \o <<a, b>>)[j] = <<i, a, b>>[j]
  BY <1>4
<1>7. \A j \in 1 .. 2 : Tail(<<i, a, b>>)[j] = <<a, b>>[j]
  BY <1>5
<1>8. <<i>> \o <<a, b>> = <<i, a, b>>
  BY <1>1, <1>2, <1>3, <1>4, <1>6
<1>9. Tail(<<i, a, b>>) = <<a, b>>
  BY <1>1, <1>2, <1>3, <1>5, <1>7
<1> QED
  BY <1>8, <1>9

LEMMA LocationForm ==
  ASSUME NEW l \in Location
  PROVE  /\ l[1] \in Interface /\ l[2] \in Byte /\ l[3] \in Int
         /\ l[1] = "I2C" => l[3] \in Addr
         /\ l[1] = "SPI" => l[3] \in Byte
         /\ Tail(l) = <<l[2], l[3]>> /\ Tail(l) \in Two
         /\ l = <<l[1], l[2], l[3]>>
         /\ \A i \in Interface : <<i>> \o Tail(l) = <<i, l[2], l[3]>>
<1>1. CASE l \in {"I2C"} \X Byte \X Addr
  <2>1. l = <<"I2C", l[2], l[3]>> /\ l[1] = "I2C" /\ l[2] \in Byte /\ l[3] \in Addr
    BY <1>1
  <2>2. l[2] \in Int /\ l[3] \in Int
    BY <2>1, ByteSize, BusScanAssumption DEF Byte, Addr
  <2>3. Tail(l) = <<l[2], l[3]>>
    <3>1. Tail(<<"I2C", l[2], l[3]>>) = <<l[2], l[3]>>
      BY Triples
    <3> QED
      BY <2>1, <3>1
  <2>4. \A i \in Interface : <<i>> \o Tail(l) = <<i, l[2], l[3]>>
    <3> TAKE i \in Interface
    <3>1. <<i>> \o <<l[2], l[3]>> = <<i, l[2], l[3]>>
      BY Triples
    <3> QED
      BY <2>3, <3>1
  <2>5. Tail(l) \in Two
    BY <2>2, <2>3 DEF Two
  <2> QED
    BY <2>1, <2>2, <2>3, <2>4, <2>5 DEF Interface
<1>2. CASE l \in {"SPI"} \X Byte \X Byte
  <2>1. l = <<"SPI", l[2], l[3]>> /\ l[1] = "SPI" /\ l[2] \in Byte /\ l[3] \in Byte
    BY <1>2
  <2>2. l[2] \in Int /\ l[3] \in Int
    BY <2>1, ByteSize DEF Byte
  <2>3. Tail(l) = <<l[2], l[3]>>
    <3>1. Tail(<<"SPI", l[2], l[3]>>) = <<l[2], l[3]>>
      BY Triples
    <3> QED
      BY <2>1, <3>1
  <2>4. \A i \in Interface : <<i>> \o Tail(l) = <<i, l[2], l[3]>>
    <3> TAKE i \in Interface
    <3>1. <<i>> \o <<l[2], l[3]>> = <<i, l[2], l[3]>>
      BY Triples
    <3> QED
      BY <2>3, <3>1
  <2>5. Tail(l) \in Two
    BY <2>2, <2>3 DEF Two
  <2> QED
    BY <2>1, <2>2, <2>3, <2>4, <2>5 DEF Interface
<1> QED
  BY <1>1, <1>2 DEF Location

LEMMA WhereForm ==
  ASSUME InfoOK, NEW d \in Device, NEW i \in Interface
  PROVE  LET x == IF d = "accel" THEN info.accel ELSE info.gyro[i]
         IN  x \in Two /\ Where(d, i) = <<i, x[1], x[2]>>
<1> DEFINE x == IF d = "accel" THEN info.accel ELSE info.gyro[i]
<1>1. x \in Two
  BY DEF InfoOK
<1>2. Where(d, i) = <<i>> \o x
  BY DEF Where
<1> HIDE DEF x
<1>3. <<i>> \o x = <<i, x[1], x[2]>>
  <2>1. x = <<x[1], x[2]>>
    BY <1>1 DEF Two
  <2>2. <<i>> \o <<x[1], x[2]>> = <<i, x[1], x[2]>>
    BY Triples
  <2> QED
    BY <2>1, <2>2
<1> QED
  BY <1>1, <1>2, <1>3 DEF x

LEMMA Placed ==
  ASSUME TypeOK, NEW l, At(l) \in Device
  PROVE  l \in DOMAIN layout /\ l \in Location /\ layout[l] = At(l)
BY BusScanAssumption DEF TypeOK, At, Device

LEMMA LayoutPlaces == TypeOK => DOMAIN layout \subseteq Location
BY BusScanAssumption DEF TypeOK

(* What a check of the chips at the locations at can end with. *)
CheckEnds(c, i, D, at, tries) ==
  /\ c.heard \subseteq D
  /\ \A d \in c.heard : At(at[d]) = d
  /\ c.faults \in [Interface -> 0 .. MaxFaults]
  /\ \A j \in Interface : c.faults[j] >= faults[j]
  /\ \A j \in Interface \ {i} : c.faults[j] = faults[j]
  /\ \A d \in D \ c.heard : At(at[d]) = d => c.faults[i] >= tries

LEMMA CheckedFacts ==
  ASSUME TypeOK, NEW i \in Interface, NEW D \in SUBSET Device, NEW at, DOMAIN at = D,
         NEW tries \in Nat, NEW c \in Checked(i, at, tries)
  PROVE  CheckEnds(c, i, D, at, tries)
<1> DEFINE there == {d \in D : At(at[d]) = d}
           Lost == {lost \in [Device -> 0 .. tries] : \A d \in Device \ there : lost[d] = 0}
           Total(lost) == faults[i] + lost["accel"] + lost["gyro"]
<1>1. PICK lost \in Lost :
        /\ Total(lost) <= MaxFaults
        /\ c = [heard |-> {d \in there : lost[d] < tries},
                faults |-> [faults EXCEPT ![i] = Total(lost)]]
  BY DEF Checked
<1>2. /\ faults \in [Interface -> 0 .. MaxFaults] /\ faults[i] \in Nat /\ MaxFaults \in Nat
  BY BusScanAssumption DEF TypeOK
<1>3. lost["accel"] \in 0 .. tries /\ lost["gyro"] \in 0 .. tries
  BY <1>1 DEF Device
<1>4. Total(lost) \in 0 .. MaxFaults /\ Total(lost) >= faults[i]
  BY <1>1, <1>2, <1>3
<1>5. c.faults = [faults EXCEPT ![i] = Total(lost)] /\ c.heard = {d \in there : lost[d] < tries}
  BY <1>1
<1>6. ASSUME NEW d \in D \ c.heard, At(at[d]) = d
      PROVE  Total(lost) >= tries
  <2>1. d \in Device /\ ~(lost[d] < tries) /\ lost[d] \in 0 .. tries
    BY <1>1, <1>5, <1>6
  <2>2. lost[d] = tries
    BY <2>1
  <2>3. d = "accel" \/ d = "gyro"
    BY <2>1 DEF Device
  <2> QED
    BY <1>2, <1>3, <2>2, <2>3
<1> HIDE DEF Total, Lost
<1>7. c.faults \in [Interface -> 0 .. MaxFaults]
  BY <1>2, <1>4, <1>5
<1>8. /\ c.faults[i] = Total(lost)
      /\ \A j \in Interface \ {i} : c.faults[j] = faults[j]
  BY <1>2, <1>5
<1>9. \A j \in Interface : c.faults[j] >= faults[j]
  BY <1>2, <1>4, <1>8
<1> QED
  BY <1>5, <1>6, <1>7, <1>8, <1>9 DEF CheckEnds

(* What is written in bus_info is where the devices were heard. *)
LEMMA NotedFacts ==
  ASSUME InfoOK, NEW l \in Location, NEW heard \in SUBSET Device, info' = Noted(heard, l)
  PROVE  /\ InfoOK'
         /\ info'.interface = IF heard = {} THEN info.interface ELSE l[1]
         /\ \A d \in heard : Where(d, l[1])' = l
         /\ \A d \in Device \ heard : Where(d, l[1])' = Where(d, l[1])
<1>1. l[1] \in Interface /\ Tail(l) \in Two /\ <<l[1]>> \o Tail(l) = l
  BY LocationForm
<1>2. /\ info'.interface = IF heard = {} THEN info.interface ELSE l[1]
      /\ info'.accel = IF "accel" \in heard THEN Tail(l) ELSE info.accel
      /\ info'.gyro[l[1]] = IF "gyro" \in heard THEN Tail(l) ELSE info.gyro[l[1]]
  BY <1>1 DEF InfoOK, Noted
<1>3. InfoOK'
  BY <1>1 DEF InfoOK, Noted
<1>4. ASSUME NEW d \in heard PROVE Where(d, l[1])' = l
  BY <1>1, <1>2 DEF Where, Device
<1>5. ASSUME NEW d \in Device \ heard PROVE Where(d, l[1])' = Where(d, l[1])
  BY <1>1, <1>2 DEF Where, Device
<1> QED
  BY <1>2, <1>3, <1>4, <1>5

-----------------------------------------------------------------------------
(* The world around the call stays as it is; nothing skipped is opened     *)
(* later and no failed transfer is taken back.                             *)
LEMMA WorldKept ==
  ASSUME [Next]_vars
  PROVE  UNCHANGED env
BY DEF Next, vars, env, OpenDirFails, OpenDirI2c, ListI2c, I2cListed, OpenI2c, ProbeI2c,
       CloseI2c, I2cScanned, OpenDirSpi, ListSpi, SpiListed, NextSpi, OpenDirCs, ListCs,
       CsListed, OpenSpi, ProbeSpi, CsScanned, SpiScanned, OpenNamed, CheckNamed,
       BindAccel, BindGyro

(* Everything a scan of an I2C address does: at is one location. *)
LEMMA ProbedI2c ==
  ASSUME TypeOK, InfoOK, I2cLists, ProbeI2c
  PROVE  LET l == <<"I2C", Head(list), addr>> IN
         /\ l \in Location
         /\ InfoOK'
         /\ \E heard \in SUBSET (Device \ found) :
              /\ found' = found \union heard
              /\ info' = Noted(heard, l)
              /\ \A d \in heard : At(l) = d
              /\ \A d \in Device \ found' : At(l) = d => faults'["I2C"] >= 1
         /\ faults' \in [Interface -> 0 .. MaxFaults]
         /\ \A j \in Interface : faults'[j] >= faults[j]
<1> DEFINE l == <<"I2C", Head(list), addr>>
           D == Device \ found
           at == [d \in D |-> l]
<1>1. Head(list) \in Byte
  BY HeadTail DEF TypeOK, I2cLists, ProbeI2c
<1>2. addr \in Addr
  BY BusScanAssumption DEF TypeOK, ProbeI2c, Addr
<1>3. l \in Location
  BY <1>1, <1>2 DEF Location
<1>4. PICK c \in Checked("I2C", at, 1) :
        found' = found \union c.heard /\ info' = Noted(c.heard, l) /\ faults' = c.faults
  BY DEF ProbeI2c
<1> HIDE DEF l
<1>5. DOMAIN at = D /\ \A d \in D : at[d] = l
  OBVIOUS
<1> HIDE DEF at
<1>6. /\ c.heard \subseteq D
      /\ \A d \in c.heard : At(at[d]) = d
      /\ c.faults \in [Interface -> 0 .. MaxFaults]
      /\ \A j \in Interface : c.faults[j] >= faults[j]
      /\ \A d \in D \ c.heard : At(at[d]) = d => c.faults["I2C"] >= 1
  <2> DEFINE once == 1
  <2>1. /\ "I2C" \in Interface /\ once \in Nat /\ D \in SUBSET Device
        /\ c \in Checked("I2C", at, once) /\ DOMAIN at = D
    BY <1>4, <1>5 DEF Interface
  <2> HIDE DEF once, D
  <2>2. CheckEnds(c, "I2C", D, at, once)
    BY <2>1, CheckedFacts
  <2> QED
    BY <2>2 DEF CheckEnds, once
<1>7. InfoOK'
  BY <1>3, <1>4, <1>6, NotedFacts
<1> QED
  BY <1>3, <1>4, <1>5, <1>6, <1>7 DEF l

LEMMA ProbedSpi ==
  ASSUME TypeOK, InfoOK, SpiLists, ProbeSpi
  PROVE  LET l == <<"SPI", Head(list), Head(csList)>> IN
         /\ l \in Location
         /\ InfoOK'
         /\ \E heard \in SUBSET (Device \ found) :
              /\ found' = found \union heard
              /\ info' = Noted(heard, l)
              /\ \A d \in heard : At(l) = d
              /\ \A d \in Device \ found' : At(l) = d => faults'["SPI"] >= Attempts
         /\ faults' \in [Interface -> 0 .. MaxFaults]
         /\ \A j \in Interface : faults'[j] >= faults[j]
<1> DEFINE l == <<"SPI", Head(list), Head(csList)>>
           D == Device \ found
           at == [d \in D |-> l]
<1>1. Head(list) \in Byte /\ Head(csList) \in Byte
  BY HeadTail DEF TypeOK, SpiLists, ProbeSpi, OneBus
<1>3. l \in Location
  BY <1>1 DEF Location
<1>4. PICK c \in Checked("SPI", at, Attempts) :
        found' = found \union c.heard /\ info' = Noted(c.heard, l) /\ faults' = c.faults
  BY DEF ProbeSpi
<1> HIDE DEF l
<1>5. DOMAIN at = D /\ \A d \in D : at[d] = l
  OBVIOUS
<1> HIDE DEF at
<1>6. /\ c.heard \subseteq D
      /\ \A d \in c.heard : At(at[d]) = d
      /\ c.faults \in [Interface -> 0 .. MaxFaults]
      /\ \A j \in Interface : c.faults[j] >= faults[j]
      /\ \A d \in D \ c.heard : At(at[d]) = d => c.faults["SPI"] >= Attempts
  <2>1. /\ "SPI" \in Interface /\ Attempts \in Nat /\ D \in SUBSET Device
        /\ c \in Checked("SPI", at, Attempts) /\ DOMAIN at = D
    BY <1>4, <1>5, BusScanAssumption DEF Interface
  <2> HIDE DEF D
  <2>2. CheckEnds(c, "SPI", D, at, Attempts)
    BY <2>1, CheckedFacts
  <2> QED
    BY <2>2 DEF CheckEnds
<1>7. InfoOK'
  BY <1>3, <1>4, <1>6, NotedFacts
<1> QED
  BY <1>3, <1>4, <1>5, <1>6, <1>7 DEF l

LEMMA CheckedNamed ==
  ASSUME TypeOK, Heard, CheckNamed
  PROVE  /\ faults' \in [Interface -> 0 .. MaxFaults]
         /\ \A j \in Interface : faults'[j] >= faults[j]
         /\ \/ /\ \A d \in Device : At(Where(d, info.interface)) = d
               /\ pc' = "bind_accel" /\ ret' = ret
            \/ pc' = "done" /\ ret' = "CHIP_ID_ERR"
<1> DEFINE i == info.interface
           at == [d \in Device |-> Where(d, i)]
           tries == IF i = "I2C" THEN 1 ELSE Attempts
<1>1. i \in Interface /\ tries \in Nat /\ DOMAIN at = Device
  BY BusScanAssumption DEF Heard, CheckNamed
<1>2. PICK c \in Checked(i, at, tries) :
        /\ faults' = c.faults
        /\ IF c.heard = Device
           THEN pc' = "bind_accel" /\ UNCHANGED ret
           ELSE Return("CHIP_ID_ERR")
  BY DEF CheckNamed
<1>3. \A d \in Device : at[d] = Where(d, i)
  OBVIOUS
<1> HIDE DEF at, tries
<1>4. CheckEnds(c, i, Device, at, tries)
  BY <1>1, <1>2, CheckedFacts
<1> QED
  BY <1>2, <1>3, <1>4 DEF CheckEnds, Return

LEMMA Monotone ==
  ASSUME TypeOK, InfoOK, I2cLists, SpiLists, Heard, Next
  PROVE  /\ skipped \subseteq skipped'
         /\ faults' \in [Interface -> 0 .. MaxFaults]
         /\ \A j \in Interface : faults'[j] >= faults[j]
<1>1. CASE ProbeI2c
  BY <1>1, ProbedI2c DEF ProbeI2c
<1>2. CASE ProbeSpi
  BY <1>2, ProbedSpi DEF ProbeSpi
<1>3. CASE CheckNamed
  BY <1>3, CheckedNamed DEF CheckNamed
<1>4. CASE OpenI2c \/ OpenSpi
  BY <1>4 DEF OpenI2c, OpenSpi, TypeOK
<1>5. CASE ~(ProbeI2c \/ ProbeSpi \/ CheckNamed \/ OpenI2c \/ OpenSpi)
  <2>1. UNCHANGED <<skipped, faults>>
    BY <1>5 DEF Next, OpenDirFails, OpenDirI2c, ListI2c, I2cListed, CloseI2c, I2cScanned,
         OpenDirSpi, ListSpi, SpiListed, NextSpi, OpenDirCs, ListCs, CsListed, CsScanned,
         SpiScanned, OpenNamed, BindAccel, BindGyro
  <2> QED
    BY <2>1 DEF TypeOK
<1> QED
  BY <1>1, <1>2, <1>3, <1>4, <1>5

(* So a device can be found at fewer and fewer places. *)
LEMMA World ==
  ASSUME TypeOK, InfoOK, I2cLists, SpiLists, Heard, Next
  PROVE  /\ \A l : At(l)' = At(l)
         /\ \A d \in Device, i \in Interface : Reachable(d, i)' \subseteq Reachable(d, i)
         /\ I2cWraps' = I2cWraps /\ SpiWraps' = SpiWraps
         /\ I2cMissed => I2cMissed'
         /\ SpiMissed => SpiMissed'
<1>1. dir' = dir /\ layout' = layout
  BY WorldKept DEF env
<1>2. \A l : At(l)' = At(l)
  BY <1>1 DEF At
<1>3. ASSUME NEW d \in Device, NEW i \in Interface
      PROVE  Reachable(d, i)' \subseteq Reachable(d, i)
  BY <1>1, Monotone DEF Reachable, Exists
<1>4. I2cWraps' = I2cWraps /\ SpiWraps' = SpiWraps
  BY <1>1 DEF I2cWraps, SpiWraps
<1>5. \A j \in Interface : faults[j] \in Nat /\ faults'[j] \in Nat /\ faults'[j] >= faults[j]
  BY Monotone, BusScanAssumption DEF TypeOK
<1>6. ASSUME I2cMissed PROVE I2cMissed'
  BY <1>1, <1>3, <1>5, <1>6 DEF I2cMissed, Interface
<1>7. ASSUME SpiMissed PROVE SpiMissed'
  BY <1>1, <1>3, <1>5, <1>7, BusScanAssumption DEF SpiMissed, Interface
<1> QED
  BY <1>2, <1>3, <1>4, <1>6, <1>7

-----------------------------------------------------------------------------
(* The invariant, part by part. *)
LEMMA InfoStep ==
  ASSUME TypeOK, InfoOK, I2cLists, SpiLists, Next
  PROVE  InfoOK'
<1>1. CASE ProbeI2c
  BY <1>1, ProbedI2c
<1>2. CASE ProbeSpi
  BY <1>2, ProbedSpi
<1>3. CASE I2cScanned \/ SpiScanned
  BY <1>3 DEF I2cScanned, SpiScanned, InfoOK
<1>4. CASE ~(ProbeI2c \/ ProbeSpi \/ I2cScanned \/ SpiScanned)
  <2>1. info' = info
    BY <1>4 DEF Next, OpenDirFails, OpenDirI2c, ListI2c, I2cListed, OpenI2c, CloseI2c,
         OpenDirSpi, ListSpi, SpiListed, NextSpi, OpenDirCs, ListCs, CsListed, OpenSpi,
         CsScanned, OpenNamed, CheckNamed, BindAccel, BindGyro
  <2> QED
    BY <2>1 DEF InfoOK
<1> QED
  BY <1>1, <1>2, <1>3, <1>4

LEMMA OpenedStep ==
  ASSUME TypeOK, Heard, Opened, Next
  PROVE  Opened'
<1>1. CASE ProbeI2c \/ ProbeSpi \/ CheckNamed
  <2>1. CASE ProbeI2c
    <3>1. pc = "probe_i2c" /\ pc' = pc /\ open' = open /\ ret' = ret
      BY <2>1 DEF ProbeI2c
    <3> QED
      BY <3>1 DEF Opened
  <2>2. CASE ProbeSpi
    <3>1. pc = "probe_spi" /\ pc' = "open_spi" /\ open' = open - 1 /\ ret' = ret
      BY <2>2 DEF ProbeSpi
    <3> QED
      BY <3>1 DEF Opened
  <2>3. CASE CheckNamed
    <3>1. pc = "check" /\ open' = open - 2
      BY <2>3 DEF CheckNamed
    <3>2. (pc' = "bind_accel" /\ ret' = ret) \/ (pc' = "done" /\ ret' = "CHIP_ID_ERR")
      BY <2>3, CheckedNamed
    <3> QED
      BY <3>1, <3>2 DEF Opened
  <2> QED
    BY <1>1, <2>1, <2>2, <2>3
<1>2. CASE OpenNamed \/ BindAccel \/ BindGyro
  BY <1>2 DEF OpenNamed, BindAccel, BindGyro, Opened, Return
<1>3. CASE OpenI2c \/ CloseI2c \/ I2cScanned \/ OpenSpi \/ CsScanned \/ SpiScanned
  BY <1>3 DEF OpenI2c, CloseI2c, I2cScanned, OpenSpi, CsScanned, SpiScanned, Opened, Return
<1>4. CASE \/ OpenDirFails \/ OpenDirI2c \/ ListI2c \/ I2cListed \/ OpenDirSpi \/ ListSpi
           \/ SpiListed \/ NextSpi \/ OpenDirCs \/ ListCs \/ CsListed
  BY <1>4 DEF OpenDirFails, OpenDirI2c, ListI2c, I2cListed, OpenDirSpi, ListSpi, SpiListed,
       NextSpi, OpenDirCs, ListCs, CsListed, Opened, Return
<1> QED
  BY <1>1, <1>2, <1>3, <1>4 DEF Next

LEMMA AskedStep ==
  ASSUME Asked, Next
  PROVE  Asked'
<1> SUFFICES ASSUME asked["accel"] # <<>>
             PROVE  Asked'
  BY WorldKept DEF Asked, env
<1>1. OpenDirFails \/ OpenNamed \/ CheckNamed \/ BindAccel \/ BindGyro
  BY DEF Asked, Next, OpenDirI2c, ListI2c, I2cListed, OpenI2c, ProbeI2c,
       CloseI2c, I2cScanned, OpenDirSpi, ListSpi, SpiListed, NextSpi, OpenDirCs, ListCs,
       CsListed, OpenSpi, ProbeSpi, CsScanned, SpiScanned, Interface
<1>2. pc' \in {"check", "bind_accel", "bind_gyro", "done"}
  BY <1>1 DEF OpenDirFails, OpenNamed, CheckNamed, BindAccel, BindGyro, Return
<1>3. info' = info
  BY <1>1 DEF OpenDirFails, OpenNamed, CheckNamed, BindAccel, BindGyro
<1>4. asked' = asked /\ overlay' = overlay
  BY WorldKept DEF env
<1>5. \A d \in Device, i \in Interface : Where(d, i)' = Where(d, i)
  BY <1>3 DEF Where
<1> QED
  BY <1>2, <1>3, <1>4, <1>5 DEF Asked, Device

LEMMA HeardStep ==
  ASSUME TypeOK, InfoOK, Opened, I2cLists, SpiLists, Heard, Reliable, Next
  PROVE  Heard' /\ Reliable'
<1> USE DEF I2cPhase, SpiPhase, OneBus, scan
<1>8. pc # "done" => ret = "none"
  BY DEF Opened
<1>0. \A l : At(l)' = At(l)
  BY World
<1>7. layout' = layout
  BY WorldKept DEF env
<1>1. CASE ProbeI2c
  <2> DEFINE l == <<"I2C", Head(list), addr>>
  <2>1. pc = "probe_i2c" /\ pc' = pc /\ ret' = ret
    BY <1>1 DEF ProbeI2c
  <2>2. PICK heard \in SUBSET (Device \ found) :
          /\ found' = found \union heard
          /\ info' = Noted(heard, l)
          /\ \A d \in heard : At(l) = d
    BY <1>1, ProbedI2c
  <2>3. l \in Location /\ l[1] = "I2C"
    BY <1>1, ProbedI2c
  <2> HIDE DEF l
  <2>4. /\ info'.interface = IF heard = {} THEN info.interface ELSE "I2C"
        /\ \A d \in heard : Where(d, "I2C")' = l
        /\ \A d \in Device \ heard : Where(d, "I2C")' = Where(d, "I2C")
    BY <2>2, <2>3, NotedFacts
  <2>5. found # {} => info.interface = "I2C"
    BY <2>1 DEF Heard
  <2>6. \A d \in found : At(Where(d, "I2C")) = d
    BY <2>1, <2>5 DEF Heard
  <2>7. found' # {} => info'.interface = "I2C"
    BY <2>2, <2>4, <2>5
  <2>8. ASSUME NEW d \in found'
        PROVE  At(Where(d, "I2C"))' = d
    <3>1. PICK w : w = Where(d, "I2C")'
      OBVIOUS
    <3>2. At(w) = d
      BY <2>2, <2>4, <2>6, <3>1 DEF TypeOK
    <3> QED
      BY <1>7, <3>1, <3>2 DEF At
  <2>9. \A d \in found' : At(Where(d, info.interface))' = d
    BY <2>7, <2>8 DEF At, Where
  <2> QED
    BY <1>8, <2>1, <2>7, <2>9 DEF Heard, Reliable
<1>2. CASE ProbeSpi
  <2> DEFINE l == <<"SPI", Head(list), Head(csList)>>
  <2>1. pc = "probe_spi" /\ pc' = "open_spi" /\ ret' = ret
    BY <1>2 DEF ProbeSpi
  <2>2. PICK heard \in SUBSET (Device \ found) :
          /\ found' = found \union heard
          /\ info' = Noted(heard, l)
          /\ \A d \in heard : At(l) = d
    BY <1>2, ProbedSpi
  <2>3. l \in Location /\ l[1] = "SPI"
    BY <1>2, ProbedSpi
  <2> HIDE DEF l
  <2>4. /\ info'.interface = IF heard = {} THEN info.interface ELSE "SPI"
        /\ \A d \in heard : Where(d, "SPI")' = l
        /\ \A d \in Device \ heard : Where(d, "SPI")' = Where(d, "SPI")
    BY <2>2, <2>3, NotedFacts
  <2>5. found # {} => info.interface = "SPI"
    BY <2>1 DEF Heard
  <2>6. \A d \in found : At(Where(d, "SPI")) = d
    BY <2>1, <2>5 DEF Heard
  <2>7. found' # {} => info'.interface = "SPI"
    BY <2>2, <2>4, <2>5
  <2>8. ASSUME NEW d \in found'
        PROVE  At(Where(d, "SPI"))' = d
    <3>1. PICK w : w = Where(d, "SPI")'
      OBVIOUS
    <3>2. At(w) = d
      BY <2>2, <2>4, <2>6, <3>1 DEF TypeOK
    <3> QED
      BY <1>7, <3>1, <3>2 DEF At
  <2>9. \A d \in found' : At(Where(d, info.interface))' = d
    BY <2>7, <2>8 DEF At, Where
  <2> QED
    BY <1>8, <2>1, <2>7, <2>9 DEF Heard, Reliable
<1>3. CASE I2cScanned
  <2>1. CASE found = Device
    <3>1. pc' = "bind_accel" /\ found' = found /\ info' = info /\ ret' = ret /\ pc = "open_i2c"
      BY <1>3, <2>1 DEF I2cScanned
    <3>2. info.interface = "I2C" /\ \A d \in Device : At(Where(d, info.interface)) = d
      BY <2>1, <3>1 DEF Heard, Device
    <3> QED
      BY <1>0, <1>8, <3>1, <3>2 DEF Heard, Reliable, Where, Interface
  <2>2. CASE found # Device
    <3>1. pc = "open_i2c" /\ pc' = "opendir_spi" /\ found' = {} /\ ret' = ret
      BY <1>3, <2>2 DEF I2cScanned
    <3> QED
      BY <1>8, <3>1 DEF Heard, Reliable
  <2> QED
    BY <2>1, <2>2
<1>4. CASE SpiScanned
  <2>1. CASE found = Device
    <3>1. pc' = "bind_accel" /\ found' = found /\ info' = info /\ ret' = ret /\ pc = "next_spi"
      BY <1>4, <2>1 DEF SpiScanned
    <3>2. info.interface = "SPI" /\ \A d \in Device : At(Where(d, info.interface)) = d
      BY <2>1, <3>1 DEF Heard, Device
    <3> QED
      BY <1>0, <1>8, <3>1, <3>2 DEF Heard, Reliable, Where, Interface
  <2>2. CASE found # Device
    <3>1. pc' = "done" /\ found' = {} /\ ret' = "NO_DEV_ERR"
      BY <1>4, <2>2 DEF SpiScanned, Return
    <3> QED
      BY <1>8, <3>1 DEF Heard, Reliable
  <2> QED
    BY <2>1, <2>2
<1>5. CASE CheckNamed
  <2>1. found' = found /\ info' = info /\ pc = "check"
    BY <1>5 DEF CheckNamed
  <2>2. \/ /\ \A d \in Device : At(Where(d, info.interface)) = d
           /\ pc' = "bind_accel" /\ ret' = ret
        \/ pc' = "done" /\ ret' = "CHIP_ID_ERR"
    BY <1>5, CheckedNamed
  <2> QED
    BY <1>0, <1>8, <2>1, <2>2 DEF Heard, Reliable, Where
<1>6. CASE ~(ProbeI2c \/ ProbeSpi \/ I2cScanned \/ SpiScanned \/ CheckNamed)
  <2>1. info' = info /\ found' = found
    BY <1>6 DEF Next, OpenDirFails, OpenDirI2c, ListI2c, I2cListed, OpenI2c, CloseI2c,
         OpenDirSpi, ListSpi, SpiListed, NextSpi, OpenDirCs, ListCs, CsListed, OpenSpi,
         CsScanned, OpenNamed, BindAccel, BindGyro
  <2>2. \A d : At(Where(d, info.interface))' = At(Where(d, info.interface))
    BY <1>0, <2>1 DEF Where
  <2>3. CASE OpenNamed
    BY <1>8, <2>1, <2>2, <2>3 DEF OpenNamed, Return, Heard, Reliable, InfoOK
  <2>4. CASE BindAccel
    BY <1>8, <2>1, <2>2, <2>4 DEF BindAccel, Return, Heard, Reliable, Where, TypeOK, Device
  <2>5. CASE BindGyro
    BY <1>8, <2>1, <2>2, <2>5 DEF BindGyro, Return, Heard, Reliable, Where, TypeOK, Device
  <2>6. CASE OpenDirFails
    BY <1>8, <2>1, <2>2, <2>6 DEF OpenDirFails, Return, Heard, Reliable
  <2>7. CASE OpenDirI2c \/ ListI2c \/ I2cListed \/ OpenI2c \/ CloseI2c
    <3>1. pc' \in I2cPhase /\ ret' = ret /\ pc \in I2cPhase \union {"start"}
      BY <2>7 DEF OpenDirI2c, ListI2c, I2cListed, OpenI2c, CloseI2c
    <3>2. pc' = "list_i2c" => pc \in {"start", "list_i2c"}
      BY <2>7 DEF OpenDirI2c, ListI2c, I2cListed, OpenI2c, CloseI2c
    <3> QED
      BY <1>8, <2>1, <2>2, <3>1, <3>2 DEF Heard, Reliable
  <2>8. CASE \/ OpenDirSpi \/ ListSpi \/ SpiListed \/ NextSpi \/ OpenDirCs \/ ListCs \/ CsListed
             \/ OpenSpi \/ CsScanned
    <3>1. pc' \in SpiPhase \ {"opendir_spi"} /\ ret' = ret /\ pc \in SpiPhase
      BY <2>8 DEF OpenDirSpi, ListSpi, SpiListed, NextSpi, OpenDirCs, ListCs, CsListed, OpenSpi,
           CsScanned
    <3>2. pc' = "list_spi" => pc \in {"opendir_spi", "list_spi"}
      BY <2>8 DEF OpenDirSpi, ListSpi, SpiListed, NextSpi, OpenDirCs, ListCs, CsListed, OpenSpi,
           CsScanned
    <3> QED
      BY <1>8, <2>1, <2>2, <3>1, <3>2 DEF Heard, Reliable
  <2> QED
    BY <1>6, <2>3, <2>4, <2>5, <2>6, <2>7, <2>8 DEF Next
<1> QED
  BY <1>1, <1>2, <1>3, <1>4, <1>5, <1>6

LEMMA TypeStep ==
  ASSUME TypeOK, InfoOK, Opened, I2cLists, SpiLists, Heard, Reliable, Next
  PROVE  TypeOK'
<1> USE DEF env, scan
<1>1. UNCHANGED env
  BY WorldKept
<1>2. /\ dir' \in [i2c : SUBSET (Int \X Nat), spi : SUBSET (Int \X Int)]
      /\ layout' \in Layout
      /\ asked' \in [Device -> Location \union {<<>>}]
      /\ overlay' \in Location \union {<<>>}
  BY <1>1 DEF TypeOK
<1>3. faults' \in [Interface -> 0 .. MaxFaults]
  BY Monotone
<1>4. info'.interface \in Interface \union {"AUTO"}
  BY InfoStep DEF InfoOK
<1>5. /\ pc' \in {"start", "list_i2c", "open_i2c", "probe_i2c", "opendir_spi", "list_spi",
                  "next_spi", "opendir_cs", "list_cs", "open_spi", "probe_spi", "check",
                  "bind_accel", "bind_gyro", "done"}
      /\ ret' \in {"none", "OK", "OPEN_DIR_ERR", "OPEN_FILE_ERR", "NO_DEV_ERR", "CHIP_ID_ERR"}
  <2>1. CASE CheckNamed
    BY <2>1, CheckedNamed DEF TypeOK
  <2>2. CASE ProbeI2c \/ ProbeSpi
    <3>1. pc' \in {"probe_i2c", "open_spi"} /\ ret' = ret
      BY <2>2 DEF ProbeI2c, ProbeSpi
    <3> QED
      BY <3>1 DEF TypeOK
  <2>3. CASE ~(CheckNamed \/ ProbeI2c \/ ProbeSpi)
    BY <2>3 DEF TypeOK, Return, Next, OpenDirFails, OpenDirI2c, ListI2c, I2cListed, OpenI2c,
       CloseI2c, I2cScanned, OpenDirSpi, ListSpi, SpiListed, NextSpi, OpenDirCs, ListCs,
       CsListed, OpenSpi, CsScanned, SpiScanned, OpenNamed, BindAccel, BindGyro
  <2> QED
    BY <2>1, <2>2, <2>3
<1>6. open' \in 0 .. 2
  <2>1. CASE ~(OpenI2c \/ CloseI2c \/ OpenSpi \/ ProbeSpi \/ OpenNamed \/ CheckNamed
               \/ BindAccel \/ BindGyro)
    <3>1. open' = open
      BY <2>1 DEF Next, OpenDirFails, OpenDirI2c, ListI2c, I2cListed, ProbeI2c, I2cScanned,
           OpenDirSpi, ListSpi, SpiListed, NextSpi, OpenDirCs, ListCs, CsListed, CsScanned,
           SpiScanned
    <3> QED
      BY <3>1 DEF TypeOK
  <2>2. CASE OpenI2c \/ OpenSpi \/ OpenNamed \/ BindAccel \/ BindGyro
    BY <2>2 DEF OpenI2c, OpenSpi, OpenNamed, BindAccel, BindGyro, Opened, TypeOK
  <2>3. CASE CloseI2c \/ ProbeSpi
    <3>1. pc \in {"probe_i2c", "probe_spi"} /\ open' \in {open, open - 1}
      BY <2>3 DEF CloseI2c, ProbeSpi
    <3> QED
      BY <3>1 DEF Opened
  <2>4. CASE CheckNamed
    <3>1. pc = "check" /\ open' = open - 2
      BY <2>4 DEF CheckNamed
    <3> QED
      BY <3>1 DEF Opened
  <2> QED
    BY <2>1, <2>2, <2>3, <2>4
<1>7. bound' \in [Device -> Location \union {<<>>}]
  <2>1. CASE BindAccel \/ BindGyro
    <3>1. \A d \in Device : Where(d, info.interface) \in Location
      BY <2>1, Placed DEF BindAccel, BindGyro, Reliable
    <3> QED
      BY <2>1, <3>1 DEF BindAccel, BindGyro, TypeOK, Device
  <2>2. CASE ~(BindAccel \/ BindGyro)
    <3>1. bound' = bound
      BY <2>2 DEF Next, OpenDirFails, OpenDirI2c, ListI2c, I2cListed, OpenI2c, ProbeI2c,
         CloseI2c, I2cScanned, OpenDirSpi, ListSpi, SpiListed, NextSpi, OpenDirCs, ListCs,
         CsListed, OpenSpi, ProbeSpi, CsScanned, SpiScanned, OpenNamed, CheckNamed
    <3> QED
      BY <3>1 DEF TypeOK
  <2> QED
    BY <2>1, <2>2
<1>8. found' \subseteq Device
  <2>1. CASE ProbeI2c
    BY <2>1, ProbedI2c DEF TypeOK
  <2>2. CASE ProbeSpi
    BY <2>2, ProbedSpi DEF TypeOK
  <2>3. CASE ~(ProbeI2c \/ ProbeSpi)
    <3>1. found' = found \/ found' = {}
      BY <2>3 DEF Next, OpenDirFails, OpenDirI2c, ListI2c, I2cListed, OpenI2c, CloseI2c,
         I2cScanned, OpenDirSpi, ListSpi, SpiListed, NextSpi, OpenDirCs, ListCs, CsListed,
         OpenSpi, CsScanned, SpiScanned, OpenNamed, CheckNamed, BindAccel, BindGyro
    <3> QED
      BY <3>1 DEF TypeOK
  <2> QED
    BY <2>1, <2>2, <2>3
<1>9. addr' \in FirstAddr .. LastAddr + 1
  <2>1. CASE OpenI2c
    BY <2>1, BusScanAssumption DEF OpenI2c, TypeOK
  <2>2. CASE ProbeI2c
    <3>1. addr' = addr + 1 /\ addr <= LastAddr
      BY <2>2 DEF ProbeI2c
    <3> QED
      BY <3>1, BusScanAssumption DEF TypeOK
  <2>3. CASE ~(OpenI2c \/ ProbeI2c)
    <3>1. addr' = addr
      BY <2>3 DEF Next, OpenDirFails, OpenDirI2c, ListI2c, I2cListed, CloseI2c,
         I2cScanned, OpenDirSpi, ListSpi, SpiListed, NextSpi, OpenDirCs, ListCs, CsListed,
         OpenSpi, ProbeSpi, CsScanned, SpiScanned, OpenNamed, CheckNamed, BindAccel, BindGyro
    <3> QED
      BY <3>1 DEF TypeOK
  <2> QED
    BY <2>1, <2>2, <2>3
<1>10. unread' \subseteq dir'.i2c \union dir'.spi
  <2>1. CASE OpenDirI2c \/ ListI2c \/ OpenDirSpi \/ ListSpi \/ OpenDirCs \/ ListCs
    BY <1>1, <2>1 DEF OpenDirI2c, ListI2c, OpenDirSpi, ListSpi, OpenDirCs, ListCs, TypeOK
  <2>2. CASE ~(OpenDirI2c \/ ListI2c \/ OpenDirSpi \/ ListSpi \/ OpenDirCs \/ ListCs)
    <3>1. unread' = unread
      BY <2>2 DEF Next, OpenDirFails, I2cListed, OpenI2c, ProbeI2c, CloseI2c, I2cScanned,
         SpiListed, NextSpi, CsListed, OpenSpi, ProbeSpi, CsScanned, SpiScanned, OpenNamed,
         CheckNamed, BindAccel, BindGyro
    <3> QED
      BY <1>1, <3>1 DEF TypeOK
  <2> QED
    BY <2>1, <2>2
<1>11. list' \in Seq(Byte)
  <2>1. CASE ListI2c
    <3>1. CASE list' = list
      BY <3>1 DEF TypeOK
    <3>2. CASE list' # list
      <4>1. PICK n \in Byte :
              \E p \in Position(list, n) : list' = Counted(InsertAt(list, p, n))
        BY <2>1, <3>2 DEF ListI2c
      <4>2. PICK p \in Position(list, n) : list' = Counted(InsertAt(list, p, n))
        BY <4>1
      <4>3. InsertAt(list, p, n) \in Seq(Byte)
        BY Inserted DEF TypeOK, Position
      <4> QED
        BY <4>2, <4>3, CountedList
    <3> QED
      BY <3>1, <3>2
  <2>2. CASE ListSpi
    <3>1. CASE list' = list
      BY <3>1 DEF TypeOK
    <3>2. CASE list' # list
      <4>1. PICK n \in Byte : list' = Counted(Append(list, n))
        BY <2>2, <3>2 DEF ListSpi
      <4>2. Append(list, n) \in Seq(Byte)
        BY Appended DEF TypeOK
      <4> QED
        BY <4>1, <4>2, CountedList
    <3> QED
      BY <3>1, <3>2
  <2>3. CASE OpenI2c \/ CloseI2c \/ CsScanned
    <3>1. list # <<>> /\ list' \in {list, Tail(list)}
      BY <2>3 DEF OpenI2c, CloseI2c, CsScanned, I2cLists, SpiLists, OneBus
    <3>2. list \in Seq(Byte) /\ Tail(list) \in Seq(Byte)
      BY <3>1, HeadTailProperties DEF TypeOK
    <3> QED
      BY <3>1, <3>2
  <2>4. CASE ~(ListI2c \/ ListSpi \/ OpenI2c \/ CloseI2c \/ CsScanned)
    <3>1. list' = list \/ list' = <<>>
      BY <2>4 DEF Next, OpenDirFails, OpenDirI2c, I2cListed, ProbeI2c, I2cScanned, OpenDirSpi,
         SpiListed, NextSpi, OpenDirCs, ListCs, CsListed, OpenSpi, ProbeSpi, SpiScanned,
         OpenNamed, CheckNamed, BindAccel, BindGyro
    <3> QED
      BY <3>1, EmptySeq DEF TypeOK
  <2> QED
    BY <2>1, <2>2, <2>3, <2>4
<1>12. csList' \in Seq(Byte)
  <2>1. CASE ListCs
    <3>1. CASE csList' = csList
      BY <3>1 DEF TypeOK
    <3>2. CASE csList' # csList
      <4>1. PICK n \in Byte : csList' = Counted(Append(csList, n))
        BY <2>1, <3>2 DEF ListCs
      <4>2. Append(csList, n) \in Seq(Byte)
        BY Appended DEF TypeOK
      <4> QED
        BY <4>1, <4>2, CountedList
    <3> QED
      BY <3>1, <3>2
  <2>2. CASE OpenSpi \/ ProbeSpi
    <3>1. csList # <<>> /\ csList' \in {csList, Tail(csList)}
      BY <2>2 DEF OpenSpi, ProbeSpi, SpiLists
    <3>2. csList \in Seq(Byte) /\ Tail(csList) \in Seq(Byte)
      BY <3>1, HeadTailProperties DEF TypeOK
    <3> QED
      BY <3>1, <3>2
  <2>3. CASE ~(ListCs \/ OpenSpi \/ ProbeSpi)
    <3>1. csList' = csList \/ csList' = <<>>
      BY <2>3 DEF Next, OpenDirFails, OpenDirI2c, ListI2c, I2cListed, OpenI2c, ProbeI2c,
         CloseI2c, I2cScanned, OpenDirSpi, ListSpi, SpiListed, NextSpi, OpenDirCs, CsListed,
         CsScanned, SpiScanned, OpenNamed, CheckNamed, BindAccel, BindGyro
    <3> QED
      BY <3>1, EmptySeq DEF TypeOK
  <2> QED
    BY <2>1, <2>2, <2>3
<1> QED
  BY <1>2, <1>3, <1>4, <1>5, <1>6, <1>7, <1>8, <1>9, <1>10, <1>11, <1>12 DEF TypeOK

-----------------------------------------------------------------------------
(* The numbers in a directory, name by name. *)
LEMMA BusesOf ==
  ASSUME NEW names, NEW name
  PROVE  /\ Buses({}) = {} /\ Buses(names) \subseteq Byte
         /\ name[1] \in Byte => Buses(names \union {name}) = Buses(names) \union {name[1]}
         /\ name[1] \notin Byte => Buses(names \union {name}) = Buses(names)
BY DEF Buses

LEMMA BusesWithin ==
  ASSUME NEW A, NEW B, A \subseteq B
  PROVE  Buses(A) \subseteq Buses(B)
BY DEF Buses

LEMMA SelectsOf ==
  ASSUME NEW names, NEW name, NEW bus, name[1] = bus
  PROVE  /\ Selects(names, bus) \subseteq Byte
         /\ name[2] \in Byte =>
              Selects(names \union {name}, bus) = Selects(names, bus) \union {name[2]}
BY DEF Selects

LEMMA SelectsSame ==
  ASSUME NEW names, NEW name, NEW bus, name[2] \notin Byte
  PROVE  Selects(names \union {name}, bus) = Selects(names, bus)
BY DEF Selects

LEMMA SelectsWithin ==
  ASSUME NEW A, NEW B, A \subseteq B, NEW bus
  PROVE  Selects(A, bus) \subseteq Selects(B, bus)
BY DEF Selects

(* A name is read: what has been read is one more. *)
LEMMA OneMoreRead ==
  ASSUME NEW all, NEW rest \in SUBSET all, NEW name \in rest
  PROVE  all \ (rest \ {name}) = (all \ rest) \union {name}
OBVIOUS

LEMMA I2cListsStep ==
  ASSUME TypeOK, I2cLists, Next
  PROVE  I2cLists'
<1> USE DEF I2cPhase, env, scan
<1>1. dir' = dir /\ I2cWraps' = I2cWraps
  BY WorldKept DEF I2cWraps
<1>2. list \in Seq(Byte)
  BY DEF TypeOK
<1>3. CASE OpenDirI2c
  <2>1. pc' = "list_i2c" /\ list' = <<>> /\ unread' = dir.i2c
    BY <1>3 DEF OpenDirI2c, I2cLists
  <2>2. Lists(list', Buses(dir'.i2c \ unread'))
    BY <1>1, <2>1, NothingListed, BusesOf
  <2>3. Ascending(list')
    BY <2>1 DEF Ascending
  <2> QED
    BY <1>1, <2>1, <2>2, <2>3 DEF I2cLists
<1>4. CASE ListI2c
  <2>1. PICK name \in unread :
          /\ unread' = unread \ {name}
          /\ IF name[1] \in Byte /\ name[1] \notin ToSet(list)
             THEN \E p \in Position(list, name[1]) :
                    list' = Counted(InsertAt(list, p, name[1]))
             ELSE UNCHANGED list
    BY <1>4 DEF ListI2c
  <2>2. pc = "list_i2c" /\ pc' = pc /\ unread \subseteq dir.i2c
    BY <1>4 DEF ListI2c, I2cLists
  <2> DEFINE read == dir.i2c \ unread
  <2>3. dir.i2c \ unread' = read \union {name}
    BY <2>1, <2>2, OneMoreRead
  <2>4. ASSUME ~I2cWraps
        PROVE  Ascending(list') /\ Lists(list', Buses(read \union {name}))
    <3>1. Ascending(list) /\ Lists(list, Buses(read))
      BY <2>2, <2>4 DEF I2cLists
    <3>2. CASE name[1] \in Byte /\ name[1] \notin ToSet(list)
      <4> DEFINE n == name[1]
      <4>1. PICK p \in Position(list, n) : list' = Counted(InsertAt(list, p, n))
        BY <2>1, <3>2
      <4> DEFINE t == InsertAt(list, p, n)
      <4>2. t \in Seq(Byte) /\ Len(t) = Len(list) + 1 /\ ToSet(t) = ToSet(list) \union {n}
        BY <1>2, <3>2, Inserted DEF Position
      <4>3. Ascending(t)
        BY <1>2, <3>1, <3>2, StaysAscending
      <4>4. Buses(read \union {name}) = Buses(read) \union {n}
        BY <3>2, BusesOf
      <4>5. Buses(read \union {name}) \subseteq Buses(dir.i2c) /\ Buses(dir.i2c) \subseteq Byte
        BY <2>1, <2>2, BusesWithin, BusesOf
      <4>6. n \notin Buses(read) /\ ~Wraps(Buses(dir.i2c))
        BY <2>4, <3>1, <3>2 DEF Lists, I2cWraps
      <4> HIDE DEF t, n, read
      <4>7. Lists(Counted(t), Buses(read) \union {n}) /\ Counted(t) = t
        BY <1>2, <3>1, <4>2, <4>4, <4>5, <4>6, Listed
      <4> QED
        BY <4>1, <4>3, <4>4, <4>7 DEF t
    <3>3. CASE ~(name[1] \in Byte /\ name[1] \notin ToSet(list))
      <4>1. list' = list
        BY <2>1, <3>3
      <4>2. Buses(read \union {name}) = Buses(read)
        <5>1. CASE name[1] \notin Byte
          BY <5>1, BusesOf
        <5>2. CASE name[1] \in Byte
          <6>1. name[1] \in Buses(read)
            BY <3>1, <3>3, <5>2 DEF Lists
          <6>2. Buses(read \union {name}) = Buses(read) \union {name[1]}
            BY <5>2, BusesOf
          <6> QED
            BY <6>1, <6>2
        <5> QED
          BY <5>1, <5>2
      <4> QED
        BY <3>1, <4>1, <4>2
    <3> QED
      BY <3>2, <3>3
  <2> QED
    BY <1>1, <2>1, <2>2, <2>3, <2>4 DEF I2cLists
<1>5. CASE OpenI2c \/ CloseI2c
  <2>1. /\ pc \in I2cPhase /\ pc' \in {"open_i2c", "probe_i2c"}
        /\ list # <<>> /\ (list' = Tail(list) \/ (list' = list))
        /\ pc' = "probe_i2c" => list' = list
    BY <1>5 DEF OpenI2c, CloseI2c, I2cLists
  <2>2. ~I2cWraps => Ascending(list')
    BY <1>2, <2>1, AscendingTail DEF I2cLists
  <2> QED
    BY <1>1, <2>1, <2>2 DEF I2cLists
<1>6. CASE I2cListed \/ ProbeI2c
  <2>1. /\ pc \in I2cPhase /\ pc' \in {"open_i2c", "probe_i2c"} /\ list' = list
        /\ pc' = "probe_i2c" => pc = "probe_i2c"
    BY <1>6 DEF I2cListed, ProbeI2c
  <2> QED
    BY <1>1, <2>1 DEF I2cLists
<1>7. CASE ~(OpenDirI2c \/ ListI2c \/ OpenI2c \/ CloseI2c \/ I2cListed \/ ProbeI2c)
  <2>1. CASE CheckNamed
    BY <2>1 DEF CheckNamed, Return, I2cLists
  <2>2. CASE ~CheckNamed
    <3>1. pc' \notin I2cPhase \union {"start"}
      BY <1>7, <2>2 DEF Next, OpenDirFails, I2cScanned, OpenDirSpi, ListSpi, SpiListed, NextSpi,
         OpenDirCs, ListCs, CsListed, OpenSpi, ProbeSpi, CsScanned, SpiScanned, OpenNamed,
         BindAccel, BindGyro, Return
    <3> QED
      BY <3>1 DEF I2cLists
  <2> QED
    BY <2>1, <2>2
<1> QED
  BY <1>3, <1>4, <1>5, <1>6, <1>7

LEMMA SpiListsStep ==
  ASSUME TypeOK, SpiLists, Next
  PROVE  SpiLists'
<1> USE DEF OneBus, env, scan
<1>1. dir' = dir /\ SpiWraps' = SpiWraps
  BY WorldKept DEF SpiWraps
<1>2. list \in Seq(Byte) /\ csList \in Seq(Byte)
  BY DEF TypeOK
<1>3. CASE OpenDirSpi
  <2>1. pc' = "list_spi" /\ list' = <<>> /\ unread' = dir.spi
    BY <1>3 DEF OpenDirSpi
  <2>2. Lists(list', Buses(dir'.spi \ unread'))
    BY <1>1, <2>1, NothingListed, BusesOf
  <2> QED
    BY <1>1, <2>1, <2>2 DEF SpiLists
<1>4. CASE ListSpi
  <2>1. PICK name \in unread :
          /\ unread' = unread \ {name}
          /\ list' = IF name[1] \in Byte /\ name[1] \notin ToSet(list)
                     THEN Counted(Append(list, name[1])) ELSE list
    BY <1>4 DEF ListSpi
  <2>2. pc = "list_spi" /\ pc' = pc /\ unread \subseteq dir.spi
    BY <1>4 DEF ListSpi, SpiLists
  <2> DEFINE read == dir.spi \ unread
  <2>3. dir.spi \ unread' = read \union {name}
    BY <2>1, <2>2, OneMoreRead
  <2>4. ASSUME ~SpiWraps
        PROVE  Lists(list', Buses(read \union {name}))
    <3>1. Lists(list, Buses(read))
      BY <2>2, <2>4 DEF SpiLists
    <3>2. CASE name[1] \in Byte /\ name[1] \notin ToSet(list)
      <4> DEFINE n == name[1]
                 t == Append(list, n)
      <4>1. list' = Counted(t)
        BY <2>1, <3>2
      <4>2. t \in Seq(Byte) /\ Len(t) = Len(list) + 1 /\ ToSet(t) = ToSet(list) \union {n}
        BY <1>2, <3>2, Appended
      <4>4. Buses(read \union {name}) = Buses(read) \union {n}
        BY <3>2, BusesOf
      <4>5. Buses(read \union {name}) \subseteq Buses(dir.spi) /\ Buses(dir.spi) \subseteq Byte
        BY <2>1, <2>2, BusesWithin, BusesOf
      <4>6. n \notin Buses(read) /\ ~Wraps(Buses(dir.spi))
        BY <2>4, <3>1, <3>2 DEF Lists, SpiWraps
      <4> HIDE DEF t, n, read
      <4>7. Lists(Counted(t), Buses(read) \union {n})
        BY <1>2, <3>1, <4>2, <4>4, <4>5, <4>6, Listed
      <4> QED
        BY <4>1, <4>4, <4>7
    <3>3. CASE ~(name[1] \in Byte /\ name[1] \notin ToSet(list))
      <4>1. list' = list
        BY <2>1, <3>3
      <4>2. Buses(read \union {name}) = Buses(read)
        <5>1. CASE name[1] \notin Byte
          BY <5>1, BusesOf
        <5>2. CASE name[1] \in Byte
          <6>1. name[1] \in Buses(read)
            BY <3>1, <3>3, <5>2 DEF Lists
          <6>2. Buses(read \union {name}) = Buses(read) \union {name[1]}
            BY <5>2, BusesOf
          <6> QED
            BY <6>1, <6>2
        <5> QED
          BY <5>1, <5>2
      <4> QED
        BY <3>1, <4>1, <4>2
    <3> QED
      BY <3>2, <3>3
  <2> QED
    BY <1>1, <2>1, <2>2, <2>3, <2>4 DEF SpiLists
<1>5. CASE OpenDirCs
  <2>1. /\ pc = "opendir_cs" /\ pc' = "list_cs" /\ csList' = <<>> /\ list' = list
        /\ unread' = {name \in dir.spi : name[1] = Head(list)}
    BY <1>5 DEF OpenDirCs
  <2>2. Selects(dir.spi \ unread', Head(list)) = {}
    BY <2>1 DEF Selects
  <2>3. Lists(csList', Selects(dir'.spi \ unread', Head(list')))
    BY <1>1, <2>1, <2>2, NothingListed
  <2> QED
    BY <1>1, <2>1, <2>3 DEF SpiLists
<1>6. CASE ListCs
  <2>1. PICK name \in unread :
          /\ unread' = unread \ {name}
          /\ csList' = IF name[2] \in Byte THEN Counted(Append(csList, name[2])) ELSE csList
    BY <1>6 DEF ListCs
  <2> DEFINE bus == Head(list)
             read == dir.spi \ unread
  <2>2. /\ pc = "list_cs" /\ pc' = pc /\ unread \subseteq dir.spi /\ list' = list /\ list # <<>>
        /\ \A m \in unread : m[1] = bus
    BY <1>6 DEF ListCs, SpiLists
  <2>3. dir.spi \ unread' = read \union {name}
    BY <2>1, <2>2, OneMoreRead
  <2>4. ASSUME ~SpiWraps
        PROVE  Lists(csList', Selects(read \union {name}, bus))
    <3>1. Lists(csList, Selects(read, bus))
      BY <2>2, <2>4 DEF SpiLists
    <3>2. CASE name[2] \in Byte
      <4> DEFINE n == name[2]
                 t == Append(csList, n)
      <4>1. csList' = Counted(t)
        BY <2>1, <3>2
      <4>2. t \in Seq(Byte) /\ Len(t) = Len(csList) + 1 /\ ToSet(t) = ToSet(csList) \union {n}
        BY <1>2, <3>2, Appended
      <4>3. name[1] = bus
        BY <2>1, <2>2
      <4>4. Selects(read \union {name}, bus) = Selects(read, bus) \union {n}
        <5> HIDE DEF read, bus
        <5> QED
          BY <3>2, <4>3, SelectsOf
      <4>5. Selects(read \union {name}, bus) \subseteq Selects(dir.spi, bus)
        BY <2>1, <2>2, SelectsWithin
      <4>6. Selects(dir.spi, bus) \subseteq Byte
        BY DEF Selects
      <4>7. bus \in Byte
        BY <1>2, <2>2, HeadTailProperties
      <4>8. ~Wraps(Selects(dir.spi, bus))
        BY <2>4, <4>7 DEF SpiWraps
      <4>9. n \notin Selects(read, bus)
        <5>1. dir.spi \subseteq Int \X Int
          BY DEF TypeOK
        <5>2. SUFFICES ASSUME NEW m \in read, m[1] = bus, m[2] = n
                       PROVE  FALSE
          BY DEF Selects
        <5>3. m \in Int \X Int /\ name \in Int \X Int
          BY <2>1, <2>2, <5>1
        <5>4. m = name
          BY <4>3, <5>2, <5>3
        <5> QED
          BY <5>4
      <4> HIDE DEF t, n, read, bus
      <4>10. Lists(Counted(t), Selects(read, bus) \union {n})
        BY <1>2, <3>1, <4>2, <4>4, <4>5, <4>6, <4>8, <4>9, Listed
      <4> QED
        BY <4>1, <4>4, <4>10
    <3>3. CASE name[2] \notin Byte
      <4>1. csList' = csList
        BY <2>1, <3>3
      <4>2. Selects(read \union {name}, bus) = Selects(read, bus)
        BY <3>3, SelectsSame
      <4> QED
        BY <3>1, <4>1, <4>2
    <3> QED
      BY <3>2, <3>3
  <2> QED
    BY <1>1, <2>1, <2>2, <2>3, <2>4 DEF SpiLists
<1>7. CASE NextSpi \/ CsListed \/ OpenSpi \/ ProbeSpi
  <2>1. /\ pc \in OneBus \/ list # <<>>
        /\ pc' \in {"opendir_cs", "open_spi", "probe_spi"} /\ list' = list
        /\ pc' = "probe_spi" => csList' # <<>>
    BY <1>7 DEF NextSpi, CsListed, OpenSpi, ProbeSpi, SpiLists
  <2> QED
    BY <1>1, <2>1 DEF SpiLists
<1>8. CASE ~(OpenDirSpi \/ ListSpi \/ OpenDirCs \/ ListCs \/ NextSpi \/ CsListed \/ OpenSpi
             \/ ProbeSpi)
  <2>1. CASE CheckNamed
    BY <2>1 DEF CheckNamed, Return, SpiLists
  <2>2. CASE ~CheckNamed
    <3>1. pc' \notin OneBus \union {"list_spi"}
      BY <1>8, <2>2 DEF Next, OpenDirFails, OpenDirI2c, ListI2c, I2cListed, OpenI2c, ProbeI2c,
         CloseI2c, I2cScanned, SpiListed, CsScanned, SpiScanned, OpenNamed, BindAccel,
         BindGyro, Return
    <3> QED
      BY <3>1 DEF SpiLists
  <2> QED
    BY <2>1, <2>2
<1> QED
  BY <1>3, <1>4, <1>5, <1>6, <1>7, <1>8

-----------------------------------------------------------------------------
(* Where a device can be found is where /dev has a name for it.            *)
LEMMA ReachableNamed ==
  ASSUME TypeOK, NEW d \in Device, NEW i \in Interface, NEW l \in Reachable(d, i)
  PROVE  /\ l \in Location /\ l[1] = i /\ At(l) = d
         /\ i = "I2C" => l[2] \in Buses(dir.i2c)
         /\ i = "SPI" => l[2] \in Buses(dir.spi) /\ l[3] \in Selects(dir.spi, l[2])
<1>1. l \in DOMAIN layout /\ l[1] = i /\ layout[l] = d /\ Exists(File(l))
  BY DEF Reachable
<1>2. l \in Location
  BY <1>1, LayoutPlaces
<1>3. l[2] \in Byte /\ (l[1] = "SPI" => l[3] \in Byte) /\ Tail(l) = <<l[2], l[3]>>
  BY <1>2, LocationForm
<1>4. CASE i = "I2C"
  <2>1. <<l[2], 0>> \in dir.i2c
    BY <1>1, <1>4 DEF Exists, File
  <2>2. l[2] \in Buses(dir.i2c)
    BY <1>3, <2>1 DEF Buses
  <2> QED
    BY <1>1, <1>2, <1>4, <2>2 DEF At
<1>5. CASE i = "SPI"
  <2>1. <<l[2], l[3]>> \in dir.spi
    BY <1>1, <1>3, <1>5 DEF Exists, File
  <2>2. l[2] \in Buses(dir.spi) /\ l[3] \in Selects(dir.spi, l[2])
    BY <1>1, <1>3, <1>5, <2>1 DEF Buses, Selects
  <2> QED
    BY <1>1, <1>2, <1>5, <2>2 DEF At
<1> QED
  BY <1>4, <1>5 DEF Interface

LEMMA I2cStillStep ==
  ASSUME TypeOK, InfoOK, I2cLists, SpiLists, Heard, I2cStill, Next
  PROVE  I2cStill'
<1> USE DEF I2cPhase, env, scan
<1> SUFFICES ASSUME ~I2cWraps', faults'["I2C"] = 0,
                    NEW d \in Device, NEW l \in Reachable(d, "I2C")'
             PROVE  /\ d \notin found' => I2cAhead(l)'
                    /\ d \in found' /\ info'.interface = "I2C" => NotAfter(Where(d, "I2C")', l)
  BY DEF I2cStill, I2cAhead, NotAfter, Where
<1>1. faults["I2C"] = 0 /\ ~I2cWraps
  <2>1. faults["I2C"] \in Nat /\ faults'["I2C"] >= faults["I2C"]
    BY Monotone, BusScanAssumption DEF TypeOK, Interface
  <2> QED
    BY <2>1, World
<1>2. l \in Reachable(d, "I2C")
  BY World DEF Interface
<1>3. /\ d \notin found => I2cAhead(l)
      /\ d \in found /\ info.interface = "I2C" => NotAfter(Where(d, "I2C"), l)
  BY <1>1, <1>2 DEF I2cStill
<1>4. /\ l \in Location /\ l[1] = "I2C" /\ At(l) = d /\ l[2] \in Buses(dir.i2c)
      /\ l[3] \in Addr /\ l[2] \in Int /\ l[3] \in Int /\ l = <<l[1], l[2], l[3]>>
  BY <1>2, ReachableNamed, LocationForm, ByteSize DEF Interface, Byte
<1>5. list \in Seq(Byte) /\ addr \in Int
  BY BusScanAssumption DEF TypeOK
<1>6. CASE I2cListed
  <2>1. pc = "list_i2c" /\ pc' = "open_i2c" /\ list' = list /\ found' = found /\ unread = {}
    BY <1>6 DEF I2cListed
  <2>2. found = {}
    BY <2>1 DEF Heard
  <2>3. ToSet(list) = Buses(dir.i2c \ {})
    BY <1>1, <2>1 DEF I2cLists, Lists
  <2>4. dir.i2c \ {} = dir.i2c
    OBVIOUS
  <2>5. l[2] \in ToSet(list')
    BY <1>4, <2>1, <2>3, <2>4
  <2> QED
    BY <2>1, <2>2, <2>5 DEF I2cAhead
<1>7. CASE OpenI2c
  <2>1. pc = "open_i2c" /\ list # <<>> /\ found' = found /\ info' = info
    BY <1>7 DEF OpenI2c
  <2>2. Where(d, "I2C")' = Where(d, "I2C")
    BY <2>1 DEF Where
  <2>3. ToSet(list) = {Head(list)} \union ToSet(Tail(list))
    BY <1>5, <2>1, HeadTail
  <2>4. CASE pc' = "probe_i2c"
    <3>1. list' = list /\ addr' = FirstAddr
      BY <1>7, <2>4 DEF OpenI2c
    <3>2. l[3] >= FirstAddr
      BY <1>4, BusScanAssumption DEF Addr
    <3> QED
      BY <1>3, <2>1, <2>2, <2>3, <2>4, <3>1, <3>2 DEF I2cAhead
  <2>5. CASE pc' # "probe_i2c"
    <3>1. pc' = "open_i2c" /\ list' = Tail(list) /\ skipped' = skipped \union {<<"I2C", Head(list)>>}
      BY <1>7, <2>5 DEF OpenI2c
    <3>2. File(l) = <<"I2C", l[2]>> /\ File(l) \notin skipped'
      BY <1>4 DEF File, Reachable
    <3>3. l[2] # Head(list)
      BY <3>1, <3>2
    <3> QED
      BY <1>3, <2>1, <2>2, <2>3, <3>1, <3>3 DEF I2cAhead
  <2> QED
    BY <2>4, <2>5
<1>8. CASE CloseI2c
  <2>1. /\ pc = "probe_i2c" /\ (addr > LastAddr \/ found = Device)
        /\ list' = Tail(list) /\ pc' = "open_i2c" /\ found' = found /\ info' = info
    BY <1>8 DEF CloseI2c
  <2>2. Where(d, "I2C")' = Where(d, "I2C")
    BY <2>1 DEF Where
  <2>3. d \notin found => ~(l[3] >= addr)
    BY <1>4, <1>5, <2>1, BusScanAssumption DEF Addr
  <2> QED
    BY <1>3, <2>1, <2>2, <2>3 DEF I2cAhead
<1>9. CASE ProbeI2c
  <2> DEFINE at == <<"I2C", Head(list), addr>>
  <2>1. /\ pc = "probe_i2c" /\ pc' = pc /\ list' = list /\ addr' = addr + 1
    BY <1>9 DEF ProbeI2c
  <2>2. PICK heard \in SUBSET (Device \ found) :
          /\ found' = found \union heard
          /\ info' = Noted(heard, at)
          /\ \A e \in heard : At(at) = e
          /\ \A e \in Device \ found' : At(at) = e => faults'["I2C"] >= 1
    BY <1>9, ProbedI2c
  <2>3. at \in Location /\ at[1] = "I2C" /\ at[2] = Head(list) /\ at[3] = addr
    BY <1>9, ProbedI2c
  <2> HIDE DEF at
  <2>4. /\ info'.interface = IF heard = {} THEN info.interface ELSE "I2C"
        /\ \A e \in heard : Where(e, "I2C")' = at
        /\ \A e \in Device \ heard : Where(e, "I2C")' = Where(e, "I2C")
    BY <2>2, <2>3, NotedFacts
  <2>5. list # <<>> /\ Ascending(list)
    BY <1>1, <2>1 DEF I2cLists
  <2>6. \A n \in ToSet(Tail(list)) : Head(list) < n
    BY <1>5, <2>5, AscendingTail
  <2>7. CASE d \in found
    <3>1. info.interface = "I2C"
      BY <2>1, <2>7 DEF Heard
    <3> QED
      BY <1>3, <2>2, <2>4, <2>7, <3>1
  <2>8. CASE d \in heard
    <3>1. d \notin found /\ Where(d, "I2C")' = at /\ d \in found'
      BY <2>2, <2>4, <2>8
    <3>2. l[2] \in ToSet(Tail(list)) \/ (l[2] = Head(list) /\ l[3] >= addr)
      BY <1>3, <2>1, <3>1 DEF I2cAhead
    <3>3. NotAfter(at, l)
      BY <1>4, <1>5, <2>3, <2>6, <3>2 DEF NotAfter
    <3> QED
      BY <3>1, <3>3
  <2>9. CASE d \notin found'
    <3>1. d \notin found
      BY <2>2, <2>9
    <3>2. l[2] \in ToSet(Tail(list)) \/ (l[2] = Head(list) /\ l[3] >= addr)
      BY <1>3, <2>1, <3>1 DEF I2cAhead
    <3>3. At(at) # d
      BY <2>2, <2>9
    <3>4. ~(l[2] = Head(list) /\ l[3] = addr)
      BY <1>4, <2>3, <3>3 DEF at
    <3>5. l[2] \in ToSet(Tail(list)) \/ (l[2] = Head(list) /\ l[3] >= addr + 1)
      BY <1>4, <1>5, <3>2, <3>4
    <3> QED
      BY <2>1, <2>9, <3>5 DEF I2cAhead
  <2> QED
    BY <2>2, <2>7, <2>8, <2>9
<1>10. CASE ProbeSpi
  <2> DEFINE at == <<"SPI", Head(list), Head(csList)>>
  <2>1. pc = "probe_spi" /\ pc' = "open_spi"
    BY <1>10 DEF ProbeSpi
  <2>2. PICK heard \in SUBSET (Device \ found) :
          found' = found \union heard /\ info' = Noted(heard, at)
    BY <1>10, ProbedSpi
  <2>3. at \in Location /\ at[1] = "SPI"
    BY <1>10, ProbedSpi
  <2> HIDE DEF at
  <2>4. info'.interface = IF heard = {} THEN info.interface ELSE "SPI"
    BY <2>2, <2>3, NotedFacts
  <2>5. found # {} => info.interface = "SPI"
    BY <2>1 DEF Heard, SpiPhase, OneBus
  <2>6. found' # {} => info'.interface = "SPI"
    BY <2>2, <2>4, <2>5
  <2> QED
    BY <2>1, <2>6 DEF I2cAhead
<1>11. CASE I2cScanned \/ SpiScanned
  <2>1. pc' \notin {"open_i2c", "probe_i2c"}
    BY <1>11 DEF I2cScanned, SpiScanned, Return
  <2>2. (found' = found /\ info' = info) \/ found' = {}
    BY <1>11 DEF I2cScanned, SpiScanned
  <2>3. info' = info => Where(d, "I2C")' = Where(d, "I2C")
    BY DEF Where
  <2> QED
    BY <1>3, <2>1, <2>2, <2>3 DEF I2cAhead
<1>12. CASE ~(I2cListed \/ OpenI2c \/ CloseI2c \/ ProbeI2c \/ ProbeSpi \/ I2cScanned
              \/ SpiScanned)
  <2>1. found' = found /\ info' = info
    BY <1>12 DEF Next, OpenDirFails, OpenDirI2c, ListI2c, OpenDirSpi, ListSpi, SpiListed,
       NextSpi, OpenDirCs, ListCs, CsListed, OpenSpi, CsScanned, OpenNamed, CheckNamed,
       BindAccel, BindGyro
  <2>2. Where(d, "I2C")' = Where(d, "I2C")
    BY <2>1 DEF Where
  <2>3. pc' \notin {"open_i2c", "probe_i2c"}
    <3>1. CASE CheckNamed
      BY <3>1 DEF CheckNamed, Return
    <3>2. CASE ~CheckNamed
      BY <1>12, <3>2 DEF Next, OpenDirFails, OpenDirI2c, ListI2c, OpenDirSpi, ListSpi, SpiListed,
       NextSpi, OpenDirCs, ListCs, CsListed, OpenSpi, CsScanned, OpenNamed, BindAccel, BindGyro,
       Return
    <3> QED
      BY <3>1, <3>2
  <2> QED
    BY <1>3, <2>1, <2>2, <2>3 DEF I2cAhead
<1> QED
  BY <1>6, <1>7, <1>8, <1>9, <1>10, <1>11, <1>12

LEMMA SpiStillStep ==
  ASSUME TypeOK, InfoOK, I2cLists, SpiLists, Heard, SpiStill, Next
  PROVE  SpiStill'
<1> USE DEF env, scan
<1> SUFFICES ASSUME ~SpiWraps', faults'["SPI"] < Attempts,
                    NEW d \in Device, d \notin found', NEW l \in Reachable(d, "SPI")'
             PROVE  SpiAhead(l)'
  BY DEF SpiStill, SpiAhead
<1>1. faults["SPI"] < Attempts /\ ~SpiWraps
  <2>1. faults["SPI"] \in Nat /\ faults'["SPI"] \in Nat /\ faults'["SPI"] >= faults["SPI"]
    BY Monotone, BusScanAssumption DEF TypeOK, Interface
  <2> QED
    BY <2>1, World, BusScanAssumption
<1>2. l \in Reachable(d, "SPI")
  BY World DEF Interface
<1>3. d \notin found => SpiAhead(l)
  BY <1>1, <1>2 DEF SpiStill
<1>4. /\ l \in Location /\ l[1] = "SPI" /\ At(l) = d /\ l = <<l[1], l[2], l[3]>>
      /\ l[2] \in Buses(dir.spi) /\ l[3] \in Selects(dir.spi, l[2])
  BY <1>2, ReachableNamed, LocationForm DEF Interface
<1>5. list \in Seq(Byte) /\ csList \in Seq(Byte)
  BY DEF TypeOK
<1>6. CASE SpiListed
  <2>1. pc = "list_spi" /\ pc' = "next_spi" /\ list' = list /\ unread = {}
    BY <1>6 DEF SpiListed
  <2>2. ToSet(list) = Buses(dir.spi \ {})
    BY <1>1, <2>1 DEF SpiLists, Lists
  <2>3. dir.spi \ {} = dir.spi
    OBVIOUS
  <2> QED
    BY <1>4, <2>1, <2>2, <2>3 DEF SpiAhead
<1>7. CASE CsListed
  <2>1. /\ pc = "list_cs" /\ pc' = "open_spi" /\ list' = list /\ csList' = csList
        /\ unread = {} /\ found' = found
    BY <1>7 DEF CsListed
  <2>2. list # <<>> /\ ToSet(csList) = Selects(dir.spi \ {}, Head(list))
    BY <1>1, <2>1 DEF SpiLists, Lists, OneBus
  <2>3. dir.spi \ {} = dir.spi
    OBVIOUS
  <2>4. l[2] \in ToSet(list)
    BY <1>3, <2>1 DEF SpiAhead
  <2>5. ToSet(list) = {Head(list)} \union ToSet(Tail(list))
    BY <1>5, <2>2, HeadTail
  <2> QED
    BY <1>4, <2>1, <2>2, <2>3, <2>4, <2>5 DEF SpiAhead
<1>8. CASE OpenSpi
  <2>1. pc = "open_spi" /\ list' = list /\ csList # <<>> /\ found' = found
    BY <1>8 DEF OpenSpi
  <2>2. CASE pc' = "probe_spi"
    <3>1. csList' = csList
      BY <1>8, <2>2 DEF OpenSpi
    <3> QED
      BY <1>3, <2>1, <2>2, <3>1 DEF SpiAhead
  <2>3. CASE pc' # "probe_spi"
    <3>1. /\ pc' = "open_spi" /\ csList' = Tail(csList)
          /\ skipped' = skipped \union {<<"SPI", Head(list), Head(csList)>>}
      BY <1>8, <2>3 DEF OpenSpi
    <3>2. File(l) = l /\ File(l) \notin skipped'
      BY <1>4 DEF File, Reachable
    <3>3. ~(l[2] = Head(list) /\ l[3] = Head(csList))
      BY <1>4, <3>1, <3>2
    <3>4. ToSet(csList) = {Head(csList)} \union ToSet(Tail(csList))
      BY <1>5, <2>1, HeadTail
    <3> QED
      BY <1>3, <2>1, <3>1, <3>3, <3>4 DEF SpiAhead
  <2> QED
    BY <2>2, <2>3
<1>9. CASE ProbeSpi
  <2> DEFINE at == <<"SPI", Head(list), Head(csList)>>
  <2>1. /\ pc = "probe_spi" /\ pc' = "open_spi" /\ list' = list /\ csList' = Tail(csList)
        /\ csList # <<>>
    BY <1>9 DEF ProbeSpi, SpiLists
  <2>2. PICK heard \in SUBSET (Device \ found) :
          /\ found' = found \union heard
          /\ \A e \in Device \ found' : At(at) = e => faults'["SPI"] >= Attempts
    BY <1>9, ProbedSpi
  <2>3. faults'["SPI"] \in Nat
    BY Monotone, BusScanAssumption DEF Interface
  <2>4. At(at) # d
    BY <2>2, <2>3, BusScanAssumption
  <2>5. ~(l[2] = Head(list) /\ l[3] = Head(csList))
    BY <1>4, <2>4
  <2>6. ToSet(csList) = {Head(csList)} \union ToSet(Tail(csList))
    BY <1>5, <2>1, HeadTail
  <2>7. d \notin found
    BY <2>2
  <2> QED
    BY <1>3, <2>1, <2>5, <2>6, <2>7 DEF SpiAhead
<1>10. CASE CsScanned
  <2>1. /\ pc = "open_spi" /\ (csList = <<>> \/ found = Device)
        /\ list' = Tail(list) /\ pc' = "next_spi" /\ found' = found
    BY <1>10 DEF CsScanned
  <2>2. csList = <<>>
    BY <2>1
  <2>3. ToSet(csList) = {}
    BY <2>2 DEF ToSet
  <2> QED
    BY <1>3, <2>1, <2>3 DEF SpiAhead
<1>11. CASE NextSpi \/ OpenDirCs \/ ListCs
  <2>1. /\ pc \in {"next_spi", "opendir_cs", "list_cs"}
        /\ pc' \in {"next_spi", "opendir_cs", "list_cs"}
        /\ list' = list /\ found' = found
    BY <1>11 DEF NextSpi, OpenDirCs, ListCs
  <2> QED
    BY <1>3, <2>1 DEF SpiAhead
<1>12. CASE ~(SpiListed \/ CsListed \/ OpenSpi \/ ProbeSpi \/ CsScanned \/ NextSpi \/ OpenDirCs
              \/ ListCs)
  <2>1. pc' \notin {"next_spi", "opendir_cs", "list_cs", "open_spi", "probe_spi"}
    <3>1. CASE CheckNamed
      BY <3>1 DEF CheckNamed, Return
    <3>2. CASE ProbeI2c
      BY <3>2 DEF ProbeI2c
    <3>3. CASE ~(CheckNamed \/ ProbeI2c)
      BY <1>12, <3>3 DEF Next, OpenDirFails, OpenDirI2c, ListI2c, I2cListed, OpenI2c, CloseI2c,
         I2cScanned, OpenDirSpi, ListSpi, SpiScanned, OpenNamed, BindAccel, BindGyro, Return
    <3> QED
      BY <3>1, <3>2, <3>3
  <2> QED
    BY <2>1 DEF SpiAhead
<1> QED
  BY <1>6, <1>7, <1>8, <1>9, <1>10, <1>11, <1>12

(* A scan that has gone through its list without both chips has missed     *)
(* nothing it could have found.                                            *)
LEMMA I2cEnds ==
  ASSUME TypeOK, I2cStill, pc = "open_i2c", list = <<>>, found # Device
  PROVE  I2cMissed
<1> SUFFICES ASSUME ~I2cWraps, faults["I2C"] = 0, \A d \in Device : Reachable(d, "I2C") # {}
             PROVE  FALSE
  <2>1. faults["I2C"] \in Nat
    BY BusScanAssumption DEF TypeOK, Interface
  <2> QED
    BY <2>1 DEF I2cMissed, I2cWraps
<1>1. PICK d \in Device : d \notin found
  BY DEF TypeOK
<1>2. PICK l : l \in Reachable(d, "I2C")
  OBVIOUS
<1>3. l[2] \in ToSet(list)
  BY <1>1, <1>2 DEF I2cStill, I2cAhead
<1> QED
  BY <1>3 DEF ToSet

LEMMA SpiEnds ==
  ASSUME TypeOK, SpiStill, pc = "next_spi", list = <<>>, found # Device
  PROVE  SpiMissed
<1> SUFFICES ASSUME ~SpiWraps, faults["SPI"] < Attempts,
                    \A d \in Device : Reachable(d, "SPI") # {}
             PROVE  FALSE
  <2>1. faults["SPI"] \in Nat
    BY BusScanAssumption DEF TypeOK, Interface
  <2> QED
    BY <2>1, BusScanAssumption DEF SpiMissed, SpiWraps
<1>1. PICK d \in Device : d \notin found
  BY DEF TypeOK
<1>2. PICK l : l \in Reachable(d, "SPI")
  OBVIOUS
<1>3. l[2] \in ToSet(list)
  BY <1>1, <1>2 DEF SpiStill, SpiAhead
<1> QED
  BY <1>3 DEF ToSet

LEMMA MissedStep ==
  ASSUME TypeOK, InfoOK, Opened, I2cLists, SpiLists, Heard, I2cStill, SpiStill, Missed, Next,
         Heard'
  PROVE  Missed'
<1> USE DEF env, scan
<1>1. (I2cMissed => I2cMissed') /\ (SpiMissed => SpiMissed')
  BY World
<1>2. pc' \in SpiPhase => I2cMissed'
  <2>1. CASE pc \in SpiPhase
    BY <1>1, <2>1 DEF Missed
  <2>2. CASE I2cScanned /\ found # Device
    <3>1. pc = "open_i2c" /\ list = <<>>
      BY <2>2 DEF I2cScanned
    <3> QED
      BY <1>1, <2>2, <3>1, I2cEnds
  <2>3. CASE pc \notin SpiPhase /\ ~(I2cScanned /\ found # Device)
    <3>1. pc' \notin SpiPhase
      <4>1. CASE CheckNamed
        BY <4>1 DEF CheckNamed, Return, SpiPhase, OneBus
      <4>2. CASE ProbeI2c
        BY <4>2 DEF ProbeI2c, SpiPhase, OneBus
      <4>3. CASE ~(CheckNamed \/ ProbeI2c)
        BY <2>3, <4>3 DEF Next, OpenDirFails, OpenDirI2c, ListI2c, I2cListed, OpenI2c, CloseI2c,
           I2cScanned, OpenDirSpi, ListSpi, SpiListed, NextSpi, OpenDirCs, ListCs, CsListed,
           OpenSpi, ProbeSpi, CsScanned, SpiScanned, OpenNamed, BindAccel, BindGyro, Return,
           SpiPhase, OneBus
      <4> QED
        BY <4>1, <4>2, <4>3
    <3> QED
      BY <3>1
  <2> QED
    BY <2>1, <2>2, <2>3
<1>3. info'.interface = "SPI" /\ found' # {} => I2cMissed'
  <2>1. CASE pc \in SpiPhase
    BY <1>1, <2>1 DEF Missed
  <2>2. CASE info' = info /\ found' = found
    BY <1>1, <2>2 DEF Missed, NothingOverlooked
  <2>3. CASE ProbeI2c
    <3>1. pc' = "probe_i2c"
      BY <2>3 DEF ProbeI2c
    <3> QED
      BY <3>1 DEF Heard, I2cPhase
  <2>4. CASE pc \notin SpiPhase /\ ~ProbeI2c
    <3>1. (info' = info /\ found' = found) \/ found' = {}
      <4>1. CASE CheckNamed
        BY <4>1 DEF CheckNamed
      <4>2. CASE ~CheckNamed
        BY <2>4, <4>2 DEF Next, OpenDirFails, OpenDirI2c, ListI2c, I2cListed, OpenI2c, CloseI2c,
           I2cScanned, OpenDirSpi, ListSpi, SpiListed, NextSpi, OpenDirCs, ListCs, CsListed,
           OpenSpi, ProbeSpi, CsScanned, SpiScanned, OpenNamed, BindAccel, BindGyro,
           SpiPhase, OneBus
      <4> QED
        BY <4>1, <4>2
    <3> QED
      BY <2>2, <3>1
  <2> QED
    BY <2>1, <2>3, <2>4
<1>4. ret' = "NO_DEV_ERR" => I2cMissed' /\ SpiMissed'
  <2>1. pc # "done"
    BY DEF Next, OpenDirFails, OpenDirI2c, ListI2c, I2cListed, OpenI2c, ProbeI2c,
       CloseI2c, I2cScanned, OpenDirSpi, ListSpi, SpiListed, NextSpi, OpenDirCs, ListCs,
       CsListed, OpenSpi, ProbeSpi, CsScanned, SpiScanned, OpenNamed, CheckNamed,
       BindAccel, BindGyro
  <2>2. ret = "none"
    BY <2>1 DEF Opened
  <2>3. CASE SpiScanned
    <3>1. pc = "next_spi" /\ (found = Device => ret' = ret)
      BY <2>3 DEF SpiScanned
    <3>2. ASSUME found # Device
          PROVE  I2cMissed' /\ SpiMissed'
      <4>1. list = <<>>
        BY <2>3, <3>2 DEF SpiScanned
      <4>2. I2cMissed /\ SpiMissed
        BY <3>1, <3>2, <4>1, SpiEnds DEF Missed, SpiPhase
      <4> QED
        BY <1>1, <4>2
    <3> QED
      BY <2>2, <3>1, <3>2
  <2>4. CASE CheckNamed
    BY <2>2, <2>4, CheckedNamed
  <2>5. CASE ~(SpiScanned \/ CheckNamed)
    <3>1. ret' = ret \/ ret' \in {"OK", "OPEN_DIR_ERR", "OPEN_FILE_ERR"}
      BY <2>5 DEF Next, OpenDirFails, OpenDirI2c, ListI2c, I2cListed, OpenI2c, ProbeI2c,
       CloseI2c, I2cScanned, OpenDirSpi, ListSpi, SpiListed, NextSpi, OpenDirCs, ListCs,
       CsListed, OpenSpi, ProbeSpi, CsScanned, OpenNamed, BindAccel, BindGyro, Return
    <3> QED
      BY <2>2, <3>1
  <2> QED
    BY <2>3, <2>4, <2>5
<1> QED
  BY <1>2, <1>3, <1>4 DEF Missed, NothingOverlooked

LEMMA LeftOpenStep ==
  ASSUME TypeOK, Opened, Heard, Next
  PROVE  NothingLeftOpen'
<1>1. CASE pc' # "done"
  BY <1>1 DEF NothingLeftOpen
<1>2. CASE OpenDirFails
  BY <1>2 DEF OpenDirFails, Return, Opened, NothingLeftOpen
<1>3. CASE SpiScanned
  BY <1>3 DEF SpiScanned, Return, Opened, NothingLeftOpen
<1>4. CASE OpenNamed
  BY <1>4 DEF OpenNamed, Return, Opened, NothingLeftOpen
<1>5. CASE CheckNamed /\ pc' = "done"
  <2>1. open = 2 /\ open' = open - 2
    BY <1>5 DEF CheckNamed, Opened
  <2>2. ret' = "CHIP_ID_ERR"
    BY <1>5, CheckedNamed
  <2> QED
    BY <2>1, <2>2 DEF NothingLeftOpen
<1>6. CASE BindAccel
  BY <1>6 DEF BindAccel, Return, Opened, NothingLeftOpen
<1>7. CASE BindGyro
  BY <1>7 DEF BindGyro, Return, Opened, NothingLeftOpen
<1>8. CASE ~(OpenDirFails \/ SpiScanned \/ OpenNamed \/ CheckNamed \/ BindAccel \/ BindGyro)
  <2>1. CASE ProbeI2c \/ ProbeSpi
    BY <2>1 DEF ProbeI2c, ProbeSpi, NothingLeftOpen
  <2>2. CASE ~(ProbeI2c \/ ProbeSpi)
    <3>1. pc' # "done"
      BY <1>8, <2>2 DEF Next, OpenDirI2c, ListI2c, I2cListed, OpenI2c, CloseI2c, I2cScanned,
         OpenDirSpi, ListSpi, SpiListed, NextSpi, OpenDirCs, ListCs, CsListed, OpenSpi, CsScanned
    <3> QED
      BY <3>1 DEF NothingLeftOpen
  <2> QED
    BY <2>1, <2>2
<1> QED
  BY <1>1, <1>2, <1>3, <1>4, <1>5, <1>6, <1>7, <1>8

LEMMA NamedFacts ==
  ASSUME NEW a \in Location, NEW g \in Location, NEW i \in Interface, g[1] = i,
         info = Named(i, a, g)
  PROVE  /\ InfoOK /\ info.interface = i
         /\ Where("gyro", i) = g /\ Where("accel", i) = <<i>> \o Tail(a)
<1>1. Tail(a) \in Two /\ Tail(g) \in Two /\ <<i>> \o Tail(g) = g
  BY LocationForm
<1>2. Unset \in Two
  BY DEF Unset, Two
<1>3. InfoOK
  BY <1>1, <1>2 DEF Named, InfoOK
<1>4. info.interface = i /\ info.accel = Tail(a) /\ info.gyro[i] = Tail(g)
  BY DEF Named
<1> QED
  BY <1>1, <1>3, <1>4 DEF Where

LEMMA InitKnown ==
  ASSUME Init
  PROVE  /\ InfoOK /\ Asked
         /\ asked \in [Device -> Location \union {<<>>}]
         /\ overlay \in Location \union {<<>>}
<1>1. DOMAIN layout \subseteq Location /\ pc = "start"
  BY BusScanAssumption DEF Init
<1>2. CASE /\ info = [interface |-> "AUTO", accel |-> Unset,
                      gyro |-> [i \in Interface |-> Unset]]
           /\ asked = [d \in Device |-> <<>>] /\ overlay = <<>>
  BY <1>2 DEF InfoOK, Asked, Unset, Two, Device
<1>3. ASSUME NEW a \in DOMAIN layout, NEW g \in DOMAIN layout, a[1] = g[1],
             asked = [d \in Device |-> IF d = "accel" THEN a ELSE g],
             \/ overlay = <<>> /\ info = Named(a[1], a, g)
             \/ /\ a[1] = "I2C"
                /\ overlay \in {s \in DOMAIN layout : s[1] = "SPI"}
                /\ info = NamedByPython(g, overlay)
      PROVE  /\ InfoOK /\ Asked
             /\ asked \in [Device -> Location \union {<<>>}]
             /\ overlay \in Location \union {<<>>}
  <2>1. a \in Location /\ g \in Location /\ asked["accel"] = a /\ asked["gyro"] = g
    BY <1>1, <1>3 DEF Device
  <2>2. a[1] \in Interface /\ <<a[1]>> \o Tail(a) = a
    BY <2>1, LocationForm
  <2>3. CASE overlay = <<>> /\ info = Named(a[1], a, g)
    <3>1. /\ InfoOK /\ info.interface = a[1] /\ Where("gyro", a[1]) = g
          /\ Where("accel", a[1]) = <<a[1]>> \o Tail(a)
      BY <1>3, <2>1, <2>2, <2>3, NamedFacts
    <3> QED
      BY <1>1, <1>3, <2>1, <2>2, <2>3, <3>1 DEF Asked
  <2>4. CASE /\ a[1] = "I2C"
             /\ overlay \in {s \in DOMAIN layout : s[1] = "SPI"}
             /\ info = NamedByPython(g, overlay)
    <3>1. /\ overlay \in Location /\ info = Named("I2C", overlay, g) /\ "I2C" \in Interface
          /\ g[1] = "I2C"
      BY <1>1, <1>3, <2>4 DEF NamedByPython, Interface
    <3>2. /\ InfoOK /\ info.interface = "I2C" /\ Where("gyro", "I2C") = g
          /\ Where("accel", "I2C") = <<"I2C">> \o Tail(overlay)
      BY <2>1, <3>1, NamedFacts
    <3>3. overlay # <<>>
      <4>1. overlay = <<overlay[1], overlay[2], overlay[3]>>
        BY <3>1, LocationForm
      <4>2. <<overlay[1], overlay[2], overlay[3]>> # <<>>
        OBVIOUS
      <4> QED
        BY <4>1, <4>2
    <3> QED
      BY <1>1, <1>3, <2>1, <3>1, <3>2, <3>3 DEF Asked
  <2> QED
    BY <1>3, <2>3, <2>4
<1> QED
  BY <1>2, <1>3 DEF Init

LEMMA InitBusInv == Init => BusInv
<1> SUFFICES ASSUME Init
             PROVE  BusInv
  OBVIOUS
<1>1. /\ pc = "start" /\ unread = {} /\ list = <<>> /\ csList = <<>> /\ addr = FirstAddr
      /\ found = {} /\ open = 0 /\ ret = "none" /\ faults = [i \in Interface |-> 0]
      /\ bound = [d \in Device |-> <<>>] /\ dir \in Directory /\ layout \in Layout
  BY DEF Init
<1>2. TypeOK
  <2>1. dir \in [i2c : SUBSET (Int \X Nat), spi : SUBSET (Int \X Int)]
    BY <1>1, BusScanAssumption
  <2>2. list \in Seq(Byte) /\ csList \in Seq(Byte)
    BY <1>1, EmptySeq
  <2>3. info.interface \in Interface \union {"AUTO"}
    BY InitKnown DEF InfoOK
  <2>4. addr \in FirstAddr .. LastAddr + 1 /\ faults \in [Interface -> 0 .. MaxFaults]
    BY <1>1, BusScanAssumption
  <2> QED
    BY <1>1, <2>1, <2>2, <2>3, <2>4, InitKnown DEF TypeOK
<1>3. Opened /\ Heard /\ Reliable /\ NothingLeftOpen
  BY <1>1 DEF Opened, Heard, Reliable, NothingLeftOpen, I2cPhase, SpiPhase, OneBus
<1>4. I2cLists /\ SpiLists
  BY <1>1 DEF I2cLists, SpiLists, I2cPhase, OneBus
<1>5. I2cStill /\ SpiStill
  BY <1>1 DEF I2cStill, SpiStill, I2cAhead, SpiAhead
<1>6. Missed
  BY <1>1 DEF Missed, NothingOverlooked, SpiPhase, OneBus
<1> QED
  BY <1>2, <1>3, <1>4, <1>5, <1>6, InitKnown DEF BusInv

LEMMA StepBusInv == BusInv /\ [Next]_vars => BusInv'
<1> SUFFICES ASSUME BusInv, [Next]_vars
             PROVE  BusInv'
  OBVIOUS
<1> USE DEF BusInv
<1>1. CASE Next
  <2>1. Heard' /\ Reliable'
    BY <1>1, HeardStep
  <2>2. TypeOK' /\ InfoOK' /\ Opened' /\ Asked'
    BY <1>1, TypeStep, InfoStep, OpenedStep, AskedStep
  <2>3. I2cLists' /\ SpiLists' /\ I2cStill' /\ SpiStill'
    BY <1>1, I2cListsStep, SpiListsStep, I2cStillStep, SpiStillStep
  <2>4. Missed' /\ NothingLeftOpen'
    BY <1>1, <2>1, MissedStep, LeftOpenStep
  <2> QED
    BY <2>1, <2>2, <2>3, <2>4
<1>2. CASE UNCHANGED vars
  <2> USE <1>2 DEF vars
  <2>1. TypeOK' /\ InfoOK' /\ Opened' /\ NothingLeftOpen'
    BY DEF TypeOK, InfoOK, Opened, NothingLeftOpen
  <2>2. Asked' /\ Heard' /\ Reliable'
    BY DEF Asked, Heard, Reliable, Where, At
  <2>3. I2cLists' /\ SpiLists'
    BY DEF I2cLists, SpiLists, I2cWraps, SpiWraps
  <2>4. I2cStill' /\ SpiStill'
    BY DEF I2cStill, SpiStill, I2cWraps, SpiWraps, Reachable, Exists, I2cAhead, SpiAhead, Where
  <2>5. Missed'
    BY DEF Missed, NothingOverlooked, I2cMissed, SpiMissed, Reachable, Exists
  <2> QED
    BY <2>1, <2>2, <2>3, <2>4, <2>5
<1> QED
  BY <1>1, <1>2

-----------------------------------------------------------------------------
(* The invariant of rdk_imu_bus_init: what the scan has not found is ahead *)
(* of it, what it has found is where bus_info says.                        *)
THEOREM BusInvariant == Spec => []BusInv
<1>1. Init => BusInv
  BY InitBusInv
<1>2. BusInv /\ [Next]_vars => BusInv'
  BY StepBusInv
<1> QED
  BY <1>1, <1>2, PTL DEF Spec

(* Every variable keeps its type: the lists stay lists of bytes, the       *)
(* address does not leave its range, no more than two descriptors are open *)
(* and what is bound is a location.                                        *)
THEOREM BusTypesCorrect == Spec => []TypeOK
<1>1. BusInv => TypeOK
  BY DEF BusInv
<1> QED
  BY <1>1, BusInvariant, PTL

(* From the binding on bus_info is reliable, and a call that succeeds has  *)
(* bound each device to the place its chip has answered from.              *)
THEOREM BusInfoReliable == Spec => []Reliable
<1>1. BusInv => Reliable
  BY DEF BusInv
<1> QED
  BY <1>1, BusInvariant, PTL

(* Locations a caller names in bus_info itself are bound, both of them,    *)
(* and never replaced by a scan.                                           *)
THEOREM NamedLocationsTaken == Spec => []NamedTaken
<1>1. BusInv => NamedTaken
  <2> SUFFICES ASSUME BusInv, ret = "OK", asked["accel"] # <<>>, overlay = <<>>
               PROVE  bound = asked
    BY DEF NamedTaken
  <2>1. \A d \in Device : bound[d] = asked[d]
    BY DEF BusInv, Asked, Reliable, Device
  <2>2. /\ bound \in [Device -> Location \union {<<>>}]
        /\ asked \in [Device -> Location \union {<<>>}]
    BY DEF BusInv, TypeOK
  <2> QED
    BY <2>1, <2>2
<1> QED
  BY <1>1, BusInvariant, PTL

(* SPI is scanned only when I2C did not have both chips, a transfer failed *)
(* or the list was full; the scan gives up only if SPI, too, had a reason. *)
THEOREM ScanOverlooksNothing == Spec => []NothingOverlooked
<1>1. BusInv => NothingOverlooked
  BY DEF BusInv, Missed
<1> QED
  BY <1>1, BusInvariant, PTL

(* Without failed transfers the scan takes, of several chips on I2C, the   *)
(* one on the lowest bus and there the lowest address, in whatever order   *)
(* readdir names the buses.                                                *)
THEOREM FirstCandidateTaken == Spec => []FirstTaken
<1>1. BusInv => FirstTaken
  <2> SUFFICES ASSUME BusInv, ret = "OK", found = Device, info.interface = "I2C",
                      faults["I2C"] = 0, ~Wraps(Buses(dir.i2c)),
                      NEW d \in Device, NEW l \in Reachable(d, "I2C")
               PROVE  NotAfter(bound[d], l)
    BY DEF FirstTaken, NotAfter
  <2>1. NotAfter(Where(d, "I2C"), l)
    BY DEF BusInv, I2cStill, I2cWraps
  <2>2. bound[d] = Where(d, "I2C")
    BY DEF BusInv, Reliable
  <2> QED
    BY <2>1, <2>2
<1> QED
  BY <1>1, BusInvariant, PTL

(* A call that returns has closed every descriptor it opened to look, and  *)
(* on success keeps two; only OPEN_FILE_ERR may leave one behind.          *)
THEOREM DescriptorsClosed == Spec => []NothingLeftOpen
<1>1. BusInv => NothingLeftOpen
  BY DEF BusInv
<1> QED
  BY <1>1, BusInvariant, PTL
=============================================================================
