--------------------------- MODULE RingFifoProofs ---------------------------
(***************************************************************************)
(* Proofs about the software FIFO, for every length, width and sample set: *)
(* it is type correct, and it implements the bounded queue of SampleQueue. *)
(* Both hold for lengths other than zero, which rdk_imu_fifo_init accepts  *)
(* too: with it the buffer has no slot and the mask is all ones.           *)
(***************************************************************************)
EXTENDS RingFifo, SequenceTheorems, TLAPS

(* A value below twice the modulus wraps at most once. *)
LEMMA WrapUp ==
  ASSUME NEW s \in Nat \ {0}, NEW a \in 0 .. 2 * s - 1
  PROVE  a % s = IF a < s THEN a ELSE a - s
OBVIOUS

(* A difference of two residues wraps at most once. *)
LEMMA WrapDown ==
  ASSUME NEW s \in Nat \ {0}, NEW h \in 0 .. s - 1, NEW t \in 0 .. s - 1
  PROVE  (h - t) % s = IF h >= t THEN h - t ELSE h - t + s
OBVIOUS

(* The two forms in which the code's indices wrap. *)
LEMMA Advance ==
  ASSUME NEW n \in Nat \ {0}, NEW a \in 0 .. n - 1
  PROVE  /\ (a + 1) % n = IF a + 1 < n THEN a + 1 ELSE a + 1 - n
         /\ (a + 1) % n \in 0 .. n - 1
OBVIOUS

LEMMA SlotAt ==
  ASSUME NEW n \in Nat \ {0}, NEW t \in 0 .. n - 1, NEW i \in 1 .. n
  PROVE  /\ (t + i - 1) % n = IF t + i - 1 < n THEN t + i - 1 ELSE t + i - 1 - n
         /\ (t + i - 1) % n \in 0 .. n - 1
OBVIOUS

(* Outside an allocated FIFO every index is zero, and so is its count.     *)
LEMMA Modulo1 == 0 % 1 = 0
OBVIOUS

-----------------------------------------------------------------------------
(* The buffer rdk_imu_fifo_init allocates is not the null pointer.         *)
LEMMA FreshBuffer ==
  ASSUME NEW n \in Length \ {0}
  PROVE  /\ [i \in 0 .. n - 1 |-> Zero] # NoBuffer
         /\ (n - 1) % Word = n - 1
         /\ n \in Nat \ {0}
<1>1. n \in 1 .. Word /\ Word \in Nat
  BY LengthAssumption
<1>2. (n - 1) % Word = n - 1
  <2>1. n - 1 \in 0 .. Word - 1 /\ Word \in Nat \ {0}
    BY <1>1
  <2> HIDE DEF Word
  <2>2. QED
    BY <2>1, WrapUp
<1>3. [i \in 0 .. n - 1 |-> Zero] \in [0 .. n - 1 -> Sample \union {Zero}]
  OBVIOUS
<1>4. QED
  BY <1>1, <1>2, <1>3, SampleAssumption

(* Writing a slot keeps an allocated buffer allocated.                     *)
LEMMA WrittenBuffer ==
  ASSUME NEW n \in Length \ {0}, NEW b \in [0 .. n - 1 -> Packet],
         NEW i \in 0 .. n - 1, NEW x \in Packet
  PROVE  /\ [b EXCEPT ![i] = x] \in [0 .. n - 1 -> Packet]
         /\ [b EXCEPT ![i] = x] # NoBuffer
BY SampleAssumption DEF Packet

LEMMA LengthIsNatural == Length \subseteq Nat
<1> HIDE DEF Word
<1>1. QED
  BY LengthAssumption

(* In an allocated FIFO an index that leaves the buffer wraps to its start. *)
LEMMA Masking ==
  ASSUME TypeOK, Allocated
  PROVE  /\ size \in Nat \ {0}
         /\ \A y \in 0 .. 2 * size - 1 :
              Masked(y) = IF y < size THEN y ELSE y - size
         /\ Used = IF head >= tail THEN head - tail ELSE head - tail + size
<1>1. /\ size \in Nat \ {0} /\ mask + 1 = size
      /\ head \in 0 .. size - 1 /\ tail \in 0 .. size - 1
  <2>1. size \in Length \ {0} /\ mask = size - 1
        /\ head \in 0 .. size - 1 /\ tail \in 0 .. size - 1
    BY DEF TypeOK
  <2>2. QED
    BY <2>1, LengthIsNatural
<1>2. ASSUME NEW y \in Int PROVE Masked(y) = y % size
  BY <1>1 DEF Masked
<1>3. ASSUME NEW y \in 0 .. 2 * size - 1
      PROVE  Masked(y) = IF y < size THEN y ELSE y - size
  BY <1>1, <1>2, WrapUp
<1>4. Used = (head - tail) % size
  BY <1>1, <1>2 DEF Used
<1>5. QED
  BY <1>1, <1>3, <1>4, WrapDown

-----------------------------------------------------------------------------
(* Each operation keeps the types. *)

LEMMA InitTypeOK == Init => TypeOK
BY DEF Init, TypeOK, Allocated, Mode, Packet

LEMMA StepTypeOK ==
  ASSUME 0 \notin Length, TypeOK, [Next]_vars
  PROVE  TypeOK'
<1> USE DEF Mode
<1>1. ASSUME NEW n \in Length, NEW m \in Mode, FifoInit(n, m)
      PROVE  TypeOK'
  <2>1. n \in Length \ {0} /\ n \in Nat \ {0}
    BY FreshBuffer
  <2>2. CASE UNCHANGED ring
    BY <1>1, <2>2 DEF FifoInit, TypeOK, Allocated, ring
  <2>3. CASE /\ buffer' = [i \in 0 .. n - 1 |-> Zero]
             /\ size' = n /\ mask' = (n - 1) % Word
             /\ head' = 0 /\ tail' = 0 /\ mode' = m
             /\ UNCHANGED <<out, count>>
    <3>1. buffer' \in [0 .. n - 1 -> Packet] /\ Allocated' /\ mask' = n - 1
      BY <2>1, <2>3, FreshBuffer DEF Allocated, Packet
    <3>2. QED
      BY <2>1, <2>3, <3>1 DEF TypeOK
  <2>4. QED
    BY <1>1, <2>2, <2>3 DEF FifoInit
<1>2. CASE FifoDeinit
  BY <1>2 DEF FifoDeinit, TypeOK, Allocated
<1>3. ASSUME NEW x \in Sample, FifoPush(x)
      PROVE  TypeOK'
  <2>1. /\ Allocated /\ size \in Length \ {0} /\ mask = size - 1
        /\ buffer \in [0 .. size - 1 -> Packet]
        /\ head \in 0 .. size - 1 /\ tail \in 0 .. size - 1
        /\ size \in Nat \ {0}
    BY <1>3, LengthIsNatural DEF FifoPush, TypeOK
  <2>2. CASE UNCHANGED ring
    BY <1>3, <2>2 DEF FifoPush, TypeOK, Allocated, ring
  <2>3. CASE /\ tail' = IF IsFull THEN Masked(tail + 1) ELSE tail
             /\ buffer' = [buffer EXCEPT ![head] = x]
             /\ head' = Masked(head + 1)
             /\ UNCHANGED <<size, mask, mode, out, count>>
    <3>1. buffer' \in [0 .. size - 1 -> Packet] /\ Allocated'
      BY <2>1, <2>3, WrittenBuffer DEF Allocated, Packet
    <3>2. Masked(tail + 1) \in 0 .. size - 1 /\ Masked(head + 1) \in 0 .. size - 1
      BY <2>1, Masking
    <3>3. QED
      BY <2>1, <2>3, <3>1, <3>2 DEF TypeOK
  <2>4. QED
    BY <1>3, <2>2, <2>3 DEF FifoPush
<1>4. CASE FifoPop
  <2>1. CASE UNCHANGED <<ring, out, count>>
    BY <2>1 DEF TypeOK, Allocated, ring
  <2>2. CASE /\ ~IsEmpty
             /\ IF tail \in DOMAIN buffer THEN out' = buffer[tail] ELSE out' \in Packet
             /\ tail' = Masked(tail + 1)
             /\ UNCHANGED <<buffer, size, mask, head, mode, count>>
    <3>1. /\ Allocated /\ size \in Length \ {0} /\ mask = size - 1
          /\ buffer \in [0 .. size - 1 -> Packet]
          /\ tail \in 0 .. size - 1 /\ size \in Nat \ {0}
      BY <2>2, LengthIsNatural DEF TypeOK, IsEmpty
    <3>2. Masked(tail + 1) \in 0 .. size - 1
      BY <3>1, Masking
    <3>3. out' \in Packet
      BY <2>2, <3>1
    <3>4. QED
      BY <2>2, <3>1, <3>2, <3>3 DEF TypeOK, Allocated
  <2>3. QED
    BY <1>4, <2>1, <2>2 DEF FifoPop
<1>5. CASE FifoCount
  <2>1. Used \in Nat
    <3>1. CASE Allocated
      <4>1. head \in 0 .. size - 1 /\ tail \in 0 .. size - 1 /\ size \in Nat \ {0}
        BY <3>1, Masking DEF TypeOK
      <4>2. QED
        BY <3>1, <4>1, Masking
    <3>2. CASE ~Allocated
      BY <3>2, Modulo1 DEF TypeOK, Used, Masked
    <3>3. QED
      BY <3>1, <3>2
  <2>2. QED
    BY <1>5, <2>1 DEF FifoCount, TypeOK, Allocated, ring
<1>6. CASE UNCHANGED vars
  BY <1>6 DEF vars, TypeOK, Allocated
<1>7. QED
  BY <1>1, <1>2, <1>3, <1>4, <1>5, <1>6 DEF Next

(* Whatever length other than zero a configuration asks for, the next push *)
(* and the next pop index a slot inside the buffer that was allocated.     *)
THEOREM TypeCorrect ==
  ASSUME 0 \notin Length
  PROVE  Spec => []TypeOK
<1>1. Init => TypeOK
  BY InitTypeOK
<1>2. TypeOK /\ [Next]_vars => TypeOK'
  BY StepTypeOK
<1>3. QED
  BY <1>1, <1>2, PTL DEF Spec

-----------------------------------------------------------------------------
(***************************************************************************)
(* The refinement.  Live(b, n, h, t) is the queue a ring of n slots b with *)
(* head h and tail t stands for.  The lemmas say what each index movement  *)
(* of the code does to it.                                                 *)
(***************************************************************************)
Live(b, n, h, t) == [i \in 1 .. (h - t) % n |-> b[(t + i - 1) % n]]

IsRing(b, n, h, t) ==
  /\ n \in Nat \ {0}
  /\ b \in [0 .. n - 1 -> Packet]
  /\ h \in 0 .. n - 1
  /\ t \in 0 .. n - 1

(* c is the ring b after x has been written to the slot h. *)
Stores(c, b, n, h, x) ==
  /\ c \in [0 .. n - 1 -> Packet]
  /\ c[h] = x
  /\ \A i \in (0 .. n - 1) \ {h} : c[i] = b[i]

LEMMA LiveSequence ==
  ASSUME NEW b, NEW n, NEW h, NEW t, IsRing(b, n, h, t)
  PROVE  LET q == Live(b, n, h, t)
             u == IF h >= t THEN h - t ELSE h - t + n
         IN  /\ q \in Seq(Packet)
             /\ u \in 0 .. n - 1
             /\ Len(q) = u
             /\ \A i \in 1 .. u :
                  q[i] = b[IF t + i - 1 < n THEN t + i - 1 ELSE t + i - 1 - n]
<1> DEFINE u == IF h >= t THEN h - t ELSE h - t + n
           at(i) == IF t + i - 1 < n THEN t + i - 1 ELSE t + i - 1 - n
<1> USE DEF IsRing
<1>1. (h - t) % n = u /\ u \in 0 .. n - 1
  BY WrapDown
<1>2. ASSUME NEW i \in 1 .. u
      PROVE  (t + i - 1) % n = at(i) /\ at(i) \in 0 .. n - 1
  <2>1. i \in 1 .. n
    BY <1>1
  <2>2. QED
    BY <2>1, <1>1, SlotAt
<1>3. Live(b, n, h, t) = [i \in 1 .. u |-> b[at(i)]]
  BY <1>1, <1>2 DEF Live
<1>4. \A i \in 1 .. u : b[at(i)] \in Packet
  BY <1>2
<1>5. [i \in 1 .. u |-> b[at(i)]] \in Seq(Packet) /\ Len([i \in 1 .. u |-> b[at(i)]]) = u
  <2> HIDE DEF at, u
  <2>1. u \in Nat
    BY <1>1
  <2>2. QED
    BY <2>1, <1>4
<1>6. QED
  BY <1>1, <1>3, <1>5

(* rdk_imu_fifo_is_empty says whether the queue is empty. *)
LEMMA LiveEmpty ==
  ASSUME NEW b, NEW n, NEW h, NEW t, IsRing(b, n, h, t)
  PROVE  (h = t) <=> (Live(b, n, h, t) = <<>>)
<1>1. (h = t) <=> (Len(Live(b, n, h, t)) = 0)
  BY LiveSequence DEF IsRing
<1>2. Live(b, n, h, t) \in Seq(Packet)
  BY LiveSequence
<1>3. QED
  BY <1>1, <1>2, EmptySeq

(* rdk_imu_fifo_is_full says whether all slots but one are in use. *)
LEMMA LiveFull ==
  ASSUME NEW b, NEW n, NEW h, NEW t, IsRing(b, n, h, t)
  PROVE  ((h + 1) % n = t) <=> (Len(Live(b, n, h, t)) >= n - 1)
<1>1. (h + 1) % n = IF h + 1 < n THEN h + 1 ELSE h + 1 - n
  BY Advance DEF IsRing
<1>2. Len(Live(b, n, h, t)) = IF h >= t THEN h - t ELSE h - t + n
  BY LiveSequence
<1>3. QED
  BY <1>1, <1>2 DEF IsRing

(* Writing the slot at head and advancing head appends. *)
LEMMA LiveAppend ==
  ASSUME NEW b, NEW n, NEW h, NEW t, IsRing(b, n, h, t), (h + 1) % n # t,
         NEW x \in Packet, NEW c, Stores(c, b, n, h, x)
  PROVE  Live(c, n, (h + 1) % n, t) = Append(Live(b, n, h, t), x)
<1> DEFINE k == (h + 1) % n
           u == IF h >= t THEN h - t ELSE h - t + n
           q == Live(b, n, h, t)
           r == Live(c, n, k, t)
<1>1. k = (IF h + 1 < n THEN h + 1 ELSE h + 1 - n) /\ k \in 0 .. n - 1
  BY Advance DEF IsRing, Stores
<1>2. IsRing(c, n, k, t)
  BY <1>1 DEF IsRing, Stores
<1>3. /\ q \in Seq(Packet) /\ Len(q) = u /\ u \in 0 .. n - 1
      /\ \A i \in 1 .. u : q[i] = b[IF t + i - 1 < n THEN t + i - 1 ELSE t + i - 1 - n]
  BY LiveSequence
<1>4. /\ r \in Seq(Packet) /\ Len(r) = u + 1
      /\ \A i \in 1 .. u + 1 :
           r[i] = c[IF t + i - 1 < n THEN t + i - 1 ELSE t + i - 1 - n]
  <2>1. u + 1 = IF k >= t THEN k - t ELSE k - t + n
    <3> HIDE DEF k
    <3>1. QED
      BY <1>1 DEF IsRing, Stores
  <2>2. /\ r \in Seq(Packet) /\ Len(r) = IF k >= t THEN k - t ELSE k - t + n
        /\ \A i \in 1 .. (IF k >= t THEN k - t ELSE k - t + n) :
             r[i] = c[IF t + i - 1 < n THEN t + i - 1 ELSE t + i - 1 - n]
    <3> HIDE DEF k
    <3>1. QED
      BY <1>2, LiveSequence
  <2>3. QED
    BY <2>1, <2>2
<1> HIDE DEF k, q, r
<1>5. ASSUME NEW i \in 1 .. u
      PROVE  r[i] = q[i]
  <2>1. (IF t + i - 1 < n THEN t + i - 1 ELSE t + i - 1 - n) \in (0 .. n - 1) \ {h}
    BY <1>3 DEF IsRing, Stores
  <2>2. QED
    BY <1>3, <1>4, <2>1 DEF IsRing, Stores
<1>6. r[u + 1] = x
  <2>1. (IF t + (u + 1) - 1 < n THEN t + (u + 1) - 1 ELSE t + (u + 1) - 1 - n) = h
    BY <1>3 DEF IsRing, Stores
  <2>2. QED
    BY <1>3, <1>4, <2>1 DEF IsRing, Stores
<1>7. /\ Append(q, x) \in Seq(Packet) /\ Len(Append(q, x)) = u + 1
      /\ \A i \in 1 .. u : Append(q, x)[i] = q[i]
      /\ Append(q, x)[u + 1] = x
  BY <1>3, AppendProperties
<1>8. \A i \in 1 .. Len(r) : r[i] = Append(q, x)[i]
  <2>1. ASSUME NEW i \in 1 .. u + 1 PROVE r[i] = Append(q, x)[i]
    <3>1. i \in 1 .. u \/ i = u + 1
      BY <1>3
    <3>2. QED
      BY <3>1, <1>5, <1>6, <1>7
  <2>2. QED
    BY <2>1, <1>4
<1>9. r = Append(q, x)
  BY <1>4, <1>7, <1>8, SeqEqual
<1>10. QED
  BY <1>9 DEF r, q, k

(* Advancing tail over a queue that is not empty removes its head.         *)
LEMMA LiveTail ==
  ASSUME NEW b, NEW n, NEW h, NEW t, IsRing(b, n, h, t), h # t
  PROVE  /\ Live(b, n, h, (t + 1) % n) = Tail(Live(b, n, h, t))
         /\ b[t] = Head(Live(b, n, h, t))
<1> DEFINE k == (t + 1) % n
           u == IF h >= t THEN h - t ELSE h - t + n
           q == Live(b, n, h, t)
           r == Live(b, n, h, k)
<1>1. k = (IF t + 1 < n THEN t + 1 ELSE t + 1 - n) /\ k \in 0 .. n - 1
  BY Advance DEF IsRing
<1>2. IsRing(b, n, h, k)
  BY <1>1 DEF IsRing
<1>3. /\ q \in Seq(Packet) /\ Len(q) = u /\ u \in 1 .. n - 1
      /\ \A i \in 1 .. u : q[i] = b[IF t + i - 1 < n THEN t + i - 1 ELSE t + i - 1 - n]
  <2>1. u # 0
    BY DEF IsRing
  <2>2. QED
    BY <2>1, LiveSequence
<1>4. /\ r \in Seq(Packet) /\ Len(r) = u - 1
      /\ \A i \in 1 .. u - 1 :
           r[i] = b[IF k + i - 1 < n THEN k + i - 1 ELSE k + i - 1 - n]
  <2>1. u - 1 = IF h >= k THEN h - k ELSE h - k + n
    <3> HIDE DEF k
    <3>1. QED
      BY <1>1 DEF IsRing
  <2>2. QED
    BY <1>2, <2>1, LiveSequence
<1> HIDE DEF k, q, r
<1>5. q # <<>>
  BY <1>3, EmptySeq
<1>6. /\ Tail(q) \in Seq(Packet) /\ Len(Tail(q)) = u - 1
      /\ \A i \in 1 .. u - 1 : Tail(q)[i] = q[i + 1]
  BY <1>3, <1>5, HeadTailProperties
<1>7. ASSUME NEW i \in 1 .. u - 1
      PROVE  r[i] = Tail(q)[i]
  <2>1. i + 1 \in 1 .. u
    BY <1>3
  <2>2. q[i + 1] = b[IF t + (i + 1) - 1 < n THEN t + (i + 1) - 1 ELSE t + (i + 1) - 1 - n]
    BY <1>3, <2>1
  <2>3. (IF k + i - 1 < n THEN k + i - 1 ELSE k + i - 1 - n)
          = (IF t + (i + 1) - 1 < n THEN t + (i + 1) - 1 ELSE t + (i + 1) - 1 - n)
    BY <1>1, <1>3 DEF IsRing
  <2>4. QED
    BY <1>4, <1>6, <2>2, <2>3
<1>8. r = Tail(q)
  BY <1>4, <1>6, <1>7, SeqEqual
<1>9. b[t] = Head(q)
  <2>1. q[1] = b[t]
    BY <1>3 DEF IsRing
  <2>2. Head(q) = q[1]
    OBVIOUS
  <2>3. QED
    BY <2>1, <2>2
<1>10. QED
  BY <1>8, <1>9 DEF r, q, k

(* Overwriting: the slot at head is written, and both indices advance.     *)
LEMMA LiveOverwrite ==
  ASSUME NEW b, NEW n, NEW h, NEW t, IsRing(b, n, h, t), (h + 1) % n = t,
         NEW x \in Packet, NEW c, Stores(c, b, n, h, x)
  PROVE  Live(c, n, (h + 1) % n, (t + 1) % n) = Tail(Append(Live(b, n, h, t), x))
<1> DEFINE k == (t + 1) % n
           q == Live(b, n, h, t)
           a == Append(q, x)
           r == Live(c, n, t, k)
<1>1. /\ n \in Nat \ {0} /\ h \in 0 .. n - 1 /\ t \in 0 .. n - 1
      /\ t = (IF h + 1 < n THEN h + 1 ELSE h + 1 - n)
  BY Advance DEF IsRing, Stores
<1>2. k = (IF t + 1 < n THEN t + 1 ELSE t + 1 - n) /\ k \in 0 .. n - 1
  BY <1>1, Advance
<1>3. IsRing(c, n, t, k)
  BY <1>2 DEF IsRing, Stores
<1>4. /\ q \in Seq(Packet) /\ Len(q) = n - 1
      /\ \A i \in 1 .. n - 1 : q[i] = b[IF t + i - 1 < n THEN t + i - 1 ELSE t + i - 1 - n]
  <2>1. n - 1 = IF h >= t THEN h - t ELSE h - t + n
    BY <1>1
  <2>2. QED
    BY <2>1, LiveSequence
<1>5. /\ r \in Seq(Packet) /\ Len(r) = n - 1
      /\ \A i \in 1 .. n - 1 : r[i] = c[IF k + i - 1 < n THEN k + i - 1 ELSE k + i - 1 - n]
  <2> HIDE DEF k
  <2>1. n - 1 = IF t >= k THEN t - k ELSE t - k + n
    BY <1>1, <1>2
  <2>2. QED
    BY <1>3, <2>1, LiveSequence
<1> HIDE DEF k, q, r
<1>6. /\ a \in Seq(Packet) /\ a # <<>> /\ Len(a) = n
      /\ \A i \in 1 .. n - 1 : a[i] = q[i]
      /\ a[n] = x
  <2>1. (n - 1) + 1 = n
    BY <1>1
  <2>2. QED
    BY <1>4, <2>1, AppendProperties
<1> HIDE DEF a
<1>7. /\ Tail(a) \in Seq(Packet) /\ Len(Tail(a)) = n - 1
      /\ \A i \in 1 .. n - 1 : Tail(a)[i] = a[i + 1]
  BY <1>6, HeadTailProperties
<1>8. ASSUME NEW i \in 1 .. n - 1
      PROVE  r[i] = a[i + 1]
  <2> DEFINE j == IF k + i - 1 < n THEN k + i - 1 ELSE k + i - 1 - n
  <2>1. r[i] = c[j] /\ j \in 0 .. n - 1
    BY <1>1, <1>2, <1>5
  <2>2. CASE i = n - 1
    <3>1. j = h
      BY <1>1, <1>2, <2>2
    <3>2. QED
      BY <1>6, <2>1, <2>2, <3>1, <1>1 DEF IsRing, Stores
  <2>3. CASE i # n - 1
    <3>1. i + 1 \in 1 .. n - 1
      BY <1>1, <2>3
    <3>2. j = (IF t + (i + 1) - 1 < n THEN t + (i + 1) - 1 ELSE t + (i + 1) - 1 - n) /\ j # h
      BY <1>1, <1>2, <2>3
    <3>3. c[j] = b[j]
      BY <2>1, <3>2 DEF IsRing, Stores
    <3>4. QED
      BY <1>4, <1>6, <2>1, <3>1, <3>2, <3>3
  <2>4. QED
    BY <2>2, <2>3
<1>9. r = Tail(a)
  BY <1>5, <1>7, <1>8, SeqEqual
<1>10. QED
  BY <1>9 DEF r, q, k, a

-----------------------------------------------------------------------------
(* The state of an allocated FIFO is a ring, and its content that ring's.  *)
LEMMA ContentIsLive ==
  ASSUME TypeOK, Allocated
  PROVE  /\ IsRing(buffer, size, head, tail)
         /\ Content = Live(buffer, size, head, tail)
         /\ mask + 1 = size
<1>1. IsRing(buffer, size, head, tail) /\ mask + 1 = size
  <2>1. /\ size \in Length \ {0} /\ mask = size - 1
        /\ buffer \in [0 .. size - 1 -> Packet]
        /\ head \in 0 .. size - 1 /\ tail \in 0 .. size - 1
    BY DEF TypeOK
  <2>2. QED
    BY <2>1, LengthIsNatural DEF IsRing
<1>2. QED
  BY <1>1 DEF Content, Used, Masked, Live

(* A FIFO without a buffer stands for the empty queue. *)
LEMMA ContentEmpty ==
  ASSUME TypeOK, ~Allocated
  PROVE  Content = <<>>
<1>1. Used = 0
  BY Modulo1 DEF TypeOK, Used, Masked
<1>2. QED
  BY <1>1 DEF Content

LEMMA InitRefines == Init => Queue!Init
<1> SUFFICES ASSUME Init PROVE Queue!Init
  OBVIOUS
<1>1. TypeOK /\ ~Allocated
  BY InitTypeOK DEF Init, Allocated
<1>2. Content = <<>>
  BY <1>1, ContentEmpty
<1>3. QED
  BY <1>1, <1>2 DEF Init, Queue!Init, Allocated

(* rdk_imu_fifo_init opens an empty queue of one sample less than its      *)
(* length, or refuses.                                                     *)
LEMMA FifoInitRefines ==
  ASSUME 0 \notin Length, TypeOK, TypeOK',
         NEW n \in Length, NEW m \in Mode, FifoInit(n, m)
  PROVE  Queue!Next
<1>1. ~Allocated /\ n \in Length \ {0}
  BY DEF FifoInit
<1>2. ASSUME NEW err \in {"ERR_PARAM", "FIFO_ALLOC_FAILED"}, ret' = err,
             UNCHANGED <<ring, out, count>>
      PROVE  Queue!Refuse(err)
  BY <1>1, <1>2 DEF Queue!Refuse, Content, Used, Masked, Allocated, ring
<1>3. CASE /\ buffer' = [i \in 0 .. n - 1 |-> Zero]
           /\ size' = n /\ mask' = (n - 1) % Word
           /\ head' = 0 /\ tail' = 0 /\ mode' = m /\ ret' = "OK"
           /\ UNCHANGED <<out, count>>
  <2>1. Allocated' /\ mask' = n - 1 /\ n \in Nat \ {0}
    BY <1>1, <1>3, FreshBuffer DEF Allocated
  <2>2. IsRing(buffer', n, 0, 0)
    BY <1>3, <2>1 DEF IsRing, Packet
  <2>3. Content' = Live(buffer', n, 0, 0)
    BY <1>3, <2>1 DEF Content, Used, Masked, Live
  <2>4. Content' = <<>>
    BY <2>2, <2>3, LiveEmpty
  <2>5. QED
    BY <1>1, <1>3, <2>1, <2>4 DEF Queue!Next, Queue!Open, Queue!Policies, Mode
<1>4. QED
  BY <1>2, <1>3 DEF FifoInit, Queue!Next

LEMMA FifoDeinitRefines ==
  ASSUME TypeOK, TypeOK', FifoDeinit
  PROVE  Queue!Next
<1>1. ~Allocated' /\ UNCHANGED <<mode, ret, out, count>>
  BY DEF FifoDeinit, Allocated
<1>2. Used' = 0
  BY Modulo1 DEF FifoDeinit, Used, Masked
<1>3. Content' = <<>>
  BY <1>2 DEF Content
<1>4. QED
  BY <1>1, <1>3 DEF Queue!Next, Queue!Close

(* rdk_imu_fifo_push offers its sample. *)
LEMMA FifoPushRefines ==
  ASSUME 0 \notin Length, TypeOK, TypeOK', NEW x \in Sample, FifoPush(x)
  PROVE  Queue!Offer(x)
<1> DEFINE q == Live(buffer, size, head, tail)
<1>1. /\ Allocated /\ IsRing(buffer, size, head, tail)
      /\ Content = q /\ mask + 1 = size /\ size - 1 \in Nat
  BY ContentIsLive DEF FifoPush, IsRing
<1>2. IsFull <=> Queue!IsFull(q, size - 1)
  BY <1>1, LiveFull DEF IsFull, Masked, Queue!IsFull
<1>3. q \in Seq(Packet)
  BY <1>1, LiveSequence
<1>4. CASE IsFull /\ mode = "DROP"
  <2>1. UNCHANGED <<ring, out, count>> /\ ret' = "FIFO_FULL"
    BY <1>4 DEF FifoPush
  <2>2. Content' = q /\ Allocated'
    BY <1>1, <2>1 DEF ring, Content, Used, Masked, Allocated
  <2>3. QED
    BY <1>1, <1>2, <1>4, <2>1, <2>2 DEF Queue!Offer, Queue!Put, ring
<1>5. CASE ~(IsFull /\ mode = "DROP")
  <2>1. /\ tail' = IF IsFull THEN Masked(tail + 1) ELSE tail
        /\ buffer' = [buffer EXCEPT ![head] = x]
        /\ head' = Masked(head + 1)
        /\ ret' = "OK"
        /\ UNCHANGED <<size, mask, mode, out, count>>
    BY <1>5 DEF FifoPush
  <2>2. Allocated'
    <3>1. size \in Length \ {0}
      BY <1>1 DEF TypeOK
    <3>2. QED
      BY <1>1, <2>1, <3>1, WrittenBuffer DEF Allocated, IsRing, Packet
  <2>3. Stores(buffer', buffer, size, head, x)
    BY <1>1, <2>1 DEF IsRing, Stores, Packet
  <2>4. Content' = Live(buffer', size, head', tail')
    BY <1>1, <2>1 DEF Content, Used, Masked, Live
  <2>5. CASE ~IsFull
    <3>1. /\ (head + 1) % size # tail /\ x \in Packet
          /\ head' = (head + 1) % size /\ tail' = tail
      BY <1>1, <2>1, <2>5 DEF IsFull, Masked, Packet
    <3>2. Live(buffer', size, (head + 1) % size, tail) = Append(q, x)
      BY <1>1, <2>3, <3>1, LiveAppend
    <3>3. Content' = Append(q, x)
      BY <2>1, <2>4, <3>1, <3>2
    <3>4. QED
      BY <1>1, <1>2, <2>1, <2>2, <2>5, <3>3 DEF Queue!Offer, Queue!Put, Queue!IsFull
  <2>6. CASE IsFull
    <3>1. /\ (head + 1) % size = tail /\ x \in Packet
          /\ head' = (head + 1) % size /\ tail' = (tail + 1) % size
      BY <1>1, <2>1, <2>6 DEF IsFull, Masked, Packet
    <3>2. Live(buffer', size, (head + 1) % size, (tail + 1) % size)
            = Tail(Append(q, x))
      BY <1>1, <2>3, <3>1, LiveOverwrite
    <3>3. Content' = Tail(Append(q, x))
      BY <2>1, <2>4, <3>1, <3>2
    <3>4. mode = "OVERWRITE"
      BY <1>5, <2>6 DEF TypeOK, Mode
    <3>5. QED
      BY <1>1, <1>2, <2>1, <2>2, <2>6, <3>3, <3>4 DEF Queue!Offer, Queue!Put, Queue!IsFull
  <2>7. QED
    BY <2>5, <2>6
<1>6. QED
  BY <1>4, <1>5

(* rdk_imu_fifo_pop takes. *)
LEMMA FifoPopRefines ==
  ASSUME 0 \notin Length, TypeOK, TypeOK', FifoPop
  PROVE  Queue!Take
<1> DEFINE q == Live(buffer, size, head, tail)
<1>1. CASE ~Allocated
  <2>1. IsEmpty
    BY <1>1 DEF TypeOK, IsEmpty
  <2>2. UNCHANGED <<ring, out, count>> /\ ret' = "FIFO_EMPTY"
    BY <2>1 DEF FifoPop
  <2>3. Content = <<>> /\ Content' = <<>> /\ ~Allocated'
    <3>1. Content' = Content /\ (Allocated' <=> Allocated)
      BY <2>2 DEF ring, Content, Used, Masked, Allocated
    <3>2. QED
      BY <1>1, <3>1, ContentEmpty
  <2>4. QED
    BY <1>1, <2>2, <2>3 DEF Queue!Take, ring, Allocated
<1>2. CASE Allocated
  <2>1. /\ IsRing(buffer, size, head, tail)
        /\ Content = q /\ mask + 1 = size
    BY <1>2, ContentIsLive
  <2>2. IsEmpty <=> (q = <<>>)
    BY <2>1, LiveEmpty DEF IsEmpty
  <2>3. CASE IsEmpty
    <3>1. UNCHANGED <<ring, out, count>> /\ ret' = "FIFO_EMPTY"
      BY <2>3 DEF FifoPop
    <3>2. Content' = Content /\ Allocated'
      BY <1>2, <3>1 DEF ring, Content, Used, Masked, Allocated
    <3>3. QED
      BY <1>2, <2>1, <2>2, <2>3, <3>1, <3>2 DEF Queue!Take, ring
  <2>4. CASE ~IsEmpty
    <3>1. /\ out' = buffer[tail] /\ tail' = Masked(tail + 1) /\ ret' = "OK"
          /\ UNCHANGED <<buffer, size, mask, head, mode, count>>
      BY <2>1, <2>4 DEF FifoPop, IsRing
    <3>2. Content' = Live(buffer, size, head, (tail + 1) % size) /\ Allocated'
      BY <1>2, <2>1, <3>1 DEF Content, Used, Masked, Live, Allocated
    <3>3. Content' = Tail(q) /\ out' = Head(q)
      BY <2>1, <2>4, <3>1, <3>2, LiveTail DEF IsEmpty
    <3>4. QED
      BY <1>2, <2>1, <2>2, <2>4, <3>1, <3>2, <3>3 DEF Queue!Take
  <2>5. QED
    BY <2>3, <2>4
<1>3. QED
  BY <1>1, <1>2

(* rdk_imu_fifo_count returns the length of the queue. *)
LEMMA FifoCountRefines ==
  ASSUME 0 \notin Length, TypeOK, TypeOK', FifoCount
  PROVE  Queue!Count
<1>1. /\ count' = Used /\ ret' = "OK" /\ UNCHANGED <<ring, out>>
      /\ Content' = Content /\ (Allocated <=> Allocated')
  BY DEF FifoCount, ring, Content, Used, Masked, Allocated
<1>2. Used = Len(Content)
  <2>1. CASE ~Allocated
    BY <2>1, ContentEmpty, Modulo1 DEF TypeOK, Used, Masked
  <2>2. CASE Allocated
    <3>1. Used = (head - tail) % size
      BY <2>2, ContentIsLive DEF Used, Masked
    <3>2. Len(Content) = IF head >= tail THEN head - tail ELSE head - tail + size
      BY <2>2, ContentIsLive, LiveSequence
    <3>3. QED
      BY <2>2, <3>1, <3>2, ContentIsLive, WrapDown DEF IsRing
  <2>3. QED
    BY <2>1, <2>2
<1>3. QED
  BY <1>1, <1>2 DEF Queue!Count, ring

LEMMA StepRefines ==
  ASSUME 0 \notin Length, TypeOK, [Next]_vars
  PROVE  [Queue!Next]_(Queue!vars)
<1>1. TypeOK'
  BY StepTypeOK
<1>2. CASE UNCHANGED vars
  BY <1>2 DEF vars, Queue!vars, Content, Used, Masked, Allocated
<1>3. CASE Next
  BY <1>1, <1>3, FifoInitRefines, FifoDeinitRefines, FifoPushRefines,
     FifoPopRefines, FifoCountRefines DEF Next, Queue!Next
<1>4. QED
  BY <1>2, <1>3

(* For every power-of-two length the ring buffer is the bounded queue that *)
(* SampleQueue describes, so the modules above the FIFO may use the queue. *)
THEOREM RingImplementsQueue ==
  ASSUME 0 \notin Length
  PROVE  Spec => ImplementsQueue
<1>1. Init => Queue!Init
  BY InitRefines
<1>2. TypeOK /\ [Next]_vars => [Queue!Next]_(Queue!vars)
  BY StepRefines
<1>3. QED
  BY <1>1, <1>2, TypeCorrect, PTL DEF Spec, ImplementsQueue, Queue!Spec

-----------------------------------------------------------------------------
(* No step puts anything but a pushed sample into the queue.               *)
LEMMA StepContent ==
  ASSUME Content \in Seq(Sample), [Queue!Next]_(Queue!vars)
  PROVE  Content' \in Seq(Sample)
<1>1. CASE \E x \in Sample : Queue!Offer(x)
  <2>1. PICK x \in Sample : Content' = Queue!Put(Content, IF Allocated THEN size - 1 ELSE 0, mode, x)
    BY <1>1 DEF Queue!Offer
  <2>2. Append(Content, x) \in Seq(Sample) /\ Append(Content, x) # <<>>
    BY AppendProperties
  <2>3. Tail(Append(Content, x)) \in Seq(Sample)
    BY <2>2, HeadTailProperties
  <2>4. QED
    BY <2>1, <2>2, <2>3 DEF Queue!Put
<1>2. CASE Queue!Take
  BY <1>2, HeadTailProperties DEF Queue!Take
<1>3. CASE Content' = <<>> \/ Content' = Content
  <2>1. <<>> \in Seq(Sample)
    BY EmptySeq
  <2>2. QED
    BY <1>3, <2>1
<1>4. QED
  BY <1>1, <1>2, <1>3 DEF Queue!Next, Queue!Open, Queue!Refuse, Queue!Close,
     Queue!Count, Queue!vars

LEMMA ContentNoStaleSlot ==
  ASSUME TypeOK, Content \in Seq(Sample)
  PROVE  NoStaleSlot
<1> SUFFICES ASSUME Allocated, NEW i \in 0 .. Used - 1
             PROVE  buffer[Masked(tail + i)] \in Sample
  BY DEF NoStaleSlot
<1>1. /\ Content = Live(buffer, size, head, tail) /\ IsRing(buffer, size, head, tail)
      /\ Used = IF head >= tail THEN head - tail ELSE head - tail + size
  BY ContentIsLive, Masking
<1>2. Len(Content) = Used /\ Used \in 0 .. size - 1 /\ size \in Nat
  <2>1. Len(Content) = IF head >= tail THEN head - tail ELSE head - tail + size
    BY <1>1, LiveSequence
  <2>2. QED
    BY <1>1, <2>1 DEF IsRing
<1>3. i + 1 \in 1 .. Len(Content)
  BY <1>2
<1>4. Content[i + 1] = buffer[Masked(tail + (i + 1) - 1)]
  BY <1>2, <1>3 DEF Content
<1>5. tail + (i + 1) - 1 = tail + i
  BY <1>1, <1>2 DEF IsRing
<1>6. QED
  BY <1>3, <1>4, <1>5, ElementOfSeq

(* What the readers are handed was measured: between tail and head there   *)
(* are only pushed samples, wherever the indices have wrapped.             *)
THEOREM OnlyPushedSamples ==
  ASSUME 0 \notin Length
  PROVE  Spec => []NoStaleSlot
<1> DEFINE Inv == Content \in Seq(Sample)
<1>1. Init => Inv
  <2>1. ASSUME Init PROVE Content = <<>>
    BY <2>1, InitTypeOK, ContentEmpty DEF Init, Allocated
  <2>2. QED
    BY <2>1
<1>2. TypeOK /\ Inv /\ [Next]_vars => Inv'
  BY StepRefines, StepContent
<1>3. TypeOK /\ Inv => NoStaleSlot
  BY ContentNoStaleSlot
<1> HIDE DEF Inv
<1>4. QED
  BY <1>1, <1>2, <1>3, TypeCorrect, PTL DEF Spec
=============================================================================
