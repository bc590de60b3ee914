------------------------------ MODULE RingFifo ------------------------------
(***************************************************************************)
(* The software FIFO of core/src/rdkimu.c (rdk_imu_fifo_t and its seven    *)
(* functions): a ring of a power-of-two number of slots, of which one is   *)
(* always left unused so that head = tail means empty.  Every function is  *)
(* called with the device mutex held, or before the threads that use the   *)
(* FIFO exist, so each is one step.                                        *)
(*                                                                         *)
(* Indices are unsigned words.  For a mask of the form 2^k - 1 the code's  *)
(* x & mask is x modulo 2^k; the all-ones mask a zero length produces is   *)
(* of that form too.  MCRingFifo checks this reading against bitwise AND.  *)
(***************************************************************************)
EXTENDS Integers, Sequences

CONSTANTS
  Sample,    \* the data packets
  Zero,      \* the packet of zero bytes that memset leaves in a fresh slot
  NoBuffer,  \* the null pointer
  Length,    \* the lengths a configuration may ask for
  Width      \* the number of bits of an unsigned int

Word == 2^Width

ASSUME LengthAssumption ==
  /\ Width \in Nat
  /\ Word \in Nat
  /\ Length \subseteq 0 .. Word

ASSUME SampleAssumption ==
  /\ Zero \notin Sample
  /\ \A n \in Length : NoBuffer \notin [0 .. n - 1 -> Sample \union {Zero}]

VARIABLES
  buffer,  \* the slots, or NoBuffer
  size,
  mask,
  head,    \* the next slot to write
  tail,    \* the oldest slot
  mode,    \* "DROP" or "OVERWRITE"
  ret,     \* the error code of the last call
  out,     \* the packet the last successful pop copied to its caller
  count    \* the number the last rdk_imu_fifo_count returned

ring == <<buffer, size, mask, head, tail, mode>>
vars == <<buffer, size, mask, head, tail, mode, ret, out, count>>

Mode == {"DROP", "OVERWRITE"}
Packet == Sample \union {Zero}

Allocated == buffer # NoBuffer

(* Mutant: the length itself is taken for the mask. *)
MaskedBySize(x) == x % (size + 1)

(* x & mask, for the masks the code can hold. *)
Masked(x) == x % (mask + 1)

IsPowerOfTwo(n) == \E k \in 0 .. Width : n = 2^k

(* (n & (n - 1)) == 0 *)
PassesSizeCheck(n) == n = 0 \/ IsPowerOfTwo(n)

IsEmpty == head = tail

(* Mutant: the successor of the last slot is not wrapped. *)
IsFullUnwrapped == head + 1 = tail
IsFull == Masked(head + 1) = tail

Used == Masked(head - tail)

-----------------------------------------------------------------------------
(* rdk_imu_create_default clears the whole device state. *)
Init ==
  /\ buffer = NoBuffer
  /\ size = 0 /\ mask = 0 /\ head = 0 /\ tail = 0
  /\ mode = "DROP"
  /\ ret = "OK"
  /\ out = Zero
  /\ count = 0

(* rdk_imu_fifo_init.  The device is initialised once between two deinits. *)
FifoInit(n, m) ==
  /\ ~Allocated
  /\ \/ /\ ~PassesSizeCheck(n)
        /\ ret' = "ERR_PARAM"
        /\ UNCHANGED ring
     \/ /\ PassesSizeCheck(n)
        /\ ret' = "FIFO_ALLOC_FAILED"
        /\ UNCHANGED ring
     \/ /\ PassesSizeCheck(n)
        /\ buffer' = [i \in 0 .. n - 1 |-> Zero]
        /\ size' = n
        /\ mask' = (n - 1) % Word
        /\ head' = 0 /\ tail' = 0
        /\ mode' = m
        /\ ret' = "OK"
  /\ UNCHANGED <<out, count>>

(* rdk_imu_fifo_deinit; the mode field keeps its value. *)
FifoDeinit ==
  /\ buffer' = NoBuffer
  /\ size' = 0 /\ mask' = 0 /\ head' = 0 /\ tail' = 0
  /\ UNCHANGED <<mode, ret, out, count>>

(* rdk_imu_fifo_push.  Only interrupt threads push, and none lives while   *)
(* the FIFO has no buffer.  A write outside the buffer changes no slot.    *)
FifoPush(x) ==
  /\ Allocated
  /\ \/ /\ IsFull /\ mode = "DROP"
        /\ ret' = "FIFO_FULL"
        /\ UNCHANGED ring
     \/ /\ ~IsFull \/ mode = "OVERWRITE"
        /\ tail' = IF IsFull THEN Masked(tail + 1) ELSE tail
        /\ buffer' = [buffer EXCEPT ![head] = x]
        /\ head' = Masked(head + 1)
        /\ ret' = "OK"
        /\ UNCHANGED <<size, mask, mode>>
  /\ UNCHANGED <<out, count>>

(* Mutant: an empty FIFO is not recognised. *)
FifoPopUnguarded ==
  /\ Allocated
  /\ out' = buffer[tail]
  /\ tail' = Masked(tail + 1)
  /\ ret' = "OK"
  /\ UNCHANGED <<buffer, size, mask, head, mode, count>>

(* rdk_imu_fifo_pop.  A read outside the buffer yields any packet. *)
FifoPop ==
  \/ /\ IsEmpty
     /\ ret' = "FIFO_EMPTY"
     /\ UNCHANGED <<ring, out, count>>
  \/ /\ ~IsEmpty
     /\ IF tail \in DOMAIN buffer THEN out' = buffer[tail] ELSE out' \in Packet
     /\ tail' = Masked(tail + 1)
     /\ ret' = "OK"
     /\ UNCHANGED <<buffer, size, mask, head, mode, count>>

(* rdk_imu_fifo_count *)
FifoCount ==
  /\ count' = Used
  /\ ret' = "OK"
  /\ UNCHANGED <<ring, out>>

Next ==
  \/ \E n \in Length, m \in Mode : FifoInit(n, m)
  \/ FifoDeinit
  \/ \E x \in Sample : FifoPush(x)
  \/ FifoPop
  \/ FifoCount

Spec == Init /\ [][Next]_vars

-----------------------------------------------------------------------------
(* Types: an allocated FIFO has one slot per unit of its length, and head  *)
(* and tail, which the next push and pop use as indices, are slots.        *)
TypeOK ==
  /\ mode \in Mode
  /\ out \in Packet
  /\ count \in Nat
  /\ \/ /\ ~Allocated
        /\ size = 0 /\ mask = 0 /\ head = 0 /\ tail = 0
     \/ /\ Allocated
        /\ size \in Length \ {0}
        /\ mask = size - 1
        /\ buffer \in [0 .. size - 1 -> Packet]
        /\ head \in 0 .. size - 1
        /\ tail \in 0 .. size - 1

(* A slot between tail and head holds a sample some thread pushed, never   *)
(* the zero bytes memset left there: no reader is handed a packet that was *)
(* not measured.                                                           *)
NoStaleSlot ==
  Allocated => \A i \in 0 .. Used - 1 : buffer[Masked(tail + i)] \in Sample

(***************************************************************************)
(* The refinement mapping: the slots from tail to head, in ring order, are *)
(* the queue.                                                              *)
(***************************************************************************)
Content == [i \in 1 .. Used |-> buffer[Masked(tail + i - 1)]]

Queue == INSTANCE SampleQueue WITH
  Nothing  <- Zero,
  open     <- Allocated,
  capacity <- (IF Allocated THEN size - 1 ELSE 0),
  policy   <- mode,
  queue    <- Content

(* The ring buffer is a bounded first-in first-out queue: whatever the     *)
(* position at which head and tail wrap around, a push appends, a push on  *)
(* a full OVERWRITE ring discards exactly the oldest sample, and pops      *)
(* return the samples in the order of their pushes.                        *)
ImplementsQueue == Queue!Spec
=============================================================================
