----------------------------- MODULE SampleQueue -----------------------------
(***************************************************************************)
(* What the software FIFO of the SDK promises to the interrupt threads     *)
(* that fill it and to the readers that drain it: a bounded first-in       *)
(* first-out queue of samples.  A queue opened with length n holds n - 1   *)
(* samples.  When it is full, the DROP policy refuses the new sample and   *)
(* the OVERWRITE policy discards the oldest one.                           *)
(*                                                                         *)
(* The ring buffer that implements it is module RingFifo; the modules that *)
(* use the FIFO use the operators Put and IsFull defined here.             *)
(***************************************************************************)
EXTENDS Integers, Sequences

CONSTANTS
  Sample,   \* the data packets
  Length,   \* the lengths a user may ask for
  Nothing   \* no packet

VARIABLES
  open,      \* the queue has been initialised and not yet torn down
  capacity,  \* the number of samples it can hold
  policy,    \* "DROP" or "OVERWRITE"
  queue,     \* its content, oldest sample first
  ret,       \* the value the last operation returned
  out,       \* the packet the last successful Take delivered
  count      \* the number the last Count delivered

vars == <<open, capacity, policy, queue, ret, out, count>>

Policies == {"DROP", "OVERWRITE"}

-----------------------------------------------------------------------------
(* The queue as a value. *)

IsFull(q, c) == Len(q) >= c

(* The content after a sample has been offered to a queue of capacity c. *)
Put(q, c, p, x) ==
  IF ~IsFull(q, c) THEN Append(q, x)
  ELSE IF p = "OVERWRITE" THEN Tail(Append(q, x))
  ELSE q

-----------------------------------------------------------------------------
Init ==
  /\ open = FALSE
  /\ capacity = 0
  /\ policy = "DROP"
  /\ queue = <<>>
  /\ ret = "OK"
  /\ out = Nothing
  /\ count = 0

Open(n, p) ==
  /\ ~open
  /\ open' = TRUE
  /\ capacity' = n - 1
  /\ policy' = p
  /\ queue' = <<>>
  /\ ret' = "OK"
  /\ UNCHANGED <<out, count>>

Refuse(err) ==
  /\ ~open
  /\ ret' = err
  /\ UNCHANGED <<open, capacity, policy, queue, out, count>>

Close ==
  /\ open' = FALSE
  /\ capacity' = 0
  /\ queue' = <<>>
  /\ UNCHANGED <<policy, ret, out, count>>

Offer(x) ==
  /\ open
  /\ queue' = Put(queue, capacity, policy, x)
  /\ ret' = IF IsFull(queue, capacity) /\ policy = "DROP" THEN "FIFO_FULL" ELSE "OK"
  /\ UNCHANGED <<open, capacity, policy, out, count>>

Take ==
  /\ \/ /\ queue = <<>>
        /\ ret' = "FIFO_EMPTY"
        /\ UNCHANGED <<queue, out>>
     \/ /\ queue # <<>>
        /\ out' = Head(queue)
        /\ queue' = Tail(queue)
        /\ ret' = "OK"
  /\ UNCHANGED <<open, capacity, policy, count>>

Count ==
  /\ count' = Len(queue)
  /\ ret' = "OK"
  /\ UNCHANGED <<open, capacity, policy, queue, out>>

Next ==
  \/ \E n \in Length, p \in Policies : Open(n, p)
  \/ \E err \in {"ERR_PARAM", "FIFO_ALLOC_FAILED"} : Refuse(err)
  \/ Close
  \/ \E x \in Sample : Offer(x)
  \/ Take
  \/ Count

Spec == Init /\ [][Next]_vars
=============================================================================
