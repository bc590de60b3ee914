---------------------------- MODULE SampleStream ----------------------------
(***************************************************************************)
(* What acquisition promises to the readers: a stream of timestamped       *)
(* samples of two devices through a bounded FIFO.  A device has at most    *)
(* one sample on its way to the FIFO, taken from an event that lies in the *)
(* past and is later than every sample of that device in the FIFO or       *)
(* handed out before.  Between devices nothing is promised: a sample may   *)
(* enter the FIFO long after a later one of the other device.              *)
(*                                                                         *)
(* ImuAcquire implements this module, and ImuFusion reads from it.         *)
(***************************************************************************)
EXTENDS Integers, Sequences

CONSTANTS
  Device,    \* the two sensors
  Capacity,  \* samples the FIFO holds
  Policy,    \* what it does when full
  NoSample   \* nothing on its way

VARIABLES
  now,       \* the time of the latest event
  taken,     \* the timestamp of the sample each device has on its way
  fifo,      \* the samples [dev, ts] waiting, oldest first
  delivered  \* the timestamp last handed out, per device

vars == <<now, taken, fifo, delivered>>

Queue == INSTANCE SampleQueue WITH
  Sample <- {}, Length <- {}, Nothing <- NoSample, open <- TRUE,
  capacity <- Capacity, policy <- Policy, queue <- fifo,
  ret <- "OK", out <- NoSample, count <- 0

Init ==
  /\ now = 0
  /\ taken = [d \in Device |-> NoSample]
  /\ fifo = <<>>
  /\ delivered = [d \in Device |-> 0]

(* Later than everything of the same device that a reader has or may get. *)
Fresh(d, ts) ==
  /\ ts > delivered[d]
  /\ \A i \in 1 .. Len(fifo) : fifo[i].dev = d => ts > fifo[i].ts

Event ==
  /\ now' = now + 1
  /\ UNCHANGED <<taken, fifo, delivered>>

Take(d) ==
  /\ taken[d] = NoSample
  /\ \E ts \in 1 .. now :
       /\ Fresh(d, ts)
       /\ taken' = [taken EXCEPT ![d] = ts]
  /\ UNCHANGED <<now, fifo, delivered>>

Lose(d) ==
  /\ taken[d] # NoSample
  /\ taken' = [taken EXCEPT ![d] = NoSample]
  /\ UNCHANGED <<now, fifo, delivered>>

Push(d) ==
  /\ taken[d] # NoSample
  /\ fifo' = Queue!Put(fifo, Capacity, Policy, [dev |-> d, ts |-> taken[d]])
  /\ taken' = [taken EXCEPT ![d] = NoSample]
  /\ UNCHANGED <<now, delivered>>

Pop ==
  /\ fifo # <<>>
  /\ fifo' = Tail(fifo)
  /\ delivered' = [delivered EXCEPT ![Head(fifo).dev] = Head(fifo).ts]
  /\ UNCHANGED <<now, taken>>

Next ==
  \/ Event
  \/ \E d \in Device : Take(d) \/ Lose(d) \/ Push(d)
  \/ Pop

Spec == Init /\ [][Next]_vars
=============================================================================
