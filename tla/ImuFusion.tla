------------------------------ MODULE ImuFusion ------------------------------
(***************************************************************************)
(* rdk_imu_read_fused: it pops samples off the FIFO into a window of three *)
(* and, when a sample of the device it fuses by lies between two samples   *)
(* of the other one, returns it together with the other device's value     *)
(* interpolated at its timestamp.  The FIFO and what fills it are the      *)
(* environment, as SampleStream describes them; popping is done with the   *)
(* mutex held, everything done to the window after that without it.        *)
(*                                                                         *)
(* rdk_imu_enable clears the window, as its last act, when the interrupt   *)
(* threads already run; when it fails to create the second of them it      *)
(* joins the first and leaves the window alone.                            *)
(*                                                                         *)
(* A clear that falls between two of the tests of the loop ends, like one  *)
(* before them or one after them, in an empty window and another turn.     *)
(* The copies themselves (memset, memmove, interpolate_3axis) are one step *)
(* each.                                                                   *)
(***************************************************************************)
EXTENDS Integers, Sequences

CONSTANTS
  Reader,        \* threads that call rdk_imu_read_fused
  Capacity,      \* samples the FIFO holds
  Policy,        \* what it does when full
  NoSample,      \* nothing
  MaxAge,        \* the max_age_ns argument
  TimestampMod,  \* timestamps are unsigned words below this
  MaxTime,       \* bound on the clock
  ReadsAnytime   \* readers do not wait for enable and disable to return

Device == {"accel", "gyro"}

Other(d) == IF d = "accel" THEN "gyro" ELSE "accel"

ASSUME FusionAssumption ==
  /\ Capacity \in Nat /\ Policy \in {"DROP", "OVERWRITE"}
  /\ MaxAge \in Nat /\ MaxTime \in Nat /\ TimestampMod \in Nat
  /\ MaxTime + MaxAge < TimestampMod
  /\ ReadsAnytime \in BOOLEAN

VARIABLES
  now, taken, fifo, delivered,  \* the stream
  phase,   \* "off", "half" (accel thread created), "starting" (both), "on" (cleared)
  win,     \* st->fuse_win
  pc,      \* where each reader is
  by,      \* the fuse_by argument of its call
  frame,   \* the frame its last call returned
  popped,  \* history: the last runs of samples popped since the window was cleared
  ordered, \* history: all samples so far were popped in the order of their times
  fused    \* history: the timestamp last returned as truth, per device

streamVars == <<now, taken, fifo, delivered>>
readVars == <<win, pc, by, frame, popped, ordered, fused>>
vars == <<now, taken, fifo, delivered, phase, win, pc, by, frame, popped, ordered,
          fused>>

Stream == INSTANCE SampleStream

-----------------------------------------------------------------------------
(***************************************************************************)
(* A packet of the FIFO has one valid side, the device that measured it.   *)
(* The window also holds packets of zero bytes, with no valid side and     *)
(* timestamps of zero.                                                     *)
(***************************************************************************)
Blank == [dev |-> "none", ts |-> 0]
Packet == [dev : Device, ts : 0 .. MaxTime] \union {Blank}

Valid(p, d) == p.dev = d

(* Side d of a packet. *)
Side(p, d) == [valid |-> Valid(p, d), ts |-> IF Valid(p, d) THEN p.ts ELSE 0]

(* rdk_imu_data_timestamp_ns: the larger timestamp of the two sides. *)
TimestampOf(p) == p.ts

(* A window is ready when its first packet has one valid side. *)
Initialised(w) == Valid(w[1], "accel") # Valid(w[1], "gyro")

(* The unsigned difference of the outer timestamps. *)
Span(w) == (TimestampOf(w[3]) - TimestampOf(w[1])) % TimestampMod

SameSide(p, q) == Valid(p, "accel") = Valid(q, "accel")

(* The three tests that make the loop look for another sample. *)
TooOld(w) == Span(w) > MaxAge
Overlaps(w) == SameSide(w[2], w[3])
(* Mutants: only the middle sample is looked at; the device fused by is    *)
(* not asked for.                                                          *)
MatchesMiddle(w, d) == Valid(w[2], d)
MatchesAny(w, d) == ~SameSide(w[1], w[2]) /\ SameSide(w[1], w[3])
Matches(w, d) ==
  /\ ~SameSide(w[1], w[2])
  /\ SameSide(w[1], w[3])
  /\ Valid(w[2], d)

Slide(w) == <<w[2], w[3], w[3]>>
(* Mutant: overlapping packets are moved like all others. *)
MergeSlides(w) == <<w[2], w[3], w[3]>>
Merge(w) == <<w[1], w[3], w[3]>>

(* Mutant: the result carries its distance from the earlier sample. *)
InterpolatedOffset(prev, next, target) ==
  [valid |-> TRUE,
   ts    |-> (target - prev.ts) % TimestampMod,
   from  |-> prev.ts,
   to    |-> next.ts]

(* interpolate_3axis, as far as validity and time go: between two equal    *)
(* timestamps it copies the earlier side, validity included; otherwise the *)
(* result is valid and lies on the line through both.                      *)
Interpolated(prev, next, target) ==
  [valid |-> IF next.ts = prev.ts THEN prev.valid ELSE TRUE,
   ts    |-> target,
   from  |-> prev.ts,
   to    |-> next.ts]

-----------------------------------------------------------------------------
Init ==
  /\ Stream!Init
  /\ phase = "off"
  /\ win = <<Blank, Blank, Blank>>
  /\ pc = [r \in Reader |-> "idle"]
  /\ by = [r \in Reader |-> "accel"]
  /\ frame = [r \in Reader |-> NoSample]
  /\ popped = <<>>
  /\ ordered = TRUE
  /\ fused = [d \in Device |-> 0]

Idle == \A r \in Reader : pc[r] = "idle"

(* The interrupt threads and the events they serve. *)
Running(d) == phase \in {"starting", "on"} \/ (phase = "half" /\ d = "accel")

Acquire ==
  /\ \/ Stream!Event /\ now < MaxTime
     \/ \E d \in Device :
          \/ Running(d) /\ Stream!Take(d)
          \/ Stream!Lose(d)
          \/ Stream!Push(d)
  /\ UNCHANGED <<phase, readVars>>

(* rdk_imu_enable, seen from here: the threads are created, one after the  *)
(* other; the first is joined if there is no second ...                    *)
EnableAccel ==
  /\ phase = "off"
  /\ ReadsAnytime \/ Idle
  /\ phase' = "half"
  /\ UNCHANGED <<streamVars, readVars>>

EnableGyro ==
  /\ phase = "half"
  /\ phase' = "starting"
  /\ UNCHANGED <<streamVars, readVars>>

EnableFails ==
  /\ phase = "half"
  /\ taken["accel"] = NoSample
  /\ phase' = "off"
  /\ UNCHANGED <<streamVars, readVars>>

(* ... and afterwards the window is cleared. *)
EnableClearsWindow ==
  /\ phase = "starting"
  /\ phase' = "on"
  /\ win' = <<Blank, Blank, Blank>>
  /\ popped' = <<>>
  /\ UNCHANGED <<streamVars, pc, by, frame, ordered, fused>>

(* rdk_imu_disable returns when the threads, and so the samples they had   *)
(* on their way, are gone.  The FIFO keeps its content.                    *)
Disable ==
  /\ phase = "on"
  /\ ReadsAnytime \/ Idle
  /\ \A d \in Device : taken[d] = NoSample
  /\ phase' = "off"
  /\ UNCHANGED <<streamVars, readVars>>

-----------------------------------------------------------------------------
(* rdk_imu_read_fused *)

Call(r, d) ==
  /\ pc[r] = "idle"
  /\ ReadsAnytime \/ phase = "on"
  /\ by' = [by EXCEPT ![r] = d]
  /\ pc' = [pc EXCEPT ![r] = "pop"]
  /\ UNCHANGED <<streamVars, phase, win, frame, popped, ordered, fused>>

LastThree(s) == IF Len(s) > 3 THEN Tail(s) ELSE s

(* The samples popped, as runs: samples of one device that came one after  *)
(* the other, with the times of the first and the last.  q is followed by  *)
(* the packet p.                                                           *)
Continues(q, p) == q # <<>> /\ q[Len(q)].dev = p.dev

RunsWith(q, p) ==
  IF Continues(q, p)
  THEN [q EXCEPT ![Len(q)].last = p.ts]
  ELSE LastThree(Append(q, [dev |-> p.dev, first |-> p.ts, last |-> p.ts]))

(* The reader sleeps until the FIFO has a sample, then pops it. *)
Pop(r) ==
  /\ pc[r] = "pop"
  /\ Stream!Pop
  /\ win' = [win EXCEPT ![3] = Head(fifo)]
  /\ popped' = RunsWith(popped, Head(fifo))
  /\ ordered' = (ordered /\ \A d \in Device : delivered[d] <= Head(fifo).ts)
  /\ pc' = [pc EXCEPT ![r] = "examine"]
  /\ UNCHANGED <<phase, by, frame, fused>>

Again(r, w) ==
  /\ win' = w
  /\ pc' = [pc EXCEPT ![r] = "pop"]

(* The tests of the loop, in their order. *)
Examine(r) ==
  /\ pc[r] = "examine"
  /\ IF ~Initialised(win) \/ TooOld(win) THEN Again(r, Slide(win))
     ELSE IF Overlaps(win) THEN Again(r, Merge(win))
     ELSE IF Matches(win, by[r]) THEN pc' = [pc EXCEPT ![r] = "emit"] /\ UNCHANGED win
     ELSE Again(r, Slide(win))
  /\ UNCHANGED <<streamVars, phase, by, frame, popped, ordered, fused>>

(* What the middle packet makes of a frame: the other side has no value.   *)
CopyOf(p, d) ==
  [by    |-> d,
   truth |-> Side(p, d),
   other |-> [valid |-> Side(p, Other(d)).valid, ts |-> Side(p, Other(d)).ts,
              from  |-> 0, to |-> 0]]

(* The middle packet is copied out ... *)
Emit(r) ==
  /\ pc[r] = "emit"
  /\ frame' = [frame EXCEPT ![r] = CopyOf(win[2], by[r])]
  /\ fused' = [fused EXCEPT ![by[r]] = Side(win[2], by[r]).ts]
  /\ pc' = [pc EXCEPT ![r] = "interpolate"]
  /\ UNCHANGED <<streamVars, phase, win, by, popped, ordered>>

(* The outer sides of device d, interpolated. *)
(* Mutant: the later of the two is taken from the middle packet. *)
OuterWithMiddle(w, d, target) == Interpolated(Side(w[1], d), Side(w[2], d), target)
Outer(w, d, target) == Interpolated(Side(w[1], d), Side(w[3], d), target)

(* ... and its other side interpolated at the time it was copied with. *)
Interpolate(r) ==
  /\ pc[r] = "interpolate"
  /\ frame' = [frame EXCEPT ![r].other = Outer(win, Other(by[r]), frame[r].truth.ts)]
  /\ pc' = [pc EXCEPT ![r] = "slide"]
  /\ UNCHANGED <<streamVars, phase, win, by, popped, ordered, fused>>

(* Mutant: the window is not moved on after a frame. *)
ReturnInPlace(r) ==
  /\ pc[r] = "slide"
  /\ pc' = [pc EXCEPT ![r] = "idle"]
  /\ UNCHANGED <<streamVars, phase, win, by, frame, popped, ordered, fused>>

Return(r) ==
  /\ pc[r] = "slide"
  /\ win' = Slide(win)
  /\ pc' = [pc EXCEPT ![r] = "idle"]
  /\ UNCHANGED <<streamVars, phase, by, frame, popped, ordered, fused>>

Next ==
  \/ Acquire
  \/ EnableAccel \/ EnableGyro \/ EnableFails \/ EnableClearsWindow
  \/ Disable
  \/ \E r \in Reader :
       \/ \E d \in Device : Call(r, d)
       \/ Pop(r) \/ Examine(r) \/ Emit(r) \/ Interpolate(r) \/ Return(r)

Spec == Init /\ [][Next]_vars

-----------------------------------------------------------------------------
Frame == [by    : Device,
          truth : [valid : BOOLEAN, ts : 0 .. MaxTime],
          other : [valid : BOOLEAN, ts : 0 .. MaxTime,
                   from : 0 .. MaxTime, to : 0 .. MaxTime]]

Run == [dev : Device, first : 1 .. MaxTime, last : 1 .. MaxTime]

TypeOK ==
  /\ now \in 0 .. MaxTime
  /\ taken \in [Device -> 1 .. MaxTime \union {NoSample}]
  /\ fifo \in Seq([dev : Device, ts : 1 .. MaxTime]) /\ Len(fifo) <= Capacity
  /\ delivered \in [Device -> 0 .. MaxTime]
  /\ phase \in {"off", "half", "starting", "on"}
  /\ win \in [1 .. 3 -> Packet]
  /\ pc \in [Reader -> {"idle", "pop", "examine", "emit", "interpolate", "slide"}]
  /\ by \in [Reader -> Device]
  /\ frame \in [Reader -> Frame \union {NoSample}]
  /\ popped \in Seq(Run) /\ Len(popped) <= 3
  /\ ordered \in BOOLEAN
  /\ fused \in [Device -> 0 .. MaxTime]

(* The window a frame is made from: the outer samples are of the other     *)
(* device, the later one at most max_age_ns after the earlier one, and the *)
(* middle one is of the device fused by.                                   *)
FusionWindow ==
  \A r \in Reader : pc[r] \in {"emit", "interpolate"} =>
    /\ Valid(win[1], Other(by[r])) /\ Valid(win[2], by[r]) /\ Valid(win[3], Other(by[r]))
    /\ win[1].ts < win[3].ts /\ win[3].ts <= win[1].ts + MaxAge

(* The truth timestamps of one device returned by successive calls         *)
(* increase strictly, whatever the calls in between fused by and across    *)
(* disable and enable: no sample is returned as truth twice.               *)
FusedInOrder ==
  \A r \in Reader : pc[r] = "emit" => win[2].ts > fused[by[r]]

(* The frame is there, and interpolated. *)
Completed(r) == frame[r] # NoSample /\ pc[r] # "interpolate"

(* Both sides of a returned frame are valid. *)
FrameComplete ==
  \A r \in Reader : Completed(r) => frame[r].truth.valid /\ frame[r].other.valid

(* The sample just popped is the first of its device after a run of the    *)
(* one fused by, which follows a run of the first device again: the run    *)
(* lies between the samples around it, which are close enough.             *)
Fusable(d) ==
  /\ Len(popped) = 3
  /\ popped[1].dev = Other(d) /\ popped[2].dev = d /\ popped[3].dev = Other(d)
  /\ popped[3].first = popped[3].last
  /\ popped[1].last <= popped[2].first /\ popped[2].last <= popped[3].first
  /\ popped[3].first <= popped[1].last + MaxAge

(* No such sample is passed over, however many samples were merged, found  *)
(* too old or slid away before it, in this call or in earlier ones, and    *)
(* what is fused is the last sample of the run in between with the samples *)
(* next to the run.                                                        *)
NoFusableSkipped ==
  [][\A r \in Reader :
       pc[r] = "examine" /\ pc'[r] # "examine" /\ Fusable(by[r]) =>
         /\ pc'[r] = "emit"
         /\ win[1].ts = popped[1].last /\ win[2].ts = popped[2].last
         /\ win[3].ts = popped[3].first]_vars

(* As long as the FIFO has handed out all samples in the order of their    *)
(* times, whatever merging and sliding did to the window, what is returned *)
(* is interpolated, as rdkimu.c:287 says, and not extrapolated: the target *)
(* lies between the two samples.  When a sample of one device has been     *)
(* passed by a later one of the other, it may lie outside.                 *)
TargetBetween ==
  ordered => \A r \in Reader : Completed(r) =>
    frame[r].other.from <= frame[r].other.ts /\ frame[r].other.ts <= frame[r].other.to
=============================================================================
