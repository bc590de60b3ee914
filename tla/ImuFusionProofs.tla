--------------------------- MODULE ImuFusionProofs ---------------------------
(***************************************************************************)
(* Proofs about the fused reader, for any FIFO, any maximum age and any    *)
(* order in which the samples of the two devices enter the FIFO.           *)
(***************************************************************************)
EXTENDS ImuFusion, SequenceTheorems, TLAPS

Stamped == [dev : Device, ts : 1 .. MaxTime]

-----------------------------------------------------------------------------
(* The FIFO.  An offered sample is appended; at most one older sample      *)
(* makes room for it, or it is dropped itself.                             *)

(* r is q followed by x, without the first of them when k is 1, or without *)
(* the last.                                                               *)
Follows(r, q, x, k) ==
  /\ Len(r) + k <= Len(q) + 1
  /\ \A i \in 1 .. Len(r) : r[i] = IF i + k <= Len(q) THEN q[i + k] ELSE x

LEMMA PutShape ==
  ASSUME NEW q \in Seq(Stamped), Len(q) <= Capacity, NEW x \in Stamped,
         NEW r, r = Stream!Queue!Put(q, Capacity, Policy, x)
  PROVE  /\ r \in Seq(Stamped) /\ Len(r) <= Capacity
         /\ \E k \in {0, 1} : Follows(r, q, x, k)
<1> DEFINE a == Append(q, x)
<1>1. /\ a \in Seq(Stamped) /\ a # <<>> /\ Len(a) = Len(q) + 1
      /\ \A i \in 1 .. Len(q) : a[i] = q[i]
      /\ a[Len(q) + 1] = x
      /\ Len(q) \in Nat
  BY AppendProperties, LenProperties
<1>2. /\ Tail(a) \in Seq(Stamped) /\ Len(Tail(a)) = Len(a) - 1
      /\ \A i \in 1 .. Len(Tail(a)) : Tail(a)[i] = a[i + 1]
  BY <1>1, HeadTailProperties
<1>3. Capacity \in Nat /\ Policy \in {"DROP", "OVERWRITE"}
  BY FusionAssumption
<1> HIDE DEF a
<1>4. CASE ~(Len(q) >= Capacity)
  <2>1. r = a
    BY <1>4 DEF Stream!Queue!Put, Stream!Queue!IsFull, a
  <2>2. Follows(r, q, x, 0)
    BY <2>1, <1>1 DEF Follows
  <2>3. QED
    BY <2>1, <2>2, <1>1, <1>3, <1>4
<1>5. CASE Len(q) >= Capacity /\ Policy = "OVERWRITE"
  <2>1. r = Tail(a)
    BY <1>5 DEF Stream!Queue!Put, Stream!Queue!IsFull, a
  <2>2. Follows(r, q, x, 1)
    BY <2>1, <1>1, <1>2 DEF Follows
  <2>3. QED
    BY <2>1, <2>2, <1>1, <1>2, <1>3, <1>5
<1>6. CASE Len(q) >= Capacity /\ Policy = "DROP"
  <2>1. r = q
    BY <1>6 DEF Stream!Queue!Put, Stream!Queue!IsFull
  <2>2. Follows(r, q, x, 0)
    BY <2>1, <1>1 DEF Follows
  <2>3. QED
    BY <2>1, <2>2, <1>1, <1>3, <1>6
<1>7. QED
  BY <1>3, <1>4, <1>5, <1>6

-----------------------------------------------------------------------------
(* The window. *)

LEMMA Shapes ==
  ASSUME NEW w \in [1 .. 3 -> Packet]
  PROVE  /\ Slide(w) \in [1 .. 3 -> Packet]
         /\ Slide(w)[1] = w[2] /\ Slide(w)[2] = w[3] /\ Slide(w)[3] = w[3]
         /\ Merge(w) \in [1 .. 3 -> Packet]
         /\ Merge(w)[1] = w[1] /\ Merge(w)[2] = w[3] /\ Merge(w)[3] = w[3]
         /\ <<Blank, Blank, Blank>> \in [1 .. 3 -> Packet]
         /\ \A i \in 1 .. 3 : <<Blank, Blank, Blank>>[i] = Blank
BY DEF Slide, Merge, Packet

(* A packet is a stamped sample of a device or zero bytes. *)
LEMMA PacketFacts ==
  ASSUME NEW p \in Packet
  PROVE  /\ p.ts \in 0 .. MaxTime
         /\ p.dev \in Device \union {"none"}
         /\ p.dev = "none" => p.ts = 0
         /\ \A d \in Device : Valid(p, d) <=> p.dev = d
BY FusionAssumption DEF Packet, Blank, Valid, Device

(* What Matches and the tests before it say in terms of devices. *)
LEMMA MatchedDevices ==
  ASSUME NEW w \in [1 .. 3 -> Packet], NEW d \in Device, w[3].dev \in Device,
         Initialised(w), Matches(w, d)
  PROVE  w[1].dev = Other(d) /\ w[2].dev = d /\ w[3].dev = Other(d)
BY DEF Initialised, Matches, SameSide, Valid, Other, Device

(* Below the modulus the unsigned difference is the difference. *)
LEMMA SpanIs ==
  ASSUME NEW w \in [1 .. 3 -> Packet], w[1].ts <= w[3].ts
  PROVE  Span(w) = w[3].ts - w[1].ts
<1>1. w[1].ts \in 0 .. MaxTime /\ w[3].ts \in 0 .. MaxTime
  BY PacketFacts
<1>2. w[3].ts - w[1].ts \in 0 .. TimestampMod - 1
  BY <1>1, FusionAssumption
<1>3. QED
  BY <1>2, FusionAssumption DEF Span, TimestampOf

-----------------------------------------------------------------------------
(* Types. *)

LEMMA InitTypeOK == Init => TypeOK
<1>1. <<>> \in Seq(Stamped) /\ Len(<<>>) = 0 /\ <<>> \in Seq(Run)
  BY EmptySeq
<1>2. <<Blank, Blank, Blank>> \in [1 .. 3 -> Packet]
  BY DEF Packet
<1>3. QED
  BY <1>1, <1>2, FusionAssumption DEF Init, Stream!Init, TypeOK, Stamped, Device

(* What may happen to the stream in a step of the acquisition. *)
LEMMA AcquireTypeOK ==
  ASSUME TypeOK, Acquire
  PROVE  TypeOK'
<1>1. UNCHANGED <<phase, win, pc, by, frame, popped, ordered, fused>>
  BY DEF Acquire, readVars
<1>2. CASE Stream!Event /\ now < MaxTime
  BY <1>1, <1>2, FusionAssumption DEF Stream!Event, TypeOK
<1>3. ASSUME NEW d \in Device, Stream!Take(d)
      PROVE  TypeOK'
  <2>1. PICK ts \in 1 .. now : taken' = [taken EXCEPT ![d] = ts]
    BY <1>3 DEF Stream!Take
  <2>2. ts \in 1 .. MaxTime
    BY FusionAssumption DEF TypeOK
  <2>3. taken' \in [Device -> 1 .. MaxTime \union {NoSample}]
    BY <2>1, <2>2 DEF TypeOK
  <2>4. QED
    BY <1>1, <1>3, <2>3 DEF Stream!Take, TypeOK
<1>4. ASSUME NEW d \in Device, Stream!Lose(d)
      PROVE  TypeOK'
  BY <1>1, <1>4 DEF Stream!Lose, TypeOK
<1>5. ASSUME NEW d \in Device, Stream!Push(d)
      PROVE  TypeOK'
  <2>1. [dev |-> d, ts |-> taken[d]] \in Stamped
    BY <1>5 DEF Stream!Push, TypeOK, Stamped
  <2>2. fifo' \in Seq(Stamped) /\ Len(fifo') <= Capacity
    BY <1>5, <2>1, PutShape DEF Stream!Push, TypeOK, Stamped
  <2>3. QED
    BY <1>1, <1>5, <2>2 DEF Stream!Push, TypeOK, Stamped
<1>6. QED
  BY <1>2, <1>3, <1>4, <1>5 DEF Acquire

LEMMA ControlTypeOK ==
  ASSUME TypeOK, EnableAccel \/ EnableGyro \/ EnableFails \/ EnableClearsWindow \/ Disable
  PROVE  TypeOK'
<1>1. CASE EnableAccel \/ EnableGyro \/ EnableFails \/ Disable
  BY <1>1 DEF EnableAccel, EnableGyro, EnableFails, Disable, TypeOK, streamVars, readVars
<1>2. CASE EnableClearsWindow
  <2>1. win' \in [1 .. 3 -> Packet] /\ popped' \in Seq(Run) /\ Len(popped') = 0
    BY <1>2, EmptySeq DEF EnableClearsWindow, Packet
  <2>2. QED
    BY <1>2, <2>1 DEF EnableClearsWindow, TypeOK, streamVars
<1>3. QED
  BY <1>1, <1>2

(* A new run is the last, those before it are as they were, and there are  *)
(* never more than three.                                                  *)
LEMMA NewRun ==
  ASSUME NEW q \in Seq(Run), Len(q) <= 3, NEW x \in Run,
         NEW r, r = LastThree(Append(q, x))
  PROVE  /\ r \in Seq(Run) /\ Len(r) <= 3
         /\ \E k \in {0, 1} :
              /\ Follows(r, q, x, k)
              /\ Len(r) + k = Len(q) + 1
              /\ k = 1 => Len(r) = 3
<1> DEFINE a == Append(q, x)
<1>1. /\ a \in Seq(Run) /\ a # <<>> /\ Len(a) = Len(q) + 1
      /\ \A i \in 1 .. Len(q) : a[i] = q[i]
      /\ a[Len(q) + 1] = x
      /\ Len(q) \in Nat
  BY AppendProperties, LenProperties
<1>2. /\ Tail(a) \in Seq(Run) /\ Len(Tail(a)) = Len(a) - 1
      /\ \A i \in 1 .. Len(Tail(a)) : Tail(a)[i] = a[i + 1]
  BY <1>1, HeadTailProperties
<1>3. r = IF Len(a) > 3 THEN Tail(a) ELSE a
  BY DEF LastThree
<1> HIDE DEF a
<1>4. CASE Len(a) > 3
  <2>1. r = Tail(a)
    BY <1>3, <1>4
  <2>2. Follows(r, q, x, 1)
    BY <2>1, <1>1, <1>2 DEF Follows
  <2>3. Len(r) + 1 = Len(q) + 1 /\ Len(r) = 3
    BY <2>1, <1>1, <1>2, <1>4
  <2>4. QED
    BY <2>1, <2>2, <2>3, <1>2
<1>5. CASE ~(Len(a) > 3)
  <2>1. r = a
    BY <1>3, <1>5
  <2>2. Follows(r, q, x, 0)
    BY <2>1, <1>1 DEF Follows
  <2>3. Len(r) + 0 = Len(q) + 1 /\ Len(r) <= 3
    BY <2>1, <1>1, <1>5
  <2>4. QED
    BY <2>1, <2>2, <2>3, <1>1
<1>6. QED
  BY <1>4, <1>5

RunOf(p) == [dev |-> p.dev, first |-> p.ts, last |-> p.ts]

(* The runs after a pop: the last one goes on, or there is a new one.      *)
Continued(r, q, p) ==
  /\ Len(r) = Len(q) /\ Len(q) >= 1 /\ q[Len(q)].dev = p.dev
  /\ \A i \in 1 .. Len(q) - 1 : r[i] = q[i]
  /\ r[Len(q)] = [dev |-> p.dev, first |-> q[Len(q)].first, last |-> p.ts]

Begun(r, q, p) ==
  /\ Len(q) >= 1 => q[Len(q)].dev # p.dev
  /\ \E k \in {0, 1} : /\ Follows(r, q, RunOf(p), k)
                       /\ Len(r) + k = Len(q) + 1
                       /\ k = 1 => Len(r) = 3

LEMMA RunsAre ==
  ASSUME NEW q \in Seq(Run), Len(q) <= 3,
         NEW p \in Packet, p.dev \in Device, p.ts \in 1 .. MaxTime,
         NEW r, r = RunsWith(q, p)
  PROVE  /\ r \in Seq(Run) /\ Len(r) <= 3 /\ Len(r) \in Nat /\ Len(q) \in Nat
         /\ IF Continues(q, p) THEN Continued(r, q, p) ELSE Begun(r, q, p)
<1>1. Len(q) \in Nat /\ (q # <<>> <=> Len(q) >= 1)
  BY LenProperties, EmptySeq
<1>2. CASE Continues(q, p)
  <2>1. Len(q) \in 1 .. Len(q) /\ q[Len(q)] \in Run /\ q[Len(q)].dev = p.dev
    BY <1>1, <1>2, ElementOfSeq DEF Continues
  <2>2. r = [q EXCEPT ![Len(q)].last = p.ts]
    BY <1>2 DEF RunsWith
  <2>3. r = [q EXCEPT ![Len(q)] = [q[Len(q)] EXCEPT !.last = p.ts]]
    BY <2>2
  <2>4. [q[Len(q)] EXCEPT !.last = p.ts]
          = [dev |-> p.dev, first |-> q[Len(q)].first, last |-> p.ts]
    BY <2>1 DEF Run
  <2>5. [dev |-> p.dev, first |-> q[Len(q)].first, last |-> p.ts] \in Run
    BY <2>1 DEF Run
  <2>6. r \in Seq(Run) /\ Len(r) = Len(q) /\ \A i \in 1 .. Len(q) - 1 : r[i] = q[i]
    BY <1>1, <2>1, <2>3, <2>4, <2>5, ExceptSeq
  <2>7. r[Len(q)] = [dev |-> p.dev, first |-> q[Len(q)].first, last |-> p.ts]
    BY <2>1, <2>3, <2>4
  <2>8. QED
    BY <1>1, <1>2, <2>1, <2>6, <2>7 DEF Continued
<1>3. CASE ~Continues(q, p)
  <2>1. RunOf(p) \in Run
    BY DEF RunOf, Run
  <2>2. r = LastThree(Append(q, RunOf(p)))
    BY <1>3 DEF RunsWith, RunOf
  <2>3. /\ r \in Seq(Run) /\ Len(r) <= 3
        /\ \E k \in {0, 1} : /\ Follows(r, q, RunOf(p), k)
                             /\ Len(r) + k = Len(q) + 1
                             /\ k = 1 => Len(r) = 3
    BY <2>1, <2>2, NewRun
  <2>4. Len(r) \in Nat
    BY <2>3, LenProperties
  <2>5. Len(q) >= 1 => q[Len(q)].dev # p.dev
    BY <1>1, <1>3 DEF Continues
  <2>6. QED
    BY <1>1, <1>3, <2>3, <2>4, <2>5 DEF Begun
<1>4. QED
  BY <1>2, <1>3

(* What a pop does to the stream. *)
LEMMA PopFacts ==
  ASSUME TypeOK, NEW r \in Reader, Pop(r)
  PROVE  /\ Head(fifo) = fifo[1] /\ fifo[1] \in Stamped
         /\ Len(fifo) \in Nat \ {0} /\ fifo' \in Seq(Stamped)
         /\ Len(fifo') = Len(fifo) - 1
         /\ \A i \in 1 .. Len(fifo') : fifo'[i] = fifo[i + 1]
         /\ delivered' = [delivered EXCEPT ![fifo[1].dev] = fifo[1].ts]
         /\ fifo[1] \in Packet /\ fifo[1].dev \in Device /\ fifo[1].ts \in 1 .. MaxTime
<1>1. fifo \in Seq(Stamped) /\ fifo # <<>> /\ fifo' = Tail(fifo)
  BY DEF Pop, Stream!Pop, TypeOK, Stamped
<1>2. /\ Head(fifo) = fifo[1] /\ fifo' \in Seq(Stamped) /\ Len(fifo') = Len(fifo) - 1
      /\ \A i \in 1 .. Len(fifo') : fifo'[i] = fifo[i + 1]
      /\ Len(fifo) \in Nat \ {0} /\ fifo[1] \in Stamped
  BY <1>1, HeadTailProperties, LenProperties, ElementOfSeq
<1>3. fifo[1] \in Packet /\ fifo[1].dev \in Device /\ fifo[1].ts \in 1 .. MaxTime
  BY <1>2, FusionAssumption DEF Stamped, Packet
<1>4. QED
  BY <1>2, <1>3 DEF Pop, Stream!Pop

LEMMA PopTypeOK ==
  ASSUME TypeOK, NEW r \in Reader, Pop(r)
  PROVE  TypeOK'
<1>1. fifo' \in Seq(Stamped) /\ Len(fifo') <= Capacity
  <2>1. fifo' \in Seq(Stamped) /\ Len(fifo') = Len(fifo) - 1 /\ Len(fifo) \in Nat
    BY PopFacts
  <2>2. Len(fifo) <= Capacity
    BY DEF TypeOK
  <2>3. QED
    BY <2>1, <2>2, FusionAssumption
<1>2. delivered' \in [Device -> 0 .. MaxTime]
  <2>1. /\ delivered' = [delivered EXCEPT ![fifo[1].dev] = fifo[1].ts]
        /\ fifo[1].ts \in 0 .. MaxTime
    BY PopFacts, FusionAssumption
  <2>2. delivered \in [Device -> 0 .. MaxTime]
    BY DEF TypeOK
  <2>3. QED
    BY <2>1, <2>2
<1>3. win' \in [1 .. 3 -> Packet]
  <2>1. Head(fifo) \in Packet
    BY PopFacts
  <2>2. QED
    BY <2>1 DEF Pop, TypeOK
<1>4. popped' \in Seq(Run) /\ Len(popped') <= 3
  <2>1. /\ fifo[1] \in Packet /\ fifo[1].dev \in Device /\ fifo[1].ts \in 1 .. MaxTime
        /\ popped' = RunsWith(popped, fifo[1])
    BY PopFacts DEF Pop
  <2>2. popped \in Seq(Run) /\ Len(popped) <= 3
    BY DEF TypeOK
  <2>3. QED
    BY <2>1, <2>2, RunsAre
<1>5. /\ pc' \in [Reader -> {"idle", "pop", "examine", "emit", "interpolate", "slide"}]
      /\ ordered' \in BOOLEAN
  BY DEF Pop, TypeOK
<1>6. UNCHANGED <<now, taken, phase, by, frame, fused>>
  BY DEF Pop, Stream!Pop
<1>7. QED
  BY <1>1, <1>2, <1>3, <1>4, <1>5, <1>6 DEF TypeOK, Stamped

(* A reader that interpolates has copied a frame. *)
FrameInv == \A r \in Reader : pc[r] = "interpolate" => frame[r] \in Frame

LEMMA ReaderTypeOK ==
  ASSUME TypeOK, FrameInv, NEW r \in Reader,
         (\E d \in Device : Call(r, d)) \/ Pop(r) \/ Examine(r) \/ Emit(r)
           \/ Interpolate(r) \/ Return(r)
  PROVE  TypeOK'
<1> USE DEF TypeOK
<1>1. ASSUME NEW d \in Device, Call(r, d) PROVE TypeOK'
  BY <1>1 DEF Call, streamVars
<1>2. CASE Pop(r)
  BY <1>2, PopTypeOK
<1>3. CASE Examine(r) \/ Return(r)
  <2>1. win' \in [1 .. 3 -> Packet]
    BY <1>3, Shapes DEF Examine, Return, Again
  <2>2. pc' \in [Reader -> {"idle", "pop", "examine", "emit", "interpolate", "slide"}]
    BY <1>3 DEF Examine, Return, Again
  <2>3. QED
    BY <1>3, <2>1, <2>2 DEF Examine, Return, streamVars
<1>4. CASE Emit(r) \/ Interpolate(r)
  <2>1. \A i \in 1 .. 3 : \A d \in Device :
          Side(win[i], d) \in [valid : BOOLEAN, ts : 0 .. MaxTime]
    BY PacketFacts, FusionAssumption DEF Side, Valid
  <2>2. Other(by[r]) \in Device /\ by[r] \in Device
    BY DEF Other, Device
  <2>3. CASE Emit(r)
    <3>1. Side(win[2], by[r]).ts \in 0 .. MaxTime
      BY <2>1, <2>2
    <3>2. /\ Side(win[2], by[r]) \in [valid : BOOLEAN, ts : 0 .. MaxTime]
          /\ Side(win[2], Other(by[r])) \in [valid : BOOLEAN, ts : 0 .. MaxTime]
          /\ 0 \in 0 .. MaxTime
      BY <2>1, <2>2, FusionAssumption
    <3>3. CopyOf(win[2], by[r]) \in Frame
      BY <2>2, <3>2 DEF CopyOf, Frame
    <3>4. QED
      BY <2>2, <2>3, <3>1, <3>3 DEF Emit, streamVars
  <2>4. CASE Interpolate(r) /\ frame[r] \in Frame
    <3> DEFINE p == Side(win[1], Other(by[r]))
               n == Side(win[3], Other(by[r]))
               t == frame[r].truth.ts
    <3>1. /\ p \in [valid : BOOLEAN, ts : 0 .. MaxTime]
          /\ n \in [valid : BOOLEAN, ts : 0 .. MaxTime] /\ t \in 0 .. MaxTime
      BY <2>1, <2>2, <2>4 DEF Frame
    <3>2. Outer(win, Other(by[r]), t) = Interpolated(p, n, t)
      BY DEF Outer
    <3> HIDE DEF p, n, t
    <3>3. Interpolated(p, n, t) \in [valid : BOOLEAN, ts : 0 .. MaxTime,
                                     from : 0 .. MaxTime, to : 0 .. MaxTime]
      BY <3>1 DEF Interpolated
    <3>4. frame' = [frame EXCEPT ![r].other = Interpolated(p, n, t)]
      BY <2>4, <3>2 DEF Interpolate, t
    <3>5. [frame[r] EXCEPT !.other = Interpolated(p, n, t)] \in Frame
      BY <2>4, <3>3 DEF Frame
    <3>6. frame' \in [Reader -> Frame \union {NoSample}]
      BY <3>4, <3>5
    <3>7. QED
      BY <2>4, <3>6 DEF Interpolate, streamVars
  <2>5. Interpolate(r) => frame[r] \in Frame
    BY DEF Interpolate, FrameInv
  <2>6. QED
    BY <1>4, <2>3, <2>4, <2>5
<1>5. QED
  BY <1>1, <1>2, <1>3, <1>4

LEMMA StepTypeOK == TypeOK /\ FrameInv /\ [Next]_vars => TypeOK'
<1> SUFFICES ASSUME TypeOK, FrameInv, [Next]_vars PROVE TypeOK'
  OBVIOUS
<1>1. CASE UNCHANGED vars
  BY <1>1 DEF TypeOK, vars
<1>2. QED
  BY <1>1, AcquireTypeOK, ControlTypeOK, ReaderTypeOK DEF Next

LEMMA StepFrameInv == TypeOK /\ TypeOK' /\ FrameInv /\ [Next]_vars => FrameInv'
<1> SUFFICES ASSUME TypeOK, TypeOK', FrameInv, [Next]_vars PROVE FrameInv'
  OBVIOUS
<1>1. CASE UNCHANGED <<pc, frame>>
  BY <1>1 DEF FrameInv
<1>2. ASSUME NEW r \in Reader, UNCHANGED frame,
             \A q \in Reader \ {r} : pc'[q] = pc[q], pc'[r] # "interpolate"
      PROVE  FrameInv'
  BY <1>2 DEF FrameInv
<1>3. ASSUME NEW r \in Reader, Emit(r)
      PROVE  FrameInv'
  <2>1. /\ \A q \in Reader \ {r} : pc'[q] = pc[q] /\ frame'[q] = frame[q]
        /\ frame'[r] = CopyOf(win[2], by[r])
    BY <1>3 DEF Emit, TypeOK
  <2>2. CopyOf(win[2], by[r]) \in Frame
    BY PacketFacts, FusionAssumption DEF CopyOf, Frame, Side, Valid, TypeOK, Other, Device
  <2>3. QED
    BY <2>1, <2>2 DEF FrameInv
<1>4. ASSUME NEW r \in Reader, Interpolate(r)
      PROVE  FrameInv'
  <2>1. /\ \A q \in Reader \ {r} : pc'[q] = pc[q] /\ frame'[q] = frame[q]
        /\ pc'[r] = "slide"
    BY <1>4 DEF Interpolate, TypeOK
  <2>2. QED
    BY <2>1 DEF FrameInv
<1>5. ASSUME NEW r \in Reader,
             (\E d \in Device : Call(r, d)) \/ Pop(r) \/ Examine(r) \/ Return(r)
      PROVE  FrameInv'
  <2>1. /\ UNCHANGED frame /\ pc'[r] # "interpolate"
        /\ \A q \in Reader \ {r} : pc'[q] = pc[q]
    BY <1>5 DEF Call, Pop, Examine, Again, Return, TypeOK
  <2>2. QED
    BY <1>2, <2>1
<1>6. QED
  BY <1>1, <1>3, <1>4, <1>5 DEF Next, vars, readVars, Acquire, EnableAccel, EnableGyro,
     EnableFails, EnableClearsWindow, Disable

(* Every variable keeps its type, for any number of readers that call at   *)
(* any time.                                                               *)
THEOREM TypeCorrect == Spec => []TypeOK
<1>1. Init => FrameInv
  BY DEF Init, FrameInv
<1>2. TypeOK /\ FrameInv /\ [Next]_vars => TypeOK' /\ FrameInv'
  BY StepTypeOK, StepFrameInv
<1>3. QED
  BY <1>1, <1>2, InitTypeOK, PTL DEF Spec

-----------------------------------------------------------------------------
(* The stream.  What a device has on its way is later than all of it that  *)
(* waits in the FIFO, which is in order and later than what was popped.    *)
StreamInv ==
  /\ \A d \in Device : taken[d] # NoSample => Stream!Fresh(d, taken[d])
  /\ \A i \in 1 .. Len(fifo) :
       /\ delivered[fifo[i].dev] < fifo[i].ts
       /\ \A j \in 1 .. i - 1 : fifo[j].dev = fifo[i].dev => fifo[j].ts < fifo[i].ts

LEMMA InitStreamInv == Init => StreamInv
<1>1. Len(<<>>) = 0
  OBVIOUS
<1>2. QED
  BY <1>1 DEF Init, Stream!Init, StreamInv

LEMMA AcquireStreamInv ==
  ASSUME TypeOK, StreamInv, Acquire
  PROVE  StreamInv'
<1> USE DEF Stream!Fresh
<1>1. CASE Stream!Event
  BY <1>1 DEF Stream!Event, StreamInv
<1>2. ASSUME NEW d \in Device, Stream!Take(d)
      PROVE  StreamInv'
  <2>1. PICK ts \in 1 .. now : Stream!Fresh(d, ts) /\ taken' = [taken EXCEPT ![d] = ts]
    BY <1>2 DEF Stream!Take
  <2>2. \A e \in Device : taken'[e] = IF e = d THEN ts ELSE taken[e]
    BY <2>1 DEF TypeOK
  <2>3. UNCHANGED <<fifo, delivered>>
    BY <1>2 DEF Stream!Take
  <2>4. QED
    BY <2>1, <2>2, <2>3 DEF StreamInv
<1>3. ASSUME NEW d \in Device, Stream!Lose(d)
      PROVE  StreamInv'
  BY <1>3 DEF Stream!Lose, StreamInv, TypeOK
<1>4. ASSUME NEW d \in Device, Stream!Push(d)
      PROVE  StreamInv'
  <2> DEFINE x == [dev |-> d, ts |-> taken[d]]
  <2>1. /\ taken[d] # NoSample /\ delivered' = delivered
        /\ taken' = [taken EXCEPT ![d] = NoSample]
        /\ fifo' = Stream!Queue!Put(fifo, Capacity, Policy, x)
    BY <1>4 DEF Stream!Push
  <2>2. x \in Stamped /\ x.dev = d /\ x.ts = taken[d]
    BY <2>1 DEF TypeOK, Stamped
  <2>3. fifo \in Seq(Stamped) /\ Len(fifo) <= Capacity /\ Len(fifo) \in Nat
    BY LenProperties DEF TypeOK, Stamped
  <2>4. taken \in [Device -> 1 .. MaxTime \union {NoSample}]
    BY DEF TypeOK
  <2> HIDE DEF x
  <2>5. fifo' \in Seq(Stamped) /\ \E k \in {0, 1} : Follows(fifo', fifo, x, k)
    BY <2>1, <2>2, <2>3, PutShape
  <2>6. PICK k \in {0, 1} : Follows(fifo', fifo, x, k)
    BY <2>5
  <2>7. Len(fifo') \in Nat
    BY <2>5, LenProperties
  <2>8. /\ Stream!Fresh(d, x.ts)
        /\ \A i \in 1 .. Len(fifo) : fifo[i].dev = d => fifo[i].ts < x.ts
    BY <2>1, <2>2 DEF StreamInv
  <2>9. ASSUME NEW e \in Device, taken'[e] # NoSample
        PROVE  Stream!Fresh(e, taken[e])'
    <3>1. e # d /\ taken'[e] = taken[e]
      BY <2>1, <2>4, <2>9
    <3>2. Stream!Fresh(e, taken[e])
      BY <2>9, <3>1 DEF StreamInv
    <3>3. ASSUME NEW i \in 1 .. Len(fifo'), fifo'[i].dev = e
          PROVE  taken[e] > fifo'[i].ts
      <4>1. i + k <= Len(fifo) /\ fifo'[i] = fifo[i + k] /\ i + k \in 1 .. Len(fifo)
        BY <2>2, <2>3, <2>6, <2>7, <3>1, <3>3 DEF Follows
      <4>2. QED
        BY <3>2, <3>3, <4>1
    <3>4. QED
      BY <2>1, <3>1, <3>2, <3>3
  <2>10. ASSUME NEW i \in 1 .. Len(fifo')
         PROVE  /\ delivered[fifo'[i].dev] < fifo'[i].ts
                /\ \A j \in 1 .. i - 1 : fifo'[j].dev = fifo'[i].dev => fifo'[j].ts < fifo'[i].ts
    <3>1. ASSUME NEW j \in 1 .. i - 1
          PROVE  j + k \in 1 .. Len(fifo) /\ fifo'[j] = fifo[j + k]
      <4>1. j \in 1 .. Len(fifo') /\ j + k \in 1 .. Len(fifo)
        BY <2>3, <2>6, <2>7 DEF Follows
      <4>2. QED
        BY <2>6, <4>1 DEF Follows
    <3>2. CASE i + k <= Len(fifo)
      <4>1. i + k \in 1 .. Len(fifo) /\ fifo'[i] = fifo[i + k]
        BY <2>3, <2>6, <2>7, <3>2 DEF Follows
      <4>2. \A j \in 1 .. i - 1 : j + k \in 1 .. (i + k) - 1
        BY <2>7
      <4>3. QED
        BY <3>1, <4>1, <4>2 DEF StreamInv
    <3>3. CASE ~(i + k <= Len(fifo))
      <4>1. fifo'[i] = x
        BY <2>6, <3>3 DEF Follows
      <4>2. QED
        BY <2>2, <2>8, <3>1, <4>1
    <3>4. QED
      BY <3>2, <3>3
  <2>11. QED
    BY <2>1, <2>9, <2>10 DEF StreamInv
<1>5. QED
  BY <1>1, <1>2, <1>3, <1>4 DEF Acquire

(* A popped sample is later than all of its device that were popped before *)
(* it; what stays behind is later still.                                   *)
LEMMA PopStreamInv ==
  ASSUME TypeOK, StreamInv, NEW r \in Reader, Pop(r)
  PROVE  StreamInv'
<1>1. /\ fifo[1] \in Stamped /\ fifo[1].dev \in Device /\ fifo[1].ts \in 1 .. MaxTime
      /\ Len(fifo) \in Nat \ {0} /\ Len(fifo') = Len(fifo) - 1
      /\ \A i \in 1 .. Len(fifo') : fifo'[i] = fifo[i + 1]
      /\ delivered' = [delivered EXCEPT ![fifo[1].dev] = fifo[1].ts]
  BY PopFacts
<1>2. delivered \in [Device -> 0 .. MaxTime] /\ taken' = taken
  BY DEF TypeOK, Pop, Stream!Pop
<1>3. \A i \in 1 .. Len(fifo') : i + 1 \in 1 .. Len(fifo) /\ 1 \in 1 .. (i + 1) - 1
  BY <1>1
<1>4. ASSUME NEW i \in 1 .. Len(fifo')
      PROVE  /\ delivered'[fifo'[i].dev] < fifo'[i].ts
             /\ \A j \in 1 .. i - 1 : fifo'[j].dev = fifo'[i].dev => fifo'[j].ts < fifo'[i].ts
  <2>1. /\ delivered[fifo'[i].dev] < fifo'[i].ts
        /\ fifo[1].dev = fifo'[i].dev => fifo[1].ts < fifo'[i].ts
    BY <1>1, <1>3 DEF StreamInv
  <2>2. ASSUME NEW j \in 1 .. i - 1, fifo'[j].dev = fifo'[i].dev
        PROVE  fifo'[j].ts < fifo'[i].ts
    <3>1. j + 1 \in 1 .. (i + 1) - 1 /\ fifo'[j] = fifo[j + 1]
      BY <1>1
    <3>2. QED
      BY <1>1, <1>3, <2>2, <3>1 DEF StreamInv
  <2>3. QED
    BY <1>1, <1>2, <2>1, <2>2
<1>5. ASSUME NEW d \in Device, taken[d] # NoSample
      PROVE  Stream!Fresh(d, taken[d])'
  <2>1. Stream!Fresh(d, taken[d])
    BY <1>5 DEF StreamInv
  <2>2. 1 \in 1 .. Len(fifo)
    BY <1>1
  <2>3. QED
    BY <1>1, <1>2, <1>3, <2>1, <2>2 DEF Stream!Fresh
<1>6. QED
  BY <1>2, <1>4, <1>5 DEF StreamInv

LEMMA StepStreamInv == TypeOK /\ StreamInv /\ [Next]_vars => StreamInv'
<1> SUFFICES ASSUME TypeOK, StreamInv, [Next]_vars PROVE StreamInv'
  OBVIOUS
<1>1. CASE UNCHANGED streamVars
  BY <1>1 DEF StreamInv, Stream!Fresh, streamVars
<1>2. CASE Acquire
  BY <1>2, AcquireStreamInv
<1>3. ASSUME NEW r \in Reader, Pop(r) PROVE StreamInv'
  BY <1>3, PopStreamInv
<1>4. [Next]_vars => \/ UNCHANGED streamVars \/ Acquire
                     \/ \E r \in Reader : Pop(r)
  BY DEF Next, vars, streamVars, EnableAccel, EnableGyro, EnableFails,
         EnableClearsWindow, Disable, Call, Examine, Emit, Interpolate, Return
<1>5. QED
  BY <1>1, <1>2, <1>3, <1>4

(***************************************************************************)
(* The window, for one reader that waits for rdk_imu_enable to return.     *)
(* Between Pop and Return (Busy) its three packets are three different     *)
(* ones; otherwise the last is about to be overwritten.                    *)
(***************************************************************************)
SoleReader == \E r : Reader = {r}

Busy(r) == pc[r] \in {"examine", "emit", "interpolate", "slide"}

(* The middle packet was copied out and is still there. *)
Copied(r) == pc[r] \in {"interpolate", "slide"}

(* Of one device, q is later than p. *)
Before(p, q) == p.dev \in Device /\ p.dev = q.dev => p.ts < q.ts

(* What is in the window was popped, in the order of the positions, and    *)
(* what may still be returned as truth is later than what has been.        *)
WindowInv ==
  /\ phase # "on" => Idle
  /\ \A d \in Device : fused[d] <= delivered[d]
  /\ \A i \in 1 .. 3 : win[i].dev \in Device => win[i].ts <= delivered[win[i].dev]
  /\ Before(win[1], win[2])
  /\ \A r \in Reader :
       /\ Busy(r) => /\ Before(win[2], win[3]) /\ Before(win[1], win[3])
                     /\ win[3].dev \in Device /\ win[3].ts > fused[win[3].dev]
       /\ ~Copied(r) /\ win[2].dev \in Device => win[2].ts > fused[win[2].dev]
       /\ pc[r] \in {"emit", "interpolate"} =>
            Initialised(win) /\ ~TooOld(win) /\ ~Overlaps(win) /\ Matches(win, by[r])
       /\ pc[r] = "interpolate" => frame[r].truth = Side(win[2], by[r])

LEMMA InitWindowInv == Init => WindowInv
<1> SUFFICES ASSUME Init PROVE WindowInv
  OBVIOUS
<1>1. \A i \in 1 .. 3 : win[i] = Blank
  BY Shapes DEF Init
<1>2. Blank.dev \notin Device
  BY DEF Blank, Device
<1>3. QED
  BY <1>1, <1>2 DEF Init, Stream!Init, WindowInv, Idle, Busy, Copied, Before

(* Filling the FIFO, and switching the device on and off, leave the        *)
(* readers alone; the window is cleared while none of them is busy.        *)
LEMMA OutsideWindowInv ==
  ASSUME TypeOK, WindowInv, ~ReadsAnytime,
         \/ Acquire \/ EnableAccel \/ EnableGyro \/ EnableFails
         \/ EnableClearsWindow \/ Disable
  PROVE  WindowInv'
<1>1. CASE Acquire
  <2>1. UNCHANGED <<delivered, phase, win, pc, by, frame, popped, ordered, fused>>
    BY <1>1 DEF Acquire, readVars, Stream!Event, Stream!Take, Stream!Lose, Stream!Push
  <2>2. QED
    BY <2>1 DEF WindowInv, Idle, Busy, Copied
<1>2. CASE EnableAccel \/ EnableGyro \/ EnableFails \/ Disable
  <2>1. /\ UNCHANGED <<delivered, win, pc, by, frame, fused>>
        /\ phase' # "on" => phase # "on" \/ Idle
    BY <1>2 DEF EnableAccel, EnableGyro, EnableFails, Disable, streamVars, readVars
  <2>2. QED
    BY <2>1 DEF WindowInv, Idle, Busy, Copied
<1>3. CASE EnableClearsWindow
  <2>1. /\ UNCHANGED <<delivered, pc, fused>> /\ phase # "on" /\ phase' = "on"
        /\ win' = <<Blank, Blank, Blank>>
    BY <1>3 DEF EnableClearsWindow, streamVars
  <2>2. \A i \in 1 .. 3 : win'[i] = Blank
    BY <2>1, Shapes DEF TypeOK
  <2>3. Blank.dev \notin Device
    BY DEF Blank, Device
  <2>4. \A r \in Reader : pc'[r] = "idle"
    BY <2>1 DEF WindowInv, Idle
  <2>5. QED
    BY <2>1, <2>2, <2>3, <2>4 DEF WindowInv, Busy, Copied, Before
<1>4. QED
  BY <1>1, <1>2, <1>3

LEMMA CallWindowInv ==
  ASSUME TypeOK, WindowInv, ~ReadsAnytime, NEW r \in Reader, Reader = {r},
         NEW d \in Device, Call(r, d)
  PROVE  WindowInv'
<1>1. /\ UNCHANGED <<delivered, phase, win, fused>> /\ phase = "on"
      /\ pc[r] = "idle" /\ pc'[r] = "pop"
  BY DEF Call, streamVars, TypeOK
<1>2. QED
  BY <1>1 DEF WindowInv, Busy, Copied

(* The sample popped is later than all of its device in the window, which  *)
(* were popped before it, and than what was returned of its device.        *)
LEMMA PopWindowInv ==
  ASSUME TypeOK, StreamInv, WindowInv, NEW r \in Reader, Reader = {r}, Pop(r)
  PROVE  WindowInv'
<1> DEFINE x == fifo[1]
<1>1. /\ x \in Packet /\ x.dev \in Device /\ x.ts \in 1 .. MaxTime
      /\ delivered' = [delivered EXCEPT ![x.dev] = x.ts]
      /\ win' = [win EXCEPT ![3] = x]
      /\ pc[r] = "pop" /\ pc'[r] = "examine" /\ UNCHANGED <<phase, fused>>
  BY PopFacts DEF Pop, TypeOK
<1>2. delivered[x.dev] < x.ts
  BY PopFacts DEF StreamInv
<1> HIDE DEF x
<1>3. /\ delivered \in [Device -> 0 .. MaxTime] /\ fused \in [Device -> 0 .. MaxTime]
      /\ win \in [1 .. 3 -> Packet]
      /\ \A i \in 1 .. 3 : win[i].ts \in 0 .. MaxTime
  BY PacketFacts DEF TypeOK
<1>4. \A d \in Device : delivered[d] <= delivered'[d]
  BY <1>1, <1>2, <1>3, FusionAssumption
<1>5. win'[1] = win[1] /\ win'[2] = win[2] /\ win'[3] = x
  BY <1>1, <1>3
<1>6. /\ \A d \in Device : fused[d] <= delivered[d]
      /\ \A i \in 1 .. 3 : win[i].dev \in Device => win[i].ts <= delivered[win[i].dev]
      /\ Before(win[1], win[2])
      /\ win[2].dev \in Device => win[2].ts > fused[win[2].dev]
      /\ phase = "on"
  BY <1>1 DEF WindowInv, Idle, Copied
<1>7. \A d \in Device : fused'[d] <= delivered'[d]
  <2> SUFFICES ASSUME NEW d \in Device PROVE fused[d] <= delivered'[d]
    BY <1>1
  <2>1. fused[d] <= delivered[d] /\ delivered[d] <= delivered'[d]
    BY <1>4, <1>6
  <2>2. fused[d] \in Int /\ delivered[d] \in Int /\ delivered'[d] \in Int
    BY <1>1, <1>3
  <2>3. QED
    BY <2>1, <2>2
<1>8. \A i \in 1 .. 3 : win'[i].dev \in Device => win'[i].ts <= delivered'[win'[i].dev]
  BY <1>1, <1>3, <1>2, <1>5, <1>6
<1>9. Before(win[1], x) /\ Before(win[2], x) /\ x.ts > fused[x.dev]
  BY <1>1, <1>2, <1>3, <1>6 DEF Before
<1>10. QED
  BY <1>1, <1>5, <1>6, <1>7, <1>8, <1>9 DEF WindowInv, Busy, Copied

LEMMA ExamineWindowInv ==
  ASSUME TypeOK, WindowInv, NEW r \in Reader, Reader = {r}, Examine(r)
  PROVE  WindowInv'
<1>1. /\ UNCHANGED <<delivered, phase, by, fused>> /\ pc[r] = "examine"
      /\ win \in [1 .. 3 -> Packet]
      /\ pc \in [Reader -> {"idle", "pop", "examine", "emit", "interpolate", "slide"}]
  BY DEF Examine, streamVars, TypeOK
<1>2. /\ phase = "on"
      /\ \A i \in 1 .. 3 : win[i].dev \in Device => win[i].ts <= delivered[win[i].dev]
      /\ Before(win[1], win[2]) /\ Before(win[2], win[3]) /\ Before(win[1], win[3])
      /\ win[3].ts > fused[win[3].dev]
      /\ \A d \in Device : fused[d] <= delivered[d]
  BY <1>1 DEF WindowInv, Idle, Busy, Copied
<1>3. CASE win' \in {Slide(win), Merge(win)} /\ pc'[r] = "pop"
  <2>1. \A i \in 1 .. 3 : \E j \in 1 .. 3 : win'[i] = win[j]
    BY <1>1, <1>3, Shapes
  <2>2. Before(win'[1], win'[2]) /\ win'[2] = win[3]
    BY <1>1, <1>2, <1>3, Shapes
  <2>3. QED
    BY <1>1, <1>2, <1>3, <2>1, <2>2 DEF WindowInv, Busy, Copied
<1>4. CASE /\ Initialised(win) /\ ~TooOld(win) /\ ~Overlaps(win) /\ Matches(win, by[r])
           /\ pc'[r] = "emit" /\ UNCHANGED win
  BY <1>1, <1>2, <1>4 DEF WindowInv, Busy, Copied
<1>5. QED
  BY <1>1, <1>3, <1>4 DEF Examine, Again

(* Emitting records the middle packet as returned; the last one is of the  *)
(* other device and not touched by that.                                   *)
LEMMA EmitWindowInv ==
  ASSUME TypeOK, WindowInv, NEW r \in Reader, Reader = {r}, Emit(r)
  PROVE  WindowInv'
<1>1. /\ UNCHANGED <<delivered, phase, by, win>> /\ pc[r] = "emit" /\ pc'[r] = "interpolate"
      /\ win \in [1 .. 3 -> Packet] /\ by[r] \in Device
      /\ fused' = [fused EXCEPT ![by[r]] = Side(win[2], by[r]).ts]
      /\ fused \in [Device -> 0 .. MaxTime] /\ frame'[r] = CopyOf(win[2], by[r])
  BY DEF Emit, streamVars, TypeOK
<1>2. /\ phase = "on" /\ win[3].dev \in Device /\ Initialised(win) /\ Matches(win, by[r])
      /\ ~TooOld(win) /\ ~Overlaps(win)
      /\ \A i \in 1 .. 3 : win[i].dev \in Device => win[i].ts <= delivered[win[i].dev]
      /\ Before(win[1], win[2]) /\ Before(win[2], win[3]) /\ Before(win[1], win[3])
      /\ win[3].ts > fused[win[3].dev]
      /\ \A d \in Device : fused[d] <= delivered[d]
  BY <1>1 DEF WindowInv, Idle, Busy, Copied
<1>3. win[2].dev = by[r] /\ win[3].dev = Other(by[r]) /\ Other(by[r]) # by[r]
  BY <1>1, <1>2, MatchedDevices DEF Other, Device
<1>4. Side(win[2], by[r]).ts = win[2].ts /\ frame'[r].truth = Side(win[2], by[r])
  BY <1>1, <1>3 DEF CopyOf, Side, Valid
<1>5. fused'[by[r]] = win[2].ts /\ fused'[win[3].dev] = fused[win[3].dev]
  BY <1>1, <1>2, <1>3, <1>4
<1>6. \A d \in Device : fused'[d] <= delivered[d]
  BY <1>1, <1>2, <1>3, <1>4
<1>7. QED
  BY <1>1, <1>2, <1>4, <1>5, <1>6 DEF WindowInv, Busy, Copied

LEMMA InterpolateWindowInv ==
  ASSUME TypeOK, WindowInv, NEW r \in Reader, Reader = {r}, Interpolate(r)
  PROVE  WindowInv'
<1>1. /\ UNCHANGED <<delivered, phase, by, win, fused>>
      /\ pc[r] = "interpolate" /\ pc'[r] = "slide"
  BY DEF Interpolate, streamVars, TypeOK
<1>2. QED
  BY <1>1 DEF WindowInv, Idle, Busy, Copied

LEMMA ReturnWindowInv ==
  ASSUME TypeOK, WindowInv, NEW r \in Reader, Reader = {r}, Return(r)
  PROVE  WindowInv'
<1>1. /\ UNCHANGED <<delivered, phase, by, fused>> /\ pc[r] = "slide" /\ pc'[r] = "idle"
      /\ win \in [1 .. 3 -> Packet] /\ win' = Slide(win)
  BY DEF Return, streamVars, TypeOK
<1>2. /\ phase = "on"
      /\ \A i \in 1 .. 3 : win[i].dev \in Device => win[i].ts <= delivered[win[i].dev]
      /\ Before(win[2], win[3])
      /\ win[3].ts > fused[win[3].dev]
      /\ \A d \in Device : fused[d] <= delivered[d]
  BY <1>1 DEF WindowInv, Idle, Busy, Copied
<1>3. win'[1] = win[2] /\ win'[2] = win[3] /\ win'[3] = win[3]
  BY <1>1, Shapes
<1>4. \A i \in 1 .. 3 : win'[i].dev \in Device => win'[i].ts <= delivered[win'[i].dev]
  BY <1>2, <1>3
<1>5. QED
  BY <1>1, <1>2, <1>3, <1>4 DEF WindowInv, Busy, Copied

LEMMA StepWindowInv ==
  ASSUME SoleReader, ~ReadsAnytime, TypeOK, StreamInv, WindowInv, [Next]_vars
  PROVE  WindowInv'
<1>1. PICK r : Reader = {r}
  BY DEF SoleReader
<1>2. CASE UNCHANGED vars
  BY <1>2 DEF vars, WindowInv, Idle, Busy, Copied
<1>3. CASE \/ Acquire \/ EnableAccel \/ EnableGyro \/ EnableFails
           \/ EnableClearsWindow \/ Disable
  BY <1>3, OutsideWindowInv
<1>4. CASE \/ (\E d \in Device : Call(r, d)) \/ Pop(r) \/ Examine(r) \/ Emit(r)
           \/ Interpolate(r) \/ Return(r)
  BY <1>1, <1>4, CallWindowInv, PopWindowInv, ExamineWindowInv, EmitWindowInv,
     InterpolateWindowInv, ReturnWindowInv
<1>5. QED
  BY <1>1, <1>2, <1>3, <1>4 DEF Next

-----------------------------------------------------------------------------
(* The window holds the ends of the last runs: always that of the last,    *)
(* that of the one before it beside a sample that begins a run, and that   *)
(* of the run before a run that was merged, as far as no sample of the     *)
(* merged run was too old for it.                                          *)
Single(q) == q.first = q.last

(* The end of p stays in the first place while q is popped. *)
Held(p, q) == Single(q) \/ (p.last <= q.first /\ q.last <= p.last + MaxAge)

EndOf(p, q) == p.dev = q.dev /\ p.ts = q.last

HistoryInv ==
  LET n == Len(popped) IN
  /\ \A i \in 1 .. n : /\ popped[i].first <= popped[i].last
                       /\ popped[i].last <= delivered[popped[i].dev]
  /\ \A i \in 2 .. n : popped[i - 1].dev # popped[i].dev
  /\ \A r \in Reader :
       /\ ~Busy(r) =>
            /\ n >= 1 => EndOf(win[2], popped[n])
            /\ n >= 2 /\ Held(popped[n - 1], popped[n]) => EndOf(win[1], popped[n - 1])
       /\ Busy(r) =>
            /\ n >= 1 => EndOf(win[3], popped[n])
            /\ n >= 1 /\ pc[r] # "examine" => Single(popped[n])
            /\ n >= 2 /\ Single(popped[n]) => EndOf(win[2], popped[n - 1])
            /\ n >= 3 /\ Single(popped[n]) /\ Held(popped[n - 2], popped[n - 1])
                 => EndOf(win[1], popped[n - 2])
            /\ n >= 1 /\ ~Single(popped[n]) => win[2].dev = popped[n].dev
            /\ n >= 2 /\ ~Single(popped[n]) /\ Held(popped[n - 1], popped[n])
                 => EndOf(win[1], popped[n - 1])

LEMMA InitHistoryInv == Init => HistoryInv
<1>1. Len(<<>>) = 0
  OBVIOUS
<1>2. QED
  BY <1>1 DEF Init, HistoryInv, Busy

(* What is known of the runs, whatever the readers do. *)
LEMMA RunFacts ==
  ASSUME TypeOK, NEW i \in 1 .. Len(popped)
  PROVE  /\ popped[i] \in Run /\ popped[i].dev \in Device
         /\ popped[i].first \in Int /\ popped[i].last \in Int
         /\ delivered[popped[i].dev] \in Int
<1>1. popped[i] \in Run
  BY ElementOfSeq DEF TypeOK
<1>2. /\ popped[i].dev \in Device
      /\ popped[i].first \in 1 .. MaxTime /\ popped[i].last \in 1 .. MaxTime
  BY <1>1 DEF Run
<1>3. delivered[popped[i].dev] \in 0 .. MaxTime
  BY <1>2 DEF TypeOK
<1>4. QED
  BY <1>1, <1>2, <1>3, FusionAssumption

(* The sample popped goes on with the last run. *)
LEMMA ContinueHistoryInv ==
  ASSUME TypeOK, StreamInv, HistoryInv, NEW r \in Reader, Reader = {r}, Pop(r),
         Continues(popped, fifo[1])
  PROVE  HistoryInv'
<1> DEFINE x == fifo[1]
           n == Len(popped)
<1>1. /\ x \in Packet /\ x.dev \in Device /\ x.ts \in 1 .. MaxTime
      /\ win' = [win EXCEPT ![3] = x] /\ popped' = RunsWith(popped, x)
      /\ delivered' = [delivered EXCEPT ![x.dev] = x.ts]
      /\ pc[r] = "pop" /\ pc'[r] = "examine"
  BY PopFacts DEF Pop, TypeOK
<1>2. delivered[x.dev] < x.ts
  BY PopFacts DEF StreamInv
<1>3. /\ win \in [1 .. 3 -> Packet] /\ popped \in Seq(Run) /\ n <= 3
      /\ delivered \in [Device -> 0 .. MaxTime]
  BY DEF TypeOK
<1>4. win'[1] = win[1] /\ win'[2] = win[2] /\ win'[3] = x
  BY <1>1, <1>3
<1>5. Continues(popped, x)
  OBVIOUS
<1> HIDE DEF x
<1>6. /\ n \in Nat /\ Len(popped') = n /\ n >= 1 /\ popped[n].dev = x.dev
      /\ \A i \in 1 .. n - 1 : popped'[i] = popped[i]
      /\ popped'[n] = [dev |-> x.dev, first |-> popped[n].first, last |-> x.ts]
  <2>1. Continued(popped', popped, x) /\ Len(popped) \in Nat
    BY <1>1, <1>3, <1>5, RunsAre
  <2>2. QED
    BY <2>1 DEF Continued
<1>7. popped'[n].dev = x.dev /\ popped'[n].first = popped[n].first /\ popped'[n].last = x.ts
  BY <1>6
<1>8. /\ \A i \in 1 .. n : /\ popped[i].first <= popped[i].last
                           /\ popped[i].last <= delivered[popped[i].dev]
      /\ \A i \in 2 .. n : popped[i - 1].dev # popped[i].dev
      /\ EndOf(win[2], popped[n])
      /\ n >= 2 /\ Held(popped[n - 1], popped[n]) => EndOf(win[1], popped[n - 1])
  BY <1>1, <1>6 DEF HistoryInv, Busy
<1>9. /\ popped[n].first \in Int /\ popped[n].last \in Int /\ x.ts \in Int
      /\ popped[n].first <= popped[n].last /\ popped[n].last < x.ts
  <2>1. n \in 1 .. n
    BY <1>6
  <2>2. popped[n].last <= delivered[x.dev] /\ popped[n].first <= popped[n].last
    BY <1>6, <1>8, <2>1
  <2>3. popped[n].first \in Int /\ popped[n].last \in Int
    BY <2>1, RunFacts
  <2>4. x.ts \in Int /\ delivered[x.dev] \in Int
    BY <1>1, <1>3
  <2>5. QED
    BY <1>2, <2>2, <2>3, <2>4
<1>10. ~Single(popped'[n])
  BY <1>7, <1>9 DEF Single
<1>11. n >= 2 /\ Held(popped'[n - 1], popped'[n]) => EndOf(win'[1], popped'[n - 1])
  <2> SUFFICES ASSUME n >= 2, Held(popped'[n - 1], popped'[n])
               PROVE  EndOf(win'[1], popped'[n - 1])
    OBVIOUS
  <2>1. n - 1 \in 1 .. n - 1 /\ popped'[n - 1] = popped[n - 1]
    BY <1>6
  <2>2. popped[n - 1].last \in Int
    BY <1>6, <2>1, RunFacts
  <2>3. popped[n - 1].last <= popped[n].first /\ x.ts <= popped[n - 1].last + MaxAge
    BY <1>7, <1>10, <2>1 DEF Held
  <2>4. popped[n].last <= popped[n - 1].last + MaxAge
    BY <1>9, <2>2, <2>3, FusionAssumption
  <2>5. Held(popped[n - 1], popped[n])
    BY <2>3, <2>4 DEF Held
  <2>6. QED
    BY <1>4, <1>8, <2>1, <2>5
<1>12. ASSUME NEW i \in 1 .. n
       PROVE  /\ popped'[i].first <= popped'[i].last
              /\ popped'[i].last <= delivered'[popped'[i].dev]
  <2>1. CASE i = n
    BY <1>1, <1>3, <1>7, <1>9, <2>1
  <2>2. CASE i # n
    <3>1. i \in 1 .. n - 1 /\ popped'[i] = popped[i]
      BY <1>6, <2>2
    <3>2. /\ popped[i].last <= delivered[popped[i].dev] /\ popped[i].first <= popped[i].last
          /\ popped[i].dev \in Device /\ popped[i].last \in Int
          /\ delivered[popped[i].dev] \in Int
      BY <1>8, RunFacts
    <3>3. \/ delivered'[popped[i].dev] = delivered[popped[i].dev]
          \/ popped[i].dev = x.dev /\ delivered'[popped[i].dev] = x.ts
      BY <1>1, <1>3, <3>2
    <3>4. popped[i].last <= delivered'[popped[i].dev]
      BY <1>2, <1>9, <3>2, <3>3
    <3>5. QED
      BY <3>1, <3>2, <3>4
  <2>3. QED
    BY <2>1, <2>2
<1>13. \A i \in 2 .. n : popped'[i - 1].dev # popped'[i].dev
  <2> SUFFICES ASSUME NEW i \in 2 .. n PROVE popped'[i - 1].dev # popped'[i].dev
    OBVIOUS
  <2>1. i - 1 \in 1 .. n - 1 /\ popped'[i - 1] = popped[i - 1] /\ popped[i - 1].dev # popped[i].dev
    BY <1>6, <1>8
  <2>2. popped'[i].dev = popped[i].dev
    BY <1>6, <1>7
  <2>3. QED
    BY <2>1, <2>2
<1>14. EndOf(win'[3], popped'[n]) /\ win'[2].dev = popped'[n].dev
  BY <1>4, <1>6, <1>7, <1>8 DEF EndOf
<1> HIDE DEF n
<1>15. /\ Len(popped') = n /\ Busy(r)' /\ pc'[r] = "examine"
  BY <1>1, <1>6 DEF Busy
<1>16. QED
  BY <1>10, <1>11, <1>12, <1>13, <1>14, <1>15 DEF HistoryInv

(* The sample popped begins a run. *)
LEMMA BeginHistoryInv ==
  ASSUME TypeOK, StreamInv, HistoryInv, NEW r \in Reader, Reader = {r}, Pop(r),
         ~Continues(popped, fifo[1])
  PROVE  HistoryInv'
<1> DEFINE x == fifo[1]
           n == Len(popped)
           m == Len(popped')
<1>1. /\ x \in Packet /\ x.dev \in Device /\ x.ts \in 1 .. MaxTime
      /\ win' = [win EXCEPT ![3] = x] /\ popped' = RunsWith(popped, x)
      /\ delivered' = [delivered EXCEPT ![x.dev] = x.ts]
      /\ pc[r] = "pop" /\ pc'[r] = "examine"
  BY PopFacts DEF Pop, TypeOK
<1>2. delivered[x.dev] < x.ts
  BY PopFacts DEF StreamInv
<1>3. /\ win \in [1 .. 3 -> Packet] /\ popped \in Seq(Run) /\ n <= 3
      /\ delivered \in [Device -> 0 .. MaxTime]
  BY DEF TypeOK
<1>4. win'[1] = win[1] /\ win'[2] = win[2] /\ win'[3] = x
  BY <1>1, <1>3
<1>5. ~Continues(popped, x)
  OBVIOUS
<1> HIDE DEF x
<1>6. /\ n \in Nat /\ m \in Nat /\ m <= 3
      /\ n >= 1 => popped[n].dev # x.dev
      /\ \E k \in {0, 1} : /\ Follows(popped', popped, RunOf(x), k)
                           /\ m + k = n + 1
                           /\ k = 1 => m = 3
  <2>1. /\ Begun(popped', popped, x)
        /\ Len(popped) \in Nat /\ Len(popped') \in Nat /\ Len(popped') <= 3
    BY <1>1, <1>3, <1>5, RunsAre
  <2>2. QED
    BY <2>1 DEF Begun
<1>7. PICK k \in {0, 1} : /\ Follows(popped', popped, RunOf(x), k)
                          /\ m + k = n + 1
                          /\ k = 1 => m = 3
  BY <1>6
<1>8. \A i \in 1 .. m : popped'[i] = IF i + k <= n THEN popped[i + k] ELSE RunOf(x)
  BY <1>7 DEF Follows
<1>9. /\ \A i \in 1 .. n : /\ popped[i].first <= popped[i].last
                           /\ popped[i].last <= delivered[popped[i].dev]
      /\ \A i \in 2 .. n : popped[i - 1].dev # popped[i].dev
      /\ n >= 1 => EndOf(win[2], popped[n])
      /\ n >= 2 /\ Held(popped[n - 1], popped[n]) => EndOf(win[1], popped[n - 1])
  BY <1>1 DEF HistoryInv, Busy
<1>10. /\ RunOf(x).dev = x.dev /\ RunOf(x).first = x.ts /\ RunOf(x).last = x.ts
       /\ x.ts \in Int
  BY <1>1 DEF RunOf
<1>11. ASSUME NEW i \in 1 .. m
       PROVE  /\ popped'[i].first <= popped'[i].last
              /\ popped'[i].last <= delivered'[popped'[i].dev]
  <2>1. CASE ~(i + k <= n)
    BY <1>1, <1>3, <1>8, <1>10, <2>1
  <2>2. CASE i + k <= n
    <3>1. i + k \in 1 .. n /\ popped'[i] = popped[i + k]
      BY <1>6, <1>8, <2>2
    <3>2. PICK j \in 1 .. n : popped'[i] = popped[j]
      BY <3>1
    <3>3. /\ popped[j].last <= delivered[popped[j].dev] /\ popped[j].first <= popped[j].last
          /\ popped[j].dev \in Device /\ popped[j].last \in Int
          /\ delivered[popped[j].dev] \in Int
      BY <1>9, RunFacts
    <3>4. \/ delivered'[popped[j].dev] = delivered[popped[j].dev]
          \/ popped[j].dev = x.dev /\ delivered'[popped[j].dev] = x.ts
      BY <1>1, <1>3, <3>3
    <3>5. popped[j].last <= delivered'[popped[j].dev]
      BY <1>2, <1>10, <3>3, <3>4
    <3>6. QED
      BY <3>2, <3>3, <3>5
  <2>3. QED
    BY <2>1, <2>2
<1>12. \A i \in 2 .. m : popped'[i - 1].dev # popped'[i].dev
  <2> SUFFICES ASSUME NEW i \in 2 .. m PROVE popped'[i - 1].dev # popped'[i].dev
    OBVIOUS
  <2>1. i - 1 \in 1 .. m /\ i \in 1 .. m /\ (i - 1) + k <= n
    BY <1>6, <1>7
  <2>2. popped'[i - 1] = popped[(i - 1) + k]
    BY <1>8, <2>1
  <2>3. CASE i + k <= n
    <3>1. popped'[i] = popped[i + k]
      BY <1>8, <2>1, <2>3
    <3>2. i + k \in 2 .. n /\ (i + k) - 1 = (i - 1) + k
      BY <1>6, <2>1, <2>3
    <3>3. QED
      BY <1>9, <2>2, <3>1, <3>2
  <2>4. CASE ~(i + k <= n)
    <3>1. popped'[i] = RunOf(x) /\ (i - 1) + k = n /\ n >= 1
      BY <1>6, <1>7, <1>8, <2>1, <2>4
    <3>2. QED
      BY <1>6, <1>10, <2>2, <3>1
  <2>5. QED
    BY <2>3, <2>4
<1>13. m >= 1 /\ popped'[m] = RunOf(x)
  <2>1. m >= 1 /\ ~(m + k <= n)
    BY <1>6, <1>7
  <2>2. QED
    BY <1>6, <1>8, <2>1
<1>14. m >= 2 => n >= 1 /\ popped'[m - 1] = popped[n]
  BY <1>6, <1>7, <1>8
<1>15. m >= 3 => n >= 2 /\ popped'[m - 2] = popped[n - 1]
  BY <1>6, <1>7, <1>8
<1>16. Single(popped'[m]) /\ EndOf(win'[3], popped'[m])
  BY <1>4, <1>10, <1>13 DEF Single, EndOf
<1>17. m >= 2 => EndOf(win'[2], popped'[m - 1])
  BY <1>4, <1>9, <1>14
<1>18. m >= 3 /\ Held(popped'[m - 2], popped'[m - 1]) => EndOf(win'[1], popped'[m - 2])
  BY <1>4, <1>6, <1>9, <1>14, <1>15
<1>19. Busy(r)' /\ pc'[r] = "examine"
  BY <1>1 DEF Busy
<1>20. QED
  BY <1>11, <1>12, <1>16, <1>17, <1>18, <1>19 DEF HistoryInv

(* A merge happens only within a run, and then nothing of the runs changes *)
(* its place; everything else moves on.                                    *)
LEMMA MoveHistoryInv ==
  ASSUME TypeOK, HistoryInv, NEW r \in Reader, Reader = {r}, Examine(r) \/ Return(r)
  PROVE  HistoryInv'
<1> DEFINE n == Len(popped)
<1>1. /\ UNCHANGED <<popped, delivered>> /\ win \in [1 .. 3 -> Packet] /\ Busy(r) /\ n \in Nat
      /\ pc \in [Reader -> {"idle", "pop", "examine", "emit", "interpolate", "slide"}]
  BY LenProperties DEF Examine, Return, TypeOK, Busy, streamVars
<1>2. /\ n >= 1 => EndOf(win[3], popped[n])
      /\ n >= 1 /\ pc[r] # "examine" => Single(popped[n])
      /\ n >= 2 /\ Single(popped[n]) => EndOf(win[2], popped[n - 1])
      /\ n >= 1 /\ ~Single(popped[n]) => win[2].dev = popped[n].dev
      /\ n >= 2 /\ ~Single(popped[n]) /\ Held(popped[n - 1], popped[n])
           => EndOf(win[1], popped[n - 1])
      /\ \A i \in 1 .. n : popped[i].first <= popped[i].last
      /\ \A i \in 2 .. n : popped[i - 1].dev # popped[i].dev
  BY <1>1 DEF HistoryInv
<1>3. n >= 1 /\ Overlaps(win) => (n >= 2 => ~Single(popped[n]))
  <2> SUFFICES ASSUME n >= 2, Overlaps(win), Single(popped[n]) PROVE FALSE
    OBVIOUS
  <2>1. popped[n - 1].dev \in Device /\ popped[n].dev \in Device
        /\ popped[n - 1].dev # popped[n].dev
    BY <1>1, <1>2, RunFacts
  <2>2. win[2].dev = popped[n - 1].dev /\ win[3].dev = popped[n].dev
    BY <1>2 DEF EndOf
  <2>3. QED
    BY <2>1, <2>2 DEF Overlaps, SameSide, Valid, Device
(* A run held is merged: the samples of it are not too old. *)
<1>4. ASSUME n >= 2, ~Single(popped[n]), Held(popped[n - 1], popped[n])
      PROVE  Initialised(win) /\ ~TooOld(win) /\ Overlaps(win)
  <2>1. /\ n - 1 \in 1 .. n /\ n \in 1 .. n
        /\ popped[n - 1].dev \in Device /\ popped[n].dev \in Device
        /\ popped[n - 1].last \in Int /\ popped[n].first \in Int /\ popped[n].last \in Int
    BY <1>1, <1>4, RunFacts
  <2>2. /\ win[1].dev = popped[n - 1].dev /\ win[1].ts = popped[n - 1].last
        /\ win[3].dev = popped[n].dev /\ win[3].ts = popped[n].last
        /\ win[2].dev = popped[n].dev
    BY <1>2, <1>4, <2>1 DEF EndOf
  <2>3. /\ popped[n - 1].last <= popped[n].first
        /\ popped[n].last <= popped[n - 1].last + MaxAge
        /\ popped[n].first <= popped[n].last
    BY <1>2, <1>4, <2>1 DEF Held
  <2>4. Span(win) = popped[n].last - popped[n - 1].last
    BY <1>1, <2>1, <2>2, <2>3, SpanIs
  <2>5. ~TooOld(win)
    BY <2>1, <2>3, <2>4, FusionAssumption DEF TooOld
  <2>6. Initialised(win) /\ Overlaps(win)
    BY <2>1, <2>2 DEF Initialised, Overlaps, SameSide, Valid, Device
  <2>7. QED
    BY <2>5, <2>6
<1>5. CASE /\ win' = Slide(win) /\ ~Busy(r)'
           /\ pc[r] # "examine" \/ ~Initialised(win) \/ TooOld(win) \/ ~Overlaps(win)
  <2>1. win'[1] = win[2] /\ win'[2] = win[3]
    BY <1>1, <1>5, Shapes
  <2>2. n >= 2 /\ Held(popped[n - 1], popped[n]) => Single(popped[n])
    BY <1>2, <1>4, <1>5
  <2>3. n >= 2 /\ Held(popped[n - 1], popped[n]) => EndOf(win'[1], popped[n - 1])
    BY <1>2, <2>1, <2>2
  <2>4. n >= 1 => EndOf(win'[2], popped[n])
    BY <1>2, <2>1
  <2> HIDE DEF n
  <2>5. QED
    BY <1>1, <1>5, <2>3, <2>4 DEF HistoryInv, n
<1>6. CASE win' = Merge(win) /\ ~Busy(r)' /\ Overlaps(win)
  <2>1. win'[1] = win[1] /\ win'[2] = win[3]
    BY <1>1, <1>6, Shapes
  <2>2. n >= 2 /\ Held(popped[n - 1], popped[n]) => EndOf(win'[1], popped[n - 1])
    BY <1>1, <1>2, <1>3, <1>6, <2>1
  <2>3. n >= 1 => EndOf(win'[2], popped[n])
    BY <1>2, <2>1
  <2>4. QED
    BY <1>1, <1>6, <2>2, <2>3 DEF HistoryInv
<1>7. CASE Busy(r)' /\ pc'[r] # "examine" /\ UNCHANGED win /\ Initialised(win) /\ ~TooOld(win)
           /\ ~Overlaps(win) /\ pc[r] = "examine"
  <2>1. n >= 1 => Single(popped[n])
    <3> SUFFICES ASSUME n >= 1, ~Single(popped[n]) PROVE FALSE
      OBVIOUS
    <3>1. win[2].dev = win[3].dev
      BY <1>2 DEF EndOf
    <3>2. QED
      BY <1>7, <3>1 DEF Overlaps, SameSide, Valid
  <2>2. QED
    BY <1>1, <1>7, <2>1 DEF HistoryInv
<1>8. CASE Examine(r)
  BY <1>1, <1>5, <1>6, <1>7, <1>8 DEF Examine, Again, Busy
<1>9. CASE Return(r)
  BY <1>1, <1>5, <1>9 DEF Return, Busy
<1>10. QED
  BY <1>8, <1>9

LEMMA StepHistoryInv ==
  ASSUME SoleReader, TypeOK, StreamInv, HistoryInv, [Next]_vars
  PROVE  HistoryInv'
<1>1. PICK r : Reader = {r}
  BY DEF SoleReader
<1>2. CASE UNCHANGED <<delivered, win, pc, popped>>
  BY <1>2 DEF HistoryInv, Busy
<1>3. CASE EnableClearsWindow
  <2>1. Len(popped') = 0
    BY <1>3 DEF EnableClearsWindow
  <2>2. QED
    BY <2>1 DEF HistoryInv
<1>4. CASE (\E d \in Device : Call(r, d)) \/ Emit(r) \/ Interpolate(r)
  <2>1. /\ UNCHANGED <<delivered, win, popped>> /\ (Busy(r)' <=> Busy(r))
        /\ pc[r] = "examine" <=> pc'[r] = "examine"
    BY <1>1, <1>4 DEF Call, Emit, Interpolate, Busy, TypeOK, streamVars
  <2>2. QED
    BY <1>1, <2>1 DEF HistoryInv
<1>5. CASE Pop(r)
  BY <1>1, <1>5, ContinueHistoryInv, BeginHistoryInv
<1>6. CASE Examine(r) \/ Return(r)
  BY <1>1, <1>6, MoveHistoryInv
<1>7. QED
  BY <1>1, <1>2, <1>3, <1>4, <1>5, <1>6
  DEF Next, vars, Acquire, readVars, streamVars, EnableAccel, EnableGyro, EnableFails, Disable,
      Stream!Event, Stream!Take, Stream!Lose, Stream!Push

-----------------------------------------------------------------------------
(* As long as samples are popped in the order of their times, the window   *)
(* is in that order too.                                                   *)
OrderedInv ==
  ordered =>
    /\ win[1].ts <= win[2].ts
    /\ \A r \in Reader : Busy(r) => win[2].ts <= win[3].ts

LEMMA InitOrderedInv == Init => OrderedInv
<1> SUFFICES ASSUME Init PROVE OrderedInv
  OBVIOUS
<1>1. \A i \in 1 .. 3 : win[i] = Blank
  BY Shapes DEF Init
<1>2. QED
  BY <1>1 DEF Init, OrderedInv, Blank, Busy

LEMMA StepOrderedInv ==
  ASSUME SoleReader, ~ReadsAnytime, TypeOK, WindowInv, OrderedInv, [Next]_vars
  PROVE  OrderedInv'
<1>1. PICK r : Reader = {r}
  BY DEF SoleReader
<1>2. CASE UNCHANGED <<win, pc, ordered>>
  BY <1>2 DEF OrderedInv, Busy
<1>3. CASE EnableClearsWindow
  <2>1. win' = <<Blank, Blank, Blank>> /\ UNCHANGED <<pc, ordered>> /\ Idle
    BY <1>3 DEF EnableClearsWindow, WindowInv
  <2>2. \A i \in 1 .. 3 : win'[i] = Blank
    BY <2>1, Shapes DEF TypeOK
  <2>3. QED
    BY <2>1, <2>2 DEF OrderedInv, Busy, Blank, Idle
<1>4. CASE (\E d \in Device : Call(r, d)) \/ Emit(r) \/ Interpolate(r)
  <2>1. UNCHANGED <<win, ordered>> /\ (Busy(r)' <=> Busy(r))
    BY <1>1, <1>4 DEF Call, Emit, Interpolate, Busy, TypeOK
  <2>2. QED
    BY <1>1, <2>1 DEF OrderedInv
<1>5. CASE Pop(r)
  <2> DEFINE x == fifo[1]
  <2>1. /\ x \in Packet /\ x.ts \in 1 .. MaxTime /\ win' = [win EXCEPT ![3] = x]
        /\ ordered' => ordered /\ \A d \in Device : delivered[d] <= x.ts
    BY <1>1, <1>5, PopFacts DEF Pop
  <2> HIDE DEF x
  <2>2. /\ win \in [1 .. 3 -> Packet] /\ win[2] \in Packet
        /\ delivered \in [Device -> 0 .. MaxTime]
    BY DEF TypeOK
  <2>3. win'[1] = win[1] /\ win'[2] = win[2] /\ win'[3] = x
    BY <2>1, <2>2
  <2>4. ordered' => win[2].ts <= x.ts
    <3>1. CASE win[2].dev \in Device
      <4>1. win[2].ts <= delivered[win[2].dev]
        BY <3>1 DEF WindowInv
      <4>2. /\ win[2].ts \in Int /\ delivered[win[2].dev] \in Int /\ x.ts \in Int
        BY <2>1, <2>2, <3>1, PacketFacts
      <4>3. QED
        BY <2>1, <3>1, <4>1, <4>2
    <3>2. CASE win[2].dev = "none"
      BY <2>1, <2>2, <3>2, PacketFacts
    <3>3. QED
      BY <2>2, <3>1, <3>2, PacketFacts
  <2>5. QED
    BY <1>1, <2>1, <2>3, <2>4 DEF OrderedInv
<1>6. CASE Examine(r) \/ Return(r)
  <2>1. /\ UNCHANGED ordered /\ win \in [1 .. 3 -> Packet] /\ Busy(r)
        /\ pc \in [Reader -> {"idle", "pop", "examine", "emit", "interpolate", "slide"}]
    BY <1>1, <1>6 DEF Examine, Return, TypeOK, Busy
  <2>2. ordered => win[1].ts <= win[2].ts /\ win[2].ts <= win[3].ts
    BY <1>1, <2>1 DEF OrderedInv
  <2>3. CASE win' \in {Slide(win), Merge(win)} /\ ~Busy(r)'
    <3>1. /\ win'[1] \in {win[1], win[2]} /\ win'[2] = win[3]
          /\ \A i \in 1 .. 3 : win[i].ts \in Int
      BY <2>1, <2>3, Shapes, PacketFacts
    <3>2. QED
      BY <1>1, <2>1, <2>2, <2>3, <3>1 DEF OrderedInv
  <2>4. CASE Busy(r)' /\ UNCHANGED win
    BY <1>1, <2>1, <2>4 DEF OrderedInv
  <2>5. QED
    BY <1>1, <1>6, <2>1, <2>3, <2>4 DEF Examine, Return, Again, Busy
<1>7. QED
  BY <1>1, <1>2, <1>3, <1>4, <1>5, <1>6
  DEF Next, vars, Acquire, readVars, EnableAccel, EnableGyro, EnableFails, Disable

-----------------------------------------------------------------------------
(***************************************************************************)
(* What is promised to one reader; nothing protects the window from a      *)
(* second one.  The frames also need one that waits for rdk_imu_enable and *)
(* rdk_imu_disable to return: the run fusion_reenable shows one that does  *)
(* not.                                                                    *)
(***************************************************************************)
LEMMA StreamAlways == Spec => []StreamInv
BY InitStreamInv, StepStreamInv, TypeCorrect, PTL DEF Spec

LEMMA WindowAlways == ASSUME SoleReader, ~ReadsAnytime PROVE Spec => []WindowInv
<1>1. TypeOK /\ StreamInv /\ WindowInv /\ [Next]_vars => WindowInv'
  BY StepWindowInv
<1>2. QED
  BY <1>1, InitWindowInv, TypeCorrect, StreamAlways, PTL DEF Spec

LEMMA HistoryAlways == ASSUME SoleReader PROVE Spec => []HistoryInv
<1>1. TypeOK /\ StreamInv /\ HistoryInv /\ [Next]_vars => HistoryInv'
  BY StepHistoryInv
<1>2. QED
  BY <1>1, InitHistoryInv, TypeCorrect, StreamAlways, PTL DEF Spec

LEMMA OrderedAlways == ASSUME SoleReader, ~ReadsAnytime PROVE Spec => []OrderedInv
<1>1. TypeOK /\ WindowInv /\ OrderedInv /\ [Next]_vars => OrderedInv'
  BY StepOrderedInv
<1>2. QED
  BY <1>1, InitOrderedInv, TypeCorrect, WindowAlways, PTL DEF Spec

(* The window a frame is emitted from. *)
LEMMA EmittedWindow ==
  ASSUME TypeOK, WindowInv, NEW r \in Reader, pc[r] \in {"emit", "interpolate"}
  PROVE  /\ by[r] \in Device /\ Other(by[r]) \in Device
         /\ win[1].dev = Other(by[r]) /\ win[2].dev = by[r] /\ win[3].dev = Other(by[r])
         /\ win[1].ts < win[3].ts /\ win[3].ts <= win[1].ts + MaxAge
         /\ pc[r] = "emit" => win[2].ts > fused[by[r]]
<1>1. win \in [1 .. 3 -> Packet] /\ by[r] \in Device /\ Other(by[r]) \in Device
  BY DEF TypeOK, Other, Device
<1>2. /\ win[3].dev \in Device /\ Initialised(win) /\ Matches(win, by[r])
      /\ ~TooOld(win) /\ Before(win[1], win[3])
      /\ pc[r] = "emit" /\ win[2].dev \in Device => win[2].ts > fused[win[2].dev]
  BY DEF WindowInv, Busy, Copied
<1>3. win[1].dev = Other(by[r]) /\ win[2].dev = by[r] /\ win[3].dev = Other(by[r])
  BY <1>1, <1>2, MatchedDevices
<1>4. win[1].ts < win[3].ts
  BY <1>1, <1>2, <1>3 DEF Before
<1>5. win[1].ts \in Int /\ win[3].ts \in Int
  BY <1>1, PacketFacts
<1>6. Span(win) = win[3].ts - win[1].ts
  BY <1>1, <1>4, <1>5, SpanIs
<1>7. win[3].ts <= win[1].ts + MaxAge
  BY <1>2, <1>5, <1>6, FusionAssumption DEF TooOld
<1>8. QED
  BY <1>1, <1>2, <1>3, <1>4, <1>7

(* A frame is made from a sample of the device fused by and two of the     *)
(* other, a later one and an earlier one at most max_age_ns apart.  That   *)
(* the unsigned difference the code tests is the distance needs the order  *)
(* of the outer packets, and so of all that was popped before.             *)
THEOREM FramesFromFittingWindow ==
  ASSUME SoleReader, ~ReadsAnytime PROVE Spec => []FusionWindow
<1>1. TypeOK /\ WindowInv => FusionWindow
  <2> SUFFICES ASSUME TypeOK, WindowInv, NEW r \in Reader, pc[r] \in {"emit", "interpolate"}
               PROVE  /\ Valid(win[1], Other(by[r])) /\ Valid(win[2], by[r])
                      /\ Valid(win[3], Other(by[r]))
                      /\ win[1].ts < win[3].ts /\ win[3].ts <= win[1].ts + MaxAge
    BY DEF FusionWindow
  <2>1. QED
    BY EmittedWindow DEF Valid
<1>2. QED
  BY <1>1, TypeCorrect, WindowAlways, PTL

(* No sample is returned as truth twice, and those of one device are       *)
(* returned in the order of their times, whatever device the calls in      *)
(* between fuse by and however often the device is switched off and on.    *)
THEOREM TruthsInOrder ==
  ASSUME SoleReader, ~ReadsAnytime PROVE Spec => []FusedInOrder
<1>1. TypeOK /\ WindowInv => FusedInOrder
  BY EmittedWindow DEF FusedInOrder
<1>2. QED
  BY <1>1, TypeCorrect, WindowAlways, PTL

(* What Interpolate makes of the frame: the window is as EmittedWindow     *)
(* says, and the middle packet the one that was copied.                    *)
LEMMA FrameOf ==
  ASSUME TypeOK, FrameInv, WindowInv, NEW r \in Reader, Interpolate(r)
  PROVE  /\ frame'[r].truth.valid /\ frame'[r].other.valid
         /\ frame'[r].other.from = win[1].ts /\ frame'[r].other.ts = win[2].ts
         /\ frame'[r].other.to = win[3].ts
<1> DEFINE o == Other(by[r])
<1>1. /\ pc[r] = "interpolate" /\ frame[r] \in Frame
      /\ frame' = [frame EXCEPT ![r].other = Outer(win, o, frame[r].truth.ts)]
      /\ frame[r].truth = Side(win[2], by[r])
  BY DEF Interpolate, FrameInv, WindowInv
<1>2. win[1].dev = o /\ win[2].dev = by[r] /\ win[3].dev = o
  BY <1>1, EmittedWindow
<1>3. /\ Side(win[1], o).ts = win[1].ts /\ Side(win[1], o).valid
      /\ Side(win[3], o).ts = win[3].ts
      /\ frame[r].truth.valid /\ frame[r].truth.ts = win[2].ts
  <2>1. ASSUME NEW p, NEW d, p.dev = d
        PROVE  Side(p, d).ts = p.ts /\ Side(p, d).valid
    BY <2>1 DEF Side, Valid
  <2>2. QED
    BY <1>1, <1>2, <2>1
<1> HIDE DEF o
<1>4. /\ frame'[r].truth = frame[r].truth
      /\ frame'[r].other = Outer(win, o, win[2].ts)
  BY <1>1, <1>3 DEF TypeOK, Frame
<1>5. /\ Outer(win, o, win[2].ts).valid /\ Outer(win, o, win[2].ts).from = win[1].ts
      /\ Outer(win, o, win[2].ts).ts = win[2].ts /\ Outer(win, o, win[2].ts).to = win[3].ts
  BY <1>3 DEF Outer, Interpolated
<1>6. QED
  BY <1>3, <1>4, <1>5

(* Only the reader that interpolates completes a frame. *)
LEMMA FramesChange ==
  ASSUME TypeOK, [Next]_vars
  PROVE  \A q \in Reader : Completed(q)' =>
           \/ Interpolate(q) /\ UNCHANGED ordered
           \/ Completed(q) /\ frame'[q] = frame[q] /\ (ordered' => ordered)
<1> SUFFICES ASSUME NEW q \in Reader, Completed(q)'
             PROVE  \/ Interpolate(q) /\ UNCHANGED ordered
                    \/ Completed(q) /\ frame'[q] = frame[q] /\ (ordered' => ordered)
  OBVIOUS
<1>1. CASE UNCHANGED <<pc, frame, ordered>>
  BY <1>1 DEF Completed
<1>2. ASSUME NEW r \in Reader,
             \/ (\E d \in Device : Call(r, d)) \/ Pop(r) \/ Examine(r) \/ Emit(r)
             \/ Interpolate(r) \/ Return(r)
      PROVE  \/ Interpolate(q) /\ UNCHANGED ordered
             \/ Completed(q) /\ frame'[q] = frame[q] /\ (ordered' => ordered)
  <2>1. ordered' => ordered
    BY <1>2 DEF Call, Pop, Examine, Emit, Interpolate, Return
  <2>2. CASE r # q
    <3>1. frame'[q] = frame[q] /\ pc'[q] = pc[q]
      BY <1>2, <2>2 DEF Call, Pop, Examine, Again, Emit, Interpolate, Return, TypeOK
    <3>2. QED
      BY <2>1, <3>1 DEF Completed
  <2>3. CASE r = q /\ (Emit(r) \/ Interpolate(r))
    BY <2>3 DEF Emit, Interpolate, Completed, TypeOK
  <2>4. CASE r = q /\ ~Emit(r) /\ ~Interpolate(r)
    <3>1. frame' = frame /\ pc[q] # "interpolate"
      BY <1>2, <2>4 DEF Call, Pop, Examine, Return
    <3>2. QED
      BY <2>1, <3>1 DEF Completed
  <2>5. QED
    BY <2>2, <2>3, <2>4
<1>3. QED
  BY <1>1, <1>2 DEF Next, vars, readVars, Acquire, EnableAccel, EnableGyro, EnableFails,
     EnableClearsWindow, Disable

LEMMA FrameAlways == Spec => []FrameInv
<1>1. Init => FrameInv
  BY DEF Init, FrameInv
<1>2. TypeOK /\ TypeOK' /\ FrameInv /\ [Next]_vars => FrameInv'
  BY StepFrameInv
<1>3. QED
  BY <1>1, <1>2, TypeCorrect, PTL DEF Spec

(* No frame is returned with an invalid side: interpolate_3axis copies the *)
(* validity of the earlier sample when the two timestamps are equal.       *)
THEOREM FramesComplete ==
  ASSUME SoleReader, ~ReadsAnytime PROVE Spec => []FrameComplete
<1>1. Init => FrameComplete
  BY DEF Init, FrameComplete, Completed
<1>2. TypeOK /\ FrameInv /\ WindowInv /\ FrameComplete /\ [Next]_vars => FrameComplete'
  BY FramesChange, FrameOf DEF FrameComplete
<1>3. QED
  BY <1>1, <1>2, TypeCorrect, FrameAlways, WindowAlways, PTL DEF Spec

(* As long as samples are popped in the order of their times, frames are   *)
(* interpolated and not extrapolated.                                      *)
THEOREM FramesInterpolated ==
  ASSUME SoleReader, ~ReadsAnytime PROVE Spec => []TargetBetween
<1>1. Init => TargetBetween
  BY DEF Init, TargetBetween, Completed
<1>2. TypeOK /\ FrameInv /\ WindowInv /\ OrderedInv /\ TargetBetween /\ [Next]_vars
        => TargetBetween'
  <2> SUFFICES ASSUME TypeOK, FrameInv, WindowInv, OrderedInv, TargetBetween, [Next]_vars,
                      ordered', NEW q \in Reader, Completed(q)'
               PROVE  /\ frame'[q].other.from <= frame'[q].other.ts
                      /\ frame'[q].other.ts <= frame'[q].other.to
    BY DEF TargetBetween
  <2>1. CASE Interpolate(q) /\ ordered
    <3>1. win[1].ts <= win[2].ts /\ win[2].ts <= win[3].ts
      BY <2>1 DEF Interpolate, OrderedInv, Busy
    <3>2. QED
      BY <2>1, <3>1, FrameOf
  <2>2. CASE Completed(q) /\ frame'[q] = frame[q] /\ ordered
    BY <2>2 DEF TargetBetween
  <2>3. QED
    BY <2>1, <2>2, FramesChange
<1>3. QED
  BY <1>1, <1>2, TypeCorrect, FrameAlways, WindowAlways, OrderedAlways, PTL DEF Spec

(* The tests of the loop accept a window whose samples are the end of a    *)
(* run, of the run after it and the first of the next one.                 *)
LEMMA FusableIsFused ==
  ASSUME TypeOK, HistoryInv, NEW r \in Reader, Examine(r), Fusable(by[r])
  PROVE  /\ pc'[r] = "emit"
         /\ win[1].ts = popped[1].last /\ win[2].ts = popped[2].last
         /\ win[3].ts = popped[3].first
<1> DEFINE d == by[r]
<1>1. /\ win \in [1 .. 3 -> Packet] /\ d \in Device /\ Busy(r)
      /\ pc \in [Reader -> {"idle", "pop", "examine", "emit", "interpolate", "slide"}]
  BY DEF Examine, TypeOK, Busy
<1>2. /\ Len(popped) = 3
      /\ popped[1].dev = Other(d) /\ popped[2].dev = d /\ popped[3].dev = Other(d)
      /\ popped[3].first = popped[3].last
      /\ popped[1].last <= popped[2].first /\ popped[2].last <= popped[3].first
      /\ popped[3].first <= popped[1].last + MaxAge
  BY DEF Fusable
<1>3. /\ popped[1].last \in Int /\ popped[2].first \in Int /\ popped[2].last \in Int
      /\ popped[3].first \in Int
  BY <1>2, RunFacts
<1>4. popped[2].first <= popped[2].last
  BY <1>2 DEF HistoryInv
<1>5. Single(popped[3]) /\ Held(popped[1], popped[2])
  BY <1>2, <1>3, FusionAssumption DEF Single, Held
<1>6. EndOf(win[1], popped[1]) /\ EndOf(win[2], popped[2]) /\ EndOf(win[3], popped[3])
  BY <1>1, <1>2, <1>5 DEF HistoryInv
<1>7. /\ win[1].dev = Other(d) /\ win[2].dev = d /\ win[3].dev = Other(d)
      /\ win[1].ts = popped[1].last /\ win[2].ts = popped[2].last
      /\ win[3].ts = popped[3].first
  BY <1>2, <1>6 DEF EndOf
<1>8. win[1].ts <= win[3].ts /\ win[3].ts - win[1].ts <= MaxAge
  BY <1>2, <1>3, <1>4, <1>7, FusionAssumption
<1>9. ~TooOld(win)
  <2>1. Span(win) = win[3].ts - win[1].ts
    BY <1>1, <1>8, SpanIs
  <2>2. win[1].ts \in Int /\ win[3].ts \in Int
    BY <1>1, PacketFacts
  <2>3. QED
    BY <1>8, <2>1, <2>2, FusionAssumption DEF TooOld
<1>10. Initialised(win) /\ ~Overlaps(win) /\ Matches(win, d)
  BY <1>1, <1>7 DEF Initialised, Overlaps, Matches, SameSide, Valid, Other, Device
<1>11. QED
  BY <1>1, <1>7, <1>9, <1>10 DEF Examine

(* No sample that ends a run and lies between the runs around it is passed *)
(* over, however many were merged, found too old or slid away before, for  *)
(* a reader that may call while the device is being switched on or off.    *)
THEOREM NothingFusableSkipped ==
  ASSUME SoleReader PROVE Spec => NoFusableSkipped
<1>1. TypeOK /\ HistoryInv /\ [Next]_vars =>
        [\A r \in Reader :
           pc[r] = "examine" /\ pc'[r] # "examine" /\ Fusable(by[r]) =>
             /\ pc'[r] = "emit"
             /\ win[1].ts = popped[1].last /\ win[2].ts = popped[2].last
             /\ win[3].ts = popped[3].first]_vars
  <2> SUFFICES ASSUME TypeOK, HistoryInv, [Next]_vars, NEW r \in Reader,
                      pc[r] = "examine", pc'[r] # "examine", Fusable(by[r])
               PROVE  /\ pc'[r] = "emit"
                      /\ win[1].ts = popped[1].last /\ win[2].ts = popped[2].last
                      /\ win[3].ts = popped[3].first
    OBVIOUS
  <2>1. Reader = {r}
    BY DEF SoleReader
  <2>2. Examine(r)
    BY <2>1 DEF Next, vars, readVars, Acquire, EnableAccel, EnableGyro, EnableFails,
                EnableClearsWindow, Disable, Call, Pop, Emit, Interpolate, Return
  <2>3. QED
    BY <2>2, FusableIsFused
<1>2. QED
  BY <1>1, TypeCorrect, HistoryAlways, PTL DEF Spec, NoFusableSkipped
=============================================================================
