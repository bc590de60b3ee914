--------------------------- MODULE ImuStreamProofs ---------------------------
(***************************************************************************)
(* ImuAcquire implements SampleStream: what the readers of a device with a *)
(* line for each sensor, controlled by one thread, can tell of the two     *)
(* interrupt threads is a stream of later and later samples per sensor.    *)
(*                                                                         *)
(* Every step of a thread is a step of the stream or none: taking an event *)
(* is Take, giving it up is Lose, pushing the sample is Push, a successful *)
(* read is Pop, and all that rdk_imu_enable and rdk_imu_disable do is      *)
(* invisible.                                                              *)
(***************************************************************************)
EXTENDS ImuAcquireProofs

Stamped == [dev : Device, ts : Time]

-----------------------------------------------------------------------------
(* The FIFO as the stream sees it, without the values measured. *)

Seen(x) == [dev |-> x.dev, ts |-> x.ts]
View(q) == [i \in 1 .. Len(q) |-> [dev |-> q[i].dev, ts |-> q[i].ts]]

LEMMA ViewProperties ==
  ASSUME NEW q \in Seq(Sample)
  PROVE  /\ View(q) \in Seq(Stamped) /\ Len(View(q)) = Len(q)
         /\ \A i \in 1 .. Len(q) : View(q)[i] = Seen(q[i])
         /\ View(q) = <<>> <=> q = <<>>
<1>1. Len(q) \in Nat /\ \A i \in 1 .. Len(q) : q[i] \in Sample
  BY LenProperties, ElementOfSeq
<1>2. \A i \in 1 .. Len(q) : Seen(q[i]) \in Stamped
  BY <1>1 DEF Seen, Sample, Stamped
<1>3. View(q) \in [1 .. Len(q) -> Stamped] /\ \A i \in 1 .. Len(q) : View(q)[i] = Seen(q[i])
  BY <1>2 DEF View, Seen
<1>4. View(q) \in Seq(Stamped)
  BY <1>1, <1>3, SeqDef
<1>5. Len(View(q)) = Len(q)
  <2>1. DOMAIN View(q) = 1 .. Len(View(q)) /\ Len(View(q)) \in Nat
    BY <1>4, LenProperties
  <2>2. DOMAIN View(q) = 1 .. Len(q)
    BY <1>3
  <2>3. QED
    BY <1>1, <2>1, <2>2
<1>6. View(q) = <<>> <=> q = <<>>
  BY <1>4, <1>5, EmptySeq
<1>7. QED
  BY <1>3, <1>4, <1>5, <1>6

LEMMA SeenFields ==
  ASSUME NEW x, NEW y, y = Seen(x)
  PROVE  y.dev = x.dev /\ y.ts = x.ts
BY DEF Seen

LEMMA ViewAppend ==
  ASSUME NEW q \in Seq(Sample), NEW x \in Sample
  PROVE  View(Append(q, x)) = Append(View(q), Seen(x))
<1> DEFINE a == Append(q, x)
           b == Append(View(q), Seen(x))
<1>1. /\ a \in Seq(Sample) /\ Len(a) = Len(q) + 1 /\ Len(q) \in Nat
      /\ \A i \in 1 .. Len(q) : a[i] = q[i]
      /\ a[Len(q) + 1] = x
  BY AppendProperties, LenProperties
<1>2. /\ View(q) \in Seq(Stamped) /\ Len(View(q)) = Len(q)
      /\ \A i \in 1 .. Len(q) : View(q)[i] = Seen(q[i])
  BY ViewProperties
<1>3. Seen(x) \in Stamped
  BY DEF Seen, Sample, Stamped
<1>4. /\ b \in Seq(Stamped) /\ Len(b) = Len(q) + 1
      /\ \A i \in 1 .. Len(q) : b[i] = View(q)[i]
      /\ b[Len(q) + 1] = Seen(x)
  BY <1>2, <1>3, AppendProperties
<1> HIDE DEF a, b
<1>5. /\ View(a) \in Seq(Stamped) /\ Len(View(a)) = Len(a)
      /\ \A i \in 1 .. Len(a) : View(a)[i] = Seen(a[i])
  BY <1>1, ViewProperties
<1>6. \A i \in 1 .. Len(View(a)) : View(a)[i] = b[i]
  BY <1>1, <1>2, <1>4, <1>5
<1>7. View(a) = b
  BY <1>1, <1>4, <1>5, <1>6, SeqEqual
<1>8. QED
  BY <1>7 DEF a, b

LEMMA ViewTail ==
  ASSUME NEW q \in Seq(Sample), q # <<>>
  PROVE  View(Tail(q)) = Tail(View(q)) /\ Head(View(q)) = Seen(Head(q))
<1> DEFINE u == Tail(q)
           v == View(q)
<1>1. /\ u \in Seq(Sample) /\ Len(u) = Len(q) - 1 /\ Len(q) \in Nat \ {0}
      /\ \A i \in 1 .. Len(u) : u[i] = q[i + 1]
      /\ Head(q) = q[1]
  BY HeadTailProperties, EmptySeq
<1>2. /\ v \in Seq(Stamped) /\ Len(v) = Len(q) /\ v # <<>>
      /\ \A i \in 1 .. Len(q) : v[i] = Seen(q[i])
  BY ViewProperties
<1> HIDE DEF v
<1>3. /\ Tail(v) \in Seq(Stamped) /\ Len(Tail(v)) = Len(v) - 1
      /\ \A i \in 1 .. Len(Tail(v)) : Tail(v)[i] = v[i + 1]
      /\ Head(v) = v[1]
  BY <1>2, HeadTailProperties
<1> HIDE DEF u
<1>4. /\ View(u) \in Seq(Stamped) /\ Len(View(u)) = Len(u)
      /\ \A i \in 1 .. Len(u) : View(u)[i] = Seen(u[i])
  BY <1>1, ViewProperties
<1>5. \A i \in 1 .. Len(View(u)) : View(u)[i] = Tail(v)[i]
  <2> SUFFICES ASSUME NEW i \in 1 .. Len(View(u)) PROVE View(u)[i] = Tail(v)[i]
    OBVIOUS
  <2>1. i \in 1 .. Len(u) /\ i \in 1 .. Len(Tail(v)) /\ i + 1 \in 1 .. Len(q)
    BY <1>1, <1>2, <1>3, <1>4
  <2>2. View(u)[i] = Seen(u[i]) /\ u[i] = q[i + 1]
    BY <1>1, <1>4, <2>1
  <2>3. Tail(v)[i] = v[i + 1] /\ v[i + 1] = Seen(q[i + 1])
    BY <1>2, <1>3, <2>1
  <2>4. QED
    BY <2>2, <2>3
<1>6. View(u) = Tail(v)
  BY <1>1, <1>2, <1>3, <1>4, <1>5, SeqEqual
<1>7. Head(v) = Seen(Head(q))
  BY <1>1, <1>2, <1>3
<1>8. QED
  BY <1>6, <1>7 DEF u, v

(* Offering a sample and forgetting its value commute. *)
LEMMA ViewPut ==
  ASSUME NEW q \in Seq(Sample), NEW x \in Sample
  PROVE  View(Queue!Put(q, Capacity, FifoMode, x)) =
           Stream!Queue!Put(View(q), Capacity, FifoMode, Seen(x))
<1>1. Len(View(q)) = Len(q) /\ View(Append(q, x)) = Append(View(q), Seen(x))
  BY ViewProperties, ViewAppend
<1>2. Append(q, x) \in Seq(Sample) /\ Append(q, x) # <<>>
  BY AppendProperties
<1>3. View(Tail(Append(q, x))) = Tail(Append(View(q), Seen(x)))
  BY <1>1, <1>2, ViewTail
<1>4. QED
  BY <1>1, <1>3 DEF Queue!Put, Queue!IsFull, Stream!Queue!Put, Stream!Queue!IsFull

-----------------------------------------------------------------------------
(* The sample a device has on its way is the one its thread carries. *)

CarriesIn(p, d, s) == p[<<d, s>>] \in {"read_data", "lock", "push"}

TakenOf(p, e) ==
  [d \in Device |->
     IF \E s \in Slot : CarriesIn(p, d, s)
       THEN e[<<d, CHOOSE s \in Slot : CarriesIn(p, d, s)>>]
       ELSE NoSlot]

LEMMA TakenOne ==
  ASSUME NEW p, NEW e, NEW d \in Device, NEW s \in Slot, CarriesIn(p, d, s),
         \A z \in Slot : CarriesIn(p, d, z) => z = s
  PROVE  TakenOf(p, e)[d] = e[<<d, s>>]
<1>1. (CHOOSE z \in Slot : CarriesIn(p, d, z)) = s
  OBVIOUS
<1>2. QED
  BY <1>1 DEF TakenOf

LEMMA TakenNone ==
  ASSUME NEW p, NEW e, NEW d \in Device, \A s \in Slot : ~CarriesIn(p, d, s)
  PROVE  TakenOf(p, e)[d] = NoSlot
BY DEF TakenOf

(* Of one device no two threads carry a sample. *)
Single(p) ==
  \A d \in Device : \A s, z \in Slot : CarriesIn(p, d, s) /\ CarriesIn(p, d, z) => s = z

LEMMA OwnedSingle == ThreadsOwned => Single(pc)
<1> SUFFICES ASSUME ThreadsOwned, NEW d \in Device, NEW s \in Slot, CarriesIn(pc, d, s)
             PROVE  s = handle[d]
  BY DEF Single
<1>1. <<d, s>> \in Irq /\ pc[<<d, s>>] # "none"
  BY DEF CarriesIn, Irq
<1>2. QED
  BY <1>1 DEF ThreadsOwned

(* Nothing changes for a device whose threads carry what they carried. *)
LEMMA TakenSame ==
  ASSUME Single(pc), NEW d \in Device,
         \A s \in Slot : CarriesIn(pc', d, s) <=> CarriesIn(pc, d, s),
         \A s \in Slot : CarriesIn(pc, d, s) => event'[<<d, s>>] = event[<<d, s>>]
  PROVE  TakenOf(pc', event')[d] = TakenOf(pc, event)[d]
<1>1. CASE \A s \in Slot : ~CarriesIn(pc, d, s)
  BY <1>1, TakenNone
<1>2. ASSUME NEW s \in Slot, CarriesIn(pc, d, s)
      PROVE  TakenOf(pc', event')[d] = TakenOf(pc, event)[d]
  <2>1. \A z \in Slot : CarriesIn(pc, d, z) => z = s
    BY <1>2 DEF Single
  <2>2. TakenOf(pc, event)[d] = event[<<d, s>>]
    BY <1>2, <2>1, TakenOne
  <2>3. CarriesIn(pc', d, s) /\ \A z \in Slot : CarriesIn(pc', d, z) => z = s
    BY <1>2, <2>1
  <2>4. TakenOf(pc', event')[d] = event'[<<d, s>>]
    BY <2>3, TakenOne
  <2>5. QED
    BY <1>2, <2>2, <2>4
<1>3. QED
  BY <1>1, <1>2

LEMMA TakenAllSame ==
  ASSUME NEW p, NEW e, NEW p2, NEW e2,
         \A d \in Device : TakenOf(p2, e2)[d] = TakenOf(p, e)[d]
  PROVE  TakenOf(p2, e2) = TakenOf(p, e)
BY DEF TakenOf

-----------------------------------------------------------------------------
(* The actions of the stream, in terms of TakenOf and View. *)

LEMMA StreamStutter ==
  ASSUME TakenOf(pc, event)' = TakenOf(pc, event), View(fifo)' = View(fifo),
         UNCHANGED <<now, delivered>>
  PROVE  UNCHANGED Stream!vars
BY DEF Stream!vars, TakenOf, CarriesIn, Carrying, View

LEMMA StreamEvent ==
  ASSUME TakenOf(pc, event)' = TakenOf(pc, event), View(fifo)' = View(fifo),
         now' = now + 1, UNCHANGED delivered
  PROVE  Stream!Event
BY DEF Stream!Event, TakenOf, CarriesIn, Carrying, View

LEMMA StreamTake ==
  ASSUME NEW d \in Device, TakenOf(pc, event)[d] = NoSlot, NEW ts \in 1 .. now,
         ts > delivered[d],
         \A i \in 1 .. Len(View(fifo)) : View(fifo)[i].dev = d => ts > View(fifo)[i].ts,
         TakenOf(pc', event') = [TakenOf(pc, event) EXCEPT ![d] = ts],
         View(fifo)' = View(fifo), UNCHANGED <<now, delivered>>
  PROVE  Stream!Take(d)
BY DEF Stream!Take, Stream!Fresh, TakenOf, CarriesIn, Carrying, View

LEMMA StreamLose ==
  ASSUME NEW d \in Device, TakenOf(pc, event)[d] # NoSlot,
         TakenOf(pc', event') = [TakenOf(pc, event) EXCEPT ![d] = NoSlot],
         View(fifo)' = View(fifo), UNCHANGED <<now, delivered>>
  PROVE  Stream!Lose(d)
BY DEF Stream!Lose, TakenOf, CarriesIn, Carrying, View

LEMMA StreamPush ==
  ASSUME NEW d \in Device, TakenOf(pc, event)[d] # NoSlot,
         TakenOf(pc', event') = [TakenOf(pc, event) EXCEPT ![d] = NoSlot],
         View(fifo)' = Stream!Queue!Put(View(fifo), Capacity, FifoMode,
                                        [dev |-> d, ts |-> TakenOf(pc, event)[d]]),
         UNCHANGED <<now, delivered>>
  PROVE  Stream!Push(d)
BY DEF Stream!Push, TakenOf, CarriesIn, Carrying, View

LEMMA StreamPop ==
  ASSUME View(fifo) # <<>>, View(fifo)' = Tail(View(fifo)),
         delivered' = [delivered EXCEPT ![Head(View(fifo)).dev] = Head(View(fifo)).ts],
         TakenOf(pc, event)' = TakenOf(pc, event), UNCHANGED now
  PROVE  Stream!Pop
BY DEF Stream!Pop, TakenOf, CarriesIn, Carrying, View

-----------------------------------------------------------------------------
(* The steps of ImuAcquire. *)

LEMMA CarryingIs == \A d \in Device : \A s \in Slot : CarriesIn(pc, d, s) <=> Carrying(<<d, s>>)
BY DEF CarriesIn, Carrying

(* A step after which every thread carries what it carried before. *)
LEMMA QuietTaken ==
  ASSUME ThreadsOwned,
         \A u \in Irq : /\ pc'[u] \in {"read_data", "lock", "push"} <=> Carrying(u)
                        /\ Carrying(u) => event'[u] = event[u]
  PROVE  TakenOf(pc, event)' = TakenOf(pc, event)
<1>1. ASSUME NEW d \in Device
      PROVE  TakenOf(pc', event')[d] = TakenOf(pc, event)[d]
  <2>1. Single(pc)
    BY OwnedSingle
  <2>2. \A s \in Slot : /\ CarriesIn(pc', d, s) <=> CarriesIn(pc, d, s)
                        /\ CarriesIn(pc, d, s) => event'[<<d, s>>] = event[<<d, s>>]
    <3> SUFFICES ASSUME NEW s \in Slot
                 PROVE  /\ CarriesIn(pc', d, s) <=> CarriesIn(pc, d, s)
                        /\ CarriesIn(pc, d, s) => event'[<<d, s>>] = event[<<d, s>>]
      OBVIOUS
    <3>1. PICK u \in Irq : u = <<d, s>>
      BY DEF Irq
    <3>2. /\ pc'[u] \in {"read_data", "lock", "push"} <=> Carrying(u)
          /\ Carrying(u) => event'[u] = event[u]
      BY DEF Carrying
    <3>3. QED
      BY <3>1, <3>2 DEF CarriesIn, Carrying
  <2>3. QED
    BY <2>1, <2>2, TakenSame
<1>2. TakenOf(pc', event') = TakenOf(pc, event)
  BY <1>1, TakenAllSame
<1>3. QED
  BY <1>2

(* A step of one thread leaves the other device alone, and what was and    *)
(* what is on the way of its own device is read off that thread.           *)
LEMMA OneTaken ==
  ASSUME TypeOK, ThreadsOwned, NEW t \in Irq, pc[t] # "none",
         \A u \in Irq \ {t} : pc'[u] = pc[u] /\ event'[u] = event[u]
  PROVE  /\ t[1] \in Device
         /\ TakenOf(pc, event)[t[1]] = IF Carrying(t) THEN event[t] ELSE NoSlot
         /\ TakenOf(pc', event') =
              [TakenOf(pc, event) EXCEPT ![t[1]] =
                 IF pc'[t] \in {"read_data", "lock", "push"} THEN event'[t] ELSE NoSlot]
<1>1. PICK d \in Device, s \in Slot : t = <<d, s>>
  BY DEF Irq
<1>2. t[1] = d
  BY <1>1
<1>3. \A z \in Slot : CarriesIn(pc, d, z) => z = s
  BY <1>1 DEF ThreadsOwned, Irq, CarriesIn
<1>4. \A z \in Slot : CarriesIn(pc', d, z) => z = s
  <2> SUFFICES ASSUME NEW z \in Slot, z # s, CarriesIn(pc', d, z) PROVE FALSE
    OBVIOUS
  <2>1. <<d, z>> \in Irq \ {t}
    BY <1>1 DEF Irq
  <2>2. CarriesIn(pc, d, z)
    BY <2>1 DEF CarriesIn
  <2>3. QED
    BY <1>3, <2>2
<1>5. TakenOf(pc, event)[d] = IF Carrying(t) THEN event[t] ELSE NoSlot
  <2>1. CarriesIn(pc, d, s) <=> Carrying(t)
    BY <1>1 DEF CarriesIn, Carrying
  <2>2. CASE Carrying(t)
    BY <1>1, <1>3, <2>1, <2>2, TakenOne
  <2>3. CASE ~Carrying(t)
    BY <1>3, <2>1, <2>3, TakenNone
  <2>4. QED
    BY <2>2, <2>3
<1>6. TakenOf(pc', event')[d] =
        IF pc'[t] \in {"read_data", "lock", "push"} THEN event'[t] ELSE NoSlot
  <2>1. CarriesIn(pc', d, s) <=> pc'[t] \in {"read_data", "lock", "push"}
    BY <1>1 DEF CarriesIn
  <2>2. CASE CarriesIn(pc', d, s)
    BY <1>1, <1>4, <2>1, <2>2, TakenOne
  <2>3. CASE ~CarriesIn(pc', d, s)
    BY <1>4, <2>1, <2>3, TakenNone
  <2>4. QED
    BY <2>2, <2>3
<1>7. ASSUME NEW c \in Device \ {d}
      PROVE  TakenOf(pc', event')[c] = TakenOf(pc, event)[c]
  <2>1. Single(pc)
    BY OwnedSingle
  <2>2. \A z \in Slot : <<c, z>> \in Irq \ {t}
    BY <1>1 DEF Irq
  <2>3. \A z \in Slot : /\ CarriesIn(pc', c, z) <=> CarriesIn(pc, c, z)
                        /\ CarriesIn(pc, c, z) => event'[<<c, z>>] = event[<<c, z>>]
    BY <2>2 DEF CarriesIn
  <2>4. QED
    BY <2>1, <2>3, TakenSame
<1> DEFINE f == TakenOf(pc, event)
           g == TakenOf(pc', event')
           x == IF pc'[t] \in {"read_data", "lock", "push"} THEN event'[t] ELSE NoSlot
<1>8. f = [c \in Device |-> f[c]] /\ g = [c \in Device |-> g[c]]
  BY DEF TakenOf
<1>9. g[d] = x /\ \A c \in Device \ {d} : g[c] = f[c]
  BY <1>6, <1>7
<1> HIDE DEF f, g, x
<1>10. [f EXCEPT ![d] = x] = [c \in Device |-> IF c = d THEN x ELSE f[c]]
  BY <1>8
<1>11. g = [f EXCEPT ![d] = x]
  BY <1>8, <1>9, <1>10
<1>12. QED
  BY <1>2, <1>5, <1>11 DEF f, g, x

LEMMA EventNotMarker == TypeOK => \A t \in Irq : event[t] # NoSlot
BY MarkerAssumption DEF TypeOK

StreamStep == Stream!Next \/ UNCHANGED Stream!vars

LEMMA QuietStreamStep ==
  ASSUME ThreadsOwned, UNCHANGED <<fifo, now, delivered>>,
         \A u \in Irq : /\ pc'[u] \in {"read_data", "lock", "push"} <=> Carrying(u)
                        /\ Carrying(u) => event'[u] = event[u]
  PROVE  StreamStep
<1>1. TakenOf(pc, event)' = TakenOf(pc, event)
  BY QuietTaken
<1>2. View(fifo)' = View(fifo)
  OBVIOUS
<1>3. QED
  BY <1>1, <1>2, StreamStutter DEF StreamStep

LEMMA SenseStreamStep ==
  ASSUME ThreadsOwned, NEW d \in Device, Sense(d)
  PROVE  StreamStep
<1>1. UNCHANGED <<pc, event, fifo, delivered>> /\ now' = now + 1
  BY DEF Sense, irqVars
<1>2. TakenOf(pc, event)' = TakenOf(pc, event) /\ View(fifo)' = View(fifo)
  BY <1>1
<1>3. QED
  BY <1>1, <1>2, StreamEvent DEF StreamStep, Stream!Next

LEMMA TakeStreamStep ==
  ASSUME TypeOK, ThreadsOwned, ~SharedLine, OrderInv, NEW t \in Irq, IrqReadEvent(t)
  PROVE  StreamStep
<1> DEFINE d == t[1]
           ts == Head(line[d])
<1>1. d \in Device /\ LineOf(d) = d /\ pc[t] = "read_event" /\ line[d] # <<>>
  BY DEF Irq, LineOf, IrqReadEvent
<1>2. UNCHANGED <<now, fifo, delivered>> /\ View(fifo)' = View(fifo)
  BY DEF IrqReadEvent
<1>3. CASE UNCHANGED <<event, line>> /\ GoTo(t, "check")
  <2>1. \A u \in Irq : pc'[u] \in {"read_data", "lock", "push"} <=> Carrying(u)
    BY <1>1, <1>3 DEF GoTo, TypeOK, Carrying
  <2>2. QED
    BY <1>2, <1>3, <2>1, QuietStreamStep
<1>4. CASE event' = [event EXCEPT ![t] = ts] /\ GoTo(t, "read_data")
  <2>1. /\ event'[t] = ts /\ pc'[t] = "read_data"
        /\ \A u \in Irq \ {t} : pc'[u] = pc[u] /\ event'[u] = event[u]
    BY <1>4 DEF GoTo, TypeOK
  <2>2. TakenOf(pc, event)[d] = NoSlot
    BY <1>1, <2>1, OneTaken DEF Carrying
  <2>3. TakenOf(pc', event') = [TakenOf(pc, event) EXCEPT ![d] = ts]
    BY <1>1, <2>1, OneTaken
  <2>4. line[d] \in Seq(Time) /\ Increasing(line[d])
    BY <1>1 DEF TypeOK, OrderInv, LineOrdered
  <2>5. ts \in Elements(line[d])
    BY <1>1, <2>4, TailElements
  <2>6. ts <= now /\ Beyond(d, ts) /\ ts \in Int
    BY <1>1, <2>5, NumberTypes DEF OrderInv, LineOrdered
  <2>7. delivered[d] \in Time /\ now \in Time
    BY <1>1 DEF TypeOK
  <2>8. ts \in 1 .. now /\ ts > delivered[d]
    BY <2>6, <2>7, ConfigAssumption DEF Beyond, Time
  <2>9. \A i \in 1 .. Len(View(fifo)) : View(fifo)[i].dev = d => ts > View(fifo)[i].ts
    <3>1. /\ Len(View(fifo)) = Len(fifo)
          /\ \A i \in 1 .. Len(fifo) : View(fifo)[i] = Seen(fifo[i])
      BY ViewProperties DEF TypeOK
    <3>2. \A i \in 1 .. Len(fifo) : fifo[i].dev = d => fifo[i].ts < ts
      BY <2>6 DEF Beyond
    <3>3. \A i \in 1 .. Len(fifo) : fifo[i].ts \in Int
      BY NumberTypes
    <3>4. ASSUME NEW i \in 1 .. Len(fifo), View(fifo)[i].dev = d
          PROVE  ts > View(fifo)[i].ts
      <4>1. View(fifo)[i].dev = fifo[i].dev /\ View(fifo)[i].ts = fifo[i].ts
        BY <3>1, SeenFields
      <4>2. QED
        BY <2>6, <3>2, <3>3, <3>4, <4>1
    <3>5. QED
      BY <3>1, <3>4
  <2>10. Stream!Take(d)
    BY <1>1, <1>2, <2>2, <2>3, <2>8, <2>9, StreamTake
  <2>11. QED
    BY <1>1, <2>10 DEF StreamStep, Stream!Next
<1>5. QED
  BY <1>1, <1>3, <1>4 DEF IrqReadEvent

LEMMA LoseStreamStep ==
  ASSUME TypeOK, ThreadsOwned, NEW t \in Irq, IrqReadData(t)
  PROVE  StreamStep
<1>1. UNCHANGED <<now, fifo, delivered, event>> /\ View(fifo)' = View(fifo) /\ pc[t] = "read_data"
  BY DEF IrqReadData, envVars
<1>2. CASE GoTo(t, "lock")
  <2>1. \A u \in Irq : pc'[u] \in {"read_data", "lock", "push"} <=> Carrying(u)
    BY <1>1, <1>2 DEF GoTo, TypeOK, Carrying
  <2>2. QED
    BY <1>1, <2>1, QuietStreamStep
<1>3. CASE GoTo(t, "check")
  <2>1. /\ pc'[t] = "check"
        /\ \A u \in Irq \ {t} : pc'[u] = pc[u] /\ event'[u] = event[u]
    BY <1>1, <1>3 DEF GoTo, TypeOK
  <2>2. t[1] \in Device /\ TakenOf(pc, event)[t[1]] = event[t]
    BY <1>1, <2>1, OneTaken DEF Carrying
  <2>3. TakenOf(pc', event') = [TakenOf(pc, event) EXCEPT ![t[1]] = NoSlot]
    BY <1>1, <2>1, OneTaken
  <2>4. TakenOf(pc, event)[t[1]] # NoSlot
    BY <2>2, EventNotMarker
  <2>5. Stream!Lose(t[1])
    BY <1>1, <2>2, <2>3, <2>4, StreamLose
  <2>6. QED
    BY <2>2, <2>5 DEF StreamStep, Stream!Next
<1>4. QED
  BY <1>2, <1>3 DEF IrqReadData

LEMMA PushStreamStep ==
  ASSUME TypeOK, ThreadsOwned, NEW t \in Irq, IrqPush(t)
  PROVE  StreamStep
<1> DEFINE x == [dev |-> t[1], ts |-> event[t], val |-> value[t]]
<1>1. /\ UNCHANGED <<now, delivered, event>> /\ pc[t] = "push" /\ pc'[t] = "check"
      /\ fifo' = Queue!Put(fifo, Capacity, FifoMode, x)
      /\ \A u \in Irq \ {t} : pc'[u] = pc[u] /\ event'[u] = event[u]
  BY DEF IrqPush, envVars, GoTo, TypeOK
<1>2. t[1] \in Device /\ TakenOf(pc, event)[t[1]] = event[t]
  BY <1>1, OneTaken DEF Carrying
<1>3. TakenOf(pc', event') = [TakenOf(pc, event) EXCEPT ![t[1]] = NoSlot]
  BY <1>1, OneTaken
<1>4. TakenOf(pc, event)[t[1]] # NoSlot
  BY <1>2, EventNotMarker
<1>5. x \in Sample /\ Seen(x) = [dev |-> t[1], ts |-> event[t]] /\ fifo \in Seq(Sample)
  BY <1>2 DEF Sample, TypeOK, Seen
<1> HIDE DEF x
<1>6. View(fifo)' = Stream!Queue!Put(View(fifo), Capacity, FifoMode, Seen(x))
  BY <1>1, <1>5, ViewPut
<1>7. Stream!Push(t[1])
  BY <1>1, <1>2, <1>3, <1>4, <1>5, <1>6, StreamPush
<1>8. QED
  BY <1>2, <1>7 DEF StreamStep, Stream!Next

LEMMA PopStreamStep ==
  ASSUME TypeOK, fifo # <<>>, fifo' = Tail(fifo), UNCHANGED <<now, pc, event>>,
         delivered' = [delivered EXCEPT ![Head(fifo).dev] = Head(fifo).ts]
  PROVE  StreamStep
<1>1. fifo \in Seq(Sample)
  BY DEF TypeOK
<1>2. View(fifo) # <<>> /\ View(fifo)' = Tail(View(fifo)) /\ Head(View(fifo)) = Seen(Head(fifo))
  BY <1>1, ViewProperties, ViewTail
<1>3. delivered' = [delivered EXCEPT ![Head(View(fifo)).dev] = Head(View(fifo)).ts]
  BY <1>2, SeenFields
<1>4. TakenOf(pc, event)' = TakenOf(pc, event)
  OBVIOUS
<1>5. QED
  BY <1>2, <1>3, <1>4, StreamPop DEF StreamStep, Stream!Next

LEMMA NextStreamStep ==
  ASSUME TypeOK, ThreadsOwned, ~SharedLine, OrderInv, [Next]_vars
  PROVE  StreamStep
<1>1. CASE UNCHANGED vars
  BY <1>1, QuietStreamStep DEF vars, Carrying
<1>2. ASSUME NEW d \in Device, Sense(d) PROVE StreamStep
  BY <1>2, SenseStreamStep
<1>3. ASSUME NEW t \in Irq, IrqStep(t) PROVE StreamStep
  <2>1. CASE IrqCheck(t) \/ IrqWait(t) \/ IrqLock(t)
    <3>1. UNCHANGED <<fifo, now, delivered>>
      BY <2>1 DEF IrqCheck, IrqWait, IrqLock, envVars
    <3>2. \A u \in Irq : /\ pc'[u] \in {"read_data", "lock", "push"} <=> Carrying(u)
                         /\ Carrying(u) => event'[u] = event[u]
      BY <2>1 DEF IrqCheck, IrqWait, IrqLock, GoTo, TypeOK, Carrying
    <3>3. QED
      BY <3>1, <3>2, QuietStreamStep
  <2>2. QED
    BY <1>3, <2>1, TakeStreamStep, LoseStreamStep, PushStreamStep DEF IrqStep
<1>4. ASSUME NEW c \in Controller, ControllerStep(c) PROVE StreamStep
  <2>1. /\ UNCHANGED <<event, fifo, now, delivered>>
        /\ \A u \in Irq : pc'[u] # pc[u] =>
             pc[u] \in {"none", "exited"} /\ pc'[u] \in {"none", "check"}
    BY <1>4, ControllerThreads
  <2>2. \A u \in Irq : pc'[u] \in {"read_data", "lock", "push"} <=> Carrying(u)
    BY <2>1 DEF Carrying
  <2>3. QED
    BY <2>1, <2>2, QuietStreamStep
<1>5. ASSUME NEW r \in Reader, ReaderStep(r) PROVE StreamStep
  <2>1. UNCHANGED <<now, event, pc>>
    BY <1>5 DEF ReaderStep, ReaderLock, ReadIndep, FifoAvailable, Unlock, irqVars, envVars
  <2>2. CASE UNCHANGED <<fifo, delivered>>
    BY <2>1, <2>2, QuietStreamStep DEF Carrying
  <2>3. CASE ReadIndep(r) /\ fifo # <<>>
    BY <2>1, <2>3, PopStreamStep DEF ReadIndep
  <2>4. QED
    BY <1>5, <2>2, <2>3 DEF ReaderStep, ReaderLock, ReadIndep, FifoAvailable
<1>6. QED
  BY <1>1, <1>2, <1>3, <1>4, <1>5 DEF Next

LEMMA InitStream == Init => Stream!Init
<1> SUFFICES ASSUME Init PROVE Stream!Init
  OBVIOUS
<1>1. \A d \in Device : TakenOf(pc, event)[d] = NoSlot
  <2>1. \A d \in Device : \A s \in Slot : ~CarriesIn(pc, d, s)
    BY DEF Init, CarriesIn, Irq
  <2>2. QED
    BY <2>1, TakenNone
<1>2. TakenOf(pc, event) = [d \in Device |-> NoSlot]
  BY <1>1 DEF TakenOf
<1>3. View(fifo) = <<>>
  <2>1. fifo = <<>> /\ fifo \in Seq(Sample)
    BY EmptySeq DEF Init
  <2>2. QED
    BY <2>1, ViewProperties
<1>4. now = 0 /\ delivered = [d \in Device |-> 0]
  BY DEF Init
<1>5. QED
  BY <1>2, <1>3, <1>4 DEF Stream!Init, TakenOf, CarriesIn, Carrying, View

(* With a line for each device and one thread that controls the device,    *)
(* the readers see the stream of SampleStream, whatever is enabled,        *)
(* disabled, dropped, overwritten or lost and whichever thread creation    *)
(* fails.                                                                  *)
THEOREM ReadersSeeTheStream ==
  ASSUME SoleController, ~SharedLine
  PROVE  Spec => ImplementsStream
<1>1. TypeOK /\ ThreadsOwned /\ OrderInv /\ [Next]_vars => [Stream!Next]_(Stream!vars)
  BY NextStreamStep DEF StreamStep
<1>2. QED
  BY <1>1, InitStream, TypeCorrect, NoThreadLeaked, OrderAlways, PTL
  DEF Spec, ImplementsStream, Stream!Spec
=============================================================================
