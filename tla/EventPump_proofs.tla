---------------------------- MODULE EventPump_proofs ----------------------------
(* Theorems about EventPump, for every set of events and any number of     *)
(* crashes and failed marks.                                               *)
EXTENDS EventPump, SequenceTheorems, TLAPS

(* Queues.                                                                 *)
LEMMA InAppend ==
  ASSUME NEW q \in Seq(Events), NEW e \in Events, NEW d
  PROVE  InQueue(d, Append(q, e)) <=> (d = e \/ InQueue(d, q))
BY DEF InQueue

LEMMA HeadAppend ==
  ASSUME NEW q \in Seq(Events), q # <<>>, NEW e \in Events
  PROVE  Head(Append(q, e)) = Head(q)
OBVIOUS

LEMMA InTail ==
  ASSUME NEW q \in Seq(Events), q # <<>>, NEW d
  PROVE  /\ InQueue(d, q) <=> (d = Head(q) \/ InQueue(d, Tail(q)))
         /\ Tail(q) \in Seq(Events)
         /\ Head(q) \in Events
BY DEF InQueue

LEMMA InEmpty ==
  ASSUME NEW d
  PROVE  ~InQueue(d, <<>>)
BY DEF InQueue

-------------------------------------------------------------------------------
(* HandledBeforeDropped alone is not inductive: the disk is overwritten    *)
(* from memory, so what has left memory must have been handled too, and a  *)
(* crash falls back on the disk, so memory must not be ahead of it.        *)
MemoryIsOnDisk == \A e \in Events : InQueue(e, queue) => InQueue(e, disk)

HandledBeforeForgotten ==
  pump # "down" => \A e \in emitted : InQueue(e, queue) \/ e \in attempted

HeadIsHandled == pump = "handled" => Head(queue) \in attempted

IInv ==
  /\ TypeOK
  /\ MemoryIsOnDisk
  /\ HandledBeforeForgotten
  /\ HeadIsHandled
  /\ HandledBeforeDropped

(* Both copies of the queue start empty.                                   *)
THEOREM InitIInv == Init => IInv
<1> SUFFICES ASSUME Init PROVE IInv
  OBVIOUS
<1>1. TypeOK
  BY PumpAssumption DEF Init, TypeOK, Busy
<1> QED
  BY <1>1 DEF Init, IInv, MemoryIsOnDisk, HandledBeforeForgotten,
              HeadIsHandled, HandledBeforeDropped

LEMMA EmitIInv ==
  ASSUME IInv, NEW e \in Events, Emit(e)
  PROVE  IInv'
<1>1. /\ queue' = Append(queue, e) /\ disk' = Append(queue, e)
      /\ queue \in Seq(Events)
  BY DEF Emit, IInv, TypeOK
<1>2. TypeOK'
  <2>1. live' \subseteq Channels
    <3>1. CASE e.kind = "ready"
      <4>1. e.of \in Channels
        BY <3>1 DEF Events
      <4> QED
        BY <3>1, <4>1 DEF Emit, IInv, TypeOK
    <3>2. CASE e.kind # "ready"
      BY <3>2 DEF Emit, IInv, TypeOK
    <3> QED
      BY <3>1, <3>2
  <2>2. queue # <<>> => Head(queue)' = Head(queue)
    BY <1>1, HeadAppend
  <2>3. queue' \in Seq(Events) /\ disk' \in Seq(Events) /\ queue' # <<>>
    BY <1>1
  <2> QED
    BY <2>1, <2>2, <2>3 DEF Emit, external, ghosts, IInv, TypeOK, Busy
<1>3. \A d \in Events : InQueue(d, queue)' <=> (d = e \/ InQueue(d, queue))
  BY <1>1, InAppend
<1>4. \A d \in Events : InQueue(d, disk)' <=> (d = e \/ InQueue(d, queue))
  BY <1>1, InAppend
<1>5. HandledBeforeForgotten' /\ HandledBeforeDropped'
  <2>1. emitted' = emitted \cup {e} /\ attempted' = attempted /\ pump # "down"
        /\ emitted \subseteq Events
    BY DEF Emit, ghosts, IInv, TypeOK
  <2> QED
    BY <1>3, <1>4, <2>1 DEF HandledBeforeForgotten, HandledBeforeDropped, IInv
<1>6. HeadIsHandled'
  BY <1>1 DEF Emit, ghosts, HeadIsHandled, IInv, TypeOK, Busy
<1> QED
  BY <1>2, <1>3, <1>4, <1>5, <1>6 DEF IInv, MemoryIsOnDisk

(* The steps that leave both queues alone.                                 *)
LEMMA BusyIInv ==
  ASSUME IInv, Take \/ NotifySigner \/ Announce \/ RecordForward
  PROVE  IInv'
<1>1. UNCHANGED <<queue, disk, emitted>> /\ queue # <<>> /\ pump # "down"
  BY DEF Take, NotifySigner, Announce, RecordForward, external, IInv, TypeOK, Busy
<1>2. attempted \subseteq attempted'
  BY DEF Take, NotifySigner, Announce, RecordForward
<1>3. Head(queue) \in Events
  BY <1>1, InTail DEF IInv, TypeOK
<1>4. Head(queue).of \in Channels \/ Head(queue).kind \notin {"ready", "closed"}
  BY <1>3 DEF Events
<1>5. Head(queue).kind \in {"ready", "closed", "forwarded", "notice", "other"}
  BY <1>3 DEF Events
<1>6. TypeOK'
  <2>1. CASE Take
    BY <1>1, <1>3, <2>1 DEF Take, FirstStep, external, IInv, TypeOK, Busy
  <2>2. CASE NotifySigner
    <3>1. Head(queue).of \in Channels
      BY <1>4, <2>2 DEF NotifySigner, IInv, TypeOK
    <3>2. asked' \subseteq Channels
      BY <2>2, <3>1 DEF NotifySigner, IInv, TypeOK
    <3> QED
      BY <1>1, <2>2, <3>2 DEF NotifySigner, external, IInv, TypeOK, Busy
  <2>3. CASE Announce
    BY <1>1, <1>3, <1>4, <2>3 DEF Announce, Reaches, IsLost, external, IInv, TypeOK, Busy
  <2>4. CASE RecordForward
    <3>1. Head(queue).of \in Forwards
      BY <1>3, <2>4 DEF RecordForward, IInv, TypeOK, Events
    <3>2. history' \in [Forwards -> Nat]
      BY <2>4, <3>1 DEF RecordForward, IInv, TypeOK
    <3> QED
      BY <1>1, <1>3, <2>4, <3>2 DEF RecordForward, external, IInv, TypeOK, Busy
  <2> QED
    BY <2>1, <2>2, <2>3, <2>4
<1>7. HeadIsHandled'
  BY <1>1 DEF Take, NotifySigner, Announce, RecordForward, HeadIsHandled
<1> QED
  BY <1>1, <1>2, <1>6, <1>7
     DEF IInv, MemoryIsOnDisk, HandledBeforeForgotten, HandledBeforeDropped

LEMMA MarkIInv ==
  ASSUME IInv, MarkHandled \/ MarkFails
  PROVE  IInv'
<1>1. /\ pump = "handled" /\ pump' = "waiting" /\ queue # <<>>
      /\ UNCHANGED <<emitted, attempted>> /\ emitted \subseteq Events
      /\ Head(queue) \in attempted
  BY DEF MarkHandled, MarkFails, external, ghosts, IInv, TypeOK, Busy, HeadIsHandled
<1>2. /\ \A d : InQueue(d, queue) <=> (d = Head(queue) \/ InQueue(d, Tail(queue)))
      /\ Tail(queue) \in Seq(Events)
  BY <1>1, InTail DEF IInv, TypeOK
<1>3. \A e \in emitted : InQueue(e, Tail(queue)) \/ e \in attempted
  BY <1>1, <1>2 DEF IInv, HandledBeforeForgotten
<1>4. CASE MarkHandled
  <2>1. queue' = Tail(queue) /\ disk' = Tail(queue)
    BY <1>4 DEF MarkHandled
  <2>2. TypeOK'
    BY <1>1, <1>2, <1>4, <2>1 DEF MarkHandled, external, ghosts, IInv, TypeOK, Busy
  <2> QED
    BY <1>1, <1>3, <2>1, <2>2
       DEF IInv, MemoryIsOnDisk, HandledBeforeForgotten, HandledBeforeDropped,
           HeadIsHandled
<1>5. CASE MarkFails
  <2>1. queue' \in {queue, Tail(queue)} /\ disk' = disk
    BY <1>5 DEF MarkFails
  <2>2. TypeOK'
    <3>1. markFailures' \in 0 .. MaxMarkFailures
      BY <1>5, PumpAssumption DEF MarkFails, IInv, TypeOK
    <3>2. queue' \in Seq(Events)
      BY <1>2, <2>1 DEF IInv, TypeOK
    <3> QED
      BY <1>1, <1>5, <3>1, <3>2 DEF MarkFails, external, ghosts, IInv, TypeOK, Busy
  <2> QED
    BY <1>1, <1>2, <1>3, <2>1, <2>2
       DEF IInv, MemoryIsOnDisk, HandledBeforeForgotten, HandledBeforeDropped,
           HeadIsHandled
<1> QED
  BY <1>4, <1>5

LEMMA CrashIInv ==
  ASSUME IInv, Crash \/ Restart
  PROVE  IInv'
<1>1. CASE Crash
  <2>1. TypeOK'
    BY <1>1, PumpAssumption DEF Crash, external, ghosts, IInv, TypeOK, Busy
  <2>2. queue' = <<>> /\ UNCHANGED <<disk, emitted, attempted>> /\ pump' = "down"
    BY <1>1 DEF Crash, external, ghosts
  <2> QED
    BY <2>1, <2>2, InEmpty
       DEF IInv, MemoryIsOnDisk, HandledBeforeForgotten, HandledBeforeDropped,
           HeadIsHandled
<1>2. CASE Restart
  BY <1>2
     DEF Restart, external, ghosts, IInv, TypeOK, Busy, MemoryIsOnDisk,
         HandledBeforeForgotten, HandledBeforeDropped, HeadIsHandled
<1> QED
  BY <1>1, <1>2

(* No step of the pump, of ldk-node, crash or restart breaks the           *)
(* invariant.                                                              *)
THEOREM StepIInv == IInv /\ [Next]_vars => IInv'
<1> SUFFICES ASSUME IInv, [Next]_vars PROVE IInv'
  OBVIOUS
<1>1. CASE UNCHANGED vars
  BY <1>1
     DEF vars, external, ghosts, IInv, TypeOK, Busy, MemoryIsOnDisk,
         HandledBeforeForgotten, HandledBeforeDropped, HeadIsHandled
<1> QED
  BY <1>1, EmitIInv, BusyIInv, MarkIInv, CrashIInv DEF Next, Pump

(* Memory is a rest of the disk and nothing is dropped unhandled, with any *)
(* number of events and crashes.                                           *)
THEOREM Invariance == Spec => []IInv
BY InitIInv, StepIInv, PTL DEF Spec

(* The type invariant: the pump never works on an event that has left the  *)
(* queue.                                                                  *)
THEOREM TypeCorrect == Spec => []TypeOK
<1>1. IInv => TypeOK
  BY DEF IInv
<1> QED
  BY <1>1, Invariance, PTL

(* No event is lost, however many crashes and failed marks there are.      *)
THEOREM NoEventIsLost == Spec => []HandledBeforeDropped
<1>1. IInv => HandledBeforeDropped
  BY DEF IInv
<1> QED
  BY <1>1, Invariance, PTL

-------------------------------------------------------------------------------
(* OpenedIsCorrected.  What keeps it: in each queue a closing follows the  *)
(* opening of its channel and is there whenever the opening is.            *)
Ordered(q) ==
  \A ch \in Channels : \A i, j \in 1 .. Len(q) :
    q[i] = Ready(ch) /\ q[j] = Closed(ch) => i < j

Paired(q) ==
  \A ch \in Channels :
    InQueue(Ready(ch), q) /\ Closed(ch) \in emitted => InQueue(Closed(ch), q)

Emitted(q) == \A e \in Events : InQueue(e, q) => e \in emitted

GoodQueue(q) == Ordered(q) /\ Paired(q) /\ Emitted(q)

ClosingIsQueued ==
  \A ch \in Channels : lastWord[ch] = "ready" =>
    /\ Ready(ch) \in emitted
    /\ Closed(ch) \in emitted /\ Closed(ch) \notin lost =>
         /\ InQueue(Closed(ch), disk)
         /\ pump # "down" => InQueue(Closed(ch), queue)

ClosingIsLastWord ==
  \A ch \in Channels : pump = "handled" /\ Head(queue) = Closed(ch) =>
    lastWord[ch] = "closed" \/ Closed(ch) \in lost

ReadyIsLive ==
  \A ch \in Channels :
    Ready(ch) \in emitted /\ Closed(ch) \notin emitted => ch \in live

OInv ==
  /\ GoodQueue(queue) /\ GoodQueue(disk)
  /\ ClosingIsQueued
  /\ ClosingIsLastWord
  /\ ReadyIsLive

LEMMA ChannelEvents ==
  ASSUME NEW ch \in Channels, NEW ck \in Channels
  PROVE  /\ Ready(ch) \in Events /\ Closed(ch) \in Events
         /\ Ready(ch) # Closed(ck)
         /\ Ready(ch) = Ready(ck) => ch = ck
         /\ Closed(ch) = Closed(ck) => ch = ck
         /\ Ready(ch).kind = "ready" /\ Closed(ch).kind = "closed"
         /\ Ready(ch).of = ch /\ Closed(ch).of = ch
BY DEF Ready, Closed, Events

(* A queue is good that is equal to a good one.                            *)
LEMMA GoodNext ==
  ASSUME NEW q, GoodQueue(q)'
  PROVE  /\ queue' = q => GoodQueue(queue)'
         /\ disk' = q => GoodQueue(disk)'
<1>1. Ordered(q)' /\ Paired(q)' /\ Emitted(q)'
  BY DEF GoodQueue
<1>2. ASSUME queue' = q PROVE Ordered(queue)' /\ Paired(queue)' /\ Emitted(queue)'
  BY <1>1, <1>2 DEF Ordered, Paired, Emitted, InQueue, Ready, Closed
<1>3. ASSUME disk' = q PROVE Ordered(disk)' /\ Paired(disk)' /\ Emitted(disk)'
  BY <1>1, <1>3 DEF Ordered, Paired, Emitted, InQueue, Ready, Closed
<1> QED
  BY <1>2, <1>3 DEF GoodQueue

LEMMA AppendGood ==
  ASSUME IInv, OInv, NEW e \in Events, Emit(e), NEW q, q = Append(queue, e)
  PROVE  GoodQueue(q)'
<1>1. queue \in Seq(Events) /\ q \in Seq(Events) /\ emitted' = emitted \cup {e}
  BY DEF Emit, IInv, TypeOK
<1>2. \A d \in Events : InQueue(d, q) <=> (d = e \/ InQueue(d, queue))
  BY <1>1, InAppend
<1>3. Ordered(q)
  <2> SUFFICES ASSUME NEW ch \in Channels, NEW i \in 1 .. Len(q), NEW j \in 1 .. Len(q),
                      q[i] = Ready(ch), q[j] = Closed(ch)
               PROVE  i < j
    BY DEF Ordered
  <2>1. Len(q) = Len(queue) + 1 /\ q[Len(q)] = e
        /\ \A k \in 1 .. Len(queue) : q[k] = queue[k]
    BY <1>1
  <2>2. CASE i = Len(q)
    <3>1. e = Ready(ch)
      BY <2>1, <2>2
    <3>2. Closed(ch) \notin emitted
      BY <3>1, ChannelEvents DEF Emit
    <3>3. ~InQueue(Closed(ch), queue)
      BY <3>2, ChannelEvents DEF OInv, GoodQueue, Emitted
    <3>4. j # Len(q)
      BY <2>1, <3>1, ChannelEvents
    <3>5. j \in 1 .. Len(queue) /\ queue[j] = Closed(ch)
      BY <1>1, <2>1, <3>4
    <3> QED
      BY <3>3, <3>5 DEF InQueue
  <2>3. CASE i # Len(q) /\ j # Len(q)
    <3>1. i \in 1 .. Len(queue) /\ j \in 1 .. Len(queue)
      BY <1>1, <2>1, <2>3
    <3> QED
      BY <2>1, <3>1 DEF OInv, GoodQueue, Ordered
  <2>4. CASE i # Len(q) /\ j = Len(q)
    BY <1>1, <2>1, <2>4
  <2> QED
    BY <2>2, <2>3, <2>4
<1>4. Paired(q)'
  <2> SUFFICES ASSUME NEW ch \in Channels,
                      InQueue(Ready(ch), q), Closed(ch) \in emitted'
               PROVE  InQueue(Closed(ch), q)
    BY <1>1 DEF Paired, InQueue, Ready, Closed
  <2>1. Ready(ch) \in Events /\ Closed(ch) \in Events
    BY ChannelEvents
  <2>2. CASE e = Closed(ch)
    BY <1>2, <2>1, <2>2
  <2>3. CASE e = Ready(ch)
    <3>1. Closed(ch) \notin emitted
      BY <2>3, ChannelEvents DEF Emit
    <3> QED
      BY <1>1, <2>3, <3>1, ChannelEvents
  <2>4. CASE e # Closed(ch) /\ e # Ready(ch)
    BY <1>1, <1>2, <2>1, <2>4 DEF OInv, GoodQueue, Paired
  <2> QED
    BY <2>2, <2>3, <2>4
<1>5. Emitted(q)'
  BY <1>1, <1>2 DEF OInv, GoodQueue, Emitted, InQueue
<1> QED
  BY <1>1, <1>3, <1>4, <1>5 DEF GoodQueue, Ordered, Ready, Closed

LEMMA TailGood ==
  ASSUME IInv, OInv, queue # <<>>
  PROVE  GoodQueue(Tail(queue))
<1> DEFINE q == Tail(queue)
<1>1. queue \in Seq(Events) /\ q \in Seq(Events) /\ Head(queue) \in Events
  BY InTail DEF IInv, TypeOK
<1>2. \A d : InQueue(d, queue) <=> (d = Head(queue) \/ InQueue(d, q))
  BY <1>1, InTail
<1>3. Len(q) = Len(queue) - 1 /\ \A k \in 1 .. Len(q) : q[k] = queue[k + 1]
  BY <1>1
<1>4. Ordered(q)
  <2> SUFFICES ASSUME NEW ch \in Channels, NEW i \in 1 .. Len(q), NEW j \in 1 .. Len(q),
                      q[i] = Ready(ch), q[j] = Closed(ch)
               PROVE  i < j
    BY DEF Ordered
  <2>1. /\ i + 1 \in 1 .. Len(queue) /\ j + 1 \in 1 .. Len(queue)
        /\ queue[i + 1] = Ready(ch) /\ queue[j + 1] = Closed(ch)
    BY <1>1, <1>3
  <2>2. i + 1 < j + 1
    BY <2>1 DEF OInv, GoodQueue, Ordered
  <2> QED
    BY <2>2
<1>5. Paired(q)
  <2> SUFFICES ASSUME NEW ch \in Channels,
                      InQueue(Ready(ch), q), Closed(ch) \in emitted
               PROVE  InQueue(Closed(ch), q)
    BY DEF Paired
  <2>1. InQueue(Closed(ch), queue)
    BY <1>2 DEF OInv, GoodQueue, Paired
  <2>2. PICK k \in 1 .. Len(q) : q[k] = Ready(ch)
    BY DEF InQueue
  <2>3. k + 1 \in 1 .. Len(queue) /\ queue[k + 1] = Ready(ch)
    BY <1>1, <1>3, <2>2
  <2>4. Head(queue) # Closed(ch)
    <3> SUFFICES ASSUME Head(queue) = Closed(ch) PROVE FALSE
      OBVIOUS
    <3>1. 1 \in 1 .. Len(queue) /\ queue[1] = Closed(ch)
      BY <1>1
    <3>2. k + 1 < 1
      BY <2>3, <3>1 DEF OInv, GoodQueue, Ordered
    <3> QED
      BY <1>1, <3>2
  <2> QED
    BY <1>2, <2>1, <2>4
<1>6. Emitted(q)
  BY <1>1, <1>2 DEF OInv, GoodQueue, Emitted
<1> QED
  BY <1>4, <1>5, <1>6 DEF GoodQueue

LEMMA EmitOInv ==
  ASSUME IInv, OInv, NEW e \in Events, Emit(e)
  PROVE  OInv'
<1>1. /\ queue' = Append(queue, e) /\ disk' = Append(queue, e)
      /\ emitted' = emitted \cup {e} /\ lastWord' = lastWord /\ lost' = lost
      /\ pump' = pump /\ pump # "down" /\ queue \in Seq(Events)
  BY DEF Emit, ghosts, IInv, TypeOK
<1>2. GoodQueue(queue)' /\ GoodQueue(disk)'
  <2>1. PICK q : q = Append(queue, e)
    OBVIOUS
  <2>2. GoodQueue(q)'
    BY <2>1, AppendGood
  <2> QED
    BY <1>1, <2>1, <2>2, GoodNext
<1>3. \A d \in Events : InQueue(d, queue)' <=> (d = e \/ InQueue(d, queue))
  BY <1>1, InAppend
<1>4. \A d \in Events : InQueue(d, disk)' <=> (d = e \/ InQueue(d, queue))
  BY <1>1, InAppend
<1>5. ClosingIsQueued'
  <2> SUFFICES ASSUME NEW ch \in Channels, lastWord[ch] = "ready"
               PROVE  /\ Ready(ch) \in emitted'
                      /\ Closed(ch) \in emitted' /\ Closed(ch) \notin lost =>
                           InQueue(Closed(ch), disk)' /\ InQueue(Closed(ch), queue)'
    BY <1>1 DEF ClosingIsQueued, Ready, Closed
  <2>1. Closed(ch) \in Events
    BY ChannelEvents
  <2> QED
    BY <1>1, <1>3, <1>4, <2>1 DEF OInv, ClosingIsQueued
<1>6. ClosingIsLastWord'
  <2>1. pump = "handled" => queue # <<>>
    BY DEF IInv, TypeOK, Busy
  <2>2. pump = "handled" => Head(queue') = Head(queue)
    BY <1>1, <2>1, HeadAppend
  <2> QED
    BY <1>1, <2>2 DEF OInv, ClosingIsLastWord, Closed
<1>7. ReadyIsLive'
  <2> SUFFICES ASSUME NEW ch \in Channels,
                      Ready(ch) \in emitted', Closed(ch) \notin emitted'
               PROVE  ch \in live'
    BY DEF ReadyIsLive, Ready, Closed
  <2>1. CASE e = Ready(ch)
    BY <2>1, ChannelEvents DEF Emit
  <2>2. CASE e # Ready(ch)
    <3>1. ch \in live /\ e # Closed(ch)
      BY <1>1, <2>2 DEF OInv, ReadyIsLive
    <3>2. \A ck \in Channels : e = Closed(ck) => ck # ch
      BY <3>1
    <3> QED
      BY <3>1, <3>2 DEF Emit
  <2> QED
    BY <2>1, <2>2
<1> QED
  BY <1>2, <1>5, <1>6, <1>7 DEF OInv

LEMMA AnnounceOInv ==
  ASSUME IInv, OInv, Announce
  PROVE  OInv'
<1> DEFINE h == Head(queue)
<1>1. /\ queue # <<>> /\ UNCHANGED <<queue, disk, emitted, live>>
      /\ pump # "down" /\ pump' = "handled" /\ h \in Events
      /\ Reaches(h) \/ IsLost(h)
  BY InTail DEF Announce, external, IInv, TypeOK, Busy
<1>2. InQueue(h, queue)
  BY <1>1, InTail DEF IInv, TypeOK
<1>3. h.kind \in {"ready", "closed"} =>
        h.of \in Channels /\ (h.kind = "ready" => h = Ready(h.of))
                         /\ (h.kind = "closed" => h = Closed(h.of))
  BY <1>1 DEF Events, Ready, Closed
<1>4. ClosingIsQueued'
  <2> SUFFICES ASSUME NEW ch \in Channels, lastWord'[ch] = "ready"
               PROVE  /\ Ready(ch) \in emitted
                      /\ Closed(ch) \in emitted /\ Closed(ch) \notin lost' =>
                           InQueue(Closed(ch), disk) /\ InQueue(Closed(ch), queue)
    BY <1>1 DEF ClosingIsQueued, Ready, Closed, InQueue
  <2>1. CASE h = Ready(ch)
    <3>1. Ready(ch) \in Events /\ Closed(ch) \in Events
      BY ChannelEvents
    <3>2. Ready(ch) \in emitted
      BY <1>2, <2>1, <3>1 DEF OInv, GoodQueue, Emitted
    <3>3. Closed(ch) \in emitted => InQueue(Closed(ch), queue)
      BY <1>2, <2>1 DEF OInv, GoodQueue, Paired
    <3> QED
      BY <3>1, <3>2, <3>3 DEF IInv, MemoryIsOnDisk
  <2>2. CASE h # Ready(ch) /\ Reaches(h)
    <3>1. lastWord[ch] = "ready" /\ h # Closed(ch)
      BY <1>3, <2>2, ChannelEvents DEF Reaches, IInv, TypeOK
    <3>2. Closed(ch) \notin lost' => Closed(ch) \notin lost
      BY <2>2, <3>1 DEF Reaches
    <3> QED
      BY <1>1, <3>1, <3>2 DEF OInv, ClosingIsQueued
  <2>3. CASE IsLost(h)
    BY <1>1, <2>3 DEF IsLost, OInv, ClosingIsQueued
  <2> QED
    BY <1>1, <2>1, <2>2, <2>3
<1>5. ClosingIsLastWord'
  <2> SUFFICES ASSUME NEW ch \in Channels, h = Closed(ch)
               PROVE  lastWord'[ch] = "closed" \/ h \in lost'
    BY <1>1 DEF ClosingIsLastWord, Closed
  <2>1. h.kind = "closed" /\ h.of = ch
    BY ChannelEvents
  <2> QED
    BY <1>1, <2>1 DEF Reaches, IsLost, IInv, TypeOK
<1> QED
  BY <1>1, <1>4, <1>5
     DEF OInv, GoodQueue, Ordered, Paired, Emitted, ReadyIsLive, InQueue, Ready, Closed

LEMMA MarkOInv ==
  ASSUME IInv, OInv, MarkHandled \/ MarkFails
  PROVE  OInv'
<1>1. /\ pump = "handled" /\ pump' = "waiting" /\ queue # <<>>
      /\ UNCHANGED <<emitted, live, lost, lastWord>>
      /\ queue' \in {queue, Tail(queue)} /\ disk' \in {disk, Tail(queue)}
  BY DEF MarkHandled, MarkFails, external, ghosts, IInv, TypeOK, Busy
<1>2. \A d : InQueue(d, queue) <=> (d = Head(queue) \/ InQueue(d, Tail(queue)))
  BY <1>1, InTail DEF IInv, TypeOK
<1>3. GoodQueue(queue)' /\ GoodQueue(disk)'
  <2>1. GoodQueue(Tail(queue)) /\ GoodQueue(queue) /\ GoodQueue(disk)
    BY <1>1, TailGood DEF OInv
  <2>2. ASSUME NEW q, GoodQueue(q) PROVE GoodQueue(q)'
    BY <1>1, <2>2 DEF GoodQueue, Ordered, Paired, Emitted, InQueue, Ready, Closed
  <2> QED
    BY <1>1, <2>1, <2>2, GoodNext
<1>4. \A ch \in Channels :
        lastWord[ch] = "ready" /\ Closed(ch) \in emitted /\ Closed(ch) \notin lost =>
          InQueue(Closed(ch), Tail(queue))
  <2> SUFFICES ASSUME NEW ch \in Channels, lastWord[ch] = "ready", Closed(ch) \in emitted,
                      Closed(ch) \notin lost
               PROVE  InQueue(Closed(ch), Tail(queue))
    OBVIOUS
  <2>1. InQueue(Closed(ch), queue)
    BY <1>1 DEF OInv, ClosingIsQueued
  <2>2. Head(queue) # Closed(ch)
    BY <1>1 DEF OInv, ClosingIsLastWord
  <2> QED
    BY <1>2, <2>1, <2>2
<1>5. ClosingIsQueued'
  BY <1>1, <1>4 DEF OInv, ClosingIsQueued, InQueue, Ready, Closed
<1> QED
  BY <1>1, <1>3, <1>5 DEF OInv, ClosingIsLastWord, ReadyIsLive, Ready, Closed

LEMMA QuietOInv ==
  ASSUME IInv, OInv,
         Take \/ NotifySigner \/ RecordForward \/ Crash \/ Restart \/ UNCHANGED vars
  PROVE  OInv'
<1>1. UNCHANGED <<disk, emitted, live, lost, lastWord>>
  BY DEF Take, NotifySigner, RecordForward, Crash, Restart, vars, external, ghosts
<1>2. queue' \in {queue, disk, <<>>}
      /\ (pump' # "down" => (queue' = queue /\ pump # "down") \/ queue' = disk)
  BY DEF Take, NotifySigner, RecordForward, Crash, Restart, vars, external, ghosts,
         IInv, TypeOK, FirstStep
<1>3. GoodQueue(<<>>)
  BY InEmpty DEF GoodQueue, Ordered, Paired, Emitted
<1>4. GoodQueue(queue)' /\ GoodQueue(disk)'
  BY <1>1, <1>2, <1>3
     DEF OInv, GoodQueue, Ordered, Paired, Emitted, InQueue, Ready, Closed
<1>5. ClosingIsQueued'
  BY <1>1, <1>2 DEF OInv, ClosingIsQueued, InQueue, Ready, Closed
<1>6. ClosingIsLastWord'
  <2>1. CASE Take
    <3>1. pump' = "handled" => Head(queue).kind # "closed"
      BY <2>1 DEF Take, FirstStep
    <3>2. queue' = queue
      BY <2>1 DEF Take
    <3> QED
      BY <3>1, <3>2, ChannelEvents DEF ClosingIsLastWord, Closed
  <2>2. CASE RecordForward
    BY <2>2, ChannelEvents DEF RecordForward, ClosingIsLastWord, Closed, IInv, TypeOK
  <2>3. CASE NotifySigner \/ Crash \/ Restart
    BY <2>3 DEF NotifySigner, Crash, Restart, ClosingIsLastWord
  <2>4. CASE UNCHANGED vars
    BY <2>4 DEF vars, ghosts, OInv, ClosingIsLastWord, Closed
  <2> QED
    BY <2>1, <2>2, <2>3, <2>4
<1> QED
  BY <1>1, <1>4, <1>5, <1>6 DEF OInv, ReadyIsLive, Ready, Closed

(* Whatever is redelivered, a controller that last heard of a channel that *)
(* it opened is still to be told of its closing, or missed only the        *)
(* notification of the closing itself.                                     *)
THEOREM ClosingIsNeverMasked == Spec => []OpenedIsCorrected
<1>1. Init => OInv
  <2> SUFFICES ASSUME Init PROVE OInv
    OBVIOUS
  <2>1. GoodQueue(<<>>)
    BY InEmpty DEF GoodQueue, Ordered, Paired, Emitted
  <2> QED
    BY <2>1 DEF Init, OInv, ClosingIsQueued, ClosingIsLastWord, ReadyIsLive
<1>2. IInv /\ OInv /\ [Next]_vars => OInv'
  BY EmitOInv, AnnounceOInv, MarkOInv, QuietOInv DEF Next, Pump
<1>3. OInv => OpenedIsCorrected
  BY DEF OInv, OpenedIsCorrected, ClosingIsQueued, ReadyIsLive
<1> QED
  BY <1>1, <1>2, <1>3, Invariance, PTL DEF Spec

-------------------------------------------------------------------------------
(* The signer is asked about a channel in the same handling of its event   *)
(* in which the opening is announced.                                      *)
THEOREM SignerIsAskedFirst == Spec => []SignerAskedFirst
<1>1. Init => SignerAskedFirst
  BY DEF Init, SignerAskedFirst
<1>2. IInv /\ SignerAskedFirst /\ [Next]_vars => SignerAskedFirst'
  <2> SUFFICES ASSUME IInv, SignerAskedFirst, [Next]_vars,
                      NEW ch \in Channels, HasSigner,
                      pump' = "announcing", Head(queue') = Ready(ch)
               PROVE  ch \in asked'
    BY DEF SignerAskedFirst, Ready
  <2>1. CASE \E e \in Events : Emit(e)
    <3> PICK e \in Events : Emit(e)
      BY <2>1
    <3>1. queue' = Append(queue, e) /\ asked' = asked /\ pump = "announcing"
          /\ queue # <<>> /\ queue \in Seq(Events)
      BY DEF Emit, IInv, TypeOK, Busy
    <3>2. Head(queue) = Ready(ch)
      BY <3>1, HeadAppend
    <3> QED
      BY <3>1, <3>2 DEF SignerAskedFirst
  <2>2. CASE NotifySigner
    <3>1. Head(queue) = Ready(ch) /\ asked' = {Head(queue).of}
      BY <2>2 DEF NotifySigner
    <3> QED
      BY <3>1, ChannelEvents
  <2>3. CASE Take
    BY <2>3, ChannelEvents DEF Take, FirstStep
  <2>4. CASE Announce \/ RecordForward \/ MarkHandled \/ MarkFails \/ Crash \/ Restart
    BY <2>4 DEF Announce, RecordForward, MarkHandled, MarkFails, Crash, Restart
  <2>5. CASE UNCHANGED vars
    BY <2>5 DEF vars, SignerAskedFirst
  <2> QED
    BY <2>1, <2>2, <2>3, <2>4, <2>5 DEF Next, Pump
<1> QED
  BY <1>1, <1>2, Invariance, PTL DEF Spec

-------------------------------------------------------------------------------
(* No event is in a queue twice, only queued events were handled, and what *)
(* is in memory is what is on disk but for events that were handled.       *)
Distinct(q) == \A i, j \in 1 .. Len(q) : q[i] = q[j] => i = j

IsRest(q, d, n) ==
  /\ \A i \in 1 .. n : d[i] \in attempted
  /\ Len(q) = Len(d) - n
  /\ \A i \in 1 .. Len(q) : q[i] = d[n + i]

SInv ==
  /\ Emitted(queue) /\ Emitted(disk)
  /\ Distinct(queue) /\ Distinct(disk)
  /\ attempted \subseteq emitted
  /\ pump # "down" => \E n \in 0 .. Len(disk) : IsRest(queue, disk, n)

LEMMA InitSInv == Init => SInv
<1> SUFFICES ASSUME Init PROVE SInv
  OBVIOUS
<1>1. IsRest(<<>>, <<>>, 0) /\ Distinct(<<>>) /\ 0 \in 0 .. Len(<<>>)
  BY DEF IsRest, Distinct
<1> QED
  BY <1>1, InEmpty DEF Init, SInv, Emitted

LEMMA AppendDistinct ==
  ASSUME IInv, SInv, NEW e \in Events, e \notin emitted
  PROVE  Distinct(Append(queue, e))
<1> DEFINE q == Append(queue, e)
<1>1. queue \in Seq(Events) /\ Len(q) = Len(queue) + 1 /\ Len(queue) \in Nat
      /\ q[Len(q)] = e /\ \A k \in 1 .. Len(queue) : q[k] = queue[k]
  BY DEF IInv, TypeOK
<1>2. \A k \in 1 .. Len(queue) : queue[k] # e
  BY <1>1 DEF SInv, Emitted, InQueue
<1> SUFFICES ASSUME NEW i \in 1 .. Len(q), NEW j \in 1 .. Len(q), q[i] = q[j]
             PROVE  i = j
  BY DEF Distinct
<1>3. CASE i \in 1 .. Len(queue) /\ j \in 1 .. Len(queue)
  BY <1>1, <1>3 DEF SInv, Distinct
<1>4. CASE i = Len(q) \/ j = Len(q)
  <2>1. q[i] = e /\ q[j] = e
    BY <1>1, <1>4
  <2>2. i \notin 1 .. Len(queue) /\ j \notin 1 .. Len(queue)
    BY <1>1, <1>2, <2>1
  <2> QED
    BY <1>1, <2>2
<1> QED
  BY <1>1, <1>3, <1>4

LEMMA TailDistinct ==
  ASSUME IInv, SInv, queue # <<>>
  PROVE  /\ Distinct(Tail(queue)) /\ Emitted(Tail(queue))
         /\ ~InQueue(Head(queue), Tail(queue))
<1> DEFINE q == Tail(queue)
<1>1. /\ queue \in Seq(Events) /\ Len(queue) \in Nat \ {0} /\ Len(q) = Len(queue) - 1
      /\ \A k \in 1 .. Len(q) : q[k] = queue[k + 1] /\ k + 1 \in 1 .. Len(queue)
      /\ Head(queue) = queue[1] /\ 1 \in 1 .. Len(queue)
  BY DEF IInv, TypeOK
<1>2. Distinct(q)
  <2> SUFFICES ASSUME NEW i \in 1 .. Len(q), NEW j \in 1 .. Len(q), q[i] = q[j]
               PROVE  i = j
    BY DEF Distinct
  <2>1. i + 1 = j + 1
    BY <1>1 DEF SInv, Distinct
  <2> QED
    BY <2>1
<1>3. ~InQueue(Head(queue), q)
  <2> SUFFICES ASSUME NEW k \in 1 .. Len(q), q[k] = queue[1] PROVE FALSE
    BY <1>1 DEF InQueue
  <2>1. k + 1 = 1
    BY <1>1 DEF SInv, Distinct
  <2> QED
    BY <2>1
<1>4. Emitted(q)
  BY <1>1, InTail DEF SInv, Emitted, IInv, TypeOK
<1> QED
  BY <1>2, <1>3, <1>4

LEMMA EmitSInv ==
  ASSUME IInv, SInv, NEW e \in Events, Emit(e)
  PROVE  SInv'
<1>1. /\ queue' = Append(queue, e) /\ disk' = Append(queue, e)
      /\ emitted' = emitted \cup {e} /\ e \notin emitted /\ attempted' = attempted
      /\ queue \in Seq(Events) /\ Append(queue, e) \in Seq(Events)
  BY DEF Emit, ghosts, IInv, TypeOK
<1>2. Distinct(queue)' /\ Distinct(disk)'
  BY <1>1, AppendDistinct DEF Distinct
<1>3. Emitted(queue)' /\ Emitted(disk)'
  BY <1>1, InAppend DEF SInv, Emitted, InQueue
<1>4. IsRest(Append(queue, e), Append(queue, e), 0)'
  BY <1>1 DEF IsRest
<1>5. 0 \in 0 .. Len(disk')
  BY <1>1
<1> QED
  BY <1>1, <1>2, <1>3, <1>4, <1>5 DEF SInv, IsRest

(* Handling an event is handling the oldest one that is on disk and was    *)
(* not handled, or one that was handled before.                            *)
LEMMA HandlingSInv ==
  ASSUME IInv, SInv, Take \/ NotifySigner \/ Announce \/ RecordForward
  PROVE  SInv'
<1>1. /\ UNCHANGED <<queue, disk, emitted>> /\ queue # <<>> /\ pump # "down"
      /\ attempted' \in {attempted, attempted \cup {Head(queue)}}
  BY DEF Take, NotifySigner, Announce, RecordForward, external, IInv, TypeOK, Busy
<1>2. Head(queue) \in emitted
  <2>1. InQueue(Head(queue), queue) /\ Head(queue) \in Events
    BY <1>1, InTail DEF IInv, TypeOK
  <2> QED
    BY <2>1 DEF SInv, Emitted
<1>3. \E n \in 0 .. Len(disk) : IsRest(queue, disk, n)'
  <2> PICK n \in 0 .. Len(disk) : IsRest(queue, disk, n)
    BY <1>1 DEF SInv
  <2> QED
    BY <1>1 DEF IsRest
<1> QED
  BY <1>1, <1>2, <1>3 DEF SInv, Emitted, Distinct, InQueue

LEMMA RestOfTail ==
  ASSUME IInv, SInv, queue # <<>>, Head(queue) \in attempted,
         NEW n \in 0 .. Len(disk), IsRest(queue, disk, n)
  PROVE  n + 1 \in 0 .. Len(disk) /\ IsRest(Tail(queue), disk, n + 1)
<1>1. /\ queue \in Seq(Events) /\ disk \in Seq(Events)
      /\ Len(queue) \in Nat \ {0} /\ Len(disk) \in Nat
      /\ Len(Tail(queue)) = Len(queue) - 1
      /\ \A k \in 1 .. Len(Tail(queue)) :
           Tail(queue)[k] = queue[k + 1] /\ k + 1 \in 1 .. Len(queue)
      /\ Head(queue) = queue[1] /\ 1 \in 1 .. Len(queue)
  BY DEF IInv, TypeOK
<1>2. /\ \A i \in 1 .. n : disk[i] \in attempted
      /\ Len(queue) = Len(disk) - n
      /\ \A i \in 1 .. Len(queue) : queue[i] = disk[n + i]
  BY DEF IsRest
<1>3. disk[n + 1] \in attempted
  BY <1>1, <1>2
<1>4. \A i \in 1 .. n + 1 : i \in 1 .. n \/ i = n + 1
  OBVIOUS
<1>5. \A k \in 1 .. Len(Tail(queue)) : Tail(queue)[k] = disk[(n + 1) + k]
  <2> SUFFICES ASSUME NEW k \in 1 .. Len(Tail(queue))
               PROVE  Tail(queue)[k] = disk[(n + 1) + k]
    OBVIOUS
  <2>1. Tail(queue)[k] = disk[n + (k + 1)]
    BY <1>1, <1>2
  <2>2. n + (k + 1) = (n + 1) + k
    BY <1>1
  <2> QED
    BY <2>1, <2>2
<1> QED
  BY <1>1, <1>2, <1>3, <1>4, <1>5 DEF IsRest

LEMMA MarkSInv ==
  ASSUME IInv, SInv, MarkHandled \/ MarkFails
  PROVE  SInv'
<1>1. /\ pump = "handled" /\ queue # <<>> /\ Head(queue) \in attempted
      /\ UNCHANGED <<emitted, attempted>>
      /\ queue \in Seq(Events) /\ Tail(queue) \in Seq(Events)
  BY InTail DEF MarkHandled, MarkFails, external, ghosts, IInv, TypeOK, Busy, HeadIsHandled
<1>2. Distinct(Tail(queue)) /\ Emitted(Tail(queue))
  BY <1>1, TailDistinct
<1>3. CASE MarkHandled
  <2>1. queue' = Tail(queue) /\ disk' = Tail(queue)
    BY <1>3 DEF MarkHandled
  <2>2. IsRest(queue, disk, 0)' /\ 0 \in 0 .. Len(disk')
    BY <1>1, <2>1 DEF IsRest
  <2> QED
    BY <1>1, <1>2, <2>1, <2>2 DEF SInv, Emitted, Distinct, InQueue
<1>4. CASE MarkFails
  <2>1. queue' \in {queue, Tail(queue)} /\ disk' = disk
    BY <1>4 DEF MarkFails
  <2>2. PICK n \in 0 .. Len(disk) : IsRest(queue, disk, n)
    BY <1>1 DEF SInv
  <2>3. n + 1 \in 0 .. Len(disk) /\ IsRest(Tail(queue), disk, n + 1)
    BY <1>1, <2>2, RestOfTail
  <2>4. \E m \in 0 .. Len(disk) : IsRest(queue, disk, m)'
    BY <1>1, <2>1, <2>2, <2>3 DEF IsRest
  <2> QED
    BY <1>1, <1>2, <2>1, <2>4 DEF SInv, Emitted, Distinct, InQueue
<1> QED
  BY <1>3, <1>4

LEMMA CrashSInv ==
  ASSUME IInv, SInv, Crash \/ Restart \/ UNCHANGED vars
  PROVE  SInv'
<1>1. UNCHANGED <<disk, emitted, attempted>>
  BY DEF Crash, Restart, vars, external, ghosts
<1>2. CASE Crash
  <2>1. queue' = <<>> /\ pump' = "down"
    BY <1>2 DEF Crash
  <2>2. Distinct(<<>>)
    BY DEF Distinct
  <2> QED
    BY <1>1, <2>1, <2>2, InEmpty DEF SInv, Emitted, Distinct, InQueue
<1>3. CASE Restart
  <2>1. queue' = disk /\ disk \in Seq(Events)
    BY <1>3 DEF Restart, IInv, TypeOK
  <2>2. IsRest(queue, disk, 0)' /\ 0 \in 0 .. Len(disk')
    BY <1>1, <2>1 DEF IsRest
  <2> QED
    BY <1>1, <2>1, <2>2 DEF SInv, Emitted, Distinct, InQueue
<1>4. CASE UNCHANGED vars
  BY <1>4 DEF vars, external, ghosts, SInv, Emitted, Distinct, InQueue, IsRest
<1> QED
  BY <1>2, <1>3, <1>4

LEMMA StepSInv == IInv /\ SInv /\ [Next]_vars => SInv'
BY EmitSInv, HandlingSInv, MarkSInv, CrashSInv DEF Next, Pump

-------------------------------------------------------------------------------
(* The pump implements AtLeastOnce.                                        *)
LEMMA RestIsSubSeq ==
  ASSUME IInv, NEW n \in 0 .. Len(disk), IsRest(queue, disk, n)
  PROVE  Promise!DonePrefix(n) /\ Promise!Rest(n) = queue
<1> DEFINE r == SubSeq(disk, n + 1, Len(disk))
<1>1. queue \in Seq(Events) /\ disk \in Seq(Events) /\ Len(disk) \in Nat /\ n \in Nat
  BY DEF IInv, TypeOK
<1>2. r \in Seq(Events) /\ Len(r) = Len(disk) - n
      /\ \A i \in 1 .. Len(r) : r[i] = disk[n + i]
  BY <1>1
<1>3. Len(r) = Len(queue) /\ \A i \in 1 .. Len(queue) : r[i] = queue[i]
  BY <1>1, <1>2 DEF IsRest
<1>4. r = queue
  BY <1>1, <1>2, <1>3, SeqEqual
<1>5. Promise!DonePrefix(n)
  BY DEF IsRest, Promise!DonePrefix
<1> QED
  BY <1>4, <1>5 DEF Promise!Rest

(* The pump starts where AtLeastOnce does.                                 *)
THEOREM InitPromise == Init => Promise!Init
BY DEF Init, Promise!Init

LEMMA EmitKeeps ==
  ASSUME IInv, SInv, NEW e \in Events, Emit(e)
  PROVE  Promise!Keep(e)
<1>1. /\ disk' = Append(queue, e) /\ e \notin emitted /\ attempted' = attempted
      /\ pump # "down"
  BY DEF Emit, ghosts
<1>2. PICK n \in 0 .. Len(disk) : IsRest(queue, disk, n)
  BY <1>1 DEF SInv
<1>3. Promise!DonePrefix(n) /\ disk' = Append(Promise!Rest(n), e)
  BY <1>1, <1>2, RestIsSubSeq
<1>4. e \notin attempted /\ \A i \in 1 .. Len(disk) : disk[i] # e
  BY <1>1 DEF SInv, Emitted, InQueue
<1> QED
  BY <1>1, <1>3, <1>4 DEF Promise!Keep

LEMMA HandlingHandles ==
  ASSUME IInv, SInv, Take \/ NotifySigner \/ Announce \/ RecordForward
  PROVE  Promise!Handle \/ UNCHANGED Promise!vars
<1>1. /\ disk' = disk /\ queue # <<>> /\ pump # "down"
      /\ attempted' \in {attempted, attempted \cup {Head(queue)}}
  BY DEF Take, NotifySigner, Announce, RecordForward, external, IInv, TypeOK, Busy
<1>2. CASE attempted' = attempted
  BY <1>1, <1>2 DEF Promise!vars
<1>3. CASE attempted' # attempted
  <2>1. Head(queue) \notin attempted /\ attempted' = attempted \cup {Head(queue)}
    BY <1>1, <1>3
  <2>2. PICK n \in 0 .. Len(disk) : IsRest(queue, disk, n)
    BY <1>1 DEF SInv
  <2>3. n + 1 \in 1 .. Len(disk) /\ disk[n + 1] = Head(queue)
    BY <1>1, <2>2 DEF IsRest, IInv, TypeOK
  <2>4. Promise!DonePrefix((n + 1) - 1)
    BY <2>2 DEF IsRest, Promise!DonePrefix
  <2> QED
    BY <1>1, <2>1, <2>3, <2>4 DEF Promise!Handle
<1> QED
  BY <1>2, <1>3

LEMMA MarkForgets ==
  ASSUME IInv, SInv, MarkHandled
  PROVE  Promise!Forget
<1>1. /\ disk' = Tail(queue) /\ attempted' = attempted /\ pump # "down"
      /\ queue # <<>> /\ Head(queue) \in attempted /\ queue \in Seq(Events)
  BY DEF MarkHandled, ghosts, IInv, TypeOK, Busy, HeadIsHandled
<1>2. PICK n \in 0 .. Len(disk) : IsRest(queue, disk, n)
  BY <1>1 DEF SInv
<1>3. Promise!DonePrefix(n) /\ Promise!Rest(n) = queue
  BY <1>2, RestIsSubSeq
<1>4. n + 1 \in 1 .. Len(disk) /\ IsRest(Tail(queue), disk, n + 1)
  <2>1. n + 1 \in 0 .. Len(disk) /\ IsRest(Tail(queue), disk, n + 1)
    BY <1>1, <1>2, RestOfTail
  <2> QED
    BY <2>1
<1>5. Promise!DonePrefix(n + 1)
  BY <1>4 DEF IsRest, Promise!DonePrefix
<1>6. Promise!Rest(n + 1) = Tail(queue)
  <2> DEFINE r == SubSeq(disk, n + 2, Len(disk))
  <2>1. disk \in Seq(Events) /\ Len(disk) \in Nat /\ n \in Nat
        /\ Tail(queue) \in Seq(Events)
    BY <1>1, InTail DEF IInv, TypeOK
  <2>2. r \in Seq(Events) /\ Len(r) = Len(disk) - (n + 1)
        /\ \A i \in 1 .. Len(r) : r[i] = disk[(n + 1) + i]
    BY <1>4, <2>1
  <2>3. Len(r) = Len(Tail(queue)) /\ \A i \in 1 .. Len(r) : r[i] = Tail(queue)[i]
    BY <1>4, <2>1, <2>2 DEF IsRest
  <2>4. r = Tail(queue)
    BY <2>1, <2>2, <2>3, SeqEqual
  <2>5. (n + 1) + 1 = n + 2
    BY <2>1
  <2> QED
    BY <2>4, <2>5 DEF Promise!Rest
<1> QED
  BY <1>1, <1>4, <1>5, <1>6 DEF Promise!Forget

(* Every step of the pump is a step of AtLeastOnce or leaves it alone.     *)
THEOREM StepPromise ==
  IInv /\ SInv /\ [Next]_vars => [Promise!Next]_(Promise!vars)
<1> SUFFICES ASSUME IInv, SInv, [Next]_vars
             PROVE  [Promise!Next]_(Promise!vars)
  OBVIOUS
<1>1. CASE \E e \in Events : Emit(e)
  BY <1>1, EmitKeeps DEF Promise!Next
<1>2. CASE Take \/ NotifySigner \/ Announce \/ RecordForward
  BY <1>2, HandlingHandles DEF Promise!Next
<1>3. CASE MarkHandled
  BY <1>3, MarkForgets DEF Promise!Next
<1>4. CASE MarkFails \/ Crash \/ Restart \/ UNCHANGED vars
  BY <1>4 DEF MarkFails, Crash, Restart, vars, ghosts, Promise!vars
<1> QED
  BY <1>1, <1>2, <1>3, <1>4 DEF Next, Pump

(* Every behaviour of the pump is one that at-least-once delivery allows   *)
(* (KeepsEvents without its fairness).                                     *)
THEOREM PumpImplementsPromise ==
  Spec => Promise!Init /\ [][Promise!Next]_(Promise!vars)
<1> QED
  BY InitPromise, StepPromise, Invariance, InitSInv, StepSInv, PTL DEF Spec

-------------------------------------------------------------------------------
(* ForwardsCountedOnce.  A forward still to be handled in this life was    *)
(* counted once per failed mark at most: memory is emptied by the crash    *)
(* that brings a forward back.                                             *)
Fwd(f) == [kind |-> "forwarded", of |-> f]

Pending(f) ==
  InQueue(Fwd(f), queue) /\ ~(pump = "handled" /\ Head(queue) = Fwd(f))

FInv ==
  \A f \in Forwards :
    /\ history[f] <= 1 + markFailures
    /\ Pending(f) => history[f] <= markFailures
    /\ Fwd(f) \notin emitted \/ pump = "down" => history[f] = 0

LEMMA EmitFInv ==
  ASSUME IInv, SInv, FInv, NEW e \in Events, Emit(e)
  PROVE  FInv'
<1>1. /\ UNCHANGED <<pump, history, markFailures>> /\ queue' = Append(queue, e)
      /\ emitted' = emitted \cup {e} /\ e \notin emitted /\ queue \in Seq(Events)
      /\ markFailures \in Nat
  BY PumpAssumption DEF Emit, ghosts, IInv, TypeOK
<1>2. pump = "handled" => Head(queue') = Head(queue)
  BY <1>1, HeadAppend DEF IInv, TypeOK, Busy
<1> SUFFICES ASSUME NEW f \in Forwards
             PROVE  /\ history[f] <= 1 + markFailures
                    /\ Pending(f)' => history[f] <= markFailures
                    /\ Fwd(f) \notin emitted' \/ pump = "down" => history[f] = 0
  BY <1>1 DEF FInv, Fwd
<1>3. Fwd(f) \in Events
  BY DEF Fwd, Events
<1>4. InQueue(Fwd(f), queue)' <=> (Fwd(f) = e \/ InQueue(Fwd(f), queue))
  BY <1>1, InAppend, <1>3 DEF Fwd
<1>5. CASE Fwd(f) = e
  BY <1>1, <1>5 DEF FInv
<1>6. CASE Fwd(f) # e
  <2>1. Pending(f)' => Pending(f)
    BY <1>1, <1>2, <1>4, <1>6 DEF Pending, Fwd
  <2> QED
    BY <1>1, <1>6, <2>1 DEF FInv
<1> QED
  BY <1>5, <1>6

LEMMA RecordFInv ==
  ASSUME IInv, SInv, FInv, RecordForward
  PROVE  FInv'
<1>1. /\ pump = "recording" /\ pump' = "handled" /\ queue # <<>>
      /\ UNCHANGED <<queue, emitted, markFailures>> /\ markFailures \in Nat
      /\ Head(queue) \in Events /\ Head(queue).kind = "forwarded"
      /\ history \in [Forwards -> Nat]
      /\ history' = [history EXCEPT ![Head(queue).of] = @ + 1]
  BY InTail, PumpAssumption DEF RecordForward, external, IInv, TypeOK, Busy
<1>2. InQueue(Head(queue), queue) /\ Head(queue) \in emitted
  BY <1>1, InTail DEF SInv, Emitted, IInv, TypeOK
<1> SUFFICES ASSUME NEW f \in Forwards
             PROVE  /\ history'[f] <= 1 + markFailures
                    /\ Pending(f)' => history'[f] <= markFailures
                    /\ Fwd(f) \notin emitted => history'[f] = 0
  BY <1>1 DEF FInv, Fwd
<1>3. CASE Head(queue) = Fwd(f)
  <2>1. Pending(f) /\ ~Pending(f)'
    BY <1>1, <1>2, <1>3 DEF Pending, Fwd
  <2>2. history'[f] = history[f] + 1
    BY <1>1, <1>3 DEF Fwd
  <2>3. history[f] \in Nat /\ history[f] <= markFailures
    BY <1>1, <2>1 DEF FInv
  <2> QED
    BY <1>1, <1>2, <1>3, <2>1, <2>2, <2>3
<1>4. CASE Head(queue) # Fwd(f)
  <2>1. Head(queue).of # f
    BY <1>1, <1>4 DEF Events, Fwd
  <2>2. history'[f] = history[f]
    BY <1>1, <2>1
  <2>3. Pending(f)' => Pending(f)
    BY <1>1 DEF Pending, InQueue, Fwd
  <2> QED
    BY <2>2, <2>3 DEF FInv
<1> QED
  BY <1>3, <1>4

LEMMA MarkFInv ==
  ASSUME IInv, SInv, FInv, MarkHandled \/ MarkFails
  PROVE  FInv'
<1>1. /\ pump = "handled" /\ pump' = "waiting" /\ queue # <<>>
      /\ UNCHANGED <<emitted, history>> /\ markFailures \in Nat
      /\ history \in [Forwards -> Nat]
      /\ queue' \in {queue, Tail(queue)} /\ queue \in Seq(Events)
  BY PumpAssumption
     DEF MarkHandled, MarkFails, external, ghosts, IInv, TypeOK, Busy
<1> SUFFICES ASSUME NEW f \in Forwards
             PROVE  /\ history[f] <= 1 + markFailures'
                    /\ InQueue(Fwd(f), queue') => history[f] <= markFailures'
                    /\ Fwd(f) \notin emitted => history[f] = 0
  BY <1>1 DEF FInv, Pending, InQueue, Fwd
<1>2. history[f] \in Nat /\ history[f] <= 1 + markFailures
      /\ (Fwd(f) \notin emitted => history[f] = 0)
  BY <1>1 DEF FInv
<1>3. CASE MarkHandled
  <2>1. queue' = Tail(queue) /\ markFailures' = markFailures
    BY <1>3 DEF MarkHandled
  <2>2. InQueue(Fwd(f), Tail(queue)) => Pending(f)
    BY <1>1, InTail, TailDistinct DEF Pending
  <2> QED
    BY <1>2, <2>1, <2>2 DEF FInv
<1>4. CASE MarkFails
  BY <1>1, <1>2, <1>4 DEF MarkFails
<1> QED
  BY <1>3, <1>4

LEMMA QuietFInv ==
  ASSUME IInv, SInv, FInv,
         Take \/ NotifySigner \/ Announce \/ Crash \/ Restart \/ UNCHANGED vars
  PROVE  FInv'
<1>0. markFailures \in Nat /\ history \in [Forwards -> Nat]
  BY PumpAssumption DEF IInv, TypeOK
<1>1. CASE Take \/ NotifySigner \/ Announce
  <2>1. UNCHANGED <<queue, emitted, history, markFailures>>
        /\ pump # "handled" /\ pump # "down" /\ pump' # "down"
    BY <1>1 DEF Take, NotifySigner, Announce, FirstStep, external
  <2>2. \A f \in Forwards : Pending(f)' => Pending(f)
    BY <2>1 DEF Pending, InQueue, Fwd
  <2> QED
    BY <2>1, <2>2 DEF FInv, Fwd
<1>2. CASE Crash
  BY <1>2 DEF Crash, FInv
<1>3. CASE Restart
  <2>1. UNCHANGED <<emitted, history, markFailures>> /\ pump = "down"
    BY <1>3 DEF Restart, external
  <2> QED
    BY <1>0, <2>1 DEF FInv, Fwd
<1>4. CASE UNCHANGED vars
  BY <1>4 DEF vars, external, FInv, Pending, InQueue, Fwd
<1> QED
  BY <1>1, <1>2, <1>3, <1>4

(* The forwarding history counts no forward more often than once, but for  *)
(* the marks that failed in this life of the process.                      *)
THEOREM ForwardsAreCountedOnce == Spec => []ForwardsCountedOnce
<1>1. Init => FInv
  BY PumpAssumption, InEmpty DEF Init, FInv, Pending
<1>2. IInv /\ SInv /\ FInv /\ [Next]_vars => FInv'
  BY EmitFInv, RecordFInv, MarkFInv, QuietFInv DEF Next, Pump
<1>3. FInv => ForwardsCountedOnce
  BY DEF FInv, ForwardsCountedOnce
<1> QED
  BY <1>1, <1>2, <1>3, Invariance, InitSInv, StepSInv, PTL DEF Spec

-------------------------------------------------------------------------------
(* What the promise is worth: no event is handled before an older one that *)
(* is kept, whatever crashes and failed marks repeat.  It follows from the *)
(* steps of AtLeastOnce, and nothing else of the pump.                     *)
HandledInOrder ==
  \A i, j \in 1 .. Len(disk) :
    i < j /\ disk[j] \in attempted => disk[i] \in attempted

LEMMA PromiseKeepsOrder ==
  ASSUME disk \in Seq(Events), Distinct(disk), HandledInOrder,
         [Promise!Next]_(Promise!vars)
  PROVE  HandledInOrder'
<1>1. Len(disk) \in Nat
  OBVIOUS
<1>2. ASSUME NEW n \in 0 .. Len(disk)
      PROVE  /\ Promise!Rest(n) \in Seq(Events) /\ Len(Promise!Rest(n)) = Len(disk) - n
             /\ \A k \in 1 .. Len(disk) - n :
                  Promise!Rest(n)[k] = disk[n + k] /\ n + k \in 1 .. Len(disk)
  BY <1>1 DEF Promise!Rest
<1>3. ASSUME NEW n \in 0 .. Len(disk), NEW i \in 1 .. Len(disk) - n,
             NEW j \in 1 .. Len(disk) - n, i < j, Promise!Rest(n)[j] \in attempted
      PROVE  Promise!Rest(n)[i] \in attempted
  <2>1. n + i \in 1 .. Len(disk) /\ n + j \in 1 .. Len(disk) /\ n + i < n + j
    BY <1>1, <1>3
  <2> QED
    BY <1>2, <1>3, <2>1 DEF HandledInOrder
<1>4. ASSUME NEW e \in Events, Promise!Keep(e)
      PROVE  HandledInOrder'
  <2>1. PICK n \in 0 .. Len(disk) : disk' = Append(Promise!Rest(n), e)
    BY <1>4 DEF Promise!Keep
  <2> DEFINE r == Promise!Rest(n)
  <2>2. /\ r \in Seq(Events) /\ Len(r) \in Nat /\ Len(r) = Len(disk) - n
        /\ attempted' = attempted /\ e \notin attempted
    BY <1>2, <1>4 DEF Promise!Keep
  <2>3. ASSUME NEW i \in 1 .. Len(r), NEW j \in 1 .. Len(r), i < j, r[j] \in attempted
        PROVE  r[i] \in attempted
    BY <1>3, <2>2, <2>3
  <2> HIDE DEF r
  <2>4. /\ Len(disk') = Len(r) + 1 /\ disk'[Len(r) + 1] = e
        /\ \A k \in 1 .. Len(r) : disk'[k] = r[k]
    BY <2>1, <2>2 DEF r
  <2> SUFFICES ASSUME NEW i \in 1 .. Len(r) + 1, NEW j \in 1 .. Len(r) + 1, i < j,
                      disk'[j] \in attempted
               PROVE  disk'[i] \in attempted
    BY <2>2, <2>4 DEF HandledInOrder
  <2>5. j # Len(r) + 1
    BY <2>2, <2>4
  <2>6. i \in 1 .. Len(r) /\ j \in 1 .. Len(r)
    BY <2>2, <2>5
  <2> QED
    BY <2>3, <2>4, <2>6
<1>5. CASE Promise!Handle
  <2>1. PICK n \in 1 .. Len(disk) :
          /\ Promise!DonePrefix(n - 1) /\ attempted' = attempted \cup {disk[n]}
          /\ disk' = disk
    BY <1>5 DEF Promise!Handle
  <2> SUFFICES ASSUME NEW i \in 1 .. Len(disk), NEW j \in 1 .. Len(disk), i < j,
                      disk[j] \in attempted \cup {disk[n]}
               PROVE  disk[i] \in attempted \cup {disk[n]}
    BY <2>1 DEF HandledInOrder
  <2>2. CASE disk[j] \in attempted
    BY <2>2 DEF HandledInOrder
  <2>3. CASE disk[j] = disk[n]
    <3>1. j = n
      BY <2>3 DEF Distinct
    <3>2. i \in 1 .. n - 1
      BY <1>1, <3>1
    <3> QED
      BY <2>1, <3>2 DEF Promise!DonePrefix
  <2> QED
    BY <2>2, <2>3
<1>6. CASE Promise!Forget
  <2>1. PICK n \in 1 .. Len(disk) : disk' = Promise!Rest(n) /\ attempted' = attempted
    BY <1>6 DEF Promise!Forget
  <2>2. n \in 0 .. Len(disk)
    BY <1>1
  <2>3. Len(disk') = Len(disk) - n
    BY <1>2, <2>1, <2>2
  <2> QED
    BY <1>3, <2>1, <2>2, <2>3 DEF HandledInOrder
<1>7. CASE UNCHANGED Promise!vars
  BY <1>7 DEF Promise!vars, HandledInOrder
<1> QED
  BY <1>4, <1>5, <1>6, <1>7 DEF Promise!Next

(* Events are handled in the order ldk-node queued them in, always.        *)
THEOREM EventsAreHandledInOrder == Spec => []HandledInOrder
<1>1. Init => HandledInOrder
  <2>1. Len(<<>>) = 0
    OBVIOUS
  <2> QED
    BY <2>1 DEF Init, HandledInOrder
<1>2. IInv /\ SInv /\ [Next]_vars /\ HandledInOrder => HandledInOrder'
  BY StepPromise, PromiseKeepsOrder DEF IInv, TypeOK, SInv
<1> QED
  BY <1>1, <1>2, Invariance, InitSInv, StepSInv, PTL DEF Spec

-------------------------------------------------------------------------------
(* Why every event is handled: the steps the pump has left until it has    *)
(* dealt with the i-th event of the queue, every failed mark it may still  *)
(* meet included.                                                          *)
PumpSteps(i) ==
  5 * (i + (MaxMarkFailures - markFailures)) +
  CASE pump = "waiting" -> 4 [] pump = "signing" -> 3
    [] pump \in {"announcing", "recording"} -> 2 [] OTHER -> 1

(* Every step of the pump, a failed mark included, brings each event that  *)
(* was not handled nearer to its handling, and new events take none        *)
(* farther away.  Crashes alone do, and EventuallyHandled needs that they  *)
(* cease.                                                                  *)
EventsComeCloser ==
  \A i \in 1 .. Len(queue) :
    (queue[i] \notin attempted /\ pump # "down" /\ crashes' = crashes) =>
      \/ queue[i] \in attempted'
      \/ \E k \in 1 .. Len(queue') :
           /\ queue'[k] = queue[i]
           /\ PumpSteps(k)' <= PumpSteps(i)
           /\ Pump => PumpSteps(k)' < PumpSteps(i)

LEMMA CloserStep ==
  ASSUME IInv, TypeOK', [Next]_vars, NEW i \in 1 .. Len(queue),
         queue[i] \notin attempted, pump # "down", crashes' = crashes
  PROVE  \/ queue[i] \in attempted'
         \/ \E k \in 1 .. Len(queue') :
              /\ queue'[k] = queue[i]
              /\ PumpSteps(k)' <= PumpSteps(i)
              /\ Pump => PumpSteps(k)' < PumpSteps(i)
<1> DEFINE m == MaxMarkFailures - markFailures
           n == MaxMarkFailures - markFailures'
<1>1. /\ m \in Nat /\ n \in Nat /\ i \in Nat /\ 1 <= i
      /\ queue \in Seq(Events) /\ Len(queue) \in Nat /\ i <= Len(queue)
      /\ queue # <<>>
  <2>1. m \in Nat
    BY PumpAssumption DEF IInv, TypeOK
  <2>2. n \in Nat
    <3>1. \A x \in 0 .. MaxMarkFailures : MaxMarkFailures - x \in Nat
      BY PumpAssumption
    <3>2. markFailures' \in 0 .. MaxMarkFailures
      BY DEF TypeOK
    <3> QED
      BY <3>1, <3>2
  <2>3. queue \in Seq(Events)
    BY DEF IInv, TypeOK
  <2>4. Len(queue) \in Nat
    BY <2>3
  <2>5. i \in Nat /\ 1 <= i /\ i <= Len(queue)
    BY <2>4
  <2>6. queue # <<>>
    BY <2>3, <2>5
  <2> QED
    BY <2>1, <2>2, <2>3, <2>4, <2>5, <2>6
<1>2. /\ pump = "waiting" => PumpSteps(i) = 5 * (i + m) + 4
      /\ pump = "signing" => PumpSteps(i) = 5 * (i + m) + 3
      /\ pump \in {"announcing", "recording"} => PumpSteps(i) = 5 * (i + m) + 2
      /\ pump = "handled" => PumpSteps(i) = 5 * (i + m) + 1
      /\ PumpSteps(i) \in Nat
  BY <1>1 DEF PumpSteps
<1>3. ASSUME NEW k
      PROVE  /\ pump' = "waiting" => PumpSteps(k)' = 5 * (k + n) + 4
             /\ pump' = "signing" => PumpSteps(k)' = 5 * (k + n) + 3
             /\ pump' \in {"announcing", "recording"} => PumpSteps(k)' = 5 * (k + n) + 2
             /\ pump' = "handled" => PumpSteps(k)' = 5 * (k + n) + 1
  BY DEF PumpSteps
<1> HIDE DEF m, n
<1>4. CASE Take
  <2>1. queue' = queue /\ n = m /\ pump = "waiting" /\ pump' = FirstStep(Head(queue))
    BY <1>4 DEF Take, m, n
  <2>2. FirstStep(Head(queue)) \in {"signing", "announcing", "recording", "handled"}
    BY DEF FirstStep
  <2>3. PumpSteps(i)' < PumpSteps(i) /\ PumpSteps(i)' \in Nat
    BY <1>1, <1>2, <1>3, <2>1, <2>2
  <2> QED
    BY <1>2, <2>1, <2>3
<1>5. CASE NotifySigner \/ Announce \/ RecordForward
  <2>1. /\ queue' = queue /\ n = m
        /\ \/ pump = "signing" /\ pump' = "announcing"
           \/ pump \in {"announcing", "recording"} /\ pump' = "handled"
    BY <1>5 DEF NotifySigner, Announce, RecordForward, m, n
  <2>2. PumpSteps(i)' < PumpSteps(i) /\ PumpSteps(i)' \in Nat
    BY <1>1, <1>2, <1>3, <2>1
  <2> QED
    BY <1>2, <2>1, <2>2
<1>6. CASE MarkHandled \/ MarkFails
  <2>1. /\ pump = "handled" /\ pump' = "waiting" /\ Head(queue) \in attempted
        /\ \/ queue' = Tail(queue) /\ n <= m
           \/ queue' = queue /\ n = m - 1
    <3>1. pump = "handled" /\ pump' = "waiting"
      BY <1>6 DEF MarkHandled, MarkFails
    <3>2. Head(queue) \in attempted
      BY <3>1 DEF IInv, HeadIsHandled
    <3>3. CASE MarkHandled
      <4>1. queue' = Tail(queue) /\ n = m
        BY <3>3 DEF MarkHandled, m, n
      <4> QED
        BY <1>1, <3>1, <3>2, <4>1
    <3>4. CASE MarkFails
      <4>1. queue' \in {queue, Tail(queue)} /\ markFailures' = markFailures + 1
        BY <3>4 DEF MarkFails
      <4>2. markFailures \in Nat
        BY PumpAssumption DEF IInv, TypeOK
      <4>3. n = m - 1
        BY <4>1, <4>2, PumpAssumption DEF m, n
      <4> QED
        BY <1>1, <3>1, <3>2, <4>1, <4>3
    <3> QED
      BY <1>6, <3>3, <3>4
  <2>2. Head(queue) = queue[1] /\ i # 1
    BY <1>1, <2>1
  <2>3. CASE queue' = Tail(queue) /\ n <= m
    <3>1. i - 1 \in 1 .. Len(queue') /\ queue'[i - 1] = queue[i]
      BY <1>1, <2>2, <2>3
    <3>2. PumpSteps(i - 1)' < PumpSteps(i) /\ PumpSteps(i - 1)' \in Nat
      BY <1>1, <1>2, <1>3, <2>1, <2>2, <2>3
    <3> QED
      BY <1>2, <3>1, <3>2
  <2>4. CASE queue' = queue /\ n = m - 1
    <3>1. PumpSteps(i)' < PumpSteps(i) /\ PumpSteps(i)' \in Nat
      BY <1>1, <1>2, <1>3, <2>1, <2>4
    <3> QED
      BY <1>2, <2>4, <3>1
  <2> QED
    BY <2>1, <2>3, <2>4
<1>7. ASSUME NEW e \in Events, Emit(e)
      PROVE  /\ ~Pump
             /\ \E k \in 1 .. Len(queue') :
                  queue'[k] = queue[i] /\ PumpSteps(k)' <= PumpSteps(i)
  <2>1. /\ queue' = Append(queue, e) /\ e \notin emitted /\ e \in emitted'
        /\ UNCHANGED <<pump, markFailures>>
    BY <1>7 DEF Emit
  <2>2. i \in 1 .. Len(queue') /\ queue'[i] = queue[i]
    BY <1>1, <2>1
  <2>3. PumpSteps(i)' = PumpSteps(i)
    BY <2>1 DEF PumpSteps
  <2>4. ~Pump
    BY <2>1 DEF Pump, Take, NotifySigner, Announce, RecordForward, MarkHandled,
                MarkFails, external
  <2> QED
    BY <1>2, <2>2, <2>3, <2>4
<1>8. CASE Crash \/ Restart
  BY <1>8 DEF Crash, Restart, IInv, TypeOK
<1>9. CASE UNCHANGED vars
  <2>1. queue' = queue /\ pump' = pump /\ markFailures' = markFailures
        /\ attempted' = attempted
    BY <1>9 DEF vars, ghosts
  <2>2. PumpSteps(i)' = PumpSteps(i)
    BY <2>1 DEF PumpSteps
  <2>3. ~Pump
    BY <2>1, PumpAssumption DEF Pump, Take, NotifySigner, Announce, RecordForward,
       MarkHandled, MarkFails, FirstStep, IInv, TypeOK
  <2> QED
    BY <1>2, <2>1, <2>2, <2>3
<1> QED
  BY <1>4, <1>5, <1>6, <1>7, <1>8, <1>9 DEF Next, Pump

(* Between two crashes every step of the pump brings every event that is   *)
(* still to be handled nearer to its handling.                             *)
THEOREM EventsAlwaysComeCloser == Spec => [][EventsComeCloser]_vars
<1>1. IInv /\ IInv' /\ [Next]_vars => [EventsComeCloser]_vars
  BY CloserStep DEF EventsComeCloser, IInv
<1> QED
  BY <1>1, Invariance, PTL DEF Spec

===============================================================================
