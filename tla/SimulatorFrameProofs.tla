------------------------ MODULE SimulatorFrameProofs ------------------------
(***************************************************************************)
(* Where frames are: no queue, wire or event of the engine ever loses or   *)
(* duplicates one, and no frame overtakes an earlier one of its stream.    *)
(* And what a run reports is true of it: which frames it released and      *)
(* when, how many it delivered, and why it stopped.                        *)
(***************************************************************************)
EXTENDS SimulatorProofs, FiniteSetTheorems, WellFoundedInduction

-----------------------------------------------------------------------------
(* Queues                                                                  *)

Holds(q, f) == \E i \in DOMAIN q : q[i] = f
NoRepeat(q) == \A i, j \in DOMAIN q : q[i] = q[j] => i = j
Before(q, f, g) == \A i, j \in DOMAIN q : q[i] = f /\ q[j] = g => i < j

(* A frame that joins a queue is its last, and moves no other. *)
LEMMA JoinedFacts ==
  ASSUME NEW S, NEW q \in Seq(S), NEW f \in S
  PROVE  /\ \A g : Holds(Joined(q, f), g) <=> Holds(q, g) \/ g = f
         /\ NoRepeat(q) /\ ~Holds(q, f) => NoRepeat(Joined(q, f))
         /\ \A g, h : Before(q, g, h) /\ g # f => Before(Joined(q, f), g, h)
<1> DEFINE r == Joined(q, f)
<1>1. /\ Len(q) \in Nat /\ DOMAIN q = 1..Len(q) /\ DOMAIN r = 1..(Len(q) + 1)
      /\ \A i \in 1..Len(q) : r[i] = q[i]
      /\ r[Len(q) + 1] = f
  BY DEF Joined
<1> HIDE DEF r
<1>2. \A i \in DOMAIN r : i \in DOMAIN q \/ i = Len(q) + 1
  BY <1>1
<1>3. \A g : Holds(r, g) <=> Holds(q, g) \/ g = f
  BY <1>1, <1>2 DEF Holds
<1>4. NoRepeat(q) /\ ~Holds(q, f) => NoRepeat(r)
  BY <1>1, <1>2 DEF Holds, NoRepeat
<1>5. \A g, h : Before(q, g, h) /\ g # f => Before(r, g, h)
  BY <1>1, <1>2 DEF Before
<1> QED
  BY <1>3, <1>4, <1>5 DEF r

(* A queue that is popped loses its head and keeps the order of the others. *)
LEMMA PoppedFacts ==
  ASSUME NEW S, NEW q \in Seq(S), q # <<>>, NoRepeat(q)
  PROVE  /\ Head(q) \in S /\ Holds(q, Head(q))
         /\ \A g : Holds(Popped(q), g) <=> Holds(q, g) /\ g # Head(q)
         /\ NoRepeat(Popped(q))
         /\ \A g, h : Before(q, g, h) => Before(Popped(q), g, h)
         /\ \A g : Holds(q, g) /\ Before(q, g, Head(q)) => FALSE
<1> DEFINE r == Popped(q)
<1>1. /\ Len(q) \in Nat \ {0} /\ DOMAIN q = 1..Len(q) /\ DOMAIN r = 1..(Len(q) - 1)
      /\ \A i \in 1..(Len(q) - 1) : r[i] = q[i + 1]
      /\ Head(q) = q[1] /\ Head(q) \in S
  BY DEF Popped
<1> HIDE DEF r
<1>2. /\ 1 \in DOMAIN q
      /\ \A i \in DOMAIN q : i = 1 \/ (i - 1 \in DOMAIN r /\ r[i - 1] = q[i])
      /\ \A i \in DOMAIN r : i + 1 \in DOMAIN q /\ r[i] = q[i + 1] /\ i + 1 # 1
  BY <1>1
<1>3. \A g : Holds(r, g) <=> Holds(q, g) /\ g # Head(q)
  <2>1. ASSUME NEW g, Holds(r, g)
        PROVE  Holds(q, g) /\ g # Head(q)
    BY <1>1, <1>2, <2>1 DEF Holds, NoRepeat
  <2>2. ASSUME NEW g, Holds(q, g), g # Head(q)
        PROVE  Holds(r, g)
    BY <1>1, <1>2, <2>2 DEF Holds
  <2> QED
    BY <2>1, <2>2
<1>4. NoRepeat(r)
  BY <1>1, <1>2 DEF NoRepeat
<1>5. \A g, h : Before(q, g, h) => Before(r, g, h)
  <2> SUFFICES ASSUME NEW g, NEW h, Before(q, g, h),
                      NEW i \in DOMAIN r, NEW j \in DOMAIN r, r[i] = g, r[j] = h
               PROVE  i < j
    BY DEF Before
  <2>1. i + 1 < j + 1
    BY <1>2 DEF Before
  <2> QED
    BY <1>1, <2>1
<1>6. \A g : Holds(q, g) /\ Before(q, g, Head(q)) => FALSE
  BY <1>1, <1>2 DEF Holds, Before
<1>7. Holds(q, Head(q))
  BY <1>1, <1>2 DEF Holds
<1> QED
  BY <1>1, <1>3, <1>4, <1>5, <1>6, <1>7 DEF r

-----------------------------------------------------------------------------
(* Where a frame is                                                        *)

MoveKind == {"ENQUEUE_FRAME", "FORWARD_FRAME", "DELIVERY_COMPLETE"}

(* The task moves frame f. *)
Moves(task, f) == task.kind \in MoveKind /\ task.frame = f

Arriving(f) ==
  \E e \in events : e.task.kind = "ENQUEUE_FRAME" /\ e.task.frame = f
Queued(f) == \E l \in Link, c \in TrafficClass : Holds(queue[l][c], f)
OnAWire(f) == \E l \in Link : onWire[l] = f
Leaving(f) ==
  \E e \in events : /\ e.task.kind \in {"FORWARD_FRAME", "DELIVERY_COMPLETE"}
                    /\ e.task.frame = f
Delivered(f) == frames[f].deliveredAt # None

(* A frame passes the five stages of a hop in this order; stage 4 only on  *)
(* the last.                                                               *)
Stage == 0..4

(* Frame f is in stage n of its hop, and in no other. *)
At(f, n) ==
  /\ Arriving(f) <=> n = 0
  /\ Queued(f) <=> n = 1
  /\ OnAWire(f) <=> n = 2
  /\ Leaving(f) <=> n = 3
  /\ Delivered(f) <=> n = 4

(* Frame f is in one stage, at the port of its hop if it is at a port, and *)
(* its pending event says where it goes.                                   *)
Placed(f) ==
  /\ frames[f].hop \in DOMAIN RouteOf(f)
  /\ \A l \in Link, c \in TrafficClass :
       Holds(queue[l][c], f) => l = HopLink(f) /\ c = ClassOf(f)
  /\ \A l \in Link : onWire[l] = f => l = HopLink(f)
  /\ \A e \in events : Moves(e.task, f) =>
       /\ e.task.kind = "ENQUEUE_FRAME" => e.task.link = HopLink(f)
       /\ e.task.kind = "FORWARD_FRAME" => ~IsLastHop(f)
       /\ e.task.kind = "DELIVERY_COMPLETE" => IsLastHop(f)
  /\ \A d, e \in events : Moves(d.task, f) /\ Moves(e.task, f) => d = e
  /\ Delivered(f) => IsLastHop(f)
  /\ \E n \in Stage : At(f, n)

(* Only released frames are in the network. *)
FramesAreReleased == \A f \in DOMAIN frames : f[2] < released[StreamOf(f)]

OnlyKnownFrames ==
  /\ \A l \in Link, c \in TrafficClass : \A i \in DOMAIN queue[l][c] :
       queue[l][c][i] \in DOMAIN frames
  /\ \A l \in Link : onWire[l] # None => onWire[l] \in DOMAIN frames
  /\ \A e \in events : e.task.kind \in MoveKind => e.task.frame \in DOMAIN frames

FrameInv ==
  /\ EngineInv
  /\ FramesAreReleased
  /\ Running => /\ OnlyKnownFrames
                /\ \A l \in Link, c \in TrafficClass : NoRepeat(queue[l][c])
                /\ \A f \in DOMAIN frames : Placed(f)

(* Events that move a frame are due at once, and no two events were pushed *)
(* with one sequence number.                                               *)
MovesAreNow == \A e \in events : e.task.kind \in MoveKind => e.at = clock

PushedBefore == \A e \in events : e.seq <= 2 * processed + 1

(* Frame f is ahead of frame g. *)
Ahead(f, g) ==
  /\ frames[f].hop >= frames[g].hop
  /\ frames[f].hop = frames[g].hop =>
       \A m, n \in Stage : At(f, m) /\ At(g, n) => m >= n
  /\ \A l \in Link, c \in TrafficClass : Before(queue[l][c], f, g)
  /\ frames[f].hop = frames[g].hop =>
       \A d, e \in events :
         /\ Moves(d.task, f) /\ Moves(e.task, g)
         /\ d.task.kind = "ENQUEUE_FRAME" <=> e.task.kind = "ENQUEUE_FRAME"
         => d.seq < e.seq

(* Frame f was released before frame g of its stream. *)
Earlier(f, g) == StreamOf(f) = StreamOf(g) /\ f[2] < g[2]

Ordered ==
  /\ MovesAreNow /\ PushedBefore
  /\ \A f, g \in DOMAIN frames : Earlier(f, g) => Ahead(f, g)

OrderInv == NoOvertaking /\ (Running => Ordered)

-----------------------------------------------------------------------------
(* Tasks that move frames                                                  *)

(* The fields of the tasks that move frames. *)
LEMMA MoveFields ==
  /\ \A f, l : EnqueueFrame(f, l).frame = f /\ EnqueueFrame(f, l).link = l
  /\ \A f : ForwardFrame(f).frame = f /\ DeliveryComplete(f).frame = f
BY DEF EnqueueFrame, ForwardFrame, DeliveryComplete

(* The sequence number of a pushed event. *)
LEMMA ScheduledSeq ==
  ASSUME NEW at, NEW nth, NEW task
  PROVE  Scheduled(at, nth, task).seq = 2 * processed' + nth
BY DEF Scheduled

(* A task is told by its fields. *)
LEMMA TaskKinds ==
  ASSUME NEW task \in Task
  PROVE  /\ task.kind = "ENQUEUE_FRAME" =>
              /\ task.frame \in Frame /\ task.link \in Link
              /\ task = EnqueueFrame(task.frame, task.link)
         /\ task.kind = "FORWARD_FRAME" =>
              task.frame \in Frame /\ task = ForwardFrame(task.frame)
         /\ task.kind = "DELIVERY_COMPLETE" =>
              task.frame \in Frame /\ task = DeliveryComplete(task.frame)
<1>1. CASE task.kind = "ENQUEUE_FRAME"
  <2>1. task \in [kind : {"ENQUEUE_FRAME"}, frame : Frame, link : Link]
    BY <1>1 DEF Task
  <2> QED
    BY <2>1 DEF EnqueueFrame
<1>2. CASE task.kind = "FORWARD_FRAME"
  <2>1. task \in [kind : {"FORWARD_FRAME"}, frame : Frame]
    BY <1>2 DEF Task
  <2> QED
    BY <2>1 DEF ForwardFrame
<1>3. CASE task.kind = "DELIVERY_COMPLETE"
  <2>1. task \in [kind : {"DELIVERY_COMPLETE"}, frame : Frame]
    BY <1>3 DEF Task
  <2> QED
    BY <2>1 DEF DeliveryComplete
<1> QED
  BY <1>1, <1>2, <1>3

(* The scheduler pushes nothing that moves or releases a frame. *)
LEMMA SchedulerMovesNothing ==
  ASSUME NEW e, NEW l, NEW cr, NEW starts, NEW wakes, NEW pushed,
         ScheduleNextTransmission(e, l, cr, starts, wakes, pushed)
  PROVE  \E new : /\ events' = (events \ {e}) \cup (pushed \cup new)
                  /\ \A n \in new :
                       /\ n.task.kind \in {"TRANSMISSION_START", "CREDIT_UPDATE"}
                       /\ n.seq = 2 * processed' + 1
<1> DEFINE start == Scheduled(clock', 1, TransmissionStart(l))
           wake(c) == Scheduled(RecoveryTime(l, c, cr), 1, CreditUpdate(l, c))
<1>1. /\ start.task.kind = "TRANSMISSION_START" /\ start.seq = 2 * processed' + 1
      /\ \A c : /\ wake(c).task.kind = "CREDIT_UPDATE"
                /\ wake(c).seq = 2 * processed' + 1
  BY ScheduledFields, ScheduledSeq, TaskFields
<1>2. \/ Push(e, pushed \cup {start})
      \/ \E c \in Shaped : Push(e, pushed \cup {wake(c)})
      \/ Push(e, pushed)
  BY DEF ScheduleNextTransmission
<1> HIDE DEF start, wake
<1> DEFINE Harmless(new) ==
             \A n \in new : /\ n.task.kind \in {"TRANSMISSION_START", "CREDIT_UPDATE"}
                            /\ n.seq = 2 * processed' + 1
<1>3. \E new : Push(e, pushed \cup new) /\ Harmless(new)
  <2>1. Harmless({start}) /\ Harmless({}) /\ \A c \in Shaped : Harmless({wake(c)})
    BY <1>1
  <2>2. Push(e, pushed) => Push(e, pushed \cup {})
    BY DEF Push
  <2> HIDE DEF Harmless
  <2> QED
    BY <1>2, <2>1, <2>2
<1> QED
  BY <1>3 DEF Push

-----------------------------------------------------------------------------
(* A step moves one frame at most                                          *)

(* The step leaves frame g where it is. *)
SameFrame(g) ==
  /\ \A l \in Link, c \in TrafficClass : Holds(queue'[l][c], g) <=> Holds(queue[l][c], g)
  /\ \A l \in Link : onWire'[l] = g <=> onWire[l] = g
  /\ \A x : Moves(x.task, g) => (x \in events' <=> x \in events)
  /\ frames'[g].hop = frames[g].hop
  /\ frames'[g].deliveredAt = frames[g].deliveredAt

(* A frame that stays where it is stays in its place. *)
LEMMA SameFrameSamePlace ==
  ASSUME case' = case, NEW g, SameFrame(g)
  PROVE  /\ \A n : At(g, n)' <=> At(g, n)
         /\ Placed(g) => Placed(g)'
<1>1. /\ RouteOf(g)' = RouteOf(g) /\ HopLink(g)' = HopLink(g)
      /\ ClassOf(g)' = ClassOf(g) /\ IsLastHop(g)' = IsLastHop(g)
      /\ Delivered(g)' = Delivered(g)
  BY DEF SameFrame, RouteOf, HopLink, ClassOf, IsLastHop, Delivered
<1>2. Arriving(g)' <=> Arriving(g)
  BY DEF SameFrame, Arriving, Moves, MoveKind
<1>3. Leaving(g)' <=> Leaving(g)
  BY DEF SameFrame, Leaving, Moves, MoveKind
<1>4. Queued(g)' <=> Queued(g)
  BY DEF SameFrame, Queued
<1>5. OnAWire(g)' <=> OnAWire(g)
  BY DEF SameFrame, OnAWire
<1>6. \A n : At(g, n)' <=> At(g, n)
  BY <1>1, <1>2, <1>3, <1>4, <1>5 DEF At
<1>7. ASSUME Placed(g)
      PROVE  Placed(g)'
  <2>1. (frames[g].hop \in DOMAIN RouteOf(g))'
    BY <1>1, <1>7 DEF SameFrame, Placed
  <2>2. (\A l \in Link, c \in TrafficClass :
           Holds(queue[l][c], g) => l = HopLink(g) /\ c = ClassOf(g))'
    BY <1>1, <1>7 DEF SameFrame, Placed
  <2>3. (\A l \in Link : onWire[l] = g => l = HopLink(g))'
    BY <1>1, <1>7 DEF SameFrame, Placed
  <2>4. (\A e \in events : Moves(e.task, g) =>
           /\ e.task.kind = "ENQUEUE_FRAME" => e.task.link = HopLink(g)
           /\ e.task.kind = "FORWARD_FRAME" => ~IsLastHop(g)
           /\ e.task.kind = "DELIVERY_COMPLETE" => IsLastHop(g))'
    BY <1>1, <1>7 DEF SameFrame, Placed, Moves
  <2>5. (\A d, e \in events : Moves(d.task, g) /\ Moves(e.task, g) => d = e)'
    BY <1>7 DEF SameFrame, Placed, Moves
  <2>6. (Delivered(g) => IsLastHop(g))'
    BY <1>1, <1>7 DEF Placed
  <2>7. (\E n \in Stage : At(g, n))'
    BY <1>6, <1>7 DEF Placed, Stage
  <2> QED
    BY <2>1, <2>2, <2>3, <2>4, <2>5, <2>6, <2>7 DEF Placed
<1> QED
  BY <1>6, <1>7

(* The step takes frame f from stage m to stage n and no other frame        *)
(* anywhere.                                                               *)
Moved(f, m, n) ==
  /\ At(f, m) /\ At(f, n)' /\ Placed(f)'
  /\ \A g \in DOMAIN frames \ {f} : SameFrame(g)

(* The events of a frame that the step's event and its pushes do not move. *)
LEMMA EventsOfOthers ==
  ASSUME NEW e, NEW new, events' = (events \ {e}) \cup new,
         NEW g, ~Moves(e.task, g), \A n \in new : ~Moves(n.task, g)
  PROVE  \A x : Moves(x.task, g) => (x \in events' <=> x \in events)
OBVIOUS

(* The facts about a frame that the type invariant gives. *)
LEMMA PlacedFacts ==
  ASSUME TypeOK, NEW f \in DOMAIN frames, Placed(f)
  PROVE  /\ f \in Frame /\ f # None /\ StreamOf(f) \in Stream
         /\ frames[f].hop \in Nat \ {0}
         /\ Len(RouteOf(f)) \in Nat /\ DOMAIN RouteOf(f) = 1..Len(RouteOf(f))
         /\ frames[f].hop <= Len(RouteOf(f))
         /\ RouteOf(f) \in Seq(Link)
         /\ HopLink(f) \in Link /\ ClassOf(f) \in TrafficClass
<1>1. /\ f \in Frame /\ StreamOf(f) \in Stream
      /\ ClassOf(f) \in TrafficClass
      /\ RouteOf(f) \in Seq(Link)
      /\ frames[f] \in FrameState
  BY FrameFacts
<1>2. f # None
  BY <1>1, NoneAssumption DEF Frame
<1>3. frames[f].hop \in DOMAIN RouteOf(f)
  BY DEF Placed
<1> QED
  BY <1>1, <1>2, <1>3 DEF FrameState, HopLink

(* What the invariants say of a running loop that dispatches e. *)
LEMMA DispatchFacts ==
  ASSUME FrameInv, NEW e, Dispatch(e)
  PROVE  /\ TypeOK /\ Running /\ OnlyKnownFrames
         /\ \A l \in Link, c \in TrafficClass : NoRepeat(queue[l][c])
         /\ \A f \in DOMAIN frames : Placed(f)
         /\ \A l \in Link : PortInv(l)
         /\ \A s \in Stream : ReleaseInTime(s)
         /\ e \in events /\ e \in Event /\ e.task \in Task
         /\ clock' \in Nat /\ clock' = e.at /\ processed' \in Nat
         /\ processed \in Nat /\ processed' = processed + 1 /\ case' = case
<1>1. TypeOK /\ Running
  BY DEF FrameInv, EngineInv, Dispatch, Pops, Running
<1>2. /\ e \in events /\ e \in Event
      /\ clock' \in Nat /\ clock' = e.at /\ processed' \in Nat /\ case' = case
  BY <1>1, DispatchTypes
<1>3. e.task \in Task
  BY <1>2 DEF Event
<1>4. processed' = processed + 1 /\ processed \in Nat
  BY <1>1 DEF Dispatch, TypeOK
<1> QED
  BY <1>1, <1>2, <1>3, <1>4 DEF FrameInv, EngineInv

(* A frame that joins its queue: the queue holds it and no event moves it. *)
LEMMA EnqueueMoves ==
  ASSUME FrameInv, NEW e \in events, NEW f \in DOMAIN frames, NEW l \in Link,
         HandleEnqueue(e, f, l)
  PROVE  /\ Moved(f, 0, 1)
         /\ DOMAIN frames' = DOMAIN frames
         /\ \A g \in DOMAIN frames :
              frames'[g].hop = frames[g].hop /\ frames'[g].deliveredAt = frames[g].deliveredAt
         /\ \E new :
              /\ events' = (events \ {e}) \cup new
              /\ \A n \in new : n.task.kind \notin MoveKind /\ n.seq = 2 * processed' + 1
         /\ OnlyKnownFrames'
         /\ \A k \in Link, d \in TrafficClass : NoRepeat(queue'[k][d])
<1>1. /\ Dispatch(e) /\ e.task = EnqueueFrame(f, l)
      /\ queue' = [queue EXCEPT ![l][ClassOf(f)] = Joined(@, f)]
      /\ frames' = [frames EXCEPT ![f].enqueuedAt = clock']
      /\ onWire' = onWire
      /\ ScheduleNextTransmission(e, l, SyncedCredit(l, WireClass(l)), startAt, wakeAt, {})
  BY DEF HandleEnqueue
<1>2. /\ TypeOK /\ OnlyKnownFrames /\ case' = case
      /\ \A k \in Link, d \in TrafficClass : NoRepeat(queue[k][d])
      /\ \A g \in DOMAIN frames : Placed(g)
  BY <1>1, DispatchFacts
<1>3. PICK new : /\ events' = (events \ {e}) \cup new
                 /\ \A n \in new : n.task.kind \notin MoveKind /\ n.seq = 2 * processed' + 1
  <2>1. PICK pushes : /\ events' = (events \ {e}) \cup ({} \cup pushes)
                      /\ \A n \in pushes :
                           /\ n.task.kind \in {"TRANSMISSION_START", "CREDIT_UPDATE"}
                           /\ n.seq = 2 * processed' + 1
    BY <1>1, SchedulerMovesNothing
  <2> QED
    BY <2>1 DEF MoveKind
<1>4. /\ e.task.kind = "ENQUEUE_FRAME" /\ e.task.frame = f /\ e.task.link = l
      /\ Moves(e.task, f)
      /\ \A g : Moves(e.task, g) => g = f
  BY <1>1, TaskFields, MoveFields DEF Moves, MoveKind
<1>5. /\ f \in Frame /\ f # None /\ ClassOf(f) \in TrafficClass
      /\ HopLink(f) = l
  BY <1>2, <1>4, PlacedFacts DEF Placed
<1>6. At(f, 0)
  BY <1>2, <1>4 DEF Placed, At, Arriving
<1> DEFINE c == ClassOf(f)
<1>7. /\ queue[l][c] \in Seq(Frame)
      /\ \A k \in Link, d \in TrafficClass :
           queue'[k][d] = IF k = l /\ d = c THEN Joined(queue[l][c], f) ELSE queue[k][d]
  <2>1. TypeOK /\ c \in TrafficClass /\ f \in Frame
        /\ queue' = [queue EXCEPT ![l][c] = Joined(@, f)]
    BY <1>1, <1>2, <1>5
  <2> HIDE DEF c
  <2> QED
    BY <2>1 DEF TypeOK
<1>8. /\ DOMAIN frames' = DOMAIN frames
      /\ \A g \in DOMAIN frames :
           frames'[g].hop = frames[g].hop /\ frames'[g].deliveredAt = frames[g].deliveredAt
  <2>1. \A g \in DOMAIN frames : frames[g] \in FrameState
    BY <1>2 DEF TypeOK
  <2> QED
    BY <1>1, <2>1 DEF FrameState
<1> HIDE DEF c
<1>9. /\ \A g : Holds(Joined(queue[l][c], f), g) <=> Holds(queue[l][c], g) \/ g = f
      /\ ~Holds(queue[l][c], f)
      /\ NoRepeat(Joined(queue[l][c], f))
  <2>1. c \in TrafficClass
    BY <1>5 DEF c
  <2>2. ~Holds(queue[l][c], f)
    BY <1>6, <2>1 DEF At, Queued
  <2>3. NoRepeat(queue[l][c])
    BY <1>2, <2>1
  <2> QED
    BY <1>5, <1>7, <2>2, <2>3, JoinedFacts
<1>10. ASSUME NEW g \in DOMAIN frames \ {f}
       PROVE  SameFrame(g)
  <2>1. \A x : Moves(x.task, g) => (x \in events' <=> x \in events)
    BY <1>3, <1>4, <1>10, EventsOfOthers DEF Moves
  <2>2. \A k \in Link, d \in TrafficClass : Holds(queue'[k][d], g) <=> Holds(queue[k][d], g)
    BY <1>7, <1>9, <1>10
  <2> QED
    BY <1>1, <1>8, <1>10, <2>1, <2>2 DEF SameFrame
<1>11. \A x \in events' : ~Moves(x.task, f)
  <2>1. \A x \in events : Moves(x.task, f) => x = e
    BY <1>2, <1>4 DEF Placed
  <2> QED
    BY <1>3, <2>1 DEF Moves
<1>12. At(f, 1)'
  <2>1. ~Arriving(f)' /\ ~Leaving(f)'
    BY <1>11 DEF Arriving, Leaving, Moves, MoveKind
  <2>2. Queued(f)'
    BY <1>5, <1>7, <1>9 DEF Queued, c
  <2>3. ~OnAWire(f)'
    BY <1>1, <1>6 DEF At, OnAWire
  <2>4. ~Delivered(f)'
    BY <1>6, <1>8 DEF At, Delivered
  <2> QED
    BY <2>1, <2>2, <2>3, <2>4 DEF At
<1>13. Placed(f)'
  <2>1. /\ RouteOf(f)' = RouteOf(f) /\ HopLink(f)' = HopLink(f) /\ ClassOf(f)' = ClassOf(f)
    BY <1>2, <1>8 DEF RouteOf, HopLink, ClassOf
  <2>2. frames'[f].hop \in DOMAIN RouteOf(f)'
    BY <1>2, <1>8, <2>1 DEF Placed
  <2>3. \A k \in Link, d \in TrafficClass :
          Holds(queue'[k][d], f) => k = HopLink(f)' /\ d = ClassOf(f)'
    BY <1>2, <1>5, <1>7, <2>1 DEF Placed, c
  <2>4. \A k \in Link : onWire'[k] # f
    BY <1>1, <1>6 DEF At, OnAWire
  <2>5. ~Delivered(f)'
    BY <1>12 DEF At
  <2>6. \E n \in Stage : At(f, n)'
    BY <1>12 DEF Stage
  <2> QED
    BY <1>11, <2>2, <2>3, <2>4, <2>5, <2>6 DEF Placed
<1>14. OnlyKnownFrames'
  <2>1. \A k \in Link, d \in TrafficClass : \A i \in DOMAIN queue'[k][d] :
          queue'[k][d][i] \in DOMAIN frames
    <3>1. \A g : Holds(Joined(queue[l][c], f), g) => g \in DOMAIN frames
      BY <1>2, <1>5, <1>9 DEF OnlyKnownFrames, Holds, c
    <3> QED
      BY <1>2, <1>7, <3>1 DEF OnlyKnownFrames, Holds
  <2>2. \A x \in events' : x.task.kind \in MoveKind => x \in events
    BY <1>3
  <2> QED
    BY <1>1, <1>2, <1>8, <2>1, <2>2 DEF OnlyKnownFrames
<1>15. \A k \in Link, d \in TrafficClass : NoRepeat(queue'[k][d])
  BY <1>2, <1>7, <1>9
<1> QED
  BY <1>3, <1>6, <1>8, <1>10, <1>12, <1>13, <1>14, <1>15 DEF Moved

(* Port l puts the head f of its queue of class c on the wire. *)
Transmits(e, l, c, f) ==
  /\ Dispatch(e)
  /\ e.task = TransmissionStart(l)
  /\ onWire[l] = None
  /\ IsCandidate(c, queue[l], credit[l])
  /\ f = Head(queue[l][c])
  /\ queue' = [queue EXCEPT ![l][c] = Popped(@)]
  /\ onWire' = [onWire EXCEPT ![l] = f]
  /\ UNCHANGED <<credit, syncedAt, wakeAt, frames, streamVars, stopReason>>
  /\ Push(e, {Scheduled(clock' + Airtime(StreamOf(f), l), 0, TransmissionEnd(l, f))})

(* A requested start always finds a candidate. *)
LEMMA StartChooses ==
  ASSUME FrameInv, NEW e \in events, NEW l \in Link, HandleStart(e, l)
  PROVE  \E c \in TrafficClass, f \in Frame : Transmits(e, l, c, f)
<1>1. /\ Dispatch(e) /\ e.task = TransmissionStart(l)
      /\ UNCHANGED <<frames, streamVars, stopReason>>
  BY DEF HandleStart
<1>2. TypeOK /\ PortInv(l)
  BY <1>1, DispatchFacts
<1>3. startAt[l] # None
  <2>1. e.at = startAt[l] /\ e.at \in Nat
    BY <1>1, <1>2 DEF PortInv, PortMatchesEvents, Marks, TypeOK, Event
  <2> QED
    BY <2>1, NoneAssumption
<1>4. onWire[l] = None /\ Eligible(queue[l], credit[l]) # {}
  BY <1>2, <1>3 DEF PortInv, FreshStart
<1>5. PICK c \in TrafficClass :
        /\ IsCandidate(c, queue[l], credit[l])
        /\ queue' = [queue EXCEPT ![l][c] = Popped(@)]
        /\ onWire' = [onWire EXCEPT ![l] = Head(queue[l][c])]
        /\ Push(e, {Scheduled(clock' + Airtime(StreamOf(Head(queue[l][c])), l), 0,
                              TransmissionEnd(l, Head(queue[l][c])))})
        /\ UNCHANGED <<credit, syncedAt, wakeAt>>
  BY <1>4 DEF HandleStart
<1>6. Head(queue[l][c]) \in Frame
  BY <1>2, <1>5 DEF IsCandidate, Eligible, TypeOK
<1> DEFINE f == Head(queue[l][c])
<1>7. Transmits(e, l, c, f)
  BY <1>1, <1>4, <1>5 DEF Transmits
<1> QED
  BY <1>6, <1>7

(* A queue that is popped. *)
LEMMA QueueWithOneLess ==
  ASSUME TypeOK, NEW l \in Link, NEW c \in TrafficClass,
         queue' = [queue EXCEPT ![l][c] = Popped(@)]
  PROVE  /\ queue[l][c] \in Seq(Frame)
         /\ \A k \in Link, d \in TrafficClass :
              queue'[k][d] = IF k = l /\ d = c THEN Popped(queue[l][c]) ELSE queue[k][d]
BY DEF TypeOK

(* A frame that starts: it leaves its queue for the wire. *)
LEMMA StartMoves ==
  ASSUME FrameInv, NEW e \in events, NEW l \in Link, NEW c \in TrafficClass,
         NEW f \in Frame, Transmits(e, l, c, f)
  PROVE  /\ f \in DOMAIN frames /\ Moved(f, 1, 2)
         /\ Holds(queue[l][c], f)
         /\ \E end :
              /\ events' = (events \ {e}) \cup {end}
              /\ end.task.kind \notin MoveKind /\ end.seq = 2 * processed'
         /\ OnlyKnownFrames'
         /\ \A k \in Link, d \in TrafficClass : NoRepeat(queue'[k][d])
<1>1. /\ Dispatch(e) /\ e.task = TransmissionStart(l)
      /\ onWire[l] = None /\ queue[l][c] # <<>> /\ f = Head(queue[l][c])
      /\ queue' = [queue EXCEPT ![l][c] = Popped(@)]
      /\ onWire' = [onWire EXCEPT ![l] = f]
      /\ frames' = frames
  BY DEF Transmits, IsCandidate, Eligible
<1>2. /\ TypeOK /\ OnlyKnownFrames /\ case' = case /\ processed' \in Nat
      /\ \A k \in Link, d \in TrafficClass : NoRepeat(queue[k][d])
      /\ \A g \in DOMAIN frames : Placed(g)
  BY <1>1, DispatchFacts
<1>3. PICK end : /\ events' = (events \ {e}) \cup {end}
                 /\ end.task = TransmissionEnd(l, f) /\ end.seq = 2 * processed' + 0
  BY ScheduledFields, ScheduledSeq DEF Transmits, Push
<1>4. /\ end.task.kind \notin MoveKind /\ end.seq = 2 * processed'
      /\ e.task.kind \notin MoveKind
      /\ \A x : x.task.kind \in MoveKind => (x \in events' <=> x \in events)
  BY <1>1, <1>2, <1>3, TaskFields DEF MoveKind
<1>5. /\ queue[l][c] \in Seq(Frame)
      /\ \A k \in Link, d \in TrafficClass :
           queue'[k][d] = IF k = l /\ d = c THEN Popped(queue[l][c]) ELSE queue[k][d]
  BY <1>1, <1>2, QueueWithOneLess
<1>6. /\ Holds(queue[l][c], f)
      /\ \A g : Holds(Popped(queue[l][c]), g) <=> Holds(queue[l][c], g) /\ g # f
      /\ NoRepeat(Popped(queue[l][c]))
  BY <1>1, <1>2, <1>5, PoppedFacts
<1>7. f \in DOMAIN frames
  BY <1>2, <1>6 DEF OnlyKnownFrames, Holds
<1>8. /\ f # None /\ HopLink(f) = l /\ ClassOf(f) = c
      /\ At(f, 1)
  <2>1. Queued(f)
    BY <1>6 DEF Queued
  <2>2. At(f, 1)
    BY <1>2, <1>7, <2>1 DEF Placed, At
  <2> QED
    BY <1>2, <1>6, <1>7, <2>2, PlacedFacts DEF Placed
<1>9. \A k \in Link : onWire'[k] = IF k = l THEN f ELSE onWire[k]
  BY <1>1, <1>2 DEF TypeOK
<1>10. ASSUME NEW g \in DOMAIN frames \ {f}
       PROVE  SameFrame(g)
  <2>1. \A k \in Link, d \in TrafficClass : Holds(queue'[k][d], g) <=> Holds(queue[k][d], g)
    BY <1>5, <1>6, <1>10
  <2>2. \A k \in Link : onWire'[k] = g <=> onWire[k] = g
    <3>1. g # None
      BY <1>2, <1>10, PlacedFacts
    <3> QED
      BY <1>1, <1>9, <1>10, <3>1
  <2> QED
    BY <1>1, <1>4, <2>1, <2>2 DEF SameFrame, Moves
<1>11. \A x \in events' : ~Moves(x.task, f)
  <2>1. \A x \in events : ~Moves(x.task, f)
    BY <1>8 DEF At, Arriving, Leaving, Moves, MoveKind
  <2> QED
    BY <1>4, <2>1 DEF Moves
<1>12. \A k \in Link, d \in TrafficClass : ~Holds(queue'[k][d], f)
  <2>1. \A k \in Link, d \in TrafficClass : Holds(queue[k][d], f) => k = l /\ d = c
    BY <1>2, <1>7, <1>8 DEF Placed
  <2> QED
    BY <1>5, <1>6, <2>1
<1>13. At(f, 2)'
  <2>1. ~Arriving(f)' /\ ~Leaving(f)'
    BY <1>11 DEF Arriving, Leaving, Moves, MoveKind
  <2>2. ~Queued(f)'
    BY <1>12 DEF Queued
  <2>3. OnAWire(f)'
    BY <1>9 DEF OnAWire
  <2>4. ~Delivered(f)'
    BY <1>1, <1>8 DEF At, Delivered
  <2> QED
    BY <2>1, <2>2, <2>3, <2>4 DEF At
<1>14. Placed(f)'
  <2>1. /\ RouteOf(f)' = RouteOf(f) /\ HopLink(f)' = HopLink(f) /\ ClassOf(f)' = ClassOf(f)
    BY <1>1, <1>2 DEF RouteOf, HopLink, ClassOf
  <2>2. frames'[f].hop \in DOMAIN RouteOf(f)'
    BY <1>1, <1>2, <1>7, <2>1 DEF Placed
  <2>3. \A k \in Link : onWire'[k] = f => k = HopLink(f)'
    <3>1. \A k \in Link : onWire[k] # f
      BY <1>8 DEF At, OnAWire
    <3> QED
      BY <1>8, <1>9, <2>1, <3>1
  <2>4. ~Delivered(f)'
    BY <1>13 DEF At
  <2>5. \E n \in Stage : At(f, n)'
    BY <1>13 DEF Stage
  <2> QED
    BY <1>11, <1>12, <2>2, <2>3, <2>4, <2>5 DEF Placed
<1>15. OnlyKnownFrames'
  <2>1. \A k \in Link, d \in TrafficClass : \A i \in DOMAIN queue'[k][d] :
          queue'[k][d][i] \in DOMAIN frames
    <3>1. \A g : Holds(Popped(queue[l][c]), g) => g \in DOMAIN frames
      BY <1>2, <1>6 DEF OnlyKnownFrames, Holds
    <3> QED
      BY <1>2, <1>5, <3>1 DEF OnlyKnownFrames, Holds
  <2>2. \A k \in Link : onWire'[k] # None => onWire'[k] \in DOMAIN frames
    BY <1>2, <1>7, <1>9 DEF OnlyKnownFrames
  <2>3. \A x \in events' : x.task.kind \in MoveKind => x \in events
    BY <1>4
  <2> QED
    BY <1>1, <1>2, <2>1, <2>2, <2>3 DEF OnlyKnownFrames
<1>16. \A k \in Link, d \in TrafficClass : NoRepeat(queue'[k][d])
  BY <1>2, <1>5, <1>6
<1>17. Moved(f, 1, 2)
  BY <1>8, <1>10, <1>13, <1>14 DEF Moved
<1> QED
  BY <1>3, <1>4, <1>6, <1>7, <1>15, <1>16, <1>17

(* A frame whose transmission ends: it leaves the wire, and an event says   *)
(* where it goes.                                                          *)
LEMMA EndMoves ==
  ASSUME FrameInv, NEW e \in events, NEW f \in DOMAIN frames, NEW l \in Link,
         HandleEnd(e, l, f)
  PROVE  /\ Moved(f, 2, 3)
         /\ frames' = frames /\ queue' = queue
         /\ onWire[l] = f
         /\ \E arrival, new :
              /\ events' = (events \ {e}) \cup ({arrival} \cup new)
              /\ Moves(arrival.task, f) /\ arrival.task.kind # "ENQUEUE_FRAME"
              /\ \A g : Moves(arrival.task, g) => g = f
              /\ arrival.at = clock' /\ arrival.seq = 2 * processed'
              /\ \A n \in new : n.task.kind \notin MoveKind /\ n.seq = 2 * processed' + 1
         /\ OnlyKnownFrames'
<1> DEFINE task == IF IsLastHop(f) THEN DeliveryComplete(f) ELSE ForwardFrame(f)
           arrival == Scheduled(clock', 0, task)
<1>1. /\ Dispatch(e) /\ e.task = TransmissionEnd(l, f)
      /\ onWire' = [onWire EXCEPT ![l] = None]
      /\ queue' = queue /\ frames' = frames
      /\ \E cr : ScheduleNextTransmission(e, l, cr, startAt, wakeAt, {arrival})
  BY DEF HandleEnd
<1>2. /\ TypeOK /\ OnlyKnownFrames /\ case' = case /\ processed' \in Nat
      /\ \A k \in Link, d \in TrafficClass : NoRepeat(queue[k][d])
      /\ \A g \in DOMAIN frames : Placed(g)
      /\ PortInv(l)
  BY <1>1, DispatchFacts
<1>3. /\ task.kind \in MoveKind /\ task.kind # "ENQUEUE_FRAME" /\ task.frame = f
      /\ task.kind = "FORWARD_FRAME" => ~IsLastHop(f)
      /\ task.kind = "DELIVERY_COMPLETE" => IsLastHop(f)
  BY TaskFields, MoveFields DEF MoveKind
<1> HIDE DEF task
<1>4. arrival.task = task /\ arrival.at = clock' /\ arrival.seq = 2 * processed'
  <2>1. arrival.task = task /\ arrival.at = clock' /\ arrival.seq = 2 * processed' + 0
    BY ScheduledFields, ScheduledSeq
  <2> QED
    BY <1>2, <2>1
<1> HIDE DEF arrival
<1>5. PICK new : /\ events' = (events \ {e}) \cup ({arrival} \cup new)
                 /\ \A n \in new : n.task.kind \notin MoveKind /\ n.seq = 2 * processed' + 1
  <2>1. PICK new : /\ events' = (events \ {e}) \cup ({arrival} \cup new)
                   /\ \A n \in new :
                        /\ n.task.kind \in {"TRANSMISSION_START", "CREDIT_UPDATE"}
                        /\ n.seq = 2 * processed' + 1
    BY <1>1, SchedulerMovesNothing
  <2> QED
    BY <2>1 DEF MoveKind
<1>6. /\ e.task.kind \notin MoveKind
      /\ e.task.kind = "TRANSMISSION_END" /\ e.task.link = l /\ e.task.frame = f
  BY <1>1, TaskFields DEF MoveKind
<1>7. \A x : x.task.kind \in MoveKind =>
        (x \in events' <=> x \in events \/ x = arrival)
  BY <1>3, <1>4, <1>5, <1>6
<1>8. onWire[l] = f
  BY <1>2, <1>6 DEF PortInv, PortMatchesEvents, WireMatchesEvents
<1>9. At(f, 2) /\ HopLink(f) = l /\ f # None
  <2>1. OnAWire(f)
    BY <1>8 DEF OnAWire
  <2> QED
    BY <1>2, <1>8, <2>1, PlacedFacts DEF Placed, At
<1>10. \A k \in Link : onWire'[k] = IF k = l THEN None ELSE onWire[k]
  BY <1>1, <1>2 DEF TypeOK
<1>11. ASSUME NEW g \in DOMAIN frames \ {f}
       PROVE  SameFrame(g)
  <2>1. g # None
    BY <1>2, <1>11, PlacedFacts
  <2>2. \A k \in Link : onWire'[k] = g <=> onWire[k] = g
    BY <1>8, <1>10, <1>11, <2>1
  <2>3. \A x : Moves(x.task, g) => (x \in events' <=> x \in events)
    BY <1>3, <1>4, <1>7, <1>11 DEF Moves
  <2> QED
    BY <1>1, <2>2, <2>3 DEF SameFrame
<1>12. \A x \in events' : Moves(x.task, f) => x = arrival
  <2>1. \A x \in events : ~Moves(x.task, f)
    BY <1>9 DEF At, Arriving, Leaving, Moves, MoveKind
  <2> QED
    BY <1>7, <2>1 DEF Moves
<1>13. At(f, 3)'
  <2>1. ~Arriving(f)'
    BY <1>3, <1>4, <1>12 DEF Arriving, Moves, MoveKind
  <2>2. Leaving(f)'
    BY <1>3, <1>4, <1>5 DEF Leaving, MoveKind
  <2>3. ~Queued(f)'
    BY <1>1, <1>9 DEF Queued, At
  <2>4. ~OnAWire(f)'
    <3>1. \A k \in Link : onWire[k] = f => k = l
      BY <1>2, <1>9 DEF Placed
    <3> QED
      BY <1>9, <1>10, <3>1 DEF OnAWire
  <2>5. ~Delivered(f)'
    BY <1>1, <1>9 DEF At, Delivered
  <2> QED
    BY <2>1, <2>2, <2>3, <2>4, <2>5 DEF At
<1>14. Placed(f)'
  <2>1. /\ RouteOf(f)' = RouteOf(f) /\ HopLink(f)' = HopLink(f) /\ ClassOf(f)' = ClassOf(f)
        /\ IsLastHop(f)' = IsLastHop(f)
    BY <1>1, <1>2 DEF RouteOf, HopLink, ClassOf, IsLastHop
  <2>2. frames'[f].hop \in DOMAIN RouteOf(f)'
    BY <1>1, <1>2, <2>1 DEF Placed
  <2>3. \A k \in Link, d \in TrafficClass : ~Holds(queue'[k][d], f)
    BY <1>13 DEF At, Queued
  <2>4. \A k \in Link : onWire'[k] # f
    BY <1>13 DEF At, OnAWire
  <2>5. ~Delivered(f)'
    BY <1>13 DEF At
  <2>6. \E n \in Stage : At(f, n)'
    BY <1>13 DEF Stage
  <2>7. (\A x \in events : Moves(x.task, f) =>
           /\ x.task.kind = "ENQUEUE_FRAME" => x.task.link = HopLink(f)
           /\ x.task.kind = "FORWARD_FRAME" => ~IsLastHop(f)
           /\ x.task.kind = "DELIVERY_COMPLETE" => IsLastHop(f))'
    BY <1>3, <1>4, <1>12, <2>1 DEF Moves
  <2> QED
    BY <1>12, <2>2, <2>3, <2>4, <2>5, <2>6, <2>7 DEF Placed
<1>15. OnlyKnownFrames'
  <2>1. \A k \in Link : onWire'[k] # None => onWire'[k] \in DOMAIN frames
    BY <1>2, <1>10 DEF OnlyKnownFrames
  <2>2. \A x \in events' : x.task.kind \in MoveKind => x.task.frame \in DOMAIN frames
    BY <1>2, <1>3, <1>4, <1>7 DEF OnlyKnownFrames
  <2> QED
    BY <1>1, <1>2, <2>1, <2>2 DEF OnlyKnownFrames
<1>16. Moves(arrival.task, f) /\ \A g : Moves(arrival.task, g) => g = f
  BY <1>3, <1>4 DEF Moves
<1>17. Moved(f, 2, 3)
  BY <1>9, <1>11, <1>13, <1>14 DEF Moved
<1> QED
  BY <1>1, <1>3, <1>4, <1>5, <1>8, <1>15, <1>16, <1>17

(* A frame that is forwarded: it arrives at the port of its next hop. *)
LEMMA ForwardMoves ==
  ASSUME FrameInv, NEW e \in events, NEW f \in DOMAIN frames, HandleForward(e, f)
  PROVE  /\ At(f, 3) /\ At(f, 0)' /\ Placed(f)'
         /\ \A g \in DOMAIN frames \ {f} : SameFrame(g)
         /\ DOMAIN frames' = DOMAIN frames
         /\ \A g \in DOMAIN frames :
              /\ frames'[g].hop = IF g = f THEN frames[f].hop + 1 ELSE frames[g].hop
              /\ frames'[g].deliveredAt = frames[g].deliveredAt
         /\ queue' = queue
         /\ \E arrival :
              /\ events' = (events \ {e}) \cup {arrival}
              /\ arrival.task.kind = "ENQUEUE_FRAME"
              /\ \A g : Moves(arrival.task, g) <=> g = f
              /\ arrival.at = clock' /\ arrival.seq = 2 * processed'
         /\ OnlyKnownFrames'
<1> DEFINE link == RouteOf(f)[frames[f].hop + 1]
           arrival == Scheduled(clock', 0, EnqueueFrame(f, link))
<1>1. /\ Dispatch(e) /\ e.task = ForwardFrame(f)
      /\ queue' = queue /\ onWire' = onWire
      /\ frames' = [frames EXCEPT ![f].hop = @ + 1]
      /\ events' = (events \ {e}) \cup {arrival}
  BY DEF HandleForward, Push, portVars
<1>2. /\ TypeOK /\ OnlyKnownFrames /\ case' = case /\ processed' \in Nat
      /\ \A g \in DOMAIN frames : Placed(g)
  BY <1>1, DispatchFacts
<1>3. /\ arrival.task.kind = "ENQUEUE_FRAME" /\ arrival.task.kind \in MoveKind
      /\ arrival.task.frame = f /\ arrival.task.link = link
      /\ arrival.at = clock' /\ arrival.seq = 2 * processed'
  <2>1. /\ arrival.task = EnqueueFrame(f, link) /\ arrival.at = clock'
        /\ arrival.seq = 2 * processed' + 0
    BY ScheduledFields, ScheduledSeq
  <2> QED
    BY <1>2, <2>1, TaskFields, MoveFields DEF MoveKind
<1> HIDE DEF arrival
<1>4. /\ e.task.kind = "FORWARD_FRAME" /\ Moves(e.task, f)
      /\ \A g : Moves(e.task, g) => g = f
  BY <1>1, TaskFields, MoveFields DEF Moves, MoveKind
<1>5. At(f, 3) /\ ~IsLastHop(f)
  <2>1. Leaving(f)
    BY <1>1, <1>4, MoveFields DEF Leaving
  <2> QED
    BY <1>2, <1>4, <2>1 DEF Placed, At
<1>6. /\ DOMAIN frames' = DOMAIN frames
      /\ \A g \in DOMAIN frames :
           /\ frames'[g].hop = IF g = f THEN frames[f].hop + 1 ELSE frames[g].hop
           /\ frames'[g].deliveredAt = frames[g].deliveredAt
  <2>1. \A g \in DOMAIN frames : frames[g] \in FrameState
    BY <1>2 DEF TypeOK
  <2> QED
    BY <1>1, <2>1 DEF FrameState
<1>7. ASSUME NEW g \in DOMAIN frames \ {f}
      PROVE  SameFrame(g)
  <2>1. \A x : Moves(x.task, g) => (x \in events' <=> x \in events)
    BY <1>1, <1>3, <1>4, <1>7 DEF Moves
  <2> QED
    BY <1>1, <1>6, <1>7, <2>1 DEF SameFrame
<1>8. \A x \in events' : Moves(x.task, f) => x = arrival
  <2>1. \A x \in events : Moves(x.task, f) => x = e
    BY <1>2, <1>4 DEF Placed
  <2> QED
    BY <1>1, <2>1
<1>9. At(f, 0)'
  <2>1. Arriving(f)'
    BY <1>1, <1>3 DEF Arriving
  <2>2. ~Leaving(f)'
    BY <1>3, <1>8 DEF Leaving, Moves, MoveKind
  <2>3. ~Queued(f)' /\ ~OnAWire(f)'
    BY <1>1, <1>5 DEF Queued, OnAWire, At
  <2>4. ~Delivered(f)'
    BY <1>5, <1>6 DEF At, Delivered
  <2> QED
    BY <2>1, <2>2, <2>3, <2>4 DEF At
<1>10. Placed(f)'
  <2>1. RouteOf(f)' = RouteOf(f) /\ HopLink(f)' = link
    BY <1>2, <1>6 DEF RouteOf, HopLink
  <2>2. frames'[f].hop \in DOMAIN RouteOf(f)'
    <3>1. /\ frames[f].hop \in Nat \ {0} /\ Len(RouteOf(f)) \in Nat
          /\ DOMAIN RouteOf(f) = 1..Len(RouteOf(f))
      BY <1>2, PlacedFacts
    <3>2. frames[f].hop < Len(RouteOf(f))
      BY <1>5, <3>1 DEF IsLastHop
    <3> QED
      BY <1>6, <2>1, <3>1, <3>2
  <2>3. \A k \in Link, d \in TrafficClass : ~Holds(queue'[k][d], f)
    BY <1>9 DEF At, Queued
  <2>4. \A k \in Link : onWire'[k] # f
    BY <1>9 DEF At, OnAWire
  <2>5. ~Delivered(f)'
    BY <1>9 DEF At
  <2>6. \E n \in Stage : At(f, n)'
    BY <1>9 DEF Stage
  <2>7. (\A x \in events : Moves(x.task, f) =>
           /\ x.task.kind = "ENQUEUE_FRAME" => x.task.link = HopLink(f)
           /\ x.task.kind = "FORWARD_FRAME" => ~IsLastHop(f)
           /\ x.task.kind = "DELIVERY_COMPLETE" => IsLastHop(f))'
    BY <1>3, <1>8, <2>1 DEF Moves
  <2> QED
    BY <1>8, <2>2, <2>3, <2>4, <2>5, <2>6, <2>7 DEF Placed
<1>11. OnlyKnownFrames'
  <2>1. \A x \in events' : x.task.kind \in MoveKind => x.task.frame \in DOMAIN frames
    BY <1>1, <1>2, <1>3 DEF OnlyKnownFrames
  <2> QED
    BY <1>1, <1>2, <1>6, <2>1 DEF OnlyKnownFrames
<1>12. \A g : Moves(arrival.task, g) <=> g = f
  BY <1>3 DEF Moves
<1> QED
  BY <1>1, <1>3, <1>5, <1>6, <1>7, <1>9, <1>10, <1>11, <1>12

(* A frame that is delivered: no event moves it any more. *)
LEMMA DeliveryMoves ==
  ASSUME FrameInv, NEW e \in events, NEW f \in DOMAIN frames, HandleDelivery(e, f)
  PROVE  /\ Moved(f, 3, 4)
         /\ DOMAIN frames' = DOMAIN frames
         /\ \A g \in DOMAIN frames :
              /\ frames'[g].hop = frames[g].hop
              /\ frames'[g].releasedAt = frames[g].releasedAt
              /\ g # f => frames'[g].deliveredAt = frames[g].deliveredAt
         /\ queue' = queue
         /\ \E new :
              /\ events' = (events \ {e}) \cup new
              /\ \A n \in new : n.task.kind \notin MoveKind /\ n.seq = 2 * processed'
         /\ OnlyKnownFrames'
<1> DEFINE final == Scheduled(clock', 0, FinalizeRun)
<1>1. /\ Dispatch(e) /\ e.task = DeliveryComplete(f)
      /\ queue' = queue /\ onWire' = onWire
      /\ frames' = [frames EXCEPT ![f].deliveredAt = clock']
      /\ Push(e, {final}) \/ Push(e, {})
  BY DEF HandleDelivery, portVars
<1>2. /\ TypeOK /\ OnlyKnownFrames /\ case' = case
      /\ processed' \in Nat /\ clock' \in Nat /\ clock' # None
      /\ \A g \in DOMAIN frames : Placed(g)
  BY <1>1, DispatchFacts, NoneAssumption
<1>3. final.task.kind \notin MoveKind /\ final.seq = 2 * processed'
  <2>1. final.task = FinalizeRun /\ final.seq = 2 * processed' + 0
    BY ScheduledFields, ScheduledSeq
  <2> QED
    BY <1>2, <2>1, TaskFields DEF MoveKind
<1> HIDE DEF final
<1>4. PICK new : /\ events' = (events \ {e}) \cup new
                 /\ \A n \in new : n.task.kind \notin MoveKind /\ n.seq = 2 * processed'
  <2>1. PICK new \in {{final}, {}} : Push(e, new)
    BY <1>1
  <2> QED
    BY <1>3, <2>1 DEF Push
<1>5. /\ e.task.kind = "DELIVERY_COMPLETE" /\ Moves(e.task, f)
      /\ \A g : Moves(e.task, g) => g = f
  BY <1>1, TaskFields, MoveFields DEF Moves, MoveKind
<1>6. At(f, 3) /\ IsLastHop(f)
  <2>1. Leaving(f)
    BY <1>1, <1>5, MoveFields DEF Leaving
  <2> QED
    BY <1>2, <1>5, <2>1 DEF Placed, At
<1>7. /\ DOMAIN frames' = DOMAIN frames
      /\ \A g \in DOMAIN frames :
           /\ frames'[g].hop = frames[g].hop
           /\ frames'[g].releasedAt = frames[g].releasedAt
           /\ g # f => frames'[g].deliveredAt = frames[g].deliveredAt
      /\ frames'[f].deliveredAt = clock'
  <2>1. \A g \in DOMAIN frames : frames[g] \in FrameState
    BY <1>2 DEF TypeOK
  <2> QED
    BY <1>1, <2>1 DEF FrameState
<1>8. ASSUME NEW g \in DOMAIN frames \ {f}
      PROVE  SameFrame(g)
  <2>1. \A x : Moves(x.task, g) => (x \in events' <=> x \in events)
    BY <1>4, <1>5, <1>8 DEF Moves
  <2> QED
    BY <1>1, <1>7, <1>8, <2>1 DEF SameFrame
<1>9. \A x \in events' : ~Moves(x.task, f)
  <2>1. \A x \in events : Moves(x.task, f) => x = e
    BY <1>2, <1>5 DEF Placed
  <2> QED
    BY <1>4, <2>1 DEF Moves
<1>10. At(f, 4)'
  <2>1. ~Arriving(f)' /\ ~Leaving(f)'
    BY <1>9 DEF Arriving, Leaving, Moves, MoveKind
  <2>2. ~Queued(f)' /\ ~OnAWire(f)'
    BY <1>1, <1>6 DEF Queued, OnAWire, At
  <2>3. Delivered(f)'
    BY <1>2, <1>7 DEF Delivered
  <2> QED
    BY <2>1, <2>2, <2>3 DEF At
<1>11. Placed(f)'
  <2>1. RouteOf(f)' = RouteOf(f) /\ IsLastHop(f)' = IsLastHop(f)
    BY <1>2, <1>7 DEF RouteOf, IsLastHop
  <2>2. frames'[f].hop \in DOMAIN RouteOf(f)'
    BY <1>2, <1>7, <2>1 DEF Placed
  <2>3. \A k \in Link, d \in TrafficClass : ~Holds(queue'[k][d], f)
    BY <1>10 DEF At, Queued
  <2>4. \A k \in Link : onWire'[k] # f
    BY <1>10 DEF At, OnAWire
  <2>5. \E n \in Stage : At(f, n)'
    BY <1>10 DEF Stage
  <2> QED
    BY <1>6, <1>9, <2>1, <2>2, <2>3, <2>4, <2>5 DEF Placed
<1>12. OnlyKnownFrames'
  <2>1. \A x \in events' : x.task.kind \in MoveKind => x \in events
    BY <1>4
  <2> QED
    BY <1>1, <1>2, <1>7, <2>1 DEF OnlyKnownFrames
<1> QED
  BY <1>1, <1>4, <1>6, <1>7, <1>8, <1>10, <1>11, <1>12 DEF Moved

(* The release of f pushes its arrival, and the next release at most. *)
Announces(e, f, arrival, new) ==
  /\ events' = (events \ {e}) \cup ({arrival} \cup new)
  /\ arrival.task.kind = "ENQUEUE_FRAME"
  /\ \A g : Moves(arrival.task, g) <=> g = f
  /\ arrival.at = clock' /\ arrival.seq = 2 * processed'
  /\ \A n \in new : n.task.kind \notin MoveKind /\ n.seq = 2 * processed' + 1

(* A frame that is released: it is new, and it arrives at its first port. *)
LEMMA ReleaseMoves ==
  ASSUME FrameInv, NEW e \in events, NEW s \in Stream, HandleRelease(e, s),
         NEW f, f = <<s, released[s]>>
  PROVE  /\ f \in Frame /\ f \notin DOMAIN frames /\ StreamOf(f) = s
         /\ At(f, 0)' /\ Placed(f)'
         /\ \A g \in DOMAIN frames : SameFrame(g) /\ frames'[g] = frames[g]
         /\ DOMAIN frames' = DOMAIN frames \cup {f}
         /\ frames'[f].hop = 1 /\ frames'[f].deliveredAt = None
         /\ frames'[f].releasedAt = clock'
         /\ queue' = queue
         /\ \A l \in Link, c \in TrafficClass : ~Holds(queue[l][c], f)
         /\ \E arrival, new : Announces(e, f, arrival, new)
         /\ \A x \in events : ~Moves(x.task, f)
         /\ OnlyKnownFrames'
         /\ FramesAreReleased'
<1> DEFINE next == (released[s] + 1) * case.period[s]
           arrival == Scheduled(clock', 0, EnqueueFrame(f, case.route[s][1]))
           again == Scheduled(next, 1, ReleaseFrame(s))
<1>1. /\ Dispatch(e) /\ e.task = ReleaseFrame(s)
      /\ queue' = queue /\ onWire' = onWire
      /\ frames' = [g \in DOMAIN frames \cup {f} |->
                      IF g = f THEN NewFrame(clock') ELSE frames[g]]
      /\ released' = [released EXCEPT ![s] = @ + 1]
      /\ Push(e, {arrival} \cup {again}) \/ Push(e, {arrival} \cup {})
  BY DEF HandleRelease, portVars
<1>2. /\ TypeOK /\ OnlyKnownFrames /\ case' = case /\ clock' \in Nat /\ processed' \in Nat
      /\ \A g \in DOMAIN frames : Placed(g)
  BY <1>1, DispatchFacts
<1>3. /\ arrival.task.kind = "ENQUEUE_FRAME" /\ arrival.task.kind \in MoveKind
      /\ arrival.task.frame = f /\ arrival.task.link = case.route[s][1]
      /\ arrival.at = clock' /\ arrival.seq = 2 * processed'
  <2>1. /\ arrival.task = EnqueueFrame(f, case.route[s][1]) /\ arrival.at = clock'
        /\ arrival.seq = 2 * processed' + 0
    BY ScheduledFields, ScheduledSeq
  <2> QED
    BY <1>2, <2>1, TaskFields, MoveFields DEF MoveKind
<1>4. again.task.kind \notin MoveKind /\ again.seq = 2 * processed' + 1
  BY ScheduledFields, ScheduledSeq, TaskFields DEF MoveKind
<1> HIDE DEF arrival, again, next
<1>5. PICK new : /\ events' = (events \ {e}) \cup ({arrival} \cup new)
                 /\ \A n \in new : n.task.kind \notin MoveKind /\ n.seq = 2 * processed' + 1
  <2>1. PICK new \in {{again}, {}} : Push(e, {arrival} \cup new)
    BY <1>1
  <2> QED
    BY <1>4, <2>1 DEF Push
<1>6. /\ f \in Frame /\ f[1] = s /\ f[2] = released[s] /\ StreamOf(f) = s /\ f # None
      /\ released[s] \in Nat
  <2>1. released[s] \in Nat
    BY <1>2 DEF TypeOK
  <2> QED
    BY <2>1, NoneAssumption DEF Frame, StreamOf
<1>7. f \notin DOMAIN frames
  BY <1>6 DEF FrameInv, FramesAreReleased, StreamOf
<1>8. /\ \A l \in Link, c \in TrafficClass : ~Holds(queue[l][c], f)
      /\ \A l \in Link : onWire[l] # f
      /\ \A x \in events : ~Moves(x.task, f)
  BY <1>2, <1>6, <1>7 DEF OnlyKnownFrames, Holds, Moves
<1>9. /\ DOMAIN frames' = DOMAIN frames \cup {f}
      /\ \A g \in DOMAIN frames : frames'[g] = frames[g]
      /\ frames'[f].hop = 1 /\ frames'[f].deliveredAt = None /\ frames'[f].releasedAt = clock'
  BY <1>1, <1>7 DEF NewFrame
<1>10. e.task.kind \notin MoveKind
  BY <1>1, TaskFields DEF MoveKind
<1>11. ASSUME NEW g \in DOMAIN frames
       PROVE  SameFrame(g)
  <2>1. \A x : Moves(x.task, g) => (x \in events' <=> x \in events)
    BY <1>3, <1>5, <1>7, <1>10 DEF Moves
  <2> QED
    BY <1>1, <1>9, <2>1 DEF SameFrame
<1>12. \A x \in events' : Moves(x.task, f) => x = arrival
  BY <1>5, <1>8 DEF Moves
<1>13. At(f, 0)'
  <2>1. Arriving(f)'
    BY <1>3, <1>5 DEF Arriving
  <2>2. ~Leaving(f)'
    BY <1>3, <1>12 DEF Leaving, Moves, MoveKind
  <2>3. ~Queued(f)' /\ ~OnAWire(f)'
    BY <1>1, <1>8 DEF Queued, OnAWire
  <2>4. ~Delivered(f)'
    BY <1>9 DEF Delivered
  <2> QED
    BY <2>1, <2>2, <2>3, <2>4 DEF At
<1>14. Placed(f)'
  <2>1. RouteOf(f)' = case.route[s] /\ HopLink(f)' = case.route[s][1]
    BY <1>2, <1>6, <1>9 DEF RouteOf, HopLink, StreamOf
  <2>2. frames'[f].hop \in DOMAIN RouteOf(f)'
    <3>1. case.route[s] \in Seq(Link)
      BY <1>2, CaseFacts DEF TypeOK
    <3>2. case.route[s] # <<>>
      BY <1>1, TaskFields DEF Dispatch, Raises
    <3> QED
      BY <1>9, <2>1, <3>1, <3>2
  <2>3. \A k \in Link, d \in TrafficClass : ~Holds(queue'[k][d], f)
    BY <1>13 DEF At, Queued
  <2>4. \A k \in Link : onWire'[k] # f
    BY <1>13 DEF At, OnAWire
  <2>5. ~Delivered(f)'
    BY <1>13 DEF At
  <2>6. \E n \in Stage : At(f, n)'
    BY <1>13 DEF Stage
  <2>7. (\A x \in events : Moves(x.task, f) =>
           /\ x.task.kind = "ENQUEUE_FRAME" => x.task.link = HopLink(f)
           /\ x.task.kind = "FORWARD_FRAME" => ~IsLastHop(f)
           /\ x.task.kind = "DELIVERY_COMPLETE" => IsLastHop(f))'
    BY <1>3, <1>12, <2>1 DEF Moves
  <2> QED
    BY <1>12, <2>2, <2>3, <2>4, <2>5, <2>6, <2>7 DEF Placed
<1>15. OnlyKnownFrames'
  <2>1. \A x \in events' : x.task.kind \in MoveKind => x.task.frame \in DOMAIN frames'
    BY <1>2, <1>3, <1>5, <1>9 DEF OnlyKnownFrames
  <2> QED
    BY <1>1, <1>2, <1>9, <2>1 DEF OnlyKnownFrames
<1>16. FramesAreReleased'
  <2>1. \A r \in Stream : released[r] \in Nat /\ released'[r] \in Nat /\ released[r] <= released'[r]
    BY <1>1, <1>2 DEF TypeOK
  <2>2. f[2] < released'[StreamOf(f)]
    BY <1>1, <1>2, <1>6 DEF TypeOK
  <2>3. ASSUME NEW g \in DOMAIN frames
        PROVE  g[2] < released'[StreamOf(g)]
    <3>1. g[2] \in Nat /\ StreamOf(g) \in Stream
      BY <1>2 DEF TypeOK, Frame, StreamOf
    <3>2. g[2] < released[StreamOf(g)]
      BY DEF FrameInv, FramesAreReleased
    <3> QED
      BY <2>1, <3>1, <3>2
  <2> QED
    BY <1>9, <2>2, <2>3 DEF FramesAreReleased, StreamOf
<1>17. \A g : Moves(arrival.task, g) <=> g = f
  BY <1>3 DEF Moves
<1>18. Announces(e, f, arrival, new)
  BY <1>3, <1>5, <1>17 DEF Announces
<1> QED
  BY <1>1, <1>6, <1>7, <1>8, <1>9, <1>11, <1>13, <1>14, <1>15, <1>16, <1>18

(* A credit update moves no frame. *)
LEMMA CreditUpdateMovesNothing ==
  ASSUME FrameInv, NEW e \in events, NEW l \in Link, NEW c \in Shaped,
         HandleCreditUpdate(e, l, c)
  PROVE  /\ \A g \in DOMAIN frames : SameFrame(g)
         /\ frames' = frames /\ queue' = queue
         /\ \E new :
              /\ events' = (events \ {e}) \cup new
              /\ \A n \in new : n.task.kind \notin MoveKind /\ n.seq = 2 * processed' + 1
         /\ OnlyKnownFrames'
<1>1. /\ Dispatch(e) /\ e.task = CreditUpdate(l, c)
      /\ queue' = queue /\ onWire' = onWire /\ frames' = frames
      /\ \E cr, wakes : ScheduleNextTransmission(e, l, cr, startAt, wakes, {})
  BY DEF HandleCreditUpdate
<1>2. OnlyKnownFrames
  BY <1>1, DispatchFacts
<1>3. PICK new : /\ events' = (events \ {e}) \cup new
                 /\ \A n \in new : n.task.kind \notin MoveKind /\ n.seq = 2 * processed' + 1
  <2>1. PICK new : /\ events' = (events \ {e}) \cup ({} \cup new)
                   /\ \A n \in new :
                        /\ n.task.kind \in {"TRANSMISSION_START", "CREDIT_UPDATE"}
                        /\ n.seq = 2 * processed' + 1
    BY <1>1, SchedulerMovesNothing
  <2> QED
    BY <2>1 DEF MoveKind
<1>4. \A x : x.task.kind \in MoveKind => (x \in events' <=> x \in events)
  BY <1>1, <1>3, TaskFields DEF MoveKind
<1> QED
  BY <1>1, <1>2, <1>3, <1>4 DEF SameFrame, Moves, OnlyKnownFrames

-----------------------------------------------------------------------------
(* Every step keeps every frame in its place                               *)

(* The step moves one frame at most, and into a place of its own. *)
LEMMA StepKeepsFrames ==
  ASSUME FrameInv, EngineInv', case' = case, OnlyKnownFrames',
         \A l \in Link, c \in TrafficClass : NoRepeat(queue'[l][c]),
         FramesAreReleased',
         NEW f, \A g \in DOMAIN frames' : \/ g = f /\ Placed(g)'
                                          \/ /\ g \in DOMAIN frames
                                             /\ SameFrame(g) /\ Placed(g)
  PROVE  FrameInv'
<1>1. \A g \in DOMAIN frames' : Placed(g)'
  BY SameFrameSamePlace
<1> QED
  BY <1>1 DEF FrameInv

(* The steps that leave the loop. *)
LEMMA LeavingSteps ==
  ASSUME Next, ~Running'
  PROVE  \/ \E e \in events : HandleFinalize(e) \/ StopBefore(e) \/ Raise(e)
         \/ RunDry
         \/ Stop
<1>1. ASSUME NEW e \in events,
             \/ \E s \in Stream : HandleRelease(e, s)
             \/ \E f \in DOMAIN frames, l \in Link : HandleEnqueue(e, f, l)
             \/ \E l \in Link : HandleStart(e, l)
             \/ \E f \in DOMAIN frames, l \in Link : HandleEnd(e, l, f)
             \/ \E f \in DOMAIN frames : HandleForward(e, f)
             \/ \E f \in DOMAIN frames : HandleDelivery(e, f)
             \/ \E l \in Link, c \in Shaped : HandleCreditUpdate(e, l, c)
      PROVE  status' = status
  BY <1>1 DEF HandleRelease, HandleEnqueue, HandleStart, HandleEnd, HandleForward,
              HandleDelivery, HandleCreditUpdate
<1>2. status' # status
  BY StepsRun DEF Running
<1> QED
  BY <1>1, <1>2 DEF Next

(* They leave the frames alone. *)
LEMMA LeavingKeepsFrames ==
  ASSUME Next, ~Running'
  PROVE  UNCHANGED <<case, frames, streamVars, queue, onWire>>
<1>1. ASSUME NEW e \in events, HandleFinalize(e) \/ StopBefore(e) \/ Raise(e)
      PROVE  UNCHANGED <<case, frames, streamVars, queue, onWire>>
  BY <1>1 DEF HandleFinalize, LeaveLoop, StopBefore, Raise, portVars
<1>2. ASSUME RunDry \/ Stop
      PROVE  UNCHANGED <<case, frames, streamVars, queue, onWire>>
  BY <1>2 DEF RunDry, Stop, LeaveLoop
<1> QED
  BY <1>1, <1>2, LeavingSteps

(* Every step of the loop keeps the invariant of the frames. *)
LEMMA FrameStep ==
  ASSUME FrameInv, [Next]_vars
  PROVE  FrameInv'
<1>1. EngineInv'
  BY EngineStep DEF FrameInv
<1>2. CASE UNCHANGED vars
  <2>1. /\ UNCHANGED <<case, events, queue, onWire, frames, released, status>>
    BY <1>2 DEF vars, portVars, streamVars
  <2>2. FramesAreReleased' /\ (Running' <=> Running)
    BY <2>1 DEF FrameInv, FramesAreReleased, StreamOf, Running
  <2>3. ASSUME Running
        PROVE  /\ OnlyKnownFrames'
               /\ \A l \in Link, c \in TrafficClass : NoRepeat(queue'[l][c])
               /\ \A f \in DOMAIN frames' : Placed(f)'
    <3>1. \A f \in DOMAIN frames : SameFrame(f)
      BY <2>1 DEF SameFrame
    <3>2. \A f \in DOMAIN frames' : Placed(f)'
      BY <2>1, <2>3, <3>1, SameFrameSamePlace DEF FrameInv
    <3> QED
      BY <2>1, <2>3, <3>2 DEF FrameInv, OnlyKnownFrames
  <2> QED
    BY <1>1, <2>2, <2>3 DEF FrameInv
<1>3. ASSUME Next, ~Running'
      PROVE  FrameInv'
  <2>1. frames' = frames /\ released' = released
    BY <1>3, LeavingKeepsFrames DEF streamVars
  <2> QED
    BY <1>1, <1>3, <2>1 DEF FrameInv, FramesAreReleased, StreamOf
<1> SUFFICES ASSUME Next, Running'
             PROVE  FrameInv'
  BY <1>2, <1>3
<1>4. /\ Running /\ FramesAreReleased
      /\ \A l \in Link, c \in TrafficClass : NoRepeat(queue[l][c])
      /\ \A f \in DOMAIN frames : Placed(f)
  BY StepsRun DEF FrameInv
<1>5. ASSUME DOMAIN frames' = DOMAIN frames, released' = released
      PROVE  FramesAreReleased'
  BY <1>4, <1>5 DEF FramesAreReleased, StreamOf
<1>6. ASSUME NEW e \in events, NEW s \in Stream, HandleRelease(e, s)
      PROVE  FrameInv'
  <2> PICK f : f = <<s, released[s]>>
    OBVIOUS
  <2>1. case' = case
    BY <1>6, DispatchFacts DEF HandleRelease
  <2>2. /\ Placed(f)' /\ DOMAIN frames' = DOMAIN frames \cup {f}
        /\ \A g \in DOMAIN frames : SameFrame(g)
        /\ queue' = queue /\ OnlyKnownFrames' /\ FramesAreReleased'
    BY <1>6, ReleaseMoves
  <2>3. \A g \in DOMAIN frames' : \/ g = f /\ Placed(g)'
                                  \/ g \in DOMAIN frames /\ SameFrame(g) /\ Placed(g)
    BY <1>4, <2>2
  <2>4. \A l \in Link, c \in TrafficClass : NoRepeat(queue'[l][c])
    BY <1>4, <2>2
  <2> QED
    BY <1>1, <2>1, <2>2, <2>3, <2>4, StepKeepsFrames
<1>7. ASSUME NEW e \in events, NEW f \in DOMAIN frames, NEW l \in Link, HandleEnqueue(e, f, l)
      PROVE  FrameInv'
  <2>1. /\ case' = case /\ released' = released
    BY <1>7, DispatchFacts DEF HandleEnqueue, streamVars
  <2>2. /\ Moved(f, 0, 1) /\ DOMAIN frames' = DOMAIN frames /\ OnlyKnownFrames'
        /\ \A k \in Link, c \in TrafficClass : NoRepeat(queue'[k][c])
    BY <1>7, EnqueueMoves
  <2>3. \A g \in DOMAIN frames' : \/ g = f /\ Placed(g)'
                                  \/ g \in DOMAIN frames /\ SameFrame(g) /\ Placed(g)
    BY <1>4, <2>2 DEF Moved
  <2> QED
    BY <1>1, <1>5, <2>1, <2>2, <2>3, StepKeepsFrames
<1>8. ASSUME NEW e \in events, NEW l \in Link, HandleStart(e, l)
      PROVE  FrameInv'
  <2>1. PICK c \in TrafficClass, f \in Frame : Transmits(e, l, c, f)
    BY <1>8, StartChooses
  <2>2. /\ case' = case /\ released' = released /\ frames' = frames
    BY <2>1, DispatchFacts DEF Transmits, streamVars
  <2>3. /\ Moved(f, 1, 2) /\ OnlyKnownFrames'
        /\ \A k \in Link, d \in TrafficClass : NoRepeat(queue'[k][d])
    BY <2>1, StartMoves
  <2>4. \A g \in DOMAIN frames' : \/ g = f /\ Placed(g)'
                                  \/ g \in DOMAIN frames /\ SameFrame(g) /\ Placed(g)
    BY <1>4, <2>2, <2>3 DEF Moved
  <2> QED
    BY <1>1, <1>5, <2>2, <2>3, <2>4, StepKeepsFrames
<1>9. ASSUME NEW e \in events, NEW f \in DOMAIN frames, NEW l \in Link, HandleEnd(e, l, f)
      PROVE  FrameInv'
  <2>1. /\ case' = case /\ released' = released
    BY <1>9, DispatchFacts DEF HandleEnd, streamVars
  <2>2. /\ Moved(f, 2, 3) /\ frames' = frames /\ queue' = queue /\ OnlyKnownFrames'
    BY <1>9, EndMoves
  <2>3. \A g \in DOMAIN frames' : \/ g = f /\ Placed(g)'
                                  \/ g \in DOMAIN frames /\ SameFrame(g) /\ Placed(g)
    BY <1>4, <2>2 DEF Moved
  <2>4. \A k \in Link, c \in TrafficClass : NoRepeat(queue'[k][c])
    BY <1>4, <2>2
  <2> QED
    BY <1>1, <1>5, <2>1, <2>2, <2>3, <2>4, StepKeepsFrames
<1>10. ASSUME NEW e \in events, NEW f \in DOMAIN frames, HandleForward(e, f)
       PROVE  FrameInv'
  <2>1. /\ case' = case /\ released' = released
    BY <1>10, DispatchFacts DEF HandleForward, streamVars
  <2>2. /\ Placed(f)' /\ \A g \in DOMAIN frames \ {f} : SameFrame(g)
        /\ DOMAIN frames' = DOMAIN frames /\ queue' = queue /\ OnlyKnownFrames'
    BY <1>10, ForwardMoves
  <2>3. \A g \in DOMAIN frames' : \/ g = f /\ Placed(g)'
                                  \/ g \in DOMAIN frames /\ SameFrame(g) /\ Placed(g)
    BY <1>4, <2>2
  <2>4. \A k \in Link, c \in TrafficClass : NoRepeat(queue'[k][c])
    BY <1>4, <2>2
  <2> QED
    BY <1>1, <1>5, <2>1, <2>2, <2>3, <2>4, StepKeepsFrames
<1>11. ASSUME NEW e \in events, NEW f \in DOMAIN frames, HandleDelivery(e, f)
       PROVE  FrameInv'
  <2>1. /\ case' = case /\ released' = released
    BY <1>11, DispatchFacts DEF HandleDelivery
  <2>2. /\ Moved(f, 3, 4) /\ DOMAIN frames' = DOMAIN frames /\ queue' = queue
        /\ OnlyKnownFrames'
    BY <1>11, DeliveryMoves
  <2>3. \A g \in DOMAIN frames' : \/ g = f /\ Placed(g)'
                                  \/ g \in DOMAIN frames /\ SameFrame(g) /\ Placed(g)
    BY <1>4, <2>2 DEF Moved
  <2>4. \A k \in Link, c \in TrafficClass : NoRepeat(queue'[k][c])
    BY <1>4, <2>2
  <2> QED
    BY <1>1, <1>5, <2>1, <2>2, <2>3, <2>4, StepKeepsFrames
<1>12. ASSUME NEW e \in events, NEW l \in Link, NEW c \in Shaped, HandleCreditUpdate(e, l, c)
       PROVE  FrameInv'
  <2>1. /\ case' = case /\ released' = released
    BY <1>12, DispatchFacts DEF HandleCreditUpdate, streamVars
  <2>2. /\ \A g \in DOMAIN frames : SameFrame(g)
        /\ frames' = frames /\ queue' = queue /\ OnlyKnownFrames'
    BY <1>12, CreditUpdateMovesNothing
  <2>3. \A g \in DOMAIN frames' : \/ g = None /\ Placed(g)'
                                  \/ g \in DOMAIN frames /\ SameFrame(g) /\ Placed(g)
    BY <1>4, <2>2
  <2>4. \A k \in Link, d \in TrafficClass : NoRepeat(queue'[k][d])
    BY <1>4, <2>2
  <2> QED
    BY <1>1, <1>5, <2>1, <2>2, <2>3, <2>4, StepKeepsFrames
<1> QED
  BY <1>6, <1>7, <1>8, <1>9, <1>10, <1>11, <1>12
  DEF Next, Running, HandleFinalize, LeaveLoop, StopBefore, Raise, RunDry, Stop

(* No frame is in the network when the first releases are pushed. *)
LEMMA FrameInit ==
  ASSUME Init
  PROVE  FrameInv
<1>1. EngineInv
  BY EngineInit
<1>2. /\ DOMAIN frames = {}
      /\ \A l \in Link, c \in TrafficClass : queue[l][c] = <<>>
      /\ \A l \in Link : onWire[l] = None
  BY DEF Init
<1>3. \A e \in events : e.task.kind = "RELEASE_FRAME"
  <2>1. \A e \in events : \E s : e.task = ReleaseFrame(s)
    BY DEF Init
  <2> QED
    BY <2>1, TaskFields
<1>4. OnlyKnownFrames
  BY <1>2, <1>3 DEF OnlyKnownFrames, MoveKind
<1>5. \A l \in Link, c \in TrafficClass : NoRepeat(queue[l][c])
  BY <1>2 DEF NoRepeat
<1> QED
  BY <1>1, <1>2, <1>4, <1>5 DEF FrameInv, FramesAreReleased

(* The frames are where the invariant says throughout, whatever the case. *)
THEOREM FramesAreConsistent == Spec => []FrameInv
<1>1. Init => FrameInv
  BY FrameInit
<1>2. FrameInv /\ [Next]_vars => FrameInv'
  BY FrameStep
<1> QED
  BY <1>1, <1>2, PTL DEF Spec

-----------------------------------------------------------------------------
(* What follows from the places of the frames                              *)

(* The places of a frame, one by one. *)
LEMMA PlacesAre ==
  ASSUME TypeOK, NEW f \in DOMAIN frames, NEW p
  PROVE  p \in Places(f) <=>
           \/ \E l \in Link, c \in TrafficClass : \E i \in DOMAIN queue[l][c] :
                queue[l][c][i] = f /\ p = <<"queue", l, c, i>>
           \/ \E l \in Link : onWire[l] = f /\ p = <<"wire", l>>
           \/ \E e \in events : Moves(e.task, f) /\ p = <<"event", e.seq>>
           \/ Delivered(f) /\ p = <<"delivered">>
<1> DEFINE family == {Slots(f, l, c) : l \in Link, c \in TrafficClass}
           queued == UNION family
           wired == {<<"wire", l>> : l \in {k \in Link : onWire[k] = f}}
           moving == {<<"event", e.seq>> : e \in {d \in events : d.task \in MovesOf(f)}}
           arrived == IF frames[f].deliveredAt # None THEN {<<"delivered">>} ELSE {}
<1>1. \A e \in events : e.task \in MovesOf(f) <=> Moves(e.task, f)
  <2> SUFFICES ASSUME NEW e \in events
               PROVE  e.task \in MovesOf(f) <=> Moves(e.task, f)
    OBVIOUS
  <2>1. e.task \in Task
    BY DEF TypeOK, Event
  <2>2. e.task \in MovesOf(f) => Moves(e.task, f)
    BY TaskFields, MoveFields DEF Moves, MoveKind, MovesOf
  <2>3. Moves(e.task, f) => e.task \in MovesOf(f)
    BY <2>1, TaskKinds DEF Moves, MoveKind, MovesOf
  <2> QED
    BY <2>2, <2>3
<1>2. p \in queued <=>
        \E l \in Link, c \in TrafficClass : \E i \in DOMAIN queue[l][c] :
          queue[l][c][i] = f /\ p = <<"queue", l, c, i>>
  <2>1. \A l, c : p \in Slots(f, l, c) <=>
          \E i \in DOMAIN queue[l][c] : queue[l][c][i] = f /\ p = <<"queue", l, c, i>>
    BY DEF Slots
  <2>2. p \in queued <=> \E l \in Link, c \in TrafficClass : p \in Slots(f, l, c)
    <3>1. \A q : q \in family <=> \E l \in Link, c \in TrafficClass : q = Slots(f, l, c)
      OBVIOUS
    <3>2. p \in queued <=> \E q \in family : p \in q
      <4> HIDE DEF family
      <4> QED
        OBVIOUS
    <3> HIDE DEF family, queued
    <3> QED
      BY <3>1, <3>2
  <2> HIDE DEF family, queued
  <2> QED
    BY <2>1, <2>2
<1>3. p \in moving <=> \E e \in events : Moves(e.task, f) /\ p = <<"event", e.seq>>
  BY <1>1
<1>4. p \in wired <=> \E l \in Link : onWire[l] = f /\ p = <<"wire", l>>
  OBVIOUS
<1>5. p \in arrived <=> Delivered(f) /\ p = <<"delivered">>
  BY DEF Delivered
<1>6. Places(f) = queued \cup wired \cup moving \cup arrived
  BY DEF Places
<1> HIDE DEF queued, wired, moving, arrived
<1> QED
  BY <1>2, <1>3, <1>4, <1>5, <1>6

(* A frame in one stage is in one place. *)
LEMMA OnePlace ==
  ASSUME TypeOK, NEW f \in DOMAIN frames, Placed(f),
         \A l \in Link, c \in TrafficClass : NoRepeat(queue[l][c])
  PROVE  Cardinality(Places(f)) = 1
<1>1. PICK n \in Stage : At(f, n)
  BY DEF Placed
<1> DEFINE Only(p) == \A q : q \in Places(f) <=> q = p
<1>2. \E p : Only(p)
  <2>0. n = 0 \/ n = 1 \/ n = 2 \/ n = 3 \/ n = 4
    BY DEF Stage
  <2>1. CASE n \in {0, 3}
    <3>1. PICK e \in events : Moves(e.task, f)
      BY <1>1, <2>1 DEF At, Arriving, Leaving, Moves, MoveKind
    <3>2. \A d \in events : Moves(d.task, f) => d = e
      BY <3>1 DEF Placed
    <3>3. ~Queued(f) /\ ~OnAWire(f) /\ ~Delivered(f)
      BY <1>1, <2>1 DEF At
    <3>4. Only(<<"event", e.seq>>)
      BY <3>1, <3>2, <3>3, PlacesAre DEF Queued, OnAWire, Holds
    <3> HIDE DEF Only
    <3> QED
      BY <3>4
  <2>2. CASE n \notin {0, 3}
    <3>1. \A e \in events : ~Moves(e.task, f)
      BY <1>1, <2>2 DEF At, Arriving, Leaving, Moves, MoveKind
    <3>2. CASE n = 1
      <4>1. PICK l \in Link, c \in TrafficClass : Holds(queue[l][c], f)
        BY <1>1, <3>2 DEF At, Queued
      <4>2. PICK i \in DOMAIN queue[l][c] : queue[l][c][i] = f
        BY <4>1 DEF Holds
      <4>3. \A k \in Link, d \in TrafficClass : \A j \in DOMAIN queue[k][d] :
              queue[k][d][j] = f => k = l /\ d = c /\ j = i
        <5>1. \A k \in Link, d \in TrafficClass : Holds(queue[k][d], f) => k = l /\ d = c
          BY <4>1 DEF Placed
        <5> QED
          BY <4>2, <5>1 DEF Holds, NoRepeat
      <4>4. ~OnAWire(f) /\ ~Delivered(f)
        BY <1>1, <3>2 DEF At
      <4>5. Only(<<"queue", l, c, i>>)
        BY <3>1, <4>2, <4>3, <4>4, PlacesAre DEF OnAWire
      <4> HIDE DEF Only
      <4> QED
        BY <4>5
    <3>3. CASE n = 2
      <4>1. PICK l \in Link : onWire[l] = f
        BY <1>1, <3>3 DEF At, OnAWire
      <4>2. \A k \in Link : onWire[k] = f => k = l
        BY <4>1 DEF Placed
      <4>3. ~Queued(f) /\ ~Delivered(f)
        BY <1>1, <3>3 DEF At
      <4>4. Only(<<"wire", l>>)
        BY <3>1, <4>1, <4>2, <4>3, PlacesAre DEF Queued, Holds
      <4> HIDE DEF Only
      <4> QED
        BY <4>4
    <3>4. CASE n = 4
      <4>1. ~Queued(f) /\ ~OnAWire(f) /\ Delivered(f)
        BY <1>1, <3>4 DEF At
      <4>2. Only(<<"delivered">>)
        BY <3>1, <4>1, PlacesAre DEF Queued, OnAWire, Holds
      <4> HIDE DEF Only
      <4> QED
        BY <4>2
    <3> QED
      BY <2>0, <2>2, <3>2, <3>3, <3>4
  <2> QED
    BY <2>1, <2>2
<1>3. \E p : Places(f) = {p}
  BY <1>2
<1> QED
  BY <1>3, FS_Singleton

(* The engine neither loses nor duplicates a frame: while the loop runs,    *)
(* every released frame is in one queue, on one wire, in one event's       *)
(* payload or delivered, and never in two of them.                         *)
THEOREM FramesAreInOnePlace == Spec => []EachFrameInOnePlace
<1>1. ASSUME FrameInv
      PROVE  EachFrameInOnePlace
  <2> SUFFICES ASSUME Running, NEW f \in DOMAIN frames
               PROVE  /\ Cardinality(Places(f)) = 1
                      /\ \A l \in Link :
                           /\ \A c \in TrafficClass :
                                (\E i \in DOMAIN queue[l][c] : queue[l][c][i] = f)
                                  => HopLink(f) = l /\ ClassOf(f) = c
                           /\ onWire[l] = f => HopLink(f) = l
                           /\ Pending(EnqueueFrame(f, l)) => HopLink(f) = l
    BY DEF EachFrameInOnePlace
  <2>1. /\ TypeOK /\ Placed(f)
        /\ \A l \in Link, c \in TrafficClass : NoRepeat(queue[l][c])
    BY <1>1 DEF FrameInv, EngineInv
  <2>2. Cardinality(Places(f)) = 1
    BY <2>1, OnePlace
  <2>3. ASSUME NEW l \in Link, Pending(EnqueueFrame(f, l))
        PROVE  HopLink(f) = l
    BY <2>1, <2>3, TaskFields, MoveFields DEF Placed, Pending, Moves, MoveKind
  <2> QED
    BY <2>1, <2>2, <2>3 DEF Placed, Holds
<1> QED
  BY <1>1, FramesAreConsistent, PTL

(* Nothing but a release raises: time never runs backwards, a transmission *)
(* end finds its frame on the wire, and no frame is forwarded past its     *)
(* last hop.                                                               *)
LEMMA OnlyReleasesRaise ==
  ASSUME FrameInv, NEW e \in events, Raise(e)
  PROVE  e.task.kind = "RELEASE_FRAME" /\ e.task.stream \in Stream
         /\ case.route[e.task.stream] = <<>>
<1>1. Running /\ Raises(e)
  BY DEF Raise, Pops, Running
<1>2. /\ TypeOK /\ EventsNotInPast /\ OnlyKnownFrames
      /\ \A f \in DOMAIN frames : Placed(f)
      /\ \A l \in Link : PortInv(l)
  BY <1>1 DEF FrameInv, EngineInv
<1>3. e.task \in Task /\ e.at \in Nat /\ clock \in Nat
  BY <1>2 DEF TypeOK, Event
<1>4. ~(e.at < clock)
  BY <1>1, <1>2, <1>3 DEF EventsNotInPast
<1>5. ASSUME e.task.kind = "TRANSMISSION_END"
      PROVE  onWire[e.task.link] = e.task.frame
  <2>1. e.task.link \in Link
    BY <1>3, <1>5 DEF Task
  <2> QED
    BY <1>2, <1>5, <2>1 DEF PortInv, PortMatchesEvents, WireMatchesEvents
<1>6. e.task.kind = "FORWARD_FRAME" => ~IsLastHop(e.task.frame)
  BY <1>2 DEF OnlyKnownFrames, Placed, Moves, MoveKind
<1>7. e.task.kind = "RELEASE_FRAME" => e.task.stream \in Stream
  BY <1>3 DEF Task
<1> QED
  BY <1>1, <1>4, <1>5, <1>6, <1>7 DEF Raises

(* A handler raises for nothing but a stream that no route is keyed by:     *)
(* time never runs backwards, a transmission end finds its frame on the    *)
(* wire, and no frame is forwarded past its last hop.                      *)
THEOREM NothingElseRaises == Spec => []OnlyUnroutedStreamsRaise
<1>1. Init => OnlyUnroutedStreamsRaise
  BY DEF Init, OnlyUnroutedStreamsRaise
<1>2. FrameInv /\ OnlyUnroutedStreamsRaise /\ [Next]_vars => OnlyUnroutedStreamsRaise'
  <2> SUFFICES ASSUME FrameInv, OnlyUnroutedStreamsRaise, [Next]_vars, status' = "raised"
               PROVE  \E s \in Stream : case'.route[s] = <<>>
    BY DEF OnlyUnroutedStreamsRaise
  <2>1. CASE UNCHANGED vars
    BY <2>1 DEF OnlyUnroutedStreamsRaise, vars
  <2>2. ASSUME NEW e \in events, Raise(e)
        PROVE  \E s \in Stream : case'.route[s] = <<>>
    <3>1. case' = case
      BY <2>2 DEF Raise
    <3> QED
      BY <2>2, <3>1, OnlyReleasesRaise
  <2>3. ASSUME Next, \A e \in events : ~Raise(e)
        PROVE  status' # "raised"
    <3>1. ASSUME NEW e \in events, Dispatch(e), UNCHANGED status
          PROVE  status' # "raised"
      BY <3>1 DEF Dispatch, Pops
    <3>2. RunDry \/ Stop => status' # "raised"
      BY DEF RunDry, Stop, LeaveLoop
    <3>3. ASSUME NEW e \in events, StopBefore(e) \/ HandleFinalize(e)
          PROVE  status' # "raised"
      BY <3>3 DEF StopBefore, HandleFinalize, LeaveLoop
    <3>4. ASSUME NEW e \in events,
                 \/ \E s \in Stream : HandleRelease(e, s)
                 \/ \E f \in DOMAIN frames, l \in Link : HandleEnqueue(e, f, l)
                 \/ \E l \in Link : HandleStart(e, l)
                 \/ \E f \in DOMAIN frames, l \in Link : HandleEnd(e, l, f)
          PROVE  Dispatch(e) /\ UNCHANGED status
      BY <3>4 DEF HandleRelease, HandleEnqueue, HandleStart, HandleEnd
    <3>5. ASSUME NEW e \in events,
                 \/ \E f \in DOMAIN frames : HandleForward(e, f)
                 \/ \E f \in DOMAIN frames : HandleDelivery(e, f)
                 \/ \E l \in Link, c \in Shaped : HandleCreditUpdate(e, l, c)
          PROVE  Dispatch(e) /\ UNCHANGED status
      BY <3>5 DEF HandleForward, HandleDelivery, HandleCreditUpdate
    <3> QED
      BY <2>3, <3>1, <3>2, <3>3, <3>4, <3>5 DEF Next
  <2> QED
    BY <2>1, <2>2, <2>3
<1> QED
  BY <1>1, <1>2, FramesAreConsistent, PTL DEF Spec

-----------------------------------------------------------------------------
(* Frames of a stream keep their order                                     *)

(* What a handler pushes comes after all that is pending and due. *)
LEMMA PushedLast ==
  ASSUME FrameInv, MovesAreNow, PushedBefore, NEW e, Dispatch(e),
         NEW new, events' = (events \ {e}) \cup new,
         \A n \in new : /\ n.seq \in {2 * processed', 2 * processed' + 1}
                        /\ n.task.kind \in MoveKind => n.at = clock'
  PROVE  MovesAreNow' /\ PushedBefore'
<1>1. /\ TypeOK /\ Running /\ EventsNotInPast /\ e \in events
      /\ clock' = e.at /\ clock' \in Nat /\ clock \in Nat
      /\ processed \in Nat /\ processed' = processed + 1
  BY DispatchFacts DEF FrameInv, EngineInv, TypeOK
<1>2. IsNext(e) /\ clock <= e.at
  BY <1>1 DEF EventsNotInPast, Dispatch, Pops
<1>3. ASSUME NEW x \in events, x.task.kind \in MoveKind
      PROVE  x.at = clock'
  <2>1. x.at = clock /\ e.at <= x.at
    BY <1>1, <1>2, <1>3, NextIsEarliest DEF MovesAreNow
  <2> QED
    BY <1>1, <1>2, <2>1
<1>4. ASSUME NEW x \in events
      PROVE  x.seq <= 2 * processed' + 1
  <2>1. x.seq \in Int /\ x.seq <= 2 * processed + 1
    BY <1>1 DEF TypeOK, Event, PushedBefore
  <2> QED
    BY <1>1, <2>1
<1>5. \A n \in new : n.seq <= 2 * processed' + 1
  BY <1>1
<1> QED
  BY <1>3, <1>4, <1>5 DEF MovesAreNow, PushedBefore

(* The event popped is the oldest of those that move a frame. *)
LEMMA PoppedIsOldest ==
  ASSUME TypeOK, MovesAreNow, NEW e \in events, IsNext(e), e.task.kind \in MoveKind,
         NEW d \in events, d.task.kind \in MoveKind
  PROVE  ~(d.seq < e.seq)
<1>1. d.seq \in Int /\ e.seq \in Int /\ d.at = clock /\ e.at = clock /\ clock \in Nat
  BY DEF TypeOK, Event, MovesAreNow
<1> QED
  BY <1>1 DEF IsNext, Precedes

(* Frames of one stream take one route in one class, and only at one hop    *)
(* can they meet.                                                          *)
LEMMA SameStream ==
  ASSUME TypeOK, NEW f \in DOMAIN frames, NEW g \in DOMAIN frames,
         Placed(f), Placed(g), StreamOf(f) = StreamOf(g)
  PROVE  /\ RouteOf(f) = RouteOf(g) /\ ClassOf(f) = ClassOf(g)
         /\ HopLink(f) = HopLink(g) <=> frames[f].hop = frames[g].hop
         /\ frames[f].hop \in Nat /\ frames[g].hop \in Nat
         /\ IsLastHop(g) /\ frames[f].hop >= frames[g].hop =>
              frames[f].hop = frames[g].hop
         /\ frames[f].hop = frames[g].hop => (IsLastHop(f) <=> IsLastHop(g))
<1>1. RouteOf(f) = RouteOf(g) /\ ClassOf(f) = ClassOf(g)
  BY DEF RouteOf, ClassOf
<1>2. WellFormed(case)
  BY CaseFacts DEF TypeOK
<1>3. HopLink(f) = HopLink(g) <=> frames[f].hop = frames[g].hop
  BY <1>1, <1>2, PlacedFacts DEF WellFormed, HopLink, Placed, RouteOf
<1>4. /\ frames[f].hop \in Nat /\ frames[f].hop <= Len(RouteOf(f))
      /\ frames[g].hop \in Nat /\ frames[g].hop <= Len(RouteOf(g))
      /\ Len(RouteOf(f)) \in Nat
  BY PlacedFacts
<1> QED
  BY <1>1, <1>3, <1>4 DEF IsLastHop

(* Two frames that stay where they are keep their order. *)
LEMMA AheadStays ==
  ASSUME case' = case, NEW f, NEW g, SameFrame(f), SameFrame(g), Ahead(f, g),
         \A l \in Link, c \in TrafficClass :
           Before(queue[l][c], f, g) => Before(queue'[l][c], f, g)
  PROVE  Ahead(f, g)'
<1>1. /\ frames'[f].hop = frames[f].hop /\ frames'[g].hop = frames[g].hop
      /\ \A n : (At(f, n)' <=> At(f, n)) /\ (At(g, n)' <=> At(g, n))
  BY SameFrameSamePlace DEF SameFrame
<1>2. \A x \in events' : Moves(x.task, f) \/ Moves(x.task, g) => x \in events
  BY DEF SameFrame
<1> QED
  BY <1>1, <1>2 DEF Ahead, Moves

(* The facts about two frames of a stream that dispatching leaves true. *)
LEMMA PairFacts ==
  ASSUME FrameInv, Running, NEW f \in DOMAIN frames, NEW g \in DOMAIN frames, Earlier(f, g)
  PROVE  /\ f # g /\ Placed(f) /\ Placed(g)
         /\ \E m \in Stage : At(f, m)
         /\ \E n \in Stage : At(g, n)
         /\ RouteOf(f) = RouteOf(g) /\ ClassOf(f) = ClassOf(g)
         /\ HopLink(f) = HopLink(g) <=> frames[f].hop = frames[g].hop
         /\ frames[f].hop \in Nat /\ frames[g].hop \in Nat
         /\ IsLastHop(g) /\ frames[f].hop >= frames[g].hop =>
              frames[f].hop = frames[g].hop
         /\ frames[f].hop = frames[g].hop => (IsLastHop(f) <=> IsLastHop(g))
<1>1. TypeOK /\ Placed(f) /\ Placed(g)
  BY DEF FrameInv, EngineInv
<1>2. f[2] \in Nat /\ g[2] \in Nat
  BY <1>1 DEF TypeOK, Frame
<1>3. f # g
  BY <1>2 DEF Earlier
<1> QED
  BY <1>1, <1>3, SameStream DEF Placed, Earlier

(* A frame in a stage is in no other. *)
LEMMA OneStage ==
  ASSUME NEW f, NEW m \in Stage, NEW n \in Stage, At(f, m), At(f, n)
  PROVE  m = n
BY DEF At, Stage

LEMMA OneStageNext ==
  ASSUME NEW f, NEW m \in Stage, NEW n \in Stage, At(f, m)', At(f, n)'
  PROVE  m = n
BY DEF At, Stage

(* A frame joins its queue behind the earlier ones of its stream. *)
LEMMA EnqueueKeepsOrder ==
  ASSUME FrameInv, Running, Ordered,
         NEW e \in events, NEW f \in DOMAIN frames, NEW l \in Link, HandleEnqueue(e, f, l)
  PROVE  Ordered'
<1>1. /\ Moved(f, 0, 1) /\ DOMAIN frames' = DOMAIN frames
      /\ \A g \in DOMAIN frames :
           frames'[g].hop = frames[g].hop /\ frames'[g].deliveredAt = frames[g].deliveredAt
  BY EnqueueMoves
<1>2. PICK new : /\ events' = (events \ {e}) \cup new
                 /\ \A n \in new : n.task.kind \notin MoveKind /\ n.seq = 2 * processed' + 1
  BY EnqueueMoves
<1>3. /\ Dispatch(e) /\ e.task.kind = "ENQUEUE_FRAME" /\ Moves(e.task, f)
      /\ queue' = [queue EXCEPT ![l][ClassOf(f)] = Joined(@, f)]
      /\ e.task.link = l
  BY TaskFields, MoveFields DEF HandleEnqueue, Moves, MoveKind
<1>4. /\ TypeOK /\ case' = case /\ IsNext(e)
      /\ \A g \in DOMAIN frames : Placed(g)
  BY <1>3, DispatchFacts DEF Dispatch, Pops
<1>5. MovesAreNow' /\ PushedBefore'
  BY <1>2, <1>3, PushedLast DEF Ordered
<1>6. f \in Frame /\ ClassOf(f) \in TrafficClass /\ HopLink(f) = l
  BY <1>3, <1>4, PlacedFacts DEF Placed
<1> DEFINE c == ClassOf(f)
<1>7. /\ queue[l][c] \in Seq(Frame)
      /\ \A k \in Link, d \in TrafficClass :
           queue'[k][d] = IF k = l /\ d = c THEN Joined(queue[l][c], f) ELSE queue[k][d]
  <2>1. TypeOK /\ c \in TrafficClass /\ f \in Frame
        /\ queue' = [queue EXCEPT ![l][c] = Joined(@, f)]
    BY <1>3, <1>4, <1>6
  <2> HIDE DEF c
  <2> QED
    BY <2>1 DEF TypeOK
<1>8. /\ \A g, h : Before(queue[l][c], g, h) /\ g # f => Before(Joined(queue[l][c], f), g, h)
      /\ \A g : Holds(Joined(queue[l][c], f), g) <=> Holds(queue[l][c], g) \/ g = f
  <2> HIDE DEF c
  <2> QED
    BY <1>6, <1>7, JoinedFacts
<1>9. \A x \in events' : ~Moves(x.task, f)
  <2>1. ~Arriving(f)' /\ ~Leaving(f)'
    BY <1>1 DEF Moved, At
  <2> QED
    BY <2>1 DEF Arriving, Leaving, Moves, MoveKind
<1>10. ASSUME NEW a \in DOMAIN frames, NEW b \in DOMAIN frames, Earlier(a, b)
       PROVE  Ahead(a, b)'
  <2>1. /\ Ahead(a, b) /\ a # b
        /\ HopLink(a) = HopLink(b) <=> frames[a].hop = frames[b].hop
        /\ frames[a].hop \in Nat /\ frames[b].hop \in Nat
        /\ ClassOf(a) = ClassOf(b)
    BY <1>10, PairFacts DEF Ordered
  <2>2. CASE a # f /\ b # f
    <3>1. SameFrame(a) /\ SameFrame(b)
      BY <1>1, <2>2 DEF Moved
    <3>2. \A k \in Link, d \in TrafficClass :
            Before(queue[k][d], a, b) => Before(queue'[k][d], a, b)
      BY <1>7, <1>8, <2>2
    <3> QED
      BY <1>4, <2>1, <3>1, <3>2, AheadStays
  <2>3. CASE a = f
    <3>1. SameFrame(b) /\ At(a, 0) /\ At(a, 1)'
      BY <1>1, <2>1, <2>3 DEF Moved
    <3>2. frames[a].hop = frames[b].hop => At(b, 0)
      <4> SUFFICES ASSUME frames[a].hop = frames[b].hop
                   PROVE  At(b, 0)
        OBVIOUS
      <4>1. PICK n \in Stage : At(b, n)
        BY <1>10, PairFacts
      <4>2. 0 >= n
        BY <2>1, <3>1, <4>1 DEF Ahead, Stage
      <4> QED
        BY <4>1, <4>2 DEF Stage
    <3>3. ~Holds(queue[l][c], b)
      <4>1. Holds(queue[l][c], b) => HopLink(b) = l /\ Queued(b)
        BY <1>4, <1>6 DEF Placed, Queued
      <4> QED
        BY <1>6, <2>1, <2>3, <3>2, <4>1 DEF At
    <3>4. \A k \in Link, d \in TrafficClass : Before(queue'[k][d], a, b)
      <4>1. \A k \in Link, d \in TrafficClass : Before(queue[k][d], a, b)
        BY <2>1 DEF Ahead
      <4>2. ~Holds(Joined(queue[l][c], f), b)
        BY <1>8, <2>1, <2>3, <3>3
      <4>3. Before(Joined(queue[l][c], f), a, b)
        BY <4>2 DEF Holds, Before
      <4> QED
        BY <1>7, <4>1, <4>3
    <3>5. frames'[a].hop = frames'[b].hop =>
            \A m, n \in Stage : At(a, m)' /\ At(b, n)' => m >= n
      <4> SUFFICES ASSUME frames'[a].hop = frames'[b].hop,
                          NEW m \in Stage, NEW n \in Stage, At(a, m)', At(b, n)'
                   PROVE  m >= n
        OBVIOUS
      <4>1. m = 1
        BY <3>1, OneStageNext DEF Stage
      <4>2. At(b, n) /\ At(b, 0)
        BY <1>1, <1>4, <3>1, <3>2, SameFrameSamePlace
      <4>3. n = 0
        BY <4>2, OneStage DEF Stage
      <4> QED
        BY <4>1, <4>3
    <3> QED
      BY <1>1, <1>9, <2>1, <2>3, <3>4, <3>5 DEF Ahead
  <2>4. CASE b = f
    <3>1. SameFrame(a) /\ At(b, 0) /\ At(b, 1)'
      BY <1>1, <2>1, <2>4 DEF Moved
    <3>2. frames[a].hop = frames[b].hop => ~At(a, 0)
      <4> SUFFICES ASSUME frames[a].hop = frames[b].hop, At(a, 0)
                   PROVE  FALSE
        OBVIOUS
      <4>1. PICK x \in events : x.task.kind = "ENQUEUE_FRAME" /\ x.task.frame = a
        BY DEF At, Arriving
      <4>2. x.seq < e.seq
        BY <1>3, <2>1, <2>4, <4>1 DEF Ahead, Moves, MoveKind
      <4> QED
        BY <1>3, <1>4, <4>1, <4>2, PoppedIsOldest DEF Ordered, MoveKind
    <3>3. \A k \in Link, d \in TrafficClass : Before(queue'[k][d], a, b)
      BY <1>7, <1>8, <2>1, <2>4 DEF Ahead
    <3>4. frames'[a].hop = frames'[b].hop =>
            \A m, n \in Stage : At(a, m)' /\ At(b, n)' => m >= n
      <4> SUFFICES ASSUME frames'[a].hop = frames'[b].hop,
                          NEW m \in Stage, NEW n \in Stage, At(a, m)', At(b, n)'
                   PROVE  m >= n
        OBVIOUS
      <4>1. n = 1
        BY <3>1, OneStageNext DEF Stage
      <4>2. At(a, m)
        BY <1>4, <3>1, SameFrameSamePlace
      <4>3. m # 0
        BY <1>1, <3>2, <4>2
      <4> QED
        BY <4>1, <4>3 DEF Stage
    <3> QED
      BY <1>1, <1>9, <2>1, <2>4, <3>3, <3>4 DEF Ahead
  <2> QED
    BY <2>2, <2>3, <2>4
<1> QED
  BY <1>1, <1>5, <1>10 DEF Ordered, Earlier, StreamOf

(* The frame that starts is the first of its stream in the queue. *)
LEMMA StartKeepsOrder ==
  ASSUME FrameInv, Running, Ordered,
         NEW e \in events, NEW l \in Link, NEW c \in TrafficClass, NEW f \in Frame,
         Transmits(e, l, c, f)
  PROVE  Ordered'
<1>1. /\ f \in DOMAIN frames /\ Moved(f, 1, 2) /\ frames' = frames
      /\ Holds(queue[l][c], f)
  BY StartMoves DEF Transmits
<1>2. PICK end : /\ events' = (events \ {e}) \cup {end}
                 /\ end.task.kind \notin MoveKind /\ end.seq = 2 * processed'
  BY StartMoves
<1>3. /\ Dispatch(e) /\ queue[l][c] # <<>> /\ f = Head(queue[l][c])
      /\ queue' = [queue EXCEPT ![l][c] = Popped(@)]
  BY DEF Transmits, IsCandidate, Eligible
<1>4. /\ TypeOK /\ case' = case
      /\ \A g \in DOMAIN frames : Placed(g)
      /\ \A k \in Link, d \in TrafficClass : NoRepeat(queue[k][d])
  BY <1>3, DispatchFacts
<1>5. MovesAreNow' /\ PushedBefore'
  BY <1>2, <1>3, PushedLast DEF Ordered
<1>6. /\ queue[l][c] \in Seq(Frame)
      /\ \A k \in Link, d \in TrafficClass :
           queue'[k][d] = IF k = l /\ d = c THEN Popped(queue[l][c]) ELSE queue[k][d]
  BY <1>3, <1>4, QueueWithOneLess
<1>7. /\ \A g, h : Before(queue[l][c], g, h) => Before(Popped(queue[l][c]), g, h)
      /\ \A g : ~(Holds(queue[l][c], g) /\ Before(queue[l][c], g, f))
  BY <1>3, <1>4, <1>6, PoppedFacts
<1>8. \A x \in events' : ~Moves(x.task, f)
  <2>1. ~Arriving(f)' /\ ~Leaving(f)'
    BY <1>1 DEF Moved, At
  <2> QED
    BY <2>1 DEF Arriving, Leaving, Moves, MoveKind
<1>9. ASSUME NEW a \in DOMAIN frames, NEW b \in DOMAIN frames, Earlier(a, b)
      PROVE  Ahead(a, b)'
  <2>1. /\ Ahead(a, b) /\ a # b
        /\ HopLink(a) = HopLink(b) <=> frames[a].hop = frames[b].hop
        /\ ClassOf(a) = ClassOf(b)
    BY <1>9, PairFacts DEF Ordered
  <2>2. \A k \in Link, d \in TrafficClass :
          Before(queue[k][d], a, b) => Before(queue'[k][d], a, b)
    BY <1>6, <1>7
  <2>3. \A k \in Link, d \in TrafficClass : Before(queue'[k][d], a, b)
    BY <2>1, <2>2 DEF Ahead
  <2>4. CASE a # f /\ b # f
    <3>1. SameFrame(a) /\ SameFrame(b)
      BY <1>1, <2>4 DEF Moved
    <3> QED
      BY <1>4, <2>1, <2>2, <3>1, AheadStays
  <2>5. CASE a = f
    <3>1. SameFrame(b) /\ At(a, 1) /\ At(a, 2)'
      BY <1>1, <2>1, <2>5 DEF Moved
    <3>2. frames'[a].hop = frames'[b].hop =>
            \A m, n \in Stage : At(a, m)' /\ At(b, n)' => m >= n
      <4> SUFFICES ASSUME frames'[a].hop = frames'[b].hop,
                          NEW m \in Stage, NEW n \in Stage, At(a, m)', At(b, n)'
                   PROVE  m >= n
        OBVIOUS
      <4>1. m = 2
        BY <3>1, OneStageNext DEF Stage
      <4>2. At(b, n)
        BY <1>4, <3>1, SameFrameSamePlace
      <4>3. 1 >= n
        BY <1>1, <2>1, <3>1, <4>2 DEF Ahead, Stage
      <4> QED
        BY <4>1, <4>3 DEF Stage
    <3> QED
      BY <1>1, <1>8, <2>1, <2>3, <2>5, <3>2 DEF Ahead
  <2>6. CASE b = f
    <3>1. SameFrame(a) /\ At(b, 1) /\ At(b, 2)'
      BY <1>1, <2>1, <2>6 DEF Moved
    <3>2. frames[a].hop = frames[b].hop => ~At(a, 1)
      <4> SUFFICES ASSUME frames[a].hop = frames[b].hop, At(a, 1)
                   PROVE  FALSE
        OBVIOUS
      <4>1. PICK k \in Link, d \in TrafficClass : Holds(queue[k][d], a)
        BY DEF At, Queued
      <4>2. k = HopLink(a) /\ d = ClassOf(a)
        BY <1>4, <4>1 DEF Placed
      <4>3. l = HopLink(b) /\ c = ClassOf(b)
        BY <1>1, <1>4, <2>6 DEF Placed
      <4>4. Before(queue[l][c], a, f)
        BY <2>1, <2>6 DEF Ahead
      <4> QED
        BY <1>7, <2>1, <4>1, <4>2, <4>3, <4>4
    <3>3. frames'[a].hop = frames'[b].hop =>
            \A m, n \in Stage : At(a, m)' /\ At(b, n)' => m >= n
      <4> SUFFICES ASSUME frames'[a].hop = frames'[b].hop,
                          NEW m \in Stage, NEW n \in Stage, At(a, m)', At(b, n)'
                   PROVE  m >= n
        OBVIOUS
      <4>1. n = 2
        BY <3>1, OneStageNext DEF Stage
      <4>2. At(a, m)
        BY <1>4, <3>1, SameFrameSamePlace
      <4>3. m >= 1 /\ m # 1
        BY <1>1, <2>1, <3>1, <3>2, <4>2 DEF Ahead, Stage
      <4> QED
        BY <4>1, <4>3 DEF Stage
    <3> QED
      BY <1>1, <1>8, <2>1, <2>3, <2>6, <3>3 DEF Ahead
  <2> QED
    BY <2>4, <2>5, <2>6
<1> QED
  BY <1>1, <1>5, <1>9 DEF Ordered, Earlier, StreamOf

(* A frame leaves a link after the earlier ones of its stream: its event is *)
(* pushed after theirs.                                                    *)
LEMMA EndKeepsOrder ==
  ASSUME FrameInv, Running, Ordered,
         NEW e \in events, NEW f \in DOMAIN frames, NEW l \in Link, HandleEnd(e, l, f)
  PROVE  Ordered'
<1>1. /\ Moved(f, 2, 3) /\ frames' = frames /\ queue' = queue
      /\ onWire[l] = f
  BY EndMoves
<1>2. PICK arrival, new :
        /\ events' = (events \ {e}) \cup ({arrival} \cup new)
        /\ Moves(arrival.task, f) /\ arrival.task.kind # "ENQUEUE_FRAME"
        /\ \A g : Moves(arrival.task, g) => g = f
        /\ arrival.at = clock' /\ arrival.seq = 2 * processed'
        /\ \A n \in new : n.task.kind \notin MoveKind /\ n.seq = 2 * processed' + 1
  BY EndMoves
<1>3. Dispatch(e)
  BY DEF HandleEnd
<1>4. /\ TypeOK /\ case' = case /\ \A g \in DOMAIN frames : Placed(g)
      /\ processed \in Nat /\ processed' = processed + 1
  BY <1>3, DispatchFacts
<1>5. MovesAreNow' /\ PushedBefore'
  BY <1>2, <1>3, PushedLast DEF Ordered
<1>6. ASSUME NEW a \in DOMAIN frames, NEW b \in DOMAIN frames, Earlier(a, b)
      PROVE  Ahead(a, b)'
  <2>1. /\ Ahead(a, b) /\ a # b
        /\ HopLink(a) = HopLink(b) <=> frames[a].hop = frames[b].hop
    BY <1>6, PairFacts DEF Ordered
  <2>2. \A k \in Link, d \in TrafficClass : Before(queue'[k][d], a, b)
    BY <1>1, <2>1 DEF Ahead
  <2>3. CASE a # f /\ b # f
    <3>1. SameFrame(a) /\ SameFrame(b)
      BY <1>1, <2>3 DEF Moved
    <3> QED
      BY <1>1, <1>4, <2>1, <3>1, AheadStays
  <2>4. CASE a = f
    <3>1. SameFrame(b) /\ At(a, 2) /\ At(a, 3)'
      BY <1>1, <2>1, <2>4 DEF Moved
    <3>2. \A n \in Stage : frames[a].hop = frames[b].hop /\ At(b, n) => 2 >= n
      BY <2>1, <3>1 DEF Ahead, Stage
    <3>3. frames'[a].hop = frames'[b].hop =>
            \A m, n \in Stage : At(a, m)' /\ At(b, n)' => m >= n
      <4> SUFFICES ASSUME frames'[a].hop = frames'[b].hop,
                          NEW m \in Stage, NEW n \in Stage, At(a, m)', At(b, n)'
                   PROVE  m >= n
        OBVIOUS
      <4>1. m = 3
        BY <3>1, OneStageNext DEF Stage
      <4>2. 2 >= n
        BY <1>1, <1>4, <3>1, <3>2, SameFrameSamePlace
      <4> QED
        BY <4>1, <4>2 DEF Stage
    <3>4. frames'[a].hop = frames'[b].hop =>
            \A x \in events' : Moves(x.task, b) => x.task.kind = "ENQUEUE_FRAME"
      <4> SUFFICES ASSUME frames'[a].hop = frames'[b].hop,
                          NEW x \in events', Moves(x.task, b),
                          x.task.kind # "ENQUEUE_FRAME"
                   PROVE  FALSE
        OBVIOUS
      <4>1. x \in events
        BY <3>1 DEF SameFrame
      <4>2. Leaving(b)
        BY <4>1 DEF Leaving, Moves, MoveKind
      <4>3. PICK n \in Stage : At(b, n)
        BY <1>6, PairFacts
      <4>4. n = 3
        BY <4>2, <4>3 DEF At
      <4> QED
        BY <1>1, <3>2, <4>3, <4>4
    <3>5. \A x \in events' : Moves(x.task, f) => x.task.kind # "ENQUEUE_FRAME"
      <4>1. ~Arriving(f)'
        BY <1>1 DEF Moved, At
      <4> QED
        BY <4>1 DEF Arriving, Moves
    <3> QED
      BY <1>1, <2>1, <2>2, <2>4, <3>3, <3>4, <3>5 DEF Ahead
  <2>5. CASE b = f
    <3>1. SameFrame(a) /\ At(b, 2) /\ At(b, 3)'
      BY <1>1, <2>1, <2>5 DEF Moved
    <3>2. frames[a].hop = frames[b].hop => ~At(a, 2)
      <4> SUFFICES ASSUME frames[a].hop = frames[b].hop, At(a, 2)
                   PROVE  FALSE
        OBVIOUS
      <4>1. PICK k \in Link : onWire[k] = a
        BY DEF At, OnAWire
      <4>2. k = HopLink(a) /\ l = HopLink(b)
        BY <1>1, <1>4, <2>5, <4>1 DEF Placed
      <4> QED
        BY <1>1, <2>1, <2>5, <4>1, <4>2
    <3>3. frames'[a].hop = frames'[b].hop =>
            \A m, n \in Stage : At(a, m)' /\ At(b, n)' => m >= n
      <4> SUFFICES ASSUME frames'[a].hop = frames'[b].hop,
                          NEW m \in Stage, NEW n \in Stage, At(a, m)', At(b, n)'
                   PROVE  m >= n
        OBVIOUS
      <4>1. n = 3
        BY <3>1, OneStageNext DEF Stage
      <4>2. At(a, m)
        BY <1>4, <3>1, SameFrameSamePlace
      <4>3. m >= 2 /\ m # 2
        BY <1>1, <2>1, <3>1, <3>2, <4>2 DEF Ahead, Stage
      <4> QED
        BY <4>1, <4>3 DEF Stage
    <3>4. \A x, y \in events' : Moves(x.task, a) /\ Moves(y.task, b) => x.seq < y.seq
      <4> SUFFICES ASSUME NEW x \in events', NEW y \in events',
                          Moves(x.task, a), Moves(y.task, b)
                   PROVE  x.seq < y.seq
        OBVIOUS
      <4>1. x \in events
        BY <3>1 DEF SameFrame
      <4>2. x.seq \in Int /\ x.seq <= 2 * processed + 1
        BY <1>4, <4>1 DEF Ordered, PushedBefore, TypeOK, Event
      <4>3. y = arrival
        <5>1. \A z \in events : ~Moves(z.task, b)
          BY <3>1 DEF At, Arriving, Leaving, Moves, MoveKind
        <5> QED
          BY <1>2, <5>1 DEF Moves
      <4> QED
        BY <1>2, <1>4, <4>2, <4>3
    <3> QED
      BY <1>1, <2>1, <2>2, <3>3, <3>4 DEF Ahead
  <2> QED
    BY <2>3, <2>4, <2>5
<1>7. Ordered'
  BY <1>1, <1>5, <1>6 DEF Ordered, Earlier, StreamOf
<1> QED
  BY <1>7

(* A frame is forwarded after the earlier ones of its stream. *)
LEMMA ForwardKeepsOrder ==
  ASSUME FrameInv, Running, Ordered,
         NEW e \in events, NEW f \in DOMAIN frames, HandleForward(e, f)
  PROVE  Ordered'
<1>1. /\ At(f, 3) /\ At(f, 0)'
      /\ \A g \in DOMAIN frames \ {f} : SameFrame(g)
      /\ DOMAIN frames' = DOMAIN frames
      /\ \A g \in DOMAIN frames :
           /\ frames'[g].hop = IF g = f THEN frames[f].hop + 1 ELSE frames[g].hop
           /\ frames'[g].deliveredAt = frames[g].deliveredAt
      /\ queue' = queue
  BY ForwardMoves
<1>2. PICK arrival :
        /\ events' = (events \ {e}) \cup {arrival}
        /\ arrival.task.kind = "ENQUEUE_FRAME"
        /\ \A g : Moves(arrival.task, g) <=> g = f
        /\ arrival.at = clock' /\ arrival.seq = 2 * processed'
  BY ForwardMoves
<1>3. Dispatch(e) /\ e.task.kind = "FORWARD_FRAME" /\ Moves(e.task, f)
  BY TaskFields, MoveFields DEF HandleForward, Moves, MoveKind
<1>4. /\ TypeOK /\ case' = case /\ \A g \in DOMAIN frames : Placed(g)
      /\ processed \in Nat /\ processed' = processed + 1 /\ IsNext(e)
  BY <1>3, DispatchFacts DEF Dispatch, Pops
<1>5. MovesAreNow' /\ PushedBefore'
  BY <1>2, <1>3, PushedLast DEF Ordered
<1>6. ASSUME NEW a \in DOMAIN frames, NEW b \in DOMAIN frames, Earlier(a, b)
      PROVE  Ahead(a, b)'
  <2>1. /\ Ahead(a, b) /\ a # b /\ Placed(a)
        /\ frames[a].hop \in Nat /\ frames[b].hop \in Nat
        /\ frames[a].hop >= frames[b].hop
        /\ frames[a].hop = frames[b].hop => (IsLastHop(a) <=> IsLastHop(b))
        /\ \E m \in Stage : At(a, m)
    BY <1>6, PairFacts DEF Ordered, Ahead
  <2>2. \A k \in Link, d \in TrafficClass : Before(queue'[k][d], a, b)
    BY <1>1, <2>1 DEF Ahead
  <2>3. CASE a # f /\ b # f
    <3>1. SameFrame(a) /\ SameFrame(b)
      BY <1>1, <2>3
    <3> QED
      BY <1>1, <1>4, <2>1, <3>1, AheadStays
  <2>4. CASE a = f
    <3>1. frames'[a].hop > frames'[b].hop
      BY <1>1, <2>1, <2>4
    <3>2. frames'[a].hop \in Nat /\ frames'[b].hop \in Nat
      BY <1>1, <2>1, <2>4
    <3> QED
      BY <2>2, <3>1, <3>2 DEF Ahead
  <2>5. CASE b = f
    <3>1. frames[a].hop # frames[b].hop
      <4> SUFFICES ASSUME frames[a].hop = frames[b].hop
                   PROVE  FALSE
        OBVIOUS
      <4>1. PICK m \in Stage : At(a, m)
        BY <2>1
      <4>2. m >= 3
        BY <1>1, <2>1, <2>5, <4>1 DEF Ahead, Stage
      <4>3. ~IsLastHop(b)
        BY <1>3, <1>4, <2>5 DEF Placed
      <4>4. CASE m = 3
        <5>1. PICK x \in events : /\ x.task.kind \in {"FORWARD_FRAME", "DELIVERY_COMPLETE"}
                                  /\ x.task.frame = a
          BY <4>1, <4>4 DEF At, Leaving
        <5>2. x.seq < e.seq
          BY <1>3, <2>1, <2>5, <5>1 DEF Ahead, Moves, MoveKind
        <5> QED
          BY <1>3, <1>4, <5>1, <5>2, PoppedIsOldest DEF Ordered, MoveKind
      <4>5. CASE m = 4
        <5>1. IsLastHop(a)
          BY <2>1, <4>1, <4>5 DEF At, Placed
        <5> QED
          BY <2>1, <4>3, <5>1
      <4> QED
        BY <4>2, <4>4, <4>5 DEF Stage
    <3>2. frames'[a].hop >= frames'[b].hop
      BY <1>1, <2>1, <2>5, <3>1
    <3>3. \A m, n \in Stage : At(a, m)' /\ At(b, n)' => m >= n
      <4> SUFFICES ASSUME NEW m \in Stage, NEW n \in Stage, At(a, m)', At(b, n)'
                   PROVE  m >= n
        OBVIOUS
      <4>1. n = 0
        BY <1>1, <2>5, OneStageNext DEF Stage
      <4> QED
        BY <4>1 DEF Stage
    <3>4. \A x, y \in events' :
            /\ Moves(x.task, a) /\ Moves(y.task, b)
            /\ x.task.kind = "ENQUEUE_FRAME" <=> y.task.kind = "ENQUEUE_FRAME"
            => x.seq < y.seq
      <4> SUFFICES ASSUME NEW x \in events', NEW y \in events',
                          Moves(x.task, a), Moves(y.task, b)
                   PROVE  x.seq < y.seq
        OBVIOUS
      <4>1. x \in events
        BY <1>2, <2>1, <2>5
      <4>2. x.seq \in Int /\ x.seq <= 2 * processed + 1
        BY <1>4, <4>1 DEF Ordered, PushedBefore, TypeOK, Event
      <4>3. y = arrival
        <5>1. \A z \in events : Moves(z.task, b) => z = e
          BY <1>3, <1>4, <2>5 DEF Placed
        <5> QED
          BY <1>2, <5>1
      <4> QED
        BY <1>2, <1>4, <4>2, <4>3
    <3> QED
      BY <2>2, <3>2, <3>3, <3>4 DEF Ahead
  <2> QED
    BY <2>3, <2>4, <2>5
<1> QED
  BY <1>1, <1>5, <1>6 DEF Ordered, Earlier, StreamOf

(* A frame is delivered after the earlier ones of its stream. *)
LEMMA DeliveryKeepsOrder ==
  ASSUME FrameInv, Running, Ordered,
         NEW e \in events, NEW f \in DOMAIN frames, HandleDelivery(e, f)
  PROVE  Ordered'
<1>1. /\ Moved(f, 3, 4) /\ DOMAIN frames' = DOMAIN frames
      /\ \A g \in DOMAIN frames : frames'[g].hop = frames[g].hop
      /\ queue' = queue
  BY DeliveryMoves
<1>2. PICK new : /\ events' = (events \ {e}) \cup new
                 /\ \A n \in new : n.task.kind \notin MoveKind /\ n.seq = 2 * processed'
  BY DeliveryMoves
<1>3. Dispatch(e) /\ e.task.kind = "DELIVERY_COMPLETE" /\ Moves(e.task, f)
  BY TaskFields, MoveFields DEF HandleDelivery, Moves, MoveKind
<1>4. /\ TypeOK /\ case' = case /\ \A g \in DOMAIN frames : Placed(g) /\ IsNext(e)
  BY <1>3, DispatchFacts DEF Dispatch, Pops
<1>5. MovesAreNow' /\ PushedBefore'
  BY <1>2, <1>3, PushedLast DEF Ordered
<1>6. \A x \in events' : ~Moves(x.task, f)
  <2>1. ~Arriving(f)' /\ ~Leaving(f)'
    BY <1>1 DEF Moved, At
  <2> QED
    BY <2>1 DEF Arriving, Leaving, Moves, MoveKind
<1>7. ASSUME NEW a \in DOMAIN frames, NEW b \in DOMAIN frames, Earlier(a, b)
      PROVE  Ahead(a, b)'
  <2>1. Ahead(a, b) /\ a # b
    BY <1>7, PairFacts DEF Ordered
  <2>2. \A k \in Link, d \in TrafficClass : Before(queue'[k][d], a, b)
    BY <1>1, <2>1 DEF Ahead
  <2>3. CASE a # f /\ b # f
    <3>1. SameFrame(a) /\ SameFrame(b)
      BY <1>1, <2>3 DEF Moved
    <3> QED
      BY <1>1, <1>4, <2>1, <3>1, AheadStays
  <2>4. CASE a = f
    <3>1. \A m, n \in Stage : At(a, m)' /\ At(b, n)' => m >= n
      <4>1. \A m \in Stage : At(a, m)' => m = 4
        BY <1>1, <2>4, OneStageNext DEF Moved, Stage
      <4> QED
        BY <4>1 DEF Stage
    <3> QED
      BY <1>1, <1>6, <2>1, <2>2, <2>4, <3>1 DEF Ahead
  <2>5. CASE b = f
    <3>1. SameFrame(a) /\ At(b, 3) /\ At(b, 4)'
      BY <1>1, <2>1, <2>5 DEF Moved
    <3>2. frames[a].hop = frames[b].hop => ~At(a, 3)
      <4> SUFFICES ASSUME frames[a].hop = frames[b].hop, At(a, 3)
                   PROVE  FALSE
        OBVIOUS
      <4>1. PICK x \in events : /\ x.task.kind \in {"FORWARD_FRAME", "DELIVERY_COMPLETE"}
                                /\ x.task.frame = a
        BY DEF At, Leaving
      <4>2. x.seq < e.seq
        BY <1>3, <2>1, <2>5, <4>1 DEF Ahead, Moves, MoveKind
      <4> QED
        BY <1>3, <1>4, <4>1, <4>2, PoppedIsOldest DEF Ordered, MoveKind
    <3>3. frames'[a].hop = frames'[b].hop =>
            \A m, n \in Stage : At(a, m)' /\ At(b, n)' => m >= n
      <4> SUFFICES ASSUME frames'[a].hop = frames'[b].hop,
                          NEW m \in Stage, NEW n \in Stage, At(a, m)', At(b, n)'
                   PROVE  m >= n
        OBVIOUS
      <4>1. At(a, m)
        BY <1>4, <3>1, SameFrameSamePlace
      <4>2. m >= 3 /\ m # 3
        BY <1>1, <2>1, <3>1, <3>2, <4>1 DEF Ahead, Stage
      <4> QED
        BY <4>2 DEF Stage
    <3> QED
      BY <1>1, <1>6, <2>1, <2>2, <2>5, <3>3 DEF Ahead
  <2> QED
    BY <2>3, <2>4, <2>5
<1> QED
  BY <1>1, <1>5, <1>7 DEF Ordered, Earlier, StreamOf

(* A new frame is behind all the others of its stream. *)
LEMMA ReleaseKeepsOrder ==
  ASSUME FrameInv, Running, Ordered,
         NEW e \in events, NEW s \in Stream, HandleRelease(e, s)
  PROVE  Ordered'
<1> PICK f : f = <<s, released[s]>>
  OBVIOUS
<1>1. /\ f \in Frame /\ f \notin DOMAIN frames
      /\ At(f, 0)' /\ Placed(f)'
      /\ \A g \in DOMAIN frames : SameFrame(g) /\ frames'[g] = frames[g]
      /\ DOMAIN frames' = DOMAIN frames \cup {f}
      /\ frames'[f].hop = 1
      /\ queue' = queue
      /\ \A l \in Link, c \in TrafficClass : ~Holds(queue[l][c], f)
      /\ \A x \in events : ~Moves(x.task, f)
  BY ReleaseMoves
<1>2. PICK arrival, new : Announces(e, f, arrival, new)
  BY ReleaseMoves
<1>3. Dispatch(e)
  BY DEF HandleRelease
<1>4. /\ TypeOK /\ case' = case /\ \A g \in DOMAIN frames : Placed(g)
      /\ processed \in Nat /\ processed' = processed + 1
  BY <1>3, DispatchFacts
<1>5. MovesAreNow' /\ PushedBefore'
  BY <1>2, <1>3, PushedLast DEF Ordered, Announces
<1>6. ASSUME NEW a \in DOMAIN frames', NEW b \in DOMAIN frames', Earlier(a, b)
      PROVE  Ahead(a, b)'
  <2>1. CASE a \in DOMAIN frames /\ b \in DOMAIN frames
    BY <1>1, <1>4, <1>6, <2>1, AheadStays DEF Ordered
  <2>2. CASE b = f
    <3>1. a \in DOMAIN frames
      <4>1. f[2] \in Nat
        BY <1>1 DEF Frame
      <4> QED
        BY <1>1, <1>6, <2>2, <4>1 DEF Earlier
    <3>2. frames[a].hop \in Nat \ {0}
      BY <1>4, <3>1, PlacedFacts
    <3>3. frames'[a].hop >= frames'[b].hop
      BY <1>1, <2>2, <3>1, <3>2
    <3>4. \A m, n \in Stage : At(a, m)' /\ At(b, n)' => m >= n
      <4>1. \A n \in Stage : At(b, n)' => n = 0
        BY <1>1, <2>2, OneStageNext DEF Stage
      <4> QED
        BY <4>1 DEF Stage
    <3>5. \A k \in Link, d \in TrafficClass : Before(queue'[k][d], a, b)
      BY <1>1, <2>2 DEF Before, Holds
    <3>6. \A x, y \in events' : Moves(x.task, a) /\ Moves(y.task, b) => x.seq < y.seq
      <4> SUFFICES ASSUME NEW x \in events', NEW y \in events',
                          Moves(x.task, a), Moves(y.task, b)
                   PROVE  x.seq < y.seq
        OBVIOUS
      <4>1. x \in events
        BY <1>1, <3>1 DEF SameFrame
      <4>2. x.seq \in Int /\ x.seq <= 2 * processed + 1
        BY <1>4, <4>1 DEF Ordered, PushedBefore, TypeOK, Event
      <4>3. y = arrival
        BY <1>1, <1>2, <2>2 DEF Moves, Announces
      <4> QED
        BY <1>2, <1>4, <4>2, <4>3 DEF Announces
    <3> QED
      BY <3>3, <3>4, <3>5, <3>6 DEF Ahead
  <2>3. CASE a = f /\ b # f
    <3>1. b \in DOMAIN frames /\ StreamOf(b) = s /\ f[2] < b[2]
      BY <1>1, <1>6, <2>3 DEF Earlier, StreamOf
    <3>2. b[2] < released[s] /\ b[2] \in Nat /\ released[s] \in Nat
      BY <1>4, <3>1 DEF FrameInv, FramesAreReleased, TypeOK, Frame
    <3> QED
      BY <3>1, <3>2
  <2> QED
    BY <1>1, <2>1, <2>2, <2>3
<1> QED
  BY <1>5, <1>6 DEF Ordered, Earlier, StreamOf

(* A credit update moves no frame. *)
LEMMA CreditUpdateKeepsOrder ==
  ASSUME FrameInv, Running, Ordered,
         NEW e \in events, NEW l \in Link, NEW c \in Shaped, HandleCreditUpdate(e, l, c)
  PROVE  Ordered'
<1>1. /\ \A g \in DOMAIN frames : SameFrame(g)
      /\ frames' = frames /\ queue' = queue
  BY CreditUpdateMovesNothing
<1>2. PICK new : /\ events' = (events \ {e}) \cup new
                 /\ \A n \in new : n.task.kind \notin MoveKind /\ n.seq = 2 * processed' + 1
  BY CreditUpdateMovesNothing
<1>3. Dispatch(e) /\ case' = case
  BY DispatchFacts DEF HandleCreditUpdate
<1>4. MovesAreNow' /\ PushedBefore'
  BY <1>2, <1>3, PushedLast DEF Ordered
<1>5. \A a, b \in DOMAIN frames : Earlier(a, b) => Ahead(a, b)'
  BY <1>1, <1>3, AheadStays DEF Ordered
<1> QED
  BY <1>1, <1>4, <1>5 DEF Ordered, Earlier, StreamOf

(* Frames that are ahead of one another have not overtaken. *)
LEMMA OrderedMeansNoOvertaking ==
  ASSUME FrameInv, Running, Ordered
  PROVE  NoOvertaking
<1> SUFFICES ASSUME NEW f \in DOMAIN frames, NEW g \in DOMAIN frames, Earlier(f, g)
             PROVE  /\ frames[f].hop >= frames[g].hop
                    /\ frames[g].deliveredAt # None => frames[f].deliveredAt # None
                    /\ \A l \in Link, c \in TrafficClass : \A i, j \in DOMAIN queue[l][c] :
                         queue[l][c][i] = f /\ queue[l][c][j] = g => i < j
  BY DEF NoOvertaking, Earlier
<1>1. /\ Ahead(f, g) /\ Placed(g)
      /\ IsLastHop(g) /\ frames[f].hop >= frames[g].hop => frames[f].hop = frames[g].hop
  BY PairFacts DEF Ordered
<1>2. ASSUME Delivered(g)
      PROVE  Delivered(f)
  <2>1. PICK m \in Stage : At(f, m)
    BY PairFacts
  <2>2. PICK n \in Stage : At(g, n)
    BY PairFacts
  <2>3. n = 4
    BY <1>2, <2>2 DEF At
  <2>4. IsLastHop(g)
    BY <1>1, <1>2 DEF Placed
  <2>5. m >= 4
    BY <1>1, <2>1, <2>2, <2>3, <2>4 DEF Ahead
  <2>6. m = 4
    BY <2>5 DEF Stage
  <2> QED
    BY <2>1, <2>6 DEF At
<1> QED
  BY <1>1, <1>2 DEF Ahead, Before, Delivered

(* Every step of the loop keeps the frames of a stream in order. *)
LEMMA OrderStep ==
  ASSUME FrameInv, OrderInv, [Next]_vars
  PROVE  OrderInv'
<1>1. FrameInv'
  BY FrameStep
<1>2. CASE UNCHANGED vars
  <2>1. UNCHANGED <<case, clock, events, processed, queue, onWire, frames, status>>
    BY <1>2 DEF vars, portVars
  <2>2. \A f \in DOMAIN frames : SameFrame(f)
    BY <2>1 DEF SameFrame
  <2>3. ASSUME Ordered
        PROVE  Ordered'
    <3>1. MovesAreNow' /\ PushedBefore'
      BY <2>1, <2>3 DEF Ordered, MovesAreNow, PushedBefore
    <3>2. \A f, g \in DOMAIN frames : Earlier(f, g) => Ahead(f, g)'
      BY <2>1, <2>2, <2>3, AheadStays DEF Ordered
    <3> QED
      BY <2>1, <3>1, <3>2 DEF Ordered, Earlier, StreamOf
  <2>4. NoOvertaking' /\ (Running' => Running)
    BY <2>1 DEF OrderInv, NoOvertaking, StreamOf, Running
  <2> QED
    BY <2>3, <2>4 DEF OrderInv
<1>3. ASSUME Next, ~Running'
      PROVE  OrderInv'
  <2>1. frames' = frames /\ queue' = queue
    BY <1>3, LeavingKeepsFrames
  <2> QED
    BY <1>3, <2>1 DEF OrderInv, NoOvertaking, StreamOf
<1> SUFFICES ASSUME Next, Running'
             PROVE  Ordered'
  BY <1>1, <1>2, <1>3, OrderedMeansNoOvertaking, PTL DEF OrderInv
<1>4. Running /\ Ordered
  BY StepsRun DEF OrderInv
<1>5. ASSUME NEW e \in events, NEW l \in Link, HandleStart(e, l)
      PROVE  Ordered'
  <2>1. PICK c \in TrafficClass, f \in Frame : Transmits(e, l, c, f)
    BY <1>5, StartChooses
  <2> QED
    BY <1>4, <2>1, StartKeepsOrder
<1> QED
  BY <1>4, <1>5, ReleaseKeepsOrder, EnqueueKeepsOrder, EndKeepsOrder, ForwardKeepsOrder,
     DeliveryKeepsOrder, CreditUpdateKeepsOrder
  DEF Next, Running, HandleFinalize, LeaveLoop, StopBefore, Raise, RunDry, Stop

(* Nothing is in the network when the loop starts. *)
LEMMA OrderInit == Init => OrderInv
<1> SUFFICES ASSUME Init
             PROVE  OrderInv
  OBVIOUS
<1>1. DOMAIN frames = {}
  BY DEF Init
<1>2. MovesAreNow
  BY TaskFields DEF Init, MovesAreNow, MoveKind
<1>3. PushedBefore
  <2>1. case \in Cases /\ processed = 0
    BY DEF Init
  <2>2. Len(case.streams) \in Nat /\ DOMAIN case.streams = 1..Len(case.streams)
    BY <2>1, CaseFacts
  <2>3. \A i \in DOMAIN case.streams : i - Len(case.streams) <= 2 * processed + 1
    BY <2>1, <2>2
  <2> QED
    BY <2>3 DEF Init, PushedBefore
<1> QED
  BY <1>1, <1>2, <1>3 DEF OrderInv, NoOvertaking, Ordered

(* No frame overtakes an earlier one of its stream: on a later hop, at the *)
(* listener or within a queue, whatever the handlers do at one instant.    *)
THEOREM FramesKeepTheirOrder == Spec => []NoOvertaking
<1>1. Init => FrameInv
  BY FrameInit
<1>2. FrameInv /\ [Next]_vars => FrameInv'
  BY FrameStep
<1>3. Init => OrderInv
  BY OrderInit
<1>4. FrameInv /\ OrderInv /\ [Next]_vars => OrderInv'
  BY OrderStep
<1>5. OrderInv => NoOvertaking
  BY DEF OrderInv
<1> QED
  BY <1>1, <1>2, <1>3, <1>4, <1>5, PTL DEF Spec

-----------------------------------------------------------------------------
(* The release chains                                                      *)

(* The pending release of a stream is one the limits allow, or its first;  *)
(* a stream without one has been through all that they allow.              *)
ChainInv(s) ==
  IF Pending(ReleaseFrame(s))
  THEN released[s] > 0 => WithinLimits(released[s], released[s] * case.period[s])
  ELSE released[s] > 0 /\ ~WithinLimits(released[s], released[s] * case.period[s])

(* Frame f was released when its period says, within the limits. *)
ReleasedInTime(f) ==
  /\ frames[f].releasedAt = f[2] * case.period[StreamOf(f)]
  /\ f[2] > 0 => WithinLimits(f[2], frames[f].releasedAt)

ReleaseInv ==
  /\ \A f \in DOMAIN frames : ReleasedInTime(f)
  /\ Running => \A s \in Stream : ChainInv(s)

(* A set of numbers that is not empty has a least one. *)
LEMMA LeastNumber ==
  ASSUME NEW T, T \subseteq Nat, T # {}
  PROVE  \E n \in T : \A m \in T : n <= m
<1>1. \E n \in T : \A m \in T : ~ (<<m, n>> \in OpToRel(<, Nat))
  BY NatLessThanWellFounded, WFMin
<1>2. PICK n \in T : \A m \in T : ~ (<<m, n>> \in OpToRel(<, Nat))
  BY <1>1
<1>3. ASSUME NEW m \in T
      PROVE  n <= m
  <2>1. <<m, n>> \in Nat \X Nat /\ <<m, n>>[1] = m /\ <<m, n>>[2] = n
    OBVIOUS
  <2>2. ~(m < n)
    BY <1>2, <2>1 DEF OpToRel
  <2> QED
    BY <2>2
<1> QED
  BY <1>3

(* integer_hyperperiod returns a whole time, whichever way it takes. *)
LEMMA HyperperiodNat ==
  ASSUME TypeOK
  PROVE  Hyperperiod \in Nat
<1> DEFINE periods == {case.period[s] : s \in Stream}
           common == {n \in 1..case.maxHyperperiod : \A p \in periods : n % p = 0}
<1>1. /\ case.period \in [Stream -> Nat \ {0}] /\ case.maxHyperperiod \in Nat
      /\ case.streams \in Seq(Stream)
  BY CasesAssumption DEF TypeOK, CaseType
<1>2. common \subseteq Nat
  BY <1>1
<1> HIDE DEF common
<1>3. common # {} => (CHOOSE n \in common : \A m \in common : n <= m) \in Nat
  BY <1>2, LeastNumber
<1>4. Len(case.streams) = 1 => case.period[case.streams[1]] \in Nat
  BY <1>1
<1> QED
  BY <1>1, <1>3, <1>4 DEF Hyperperiod, common

(* A case that releases one stream has no other. *)
LEMMA OneStreamAlone ==
  ASSUME case \in Cases
  PROVE  /\ case.streams \in Seq(Stream)
         /\ Len(case.streams) = 1 => Stream = {case.streams[1]}
         /\ (\A r, s \in Stream : r = s) /\ Len(case.streams) # 1 => Stream = {}
<1>1. case \in CaseType /\ WellFormed(case)
  BY CasesAssumption
<1>2. case.streams \in Seq(Stream) /\ DOMAIN case.streams = 1 .. Len(case.streams)
  BY <1>1 DEF CaseType
<1>3. \A s \in Stream : \E i \in DOMAIN case.streams : case.streams[i] = s
  BY <1>1 DEF WellFormed
<1>4. \A i, j \in DOMAIN case.streams : case.streams[i] = case.streams[j] => i = j
  BY <1>1 DEF WellFormed
<1>5. Len(case.streams) = 1 => Stream = {case.streams[1]}
  <2>1. SUFFICES ASSUME Len(case.streams) = 1
                 PROVE  Stream = {case.streams[1]}
    OBVIOUS
  <2>2. DOMAIN case.streams = {1}
    BY <1>2, <2>1
  <2>3. case.streams[1] \in Stream
    BY <1>2, <2>2
  <2> QED
    BY <1>3, <2>2, <2>3
<1>6. ASSUME \A r, s \in Stream : r = s, Stream # {}
      PROVE  Len(case.streams) = 1
  <2>1. \A i \in DOMAIN case.streams : case.streams[i] \in Stream
    BY <1>2
  <2>2. \A i, j \in DOMAIN case.streams : i = j
    BY <1>4, <1>6, <2>1
  <2>3. DOMAIN case.streams # {}
    BY <1>3, <1>6
  <2>4. Len(case.streams) \in Nat
    BY <1>2
  <2>5. Len(case.streams) >= 1
    BY <1>2, <2>3, <2>4
  <2>6. 1 \in DOMAIN case.streams /\ Len(case.streams) \in DOMAIN case.streams
    BY <1>2, <2>4, <2>5
  <2> QED
    BY <2>2, <2>6
<1> QED
  BY <1>2, <1>5, <1>6

(* The first multiple of a period is the period. *)
LEMMA FirstMultiple ==
  ASSUME NEW p \in Nat \ {0}, NEW t \in Nat
  PROVE  t < p <=> \A n \in 1 .. t : n % p # 0
<1>1. \A n \in 1 .. t : t < p => n % p = n
  BY SMT
<1>2. p % p = 0
  BY SMT
<1> QED
  BY <1>1, <1>2

(* The hyperperiod ends where all streams release together again, or at    *)
(* its cap: what integer_hyperperiod computes is what it is for.           *)
LEMMA HyperperiodMeaning ==
  ASSUME TypeOK, NEW t \in Nat, Stream # {}
  PROVE  t < Hyperperiod <=> InFirstHyperperiod(t)
<1> DEFINE periods == {case.period[s] : s \in Stream}
           common == {n \in 1..case.maxHyperperiod : \A p \in periods : n % p = 0}
           least == CHOOSE n \in common : \A m \in common : n <= m
           together(n) == \A s \in Stream : n % case.period[s] = 0
<1>1. /\ case \in Cases /\ case.period \in [Stream -> Nat \ {0}]
      /\ case.maxHyperperiod \in Nat
  BY CasesAssumption DEF TypeOK, CaseType
<1>2. \A n : n \in common <=> n \in 1..case.maxHyperperiod /\ together(n)
  BY DEF common
<1>3. InFirstHyperperiod(t) <=>
        /\ \A n \in 1 .. t : ~together(n)
        /\ (\E r, s \in Stream : r # s) => t < case.maxHyperperiod
  BY DEF InFirstHyperperiod
<1>4. CASE Len(case.streams) = 1
  <2>1. PICK s \in Stream : Stream = {s} /\ s = case.streams[1]
    BY <1>1, <1>4, OneStreamAlone
  <2>2. Hyperperiod = case.period[s]
    BY <1>4, <2>1 DEF Hyperperiod
  <2>3. case.period[s] \in Nat \ {0}
    BY <1>1
  <2>4. t < case.period[s] <=> \A n \in 1 .. t : n % case.period[s] # 0
    BY <2>3, FirstMultiple
  <2>5. \A n : together(n) <=> n % case.period[s] = 0
    BY <2>1
  <2> HIDE DEF together
  <2> QED
    BY <1>3, <2>1, <2>2, <2>4, <2>5
<1>5. CASE Len(case.streams) # 1
  <2>1. \E r, s \in Stream : r # s
    BY <1>1, <1>5, OneStreamAlone
  <2>2. Hyperperiod = IF common = {} THEN case.maxHyperperiod ELSE least
    BY <1>5 DEF Hyperperiod
  <2>3. common \subseteq Nat
    BY <1>1
  <2> HIDE DEF common, together
  <2>4. CASE common = {}
    <3>1. t < case.maxHyperperiod => \A n \in 1 .. t : ~together(n)
      BY <1>1, <1>2, <2>4
    <3> QED
      BY <1>3, <2>1, <2>2, <2>4, <3>1
  <2>5. CASE common # {}
    <3>1. least \in common /\ \A m \in common : least <= m
      BY <2>3, <2>5, LeastNumber
    <3> HIDE DEF least
    <3>2. least \in 1 .. case.maxHyperperiod /\ together(least)
      BY <1>2, <3>1
    <3>3. ASSUME t < least
          PROVE  InFirstHyperperiod(t)
      <4>1. ASSUME NEW n \in 1 .. t
            PROVE  ~together(n)
        <5>1. n \in 1 .. case.maxHyperperiod /\ n < least
          BY <1>1, <3>2, <3>3
        <5> QED
          BY <1>1, <1>2, <3>1, <3>2, <5>1
      <4> QED
        BY <1>1, <1>3, <3>2, <3>3, <4>1
    <3>4. ASSUME ~(t < least)
          PROVE  ~InFirstHyperperiod(t)
      BY <1>1, <1>3, <3>2, <3>4
    <3> QED
      BY <2>2, <2>5, <3>3, <3>4
  <2> QED
    BY <2>4, <2>5
<1> QED
  BY <1>4, <1>5

(* can_schedule_release lets a release be scheduled exactly when the       *)
(* horizon and the limits allow it.                                        *)
LEMMA ScheduledWithinLimits ==
  ASSUME TypeOK, NEW n \in Nat, NEW t \in Nat, Stream # {}
  PROVE  CanScheduleRelease(n, t) <=> WithinLimits(n, t)
<1>1. Hyperperiod \in Nat
  BY HyperperiodNat
<1>2. case.timeLimit \in Nat \cup {None}
  BY CaseFacts DEF TypeOK
<1>3. t < Hyperperiod <=> InFirstHyperperiod(t)
  BY HyperperiodMeaning
<1> HIDE DEF Hyperperiod
<1> QED
  BY <1>1, <1>2, <1>3, NoneAssumption
     DEF CanScheduleRelease, ReleaseHorizon, WithinLimits

(* The tasks that neither the scheduler nor a frame's way pushes. *)
OwnKind == {"RELEASE_FRAME", "FINALIZE_RUN"}

(* The step neither drops nor pushes a task of these kinds. *)
KeepsTasks(kinds) == \A x : x.task.kind \in kinds => (x \in events' <=> x \in events)

(* The step adds nothing to what was released and pushes no release. *)
KeepsReleases ==
  /\ case' = case /\ released' = released
  /\ DOMAIN frames' = DOMAIN frames
  /\ \A f \in DOMAIN frames : frames'[f].releasedAt = frames[f].releasedAt
  /\ KeepsTasks({"RELEASE_FRAME"})

(* The step delivers nothing and requests no finalization. *)
KeepsDeliveries ==
  /\ UNCHANGED <<completed, delivered, stopReason, status>>
  /\ \A f \in DOMAIN frames : frames'[f].deliveredAt = frames[f].deliveredAt
  /\ KeepsTasks({"FINALIZE_RUN"})

(* The step of e, which pushes new, drops and pushes none of these tasks. *)
LEMMA NonePushed ==
  ASSUME NEW e, NEW new, Push(e, new), NEW kinds, e.task.kind \notin kinds,
         \A n \in new : n.task.kind \notin kinds
  PROVE  KeepsTasks(kinds)
BY DEF Push, KeepsTasks

(* The scheduler pushes none of them besides what its handler pushes. *)
LEMMA SchedulerPushesNone ==
  ASSUME NEW e, NEW l, NEW cr, NEW starts, NEW wakes, NEW pushed,
         ScheduleNextTransmission(e, l, cr, starts, wakes, pushed),
         e.task.kind \notin OwnKind, \A n \in pushed : n.task.kind \notin OwnKind
  PROVE  KeepsTasks(OwnKind)
<1>1. PICK new : /\ events' = (events \ {e}) \cup (pushed \cup new)
                 /\ \A n \in new :
                      /\ n.task.kind \in {"TRANSMISSION_START", "CREDIT_UPDATE"}
                      /\ n.seq = 2 * processed' + 1
  BY SchedulerMovesNothing
<1> QED
  BY <1>1 DEF KeepsTasks, OwnKind

(* Frames are released only by process_release_frame and counted as        *)
(* delivered only by process_delivery_complete.                            *)
LEMMA OthersKeepCounts ==
  ASSUME TypeOK, NEW e \in events,
         \/ \E f \in DOMAIN frames, l \in Link : HandleEnqueue(e, f, l)
         \/ \E l \in Link : HandleStart(e, l)
         \/ \E f \in DOMAIN frames, l \in Link : HandleEnd(e, l, f)
         \/ \E f \in DOMAIN frames : HandleForward(e, f)
         \/ \E l \in Link, c \in Shaped : HandleCreditUpdate(e, l, c)
  PROVE  KeepsReleases /\ KeepsDeliveries
<1> DEFINE Keeps == /\ e.task.kind \notin OwnKind
                    /\ Dispatch(e)
                    /\ UNCHANGED <<streamVars, stopReason, status>>
                    /\ DOMAIN frames' = DOMAIN frames
                    /\ \A f \in DOMAIN frames :
                         /\ frames'[f].releasedAt = frames[f].releasedAt
                         /\ frames'[f].deliveredAt = frames[f].deliveredAt
<1>1. \A f \in DOMAIN frames : frames[f] \in FrameState
  BY FrameFacts
<1>2. Keeps /\ KeepsTasks(OwnKind) => KeepsReleases /\ KeepsDeliveries
  BY DEF KeepsReleases, KeepsDeliveries, KeepsTasks, OwnKind, Dispatch, streamVars
<1>3. ASSUME NEW f \in DOMAIN frames, NEW l \in Link, HandleEnqueue(e, f, l)
      PROVE  Keeps /\ KeepsTasks(OwnKind)
  <2>1. /\ Dispatch(e) /\ e.task = EnqueueFrame(f, l)
        /\ ScheduleNextTransmission(e, l, SyncedCredit(l, WireClass(l)), startAt, wakeAt, {})
        /\ frames' = [frames EXCEPT ![f].enqueuedAt = clock']
        /\ UNCHANGED <<streamVars, stopReason, status>>
    BY <1>3 DEF HandleEnqueue
  <2>2. Keeps
    BY <1>1, <2>1, TaskFields DEF FrameState, OwnKind
  <2> QED
    BY <2>1, <2>2, SchedulerPushesNone
<1>4. ASSUME NEW l \in Link, HandleStart(e, l)
      PROVE  Keeps /\ KeepsTasks(OwnKind)
  <2>1. Keeps
    BY <1>4, TaskFields DEF HandleStart, OwnKind
  <2>2. \/ Push(e, {})
        \/ ScheduleNextTransmission(e, l, SyncedCredit(l, NoClass),
                                    [startAt EXCEPT ![l] = None], wakeAt, {})
        \/ \E at, f : Push(e, {Scheduled(at, 0, TransmissionEnd(l, f))})
    BY <1>4 DEF HandleStart
  <2>3. \A at, f : Scheduled(at, 0, TransmissionEnd(l, f)).task.kind \notin OwnKind
    BY ScheduledFields, TaskFields DEF OwnKind
  <2>4. ASSUME NEW at, NEW f, Push(e, {Scheduled(at, 0, TransmissionEnd(l, f))})
        PROVE  KeepsTasks(OwnKind)
    BY <2>1, <2>3, <2>4, NonePushed
  <2>5. Push(e, {}) => KeepsTasks(OwnKind)
    BY <2>1, NonePushed
  <2>6. ScheduleNextTransmission(e, l, SyncedCredit(l, NoClass),
                                 [startAt EXCEPT ![l] = None], wakeAt, {})
        => KeepsTasks(OwnKind)
    BY <2>1, SchedulerPushesNone
  <2> QED
    BY <2>1, <2>2, <2>4, <2>5, <2>6
<1>5. ASSUME NEW f \in DOMAIN frames, NEW l \in Link, HandleEnd(e, l, f)
      PROVE  Keeps /\ KeepsTasks(OwnKind)
  <2> DEFINE arrival == Scheduled(clock', 0, IF IsLastHop(f) THEN DeliveryComplete(f)
                                                             ELSE ForwardFrame(f))
             freed == SynchronizedCredit(SyncedCredit(l, WireClass(l)), 0,
                                         case.slopes, queue'[l], NoClass)
  <2>1. Keeps /\ ScheduleNextTransmission(e, l, freed, startAt, wakeAt, {arrival})
    BY <1>5, TaskFields DEF HandleEnd, OwnKind
  <2>2. arrival.task.kind \notin OwnKind
    BY ScheduledFields, TaskFields DEF OwnKind
  <2> HIDE DEF arrival, freed
  <2> QED
    BY <2>1, <2>2, SchedulerPushesNone
<1>6. ASSUME NEW f \in DOMAIN frames, HandleForward(e, f)
      PROVE  Keeps /\ KeepsTasks(OwnKind)
  <2> DEFINE arrival == Scheduled(clock', 0, EnqueueFrame(f, RouteOf(f)[frames[f].hop + 1]))
  <2>1. /\ Dispatch(e) /\ e.task = ForwardFrame(f)
        /\ frames' = [frames EXCEPT ![f].hop = @ + 1]
        /\ UNCHANGED <<streamVars, stopReason, status>>
        /\ Push(e, {arrival})
    BY <1>6 DEF HandleForward
  <2>2. arrival.task.kind \notin OwnKind
    BY ScheduledFields, TaskFields DEF OwnKind
  <2> HIDE DEF arrival
  <2>3. Keeps
    BY <1>1, <2>1, TaskFields DEF FrameState, OwnKind
  <2> QED
    BY <2>1, <2>2, <2>3, NonePushed
<1>7. ASSUME NEW l \in Link, NEW c \in Shaped, HandleCreditUpdate(e, l, c)
      PROVE  Keeps /\ KeepsTasks(OwnKind)
  <2>1. /\ Keeps
        /\ ScheduleNextTransmission(e, l, SyncedCredit(l, WireClass(l)), startAt,
                                    [wakeAt EXCEPT ![l][c] = None], {})
    BY <1>7, TaskFields DEF HandleCreditUpdate, OwnKind
  <2> QED
    BY <2>1, SchedulerPushesNone
<1> QED
  BY <1>2, <1>3, <1>4, <1>5, <1>6, <1>7

(* A delivery releases nothing. *)
LEMMA DeliveryKeepsReleases ==
  ASSUME TypeOK, NEW e \in events, NEW f \in DOMAIN frames, HandleDelivery(e, f)
  PROVE  KeepsReleases
<1> DEFINE final == Scheduled(clock', 0, FinalizeRun)
<1>1. /\ Dispatch(e) /\ e.task = DeliveryComplete(f)
      /\ frames' = [frames EXCEPT ![f].deliveredAt = clock']
      /\ released' = released
      /\ Push(e, {final}) \/ Push(e, {})
  BY DEF HandleDelivery
<1>2. final.task.kind \notin {"RELEASE_FRAME"} /\ e.task.kind \notin {"RELEASE_FRAME"}
  BY <1>1, ScheduledFields, TaskFields
<1> HIDE DEF final
<1>3. \A g \in DOMAIN frames : frames'[g].releasedAt = frames[g].releasedAt
  BY <1>1, FrameFacts DEF FrameState
<1>4. KeepsTasks({"RELEASE_FRAME"})
  BY <1>1, <1>2, NonePushed
<1> QED
  BY <1>1, <1>3, <1>4 DEF KeepsReleases, Dispatch

(* Whether the limits allow a release depends on nothing a step changes. *)
LEMMA LimitsStand ==
  ASSUME case' = case, NEW n, NEW t
  PROVE  WithinLimits(n, t)' <=> WithinLimits(n, t)
BY DEF WithinLimits, InFirstHyperperiod

(* A release that is handled continues its chain, or ends it at a limit. *)
LEMMA ReleaseKeepsChains ==
  ASSUME FrameInv, ReleaseInv, NEW e \in events, NEW s \in Stream, HandleRelease(e, s)
  PROVE  ReleaseInv'
<1> PICK f : f = <<s, released[s]>>
  OBVIOUS
<1> PICK next : next = (released[s] + 1) * case.period[s]
  OBVIOUS
<1> DEFINE arrival == Scheduled(clock', 0, EnqueueFrame(f, case.route[s][1]))
           again == Scheduled(next, 1, ReleaseFrame(s))
<1>1. /\ Dispatch(e) /\ e.task = ReleaseFrame(s)
      /\ released' = [released EXCEPT ![s] = @ + 1]
      /\ Push(e, {arrival} \cup (IF CanScheduleRelease(released[s] + 1, next)
                                 THEN {again} ELSE {}))
  BY DEF HandleRelease
<1>2. /\ TypeOK /\ Running /\ case' = case /\ ReleaseInTime(s) /\ clock' = e.at
  BY <1>1, DispatchFacts
<1>3. /\ released[s] \in Nat /\ case.period[s] \in Nat /\ next \in Nat
      /\ released'[s] = released[s] + 1 /\ released'[s] > 0
      /\ \A r \in Stream : r # s => released'[r] = released[r]
  BY <1>1, <1>2, CaseFacts DEF TypeOK
<1>4. /\ arrival.task.kind = "ENQUEUE_FRAME" /\ again.task = ReleaseFrame(s)
      /\ ReleaseFrame(s).kind = "RELEASE_FRAME"
  BY ScheduledFields, TaskFields
<1> HIDE DEF arrival, again
<1>5. /\ DOMAIN frames' = DOMAIN frames \cup {f}
      /\ f \notin DOMAIN frames /\ StreamOf(f) = s /\ f[2] = released[s]
      /\ frames'[f].releasedAt = clock'
      /\ \A g \in DOMAIN frames : frames'[g] = frames[g]
  BY ReleaseMoves
<1>6. clock' = released[s] * case.period[s]
  BY <1>1, <1>2 DEF ReleaseInTime
<1>7. released[s] > 0 => WithinLimits(released[s], released[s] * case.period[s])
  <2>1. Pending(ReleaseFrame(s))
    BY <1>1 DEF Pending
  <2> QED
    BY <1>2, <2>1 DEF ReleaseInv, ChainInv
<1>8. ReleasedInTime(f)'
  BY <1>2, <1>5, <1>6, <1>7, LimitsStand DEF ReleasedInTime, StreamOf
<1>9. ASSUME NEW g \in DOMAIN frames
      PROVE  ReleasedInTime(g)'
  <2>1. ReleasedInTime(g)
    BY DEF ReleaseInv
  <2> QED
    BY <1>2, <1>5, <2>1, LimitsStand DEF ReleasedInTime, StreamOf
<1>10. ChainInv(s)'
  <2>1. CanScheduleRelease(released'[s], next) <=> WithinLimits(released'[s], next)
    <3>1. released'[s] \in Nat
      BY <1>3
    <3> QED
      BY <1>2, <1>3, <3>1, ScheduledWithinLimits
  <2>2. Pending(ReleaseFrame(s))' <=> CanScheduleRelease(released'[s], next)
    <3>1. \A x \in events : x.task = ReleaseFrame(s) => x = e
      BY <1>1, <1>2 DEF ReleaseInTime, PendingOnce
    <3>2. arrival.task # ReleaseFrame(s)
      BY <1>4
    <3> QED
      BY <1>1, <1>3, <1>4, <3>1, <3>2 DEF Push, Pending
  <2>3. released'[s] * case'.period[s] = next
    BY <1>2, <1>3
  <2> QED
    BY <1>2, <1>3, <2>1, <2>2, <2>3, LimitsStand DEF ChainInv
<1>11. ASSUME NEW r \in Stream, r # s
       PROVE  ChainInv(r)'
  <2>1. Pending(ReleaseFrame(r))' <=> Pending(ReleaseFrame(r))
    <3>1. ReleaseFrame(r) # ReleaseFrame(s) /\ ReleaseFrame(r).kind = "RELEASE_FRAME"
      BY <1>11, TaskFields
    <3> QED
      BY <1>1, <1>4, <3>1 DEF Push, Pending
  <2>2. ChainInv(r)
    BY <1>2 DEF ReleaseInv
  <2> QED
    BY <1>2, <1>3, <1>11, <2>1, <2>2, LimitsStand DEF ChainInv
<1> QED
  BY <1>5, <1>8, <1>9, <1>10, <1>11 DEF ReleaseInv

(* Every step of the loop keeps the release chains. *)
LEMMA ReleaseStep ==
  ASSUME FrameInv, ReleaseInv, [Next]_vars
  PROVE  ReleaseInv'
<1>1. ASSUME KeepsReleases, Running' => Running
      PROVE  ReleaseInv'
  <2>1. ASSUME NEW f \in DOMAIN frames
        PROVE  ReleasedInTime(f)'
    BY <1>1, LimitsStand DEF ReleaseInv, ReleasedInTime, KeepsReleases, StreamOf
  <2>2. ASSUME Running', NEW s \in Stream
        PROVE  ChainInv(s)'
    <3>1. Pending(ReleaseFrame(s))' <=> Pending(ReleaseFrame(s))
      BY <1>1, TaskFields DEF KeepsReleases, KeepsTasks, Pending
    <3> QED
      BY <1>1, <2>2, <3>1, LimitsStand DEF ReleaseInv, ChainInv, KeepsReleases
  <2> QED
    BY <1>1, <2>1, <2>2 DEF ReleaseInv, KeepsReleases
<1>2. CASE UNCHANGED vars
  BY <1>1, <1>2 DEF KeepsReleases, KeepsTasks, vars, streamVars, Running
<1>3. ASSUME Next, ~Running'
      PROVE  ReleaseInv'
  <2>1. case' = case /\ frames' = frames
    BY <1>3, LeavingKeepsFrames
  <2>2. \A f \in DOMAIN frames : ReleasedInTime(f)'
    BY <2>1, LimitsStand DEF ReleaseInv, ReleasedInTime, StreamOf
  <2> QED
    BY <1>3, <2>1, <2>2 DEF ReleaseInv
<1> SUFFICES ASSUME Next, Running'
             PROVE  ReleaseInv'
  BY <1>2, <1>3
<1>4. Running /\ TypeOK
  BY StepsRun DEF FrameInv, EngineInv
<1>5. ASSUME NEW e \in events, NEW s \in Stream, HandleRelease(e, s)
      PROVE  ReleaseInv'
  BY <1>5, ReleaseKeepsChains
<1>6. ASSUME NEW e \in events,
             \/ \E f \in DOMAIN frames, l \in Link : HandleEnqueue(e, f, l)
             \/ \E l \in Link : HandleStart(e, l)
             \/ \E f \in DOMAIN frames, l \in Link : HandleEnd(e, l, f)
             \/ \E f \in DOMAIN frames : HandleForward(e, f)
             \/ \E f \in DOMAIN frames : HandleDelivery(e, f)
             \/ \E l \in Link, c \in Shaped : HandleCreditUpdate(e, l, c)
      PROVE  ReleaseInv'
  BY <1>1, <1>4, <1>6, OthersKeepCounts, DeliveryKeepsReleases
<1> QED
  BY <1>5, <1>6
  DEF Next, Running, HandleFinalize, LeaveLoop, StopBefore, Raise, RunDry, Stop

(* The first release of every stream is pending when the loop starts. *)
LEMMA ReleaseInit ==
  ASSUME Init
  PROVE  ReleaseInv
<1>1. DOMAIN frames = {} /\ \A s \in Stream : released[s] = 0
  BY DEF Init
<1>2. ASSUME NEW s \in Stream
      PROVE  Pending(ReleaseFrame(s))
  <2>1. WellFormed(case)
    BY CaseFacts DEF Init
  <2>2. PICK i \in DOMAIN case.streams : case.streams[i] = s
    BY <2>1 DEF WellFormed
  <2> DEFINE first == [at |-> 0, seq |-> i - Len(case.streams), task |-> ReleaseFrame(s)]
  <2>3. first \in events
    BY <2>2 DEF Init
  <2> QED
    BY <2>3 DEF Pending
<1> QED
  BY <1>1, <1>2 DEF ReleaseInv, ChainInv

(* Every frame is released strictly periodically and within the horizon    *)
(* and the limits (the first of a stream is not checked against them), and *)
(* no chain of release events breaks off before they end it.               *)
THEOREM ReleasesFollowTheirPeriod == Spec => []ReleasesOnSchedule
<1>1. Init => FrameInv /\ ReleaseInv
  BY FrameInit, ReleaseInit
<1>2. FrameInv /\ [Next]_vars => FrameInv'
  BY FrameStep
<1>3. FrameInv /\ ReleaseInv /\ [Next]_vars => ReleaseInv'
  BY ReleaseStep
<1>4. FrameInv /\ ReleaseInv => ReleasesOnSchedule
  <2> SUFFICES ASSUME FrameInv, ReleaseInv
               PROVE  ReleasesOnSchedule
    OBVIOUS
  <2>1. ASSUME Running, NEW s \in Stream
        PROVE  \/ \E e \in events : e.task = ReleaseFrame(s) /\ e.at = released[s] * case.period[s]
               \/ released[s] > 0 /\ ~WithinLimits(released[s], released[s] * case.period[s])
    <3>1. ReleaseInTime(s) /\ ChainInv(s)
      BY <2>1 DEF FrameInv, EngineInv, ReleaseInv
    <3> QED
      BY <3>1 DEF ReleaseInTime, ChainInv, Pending
  <2> QED
    BY <2>1 DEF ReleasesOnSchedule, ReleaseInv, ReleasedInTime
<1> QED
  BY <1>1, <1>2, <1>3, <1>4, PTL DEF Spec

-----------------------------------------------------------------------------
(* The counters                                                            *)

FramesOf(s) == {f \in DOMAIN frames : StreamOf(f) = s}
SeenOf(s) == {f \in DOMAIN frames : StreamOf(f) = s /\ frames[f].deliveredAt # None}
Seen == {f \in DOMAIN frames : frames[f].deliveredAt # None}

(* The counters of a stream count its frames. *)
CountsOf(s) ==
  /\ IsFiniteSet(FramesOf(s)) /\ Cardinality(FramesOf(s)) = released[s]
  /\ IsFiniteSet(SeenOf(s)) /\ Cardinality(SeenOf(s)) = completed[s]

CountInv ==
  /\ \A s \in Stream : CountsOf(s)
  /\ IsFiniteSet(Seen) /\ Cardinality(Seen) = delivered

(* Until the loop leaves, the only reason to stop is that the target has   *)
(* been reached, which is what the request to finalize says too; and the   *)
(* time limit has not been passed.                                         *)
StopInv ==
  /\ stopReason = "delivery_target_reached" => TargetDeliveriesReached(delivered, completed)
  /\ Running =>
       /\ stopReason \in {None, "delivery_target_reached"}
       /\ Pending(FinalizeRun) => stopReason = "delivery_target_reached"
       /\ case.timeLimit # None => clock <= case.timeLimit

(* The other reasons a result gives are true. *)
ReasonInv ==
  /\ stopReason = "event_queue_empty" => events = {}
  /\ stopReason = "max_events_reached" => processed >= case.maxEvents
  /\ stopReason = "time_limit_reached" =>
       clock = case.timeLimit /\ \A e \in events : e.at >= clock

(* What holds of the loop while it runs, and of its result. *)
EndInv ==
  /\ FrameInv /\ NoLostWakeup
  /\ CountInv /\ StopInv /\ ReasonInv
  /\ DrainedMeansDelivered

(* A released frame is counted. *)
LEMMA ReleaseCounts ==
  ASSUME FrameInv, CountInv, NEW e \in events, NEW s \in Stream, HandleRelease(e, s)
  PROVE  CountInv'
<1> PICK f : f = <<s, released[s]>>
  OBVIOUS
<1>1. /\ released' = [released EXCEPT ![s] = @ + 1]
      /\ completed' = completed /\ delivered' = delivered
  BY DEF HandleRelease
<1>2. /\ DOMAIN frames' = DOMAIN frames \cup {f}
      /\ f \notin DOMAIN frames /\ StreamOf(f) = s
      /\ frames'[f].deliveredAt = None
      /\ \A g \in DOMAIN frames : frames'[g] = frames[g]
  BY ReleaseMoves
<1>3. TypeOK
  BY DEF FrameInv, EngineInv
<1>4. /\ Seen' = Seen
      /\ \A r : SeenOf(r)' = SeenOf(r)
  BY <1>2 DEF Seen, SeenOf, StreamOf
<1>5. /\ FramesOf(s)' = FramesOf(s) \cup {f} /\ f \notin FramesOf(s)
      /\ \A r : r # s => FramesOf(r)' = FramesOf(r)
  BY <1>2 DEF FramesOf, StreamOf
<1>6. /\ IsFiniteSet(FramesOf(s)')
      /\ Cardinality(FramesOf(s)') = Cardinality(FramesOf(s)) + 1
  BY <1>5, FS_AddElement DEF CountInv, CountsOf
<1>7. \A r \in Stream : released'[r] = IF r = s THEN released[s] + 1 ELSE released[r]
  BY <1>1, <1>3 DEF TypeOK
<1>8. ASSUME NEW r \in Stream
      PROVE  CountsOf(r)'
  BY <1>1, <1>4, <1>5, <1>6, <1>7 DEF CountInv, CountsOf
<1> QED
  BY <1>1, <1>4, <1>8 DEF CountInv

(* A delivered frame is counted, once. *)
LEMMA DeliveryCounts ==
  ASSUME FrameInv, CountInv, NEW e \in events, NEW f \in DOMAIN frames, HandleDelivery(e, f)
  PROVE  CountInv'
<1> DEFINE s == StreamOf(f)
<1>1. /\ Dispatch(e)
      /\ frames' = [frames EXCEPT ![f].deliveredAt = clock']
      /\ released' = released
      /\ completed' = [completed EXCEPT ![s] = @ + 1]
      /\ delivered' = delivered + 1
  BY DEF HandleDelivery
<1>2. TypeOK /\ clock' \in Nat /\ s \in Stream
  BY <1>1, DispatchFacts, FrameFacts
<1>3. /\ DOMAIN frames' = DOMAIN frames
      /\ frames[f].deliveredAt = None
      /\ \A g \in DOMAIN frames : g # f => frames'[g].deliveredAt = frames[g].deliveredAt
  BY DeliveryMoves DEF Moved, At, Delivered
<1>4. frames'[f].deliveredAt # None
  <2>1. frames[f] \in FrameState /\ clock' # None
    BY <1>2, FrameFacts, NoneAssumption
  <2> QED
    BY <1>1, <2>1 DEF FrameState
<1>5. /\ Seen' = Seen \cup {f} /\ f \notin Seen
      /\ SeenOf(s)' = SeenOf(s) \cup {f} /\ f \notin SeenOf(s)
      /\ \A r : r # s => SeenOf(r)' = SeenOf(r)
      /\ \A r : FramesOf(r)' = FramesOf(r)
  BY <1>3, <1>4 DEF Seen, SeenOf, FramesOf, StreamOf
<1>6. /\ IsFiniteSet(Seen') /\ Cardinality(Seen') = Cardinality(Seen) + 1
      /\ IsFiniteSet(SeenOf(s)') /\ Cardinality(SeenOf(s)') = Cardinality(SeenOf(s)) + 1
  BY <1>2, <1>5, FS_AddElement DEF CountInv, CountsOf
<1>7. \A r \in Stream : completed'[r] = IF r = s THEN completed[s] + 1 ELSE completed[r]
  BY <1>1, <1>2 DEF TypeOK
<1> HIDE DEF s
<1>8. ASSUME NEW r \in Stream
      PROVE  CountsOf(r)'
  BY <1>1, <1>5, <1>6, <1>7 DEF CountInv, CountsOf
<1> QED
  BY <1>1, <1>6, <1>8 DEF CountInv

(* A step that neither releases nor delivers leaves the counters true. *)
LEMMA OthersCount ==
  ASSUME CountInv, KeepsReleases, KeepsDeliveries
  PROVE  CountInv'
<1>1. /\ Seen' = Seen
      /\ \A r : SeenOf(r)' = SeenOf(r)
      /\ \A r : FramesOf(r)' = FramesOf(r)
  BY DEF Seen, SeenOf, FramesOf, StreamOf, KeepsReleases, KeepsDeliveries
<1>2. released' = released /\ completed' = completed /\ delivered' = delivered
  BY DEF KeepsReleases, KeepsDeliveries
<1> QED
  BY <1>1, <1>2 DEF CountInv, CountsOf

-----------------------------------------------------------------------------
(* The end of a run                                                        *)

(* The target is judged by the counters alone. *)
LEMMA TargetStands ==
  ASSUME case' = case, delivered' = delivered, completed' = completed
  PROVE  TargetDeliveriesReached(delivered, completed)'
           <=> TargetDeliveriesReached(delivered, completed)
BY DEF TargetDeliveriesReached

(* A step of the loop that delivers nothing says nothing new about why to  *)
(* stop, and passes no time limit.                                         *)
LEMMA LoopKeepsStop ==
  ASSUME TypeOK, Running, StopInv, NEW e, Dispatch(e),
         UNCHANGED <<completed, delivered, stopReason>>, KeepsTasks({"FINALIZE_RUN"})
  PROVE  StopInv'
<1>1. case' = case /\ clock' = e.at /\ (case.timeLimit # None => ~(e.at > case.timeLimit))
      /\ e \in events
  BY DEF Dispatch, Pops, BeyondTimeLimit, IsNext
<1>2. e.at \in Nat /\ case.timeLimit \in Nat \cup {None}
  BY <1>1, CaseFacts DEF TypeOK, Event
<1>3. case.timeLimit # None => clock' <= case.timeLimit
  BY <1>1, <1>2
<1>4. Pending(FinalizeRun)' => Pending(FinalizeRun)
  BY TaskFields DEF KeepsTasks, Pending
<1>5. TargetDeliveriesReached(delivered, completed)'
        <=> TargetDeliveriesReached(delivered, completed)
  BY <1>1, TargetStands
<1> QED
  BY <1>1, <1>3, <1>4, <1>5 DEF StopInv

(* A release requests no finalization. *)
LEMMA ReleaseKeepsStop ==
  ASSUME TypeOK, Running, StopInv, NEW e \in events, NEW s \in Stream, HandleRelease(e, s)
  PROVE  StopInv'
<1> PICK f : f = <<s, released[s]>>
  OBVIOUS
<1> PICK next : next = (released[s] + 1) * case.period[s]
  OBVIOUS
<1> DEFINE arrival == Scheduled(clock', 0, EnqueueFrame(f, case.route[s][1]))
           again == Scheduled(next, 1, ReleaseFrame(s))
           new == {arrival} \cup (IF CanScheduleRelease(released[s] + 1, next)
                                  THEN {again} ELSE {})
<1>1. /\ Dispatch(e) /\ e.task = ReleaseFrame(s)
      /\ UNCHANGED <<completed, delivered, stopReason>>
      /\ Push(e, new)
  BY DEF HandleRelease
<1>2. arrival.task.kind = "ENQUEUE_FRAME" /\ again.task.kind = "RELEASE_FRAME"
  BY ScheduledFields, TaskFields
<1>3. \A n \in new : n.task.kind \notin {"FINALIZE_RUN"}
  BY <1>2
<1>4. e.task.kind \notin {"FINALIZE_RUN"}
  BY <1>1, TaskFields
<1> HIDE DEF new
<1>5. KeepsTasks({"FINALIZE_RUN"})
  BY <1>1, <1>3, <1>4, NonePushed
<1> QED
  BY <1>1, <1>5, LoopKeepsStop

(* A delivery requests the finalization when it reaches the target. *)
LEMMA DeliveryKeepsStop ==
  ASSUME TypeOK, Running, StopInv, NEW e \in events, NEW f \in DOMAIN frames,
         HandleDelivery(e, f)
  PROVE  StopInv'
<1> DEFINE s == StreamOf(f)
           target == "delivery_target_reached"
           reached == TargetDeliveriesReached(delivered', completed')
           final == Scheduled(clock', 0, FinalizeRun)
<1>1. /\ Dispatch(e) /\ e.task = DeliveryComplete(f)
      /\ completed' = [completed EXCEPT ![s] = @ + 1]
      /\ delivered' = delivered + 1
      /\ stopReason' = IF reached /\ stopReason # target THEN target ELSE stopReason
      /\ Push(e, IF reached /\ stopReason # target THEN {final} ELSE {})
  BY DEF HandleDelivery
<1>2. case' = case /\ clock' = e.at /\ (case.timeLimit # None => ~(e.at > case.timeLimit))
  BY <1>1 DEF Dispatch, Pops, BeyondTimeLimit
<1>3. e.at \in Nat /\ case.timeLimit \in Nat \cup {None}
  BY CaseFacts DEF TypeOK, Event
<1>4. case.timeLimit # None => clock' <= case.timeLimit
  BY <1>2, <1>3
<1>5. TargetDeliveriesReached(delivered, completed) => reached
  <2>1. /\ case.maxDeliveries \in Nat \cup {None}
        /\ case.maxReleases \in Nat \cup {None}
    BY CasesAssumption DEF TypeOK, CaseType, Limit
  <2>2. /\ delivered \in Nat /\ delivered' = delivered + 1
        /\ \A r \in Stream : /\ completed[r] \in Nat
                             /\ completed'[r] \in {completed[r], completed[r] + 1}
    BY <1>1 DEF TypeOK
  <2>3. \A r \in Stream : completed[r] \in Nat /\ completed'[r] \in Nat
                          /\ completed'[r] >= completed[r]
    BY <2>2
  <2>4. case.maxReleases # None => \A r \in Stream :
          completed[r] >= case.maxReleases => completed'[r] >= case.maxReleases
    BY <2>1, <2>3
  <2>5. case.maxDeliveries # None =>
          (delivered >= case.maxDeliveries => delivered' >= case.maxDeliveries)
    BY <2>1, <2>2
  <2> QED
    BY <2>4, <2>5 DEF TargetDeliveriesReached
<1>6. TargetDeliveriesReached(delivered, completed)' <=> reached
  BY <1>2 DEF TargetDeliveriesReached
<1>7. stopReason = target => reached
  BY <1>5 DEF StopInv
<1> HIDE DEF reached
<1>8. Pending(FinalizeRun)' => stopReason' = target
  <2>1. ASSUME ~(reached /\ stopReason # target)
        PROVE  Pending(FinalizeRun)' => Pending(FinalizeRun)
    BY <1>1, <2>1 DEF Push, Pending
  <2> QED
    BY <1>1, <2>1 DEF StopInv
<1>9. stopReason' \in {None, target} /\ (stopReason' = target => reached)
  BY <1>1, <1>7 DEF StopInv
<1> QED
  BY <1>2, <1>4, <1>6, <1>8, <1>9 DEF StopInv

(* The step that leaves the loop has counted and delivered nothing. *)
LEMMA LeavingCounts ==
  ASSUME CountInv, UNCHANGED <<frames, streamVars>>
  PROVE  CountInv'
<1>1. /\ Seen' = Seen
      /\ \A r : SeenOf(r)' = SeenOf(r)
      /\ \A r : FramesOf(r)' = FramesOf(r)
  BY DEF Seen, SeenOf, FramesOf, StreamOf
<1> QED
  BY <1>1 DEF CountInv, CountsOf, streamVars

(* A loop without events has delivered every frame: one in a queue or on a *)
(* wire would have an event pending at its port.                           *)
LEMMA NoEventsNoFrames ==
  ASSUME FrameInv, NoLostWakeup, CountInv, Running, events = {}
  PROVE  /\ \A f \in DOMAIN frames : frames[f].deliveredAt # None
         /\ \A s \in Stream : completed[s] = released[s]
         /\ \A l \in Link : onWire[l] = None
<1>1. \A l \in Link : PortMatchesEvents(l) /\ Awake(l)
  BY DEF FrameInv, EngineInv, PortInv, NoLostWakeup
<1>2. \A task : ~Pending(task)
  BY DEF Pending
<1>3. \A l \in Link : onWire[l] = None
  BY <1>1, <1>2 DEF PortMatchesEvents, WireMatchesEvents
<1>4. \A l \in Link : startAt[l] = None /\ \A c \in Shaped : wakeAt[l][c] = None
  BY <1>1, <1>2 DEF PortMatchesEvents, Marks
<1>5. \A l \in Link, c \in TrafficClass : queue[l][c] = <<>>
  BY <1>1, <1>3, <1>4 DEF Awake
<1>6. ASSUME NEW f \in DOMAIN frames
      PROVE  frames[f].deliveredAt # None
  <2>1. PICK n \in Stage : At(f, n)
    BY DEF FrameInv, Placed
  <2>2. f # None
    BY PlacedFacts DEF FrameInv, EngineInv
  <2>3. ~Arriving(f) /\ ~Leaving(f)
    BY DEF Arriving, Leaving
  <2>4. ~Queued(f) /\ ~OnAWire(f)
    BY <1>3, <1>5, <2>2 DEF Queued, OnAWire, Holds
  <2>5. n = 4
    BY <2>1, <2>3, <2>4 DEF At, Stage
  <2> QED
    BY <2>1, <2>5 DEF At, Delivered
<1>7. \A s \in Stream : completed[s] = released[s]
  <2>1. \A s : SeenOf(s) = FramesOf(s)
    BY <1>6 DEF SeenOf, FramesOf
  <2> QED
    BY <2>1 DEF CountInv, CountsOf
<1> QED
  BY <1>3, <1>6, <1>7

(* Leaving the loop, for whatever reason, gives a reason that is true. *)
LEMMA LeavingKeepsReasons ==
  ASSUME EndInv, Next, ~Running'
  PROVE  StopInv' /\ ReasonInv' /\ DrainedMeansDelivered'
<1> DEFINE target == "delivery_target_reached"
           Goal == StopInv' /\ ReasonInv' /\ DrainedMeansDelivered'
<1>1. /\ UNCHANGED <<case, frames, completed, delivered, released, onWire>>
      /\ Running /\ TypeOK
  BY LeavingKeepsFrames, StepsRun DEF streamVars, EndInv, FrameInv, EngineInv
<1>2. /\ stopReason \in {None, target}
      /\ stopReason = target => TargetDeliveriesReached(delivered, completed)
      /\ Pending(FinalizeRun) => stopReason = target
      /\ case.timeLimit # None => clock <= case.timeLimit
  BY <1>1 DEF EndInv, StopInv
<1>3. None \notin StopReason
  BY NoneAssumption
<1>4. stopReason' = target /\ stopReason = target => StopInv'
  BY <1>1, <1>2, TargetStands DEF StopInv
<1>5. stopReason' # target => StopInv'
  BY DEF StopInv
<1>6. stopReason' = target \/ stopReason' = None => ReasonInv' /\ DrainedMeansDelivered'
  BY <1>3 DEF ReasonInv, DrainedMeansDelivered, StopReason
<1>7. ASSUME NEW e \in events, HandleFinalize(e)
      PROVE  Goal
  <2>1. stopReason = target /\ stopReason' = target
    BY <1>2, <1>7 DEF HandleFinalize, LeaveLoop, Pending
  <2> QED
    BY <1>4, <1>6, <2>1
<1>8. ASSUME NEW e \in events, Raise(e)
      PROVE  Goal
  <2>1. stopReason' = stopReason
    BY <1>8 DEF Raise
  <2> QED
    BY <1>2, <1>3, <1>4, <1>5, <1>6, <2>1
<1>9. ASSUME NEW e \in events, StopBefore(e)
      PROVE  Goal
  <2>1. /\ stopReason' = "time_limit_reached" /\ clock' = case.timeLimit
        /\ events' = events
        /\ case.timeLimit # None /\ e.at > case.timeLimit /\ IsNext(e)
    BY <1>9 DEF StopBefore, LeaveLoop, BeyondTimeLimit
  <2>2. ASSUME NEW x \in events
        PROVE  x.at >= clock'
    <3>1. e.at \in Nat /\ x.at \in Nat /\ e.at <= x.at
      BY <1>1, <2>1, NextIsEarliest
    <3>2. case.timeLimit \in Nat
      BY <1>1, <2>1, CaseFacts DEF TypeOK
    <3> QED
      BY <2>1, <3>1, <3>2
  <2> QED
    BY <1>1, <1>5, <2>1, <2>2 DEF ReasonInv, DrainedMeansDelivered
<1>10. ASSUME RunDry
       PROVE  Goal
  <2>1. /\ events = {} /\ events' = events
        /\ stopReason' = IF stopReason = None THEN "event_queue_empty" ELSE stopReason
    BY <1>10 DEF RunDry, LeaveLoop
  <2>2. CASE stopReason = target
    BY <1>3, <1>4, <1>6, <2>1, <2>2 DEF StopReason
  <2>3. CASE stopReason = None
    <3>1. /\ \A f \in DOMAIN frames : frames[f].deliveredAt # None
          /\ \A s \in Stream : completed[s] = released[s]
          /\ \A l \in Link : onWire[l] = None
      BY <1>1, <2>1, NoEventsNoFrames DEF EndInv
    <3>2. DrainedMeansDelivered'
      BY <1>1, <3>1 DEF DrainedMeansDelivered
    <3>3. stopReason' = "event_queue_empty"
      BY <2>1, <2>3
    <3> QED
      BY <1>5, <2>1, <3>2, <3>3 DEF ReasonInv
  <2> QED
    BY <1>2, <2>2, <2>3
<1>11. ASSUME Stop
       PROVE  Goal
  <2>1. /\ EventLimitReached \/ TimeLimitReached
        /\ UNCHANGED <<clock, events, processed>>
        /\ stopReason' = IF EventLimitReached THEN "max_events_reached"
                                              ELSE "time_limit_reached"
    BY <1>11 DEF Stop, LeaveLoop
  <2>2. CASE EventLimitReached
    <3>1. stopReason' = "max_events_reached"
      BY <2>1, <2>2
    <3> QED
      BY <1>1, <1>5, <2>1, <2>2, <3>1
      DEF EventLimitReached, ReasonInv, DrainedMeansDelivered
  <2>3. CASE ~EventLimitReached
    <3>1. stopReason' = "time_limit_reached" /\ TimeLimitReached
      BY <2>1, <2>3
    <3>2. clock = case.timeLimit
      <4>1. /\ case.timeLimit # None /\ clock >= case.timeLimit /\ clock <= case.timeLimit
            /\ case.timeLimit \in Nat \cup {None} /\ clock \in Nat
        BY <1>1, <1>2, <3>1, CaseFacts DEF TimeLimitReached, TypeOK
      <4> QED
        BY <4>1
    <3>3. \A x \in events : x.at >= clock
      <4>1. \A x \in events : clock <= x.at /\ x.at \in Nat /\ clock \in Nat
        BY <1>1 DEF EndInv, FrameInv, EngineInv, EventsNotInPast, TypeOK, Event
      <4> QED
        BY <4>1
    <3> QED
      BY <1>1, <1>5, <2>1, <3>1, <3>2, <3>3 DEF ReasonInv, DrainedMeansDelivered
  <2> QED
    BY <2>2, <2>3
<1> QED
  BY <1>7, <1>8, <1>9, <1>10, <1>11, LeavingSteps

(* Every step of the loop keeps what holds of the run and its result. *)
LEMMA EndStep ==
  ASSUME EndInv, [Next]_vars
  PROVE  EndInv'
<1>1. FrameInv' /\ NoLostWakeup' /\ TypeOK
  BY FrameStep, AwakeStep DEF EndInv, FrameInv, EngineInv
<1>2. CASE UNCHANGED vars
  <2>1. UNCHANGED <<case, clock, events, processed, frames, streamVars, onWire,
                    stopReason, status>>
    BY <1>2 DEF vars, portVars
  <2>2. CountInv'
    BY <2>1, LeavingCounts DEF EndInv
  <2>3. StopInv'
    <3>1. TargetDeliveriesReached(delivered, completed)'
            <=> TargetDeliveriesReached(delivered, completed)
      BY <2>1, TargetStands DEF streamVars
    <3> QED
      BY <2>1, <3>1 DEF EndInv, StopInv, Running, Pending
  <2>4. ReasonInv' /\ DrainedMeansDelivered'
    BY <2>1 DEF EndInv, ReasonInv, DrainedMeansDelivered, streamVars
  <2> QED
    BY <1>1, <2>2, <2>3, <2>4 DEF EndInv
<1>3. ASSUME Next, ~Running'
      PROVE  EndInv'
  <2>1. CountInv'
    BY <1>3, LeavingKeepsFrames, LeavingCounts DEF EndInv
  <2> QED
    BY <1>1, <1>3, <2>1, LeavingKeepsReasons DEF EndInv
<1> SUFFICES ASSUME Next, Running'
             PROVE  CountInv' /\ StopInv'
  <2>1. ASSUME StopInv', Running'
        PROVE  ReasonInv' /\ DrainedMeansDelivered'
    <3>1. stopReason' \in {None, "delivery_target_reached"} /\ None \notin StopReason
      BY <2>1, NoneAssumption DEF StopInv
    <3> QED
      BY <3>1 DEF StopReason, ReasonInv, DrainedMeansDelivered
  <2> QED
    BY <1>1, <1>2, <1>3, <2>1 DEF EndInv
<1>4. Running /\ FrameInv /\ CountInv /\ StopInv
  BY StepsRun DEF EndInv
<1>5. ASSUME NEW e \in events, NEW s \in Stream, HandleRelease(e, s)
      PROVE  CountInv' /\ StopInv'
  BY <1>1, <1>4, <1>5, ReleaseCounts, ReleaseKeepsStop
<1>6. ASSUME NEW e \in events, NEW f \in DOMAIN frames, HandleDelivery(e, f)
      PROVE  CountInv' /\ StopInv'
  BY <1>1, <1>4, <1>6, DeliveryCounts, DeliveryKeepsStop
<1>7. ASSUME NEW e \in events,
             \/ \E f \in DOMAIN frames, l \in Link : HandleEnqueue(e, f, l)
             \/ \E l \in Link : HandleStart(e, l)
             \/ \E f \in DOMAIN frames, l \in Link : HandleEnd(e, l, f)
             \/ \E f \in DOMAIN frames : HandleForward(e, f)
             \/ \E l \in Link, c \in Shaped : HandleCreditUpdate(e, l, c)
      PROVE  CountInv' /\ StopInv'
  <2>1. KeepsReleases /\ KeepsDeliveries
    BY <1>1, <1>7, OthersKeepCounts
  <2>2. Dispatch(e)
    BY <1>7 DEF HandleEnqueue, HandleStart, HandleEnd, HandleForward, HandleCreditUpdate
  <2>3. UNCHANGED <<completed, delivered, stopReason>> /\ KeepsTasks({"FINALIZE_RUN"})
    BY <2>1 DEF KeepsDeliveries
  <2> QED
    BY <1>1, <1>4, <2>1, <2>2, <2>3, OthersCount, LoopKeepsStop
<1> QED
  BY <1>5, <1>6, <1>7
  DEF Next, Running, HandleFinalize, LeaveLoop, StopBefore, Raise, RunDry, Stop

(* Nothing is released, delivered or decided when the loop starts. *)
LEMMA EndInit ==
  ASSUME Init
  PROVE  EndInv
<1>1. FrameInv
  BY FrameInit
<1>2. NoLostWakeup
  BY DEF Init, NoLostWakeup, Awake
<1>3. CountInv
  <2>1. /\ Seen = {} /\ \A s : FramesOf(s) = {} /\ SeenOf(s) = {}
        /\ delivered = 0 /\ \A s \in Stream : released[s] = 0 /\ completed[s] = 0
    BY DEF Init, Seen, FramesOf, SeenOf
  <2> QED
    BY <2>1, FS_EmptySet DEF CountInv, CountsOf
<1>4. stopReason = None /\ None \notin StopReason
  BY NoneAssumption DEF Init
<1>5. ReasonInv /\ DrainedMeansDelivered
  BY <1>4 DEF StopReason, ReasonInv, DrainedMeansDelivered
<1>6. StopInv
  <2>1. case.timeLimit # None => clock <= case.timeLimit
    <3>1. case.timeLimit \in Nat \cup {None} /\ clock = 0
      BY CaseFacts DEF Init
    <3> QED
      BY <3>1
  <2>2. ~Pending(FinalizeRun)
    <3>1. \A e \in events : \E s : e.task = ReleaseFrame(s)
      BY DEF Init
    <3> QED
      BY <3>1, TaskFields DEF Pending
  <2> QED
    BY <1>4, <2>1, <2>2 DEF StopReason, StopInv
<1> QED
  BY <1>1, <1>2, <1>3, <1>5, <1>6 DEF EndInv

(* The frames the counters count are the ones the reason speaks of. *)
LEMMA ReasonsAreTrue ==
  ASSUME EndInv
  PROVE  StopReasonIsTrue
<1> DEFINE seen(s) == {f \in DOMAIN frames : StreamOf(f) = s /\ frames[f].deliveredAt # None}
<1>1. \A s : seen(s) = SeenOf(s)
  BY DEF SeenOf
<1>2. (UNION {seen(s) : s \in Stream}) = Seen
  <2>1. \A f \in DOMAIN frames : StreamOf(f) \in Stream
    BY FrameFacts DEF EndInv, FrameInv, EngineInv
  <2> QED
    BY <2>1 DEF Seen
<1>3. ASSUME stopReason = "delivery_target_reached"
      PROVE  IF case.maxDeliveries # None
             THEN Cardinality(UNION {seen(s) : s \in Stream}) >= case.maxDeliveries
             ELSE \A s \in Stream : Cardinality(seen(s)) >= case.maxReleases
  <2>1. TargetDeliveriesReached(delivered, completed)
    BY <1>3 DEF EndInv, StopInv
  <2>2. Cardinality(Seen) = delivered /\ \A s \in Stream : Cardinality(SeenOf(s)) = completed[s]
    BY DEF EndInv, CountInv, CountsOf
  <2> QED
    BY <1>1, <1>2, <2>1, <2>2 DEF TargetDeliveriesReached
<1>4. ReasonInv
  BY DEF EndInv
<1> QED
  BY <1>3, <1>4 DEF StopReasonIsTrue, ReasonInv

(* A run that ran out of events has delivered every frame it released. *)
THEOREM DrainedRunsAreComplete == Spec => []DrainedMeansDelivered
<1>1. Init => EndInv
  BY EndInit
<1>2. EndInv /\ [Next]_vars => EndInv'
  BY EndStep
<1>3. EndInv => DrainedMeansDelivered
  BY DEF EndInv
<1> QED
  BY <1>1, <1>2, <1>3, PTL DEF Spec

(* The stop reason a run reports is a fact about it, whichever limits are  *)
(* configured and met together.                                            *)
THEOREM ReportedReasonsAreTrue == Spec => []StopReasonIsTrue
<1>1. Init => EndInv
  BY EndInit
<1>2. EndInv /\ [Next]_vars => EndInv'
  BY EndStep
<1>3. EndInv => StopReasonIsTrue
  BY ReasonsAreTrue
<1> QED
  BY <1>1, <1>2, <1>3, PTL DEF Spec
=============================================================================
