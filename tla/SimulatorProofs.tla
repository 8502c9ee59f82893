-------------------------- MODULE SimulatorProofs --------------------------
(***************************************************************************)
(* Proofs about the simulator: the types of its variables; that no port    *)
(* sleeps over a frame it could send; that ports and events tell the same  *)
(* story, no event lies in the past and starts see fresh credits; and that *)
(* time never passes a port by that could send.                            *)
(***************************************************************************)
EXTENDS SimulatorProperties, TLAPS

(* A recovery delay is a natural number. *)
LEMMA RecoveryDelayNat ==
  ASSUME NEW cr \in Int, NEW idle \in Nat \ {0}
  PROVE  RecoveryDelay(cr, idle) \in Nat
BY DEF RecoveryDelay

(* The fields of a case, from CasesAssumption. *)
LEMMA CaseFacts ==
  ASSUME case \in Cases
  PROVE  /\ case.class \in [Stream -> TrafficClass]
         /\ case.period \in [Stream -> Nat \ {0}]
         /\ case.route \in [Stream -> Seq(Link)]
         /\ case.size \in [Stream -> Nat \ {0}]
         /\ case.pace \in [Link -> Nat \ {0}]
         /\ case.slopes \in [Shaped -> Slope]
         /\ \A c \in Shaped : /\ case.slopes[c].idle \in Nat \ {0}
                              /\ case.slopes[c].send \in Nat \ {0}
         /\ case.timeLimit \in Nat \cup {None}
         /\ WellFormed(case)
<1>1. case \in CaseType /\ WellFormed(case)
  BY CasesAssumption
<1>2. case.slopes \in [Shaped -> Slope]
  BY <1>1 DEF CaseType
<1>3. \A c \in Shaped : /\ case.slopes[c].idle \in Nat \ {0}
                        /\ case.slopes[c].send \in Nat \ {0}
  BY <1>2 DEF Slope
<1> QED
  BY <1>1, <1>2, <1>3 DEF CaseType, Limit

(* Slopes are positive integers. *)
LEMMA SlopeFacts ==
  ASSUME TypeOK
  PROVE  \A c \in Shaped : /\ case.slopes[c].idle \in Nat \ {0}
                           /\ case.slopes[c].send \in Nat \ {0}
                           /\ case.slopes[c].idle \in Int
                           /\ case.slopes[c].send \in Int
<1>1. case \in Cases
  BY DEF TypeOK
<1>2. \A c \in Shaped : /\ case.slopes[c].idle \in Nat \ {0}
                        /\ case.slopes[c].send \in Nat \ {0}
  BY <1>1, CaseFacts
<1> QED
  BY <1>2

(* The task constructors build tasks. *)
LEMMA TaskTypes ==
  /\ \A s \in Stream : ReleaseFrame(s) \in Task
  /\ \A f \in Frame, l \in Link : EnqueueFrame(f, l) \in Task
  /\ \A l \in Link : TransmissionStart(l) \in Task
  /\ \A l \in Link, f \in Frame : TransmissionEnd(l, f) \in Task
  /\ \A f \in Frame : ForwardFrame(f) \in Task
  /\ \A f \in Frame : DeliveryComplete(f) \in Task
  /\ \A l \in Link, c \in Shaped : CreditUpdate(l, c) \in Task
  /\ FinalizeRun \in Task
BY DEF Task, ReleaseFrame, EnqueueFrame, TransmissionStart, TransmissionEnd,
       ForwardFrame, DeliveryComplete, CreditUpdate, FinalizeRun

(* A task scheduled at a natural time is an event. *)
LEMMA ScheduledType ==
  ASSUME NEW at \in Nat, NEW nth \in Int, NEW task \in Task, processed' \in Nat
  PROVE  Scheduled(at, nth, task) \in Event
BY DEF Scheduled, Event

(* Synchronized credits are integers. *)
LEMMA SynchronizedCreditType ==
  ASSUME NEW cr \in [Shaped -> Int], NEW elapsed \in Int,
         NEW slopes, \A c \in Shaped : slopes[c].idle \in Int /\ slopes[c].send \in Int,
         NEW pending, NEW wire
  PROVE  SynchronizedCredit(cr, elapsed, slopes, pending, wire) \in [Shaped -> Int]
<1> SUFFICES ASSUME NEW c \in Shaped, NEW blocked
             PROVE  NormalizeIdlePositiveCredit(
                      IntegrateCredit(cr[c], elapsed, slopes[c], wire = c, blocked),
                      pending, wire, c) \in Int
  BY DEF SynchronizedCredit
<1> DEFINE moved == IntegrateCredit(cr[c], elapsed, slopes[c], wire = c, blocked)
<1>1. /\ cr[c] + slopes[c].idle * elapsed \in Int
      /\ cr[c] - slopes[c].send * elapsed \in Int
  OBVIOUS
<1>2. moved \in Int
  BY <1>1 DEF IntegrateCredit
<1> QED
  BY <1>2 DEF NormalizeIdlePositiveCredit

(* What schedule_next_transmission leaves is well typed. *)
LEMMA SchedulerTypes ==
  ASSUME TypeOK, case' = case, clock' \in Nat, processed' \in Nat,
         NEW e, NEW l \in Link, NEW cr \in [Shaped -> Int],
         NEW starts \in [Link -> Nat \cup {None}],
         NEW wakes \in [Link -> [Shaped -> Nat \cup {None}]],
         NEW pushed \in SUBSET Event,
         ScheduleNextTransmission(e, l, cr, starts, wakes, pushed)
  PROVE  /\ events' \subseteq Event
         /\ credit' \in [Link -> [Shaped -> Int]]
         /\ syncedAt' \in [Link -> Nat]
         /\ startAt' \in [Link -> Nat \cup {None}]
         /\ wakeAt' \in [Link -> [Shaped -> Nat \cup {None}]]
<1>1. events \subseteq Event /\ case \in Cases
  BY DEF TypeOK
<1>2. Scheduled(clock', 1, TransmissionStart(l)) \in Event
  BY TaskTypes, ScheduledType
<1>3. \A c \in Shaped : /\ RecoveryTime(l, c, cr) \in Nat
                        /\ Scheduled(RecoveryTime(l, c, cr), 1, CreditUpdate(l, c)) \in Event
  <2> SUFFICES ASSUME NEW c \in Shaped
               PROVE  /\ RecoveryTime(l, c, cr) \in Nat
                      /\ Scheduled(RecoveryTime(l, c, cr), 1, CreditUpdate(l, c)) \in Event
    OBVIOUS
  <2>1. RecoveryDelay(cr[c], case.slopes[c].idle) \in Nat
    BY <1>1, CaseFacts, RecoveryDelayNat
  <2>2. RecoveryTime(l, c, cr) \in Nat
    BY <2>1 DEF RecoveryTime
  <2> QED
    BY <2>2, TaskTypes, ScheduledType
<1>4. /\ credit' \in [Link -> [Shaped -> Int]]
      /\ syncedAt' \in [Link -> Nat]
  BY DEF ScheduleNextTransmission, TypeOK
<1>5. /\ startAt' \in [Link -> Nat \cup {None}]
      /\ wakeAt' \in [Link -> [Shaped -> Nat \cup {None}]]
  <2>1. /\ [starts EXCEPT ![l] = clock'] \in [Link -> Nat \cup {None}]
        /\ \A c \in Shaped : [wakes EXCEPT ![l][c] = RecoveryTime(l, c, cr)]
                               \in [Link -> [Shaped -> Nat \cup {None}]]
    BY <1>3
  <2> QED
    BY <2>1 DEF ScheduleNextTransmission
<1>6. events' \subseteq Event
  BY <1>1, <1>2, <1>3 DEF ScheduleNextTransmission, Push
<1> QED
  BY <1>4, <1>5, <1>6

(* What a dispatched event does to the clock and the counters. *)
LEMMA DispatchTypes ==
  ASSUME TypeOK, NEW e, Dispatch(e)
  PROVE  /\ e \in events /\ e \in Event
         /\ clock' \in Nat /\ clock' = e.at
         /\ processed' \in Nat
         /\ case' = case
BY DEF TypeOK, Dispatch, Pops, IsNext, Event

(* The credits of a port, synchronized at the new time, are integers. *)
LEMMA SyncedCreditType ==
  ASSUME TypeOK, clock' \in Nat, NEW l \in Link, NEW wire
  PROVE  SyncedCredit(l, wire) \in [Shaped -> Int]
<1>1. /\ credit[l] \in [Shaped -> Int]
      /\ clock' - syncedAt[l] \in Int
      /\ \A c \in Shaped : case.slopes[c].idle \in Int /\ case.slopes[c].send \in Int
  <2>1. credit[l] \in [Shaped -> Int] /\ syncedAt[l] \in Nat
    BY DEF TypeOK
  <2> QED
    BY <2>1, SlopeFacts
<1> QED
  BY <1>1, SynchronizedCreditType DEF SyncedCredit

(* Pushing well-typed events keeps the event queue well typed. *)
LEMMA PushType ==
  ASSUME TypeOK, NEW e, NEW new \in SUBSET Event, Push(e, new)
  PROVE  events' \subseteq Event
BY DEF TypeOK, Push

(* A released frame has a stream, a class, a route and a state. *)
LEMMA FrameFacts ==
  ASSUME TypeOK, NEW f \in DOMAIN frames
  PROVE  /\ f \in Frame /\ StreamOf(f) \in Stream
         /\ ClassOf(f) \in TrafficClass
         /\ RouteOf(f) \in Seq(Link)
         /\ frames[f] \in FrameState
<1>1. f \in Frame /\ frames[f] \in FrameState
  BY DEF TypeOK
<1>2. StreamOf(f) \in Stream
  BY <1>1 DEF Frame, StreamOf
<1> QED
  BY <1>1, <1>2, CaseFacts DEF TypeOK, ClassOf, RouteOf

(* release_frame preserves the types. *)
LEMMA ReleaseTypes ==
  ASSUME TypeOK, NEW e \in events, NEW s \in Stream, HandleRelease(e, s)
  PROVE  TypeOK'
<1> DEFINE f == <<s, released[s]>>
           next == (released[s] + 1) * case.period[s]
<1>1. /\ Dispatch(e) /\ e.task = ReleaseFrame(s)
      /\ frames' = [g \in DOMAIN frames \cup {f} |->
                      IF g = f THEN NewFrame(clock') ELSE frames[g]]
      /\ released' = [released EXCEPT ![s] = @ + 1]
      /\ UNCHANGED <<portVars, completed, delivered, stopReason, status>>
  BY DEF HandleRelease
<1>2. Push(e, {Scheduled(clock', 0, EnqueueFrame(f, case.route[s][1]))} \cup
              IF CanScheduleRelease(released[s] + 1, next)
              THEN {Scheduled(next, 1, ReleaseFrame(s))} ELSE {})
  BY DEF HandleRelease
<1>3. clock' \in Nat /\ processed' \in Nat /\ case' = case
  BY <1>1, DispatchTypes
<1>4. f \in Frame /\ next \in Nat
  <2>1. released[s] \in Nat /\ case.period[s] \in Nat
    BY CaseFacts DEF TypeOK
  <2> QED
    BY <2>1 DEF Frame
<1>5. case.route[s][1] \in Link
  <2>1. case.route[s] # <<>>
    BY <1>1 DEF Dispatch, Raises, ReleaseFrame
  <2>2. case.route[s] \in Seq(Link)
    BY CaseFacts DEF TypeOK
  <2> QED
    BY <2>1, <2>2
<1>6. events' \subseteq Event
  <2>1. Scheduled(clock', 0, EnqueueFrame(f, case.route[s][1])) \in Event
    BY <1>3, <1>4, <1>5, TaskTypes, ScheduledType
  <2>2. Scheduled(next, 1, ReleaseFrame(s)) \in Event
    BY <1>3, <1>4, TaskTypes, ScheduledType
  <2> QED
    BY <1>2, <2>1, <2>2, PushType
<1>7. DOMAIN frames' \subseteq Frame /\ frames' \in [DOMAIN frames' -> FrameState]
  <2>1. NewFrame(clock') \in FrameState
    BY <1>3 DEF NewFrame, FrameState
  <2> QED
    BY <1>1, <1>4, <2>1 DEF TypeOK
<1> QED
  BY <1>1, <1>3, <1>6, <1>7 DEF TypeOK, portVars

(* enqueue_frame preserves the types. *)
LEMMA EnqueueTypes ==
  ASSUME TypeOK, NEW e \in events, NEW f \in DOMAIN frames, NEW l \in Link,
         HandleEnqueue(e, f, l)
  PROVE  TypeOK'
<1>1. /\ Dispatch(e)
      /\ queue' = [queue EXCEPT ![l][ClassOf(f)] = Append(@, f)]
      /\ frames' = [frames EXCEPT ![f].enqueuedAt = clock']
      /\ UNCHANGED <<onWire, streamVars, stopReason, status>>
      /\ ScheduleNextTransmission(e, l, SyncedCredit(l, WireClass(l)), startAt, wakeAt, {})
  BY DEF HandleEnqueue, Joined
<1>2. clock' \in Nat /\ processed' \in Nat /\ case' = case
  BY <1>1, DispatchTypes
<1>3. queue' \in [Link -> [TrafficClass -> Seq(Frame)]]
  <2>1. /\ queue \in [Link -> [TrafficClass -> Seq(Frame)]]
        /\ ClassOf(f) \in TrafficClass /\ f \in Frame
    BY FrameFacts DEF TypeOK
  <2>2. Append(queue[l][ClassOf(f)], f) \in Seq(Frame)
    BY <2>1
  <2> QED
    BY <1>1, <2>1, <2>2
<1>4. DOMAIN frames' \subseteq Frame /\ frames' \in [DOMAIN frames' -> FrameState]
  <2>1. DOMAIN frames \subseteq Frame /\ frames \in [DOMAIN frames -> FrameState]
    BY DEF TypeOK
  <2>2. [frames[f] EXCEPT !.enqueuedAt = clock'] \in FrameState
    BY <1>2, <2>1 DEF FrameState
  <2>3. frames' = [frames EXCEPT ![f] = [frames[f] EXCEPT !.enqueuedAt = clock']]
    BY <1>1
  <2> QED
    BY <2>1, <2>2, <2>3
<1>5. /\ events' \subseteq Event
      /\ credit' \in [Link -> [Shaped -> Int]]
      /\ syncedAt' \in [Link -> Nat]
      /\ startAt' \in [Link -> Nat \cup {None}]
      /\ wakeAt' \in [Link -> [Shaped -> Nat \cup {None}]]
  <2>1. /\ SyncedCredit(l, WireClass(l)) \in [Shaped -> Int]
        /\ startAt \in [Link -> Nat \cup {None}]
        /\ wakeAt \in [Link -> [Shaped -> Nat \cup {None}]]
    BY <1>2, SyncedCreditType DEF TypeOK
  <2>2. {} \in SUBSET Event
    OBVIOUS
  <2> QED
    BY <1>1, <1>2, <2>1, <2>2, SchedulerTypes, Zenon
<1> QED
  BY <1>1, <1>2, <1>3, <1>4, <1>5 DEF TypeOK, streamVars

(* An airtime is a natural number. *)
LEMMA AirtimeType ==
  ASSUME TypeOK, NEW s \in Stream, NEW l \in Link
  PROVE  Airtime(s, l) \in Nat
<1>1. case.size[s] \in Nat /\ case.pace[l] \in Nat
  BY CaseFacts DEF TypeOK
<1> QED
  BY <1>1 DEF Airtime

(* start_transmission preserves the types. *)
LEMMA StartTypes ==
  ASSUME TypeOK, NEW e \in events, NEW l \in Link, HandleStart(e, l)
  PROVE  TypeOK'
<1> DEFINE cleared == [startAt EXCEPT ![l] = None]
<1>1. Dispatch(e) /\ UNCHANGED <<frames, streamVars, stopReason, status>>
  BY DEF HandleStart
<1>2. clock' \in Nat /\ processed' \in Nat /\ case' = case
  BY <1>1, DispatchTypes
<1>3. cleared \in [Link -> Nat \cup {None}]
  BY DEF TypeOK
<1>4. {} \in SUBSET Event
  OBVIOUS
<1> DEFINE PortsOK ==
      /\ events' \subseteq Event
      /\ queue' \in [Link -> [TrafficClass -> Seq(Frame)]]
      /\ onWire' \in [Link -> Frame \cup {None}]
      /\ credit' \in [Link -> [Shaped -> Int]]
      /\ syncedAt' \in [Link -> Nat]
      /\ startAt' \in [Link -> Nat \cup {None}]
      /\ wakeAt' \in [Link -> [Shaped -> Nat \cup {None}]]
<1>5. CASE /\ startAt' = cleared
           /\ Push(e, {})
           /\ UNCHANGED <<queue, credit, syncedAt, onWire, wakeAt>>
  <2>1. events' \subseteq Event
    BY <1>4, <1>5, PushType
  <2>2. PortsOK
    BY <1>3, <1>5, <2>1 DEF TypeOK
  <2> QED
    BY <1>1, <1>2, <2>2 DEF TypeOK, streamVars
<1>6. CASE /\ UNCHANGED <<queue, onWire>>
           /\ ScheduleNextTransmission(e, l, SyncedCredit(l, NoClass), cleared, wakeAt, {})
  <2>1. /\ SyncedCredit(l, NoClass) \in [Shaped -> Int]
        /\ wakeAt \in [Link -> [Shaped -> Nat \cup {None}]]
    BY <1>2, SyncedCreditType DEF TypeOK
  <2>2. /\ events' \subseteq Event
        /\ credit' \in [Link -> [Shaped -> Int]]
        /\ syncedAt' \in [Link -> Nat]
        /\ startAt' \in [Link -> Nat \cup {None}]
        /\ wakeAt' \in [Link -> [Shaped -> Nat \cup {None}]]
    <3> HIDE DEF cleared
    <3> QED
      BY <1>2, <1>3, <1>4, <1>6, <2>1, SchedulerTypes, Zenon
  <2>3. PortsOK
    BY <1>6, <2>2 DEF TypeOK
  <2> QED
    BY <1>1, <1>2, <2>3 DEF TypeOK, streamVars
<1>7. ASSUME NEW c \in TrafficClass,
             IsCandidate(c, queue[l], credit[l]),
             queue' = [queue EXCEPT ![l][c] = Tail(@)],
             onWire' = [onWire EXCEPT ![l] = Head(queue[l][c])],
             startAt' = cleared,
             Push(e, {Scheduled(clock' + Airtime(StreamOf(Head(queue[l][c])), l), 0,
                                TransmissionEnd(l, Head(queue[l][c])))}),
             UNCHANGED <<credit, syncedAt, wakeAt>>
      PROVE  TypeOK'
  <2> DEFINE f == Head(queue[l][c])
  <2>1. queue[l][c] \in Seq(Frame) /\ queue[l][c] # <<>>
    BY <1>7 DEF IsCandidate, Eligible, TypeOK
  <2>2. f \in Frame /\ Tail(queue[l][c]) \in Seq(Frame)
    BY <2>1
  <2>3. Airtime(StreamOf(f), l) \in Nat
    BY <2>2, AirtimeType DEF StreamOf, Frame
  <2>4. events' \subseteq Event
    <3>1. Scheduled(clock' + Airtime(StreamOf(f), l), 0, TransmissionEnd(l, f)) \in Event
      BY <1>2, <2>2, <2>3, TaskTypes, ScheduledType
    <3> QED
      BY <1>7, <3>1, PushType
  <2>5. PortsOK
    BY <1>3, <1>7, <2>2, <2>4 DEF TypeOK
  <2> QED
    BY <1>1, <1>2, <2>5 DEF TypeOK, streamVars
<1> QED
  BY <1>5, <1>6, <1>7 DEF HandleStart, Popped

(* finish_transmission preserves the types. *)
LEMMA EndTypes ==
  ASSUME TypeOK, NEW e \in events, NEW f \in DOMAIN frames, NEW l \in Link,
         HandleEnd(e, l, f)
  PROVE  TypeOK'
<1> DEFINE freed == SynchronizedCredit(SyncedCredit(l, WireClass(l)), 0,
                                       case.slopes, queue'[l], NoClass)
           arrival == IF IsLastHop(f) THEN DeliveryComplete(f) ELSE ForwardFrame(f)
           pushed == {Scheduled(clock', 0, arrival)}
<1>1. /\ Dispatch(e)
      /\ onWire' = [onWire EXCEPT ![l] = None]
      /\ UNCHANGED <<queue, frames, streamVars, stopReason, status>>
      /\ ScheduleNextTransmission(e, l, freed, startAt, wakeAt, pushed)
  BY DEF HandleEnd
<1>2. clock' \in Nat /\ processed' \in Nat /\ case' = case
  BY <1>1, DispatchTypes
<1>3. freed \in [Shaped -> Int]
  <2>1. SyncedCredit(l, WireClass(l)) \in [Shaped -> Int]
    BY <1>2, SyncedCreditType
  <2>2. \A c \in Shaped : case.slopes[c].idle \in Int /\ case.slopes[c].send \in Int
    BY SlopeFacts
  <2> QED
    BY <2>1, <2>2, SynchronizedCreditType
<1>4. pushed \in SUBSET Event
  <2>1. arrival \in Task
    BY FrameFacts, TaskTypes
  <2> QED
    BY <1>2, <2>1, ScheduledType
<1>5. /\ startAt \in [Link -> Nat \cup {None}]
      /\ wakeAt \in [Link -> [Shaped -> Nat \cup {None}]]
  BY DEF TypeOK
<1>6. /\ events' \subseteq Event
      /\ credit' \in [Link -> [Shaped -> Int]]
      /\ syncedAt' \in [Link -> Nat]
      /\ startAt' \in [Link -> Nat \cup {None}]
      /\ wakeAt' \in [Link -> [Shaped -> Nat \cup {None}]]
  <2> HIDE DEF freed, pushed
  <2> QED
    BY <1>1, <1>2, <1>3, <1>4, <1>5, SchedulerTypes, Zenon
<1>7. onWire' \in [Link -> Frame \cup {None}]
  BY <1>1 DEF TypeOK
<1> QED
  BY <1>1, <1>2, <1>6, <1>7 DEF TypeOK, streamVars

(* forward_frame preserves the types. *)
LEMMA ForwardTypes ==
  ASSUME TypeOK, NEW e \in events, NEW f \in DOMAIN frames, HandleForward(e, f)
  PROVE  TypeOK'
<1> DEFINE next == RouteOf(f)[frames[f].hop + 1]
<1>1. /\ Dispatch(e) /\ e.task = ForwardFrame(f)
      /\ frames' = [frames EXCEPT ![f].hop = @ + 1]
      /\ Push(e, {Scheduled(clock', 0, EnqueueFrame(f, next))})
      /\ UNCHANGED <<portVars, streamVars, stopReason, status>>
  BY DEF HandleForward
<1>2. clock' \in Nat /\ processed' \in Nat /\ case' = case
  BY <1>1, DispatchTypes
<1>3. f \in Frame /\ frames[f].hop \in Nat /\ RouteOf(f) \in Seq(Link)
  BY FrameFacts DEF FrameState
<1>4. next \in Link
  <2>1. ~IsLastHop(f)
    BY <1>1 DEF Dispatch, Raises, ForwardFrame
  <2> QED
    BY <1>3, <2>1 DEF IsLastHop
<1>5. events' \subseteq Event
  <2>1. Scheduled(clock', 0, EnqueueFrame(f, next)) \in Event
    BY <1>2, <1>3, <1>4, TaskTypes, ScheduledType
  <2> QED
    BY <1>1, <2>1, PushType
<1>6. DOMAIN frames' \subseteq Frame /\ frames' \in [DOMAIN frames' -> FrameState]
  <2>1. [frames[f] EXCEPT !.hop = @ + 1] \in FrameState
    <3>1. frames[f] \in FrameState /\ frames[f].hop + 1 \in Nat
      BY <1>3, FrameFacts
    <3> QED
      BY <3>1 DEF FrameState
  <2> QED
    BY <1>1, <2>1 DEF TypeOK
<1> QED
  BY <1>1, <1>2, <1>5, <1>6 DEF TypeOK, portVars, streamVars

(* complete_delivery preserves the types. *)
LEMMA DeliveryTypes ==
  ASSUME TypeOK, NEW e \in events, NEW f \in DOMAIN frames, HandleDelivery(e, f)
  PROVE  TypeOK'
<1>1. /\ Dispatch(e)
      /\ frames' = [frames EXCEPT ![f].deliveredAt = clock']
      /\ completed' = [completed EXCEPT ![StreamOf(f)] = @ + 1]
      /\ delivered' = delivered + 1
      /\ stopReason' \in {"delivery_target_reached", stopReason}
      /\ UNCHANGED <<portVars, released, status>>
  BY DEF HandleDelivery
<1>2. \E new \in SUBSET {Scheduled(clock', 0, FinalizeRun)} : Push(e, new)
  BY DEF HandleDelivery
<1>3. clock' \in Nat /\ processed' \in Nat /\ case' = case
  BY <1>1, DispatchTypes
<1>4. events' \subseteq Event
  <2>1. Scheduled(clock', 0, FinalizeRun) \in Event
    BY <1>3, TaskTypes, ScheduledType
  <2> QED
    BY <1>2, <2>1, PushType
<1>5. DOMAIN frames' \subseteq Frame /\ frames' \in [DOMAIN frames' -> FrameState]
  <2>1. DOMAIN frames \subseteq Frame /\ frames \in [DOMAIN frames -> FrameState]
    BY DEF TypeOK
  <2>2. [frames[f] EXCEPT !.deliveredAt = clock'] \in FrameState
    BY <1>3, <2>1 DEF FrameState
  <2>3. frames' = [frames EXCEPT ![f] = [frames[f] EXCEPT !.deliveredAt = clock']]
    BY <1>1
  <2> QED
    BY <2>1, <2>2, <2>3
<1>6. /\ completed' \in [Stream -> Nat] /\ delivered' \in Nat
      /\ stopReason' \in StopReason \cup {None}
  <2>1. /\ completed \in [Stream -> Nat] /\ delivered \in Nat
        /\ stopReason \in StopReason \cup {None}
    BY DEF TypeOK
  <2>2. StreamOf(f) \in Stream
    BY FrameFacts
  <2> QED
    BY <1>1, <2>1, <2>2 DEF StopReason
<1> QED
  BY <1>1, <1>3, <1>4, <1>5, <1>6 DEF TypeOK, portVars

(* update_credit preserves the types. *)
LEMMA CreditUpdateTypes ==
  ASSUME TypeOK, NEW e \in events, NEW l \in Link, NEW c \in Shaped,
         HandleCreditUpdate(e, l, c)
  PROVE  TypeOK'
<1> DEFINE cleared == [wakeAt EXCEPT ![l][c] = None]
<1>1. /\ Dispatch(e)
      /\ UNCHANGED <<queue, onWire, frames, streamVars, stopReason, status>>
      /\ ScheduleNextTransmission(e, l, SyncedCredit(l, WireClass(l)), startAt, cleared, {})
  BY DEF HandleCreditUpdate
<1>2. clock' \in Nat /\ processed' \in Nat /\ case' = case
  BY <1>1, DispatchTypes
<1>3. /\ startAt \in [Link -> Nat \cup {None}]
      /\ cleared \in [Link -> [Shaped -> Nat \cup {None}]]
      /\ SyncedCredit(l, WireClass(l)) \in [Shaped -> Int]
      /\ {} \in SUBSET Event
  BY <1>2, SyncedCreditType DEF TypeOK
<1>4. /\ events' \subseteq Event
      /\ credit' \in [Link -> [Shaped -> Int]]
      /\ syncedAt' \in [Link -> Nat]
      /\ startAt' \in [Link -> Nat \cup {None}]
      /\ wakeAt' \in [Link -> [Shaped -> Nat \cup {None}]]
  <2> HIDE DEF cleared
  <2> QED
    BY <1>1, <1>2, <1>3, SchedulerTypes, Zenon
<1> QED
  BY <1>1, <1>2, <1>4 DEF TypeOK, streamVars

(* Leaving the loop preserves the types. *)
LEMMA LeaveLoopTypes ==
  ASSUME TypeOK, clock' \in Nat, processed' \in Nat, events' \subseteq Event,
         NEW outcome \in {"ok", "stopped"}, NEW reason \in StopReason,
         LeaveLoop(outcome, reason)
  PROVE  TypeOK'
<1>1. /\ status' = outcome /\ stopReason' = reason
      /\ UNCHANGED <<case, queue, onWire, startAt, wakeAt, frames, streamVars>>
      /\ credit' = [l \in Link |-> SyncedCredit(l, WireClass(l))]
      /\ syncedAt' = [l \in Link |-> clock']
  BY DEF LeaveLoop
<1>2. credit' \in [Link -> [Shaped -> Int]] /\ syncedAt' \in [Link -> Nat]
  BY <1>1, SyncedCreditType
<1> QED
  BY <1>1, <1>2 DEF TypeOK, streamVars

(* Every step of the loop preserves the types. *)
LEMMA StepTypes ==
  ASSUME TypeOK, [Next]_vars
  PROVE  TypeOK'
<1>1. CASE UNCHANGED vars
  BY <1>1 DEF TypeOK, vars, portVars, streamVars
<1>2. ASSUME NEW e \in events, HandleFinalize(e)
      PROVE  TypeOK'
  <2>1. Dispatch(e) /\ Push(e, {}) /\ LeaveLoop("ok", "delivery_target_reached")
    BY <1>2 DEF HandleFinalize
  <2>2. clock' \in Nat /\ processed' \in Nat /\ events' \subseteq Event
    BY <2>1, DispatchTypes DEF TypeOK, Push
  <2> QED
    BY <2>1, <2>2, LeaveLoopTypes DEF StopReason
<1>3. ASSUME NEW e \in events, StopBefore(e)
      PROVE  TypeOK'
  <2>1. clock' \in Nat /\ processed' \in Nat /\ events' \subseteq Event
    BY <1>3, CaseFacts DEF TypeOK, StopBefore, BeyondTimeLimit
  <2> QED
    BY <1>3, <2>1, LeaveLoopTypes DEF StopBefore, StopReason
<1>4. ASSUME NEW e \in events, Raise(e)
      PROVE  TypeOK'
  <2>1. clock' \in Nat /\ processed' \in Nat /\ events' \subseteq Event
    BY <1>4 DEF TypeOK, Raise, Push, Event
  <2>2. /\ status' = "raised"
        /\ UNCHANGED <<case, portVars, frames, streamVars, stopReason>>
    BY <1>4 DEF Raise
  <2> QED
    BY <2>1, <2>2 DEF TypeOK, portVars, streamVars
<1>5. CASE RunDry
  <2> DEFINE reason == IF stopReason = None THEN "event_queue_empty" ELSE stopReason
  <2>1. /\ clock' \in Nat /\ processed' \in Nat /\ events' \subseteq Event
        /\ reason \in StopReason
    BY <1>5 DEF TypeOK, RunDry, StopReason
  <2>2. LeaveLoop("ok", reason)
    BY <1>5 DEF RunDry
  <2> QED
    BY <2>1, <2>2, LeaveLoopTypes
<1>6. CASE Stop
  <2> DEFINE reason == IF EventLimitReached THEN "max_events_reached"
                       ELSE "time_limit_reached"
  <2>1. /\ clock' \in Nat /\ processed' \in Nat /\ events' \subseteq Event
        /\ reason \in StopReason
    BY <1>6 DEF TypeOK, Stop, StopReason
  <2>2. LeaveLoop("stopped", reason)
    BY <1>6 DEF Stop
  <2> QED
    BY <2>1, <2>2, LeaveLoopTypes
<1> QED
  BY <1>1, <1>2, <1>3, <1>4, <1>5, <1>6, ReleaseTypes, EnqueueTypes, StartTypes,
     EndTypes, ForwardTypes, DeliveryTypes, CreditUpdateTypes
  DEF Next

(* The initial state is well typed. *)
LEMMA InitTypes == ASSUME Init PROVE TypeOK
<1>1. events \subseteq Event
  <2> SUFFICES ASSUME NEW i \in DOMAIN case.streams
               PROVE  [at |-> 0, seq |-> i - Len(case.streams),
                       task |-> ReleaseFrame(case.streams[i])] \in Event
    BY DEF Init
  <2>1. case.streams \in Seq(Stream)
    BY CasesAssumption DEF Init, CaseType
  <2>2. case.streams[i] \in Stream /\ i - Len(case.streams) \in Int
    BY <2>1
  <2> QED
    BY <2>2, TaskTypes DEF Event
<1>2. /\ queue \in [Link -> [TrafficClass -> Seq(Frame)]]
      /\ DOMAIN frames \subseteq Frame
      /\ frames \in [DOMAIN frames -> FrameState]
  BY DEF Init
<1> QED
  BY <1>1, <1>2 DEF Init, TypeOK

(* Every variable always holds a value of its kind. *)
THEOREM TypeCorrect == Spec => []TypeOK
<1>1. Init => TypeOK
  BY InitTypes
<1>2. TypeOK /\ [Next]_vars => TypeOK'
  BY StepTypes
<1> QED
  BY <1>1, <1>2, PTL DEF Spec

-----------------------------------------------------------------------------
(* Credit arithmetic                                                       *)

(* The recovery delay is the least whole time after which an idle credit   *)
(* is back at zero.                                                        *)
LEMMA RecoveryDelayLeast ==
  ASSUME NEW cr \in Int, NEW idle \in Nat \ {0}, cr < 0
  PROVE  /\ RecoveryDelay(cr, idle) \in Nat \ {0}
         /\ cr + idle * (RecoveryDelay(cr, idle) - 1) < 0
         /\ cr + idle * RecoveryDelay(cr, idle) >= 0
BY DEF RecoveryDelay

(* A product with a natural number is monotone. *)
LEMMA ProductMonotone ==
  ASSUME NEW a \in Nat, NEW m \in Int, NEW n \in Int, m <= n
  PROVE  /\ a * m \in Int /\ a * n \in Int /\ a * m <= a * n
OBVIOUS

(* A credit that has not recovered by one time had not by an earlier one. *)
LEMMA RecoveryDelayOrder ==
  ASSUME NEW cr \in Int, NEW idle \in Nat \ {0}, cr < 0,
         NEW t \in Int, t <= RecoveryDelay(cr, idle)
  PROVE  cr + idle * (t - 1) < 0
<1> DEFINE r == RecoveryDelay(cr, idle)
<1>1. r \in Int /\ cr + idle * (r - 1) < 0
  BY RecoveryDelayLeast
<1>2. idle * (t - 1) <= idle * (r - 1) /\ idle * (t - 1) \in Int /\ idle * (r - 1) \in Int
  <2>1. t - 1 \in Int /\ r - 1 \in Int /\ t - 1 <= r - 1
    BY <1>1
  <2> HIDE DEF r
  <2> QED
    BY <2>1, ProductMonotone
<1> HIDE DEF r
<1> QED
  BY <1>1, <1>2

(* Of the classes that wait for their credit, one recovers first. *)
LEMMA SomeClassRecoversFirst ==
  ASSUME NEW pending, NEW cr \in [Shaped -> Int], NEW slopes,
         \A c \in Shaped : slopes[c].idle \in Nat \ {0},
         Recovering(pending, cr) # {}
  PROVE  \E c \in Shaped : RecoversFirst(c, pending, cr, slopes)
<1> DEFINE delay(c) == RecoveryDelay(cr[c], slopes[c].idle)
<1>1. \A c \in Shaped : delay(c) \in Nat
  BY RecoveryDelayNat
<1>2. Priority["class_a"] > Priority["class_b"]
  BY DEF Priority
<1>3. \A c \in Recovering(pending, cr) : c = "class_a" \/ c = "class_b"
  BY DEF Recovering, Shaped
<1>4. CASE "class_a" \notin Recovering(pending, cr)
  BY <1>3, <1>4 DEF RecoversFirst, Recovering
<1>5. CASE "class_b" \notin Recovering(pending, cr)
  BY <1>3, <1>5 DEF RecoversFirst, Recovering
<1>6. CASE /\ {"class_a", "class_b"} \subseteq Recovering(pending, cr)
           /\ delay("class_a") <= delay("class_b")
  <2>1. delay("class_a") < delay("class_b") \/ delay("class_a") = delay("class_b")
    BY <1>1, <1>6 DEF Shaped
  <2> QED
    BY <1>2, <1>3, <1>6, <2>1 DEF RecoversFirst, Shaped
<1>7. CASE /\ {"class_a", "class_b"} \subseteq Recovering(pending, cr)
           /\ ~(delay("class_a") <= delay("class_b"))
  <2>1. delay("class_b") < delay("class_a")
    BY <1>1, <1>7 DEF Shaped
  <2> QED
    BY <1>3, <1>7, <2>1 DEF RecoversFirst, Shaped
<1> QED
  BY <1>4, <1>5, <1>6, <1>7

-----------------------------------------------------------------------------
(* No wakeup is lost                                                       *)

(* A port with a frame but nothing eligible waits for a credit. *)
LEMMA WaitingMeansRecovering ==
  ASSUME NEW pending, NEW cr \in [Shaped -> Int],
         NEW c \in TrafficClass, pending[c] # <<>>, Eligible(pending, cr) = {}
  PROVE  Recovering(pending, cr) # {}
<1>1. c \in Shaped /\ ~(cr[c] >= 0)
  BY DEF Eligible, CanTransmitWithCredit, TrafficClass, Shaped
<1>2. cr[c] < 0
  BY <1>1
<1> QED
  BY <1>1, <1>2 DEF Recovering

(* schedule_next_transmission leaves its port awake. *)
LEMMA SchedulerLeavesAwake ==
  ASSUME TypeOK, case' = case, clock' \in Nat,
         NEW e, NEW l \in Link, NEW cr \in [Shaped -> Int],
         NEW starts \in [Link -> Nat \cup {None}],
         NEW wakes \in [Link -> [Shaped -> Nat \cup {None}]],
         NEW pushed,
         ScheduleNextTransmission(e, l, cr, starts, wakes, pushed)
  PROVE  Awake(l)'
<1>1. /\ credit'[l] = cr /\ syncedAt'[l] = clock'
  BY DEF ScheduleNextTransmission, TypeOK
<1>2. \A c \in Shaped : case.slopes[c].idle \in Nat \ {0}
  BY SlopeFacts
<1>3. None \notin Nat
  BY NoneAssumption
<1>4. \A c \in Shaped : RecoveryTime(l, c, cr) \in Nat
  BY <1>2, RecoveryDelayNat DEF RecoveryTime
<1>5. SUFFICES ASSUME onWire'[l] = None,
                      NEW q \in TrafficClass, queue'[l][q] # <<>>,
                      startAt'[l] = None
               PROVE  /\ Eligible(queue'[l], cr) = {}
                      /\ \E c \in Shaped :
                           /\ wakeAt'[l][c] # None
                           /\ \A d \in Recovering(queue'[l], cr) :
                                NotYetRecovered(l, d, wakeAt[l][c])'
  BY <1>1 DEF Awake
<1>6. Eligible(queue'[l], cr) = {}
  <2>1. ~NeedsStart(l, cr, starts[l])
    BY <1>3, <1>5 DEF ScheduleNextTransmission, NeedsStart, NeedsWakeup
  <2>2. starts[l] = startAt'[l]
    BY <1>3, <1>5, <2>1 DEF ScheduleNextTransmission
  <2> QED
    BY <1>5, <2>1, <2>2 DEF NeedsStart, Requested
<1>7. PICK c \in Shaped : RecoversFirst(c, queue'[l], cr, case.slopes)
  BY <1>2, <1>5, <1>6, WaitingMeansRecovering, SomeClassRecoversFirst
<1>8. ASSUME NEW b \in Shaped, RecoversFirst(b, queue'[l], cr, case.slopes),
             wakeAt'[l][b] \in Nat, wakeAt'[l][b] <= RecoveryTime(l, b, cr)
      PROVE  \A d \in Recovering(queue'[l], cr) : NotYetRecovered(l, d, wakeAt[l][b])'
  <2> SUFFICES ASSUME NEW d \in Recovering(queue'[l], cr)
               PROVE  NotYetRecovered(l, d, wakeAt[l][b])'
    OBVIOUS
  <2> DEFINE t == wakeAt'[l][b] - clock'
             idle == case.slopes[d].idle
  <2>1. d \in Shaped /\ cr[d] \in Int /\ cr[d] < 0 /\ idle \in Nat \ {0}
    BY <1>2 DEF Recovering
  <2>2. RecoveryDelay(cr[b], case.slopes[b].idle) <= RecoveryDelay(cr[d], idle)
    <3>1. /\ RecoveryDelay(cr[b], case.slopes[b].idle) \in Nat
          /\ RecoveryDelay(cr[d], idle) \in Nat
      BY <1>2, <2>1, RecoveryDelayNat
    <3> QED
      BY <1>8, <3>1 DEF RecoversFirst
  <2>3. t \in Int /\ t <= RecoveryDelay(cr[d], idle)
    <3>1. /\ RecoveryDelay(cr[b], case.slopes[b].idle) \in Nat
          /\ RecoveryDelay(cr[d], idle) \in Nat
      BY <1>2, <2>1, RecoveryDelayNat
    <3> QED
      BY <1>8, <2>2, <3>1 DEF RecoveryTime
  <2>4. cr[d] + idle * (t - 1) < 0
    BY <2>1, <2>3, RecoveryDelayOrder
  <2>5. wakeAt'[l][b] - 1 - clock' = t - 1
    BY <1>8
  <2> QED
    BY <1>1, <2>4, <2>5 DEF NotYetRecovered
<1>9. \E b \in Shaped : /\ RecoversFirst(b, queue'[l], cr, case.slopes)
                        /\ wakeAt'[l][b] \in Nat
                        /\ wakeAt'[l][b] <= RecoveryTime(l, b, cr)
  <2>1. CASE \E b \in Shaped :
               /\ NeedsWakeup(l, b, cr, wakes[l][b])
               /\ wakeAt' = [wakes EXCEPT ![l][b] = RecoveryTime(l, b, cr)]
    <3>1. PICK b \in Shaped :
               /\ NeedsWakeup(l, b, cr, wakes[l][b])
               /\ wakeAt' = [wakes EXCEPT ![l][b] = RecoveryTime(l, b, cr)]
      BY <2>1
    <3>2. wakeAt'[l][b] = RecoveryTime(l, b, cr)
      BY <3>1
    <3> QED
      BY <1>4, <3>1, <3>2 DEF NeedsWakeup
  <2>2. CASE /\ \A b \in Shaped : ~NeedsWakeup(l, b, cr, wakes[l][b])
             /\ wakeAt' = wakes
    <3>1. Requested(wakes[l][c], RecoveryTime(l, c, cr))
      BY <1>5, <1>6, <1>7, <2>2 DEF NeedsWakeup
    <3>2. wakes[l][c] \in Nat /\ wakes[l][c] <= RecoveryTime(l, c, cr)
      BY <3>1 DEF Requested
    <3> QED
      BY <1>7, <2>2, <3>2
  <2>3. ~NeedsStart(l, cr, starts[l])
    BY <1>6 DEF NeedsStart
  <2> QED
    BY <2>1, <2>2, <2>3 DEF ScheduleNextTransmission
<1> QED
  <2>1. PICK b \in Shaped : /\ RecoversFirst(b, queue'[l], cr, case.slopes)
                            /\ wakeAt'[l][b] \in Nat
                            /\ wakeAt'[l][b] <= RecoveryTime(l, b, cr)
    BY <1>9
  <2> QED
    BY <1>3, <1>6, <1>8, <2>1

(* A step leaves port k as it is. *)
SamePort(k) ==
  /\ queue'[k] = queue[k]
  /\ credit'[k] = credit[k]
  /\ syncedAt'[k] = syncedAt[k]
  /\ onWire'[k] = onWire[k]
  /\ startAt'[k] = startAt[k]
  /\ wakeAt'[k] = wakeAt[k]

(* A port that a step leaves as it is stays awake. *)
LEMMA SamePortStaysAwake ==
  ASSUME case' = case, NEW k \in Link, SamePort(k), Awake(k)
  PROVE  Awake(k)'
BY DEF SamePort, Awake, NotYetRecovered

(* schedule_next_transmission leaves every other port as it is. *)
LEMMA SchedulerSamePort ==
  ASSUME TypeOK, NEW e, NEW l \in Link, NEW cr,
         NEW starts \in [Link -> Nat \cup {None}],
         NEW wakes \in [Link -> [Shaped -> Nat \cup {None}]],
         NEW pushed, ScheduleNextTransmission(e, l, cr, starts, wakes, pushed),
         NEW k \in Link \ {l}, starts[k] = startAt[k], wakes[k] = wakeAt[k],
         queue'[k] = queue[k], onWire'[k] = onWire[k]
  PROVE  SamePort(k)
<1>1. credit'[k] = credit[k] /\ syncedAt'[k] = syncedAt[k]
  BY DEF ScheduleNextTransmission, TypeOK
<1>2. startAt'[k] = starts[k]
  BY DEF ScheduleNextTransmission
<1>3. wakeAt'[k] = wakes[k]
  BY DEF ScheduleNextTransmission
<1> QED
  BY <1>1, <1>2, <1>3 DEF SamePort

(* The handlers that leave the ports alone, and those that touch one port. *)
LEMMA PortsUntouched ==
  ASSUME TypeOK, UNCHANGED portVars, NEW k \in Link
  PROVE  SamePort(k)
BY DEF portVars, SamePort

(* enqueue_frame changes the port of its link only. *)
LEMMA EnqueueTouchesOnePort ==
  ASSUME TypeOK, NEW e \in events, NEW f \in DOMAIN frames, NEW l \in Link,
         HandleEnqueue(e, f, l), NEW k \in Link \ {l}
  PROVE  SamePort(k)
<1>1. /\ queue'[k] = queue[k] /\ onWire'[k] = onWire[k]
      /\ ScheduleNextTransmission(e, l, SyncedCredit(l, WireClass(l)), startAt, wakeAt, {})
  BY DEF HandleEnqueue, TypeOK
<1>2. /\ startAt \in [Link -> Nat \cup {None}]
      /\ wakeAt \in [Link -> [Shaped -> Nat \cup {None}]]
  BY DEF TypeOK
<1> QED
  BY <1>1, <1>2, SchedulerSamePort, Zenon

(* finish_transmission changes the port of its link only. *)
LEMMA EndTouchesOnePort ==
  ASSUME TypeOK, NEW e \in events, NEW f \in DOMAIN frames, NEW l \in Link,
         HandleEnd(e, l, f), NEW k \in Link \ {l}
  PROVE  SamePort(k)
<1>1. /\ queue'[k] = queue[k] /\ onWire'[k] = onWire[k]
      /\ \E cr, pushed : ScheduleNextTransmission(e, l, cr, startAt, wakeAt, pushed)
  BY DEF HandleEnd, TypeOK
<1>2. /\ startAt \in [Link -> Nat \cup {None}]
      /\ wakeAt \in [Link -> [Shaped -> Nat \cup {None}]]
  BY DEF TypeOK
<1> QED
  BY <1>1, <1>2, SchedulerSamePort, Zenon

(* update_credit changes the port of its link only. *)
LEMMA CreditUpdateTouchesOnePort ==
  ASSUME TypeOK, NEW e \in events, NEW l \in Link, NEW c \in Shaped,
         HandleCreditUpdate(e, l, c), NEW k \in Link \ {l}
  PROVE  SamePort(k)
<1> DEFINE cleared == [wakeAt EXCEPT ![l][c] = None]
<1>1. /\ queue'[k] = queue[k] /\ onWire'[k] = onWire[k]
      /\ ScheduleNextTransmission(e, l, SyncedCredit(l, WireClass(l)), startAt, cleared, {})
  BY DEF HandleCreditUpdate
<1>2. /\ startAt \in [Link -> Nat \cup {None}]
      /\ cleared \in [Link -> [Shaped -> Nat \cup {None}]]
      /\ cleared[k] = wakeAt[k]
  BY DEF TypeOK
<1> HIDE DEF cleared
<1> QED
  BY <1>1, <1>2, SchedulerSamePort, Zenon

(* start_transmission changes the port of its link only. *)
LEMMA StartTouchesOnePort ==
  ASSUME TypeOK, NEW e \in events, NEW l \in Link, HandleStart(e, l),
         NEW k \in Link \ {l}
  PROVE  SamePort(k)
<1> DEFINE cleared == [startAt EXCEPT ![l] = None]
<1>1. /\ cleared \in [Link -> Nat \cup {None}] /\ cleared[k] = startAt[k]
      /\ wakeAt \in [Link -> [Shaped -> Nat \cup {None}]]
  BY DEF TypeOK
<1>2. CASE /\ startAt' = cleared
           /\ UNCHANGED <<queue, credit, syncedAt, onWire, wakeAt>>
  BY <1>1, <1>2 DEF SamePort
<1>3. CASE /\ UNCHANGED <<queue, onWire>>
           /\ ScheduleNextTransmission(e, l, SyncedCredit(l, NoClass), cleared, wakeAt, {})
  <2> HIDE DEF cleared
  <2> QED
    BY <1>1, <1>3, SchedulerSamePort, Zenon
<1>4. CASE /\ queue'[k] = queue[k] /\ onWire'[k] = onWire[k]
           /\ startAt' = cleared
           /\ UNCHANGED <<credit, syncedAt, wakeAt>>
  BY <1>1, <1>4 DEF SamePort
<1> QED
  BY <1>2, <1>3, <1>4 DEF HandleStart, TypeOK

(* The steps that hand an event to its handler. *)
LEMMA HandlersDispatch ==
  ASSUME NEW e \in events,
         \/ \E s \in Stream : HandleRelease(e, s)
         \/ \E f \in DOMAIN frames, l \in Link : HandleEnqueue(e, f, l)
         \/ \E l \in Link : HandleStart(e, l)
         \/ \E f \in DOMAIN frames, l \in Link : HandleEnd(e, l, f)
         \/ \E f \in DOMAIN frames : HandleForward(e, f)
         \/ \E f \in DOMAIN frames : HandleDelivery(e, f)
         \/ \E l \in Link, c \in Shaped : HandleCreditUpdate(e, l, c)
         \/ HandleFinalize(e)
  PROVE  Dispatch(e)
<1>1. \A s : HandleRelease(e, s) => Dispatch(e)
  BY DEF HandleRelease
<1>2. \A f, l : HandleEnqueue(e, f, l) => Dispatch(e)
  BY DEF HandleEnqueue
<1>3. \A l : HandleStart(e, l) => Dispatch(e)
  BY DEF HandleStart
<1>4. \A f, l : HandleEnd(e, l, f) => Dispatch(e)
  BY DEF HandleEnd
<1>5. \A f : (HandleForward(e, f) => Dispatch(e)) /\ (HandleDelivery(e, f) => Dispatch(e))
  BY DEF HandleForward, HandleDelivery
<1>6. \A l, c : HandleCreditUpdate(e, l, c) => Dispatch(e)
  BY DEF HandleCreditUpdate
<1>7. HandleFinalize(e) => Dispatch(e)
  BY DEF HandleFinalize
<1> QED
  BY <1>1, <1>2, <1>3, <1>4, <1>5, <1>6, <1>7

(* A step dispatches an event, stops before one, raises on one, or leaves. *)
LEMMA StepKinds ==
  ASSUME Next
  PROVE  \/ \E e \in events : Dispatch(e) \/ StopBefore(e) \/ Raise(e)
         \/ RunDry \/ Stop
BY HandlersDispatch DEF Next

(* Nothing happens once the loop has left. *)
LEMMA StepsRun ==
  ASSUME Next
  PROVE  Running
BY StepKinds DEF Dispatch, StopBefore, Raise, Pops, RunDry, Stop, Running

(* Every step of the loop leaves every port awake. *)
LEMMA AwakeStep ==
  ASSUME TypeOK, NoLostWakeup, [Next]_vars
  PROVE  NoLostWakeup'
<1> SUFFICES ASSUME Running', NEW k \in Link
             PROVE  Awake(k)'
  BY DEF NoLostWakeup
<1>1. CASE UNCHANGED vars
  <2>1. Running /\ case' = case /\ SamePort(k)
    BY <1>1 DEF vars, portVars, Running, SamePort
  <2> QED
    BY <2>1, SamePortStaysAwake DEF NoLostWakeup
<1> SUFFICES ASSUME Next
             PROVE  Awake(k)'
  BY <1>1
<1>2. Awake(k)
  BY StepsRun DEF NoLostWakeup
<1>3. ASSUME NEW e \in events, NEW s \in Stream, HandleRelease(e, s)
      PROVE  Awake(k)'
  BY <1>2, <1>3, PortsUntouched, SamePortStaysAwake DEF HandleRelease, Dispatch
<1>4. ASSUME NEW e \in events, NEW f \in DOMAIN frames, HandleForward(e, f)
      PROVE  Awake(k)'
  BY <1>2, <1>4, PortsUntouched, SamePortStaysAwake DEF HandleForward, Dispatch
<1>5. ASSUME NEW e \in events, NEW f \in DOMAIN frames, HandleDelivery(e, f)
      PROVE  Awake(k)'
  BY <1>2, <1>5, PortsUntouched, SamePortStaysAwake DEF HandleDelivery, Dispatch
<1>6. ASSUME NEW e \in events, NEW f \in DOMAIN frames, NEW l \in Link, HandleEnqueue(e, f, l)
      PROVE  Awake(k)'
  <2>1. Dispatch(e)
    BY <1>6 DEF HandleEnqueue
  <2>2. clock' \in Nat /\ case' = case
    BY <2>1, DispatchTypes
  <2>3. CASE k # l
    BY <1>2, <1>6, <2>2, <2>3, EnqueueTouchesOnePort, SamePortStaysAwake
  <2>4. CASE k = l
    <3>1. SyncedCredit(l, WireClass(l)) \in [Shaped -> Int]
      BY <2>2, SyncedCreditType
    <3>2. /\ startAt \in [Link -> Nat \cup {None}]
          /\ wakeAt \in [Link -> [Shaped -> Nat \cup {None}]]
      BY DEF TypeOK
    <3>3. ScheduleNextTransmission(e, l, SyncedCredit(l, WireClass(l)), startAt, wakeAt, {})
      BY <1>6 DEF HandleEnqueue
    <3> QED
      BY <2>2, <2>4, <3>1, <3>2, <3>3, SchedulerLeavesAwake, Zenon
  <2> QED
    BY <2>3, <2>4
<1>7. ASSUME NEW e \in events, NEW l \in Link, NEW c \in Shaped, HandleCreditUpdate(e, l, c)
      PROVE  Awake(k)'
  <2>1. Dispatch(e)
    BY <1>7 DEF HandleCreditUpdate
  <2>2. clock' \in Nat /\ case' = case
    BY <2>1, DispatchTypes
  <2>3. CASE k # l
    BY <1>2, <1>7, <2>2, <2>3, CreditUpdateTouchesOnePort, SamePortStaysAwake
  <2>4. CASE k = l
    <3>1. SyncedCredit(l, WireClass(l)) \in [Shaped -> Int]
      BY <2>2, SyncedCreditType
    <3>2. /\ startAt \in [Link -> Nat \cup {None}]
          /\ [wakeAt EXCEPT ![l][c] = None] \in [Link -> [Shaped -> Nat \cup {None}]]
      BY DEF TypeOK
    <3>3. ScheduleNextTransmission(e, l, SyncedCredit(l, WireClass(l)), startAt,
                                   [wakeAt EXCEPT ![l][c] = None], {})
      BY <1>7 DEF HandleCreditUpdate
    <3> QED
      BY <2>2, <2>4, <3>1, <3>2, <3>3, SchedulerLeavesAwake, Zenon
  <2> QED
    BY <2>3, <2>4
<1>8. ASSUME NEW e \in events, NEW f \in DOMAIN frames, NEW l \in Link, HandleEnd(e, l, f)
      PROVE  Awake(k)'
  <2>1. Dispatch(e)
    BY <1>8 DEF HandleEnd
  <2>2. clock' \in Nat /\ case' = case
    BY <2>1, DispatchTypes
  <2>3. CASE k # l
    BY <1>2, <1>8, <2>2, <2>3, EndTouchesOnePort, SamePortStaysAwake
  <2>4. CASE k = l
    <3>1. \E cr \in [Shaped -> Int] : \E pushed :
            ScheduleNextTransmission(e, l, cr, startAt, wakeAt, pushed)
      <4>1. SyncedCredit(l, WireClass(l)) \in [Shaped -> Int]
        BY <2>2, SyncedCreditType
      <4>2. \A d \in Shaped : case.slopes[d].idle \in Int /\ case.slopes[d].send \in Int
        BY SlopeFacts
      <4>3. SynchronizedCredit(SyncedCredit(l, WireClass(l)), 0, case.slopes, queue'[l], NoClass)
              \in [Shaped -> Int]
        BY <4>1, <4>2, SynchronizedCreditType
      <4> QED
        BY <1>8, <4>3 DEF HandleEnd
    <3>2. /\ startAt \in [Link -> Nat \cup {None}]
          /\ wakeAt \in [Link -> [Shaped -> Nat \cup {None}]]
      BY DEF TypeOK
    <3> QED
      BY <2>2, <2>4, <3>1, <3>2, SchedulerLeavesAwake, Zenon
  <2> QED
    BY <2>3, <2>4
<1>9. ASSUME NEW e \in events, NEW l \in Link, HandleStart(e, l)
      PROVE  Awake(k)'
  <2>1. Dispatch(e)
    BY <1>9 DEF HandleStart
  <2>2. clock' \in Nat /\ case' = case
    BY <2>1, DispatchTypes
  <2>3. CASE k # l
    BY <1>2, <1>9, <2>2, <2>3, StartTouchesOnePort, SamePortStaysAwake
  <2>4. CASE k = l /\ onWire'[l] # None
    BY <2>4 DEF Awake
  <2>5. CASE k = l /\ onWire'[l] = None
    <3> DEFINE cleared == [startAt EXCEPT ![l] = None]
    <3>1. \A c \in TrafficClass : IsCandidate(c, queue[l], credit[l]) => Head(queue[l][c]) # None
      <4> SUFFICES ASSUME NEW c \in TrafficClass, queue[l][c] # <<>>
                   PROVE  Head(queue[l][c]) # None
        BY DEF IsCandidate, Eligible
      <4>1. Head(queue[l][c]) \in Frame
        BY DEF TypeOK
      <4> QED
        BY <4>1, NoneAssumption DEF Frame
    <3>2. ScheduleNextTransmission(e, l, SyncedCredit(l, NoClass), cleared, wakeAt, {})
      BY <1>9, <2>5, <3>1 DEF HandleStart, TypeOK
    <3>3. /\ SyncedCredit(l, NoClass) \in [Shaped -> Int]
          /\ cleared \in [Link -> Nat \cup {None}]
          /\ wakeAt \in [Link -> [Shaped -> Nat \cup {None}]]
      BY <2>2, SyncedCreditType DEF TypeOK
    <3> HIDE DEF cleared
    <3> QED
      BY <2>2, <2>5, <3>2, <3>3, SchedulerLeavesAwake, Zenon
  <2> QED
    BY <2>3, <2>4, <2>5
<1> QED
  BY <1>3, <1>4, <1>5, <1>6, <1>7, <1>8, <1>9
  DEF Next, Running, HandleFinalize, LeaveLoop, StopBefore, Raise, RunDry, Stop

(* No wakeup is lost, whatever the case: an idle port with waiting frames   *)
(* has a start pending, or a credit wakeup no later than the first recovery.*)
THEOREM NoWakeupIsLost == Spec => []NoLostWakeup
<1>1. Init => NoLostWakeup
  BY DEF Init, NoLostWakeup, Awake
<1>2. TypeOK /\ NoLostWakeup /\ [Next]_vars => NoLostWakeup'
  BY AwakeStep
<1> QED
  BY <1>1, <1>2, TypeCorrect, PTL DEF Spec

-----------------------------------------------------------------------------
(* Tasks                                                                   *)

(* The kind of a task and the fields it carries. *)
LEMMA TaskFields ==
  /\ \A s : ReleaseFrame(s).kind = "RELEASE_FRAME" /\ ReleaseFrame(s).stream = s
  /\ \A f, l : EnqueueFrame(f, l).kind = "ENQUEUE_FRAME"
  /\ \A l : /\ TransmissionStart(l).kind = "TRANSMISSION_START"
            /\ TransmissionStart(l).link = l
  /\ \A l, f : /\ TransmissionEnd(l, f).kind = "TRANSMISSION_END"
               /\ TransmissionEnd(l, f).link = l
               /\ TransmissionEnd(l, f).frame = f
  /\ \A f : ForwardFrame(f).kind = "FORWARD_FRAME"
  /\ \A f : DeliveryComplete(f).kind = "DELIVERY_COMPLETE"
  /\ \A l, c : /\ CreditUpdate(l, c).kind = "CREDIT_UPDATE"
               /\ CreditUpdate(l, c).link = l
               /\ CreditUpdate(l, c).class = c
  /\ FinalizeRun.kind = "FINALIZE_RUN"
BY DEF ReleaseFrame, EnqueueFrame, TransmissionStart, TransmissionEnd,
       ForwardFrame, DeliveryComplete, CreditUpdate, FinalizeRun

(* A scheduled event has the time and the task it was pushed with. *)
LEMMA ScheduledFields ==
  ASSUME NEW at, NEW nth, NEW task
  PROVE  Scheduled(at, nth, task).at = at /\ Scheduled(at, nth, task).task = task
BY DEF Scheduled

-----------------------------------------------------------------------------
(* The invariant                                                           *)

(* A stream has one release pending at most, at its next period. *)
ReleaseInTime(s) ==
  /\ PendingOnce(ReleaseFrame(s))
  /\ \A e \in events : e.task = ReleaseFrame(s) => e.at = released[s] * case.period[s]

(* A credit wakeup is never later than the recovery it waits for, so that   *)
(* no earlier one is ever requested besides it.                            *)
WakeupInTime(l) ==
  \A c \in Shaped : wakeAt[l][c] # None =>
    wakeAt[l][c] <= syncedAt[l] + RecoveryDelay(credit[l][c], case.slopes[c].idle)

PortInv(l) ==
  /\ PortMatchesEvents(l)
  /\ FreshStart(l)
  /\ WakeupInTime(l)
  /\ syncedAt[l] <= clock

EngineInv ==
  /\ TypeOK
  /\ EventsNotInPast
  /\ Running => /\ \A l \in Link : PortInv(l)
                /\ \A s \in Stream : ReleaseInTime(s)

-----------------------------------------------------------------------------
(* Events                                                                  *)

(* The popped event is the earliest one. *)
LEMMA NextIsEarliest ==
  ASSUME TypeOK, NEW e, IsNext(e), NEW x \in events
  PROVE  e.at \in Nat /\ x.at \in Nat /\ e.at <= x.at
<1>1. e.at \in Nat /\ x.at \in Nat
  BY DEF TypeOK, IsNext, Event
<1>2. CASE x = e
  BY <1>1, <1>2
<1>3. CASE x # e
  <2>1. Precedes(e, x)
    BY <1>3 DEF IsNext
  <2> QED
    BY <1>1, <2>1 DEF Precedes
<1> QED
  BY <1>1, <1>2, <1>3

(* No event is left behind by a handler that pushes none into the past. *)
LEMMA PushedNotInPast ==
  ASSUME TypeOK, NEW e, Dispatch(e), NEW new, Push(e, new),
         \A n \in new : clock' <= n.at
  PROVE  \A x \in events' : clock' <= x.at
<1> SUFFICES ASSUME NEW x \in events'
             PROVE  clock' <= x.at
  OBVIOUS
<1>1. CASE x \in new
  BY <1>1
<1>2. CASE x \in events
  BY <1>2, NextIsEarliest, DispatchTypes DEF Dispatch, Pops
<1> QED
  BY <1>1, <1>2 DEF Push

(* Marks, of a set of events: the pending ones, those left when one is      *)
(* popped, or those pending after the step.                                *)
MarksIn(evs, m, task) ==
  /\ \A x \in evs : x.task = task => x.at = m
  /\ m # None => \E x \in evs : x.task = task
  /\ \A x, y \in evs : x.task = task /\ y.task = task => x = y

(* Marks is MarksIn of the pending events, before and after a step. *)
LEMMA MarksAreMarksIn ==
  /\ \A k : /\ Marks(startAt[k], TransmissionStart(k))
                 <=> MarksIn(events, startAt[k], TransmissionStart(k))
            /\ Marks(startAt[k], TransmissionStart(k))'
                 <=> MarksIn(events', startAt'[k], TransmissionStart(k))
  /\ \A k, c : /\ Marks(wakeAt[k][c], CreditUpdate(k, c))
                    <=> MarksIn(events, wakeAt[k][c], CreditUpdate(k, c))
               /\ Marks(wakeAt[k][c], CreditUpdate(k, c))'
                    <=> MarksIn(events', wakeAt'[k][c], CreditUpdate(k, c))
BY DEF Marks, MarksIn, Pending, PendingOnce, TransmissionStart, CreditUpdate

(* Popping an event with another task leaves a marker right. *)
LEMMA MarksStay ==
  ASSUME NEW evs, NEW m, NEW task, MarksIn(evs, m, task), NEW e, e.task # task
  PROVE  MarksIn(evs \ {e}, m, task)
BY DEF MarksIn

(* Popping the event a marker stands for leaves it to be cleared. *)
LEMMA MarksDropped ==
  ASSUME NEW evs, NEW m, NEW task, MarksIn(evs, m, task), NEW e \in evs, e.task = task
  PROVE  MarksIn(evs \ {e}, None, task)
BY DEF MarksIn

(* Pushing other tasks leaves a marker right. *)
LEMMA MarksKept ==
  ASSUME NEW evs, NEW m, NEW task, MarksIn(evs, m, task),
         NEW new, \A n \in new : n.task # task
  PROVE  MarksIn(evs \cup new, m, task)
BY DEF MarksIn

(* A clear marker is right again when set to the time of the pushed event. *)
LEMMA MarksSet ==
  ASSUME NEW evs, NEW m, NEW task, MarksIn(evs, None, task),
         NEW new, \A n \in new : n.task # task,
         NEW x, x.task = task, x.at = m,
         \A y \in evs : y.at # None
  PROVE  MarksIn(evs \cup (new \cup {x}), m, task)
BY DEF MarksIn

(* The same of the transmission a port has under way. *)
Once(evs, task) ==
  /\ \E x \in evs : x.task = task
  /\ \A x, y \in evs : x.task = task /\ y.task = task => x = y

WireIn(evs, l, wire) ==
  /\ \A x \in evs :
       x.task.kind = "TRANSMISSION_END" /\ x.task.link = l => x.task.frame = wire
  /\ wire # None => Once(evs, TransmissionEnd(l, wire))

(* WireMatchesEvents is WireIn of the pending events. *)
LEMMA WireIsWireIn ==
  \A k : /\ WireMatchesEvents(k) <=> WireIn(events, k, onWire[k])
         /\ WireMatchesEvents(k)' <=> WireIn(events', k, onWire'[k])
BY DEF WireMatchesEvents, WireIn, Once, Pending, PendingOnce, TransmissionEnd

(* Popping anything but an end on this link leaves its wire right. *)
LEMMA WireStays ==
  ASSUME NEW evs, NEW l, NEW wire, WireIn(evs, l, wire),
         NEW e, ~(e.task.kind = "TRANSMISSION_END" /\ e.task.link = l)
  PROVE  WireIn(evs \ {e}, l, wire)
BY TaskFields DEF WireIn, Once

(* Pushing anything but an end on this link leaves its wire right. *)
LEMMA WireKept ==
  ASSUME NEW evs, NEW l, NEW wire, WireIn(evs, l, wire),
         NEW new, \A n \in new : ~(n.task.kind = "TRANSMISSION_END" /\ n.task.link = l)
  PROVE  WireIn(evs \cup new, l, wire)
BY TaskFields DEF WireIn, Once

-----------------------------------------------------------------------------
(* Credits                                                                 *)

(* A credit grows by no more than its idle slope earns in the interval. *)
LEMMA IntegratedCredit ==
  ASSUME NEW cr \in Int, NEW elapsed \in Nat, NEW slope,
         slope.idle \in Nat \ {0}, slope.send \in Nat \ {0},
         NEW transmitting, NEW blocked,
         NEW moved, moved = IntegrateCredit(cr, elapsed, slope, transmitting, blocked)
  PROVE  /\ moved \in Int
         /\ moved <= cr + slope.idle * elapsed
         /\ elapsed = 0 => moved = cr
<1> DEFINE earned == slope.idle * elapsed
           spent == slope.send * elapsed
<1>1. /\ earned \in Nat /\ spent \in Nat
      /\ elapsed = 0 => earned = 0 /\ spent = 0
  OBVIOUS
<1>2. \/ moved = cr - spent
      \/ moved = cr + earned
      \/ cr < 0 /\ cr + earned > 0 /\ moved = 0
      \/ moved = cr
  BY DEF IntegrateCredit
<1> HIDE DEF earned, spent
<1>3. /\ moved \in Int
      /\ moved <= cr + earned
      /\ elapsed = 0 => moved = cr
  BY <1>1, <1>2
<1> QED
  BY <1>3 DEF earned

(* Synchronizing a credit never brings its recovery forward.               *)
LEMMA RecoveryNotHastened ==
  ASSUME NEW before \in Int, NEW after \in Int, NEW elapsed \in Nat,
         NEW idle \in Nat \ {0},
         \/ after < 0 /\ after <= before + idle * elapsed
         \/ after >= 0 /\ (0 <= before \/ 0 <= before + idle * elapsed)
  PROVE  RecoveryDelay(before, idle) <= elapsed + RecoveryDelay(after, idle)
<1> DEFINE d == RecoveryDelay(before, idle)
           r == RecoveryDelay(after, idle)
<1>1. d \in Nat /\ r \in Nat
  BY RecoveryDelayNat
<1>2. CASE before >= 0
  BY <1>1, <1>2 DEF RecoveryDelay
<1>3. CASE before < 0
  <2>1. d \in Nat /\ before + idle * (d - 1) < 0
    BY <1>3, RecoveryDelayLeast
  <2>2. before + idle * elapsed + idle * r >= 0
    <3>1. idle * elapsed \in Int /\ idle * r \in Nat
      BY <1>1
    <3>2. CASE after < 0
      <4>1. after + idle * r >= 0
        BY <3>2, RecoveryDelayLeast
      <4> HIDE DEF r
      <4> QED
        BY <3>1, <3>2, <4>1
    <3>3. CASE after >= 0
      <4> HIDE DEF r
      <4> QED
        BY <1>3, <3>1, <3>3
    <3> QED
      BY <3>2, <3>3
  <2>3. before + idle * (elapsed + r) >= 0
    <3>1. idle * elapsed + idle * r = idle * (elapsed + r)
      BY <1>1
    <3>2. idle * elapsed \in Int /\ idle * r \in Int /\ idle * (elapsed + r) \in Int
      BY <1>1
    <3> HIDE DEF r
    <3> QED
      BY <2>2, <3>1, <3>2
  <2>4. d <= elapsed + r
    <3> SUFFICES ASSUME elapsed + r <= d - 1
                 PROVE  FALSE
      BY <1>1
    <3>1. elapsed + r \in Int /\ d - 1 \in Int
      BY <1>1
    <3> DEFINE m == elapsed + r
               n == d - 1
    <3> HIDE DEF m, n, d, r
    <3>2. m \in Int /\ n \in Int /\ m <= n
      BY <3>1 DEF m, n
    <3>3. idle * m \in Int /\ idle * n \in Int /\ idle * m <= idle * n
      BY <3>2, ProductMonotone
    <3>4. before + idle * m >= 0 /\ before + idle * n < 0
      BY <2>1, <2>3 DEF m, n
    <3> QED
      BY <3>3, <3>4
  <2> QED
    BY <2>4
<1> QED
  BY <1>2, <1>3

(* Nor does it change the credit of a class with frames when no time has   *)
(* passed.                                                                 *)
LEMMA SynchronizedCreditFacts ==
  ASSUME NEW cr \in [Shaped -> Int], NEW elapsed \in Nat, NEW slopes,
         \A c \in Shaped : /\ slopes[c].idle \in Nat \ {0}
                           /\ slopes[c].send \in Nat \ {0},
         NEW pending, NEW wire,
         NEW after, after = SynchronizedCredit(cr, elapsed, slopes, pending, wire)
  PROVE  \A c \in Shaped :
           /\ RecoveryDelay(cr[c], slopes[c].idle)
                <= elapsed + RecoveryDelay(after[c], slopes[c].idle)
           /\ elapsed = 0 /\ pending[c] # <<>> => after[c] = cr[c]
<1> SUFFICES ASSUME NEW c \in Shaped, NEW new, new = after[c]
             PROVE  /\ RecoveryDelay(cr[c], slopes[c].idle)
                         <= elapsed + RecoveryDelay(new, slopes[c].idle)
                    /\ elapsed = 0 /\ pending[c] # <<>> => new = cr[c]
  OBVIOUS
<1> DEFINE idle == slopes[c].idle
           moved == IntegrateCredit(cr[c], elapsed, slopes[c], wire = c,
                                    wire = "best_effort" /\ pending[c] # <<>>)
<1>1. new = NormalizeIdlePositiveCredit(moved, pending, wire, c)
  BY DEF SynchronizedCredit
<1>2. /\ moved \in Int
      /\ moved <= cr[c] + idle * elapsed
      /\ elapsed = 0 => moved = cr[c]
  BY IntegratedCredit
<1>3. /\ idle \in Nat \ {0} /\ cr[c] \in Int /\ idle * elapsed \in Nat
  OBVIOUS
<1> HIDE DEF moved, idle
<1>4. /\ new \in Int
      /\ \/ new < 0 /\ new <= cr[c] + idle * elapsed
         \/ new >= 0 /\ (0 <= cr[c] \/ 0 <= cr[c] + idle * elapsed)
      /\ elapsed = 0 /\ pending[c] # <<>> => new = cr[c]
  BY <1>1, <1>2, <1>3 DEF NormalizeIdlePositiveCredit
<1>5. RecoveryDelay(cr[c], idle) <= elapsed + RecoveryDelay(new, idle)
  BY <1>3, <1>4, RecoveryNotHastened
<1> QED
  BY <1>4, <1>5 DEF idle

(* Credits synchronized twice at one instant leave an eligible class        *)
(* eligible.                                                               *)
LEMMA EligibleKept ==
  ASSUME NEW cr, NEW new, NEW before, NEW after,
         \A c \in TrafficClass : before[c] # <<>> => after[c] # <<>>,
         \A c \in Shaped : after[c] # <<>> => new[c] = cr[c],
         Eligible(before, cr) # {}
  PROVE  Eligible(after, new) # {}
BY DEF Eligible

(* Synchronizing port l keeps its wakeups in time, and at one instant the   *)
(* credits of its classes with frames.                                     *)
LEMMA SyncedFacts ==
  ASSUME TypeOK, NEW e, Dispatch(e), NEW l \in Link, syncedAt[l] <= clock',
         NEW wire, NEW cr, cr = SyncedCredit(l, wire)
  PROVE  /\ cr \in [Shaped -> Int]
         /\ \A c \in Shaped :
              RecoveryDelay(credit[l][c], case.slopes[c].idle) + syncedAt[l]
                <= RecoveryTime(l, c, cr)
         /\ syncedAt[l] = clock' =>
              \A c \in Shaped : queue'[l][c] # <<>> => cr[c] = credit[l][c]
<1> DEFINE elapsed == clock' - syncedAt[l]
<1>1. clock' \in Nat /\ syncedAt[l] \in Nat /\ elapsed \in Nat /\ credit[l] \in [Shaped -> Int]
  BY DispatchTypes DEF TypeOK
<1>2. \A c \in Shaped : /\ case.slopes[c].idle \in Nat \ {0}
                        /\ case.slopes[c].send \in Nat \ {0}
  BY SlopeFacts
<1>3. cr = SynchronizedCredit(credit[l], elapsed, case.slopes, queue'[l], wire)
  BY DEF SyncedCredit
<1>4. cr \in [Shaped -> Int]
  BY <1>1, SyncedCreditType
<1> SUFFICES ASSUME NEW c \in Shaped
             PROVE  /\ RecoveryDelay(credit[l][c], case.slopes[c].idle) + syncedAt[l]
                         <= RecoveryTime(l, c, cr)
                    /\ syncedAt[l] = clock' /\ queue'[l][c] # <<>> => cr[c] = credit[l][c]
  BY <1>4
<1> HIDE DEF elapsed
<1>5. /\ RecoveryDelay(credit[l][c], case.slopes[c].idle)
           <= elapsed + RecoveryDelay(cr[c], case.slopes[c].idle)
      /\ elapsed = 0 /\ queue'[l][c] # <<>> => cr[c] = credit[l][c]
  <2> DEFINE before == credit[l]
             slopes == case.slopes
             pending == queue'[l]
  <2>1. /\ before \in [Shaped -> Int] /\ elapsed \in Nat
        /\ \A d \in Shaped : slopes[d].idle \in Nat \ {0} /\ slopes[d].send \in Nat \ {0}
        /\ cr = SynchronizedCredit(before, elapsed, slopes, pending, wire)
    BY <1>1, <1>2, <1>3
  <2> HIDE DEF before, slopes, pending
  <2>2. \A d \in Shaped :
          /\ RecoveryDelay(before[d], slopes[d].idle)
               <= elapsed + RecoveryDelay(cr[d], slopes[d].idle)
          /\ elapsed = 0 /\ pending[d] # <<>> => cr[d] = before[d]
    BY <2>1, SynchronizedCreditFacts
  <2> QED
    BY <2>2 DEF before, slopes, pending
<1>6. /\ RecoveryDelay(credit[l][c], case.slopes[c].idle) \in Nat
      /\ RecoveryDelay(cr[c], case.slopes[c].idle) \in Nat
  BY <1>1, <1>2, <1>4, RecoveryDelayNat
<1> QED
  BY <1>1, <1>5, <1>6 DEF elapsed, RecoveryTime

-----------------------------------------------------------------------------
(* Ports                                                                   *)

(* A task that concerns port l. *)
Concerns(task, l) ==
  \/ task = TransmissionStart(l)
  \/ \E c \in Shaped : task = CreditUpdate(l, c)
  \/ task.kind = "TRANSMISSION_END" /\ task.link = l

(* No time passes while a start is pending. *)
LEMMA TimeStands ==
  ASSUME TypeOK, NEW e, Dispatch(e), NEW k \in Link,
         PortMatchesEvents(k), FreshStart(k), startAt[k] # None
  PROVE  clock' = clock
<1>1. PICK x \in events : x.task = TransmissionStart(k)
  BY DEF PortMatchesEvents, Marks, Pending
<1>2. x.at = clock
  BY <1>1 DEF PortMatchesEvents, Marks, FreshStart
<1>3. IsNext(e) /\ clock' = e.at /\ ~(e.at < clock) /\ clock \in Nat
  BY DEF Dispatch, Pops, Raises, TypeOK
<1>4. e.at \in Nat /\ e.at <= x.at
  BY <1>3, NextIsEarliest
<1> QED
  BY <1>2, <1>3, <1>4

(* A handler keeps the invariant of a port it has nothing to do with. *)
LEMMA PortUntouched ==
  ASSUME TypeOK, NEW e, Dispatch(e), NEW k \in Link, PortInv(k), SamePort(k),
         NEW new, Push(e, new), ~Concerns(e.task, k),
         \A n \in new : ~Concerns(n.task, k)
  PROVE  PortInv(k)'
<1>1. case' = case /\ clock' \in Nat /\ clock \in Nat /\ clock <= clock'
  BY DispatchTypes DEF Dispatch, Raises, TypeOK
<1>2. /\ MarksIn(events, startAt[k], TransmissionStart(k))
      /\ \A c \in Shaped : MarksIn(events, wakeAt[k][c], CreditUpdate(k, c))
      /\ WireIn(events, k, onWire[k])
  BY MarksAreMarksIn, WireIsWireIn DEF PortInv, PortMatchesEvents
<1>3. MarksIn(events', startAt'[k], TransmissionStart(k))
  <2>1. MarksIn(events \ {e}, startAt[k], TransmissionStart(k))
    BY <1>2, MarksStay DEF Concerns
  <2>2. MarksIn((events \ {e}) \cup new, startAt[k], TransmissionStart(k))
    BY <2>1, MarksKept DEF Concerns
  <2> QED
    BY <2>2 DEF SamePort, Push
<1>4. ASSUME NEW c \in Shaped
      PROVE  MarksIn(events', wakeAt'[k][c], CreditUpdate(k, c))
  <2>1. MarksIn(events \ {e}, wakeAt[k][c], CreditUpdate(k, c))
    BY <1>2, MarksStay DEF Concerns
  <2>2. MarksIn((events \ {e}) \cup new, wakeAt[k][c], CreditUpdate(k, c))
    BY <2>1, MarksKept DEF Concerns
  <2> QED
    BY <2>2 DEF SamePort, Push
<1>5. WireIn(events', k, onWire'[k])
  <2>1. WireIn(events \ {e}, k, onWire[k])
    BY <1>2, WireStays DEF Concerns
  <2>2. WireIn((events \ {e}) \cup new, k, onWire[k])
    BY <2>1, WireKept DEF Concerns
  <2> QED
    BY <2>2 DEF SamePort, Push
<1>6. PortMatchesEvents(k)'
  BY <1>3, <1>4, <1>5, MarksAreMarksIn, WireIsWireIn DEF PortMatchesEvents
<1>7. FreshStart(k)'
  <2>1. startAt[k] # None => clock' = clock
    BY TimeStands DEF PortInv
  <2> QED
    BY <2>1 DEF PortInv, FreshStart, SamePort
<1>8. WakeupInTime(k)'
  BY <1>1 DEF PortInv, WakeupInTime, SamePort
<1>9. (syncedAt[k] <= clock)'
  <2>1. syncedAt[k] \in Nat /\ syncedAt[k] <= clock /\ syncedAt'[k] = syncedAt[k]
    BY DEF PortInv, SamePort, TypeOK
  <2> QED
    BY <1>1, <2>1
<1> QED
  BY <1>6, <1>7, <1>8, <1>9 DEF PortInv

(* schedule_next_transmission establishes the invariant of its port from    *)
(* what the handler leaves of the other events and markers.                *)
LEMMA SchedulerKeepsPort ==
  ASSUME TypeOK, NEW e, Dispatch(e), NEW l \in Link, NEW cr \in [Shaped -> Int],
         NEW starts \in [Link -> Nat \cup {None}],
         NEW wakes \in [Link -> [Shaped -> Nat \cup {None}]],
         NEW pushed, \A n \in pushed : ~Concerns(n.task, l),
         ScheduleNextTransmission(e, l, cr, starts, wakes, pushed),
         MarksIn(events \ {e}, starts[l], TransmissionStart(l)),
         \A c \in Shaped : MarksIn(events \ {e}, wakes[l][c], CreditUpdate(l, c)),
         WireIn(events \ {e}, l, onWire'[l]),
         starts[l] # None => /\ starts[l] = clock'
                             /\ onWire'[l] = None
                             /\ Eligible(queue'[l], cr) # {},
         \A c \in Shaped : wakes[l][c] # None => wakes[l][c] <= RecoveryTime(l, c, cr)
  PROVE  PortInv(l)'
<1> DEFINE rest == events \ {e}
<1>1. /\ credit'[l] = cr /\ syncedAt'[l] = clock'
      /\ clock' \in Nat /\ case' = case
      /\ None \notin Nat
  BY DispatchTypes, NoneAssumption DEF ScheduleNextTransmission, TypeOK
<1>2. \A y \in rest : y.at # None
  BY <1>1 DEF TypeOK, Event
<1>3. \A c \in Shaped : RecoveryTime(l, c, cr) \in Nat
  <2>1. \A c \in Shaped : RecoveryDelay(cr[c], case.slopes[c].idle) \in Nat
    BY SlopeFacts, RecoveryDelayNat
  <2> QED
    BY <1>1, <2>1 DEF RecoveryTime
<1>4. /\ \A n \in pushed : n.task # TransmissionStart(l)
      /\ \A c \in Shaped : \A n \in pushed : n.task # CreditUpdate(l, c)
      /\ \A n \in pushed : ~(n.task.kind = "TRANSMISSION_END" /\ n.task.link = l)
  BY DEF Concerns
<1>5. SUFFICES /\ MarksIn(events', startAt'[l], TransmissionStart(l))
               /\ \A c \in Shaped : MarksIn(events', wakeAt'[l][c], CreditUpdate(l, c))
               /\ WireIn(events', l, onWire'[l])
               /\ FreshStart(l)'
               /\ \A c \in Shaped : wakeAt'[l][c] # None =>
                    wakeAt'[l][c] <= RecoveryTime(l, c, cr)
  <2>1. PortMatchesEvents(l)'
    BY <1>5, MarksAreMarksIn, WireIsWireIn DEF PortMatchesEvents
  <2>2. WakeupInTime(l)'
    BY <1>1, <1>5 DEF WakeupInTime, RecoveryTime
  <2>3. (syncedAt[l] <= clock)'
    BY <1>1
  <2> QED
    BY <1>5, <2>1, <2>2, <2>3 DEF PortInv
<1>6. CASE /\ NeedsStart(l, cr, starts[l])
           /\ startAt' = [starts EXCEPT ![l] = clock']
           /\ wakeAt' = wakes
           /\ Push(e, pushed \cup {Scheduled(clock', 1, TransmissionStart(l))})
  <2> DEFINE start == Scheduled(clock', 1, TransmissionStart(l))
  <2>1. start.at = clock' /\ start.task = TransmissionStart(l)
    BY ScheduledFields
  <2>2. starts[l] = None
    BY <1>1, <1>6 DEF NeedsStart, Requested
  <2>3. events' = rest \cup (pushed \cup {start})
    BY <1>6 DEF Push
  <2>4. startAt'[l] = clock'
    BY <1>6
  <2> HIDE DEF start, rest
  <2>5. MarksIn(events', startAt'[l], TransmissionStart(l))
    <3>1. MarksIn(rest, None, TransmissionStart(l))
      BY <2>2 DEF rest
    <3> QED
      BY <1>2, <1>4, <2>1, <2>3, <2>4, <3>1, MarksSet
  <2>6. ASSUME NEW c \in Shaped
        PROVE  MarksIn(events', wakeAt'[l][c], CreditUpdate(l, c))
    <3>1. MarksIn(rest, wakeAt'[l][c], CreditUpdate(l, c))
      BY <1>6 DEF rest
    <3>2. start.task # CreditUpdate(l, c)
      BY <2>1, TaskFields
    <3> QED
      BY <1>4, <2>3, <3>1, <3>2, MarksKept
  <2>7. WireIn(events', l, onWire'[l])
    <3>1. WireIn(rest, l, onWire'[l])
      BY DEF rest
    <3>2. start.task.kind # "TRANSMISSION_END"
      BY <2>1, TaskFields
    <3> QED
      BY <1>4, <2>3, <3>1, <3>2, WireKept
  <2>8. FreshStart(l)'
    BY <1>1, <1>6, <2>4 DEF FreshStart, NeedsStart
  <2>9. \A c \in Shaped : wakeAt'[l][c] # None => wakeAt'[l][c] <= RecoveryTime(l, c, cr)
    BY <1>6
  <2> QED
    BY <2>5, <2>6, <2>7, <2>8, <2>9
<1>7. CASE /\ \E c \in Shaped :
                /\ NeedsWakeup(l, c, cr, wakes[l][c])
                /\ wakeAt' = [wakes EXCEPT ![l][c] = RecoveryTime(l, c, cr)]
                /\ Push(e, pushed \cup
                           {Scheduled(RecoveryTime(l, c, cr), 1, CreditUpdate(l, c))})
           /\ startAt' = starts
  <2>1. PICK c \in Shaped :
               /\ NeedsWakeup(l, c, cr, wakes[l][c])
               /\ wakeAt' = [wakes EXCEPT ![l][c] = RecoveryTime(l, c, cr)]
               /\ Push(e, pushed \cup
                          {Scheduled(RecoveryTime(l, c, cr), 1, CreditUpdate(l, c))})
    BY <1>7
  <2> DEFINE wake == Scheduled(RecoveryTime(l, c, cr), 1, CreditUpdate(l, c))
  <2>2. wake.at = RecoveryTime(l, c, cr) /\ wake.task = CreditUpdate(l, c)
    BY ScheduledFields
  <2>3. wakes[l][c] = None
    BY <2>1 DEF NeedsWakeup, Requested
  <2>4. events' = rest \cup (pushed \cup {wake})
    BY <2>1 DEF Push
  <2>5. /\ wakeAt'[l][c] = RecoveryTime(l, c, cr)
        /\ \A d \in Shaped \ {c} : wakeAt'[l][d] = wakes[l][d]
    BY <2>1
  <2> HIDE DEF wake, rest
  <2>6. MarksIn(events', startAt'[l], TransmissionStart(l))
    <3>1. MarksIn(rest, startAt'[l], TransmissionStart(l))
      BY <1>7 DEF rest
    <3>2. wake.task # TransmissionStart(l)
      BY <2>2, TaskFields
    <3> QED
      BY <1>4, <2>4, <3>1, <3>2, MarksKept
  <2>7. ASSUME NEW d \in Shaped
        PROVE  MarksIn(events', wakeAt'[l][d], CreditUpdate(l, d))
    <3>1. MarksIn(rest, wakes[l][d], CreditUpdate(l, d))
      BY DEF rest
    <3>2. CASE d = c
      BY <1>2, <1>4, <2>2, <2>3, <2>4, <2>5, <3>1, <3>2, MarksSet
    <3>3. CASE d # c
      <4>1. wake.task # CreditUpdate(l, d)
        BY <2>2, <3>3, TaskFields
      <4> QED
        BY <1>4, <2>4, <2>5, <3>1, <3>3, <4>1, MarksKept
    <3> QED
      BY <3>2, <3>3
  <2>8. WireIn(events', l, onWire'[l])
    <3>1. WireIn(rest, l, onWire'[l])
      BY DEF rest
    <3>2. wake.task.kind # "TRANSMISSION_END"
      BY <2>2, TaskFields
    <3> QED
      BY <1>4, <2>4, <3>1, <3>2, WireKept
  <2>9. FreshStart(l)'
    BY <1>1, <1>7 DEF FreshStart
  <2>10. \A d \in Shaped : wakeAt'[l][d] # None => wakeAt'[l][d] <= RecoveryTime(l, d, cr)
    BY <1>3, <2>5
  <2> QED
    BY <2>6, <2>7, <2>8, <2>9, <2>10
<1>8. CASE startAt' = starts /\ wakeAt' = wakes /\ Push(e, pushed)
  <2>1. events' = rest \cup pushed
    BY <1>8 DEF Push
  <2>2. FreshStart(l)'
    BY <1>1, <1>8 DEF FreshStart
  <2>3. \A c \in Shaped : wakeAt'[l][c] # None => wakeAt'[l][c] <= RecoveryTime(l, c, cr)
    BY <1>8
  <2>4. /\ MarksIn(events', startAt'[l], TransmissionStart(l))
        /\ \A c \in Shaped : MarksIn(events', wakeAt'[l][c], CreditUpdate(l, c))
        /\ WireIn(events', l, onWire'[l])
    BY <1>4, <1>8, <2>1, MarksKept, WireKept
  <2> QED
    BY <2>2, <2>3, <2>4
<1> QED
  BY <1>6, <1>7, <1>8 DEF ScheduleNextTransmission

(* What the scheduler pushes besides concerns its port alone. *)
LEMMA SchedulerPushes ==
  ASSUME TypeOK, NEW e, Dispatch(e), NEW l \in Link, NEW cr \in [Shaped -> Int],
         NEW starts, NEW wakes, NEW pushed,
         ScheduleNextTransmission(e, l, cr, starts, wakes, pushed)
  PROVE  \E new : /\ Push(e, new)
                  /\ \A n \in new \ pushed :
                       /\ clock' <= n.at
                       /\ n.task.kind # "RELEASE_FRAME"
                       /\ \A k \in Link \ {l} : ~Concerns(n.task, k)
<1>1. clock' \in Nat /\ case' = case
  BY DispatchTypes
<1>2. \A c \in Shaped : RecoveryTime(l, c, cr) \in Nat /\ clock' <= RecoveryTime(l, c, cr)
  <2>1. \A c \in Shaped : RecoveryDelay(cr[c], case.slopes[c].idle) \in Nat
    BY SlopeFacts, RecoveryDelayNat
  <2> QED
    BY <1>1, <2>1 DEF RecoveryTime
<1>3. ASSUME NEW at, clock' <= at, NEW task,
             task = TransmissionStart(l) \/ \E c \in Shaped : task = CreditUpdate(l, c),
             Push(e, pushed \cup {Scheduled(at, 1, task)})
      PROVE  \E new : /\ Push(e, new)
                      /\ \A n \in new \ pushed :
                           /\ clock' <= n.at
                           /\ n.task.kind # "RELEASE_FRAME"
                           /\ \A k \in Link \ {l} : ~Concerns(n.task, k)
  <2> DEFINE n == Scheduled(at, 1, task)
  <2>1. n.at = at /\ n.task = task
    BY ScheduledFields
  <2> HIDE DEF n
  <2>2. /\ task.kind # "RELEASE_FRAME"
        /\ \A k \in Link \ {l} : ~Concerns(task, k)
    BY <1>3, TaskFields DEF Concerns
  <2>3. Push(e, pushed \cup {n})
    BY <1>3 DEF n
  <2>4. \A x \in (pushed \cup {n}) \ pushed :
          /\ clock' <= x.at
          /\ x.task.kind # "RELEASE_FRAME"
          /\ \A k \in Link \ {l} : ~Concerns(x.task, k)
    BY <1>3, <2>1, <2>2
  <2> QED
    BY <2>3, <2>4
<1>4. CASE Push(e, pushed \cup {Scheduled(clock', 1, TransmissionStart(l))})
  BY <1>1, <1>3, <1>4
<1>5. CASE \E c \in Shaped :
             Push(e, pushed \cup {Scheduled(RecoveryTime(l, c, cr), 1, CreditUpdate(l, c))})
  BY <1>2, <1>3, <1>5
<1>6. CASE Push(e, pushed)
  BY <1>6
<1> QED
  BY <1>4, <1>5, <1>6 DEF ScheduleNextTransmission

(* The markers and the wire of a port, in terms of MarksIn and WireIn. *)
LEMMA PortInvMarks ==
  ASSUME NEW l, PortInv(l)
  PROVE  /\ MarksIn(events, startAt[l], TransmissionStart(l))
         /\ \A c \in Shaped : MarksIn(events, wakeAt[l][c], CreditUpdate(l, c))
         /\ WireIn(events, l, onWire[l])
BY MarksAreMarksIn, WireIsWireIn DEF PortInv, PortMatchesEvents

(* The markers of port l and its credits after they are synchronized, as    *)
(* the scheduler finds them.                                               *)
LEMMA SyncedPort ==
  ASSUME TypeOK, NEW e, Dispatch(e), NEW l \in Link, PortInv(l), NEW wire,
         \A c \in TrafficClass : queue[l][c] # <<>> => queue'[l][c] # <<>>,
         NEW cr, cr = SyncedCredit(l, wire)
  PROVE  /\ cr \in [Shaped -> Int]
         /\ startAt[l] # None => /\ startAt[l] = clock'
                                 /\ onWire[l] = None
                                 /\ Eligible(queue'[l], cr) # {}
         /\ \A c \in Shaped : wakeAt[l][c] # None => wakeAt[l][c] <= RecoveryTime(l, c, cr)
<1>1. /\ syncedAt[l] \in Nat /\ clock \in Nat /\ clock' \in Nat
      /\ syncedAt[l] <= clock /\ clock <= clock'
  BY DispatchTypes DEF PortInv, TypeOK, Dispatch, Raises
<1>2. syncedAt[l] <= clock'
  BY <1>1
<1>3. /\ cr \in [Shaped -> Int]
      /\ \A c \in Shaped :
           RecoveryDelay(credit[l][c], case.slopes[c].idle) + syncedAt[l]
             <= RecoveryTime(l, c, cr)
      /\ syncedAt[l] = clock' =>
           \A c \in Shaped : queue'[l][c] # <<>> => cr[c] = credit[l][c]
  BY <1>2, SyncedFacts
<1>4. ASSUME startAt[l] # None
      PROVE  /\ startAt[l] = clock'
             /\ onWire[l] = None
             /\ Eligible(queue'[l], cr) # {}
  <2>1. clock' = clock
    BY <1>4, TimeStands DEF PortInv
  <2>2. /\ startAt[l] = clock' /\ onWire[l] = None
        /\ Eligible(queue[l], credit[l]) # {}
        /\ \A c \in Shaped : queue'[l][c] # <<>> => cr[c] = credit[l][c]
    BY <1>3, <1>4, <2>1 DEF PortInv, FreshStart
  <2>3. Eligible(queue'[l], cr) # {}
    BY <2>2, EligibleKept
  <2> QED
    BY <2>2, <2>3
<1>5. ASSUME NEW c \in Shaped, wakeAt[l][c] # None
      PROVE  wakeAt[l][c] <= RecoveryTime(l, c, cr)
  <2>1. /\ wakeAt[l][c] \in Nat
        /\ RecoveryDelay(credit[l][c], case.slopes[c].idle) \in Nat
        /\ RecoveryTime(l, c, cr) \in Nat
    <3>1. case.slopes[c].idle \in Nat \ {0} /\ credit[l][c] \in Int /\ cr[c] \in Int
      BY <1>3, SlopeFacts DEF TypeOK
    <3>2. wakeAt[l][c] \in Nat
      BY <1>5 DEF TypeOK
    <3>3. /\ RecoveryDelay(credit[l][c], case.slopes[c].idle) \in Nat
          /\ RecoveryDelay(cr[c], case.slopes[c].idle) \in Nat
      BY <3>1, RecoveryDelayNat
    <3> QED
      BY <1>1, <3>2, <3>3 DEF RecoveryTime
  <2>2. wakeAt[l][c] <= syncedAt[l] + RecoveryDelay(credit[l][c], case.slopes[c].idle)
    BY <1>5 DEF PortInv, WakeupInTime
  <2> QED
    BY <1>1, <1>3, <2>1, <2>2
<1> QED
  BY <1>3, <1>4, <1>5

(* enqueue_frame keeps the invariant of its port. *)
LEMMA EnqueueKeepsPort ==
  ASSUME TypeOK, NEW e \in events, NEW f \in DOMAIN frames, NEW l \in Link,
         HandleEnqueue(e, f, l), PortInv(l)
  PROVE  PortInv(l)'
<1> DEFINE cr == SyncedCredit(l, WireClass(l))
<1>1. /\ Dispatch(e) /\ e.task.kind = "ENQUEUE_FRAME"
      /\ queue' = [queue EXCEPT ![l][ClassOf(f)] = Append(@, f)]
      /\ onWire' = onWire
      /\ ScheduleNextTransmission(e, l, cr, startAt, wakeAt, {})
  BY TaskFields DEF HandleEnqueue, Joined
<1>2. \A c \in TrafficClass : queue[l][c] # <<>> => queue'[l][c] # <<>>
  <2>1. queue[l] \in [TrafficClass -> Seq(Frame)] /\ queue \in [Link -> [TrafficClass -> Seq(Frame)]]
    BY DEF TypeOK
  <2>2. \A q \in Seq(Frame) : Append(q, f) # <<>>
    OBVIOUS
  <2> QED
    BY <1>1, <2>1, <2>2
<1> HIDE DEF cr
<1>3. /\ cr \in [Shaped -> Int]
      /\ startAt[l] # None => /\ startAt[l] = clock'
                              /\ onWire'[l] = None
                              /\ Eligible(queue'[l], cr) # {}
      /\ \A c \in Shaped : wakeAt[l][c] # None => wakeAt[l][c] <= RecoveryTime(l, c, cr)
  BY <1>1, <1>2, SyncedPort DEF cr
<1>4. /\ MarksIn(events \ {e}, startAt[l], TransmissionStart(l))
      /\ \A c \in Shaped : MarksIn(events \ {e}, wakeAt[l][c], CreditUpdate(l, c))
      /\ WireIn(events \ {e}, l, onWire'[l])
  BY <1>1, PortInvMarks, MarksStay, WireStays, TaskFields
<1>5. /\ startAt \in [Link -> Nat \cup {None}]
      /\ wakeAt \in [Link -> [Shaped -> Nat \cup {None}]]
  BY DEF TypeOK
<1> DEFINE pushed == {}
<1>6. /\ \A n \in pushed : ~Concerns(n.task, l)
      /\ ScheduleNextTransmission(e, l, cr, startAt, wakeAt, pushed)
  BY <1>1
<1> HIDE DEF pushed
<1> QED
  BY <1>1, <1>3, <1>4, <1>5, <1>6, SchedulerKeepsPort

(* update_credit clears its marker and keeps the invariant of its port. *)
LEMMA CreditUpdateKeepsPort ==
  ASSUME TypeOK, NEW e \in events, NEW l \in Link, NEW c \in Shaped,
         HandleCreditUpdate(e, l, c), PortInv(l)
  PROVE  PortInv(l)'
<1> DEFINE cr == SyncedCredit(l, WireClass(l))
           cleared == [wakeAt EXCEPT ![l][c] = None]
           pushed == {}
<1>1. /\ Dispatch(e) /\ e.task = CreditUpdate(l, c)
      /\ queue' = queue /\ onWire' = onWire
      /\ ScheduleNextTransmission(e, l, cr, startAt, cleared, pushed)
  BY DEF HandleCreditUpdate
<1>2. /\ startAt \in [Link -> Nat \cup {None}]
      /\ cleared \in [Link -> [Shaped -> Nat \cup {None}]]
      /\ cleared[l][c] = None
      /\ \A d \in Shaped \ {c} : cleared[l][d] = wakeAt[l][d]
  BY DEF TypeOK
<1>3. \A n \in pushed : ~Concerns(n.task, l)
  OBVIOUS
<1> HIDE DEF cr, cleared, pushed
<1>4. /\ cr \in [Shaped -> Int]
      /\ startAt[l] # None => /\ startAt[l] = clock'
                              /\ onWire'[l] = None
                              /\ Eligible(queue'[l], cr) # {}
      /\ \A d \in Shaped : wakeAt[l][d] # None => wakeAt[l][d] <= RecoveryTime(l, d, cr)
  BY <1>1, SyncedPort DEF cr
<1>5. \A d \in Shaped : cleared[l][d] # None => cleared[l][d] <= RecoveryTime(l, d, cr)
  BY <1>2, <1>4
<1>6. /\ MarksIn(events \ {e}, startAt[l], TransmissionStart(l))
      /\ WireIn(events \ {e}, l, onWire'[l])
  <2>1. e.task # TransmissionStart(l) /\ e.task.kind # "TRANSMISSION_END"
    BY <1>1, TaskFields
  <2> QED
    BY <1>1, <2>1, PortInvMarks, MarksStay, WireStays
<1>7. ASSUME NEW d \in Shaped
      PROVE  MarksIn(events \ {e}, cleared[l][d], CreditUpdate(l, d))
  <2>1. MarksIn(events, wakeAt[l][d], CreditUpdate(l, d))
    BY PortInvMarks
  <2>2. CASE d = c
    BY <1>1, <1>2, <2>1, <2>2, MarksDropped
  <2>3. CASE d # c
    <3>1. e.task # CreditUpdate(l, d)
      BY <1>1, <2>3, TaskFields
    <3> QED
      BY <1>2, <2>1, <2>3, <3>1, MarksStay
  <2> QED
    BY <2>2, <2>3
<1> QED
  BY <1>1, <1>2, <1>3, <1>4, <1>5, <1>6, <1>7, SchedulerKeepsPort

(* A frame whose end is handled was on the wire; the port had no start     *)
(* pending.                                                                *)
LEMMA EndKeepsPort ==
  ASSUME TypeOK, NEW e \in events, NEW f \in DOMAIN frames, NEW l \in Link,
         HandleEnd(e, l, f), PortInv(l)
  PROVE  PortInv(l)'
<1> DEFINE synced == SyncedCredit(l, WireClass(l))
           freed == SynchronizedCredit(synced, 0, case.slopes, queue'[l], NoClass)
           arrival == IF IsLastHop(f) THEN DeliveryComplete(f) ELSE ForwardFrame(f)
           pushed == {Scheduled(clock', 0, arrival)}
<1>1. /\ Dispatch(e) /\ e.task = TransmissionEnd(l, f)
      /\ queue' = queue /\ onWire' = [onWire EXCEPT ![l] = None]
      /\ ScheduleNextTransmission(e, l, freed, startAt, wakeAt, pushed)
  BY DEF HandleEnd
<1>2. /\ startAt \in [Link -> Nat \cup {None}]
      /\ wakeAt \in [Link -> [Shaped -> Nat \cup {None}]]
      /\ onWire'[l] = None
  BY <1>1 DEF TypeOK
<1>3. \A n \in pushed : ~Concerns(n.task, l)
  BY ScheduledFields, TaskFields DEF Concerns
<1> HIDE DEF pushed
<1>4. /\ onWire[l] = f /\ startAt[l] = None
  <2>1. onWire[l] = f
    BY <1>1, TaskFields DEF Dispatch, Raises
  <2>2. f # None
    BY NoneAssumption DEF TypeOK, Frame
  <2> QED
    BY <2>1, <2>2 DEF PortInv, FreshStart
<1>5. /\ freed \in [Shaped -> Int]
      /\ \A d \in Shaped : wakeAt[l][d] # None => wakeAt[l][d] <= RecoveryTime(l, d, freed)
  <2> HIDE DEF synced
  <2>1. /\ synced \in [Shaped -> Int]
        /\ \A d \in Shaped : wakeAt[l][d] # None => wakeAt[l][d] <= RecoveryTime(l, d, synced)
    BY <1>1, SyncedPort DEF synced
  <2>2. \A d \in Shaped : /\ case.slopes[d].idle \in Nat \ {0}
                          /\ case.slopes[d].send \in Nat \ {0}
    BY SlopeFacts
  <2>3. freed \in [Shaped -> Int]
    <3> DEFINE slopes == case.slopes
               pending == queue'[l]
    <3>1. /\ \A c \in Shaped : slopes[c].idle \in Int /\ slopes[c].send \in Int
          /\ freed = SynchronizedCredit(synced, 0, slopes, pending, NoClass)
      BY SlopeFacts
    <3> HIDE DEF slopes, pending, freed
    <3>2. SynchronizedCredit(synced, 0, slopes, pending, NoClass) \in [Shaped -> Int]
      BY <2>1, <3>1, SynchronizedCreditType
    <3> QED
      BY <3>1, <3>2
  <2> HIDE DEF freed
  <2>4. ASSUME NEW d \in Shaped, wakeAt[l][d] # None
        PROVE  wakeAt[l][d] <= RecoveryTime(l, d, freed)
    <3> DEFINE slopes == case.slopes
               pending == queue'[l]
    <3>1. /\ \A c \in Shaped : slopes[c].idle \in Nat \ {0} /\ slopes[c].send \in Nat \ {0}
          /\ freed = SynchronizedCredit(synced, 0, slopes, pending, NoClass)
      BY <2>2 DEF freed
    <3> HIDE DEF slopes, pending
    <3>2. RecoveryDelay(synced[d], slopes[d].idle)
            <= 0 + RecoveryDelay(freed[d], slopes[d].idle)
      BY <2>1, <3>1, SynchronizedCreditFacts
    <3>3. /\ RecoveryDelay(synced[d], slopes[d].idle) \in Nat
          /\ RecoveryDelay(freed[d], slopes[d].idle) \in Nat
      BY <2>1, <2>3, <3>1, RecoveryDelayNat
    <3>4. clock' \in Nat /\ wakeAt[l][d] \in Nat
      BY <1>1, <2>4, DispatchTypes DEF TypeOK
    <3>5. wakeAt[l][d] <= clock' + RecoveryDelay(synced[d], slopes[d].idle)
      BY <2>1, <2>4 DEF RecoveryTime, slopes
    <3>6. wakeAt[l][d] <= clock' + RecoveryDelay(freed[d], slopes[d].idle)
      BY <3>2, <3>3, <3>4, <3>5
    <3> QED
      BY <3>6 DEF RecoveryTime, slopes
  <2> QED
    BY <2>3, <2>4
<1> HIDE DEF freed
<1>6. /\ MarksIn(events \ {e}, startAt[l], TransmissionStart(l))
      /\ \A d \in Shaped : MarksIn(events \ {e}, wakeAt[l][d], CreditUpdate(l, d))
  <2>1. e.task # TransmissionStart(l) /\ \A d \in Shaped : e.task # CreditUpdate(l, d)
    BY <1>1, TaskFields
  <2> QED
    BY <2>1, PortInvMarks, MarksStay
<1>7. WireIn(events \ {e}, l, onWire'[l])
  <2> SUFFICES ASSUME NEW x \in events \ {e},
                      x.task.kind = "TRANSMISSION_END", x.task.link = l
               PROVE  FALSE
    BY <1>2 DEF WireIn
  <2>1. x.task.frame = f
    BY <1>4 DEF PortInv, PortMatchesEvents, WireMatchesEvents
  <2>2. x.task = TransmissionEnd(l, f)
    <3>1. x.task \in Task
      BY DEF TypeOK, Event
    <3> QED
      BY <2>1, <3>1 DEF Task, TransmissionEnd
  <2>3. PendingOnce(TransmissionEnd(l, f))
    <3>1. f # None
      BY NoneAssumption DEF TypeOK, Frame
    <3> QED
      BY <1>4, <3>1 DEF PortInv, PortMatchesEvents, WireMatchesEvents
  <2> QED
    BY <1>1, <2>2, <2>3 DEF PendingOnce
<1> QED
  BY <1>1, <1>2, <1>3, <1>4, <1>5, <1>6, <1>7, SchedulerKeepsPort

(* A start that is handled finds an idle port and a candidate: the two      *)
(* other branches of start_transmission are never taken.            *)
LEMMA StartTransmits ==
  ASSUME TypeOK, NEW e \in events, NEW l \in Link, HandleStart(e, l), PortInv(l)
  PROVE  \E f \in Frame :
           /\ onWire[l] = None
           /\ onWire' = [onWire EXCEPT ![l] = f]
           /\ startAt' = [startAt EXCEPT ![l] = None]
           /\ UNCHANGED <<credit, syncedAt, wakeAt>>
           /\ Push(e, {Scheduled(clock' + Airtime(StreamOf(f), l), 0, TransmissionEnd(l, f))})
<1>1. e.task = TransmissionStart(l)
  BY DEF HandleStart
<1>2. startAt[l] # None
  <2>1. e.at = startAt[l] /\ e.at \in Nat
    BY <1>1 DEF PortInv, PortMatchesEvents, Marks, TypeOK, Event
  <2> QED
    BY <2>1, NoneAssumption
<1>3. onWire[l] = None /\ Eligible(queue[l], credit[l]) # {}
  BY <1>2 DEF PortInv, FreshStart
<1>4. PICK c \in TrafficClass :
        /\ IsCandidate(c, queue[l], credit[l])
        /\ onWire' = [onWire EXCEPT ![l] = Head(queue[l][c])]
        /\ startAt' = [startAt EXCEPT ![l] = None]
        /\ Push(e, {Scheduled(clock' + Airtime(StreamOf(Head(queue[l][c])), l), 0,
                              TransmissionEnd(l, Head(queue[l][c])))})
        /\ UNCHANGED <<credit, syncedAt, wakeAt>>
  BY <1>3 DEF HandleStart
<1>5. Head(queue[l][c]) \in Frame
  BY <1>4 DEF IsCandidate, Eligible, TypeOK
<1> QED
  BY <1>3, <1>4, <1>5

(* A transmission start clears its marker and schedules its own end. *)
LEMMA StartKeepsPort ==
  ASSUME TypeOK, NEW e \in events, NEW l \in Link, HandleStart(e, l), PortInv(l)
  PROVE  PortInv(l)'
<1>1. /\ Dispatch(e) /\ e.task = TransmissionStart(l)
  BY DEF HandleStart
<1>2. PICK f \in Frame :
           /\ onWire[l] = None
           /\ onWire' = [onWire EXCEPT ![l] = f]
           /\ startAt' = [startAt EXCEPT ![l] = None]
           /\ UNCHANGED <<credit, syncedAt, wakeAt>>
           /\ Push(e, {Scheduled(clock' + Airtime(StreamOf(f), l), 0, TransmissionEnd(l, f))})
  BY StartTransmits
<1> DEFINE end == Scheduled(clock' + Airtime(StreamOf(f), l), 0, TransmissionEnd(l, f))
           rest == events \ {e}
<1>3. end.task = TransmissionEnd(l, f)
  BY ScheduledFields
<1>4. events' = rest \cup {end}
  BY <1>2 DEF Push
<1>5. startAt'[l] = None /\ wakeAt'[l] = wakeAt[l] /\ onWire'[l] = f
  BY <1>2 DEF TypeOK
<1>6. /\ end.task # TransmissionStart(l)
      /\ \A c \in Shaped : end.task # CreditUpdate(l, c) /\ e.task # CreditUpdate(l, c)
      /\ e.task.kind # "TRANSMISSION_END"
  BY <1>1, <1>3, TaskFields
<1> HIDE DEF end
<1>7. MarksIn(events', startAt'[l], TransmissionStart(l))
  <2>1. MarksIn(rest, None, TransmissionStart(l))
    BY <1>1, PortInvMarks, MarksDropped
  <2> HIDE DEF rest
  <2> QED
    BY <1>4, <1>5, <1>6, <2>1, MarksKept
<1>8. ASSUME NEW c \in Shaped
      PROVE  MarksIn(events', wakeAt'[l][c], CreditUpdate(l, c))
  <2>1. MarksIn(rest, wakeAt[l][c], CreditUpdate(l, c))
    BY <1>6, PortInvMarks, MarksStay
  <2> HIDE DEF rest
  <2> QED
    BY <1>4, <1>5, <1>6, <2>1, MarksKept
<1>9. WireIn(events', l, onWire'[l])
  <2>1. \A x \in rest : ~(x.task.kind = "TRANSMISSION_END" /\ x.task.link = l)
    <3> SUFFICES ASSUME NEW x \in events,
                        x.task.kind = "TRANSMISSION_END", x.task.link = l
                 PROVE  FALSE
      OBVIOUS
    <3>1. x.task.frame = None
      BY <1>2 DEF PortInv, PortMatchesEvents, WireMatchesEvents
    <3>2. x.task \in Task
      BY DEF TypeOK, Event
    <3>3. x.task.frame \in Frame
      BY <3>2 DEF Task
    <3> QED
      BY <3>1, <3>3, NoneAssumption DEF Frame
  <2> HIDE DEF rest
  <2>2. \A x \in events' : x.task.kind = "TRANSMISSION_END" /\ x.task.link = l => x = end
    BY <1>4, <2>1
  <2>3. TransmissionEnd(l, f).kind = "TRANSMISSION_END" /\ TransmissionEnd(l, f).link = l
    BY TaskFields
  <2>4. /\ end \in events' /\ end.task.frame = f
    BY <1>3, <1>4, TaskFields
  <2> QED
    BY <1>3, <1>5, <2>2, <2>3, <2>4 DEF WireIn, Once
<1>10. PortMatchesEvents(l)'
  BY <1>7, <1>8, <1>9, MarksAreMarksIn, WireIsWireIn DEF PortMatchesEvents
<1>11. FreshStart(l)'
  BY <1>5 DEF FreshStart
<1>12. WakeupInTime(l)'
  BY <1>1, <1>2, DispatchTypes DEF PortInv, WakeupInTime
<1>13. (syncedAt[l] <= clock)'
  <2>1. /\ syncedAt'[l] = syncedAt[l] /\ syncedAt[l] \in Nat /\ syncedAt[l] <= clock
        /\ clock \in Nat /\ clock' \in Nat /\ clock <= clock'
    BY <1>1, <1>2, DispatchTypes DEF PortInv, TypeOK, Dispatch, Raises
  <2> QED
    BY <2>1
<1> QED
  BY <1>10, <1>11, <1>12, <1>13 DEF PortInv

-----------------------------------------------------------------------------
(* Steps                                                                   *)

(* A step that handles e, pushes new, and has to do with none but the given *)
(* ports, whose invariant it keeps. *)
LEMMA StepKeepsEngine ==
  ASSUME EngineInv, TypeOK', NEW e \in events, Dispatch(e),
         NEW ports \in SUBSET Link,
         \A k \in Link \ ports : SamePort(k) /\ ~Concerns(e.task, k),
         \A k \in ports : PortInv(k)',
         NEW new, Push(e, new),
         \A n \in new : /\ clock' <= n.at
                        /\ \A k \in Link \ ports : ~Concerns(n.task, k),
         \A s \in Stream : ReleaseInTime(s)'
  PROVE  EngineInv'
<1>1. TypeOK /\ Running
  BY DEF EngineInv, Dispatch, Pops, Running
<1>2. EventsNotInPast'
  BY <1>1, PushedNotInPast DEF EventsNotInPast
<1>3. ASSUME NEW k \in Link
      PROVE  PortInv(k)'
  <2>1. PortInv(k)
    BY <1>1 DEF EngineInv
  <2>2. CASE k \in ports
    BY <2>2
  <2>3. CASE k \notin ports
    BY <1>1, <2>1, <2>3, PortUntouched
  <2> QED
    BY <2>2, <2>3
<1> QED
  BY <1>2, <1>3 DEF EngineInv

(* A step that neither handles nor pushes a release. *)
LEMMA ReleasesUntouched ==
  ASSUME NEW e, NEW new, Push(e, new), case' = case, released' = released,
         e.task.kind # "RELEASE_FRAME", \A n \in new : n.task.kind # "RELEASE_FRAME",
         NEW s \in Stream, ReleaseInTime(s)
  PROVE  ReleaseInTime(s)'
<1>1. \A x : x.task = ReleaseFrame(s) => (x \in events' <=> x \in events)
  BY TaskFields DEF Push
<1> QED
  BY <1>1 DEF ReleaseInTime, PendingOnce, ReleaseFrame

(* release_frame pushes the enqueue at once and the next release in time. *)
LEMMA ReleaseKeepsEngine ==
  ASSUME EngineInv, TypeOK', NEW e \in events, NEW s \in Stream, HandleRelease(e, s)
  PROVE  EngineInv'
<1> DEFINE next == (released[s] + 1) * case.period[s]
           enqueue == Scheduled(clock', 0, EnqueueFrame(<<s, released[s]>>, case.route[s][1]))
           again == Scheduled(next, 1, ReleaseFrame(s))
<1>1. /\ Dispatch(e) /\ e.task = ReleaseFrame(s)
      /\ released' = [released EXCEPT ![s] = @ + 1]
      /\ \E new \in {{enqueue}, {enqueue, again}} : Push(e, new)
      /\ UNCHANGED portVars
  BY DEF HandleRelease
<1>2. TypeOK /\ Running /\ case' = case /\ clock' = e.at /\ clock' \in Nat
  BY <1>1, DispatchTypes DEF EngineInv, Dispatch, Pops, Running
<1>3. /\ enqueue.at = clock' /\ enqueue.task.kind = "ENQUEUE_FRAME"
      /\ again.at = next /\ again.task = ReleaseFrame(s)
  BY ScheduledFields, TaskFields
<1>4. /\ ReleaseInTime(s) /\ e.at = released[s] * case.period[s]
  BY <1>1, <1>2 DEF EngineInv, ReleaseInTime
<1>5. /\ released[s] \in Nat /\ case.period[s] \in Nat
      /\ released'[s] = released[s] + 1
      /\ \A r \in Stream \ {s} : released'[r] = released[r]
  BY <1>1, <1>2, CaseFacts DEF TypeOK
<1>6. clock' <= next
  <2>1. next = released[s] * case.period[s] + case.period[s]
    BY <1>5
  <2>2. released[s] * case.period[s] \in Nat
    BY <1>5
  <2> HIDE DEF next
  <2> QED
    BY <1>2, <1>4, <1>5, <2>1, <2>2
<1> HIDE DEF enqueue, again
<1>7. PICK new \in {{enqueue}, {enqueue, again}} : Push(e, new)
  BY <1>1
<1>8. \A n \in new : /\ clock' <= n.at
                     /\ \A k \in Link : ~Concerns(n.task, k)
  BY <1>2, <1>3, <1>6, TaskFields DEF Concerns
<1>9. \A k \in Link : SamePort(k) /\ ~Concerns(e.task, k)
  BY <1>1, <1>2, PortsUntouched, TaskFields DEF Concerns
<1>10. ASSUME NEW r \in Stream
       PROVE  ReleaseInTime(r)'
  <2>1. CASE r = s
    <3>1. \A x \in events \ {e} : x.task # ReleaseFrame(s)
      BY <1>1, <1>4 DEF ReleaseInTime, PendingOnce
    <3>2. \A x \in events' : x.task = ReleaseFrame(s) => x = again
      BY <1>3, <1>7, <3>1, TaskFields DEF Push
    <3>3. again.at = released'[s] * case'.period[s]
      BY <1>2, <1>3, <1>5
    <3>4. \A x \in events' : x.task = ReleaseFrame(r) => x.at = released'[r] * case'.period[r]
      BY <2>1, <3>2, <3>3
    <3>5. PendingOnce(ReleaseFrame(r))'
      BY <2>1, <3>2 DEF PendingOnce, ReleaseFrame
    <3> QED
      BY <3>4, <3>5 DEF ReleaseInTime, ReleaseFrame
  <2>2. CASE r # s
    <3>1. ReleaseInTime(r)
      BY <1>2 DEF EngineInv
    <3>2. \A x : x.task = ReleaseFrame(r) => (x \in events' <=> x \in events)
      BY <1>1, <1>3, <1>7, <2>2, TaskFields DEF Push
    <3> QED
      BY <1>2, <1>5, <2>2, <3>1, <3>2 DEF ReleaseInTime, PendingOnce, ReleaseFrame
  <2> QED
    BY <2>1, <2>2
<1> DEFINE ports == {}
<1>11. /\ ports \in SUBSET Link
       /\ \A k \in Link \ ports : SamePort(k) /\ ~Concerns(e.task, k)
       /\ \A k \in ports : PortInv(k)'
       /\ \A n \in new : /\ clock' <= n.at
                         /\ \A k \in Link \ ports : ~Concerns(n.task, k)
  BY <1>8, <1>9
<1> HIDE DEF ports
<1> QED
  BY <1>1, <1>7, <1>10, <1>11, StepKeepsEngine

(* A handler that leaves the ports alone and pushes at once at most. *)
LEMMA FrameStepKeepsEngine ==
  ASSUME EngineInv, TypeOK', NEW e \in events, Dispatch(e), NEW task,
         e.task.kind \in {"FORWARD_FRAME", "DELIVERY_COMPLETE"},
         UNCHANGED portVars, released' = released,
         Push(e, {Scheduled(clock', 0, task)}) \/ Push(e, {}),
         task.kind \in {"ENQUEUE_FRAME", "FINALIZE_RUN"}
  PROVE  EngineInv'
<1> DEFINE pushed == Scheduled(clock', 0, task)
           ports == {}
<1>1. pushed.at = clock' /\ pushed.task = task
  BY ScheduledFields
<1> HIDE DEF pushed
<1>2. PICK new \in {{pushed}, {}} : Push(e, new)
  BY DEF pushed
<1>3. /\ TypeOK /\ Running /\ case' = case /\ clock' \in Nat
  BY DispatchTypes DEF EngineInv, Dispatch, Pops, Running
<1>4. /\ ports \in SUBSET Link
      /\ \A k \in Link \ ports : SamePort(k) /\ ~Concerns(e.task, k)
      /\ \A k \in ports : PortInv(k)'
      /\ \A n \in new : /\ clock' <= n.at
                        /\ \A k \in Link \ ports : ~Concerns(n.task, k)
  BY <1>1, <1>3, PortsUntouched, TaskFields DEF Concerns
<1>5. \A s \in Stream : ReleaseInTime(s)'
  <2>1. \A n \in new : n.task.kind # "RELEASE_FRAME"
    BY <1>1
  <2>2. e.task.kind # "RELEASE_FRAME"
    OBVIOUS
  <2> QED
    BY <1>2, <1>3, <2>1, <2>2, ReleasesUntouched DEF EngineInv
<1> HIDE DEF ports
<1> QED
  BY <1>2, <1>4, <1>5, StepKeepsEngine

(* A handler of port l that ends in the scheduler. *)
LEMMA PortStepKeepsEngine ==
  ASSUME EngineInv, TypeOK', NEW e \in events, Dispatch(e), NEW l \in Link,
         e.task.kind # "RELEASE_FRAME",
         \A k \in Link \ {l} : SamePort(k) /\ ~Concerns(e.task, k),
         PortInv(l)', released' = released,
         NEW new, Push(e, new),
         \A n \in new : /\ clock' <= n.at
                        /\ n.task.kind # "RELEASE_FRAME"
                        /\ \A k \in Link \ {l} : ~Concerns(n.task, k)
  PROVE  EngineInv'
<1>1. Running /\ case' = case
  BY DispatchTypes DEF EngineInv, Dispatch, Pops, Running
<1>2. \A s \in Stream : ReleaseInTime(s)'
  BY <1>1, ReleasesUntouched DEF EngineInv
<1> DEFINE ports == {l}
<1>3. /\ ports \in SUBSET Link
      /\ \A k \in Link \ ports : SamePort(k) /\ ~Concerns(e.task, k)
      /\ \A k \in ports : PortInv(k)'
      /\ \A n \in new : /\ clock' <= n.at
                        /\ \A k \in Link \ ports : ~Concerns(n.task, k)
  OBVIOUS
<1> HIDE DEF ports
<1> QED
  BY <1>2, <1>3, StepKeepsEngine

(* Every step of the loop keeps the invariant of the engine. *)
LEMMA EngineStep ==
  ASSUME EngineInv, [Next]_vars
  PROVE  EngineInv'
<1>1. TypeOK /\ TypeOK'
  BY StepTypes DEF EngineInv
<1>2. CASE UNCHANGED vars
  <2>1. /\ UNCHANGED <<case, clock, events, queue, credit, syncedAt, onWire, startAt, wakeAt>>
        /\ UNCHANGED <<released, status>>
    BY <1>2 DEF vars, portVars, streamVars
  <2>2. EventsNotInPast' /\ (Running' => Running)
    BY <2>1 DEF EngineInv, EventsNotInPast, Running
  <2>3. ASSUME Running, NEW l \in Link
        PROVE  PortInv(l)'
    <3>1. PortInv(l)
      BY <2>3 DEF EngineInv
    <3> QED
      BY <2>1, <3>1 DEF PortInv, PortMatchesEvents, FreshStart, WakeupInTime, Marks,
                        WireMatchesEvents, Pending, PendingOnce, TransmissionStart,
                        CreditUpdate, TransmissionEnd
  <2>4. ASSUME Running, NEW s \in Stream
        PROVE  ReleaseInTime(s)'
    <3>1. ReleaseInTime(s)
      BY <2>4 DEF EngineInv
    <3> QED
      BY <2>1, <3>1 DEF ReleaseInTime, PendingOnce, ReleaseFrame
  <2> QED
    BY <1>1, <2>2, <2>3, <2>4 DEF EngineInv
<1>3. ASSUME Next, ~Running'
      PROVE  EngineInv'
  BY <1>1, <1>3 DEF EngineInv, EventsNotInPast
<1> SUFFICES ASSUME Next, Running'
             PROVE  EngineInv'
  BY <1>2, <1>3
<1>4. \A l \in Link : PortInv(l)
  BY StepsRun DEF EngineInv
<1>5. ASSUME NEW e \in events, NEW s \in Stream, HandleRelease(e, s)
      PROVE  EngineInv'
  BY <1>1, <1>5, ReleaseKeepsEngine
<1>6. ASSUME NEW e \in events, NEW f \in DOMAIN frames, HandleForward(e, f)
      PROVE  EngineInv'
  <2> DEFINE task == EnqueueFrame(f, RouteOf(f)[frames[f].hop + 1])
  <2>1. /\ Dispatch(e) /\ e.task.kind \in {"FORWARD_FRAME", "DELIVERY_COMPLETE"}
        /\ UNCHANGED portVars /\ released' = released
        /\ Push(e, {Scheduled(clock', 0, task)})
        /\ task.kind \in {"ENQUEUE_FRAME", "FINALIZE_RUN"}
    BY <1>6, TaskFields DEF HandleForward, streamVars
  <2> HIDE DEF task
  <2> QED
    BY <1>1, <2>1, FrameStepKeepsEngine
<1>7. ASSUME NEW e \in events, NEW f \in DOMAIN frames, HandleDelivery(e, f)
      PROVE  EngineInv'
  <2>1. /\ Dispatch(e) /\ e.task.kind \in {"FORWARD_FRAME", "DELIVERY_COMPLETE"}
        /\ UNCHANGED portVars /\ released' = released
        /\ Push(e, {Scheduled(clock', 0, FinalizeRun)}) \/ Push(e, {})
        /\ FinalizeRun.kind \in {"ENQUEUE_FRAME", "FINALIZE_RUN"}
    BY <1>7, TaskFields DEF HandleDelivery
  <2> QED
    BY <1>1, <2>1, FrameStepKeepsEngine
<1>8. ASSUME NEW e \in events, NEW f \in DOMAIN frames, NEW l \in Link, HandleEnqueue(e, f, l)
      PROVE  EngineInv'
  <2> DEFINE cr == SyncedCredit(l, WireClass(l))
             pushed == {}
  <2>1. /\ Dispatch(e) /\ e.task = EnqueueFrame(f, l) /\ released' = released
        /\ ScheduleNextTransmission(e, l, cr, startAt, wakeAt, pushed)
    BY <1>8 DEF HandleEnqueue, streamVars
  <2>2. cr \in [Shaped -> Int]
    BY <1>1, <2>1, DispatchTypes, SyncedCreditType
  <2> HIDE DEF cr, pushed
  <2>3. PICK new : /\ Push(e, new)
                   /\ \A n \in new \ pushed :
                        /\ clock' <= n.at
                        /\ n.task.kind # "RELEASE_FRAME"
                        /\ \A k \in Link \ {l} : ~Concerns(n.task, k)
    BY <1>1, <2>1, <2>2, SchedulerPushes
  <2>4. /\ e.task.kind # "RELEASE_FRAME"
        /\ \A k \in Link \ {l} : SamePort(k) /\ ~Concerns(e.task, k)
    BY <1>1, <1>8, <2>1, EnqueueTouchesOnePort, TaskFields DEF Concerns
  <2>5. PortInv(l)'
    BY <1>1, <1>4, <1>8, EnqueueKeepsPort
  <2> QED
    BY <1>1, <2>1, <2>3, <2>4, <2>5, PortStepKeepsEngine DEF pushed
<1>9. ASSUME NEW e \in events, NEW l \in Link, NEW c \in Shaped, HandleCreditUpdate(e, l, c)
      PROVE  EngineInv'
  <2> DEFINE cr == SyncedCredit(l, WireClass(l))
             wakes == [wakeAt EXCEPT ![l][c] = None]
             pushed == {}
  <2>1. /\ Dispatch(e) /\ e.task = CreditUpdate(l, c) /\ released' = released
        /\ ScheduleNextTransmission(e, l, cr, startAt, wakes, pushed)
    BY <1>9 DEF HandleCreditUpdate, streamVars
  <2>2. cr \in [Shaped -> Int]
    BY <1>1, <2>1, DispatchTypes, SyncedCreditType
  <2> HIDE DEF cr, wakes, pushed
  <2>3. PICK new : /\ Push(e, new)
                   /\ \A n \in new \ pushed :
                        /\ clock' <= n.at
                        /\ n.task.kind # "RELEASE_FRAME"
                        /\ \A k \in Link \ {l} : ~Concerns(n.task, k)
    BY <1>1, <2>1, <2>2, SchedulerPushes
  <2>4. /\ e.task.kind # "RELEASE_FRAME"
        /\ \A k \in Link \ {l} : SamePort(k) /\ ~Concerns(e.task, k)
    BY <1>1, <1>9, <2>1, CreditUpdateTouchesOnePort, TaskFields DEF Concerns
  <2>5. PortInv(l)'
    BY <1>1, <1>4, <1>9, CreditUpdateKeepsPort
  <2> QED
    BY <1>1, <2>1, <2>3, <2>4, <2>5, PortStepKeepsEngine DEF pushed
<1>10. ASSUME NEW e \in events, NEW f \in DOMAIN frames, NEW l \in Link, HandleEnd(e, l, f)
       PROVE  EngineInv'
  <2> DEFINE synced == SyncedCredit(l, WireClass(l))
             cr == SynchronizedCredit(synced, 0, case.slopes, queue'[l], NoClass)
             arrival == IF IsLastHop(f) THEN DeliveryComplete(f) ELSE ForwardFrame(f)
             pushed == {Scheduled(clock', 0, arrival)}
  <2>1. /\ Dispatch(e) /\ e.task = TransmissionEnd(l, f) /\ released' = released
        /\ ScheduleNextTransmission(e, l, cr, startAt, wakeAt, pushed)
    BY <1>10 DEF HandleEnd, streamVars
  <2>2. cr \in [Shaped -> Int]
    <3>1. synced \in [Shaped -> Int]
      BY <1>1, <2>1, DispatchTypes, SyncedCreditType
    <3>2. \A d \in Shaped : case.slopes[d].idle \in Int /\ case.slopes[d].send \in Int
      BY <1>1, SlopeFacts
    <3> QED
      BY <3>1, <3>2, SynchronizedCreditType
  <2>3. \A n \in pushed : /\ clock' <= n.at
                          /\ n.task.kind # "RELEASE_FRAME"
                          /\ \A k \in Link \ {l} : ~Concerns(n.task, k)
    BY <1>1, <2>1, DispatchTypes, ScheduledFields, TaskFields DEF Concerns
  <2> HIDE DEF cr, pushed
  <2>4. PICK new : /\ Push(e, new)
                   /\ \A n \in new \ pushed :
                        /\ clock' <= n.at
                        /\ n.task.kind # "RELEASE_FRAME"
                        /\ \A k \in Link \ {l} : ~Concerns(n.task, k)
    BY <1>1, <2>1, <2>2, SchedulerPushes
  <2>5. /\ e.task.kind # "RELEASE_FRAME"
        /\ \A k \in Link \ {l} : SamePort(k) /\ ~Concerns(e.task, k)
    BY <1>1, <1>10, <2>1, EndTouchesOnePort, TaskFields DEF Concerns
  <2>6. PortInv(l)'
    BY <1>1, <1>4, <1>10, EndKeepsPort
  <2> QED
    BY <1>1, <2>1, <2>3, <2>4, <2>5, <2>6, PortStepKeepsEngine
<1>11. ASSUME NEW e \in events, NEW l \in Link, HandleStart(e, l)
       PROVE  EngineInv'
  <2>1. /\ Dispatch(e) /\ e.task = TransmissionStart(l) /\ released' = released
    BY <1>11 DEF HandleStart, streamVars
  <2>2. PICK f \in Frame :
          Push(e, {Scheduled(clock' + Airtime(StreamOf(f), l), 0, TransmissionEnd(l, f))})
    BY <1>1, <1>4, <1>11, StartTransmits
  <2> DEFINE new == {Scheduled(clock' + Airtime(StreamOf(f), l), 0, TransmissionEnd(l, f))}
  <2>3. \A n \in new : /\ clock' <= n.at
                       /\ n.task.kind # "RELEASE_FRAME"
                       /\ \A k \in Link \ {l} : ~Concerns(n.task, k)
    <3>1. clock' \in Nat /\ Airtime(StreamOf(f), l) \in Nat
      BY <1>1, <2>1, DispatchTypes, AirtimeType DEF Frame, StreamOf
    <3>2. clock' <= clock' + Airtime(StreamOf(f), l)
      BY <3>1
    <3> QED
      BY <3>2, ScheduledFields, TaskFields DEF Concerns
  <2>4. /\ e.task.kind # "RELEASE_FRAME"
        /\ \A k \in Link \ {l} : SamePort(k) /\ ~Concerns(e.task, k)
    BY <1>1, <1>11, <2>1, StartTouchesOnePort, TaskFields DEF Concerns
  <2>5. PortInv(l)'
    BY <1>1, <1>4, <1>11, StartKeepsPort
  <2>6. Push(e, new)
    BY <2>2
  <2> HIDE DEF new
  <2> QED
    BY <1>1, <2>1, <2>3, <2>4, <2>5, <2>6, PortStepKeepsEngine
<1> QED
  BY <1>5, <1>6, <1>7, <1>8, <1>9, <1>10, <1>11
  DEF Next, Running, HandleFinalize, LeaveLoop, StopBefore, Raise, RunDry, Stop

(* The invariant of the engine holds when the first releases are pushed. *)
LEMMA EngineInit ==
  ASSUME Init
  PROVE  EngineInv
<1>1. TypeOK
  BY InitTypes
<1>2. /\ case \in CaseType /\ WellFormed(case) /\ clock = 0
      /\ case.streams \in Seq(Stream)
  BY CasesAssumption DEF Init, CaseType
<1>3. \A e \in events : \E i \in DOMAIN case.streams :
        e = [at |-> 0, seq |-> i - Len(case.streams), task |-> ReleaseFrame(case.streams[i])]
  BY DEF Init
<1>4. \A e \in events : e.at = 0 /\ e.task.kind = "RELEASE_FRAME"
  BY <1>3, TaskFields
<1>5. \A l \in Link : PortInv(l)
  <2> SUFFICES ASSUME NEW l \in Link
               PROVE  PortInv(l)
    OBVIOUS
  <2>1. /\ startAt[l] = None /\ onWire[l] = None /\ syncedAt[l] = 0
        /\ \A c \in Shaped : wakeAt[l][c] = None
    BY DEF Init
  <2>2. PortMatchesEvents(l)
    BY <1>4, <2>1, TaskFields DEF PortMatchesEvents, Marks, PendingOnce, WireMatchesEvents
  <2> QED
    BY <1>2, <2>1, <2>2 DEF PortInv, FreshStart, WakeupInTime
<1>6. \A s \in Stream : ReleaseInTime(s)
  <2> SUFFICES ASSUME NEW s \in Stream
               PROVE  ReleaseInTime(s)
    OBVIOUS
  <2>1. \A e \in events : e.at = released[s] * case.period[s]
    <3>1. released[s] = 0 /\ case.period[s] \in Nat
      BY <1>1, CaseFacts DEF Init, TypeOK
    <3> QED
      BY <1>4, <3>1
  <2>2. PendingOnce(ReleaseFrame(s))
    <3> SUFFICES ASSUME NEW e \in events, NEW f \in events,
                        e.task = ReleaseFrame(s), f.task = ReleaseFrame(s)
                 PROVE  e = f
      BY DEF PendingOnce
    <3>1. PICK i \in DOMAIN case.streams :
            e = [at |-> 0, seq |-> i - Len(case.streams),
                 task |-> ReleaseFrame(case.streams[i])]
      BY <1>3
    <3>2. PICK j \in DOMAIN case.streams :
            f = [at |-> 0, seq |-> j - Len(case.streams),
                 task |-> ReleaseFrame(case.streams[j])]
      BY <1>3
    <3>3. case.streams[i] = s /\ case.streams[j] = s
      BY <3>1, <3>2, TaskFields
    <3>4. i = j
      BY <1>2, <3>3 DEF WellFormed
    <3> QED
      BY <3>1, <3>2, <3>4
  <2> QED
    BY <2>1, <2>2 DEF ReleaseInTime
<1> QED
  BY <1>1, <1>2, <1>4, <1>5, <1>6 DEF EngineInv, EventsNotInPast

(* The invariant of the engine holds throughout, whatever the case. *)
THEOREM EngineIsConsistent == Spec => []EngineInv
<1>1. Init => EngineInv
  BY EngineInit
<1>2. EngineInv /\ [Next]_vars => EngineInv'
  BY EngineStep
<1> QED
  BY <1>1, <1>2, PTL DEF Spec

(* SimulationClock.advance_to never refuses an event of the queue. *)
THEOREM TimeNeverRunsBackwards == Spec => []EventsNotInPast
<1>1. EngineInv => EventsNotInPast
  BY DEF EngineInv
<1> QED
  BY <1>1, EngineIsConsistent, PTL

(* A transmission end finds its frame on the wire, and the markers that     *)
(* deduplicate starts and wakeups never lie.                               *)
THEOREM PortsAndEventsAgree == Spec => []PortsMatchEvents
<1>1. EngineInv => PortsMatchEvents
  BY DEF EngineInv, PortsMatchEvents, PortInv, ReleaseInTime
<1> QED
  BY <1>1, EngineIsConsistent, PTL

(* start_transmission never chooses on stale credits. *)
THEOREM StartsSeeFreshCredit == Spec => []StartSeesFreshCredit
<1>1. EngineInv => StartSeesFreshCredit
  BY DEF EngineInv, StartSeesFreshCredit, PortInv
<1> QED
  BY <1>1, EngineIsConsistent, PTL

-----------------------------------------------------------------------------
(* Work conservation                                                       *)

(* The clock moves no further than the event that is next. *)
LEMMA ClockMovesToNext ==
  ASSUME TypeOK, Next, clock' # clock
  PROVE  \E e \in events : IsNext(e) /\ clock' \in Nat /\ clock' <= e.at
<1>1. ASSUME NEW e \in events, Dispatch(e)
      PROVE  IsNext(e) /\ clock' \in Nat /\ clock' <= e.at
  BY <1>1, DispatchTypes DEF Dispatch, Pops
<1>2. ASSUME NEW e \in events, StopBefore(e)
      PROVE  IsNext(e) /\ clock' \in Nat /\ clock' <= e.at
  <2>1. /\ IsNext(e) /\ clock' = case.timeLimit
        /\ case.timeLimit # None /\ e.at > case.timeLimit
    BY <1>2 DEF StopBefore, BeyondTimeLimit
  <2>2. case.timeLimit \in Nat /\ e.at \in Nat
    BY <2>1, CasesAssumption DEF TypeOK, CaseType, Limit, Event
  <2> QED
    BY <2>1, <2>2
<1>3. ASSUME NEW e \in events, Raise(e)
      PROVE  IsNext(e) /\ clock' \in Nat /\ clock' <= e.at
  <2>1. IsNext(e) /\ clock' = e.at
    BY <1>3 DEF Raise, Pops
  <2>2. e.at \in Nat
    BY DEF TypeOK, Event
  <2> QED
    BY <2>1, <2>2
<1>4. ~RunDry /\ ~Stop
  BY DEF RunDry, Stop
<1> QED
  BY <1>1, <1>2, <1>3, <1>4, StepKinds

(* A credit that has not recovered by t had not by an earlier time. *)
LEMMA NotYetRecoveredEarlier ==
  ASSUME TypeOK, NEW l \in Link, NEW c \in Shaped,
         NEW t \in Nat, NotYetRecovered(l, c, t), NEW u \in Nat, u <= t
  PROVE  NotYetRecovered(l, c, u)
<1> DEFINE idle == case.slopes[c].idle
           m == u - 1 - syncedAt[l]
           n == t - 1 - syncedAt[l]
<1>1. idle \in Nat /\ m \in Int /\ n \in Int /\ m <= n /\ credit[l][c] \in Int
  <2>1. idle \in Nat
    BY SlopeFacts
  <2>2. syncedAt[l] \in Nat /\ credit[l][c] \in Int
    BY DEF TypeOK
  <2> QED
    BY <2>1, <2>2
<1>2. credit[l][c] + idle * n < 0
  BY DEF NotYetRecovered
<1> HIDE DEF idle, m, n
<1>3. idle * m \in Int /\ idle * n \in Int /\ idle * m <= idle * n
  BY <1>1, ProductMonotone
<1>4. credit[l][c] + idle * m < 0
  BY <1>1, <1>2, <1>3
<1> QED
  BY <1>4 DEF NotYetRecovered, idle, m

(* No step that moves the clock passes a frame by that could be sent. *)
LEMMA WorkConservingStep ==
  ASSUME EngineInv, NoLostWakeup, Next, clock' > clock,
         NEW l \in Link, onWire[l] = None
  PROVE  /\ Eligible(queue[l], credit[l]) = {}
         /\ \A c \in Recovering(queue[l], credit[l]) : NotYetRecovered(l, c, clock')
<1>1. TypeOK /\ Running /\ PortInv(l) /\ Awake(l)
  BY StepsRun DEF EngineInv, NoLostWakeup
<1>2. clock \in Nat
  BY <1>1 DEF TypeOK
<1>3. PICK e \in events : IsNext(e) /\ clock' \in Nat /\ clock' <= e.at
  BY <1>1, <1>2, ClockMovesToNext
<1>4. CASE \A c \in TrafficClass : queue[l][c] = <<>>
  BY <1>4 DEF Eligible, Recovering, TrafficClass, Shaped
<1>5. CASE \E c \in TrafficClass : queue[l][c] # <<>>
  <2>1. startAt[l] = None
    <3> SUFFICES ASSUME startAt[l] # None
                 PROVE  FALSE
      OBVIOUS
    <3>1. PICK x \in events : x.task = TransmissionStart(l) /\ x.at = clock
      BY <1>1 DEF PortInv, PortMatchesEvents, FreshStart, Marks, Pending
    <3>2. e.at \in Nat /\ e.at <= x.at
      BY <1>1, <1>3, NextIsEarliest
    <3> QED
      BY <1>2, <1>3, <3>1, <3>2
  <2>2. /\ Eligible(queue[l], credit[l]) = {}
        /\ \E c \in Shaped :
             /\ wakeAt[l][c] # None
             /\ \A d \in Recovering(queue[l], credit[l]) :
                  NotYetRecovered(l, d, wakeAt[l][c])
    BY <1>1, <1>5, <2>1 DEF Awake
  <2>3. PICK c \in Shaped :
             /\ wakeAt[l][c] # None
             /\ \A d \in Recovering(queue[l], credit[l]) :
                  NotYetRecovered(l, d, wakeAt[l][c])
    BY <2>2
  <2>4. PICK x \in events : x.task = CreditUpdate(l, c) /\ x.at = wakeAt[l][c]
    BY <1>1, <2>3 DEF PortInv, PortMatchesEvents, Marks, Pending
  <2>5. e.at \in Nat /\ x.at \in Nat /\ e.at <= x.at
    BY <1>1, <1>3, NextIsEarliest
  <2>6. wakeAt[l][c] \in Nat /\ clock' <= wakeAt[l][c]
    BY <1>3, <2>4, <2>5
  <2>7. \A d \in Recovering(queue[l], credit[l]) : d \in Shaped
    BY DEF Recovering
  <2> QED
    BY <1>1, <1>3, <2>2, <2>3, <2>6, <2>7, NotYetRecoveredEarlier
<1> QED
  BY <1>4, <1>5

(* Every port is work conserving, whatever the case: time never passes an   *)
(* idle port by while a frame of it may be sent or its credit has recovered.*)
THEOREM PortsAreWorkConserving == Spec => WorkConserving
<1>1. EngineInv /\ NoLostWakeup /\ [Next]_vars =>
        [clock' > clock =>
           \A l \in Link : onWire[l] = None =>
             /\ Eligible(queue[l], credit[l]) = {}
             /\ \A c \in Recovering(queue[l], credit[l]) :
                  NotYetRecovered(l, c, clock')]_vars
  BY WorkConservingStep
<1> QED
  BY <1>1, EngineIsConsistent, NoWakeupIsLost, PTL DEF Spec, WorkConserving
=============================================================================
