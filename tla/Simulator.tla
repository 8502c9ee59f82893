------------------------------ MODULE Simulator ------------------------------
(***************************************************************************)
(* The discrete-event simulator of simulation/: the engine's loop, the     *)
(* event queue, and every handler the dispatcher calls.  One action is one *)
(* turn of the loop of SimulationEngine.run.                               *)
(*                                                                         *)
(* Given a case the program is deterministic, so the cases are the model's *)
(* inputs: Init picks one of Cases and no step changes it.                 *)
(***************************************************************************)
EXTENDS CbsPolicy, FiniteSets

CONSTANTS
  Stream,   \* canonical stream ids
  Link,     \* directed links; each has one egress port
  None,     \* Python's None
  Cases     \* the cases and configurations that may be simulated

(***************************************************************************)
(* A case as build_simulation_context resolves it, with its configuration: *)
(*   streams      case.streams, in their order                             *)
(*   class, period, route                                                  *)
(*                per stream; the route is the list of links, empty when   *)
(*                no route is keyed by the stream's id                     *)
(*   size         max_frame_size_bytes, the size of every frame            *)
(*   pace         pace[l]: time units per unit of size, the inverse of the *)
(*                link's speed                                             *)
(*   slopes       idle and send slope of each shaped class; they are a     *)
(*                share of the link's speed, so that counting the credits  *)
(*                of a port in units of its speed makes them the same on   *)
(*                every link                                               *)
(*   maxReleases, maxDeliveries, timeLimit                                 *)
(*                limits, None when not configured                         *)
(*   maxEvents, maxHyperperiod, stopWhenObserved                           *)
(***************************************************************************)
Slope == [idle : Nat \ {0}, send : Nat \ {0}]
Limit == Nat \cup {None}

CaseType ==
  [streams          : Seq(Stream),
   class            : [Stream -> TrafficClass],
   period           : [Stream -> Nat \ {0}],
   route            : [Stream -> Seq(Link)],
   size             : [Stream -> Nat \ {0}],
   pace             : [Link -> Nat \ {0}],
   slopes           : [Shaped -> Slope],
   maxReleases      : Limit,
   maxDeliveries    : Limit,
   timeLimit        : Limit,
   maxEvents        : Nat \ {0},
   maxHyperperiod   : Nat \ {0},
   stopWhenObserved : BOOLEAN]

(* Stream ids are distinct, a route visits a link once, and an AVB frame    *)
(* spends a whole number of time units' worth of idle slope.                *)
WellFormed(k) ==
  /\ \A i, j \in DOMAIN k.streams : k.streams[i] = k.streams[j] => i = j
  /\ \A s \in Stream : \E i \in DOMAIN k.streams : k.streams[i] = s
  /\ \A s \in Stream : \A i, j \in DOMAIN k.route[s] :
       k.route[s][i] = k.route[s][j] => i = j
  /\ \A s \in Stream, l \in Link : k.class[s] \in Shaped =>
       (k.slopes[k.class[s]].send * k.size[s] * k.pace[l])
         % k.slopes[k.class[s]].idle = 0

(* What stop_reason may say once there is a reason. *)
StopReason == {"delivery_target_reached", "max_events_reached",
               "time_limit_reached", "event_queue_empty"}

ASSUME NoneAssumption ==
  None \notin Int /\ None \notin Stream \X Nat /\ None \notin StopReason
ASSUME CasesAssumption == \A k \in Cases : k \in CaseType /\ WellFormed(k)

VARIABLES
  case,       \* the member of Cases that runs
  clock,      \* SimulationClock.current_time_us
  events,     \* the pending ScheduledEvents
  processed,  \* statistics.processed_events
  queue,      \* queue[l][c]: QueueState.pending_frame_ids
  credit,     \* credit[l][c]: CreditState.current_credit
  syncedAt,   \* CreditState.last_update_time_us, the same for a port's queues
  onWire,     \* PortState.current_transmission_frame_id
  startAt,    \* PortState.scheduled_scheduler_time_us
  wakeAt,     \* wakeAt[l][c]: QueueState.scheduled_credit_update_time_us
  frames,     \* NetworkState.frames: the FrameState of every released frame
  released,   \* StreamState.released_frames, equal to next_release_index
  completed,  \* StreamState.completed_frames
  delivered,  \* statistics.delivered_frames
  stopReason, \* statistics.stop_reason
  status      \* "running" in the loop, then engine_status, or "raised"

portVars == <<queue, credit, syncedAt, onWire, startAt, wakeAt>>
streamVars == <<released, completed, delivered>>
vars == <<case, clock, events, processed, portVars, frames, streamVars,
          stopReason, status>>

-----------------------------------------------------------------------------
(* Frames and events                                                       *)

Frame == Stream \X Nat                    \* stream id and release index
StreamOf(f) == f[1]
RouteOf(f) == case.route[StreamOf(f)]
ClassOf(f) == case.class[StreamOf(f)]
HopLink(f) == RouteOf(f)[frames[f].hop]   \* hops are counted from 1
IsLastHop(f) == frames[f].hop >= Len(RouteOf(f))
AirtimeOnFirstLink(s, l) == case.size[s] * case.pace[case.route[s][1]]
Airtime(s, l) == case.size[s] * case.pace[l]  \* serialization_delay_us
WireClass(l) == IF onWire[l] = None THEN NoClass ELSE ClassOf(onWire[l])

ReleaseFrame(s)      == [kind |-> "RELEASE_FRAME", stream |-> s]
EnqueueFrame(f, l)   == [kind |-> "ENQUEUE_FRAME", frame |-> f, link |-> l]
TransmissionStart(l) == [kind |-> "TRANSMISSION_START", link |-> l]
TransmissionEnd(l, f) == [kind |-> "TRANSMISSION_END", link |-> l, frame |-> f]
ForwardFrame(f)      == [kind |-> "FORWARD_FRAME", frame |-> f]
DeliveryComplete(f)  == [kind |-> "DELIVERY_COMPLETE", frame |-> f]
CreditUpdate(l, c)   == [kind |-> "CREDIT_UPDATE", link |-> l, class |-> c]
FinalizeRun          == [kind |-> "FINALIZE_RUN"]

(* The heap orders by time, then by insertion.  A handler pushes at most   *)
(* two events, so the dispatch number and the position within the handler  *)
(* order the insertions as EventQueue._sequence does.                      *)
Scheduled(at, nth, task) == [at |-> at, seq |-> 2 * processed' + nth, task |-> task]

Precedes(e, f) == e.at < f.at \/ (e.at = f.at /\ e.seq < f.seq)
IsNext(e) == e \in events /\ \A f \in events \ {e} : Precedes(e, f)

(* What the handler leaves in the event queue once e is popped. *)
Push(e, new) == events' = (events \ {e}) \cup new

-----------------------------------------------------------------------------
(* Stop conditions: services/stop_condition_service.py                     *)

(* integer_hyperperiod caps at the limit only when it folds two periods. *)
Hyperperiod ==
  LET periods == {case.period[s] : s \in Stream}
      common == {n \in 1..case.maxHyperperiod : \A p \in periods : n % p = 0}
  IN IF Len(case.streams) = 1 THEN case.period[case.streams[1]]
     ELSE IF common = {} THEN case.maxHyperperiod
     ELSE CHOOSE n \in common : \A m \in common : n <= m

ReleaseHorizon ==
  IF case.timeLimit # None /\ case.timeLimit < Hyperperiod
  THEN case.timeLimit ELSE Hyperperiod

HorizonIncluded(releasedNow, at) ==
  /\ case.maxReleases # None => releasedNow < case.maxReleases
  /\ at <= ReleaseHorizon
  /\ case.timeLimit # None => at <= case.timeLimit

(* releasedNow counts the release being handled. *)
CanScheduleRelease(releasedNow, at) ==
  /\ case.maxReleases # None => releasedNow < case.maxReleases
  /\ at < ReleaseHorizon
  /\ case.timeLimit # None => at <= case.timeLimit

AnyStreamObserved(deliveredNow, completedNow) ==
  IF case.maxDeliveries # None THEN deliveredNow >= case.maxDeliveries
  ELSE /\ case.stopWhenObserved
       /\ case.maxReleases # None
       /\ \E s \in Stream : completedNow[s] >= case.maxReleases

TargetDeliveriesReached(deliveredNow, completedNow) ==
  IF case.maxDeliveries # None THEN deliveredNow >= case.maxDeliveries
  ELSE /\ case.stopWhenObserved
       /\ case.maxReleases # None
       /\ \A s \in Stream : completedNow[s] >= case.maxReleases

EventLimitReached == processed >= case.maxEvents
TimeLimitReached == case.timeLimit # None /\ clock >= case.timeLimit
BeyondTimeLimit(e) == case.timeLimit # None /\ e.at > case.timeLimit

(* What makes a handler raise: a stream that no route is keyed by, time     *)
(* running backwards, a transmission end for a frame that is not on the    *)
(* wire, a forward past the last hop.                                      *)
Raises(e) ==
  \/ e.at < clock
  \/ e.task.kind = "RELEASE_FRAME" /\ case.route[e.task.stream] = <<>>
  \/ e.task.kind = "TRANSMISSION_END" /\ onWire[e.task.link] # e.task.frame
  \/ e.task.kind = "FORWARD_FRAME" /\ IsLastHop(e.task.frame)

(* The loop pops e: no stop condition holds and the limit is not passed. *)
Pops(e) ==
  /\ status = "running"
  /\ IsNext(e)
  /\ ~EventLimitReached /\ ~TimeLimitReached /\ ~BeyondTimeLimit(e)

(* One turn of the loop that hands e to its handler. *)
Dispatch(e) ==
  /\ Pops(e)
  /\ ~Raises(e)
  /\ clock' = e.at
  /\ processed' = processed + 1
  /\ UNCHANGED case

-----------------------------------------------------------------------------
(* Ports: services/scheduler_service.py and services/credit_service.py     *)

(* The credits of port l at clock', judged by its queues after the step.   *)
SyncedCredit(l, wire) ==
  SynchronizedCredit(credit[l], clock' - syncedAt[l], case.slopes,
                     queue'[l], wire)

RecoveryTime(l, c, cr) == clock' + RecoveryDelay(cr[c], case.slopes[c].idle)

RequestedEarlier(marker, at) == marker # None /\ marker < at

(* A wakeup is not requested again for the same time or a later one. *)
Requested(marker, at) == marker # None /\ marker <= at

NeedsStartThoughBusy(l, cr, marker) ==
  /\ Eligible(queue'[l], cr) # {}
  /\ ~Requested(marker, clock')

NeedsStart(l, cr, marker) ==
  /\ onWire'[l] = None
  /\ Eligible(queue'[l], cr) # {}
  /\ ~Requested(marker, clock')

NeedsWakeup(l, c, cr, marker) ==
  /\ onWire'[l] = None
  /\ Eligible(queue'[l], cr) = {}
  /\ RecoversFirst(c, queue'[l], cr, case.slopes)
  /\ ~Requested(marker, RecoveryTime(l, c, cr))

(* schedule_next_transmission, after the handler of e synchronized port l   *)
(* to credits cr, left the markers at starts and wakes, and pushed pushed. *)
ScheduleNextTransmission(e, l, cr, starts, wakes, pushed) ==
  /\ credit' = [credit EXCEPT ![l] = cr]
  /\ syncedAt' = [syncedAt EXCEPT ![l] = clock']
  /\ \/ /\ NeedsStart(l, cr, starts[l])
        /\ startAt' = [starts EXCEPT ![l] = clock']
        /\ wakeAt' = wakes
        /\ Push(e, pushed \cup {Scheduled(clock', 1, TransmissionStart(l))})
     \/ \E c \in Shaped :
          /\ NeedsWakeup(l, c, cr, wakes[l][c])
          /\ wakeAt' = [wakes EXCEPT ![l][c] = RecoveryTime(l, c, cr)]
          /\ startAt' = starts
          /\ Push(e, pushed \cup
                  {Scheduled(RecoveryTime(l, c, cr), 1, CreditUpdate(l, c))})
     \/ /\ ~NeedsStart(l, cr, starts[l])
        /\ \A c \in Shaped : ~NeedsWakeup(l, c, cr, wakes[l][c])
        /\ startAt' = starts
        /\ wakeAt' = wakes
        /\ Push(e, pushed)

-----------------------------------------------------------------------------
(* The handlers: services/*_service.py                                     *)

NewFrame(now) ==
  [hop |-> 1, releasedAt |-> now, enqueuedAt |-> None, deliveredAt |-> None]

HandleRelease(e, s) ==
  LET f == <<s, released[s]>>
      next == (released[s] + 1) * case.period[s]
  IN
  /\ e.task = ReleaseFrame(s)
  /\ Dispatch(e)
  /\ frames' = [g \in DOMAIN frames \cup {f} |->
                  IF g = f THEN NewFrame(clock') ELSE frames[g]]
  /\ released' = [released EXCEPT ![s] = @ + 1]
  /\ Push(e, {Scheduled(clock', 0, EnqueueFrame(f, case.route[s][1]))} \cup
             IF CanScheduleRelease(released[s] + 1, next)
             THEN {Scheduled(next, 1, ReleaseFrame(s))} ELSE {})
  /\ UNCHANGED <<portVars, completed, delivered, stopReason, status>>

(* The frame joins its queue before the credits are synchronized. *)
HandleEnqueue(e, f, l) ==
  /\ e.task = EnqueueFrame(f, l)
  /\ Dispatch(e)
  /\ queue' = [queue EXCEPT ![l][ClassOf(f)] = Joined(@, f)]
  /\ frames' = [frames EXCEPT ![f].enqueuedAt = clock']
  /\ UNCHANGED onWire
  /\ ScheduleNextTransmission(e, l, SyncedCredit(l, WireClass(l)),
                              startAt, wakeAt, {})
  /\ UNCHANGED <<streamVars, stopReason, status>>

(* The choice is made on the credits as they stand: nothing is synchronized *)
(* unless there is no candidate.                                           *)
HandleStart(e, l) ==
  LET cleared == [startAt EXCEPT ![l] = None] IN
  /\ e.task = TransmissionStart(l)
  /\ Dispatch(e)
  /\ \/ /\ onWire[l] # None
        /\ startAt' = cleared
        /\ Push(e, {})
        /\ UNCHANGED <<queue, credit, syncedAt, onWire, wakeAt>>
     \/ /\ onWire[l] = None
        /\ Eligible(queue[l], credit[l]) = {}
        /\ UNCHANGED <<queue, onWire>>
        /\ ScheduleNextTransmission(e, l, SyncedCredit(l, NoClass),
                                    cleared, wakeAt, {})
     \/ \E c \in TrafficClass :
          LET f == Head(queue[l][c]) IN
          /\ onWire[l] = None
          /\ IsCandidate(c, queue[l], credit[l])
          /\ queue' = [queue EXCEPT ![l][c] = Popped(@)]
          /\ onWire' = [onWire EXCEPT ![l] = f]
          /\ startAt' = cleared
          /\ Push(e, {Scheduled(clock' + Airtime(StreamOf(f), l), 0,
                                TransmissionEnd(l, f))})
          /\ UNCHANGED <<credit, syncedAt, wakeAt>>
  /\ UNCHANGED <<frames, streamVars, stopReason, status>>

(* Credits are synchronized while the frame still holds the wire, and again *)
(* by the scheduler once the wire is free.                                 *)
HandleEnd(e, l, f) ==
  LET freed == SynchronizedCredit(SyncedCredit(l, WireClass(l)), 0,
                                  case.slopes, queue'[l], NoClass)
      arrival == IF IsLastHop(f) THEN DeliveryComplete(f) ELSE ForwardFrame(f)
  IN
  /\ e.task = TransmissionEnd(l, f)
  /\ Dispatch(e)
  /\ onWire' = [onWire EXCEPT ![l] = None]
  /\ UNCHANGED queue
  /\ ScheduleNextTransmission(e, l, freed, startAt, wakeAt,
                              {Scheduled(clock', 0, arrival)})
  /\ UNCHANGED <<frames, streamVars, stopReason, status>>

HandleForward(e, f) ==
  /\ e.task = ForwardFrame(f)
  /\ Dispatch(e)
  /\ frames' = [frames EXCEPT ![f].hop = @ + 1]
  /\ Push(e, {Scheduled(clock', 0,
                        EnqueueFrame(f, RouteOf(f)[frames[f].hop + 1]))})
  /\ UNCHANGED <<portVars, streamVars, stopReason, status>>

(* Finalization is requested once, when the target is first reached. *)
HandleDelivery(e, f) ==
  LET s == StreamOf(f)
      finalize == /\ TargetDeliveriesReached(delivered', completed')
                  /\ stopReason # "delivery_target_reached"
  IN
  /\ e.task = DeliveryComplete(f)
  /\ Dispatch(e)
  /\ frames' = [frames EXCEPT ![f].deliveredAt = clock']
  /\ completed' = [completed EXCEPT ![s] = @ + 1]
  /\ delivered' = delivered + 1
  /\ stopReason' = IF finalize THEN "delivery_target_reached" ELSE stopReason
  /\ Push(e, IF finalize THEN {Scheduled(clock', 0, FinalizeRun)} ELSE {})
  /\ UNCHANGED <<portVars, released, status>>

HandleCreditUpdate(e, l, c) ==
  /\ e.task = CreditUpdate(l, c)
  /\ Dispatch(e)
  /\ UNCHANGED <<queue, onWire>>
  /\ ScheduleNextTransmission(e, l, SyncedCredit(l, WireClass(l)), startAt,
                              [wakeAt EXCEPT ![l][c] = None], {})
  /\ UNCHANGED <<frames, streamVars, stopReason, status>>

-----------------------------------------------------------------------------
(* Leaving the loop: every port is synchronized once more.                 *)

LeaveLoop(outcome, reason) ==
  /\ status' = outcome
  /\ stopReason' = reason
  /\ UNCHANGED <<case, queue, onWire, startAt, wakeAt, frames, streamVars>>
  /\ credit' = [l \in Link |-> SyncedCredit(l, WireClass(l))]
  /\ syncedAt' = [l \in Link |-> clock']

HandleFinalize(e) ==
  /\ e.task = FinalizeRun
  /\ Dispatch(e)
  /\ Push(e, {})
  /\ LeaveLoop("ok", "delivery_target_reached")

RunDry ==
  /\ status = "running"
  /\ events = {}
  /\ UNCHANGED <<clock, events, processed>>
  /\ LeaveLoop("ok", IF stopReason = None THEN "event_queue_empty" ELSE stopReason)

(* should_stop: the event limit is looked at before the time limit. *)
Stop ==
  /\ status = "running"
  /\ events # {}
  /\ EventLimitReached \/ TimeLimitReached
  /\ UNCHANGED <<clock, events, processed>>
  /\ LeaveLoop("stopped", IF EventLimitReached THEN "max_events_reached"
                          ELSE "time_limit_reached")

(* The next event is past the time limit: the clock moves to the limit. *)
StopBefore(e) ==
  /\ status = "running"
  /\ IsNext(e)
  /\ ~EventLimitReached /\ ~TimeLimitReached
  /\ BeyondTimeLimit(e)
  /\ clock' = case.timeLimit
  /\ UNCHANGED <<events, processed>>
  /\ LeaveLoop("stopped", "time_limit_reached")

(* The exception leaves run(), from the clock before anything is counted or *)
(* from a handler before it changes anything: no result is built.          *)
Raise(e) ==
  /\ Pops(e)
  /\ Raises(e)
  /\ status' = "raised"
  /\ Push(e, {})
  /\ clock' = IF e.at < clock THEN clock ELSE e.at
  /\ processed' = IF e.at < clock THEN processed ELSE processed + 1
  /\ UNCHANGED <<case, portVars, frames, streamVars, stopReason>>

-----------------------------------------------------------------------------

Init ==
  /\ case \in Cases
  /\ clock = 0
  /\ events = {[at |-> 0, seq |-> i - Len(case.streams),
                task |-> ReleaseFrame(case.streams[i])] : i \in DOMAIN case.streams}
  /\ processed = 0
  /\ queue = [l \in Link |-> [c \in TrafficClass |-> <<>>]]
  /\ credit = [l \in Link |-> [c \in Shaped |-> 0]]
  /\ syncedAt = [l \in Link |-> 0]
  /\ onWire = [l \in Link |-> None]
  /\ startAt = [l \in Link |-> None]
  /\ wakeAt = [l \in Link |-> [c \in Shaped |-> None]]
  /\ frames = [f \in {} |-> None]
  /\ released = [s \in Stream |-> 0]
  /\ completed = [s \in Stream |-> 0]
  /\ delivered = 0
  /\ stopReason = None
  /\ status = "running"

Next ==
  \/ \E e \in events :
       \/ \E s \in Stream : HandleRelease(e, s)
       \/ \E f \in DOMAIN frames, l \in Link : HandleEnqueue(e, f, l)
       \/ \E l \in Link : HandleStart(e, l)
       \/ \E f \in DOMAIN frames, l \in Link : HandleEnd(e, l, f)
       \/ \E f \in DOMAIN frames : HandleForward(e, f)
       \/ \E f \in DOMAIN frames : HandleDelivery(e, f)
       \/ \E l \in Link, c \in Shaped : HandleCreditUpdate(e, l, c)
       \/ HandleFinalize(e)
       \/ StopBefore(e)
       \/ Raise(e)
  \/ RunDry
  \/ Stop

Spec == Init /\ [][Next]_vars

(* The loop is one thread that runs until it leaves. *)
FairSpec == Spec /\ WF_vars(Next)

=============================================================================
