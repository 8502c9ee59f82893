------------------------ MODULE SimulatorProperties ------------------------
(***************************************************************************)
(* What the simulator promises, stated of the states and steps of          *)
(* Simulator.  "Running" properties speak of the loop; once it has left,   *)
(* the pending events are dropped with the event queue.                    *)
(***************************************************************************)
EXTENDS Simulator, FiniteSetsExt

Running == status = "running"

Pending(task) == \E e \in events : e.task = task

-----------------------------------------------------------------------------
(* Types                                                                   *)

Task ==
       [kind : {"RELEASE_FRAME"}, stream : Stream]
  \cup [kind : {"ENQUEUE_FRAME"}, frame : Frame, link : Link]
  \cup [kind : {"TRANSMISSION_START"}, link : Link]
  \cup [kind : {"TRANSMISSION_END"}, link : Link, frame : Frame]
  \cup [kind : {"FORWARD_FRAME"}, frame : Frame]
  \cup [kind : {"DELIVERY_COMPLETE"}, frame : Frame]
  \cup [kind : {"CREDIT_UPDATE"}, link : Link, class : Shaped]
  \cup [kind : {"FINALIZE_RUN"}]

Event == [at : Nat, seq : Int, task : Task]

FrameState == [hop : Nat, releasedAt : Nat,
               enqueuedAt : Nat \cup {None}, deliveredAt : Nat \cup {None}]

(* Every variable holds a value of its kind. *)
TypeOK ==
  /\ case \in Cases
  /\ clock \in Nat
  /\ events \subseteq Event
  /\ processed \in Nat
  /\ queue \in [Link -> [TrafficClass -> Seq(Frame)]]
  /\ credit \in [Link -> [Shaped -> Int]]
  /\ syncedAt \in [Link -> Nat]
  /\ onWire \in [Link -> Frame \cup {None}]
  /\ startAt \in [Link -> Nat \cup {None}]
  /\ wakeAt \in [Link -> [Shaped -> Nat \cup {None}]]
  /\ DOMAIN frames \subseteq Frame
  /\ frames \in [DOMAIN frames -> FrameState]
  /\ released \in [Stream -> Nat]
  /\ completed \in [Stream -> Nat]
  /\ delivered \in Nat
  /\ stopReason \in StopReason \cup {None}
  /\ status \in {"running", "ok", "stopped", "raised"}

-----------------------------------------------------------------------------
(* The event queue and the ports                                           *)

(* No pending event lies in the past, so SimulationClock.advance_to never  *)
(* refuses a popped event.                                                 *)
EventsNotInPast == Running => \A e \in events : clock <= e.at

(* No two events do the same task. *)
PendingOnce(task) ==
  \A e, f \in events : e.task = task /\ f.task = task => e = f

(* A marker is set exactly when the event it stands for is pending: at     *)
(* the time it says, and once.                                             *)
Marks(marker, task) ==
  /\ \A e \in events : e.task = task => e.at = marker
  /\ marker # None => Pending(task)
  /\ PendingOnce(task)

(* A frame is on the wire exactly when its end is pending. *)
WireMatchesEvents(l) ==
  /\ \A e \in events :
       e.task.kind = "TRANSMISSION_END" /\ e.task.link = l => e.task.frame = onWire[l]
  /\ onWire[l] # None => /\ Pending(TransmissionEnd(l, onWire[l]))
                         /\ PendingOnce(TransmissionEnd(l, onWire[l]))

PortMatchesEvents(l) ==
  /\ Marks(startAt[l], TransmissionStart(l))
  /\ \A c \in Shaped : Marks(wakeAt[l][c], CreditUpdate(l, c))
  /\ WireMatchesEvents(l)

(* The port states and the event queue tell the same story, which          *)
(* finish_transmission and the deduplication of wakeups by markers rely    *)
(* on; and a stream has one release pending at most.                       *)
PortsMatchEvents ==
  Running => /\ \A l \in Link : PortMatchesEvents(l)
             /\ \A s \in Stream : PendingOnce(ReleaseFrame(s))

FreshStart(l) ==
  startAt[l] # None => /\ startAt[l] = clock
                       /\ syncedAt[l] = clock
                       /\ onWire[l] = None
                       /\ Eligible(queue[l], credit[l]) # {}

(* A requested start fires at the instant it was requested, on an idle     *)
(* port, with a candidate, and on credits of that instant: it reads them   *)
(* without synchronizing, so they must not be stale.                       *)
StartSeesFreshCredit == Running => \A l \in Link : FreshStart(l)

(* At time t the credit of class c on port l, recovering since the port    *)
(* was last synchronized, has been back at zero for no whole time unit.    *)
NotYetRecovered(l, c, t) ==
  credit[l][c] + case.slopes[c].idle * (t - 1 - syncedAt[l]) < 0

(* An idle port with waiting frames is going to be looked at again: at     *)
(* once if one of them may be sent, else no later than its first credit    *)
(* comes back.                                                             *)
Awake(l) ==
  (onWire[l] = None /\ \E c \in TrafficClass : queue[l][c] # <<>>) =>
    \/ startAt[l] # None
    \/ /\ Eligible(queue[l], credit[l]) = {}
       /\ \E c \in Shaped :
            /\ wakeAt[l][c] # None
            /\ \A d \in Recovering(queue[l], credit[l]) :
                 NotYetRecovered(l, d, wakeAt[l][c])

(* No wakeup is lost: every port stays awake while the loop runs. *)
NoLostWakeup == Running => \A l \in Link : Awake(l)

(* Time never passes an idle port by while a frame of it could be sent, be *)
(* it eligible already or once its credit has recovered.                   *)
WorkConserving ==
  [][clock' > clock =>
       \A l \in Link : onWire[l] = None =>
         /\ Eligible(queue[l], credit[l]) = {}
         /\ \A c \in Recovering(queue[l], credit[l]) :
              NotYetRecovered(l, c, clock')]_vars

-----------------------------------------------------------------------------
(* The credit-based shaper                                                 *)

Crosses(s, l) == \E h \in DOMAIN case.route[s] : case.route[s][h] = l

(* Longest frame of class c on link l. *)
LongestAirtime(l, c) ==
  Max({0} \cup {Airtime(s, l) : s \in {t \in Stream : case.class[t] = c /\ Crosses(t, l)}})

(* A credit stays between what one own frame can cost and what waiting     *)
(* behind one best-effort frame can earn, although the code caps neither.  *)
CreditWithinBounds ==
  \A l \in Link, c \in Shaped :
    /\ credit[l][c] <= case.slopes[c].idle * LongestAirtime(l, "best_effort")
    /\ credit[l][c] >= -(case.slopes[c].send * LongestAirtime(l, c))

(* Positive credit belongs to a class that has a frame queued or on the    *)
(* wire.                                                                   *)
PositiveCreditIsOwed ==
  \A l \in Link, c \in Shaped :
    credit[l][c] > 0 => queue[l][c] # <<>> \/ WireClass(l) = c

(* Frame f has been transmitted on link l. *)
HasLeft(f, l) ==
  \E h \in DOMAIN RouteOf(f) :
    /\ RouteOf(f)[h] = l
    /\ \/ h < frames[f].hop
       \/ h = frames[f].hop /\ (\/ frames[f].deliveredAt # None
                                \/ Pending(ForwardFrame(f))
                                \/ Pending(DeliveryComplete(f)))

AirtimeUsed(l, c) ==
  LET sent == {f \in DOMAIN frames : ClassOf(f) = c /\ HasLeft(f, l)}
  IN MapThenSumSet(LAMBDA f : Airtime(StreamOf(f), l), sent)

(* A shaped class never gets more of a link than its slopes reserve: what  *)
(* it spent at its send slope, less one frame, it earned at its idle slope *)
(* while it was not transmitting.                                          *)
ReservationRespected ==
  Running => \A l \in Link, c \in Shaped :
    LET slope == case.slopes[c] IN
    slope.send * AirtimeUsed(l, c)
      <= slope.idle * (clock - AirtimeUsed(l, c)) + slope.send * LongestAirtime(l, c)

(* A class whose queue was empty until now does not start with positive    *)
(* credit (test_simulation_cbs.py: "Positive idle credit must reset to     *)
(* zero once the queue is empty.").                                        *)
NoCreditBeforeArrival ==
  [][\A l \in Link, c \in Shaped :
       (queue[l][c] = <<>> /\ WireClass(l) # c /\ queue'[l][c] # <<>>)
         => credit'[l][c] <= 0]_vars

-----------------------------------------------------------------------------
(* Frames                                                                  *)

(* The positions of frame f in a queue, and the tasks that move it. *)
Slots(f, l, c) ==
  {<<"queue", l, c, i>> : i \in {j \in DOMAIN queue[l][c] : queue[l][c][j] = f}}
MovesOf(f) ==
  {EnqueueFrame(f, l) : l \in Link} \cup {ForwardFrame(f), DeliveryComplete(f)}

(* Where a frame is: in a queue, on a wire, with an event that moves it,   *)
(* or delivered.                                                           *)
Places(f) ==
       (UNION {Slots(f, l, c) : l \in Link, c \in TrafficClass})
  \cup {<<"wire", l>> : l \in {k \in Link : onWire[k] = f}}
  \cup {<<"event", e.seq>> : e \in {d \in events : d.task \in MovesOf(f)}}
  \cup (IF frames[f].deliveredAt # None THEN {<<"delivered">>} ELSE {})

(* A released frame is in exactly one place, a queue or wire of its own    *)
(* class at its current hop if it is at a port at all: frame objects are   *)
(* shared by queues, ports and event payloads, and none may lose or        *)
(* duplicate one.                                                          *)
EachFrameInOnePlace ==
  Running => \A f \in DOMAIN frames :
    /\ Cardinality(Places(f)) = 1
    /\ \A l \in Link :
         /\ \A c \in TrafficClass : (\E i \in DOMAIN queue[l][c] : queue[l][c][i] = f)
              => HopLink(f) = l /\ ClassOf(f) = c
         /\ onWire[l] = f => HopLink(f) = l
         /\ Pending(EnqueueFrame(f, l)) => HopLink(f) = l

(* Frames of a stream never overtake each other, on any hop and at the     *)
(* listener, whatever is handled at the same instant.                      *)
NoOvertaking ==
  \A f, g \in DOMAIN frames : (StreamOf(f) = StreamOf(g) /\ f[2] < g[2]) =>
    /\ frames[f].hop >= frames[g].hop
    /\ frames[g].deliveredAt # None => frames[f].deliveredAt # None
    /\ \A l \in Link, c \in TrafficClass : \A i, j \in DOMAIN queue[l][c] :
         queue[l][c][i] = f /\ queue[l][c][j] = g => i < j

(* At time t the streams have not come round yet to a time at which all of *)
(* them release together, and where there are several of them the cap on   *)
(* the hyperperiod has not passed either: integer_hyperperiod put without  *)
(* the number that it computes.                                            *)
InFirstHyperperiod(t) ==
  /\ \A n \in 1 .. t : \E s \in Stream : n % case.period[s] # 0
  /\ (\E r, s \in Stream : r # s) => t < case.maxHyperperiod

(* A release at time t is one the limits allow. *)
WithinLimits(n, t) ==
  /\ InFirstHyperperiod(t)
  /\ case.timeLimit # None => t < case.timeLimit
  /\ case.maxReleases # None => n < case.maxReleases

(* Releases are strictly periodic, all but the first (which is never       *)
(* checked) are within the horizon and the limits, and the chain of        *)
(* release events of a stream breaks only where these end it.              *)
ReleasesOnSchedule ==
  /\ \A f \in DOMAIN frames :
       /\ frames[f].releasedAt = f[2] * case.period[StreamOf(f)]
       /\ f[2] > 0 => WithinLimits(f[2], frames[f].releasedAt)
  /\ Running => \A s \in Stream :
       LET next == released[s] * case.period[s] IN
       \/ \E e \in events : e.task = ReleaseFrame(s) /\ e.at = next
       \/ released[s] > 0 /\ ~WithinLimits(released[s], next)

-----------------------------------------------------------------------------
(* The end of a run                                                        *)

(* When the loop ran out of events, no frame is left anywhere.             *)
DrainedMeansDelivered ==
  stopReason = "event_queue_empty" =>
    /\ \A f \in DOMAIN frames : frames[f].deliveredAt # None
    /\ \A s \in Stream : completed[s] = released[s]
    /\ \A l \in Link : onWire[l] = None

(* The stop reason a run reports is a fact about it, also when several     *)
(* limits are met together: the target was reached, the events were used   *)
(* up, or everything before the time limit was processed.                  *)
StopReasonIsTrue ==
  /\ stopReason = "delivery_target_reached" =>
       LET seen(s) == {f \in DOMAIN frames : StreamOf(f) = s /\ frames[f].deliveredAt # None}
       IN IF case.maxDeliveries # None
          THEN Cardinality(UNION {seen(s) : s \in Stream}) >= case.maxDeliveries
          ELSE \A s \in Stream : Cardinality(seen(s)) >= case.maxReleases
  /\ stopReason = "event_queue_empty" => events = {}
  /\ stopReason = "max_events_reached" => processed >= case.maxEvents
  /\ stopReason = "time_limit_reached" =>
       clock = case.timeLimit /\ \A e \in events : e.at >= clock

(* A handler raises only for a stream that no route is keyed by. *)
OnlyUnroutedStreamsRaise ==
  status = "raised" => \E s \in Stream : case.route[s] = <<>>

(* A run without limits delivers every frame it releases and ends: no frame *)
(* starves, and wakeups do not chase each other without time passing.  (A  *)
(* livelock would end in max_events_reached.)                              *)
EveryFrameIsDelivered ==
  <>(/\ status = "ok"
     /\ \A s \in Stream : released[s] > 0 /\ completed[s] = released[s])

-----------------------------------------------------------------------------
(* Frames, without the machinery                                           *)

NetworkOf(k) ==
  [route |-> k.route, class |-> k.class, period |-> k.period,
   airtime |-> [s \in Stream |-> [l \in Link |-> k.size[s] * k.pace[l]]]]

(* Of each frame: how many links it has crossed, to the end of its last     *)
(* transmission, and when it came to where it is.                          *)
Crossed ==
  [f \in DOMAIN frames |->
     IF \/ frames[f].deliveredAt # None
        \/ Pending(ForwardFrame(f)) \/ Pending(DeliveryComplete(f))
     THEN frames[f].hop ELSE frames[f].hop - 1]

Since ==
  [f \in DOMAIN frames |->
     IF frames[f].deliveredAt # None THEN frames[f].deliveredAt
     ELSE IF \E e \in events : e.task \in MovesOf(f) THEN clock
     ELSE frames[f].enqueuedAt]

(* The frame on each wire in use, until its end. *)
EndOf(l) == CHOOSE e \in events : e.task = TransmissionEnd(l, onWire[l])
Carried ==
  [l \in {k \in Link : onWire[k] # None} |->
     [frame |-> onWire[l], until |-> EndOf(l).at]]

Network == INSTANCE StoreAndForward WITH
  Networks <- {NetworkOf(k) : k \in Cases},
  net <- NetworkOf(case), now <- clock, sent <- released,
  crossed <- Crossed, since <- Since, wire <- Carried

(* The simulator is a store-and-forward network: seen without events,      *)
(* markers, queues and credits, every step of it is one of that network.   *)
ForwardsFrames == Network!Spec
=============================================================================
