------------------------ MODULE SimulatorServiceProofs ------------------------
(***************************************************************************)
(* What the ports do for the frames.  The credits of the shaper: although  *)
(* the code caps none, each stays between what one own frame can cost and  *)
(* what waiting behind one best-effort frame can earn, and is positive     *)
(* only when owed; and a shaped class never gets more of a link than its   *)
(* idle and send slope allow it, whatever the other classes send.  And the *)
(* network: the simulator implements StoreAndForward.                      *)
(***************************************************************************)
EXTENDS SimulatorFrameProofs

-----------------------------------------------------------------------------
(* The longest frame                                                       *)

(* A finite sequence of numbers has a bound. *)
LEMMA BoundedSequence ==
  ASSUME NEW n \in Nat, NEW a \in [1..n -> Nat]
  PROVE  \E b \in Nat : \A i \in 1..n : a[i] <= b
<1> DEFINE Bound(k) == \E b \in Nat : \A i \in 1..k : a[i] <= b
           Unbounded == {k \in 0..n : ~Bound(k)}
<1>1. Bound(0)
  OBVIOUS
<1>2. ASSUME NEW k \in 1..n, Bound(k - 1)
      PROVE  Bound(k)
  <2>1. PICK b \in Nat : \A i \in 1..(k - 1) : a[i] <= b
    BY <1>2
  <2>2. PICK m \in Nat : b <= m /\ a[k] <= m
    <3>1. a[k] \in Nat /\ b \in Nat /\ (b <= a[k] \/ a[k] <= b)
      OBVIOUS
    <3> QED
      BY <3>1
  <2>3. ASSUME NEW i \in 1..k
        PROVE  a[i] <= m
    <3>1. CASE i = k
      BY <2>2, <3>1
    <3>2. CASE i # k
      <4>1. i \in 1..(k - 1) /\ a[i] \in Nat
        BY <3>2
      <4> QED
        BY <2>1, <2>2, <4>1
    <3> QED
      BY <3>1, <3>2
  <2> QED
    BY <2>2, <2>3
<1> HIDE DEF Bound
<1>3. Unbounded = {}
  <2> SUFFICES ASSUME Unbounded # {}
               PROVE  FALSE
    OBVIOUS
  <2>1. PICK k \in Unbounded : \A m \in Unbounded : k <= m
    <3>1. Unbounded \subseteq Nat
      OBVIOUS
    <3> QED
      BY <3>1, LeastNumber
  <2>2. k \in 1..n /\ ~Bound(k)
    BY <1>1
  <2>3. k - 1 \in 0..n /\ k - 1 < k
    BY <2>2
  <2>4. Bound(k - 1)
    BY <2>1, <2>3
  <2> QED
    BY <1>2, <2>2, <2>4
<1>4. Bound(n)
  BY <1>3
<1> QED
  BY <1>4 DEF Bound

(* A set of numbers that is bounded and not empty has a greatest one. *)
LEMMA GreatestNumber ==
  ASSUME NEW T, T \subseteq Nat, T # {}, NEW b \in Nat, \A n \in T : n <= b
  PROVE  \E m \in T : \A n \in T : n <= m
<1> DEFINE Gaps == {b - n : n \in T}
<1>1. Gaps \subseteq Nat /\ Gaps # {}
  <2>1. \A n \in T : n \in Nat /\ b - n \in Nat
    OBVIOUS
  <2>2. PICK n \in T : TRUE
    OBVIOUS
  <2>3. b - n \in Gaps
    OBVIOUS
  <2> QED
    BY <2>1, <2>3
<1>2. PICK g \in Gaps : \A h \in Gaps : g <= h
  BY <1>1, LeastNumber
<1>3. PICK m \in T : g = b - m
  BY <1>2
<1>4. ASSUME NEW n \in T
      PROVE  n <= m
  <2>1. b - m <= b - n /\ n \in Nat /\ m \in Nat
    BY <1>2, <1>3
  <2> QED
    BY <2>1
<1> QED
  BY <1>4

(* Among any streams, one takes a link the longest, for streams are a list. *)
LEMMA GreatestAirtime ==
  ASSUME TypeOK, NEW l \in Link, NEW T \in SUBSET Stream
  PROVE  \E a \in Nat : /\ a = 0 \/ \E t \in T : a = Airtime(t, l)
                        /\ \A t \in T : Airtime(t, l) \in Nat /\ Airtime(t, l) <= a
<1> DEFINE n == Len(case.streams)
           a == [i \in 1..n |-> Airtime(case.streams[i], l)]
           times == {Airtime(t, l) : t \in T}
<1>1. /\ case.size \in [Stream -> Nat \ {0}] /\ case.pace \in [Link -> Nat \ {0}]
      /\ case.streams \in Seq(Stream) /\ WellFormed(case)
  BY CasesAssumption DEF TypeOK, CaseType
<1>2. \A s \in Stream : Airtime(s, l) \in Nat
  BY <1>1 DEF Airtime
<1>3. n \in Nat /\ DOMAIN case.streams = 1..n /\ a \in [1..n -> Nat]
  BY <1>1, <1>2
<1>4. \A s \in Stream : \E i \in 1..n : a[i] = Airtime(s, l)
  BY <1>1, <1>3 DEF WellFormed
<1> HIDE DEF n, a
<1>5. PICK b \in Nat : \A i \in 1..n : a[i] <= b
  BY <1>3, BoundedSequence
<1>6. \A s \in Stream : Airtime(s, l) <= b
  BY <1>4, <1>5
<1>7. \E m \in {0} \cup times : \A x \in {0} \cup times : x <= m
  <2> DEFINE all == {0} \cup times
  <2>1. all \subseteq Nat /\ all # {} /\ \A x \in all : x <= b
    BY <1>2, <1>6
  <2> HIDE DEF all
  <2>2. \E m \in all : \A x \in all : x <= m
    BY <2>1, GreatestNumber
  <2> QED
    BY <2>2 DEF all
<1>8. PICK m \in {0} \cup times : \A x \in {0} \cup times : x <= m
  BY <1>7
<1> WITNESS m \in Nat
<1> QED
  BY <1>2, <1>8

(* The greatest of a set of numbers is the one that is not below another. *)
LEMMA GreatestIsMax ==
  ASSUME NEW S, S \subseteq Nat, NEW m \in S, \A x \in S : x <= m
  PROVE  Max(S) = m
<1>1. Max(S) = CHOOSE x \in S : \A y \in S : x >= y
  BY DEF Max
<1>2. \A y \in S : m >= y
  OBVIOUS
<1> PICK x : x = Max(S)
  OBVIOUS
<1>3. x \in S /\ \A y \in S : x >= y
  BY <1>1, <1>2
<1>4. x \in Nat /\ m \in Nat /\ x >= m /\ m >= x
  BY <1>2, <1>3
<1> QED
  BY <1>4

(* No frame of a class takes a link longer than the longest one that       *)
(* crosses it.                                                             *)
LEMMA LongestAirtimeFacts ==
  ASSUME TypeOK, NEW l \in Link, NEW c \in TrafficClass
  PROVE  /\ LongestAirtime(l, c) \in Nat
         /\ \A s \in Stream : case.class[s] = c /\ Crosses(s, l) =>
              Airtime(s, l) \in Nat /\ Airtime(s, l) <= LongestAirtime(l, c)
         /\ \/ LongestAirtime(l, c) = 0
            \/ \E s \in Stream : /\ case.class[s] = c /\ Crosses(s, l)
                                 /\ LongestAirtime(l, c) = Airtime(s, l)
<1> DEFINE crossing == {t \in Stream : case.class[t] = c /\ Crosses(t, l)}
           times == {0} \cup {Airtime(s, l) : s \in crossing}
<1>1. crossing \in SUBSET Stream
  OBVIOUS
<1> HIDE DEF crossing
<1>2. PICK a \in Nat : /\ a = 0 \/ \E t \in crossing : a = Airtime(t, l)
                       /\ \A t \in crossing : Airtime(t, l) \in Nat /\ Airtime(t, l) <= a
  BY <1>1, GreatestAirtime
<1>3. LongestAirtime(l, c) = a
  <2>1. times \subseteq Nat /\ a \in times /\ \A x \in times : x <= a
    BY <1>2
  <2>2. LongestAirtime(l, c) = Max(times)
    BY DEF LongestAirtime, crossing
  <2> HIDE DEF times
  <2> QED
    BY <2>1, <2>2, GreatestIsMax
<1> QED
  BY <1>2, <1>3 DEF crossing

-----------------------------------------------------------------------------
(* One credit                                                              *)

(* What one synchronization does to the credit of a class. *)
LEMMA SyncedOnce ==
  ASSUME NEW cr \in [Shaped -> Int], NEW elapsed \in Nat, NEW slopes,
         NEW c \in Shaped, slopes[c].idle \in Nat \ {0}, slopes[c].send \in Nat \ {0},
         NEW pending, NEW wire,
         NEW new, new = SynchronizedCredit(cr, elapsed, slopes, pending, wire)[c]
  PROVE  /\ new \in Int
         /\ new <= cr[c] + slopes[c].idle * elapsed
         /\ wire # "best_effort" => new <= cr[c] \/ new <= 0
         /\ wire = c => new = cr[c] - slopes[c].send * elapsed
         /\ wire # c => new >= cr[c] \/ new >= 0
         /\ new > 0 => pending[c] # <<>> \/ wire = c
<1> DEFINE earned == slopes[c].idle * elapsed
           spent == slopes[c].send * elapsed
           blocked == wire = "best_effort" /\ pending[c] # <<>>
           moved == IntegrateCredit(cr[c], elapsed, slopes[c], wire = c, blocked)
<1>1. new = NormalizeIdlePositiveCredit(moved, pending, wire, c)
  BY DEF SynchronizedCredit
<1>2. earned \in Nat /\ spent \in Nat /\ cr[c] \in Int /\ c # "best_effort"
  BY DEF Shaped
<1>3. /\ wire = c => moved = cr[c] - spent
      /\ wire # c /\ blocked => moved = cr[c] + earned
      /\ wire # c /\ ~blocked /\ cr[c] < 0 =>
           moved = IF cr[c] + earned > 0 THEN 0 ELSE cr[c] + earned
      /\ wire # c /\ ~blocked /\ ~(cr[c] < 0) => moved = cr[c]
  BY DEF IntegrateCredit
<1> HIDE DEF earned, spent, moved
<1>4. /\ moved \in Int /\ moved <= cr[c] + earned
      /\ wire # "best_effort" => moved <= cr[c] \/ moved <= 0
      /\ wire # c => moved >= cr[c] \/ moved >= 0
  BY <1>2, <1>3
<1>5. IF moved > 0 /\ pending[c] = <<>> /\ wire # c THEN new = 0 ELSE new = moved
  BY <1>1 DEF NormalizeIdlePositiveCredit
<1>6. /\ new \in Int
      /\ new <= cr[c] + earned
      /\ wire # "best_effort" => new <= cr[c] \/ new <= 0
      /\ wire = c => new = cr[c] - spent
      /\ wire # c => new >= cr[c] \/ new >= 0
      /\ new > 0 => pending[c] # <<>> \/ wire = c
  BY <1>2, <1>3, <1>4, <1>5
<1> QED
  BY <1>6 DEF earned, spent

(* A credit that will be within its upper bound after the rest of a        *)
(* transmission is so after a part of it, and will still be.               *)
LEMMA EarnedInTime ==
  ASSUME NEW cr \in Int, NEW new \in Int, NEW idle \in Nat, NEW bound \in Int,
         NEW since \in Nat, NEW now \in Nat, NEW end \in Nat, since <= now, now <= end,
         cr + idle * (end - since) <= bound, new <= cr + idle * (now - since)
  PROVE  /\ new + idle * (end - now) <= bound
         /\ new <= bound
<1> DEFINE gone == idle * (now - since)
           rest == idle * (end - now)
           whole == idle * (end - since)
<1>1. /\ gone \in Nat /\ rest \in Nat /\ whole \in Nat
  <2>1. now - since \in Nat /\ end - now \in Nat /\ end - since \in Nat
    OBVIOUS
  <2> QED
    BY <2>1
<1>2. whole = gone + rest
  OBVIOUS
<1>3. cr + whole <= bound /\ new <= cr + gone
  OBVIOUS
<1> HIDE DEF gone, rest, whole
<1>4. new + rest <= bound /\ new <= bound
  BY <1>1, <1>2, <1>3
<1> QED
  BY <1>4 DEF rest

(* The same for the lower bound of a class that transmits. *)
LEMMA SpentInTime ==
  ASSUME NEW cr \in Int, NEW new \in Int, NEW send \in Nat, NEW bound \in Int,
         NEW since \in Nat, NEW now \in Nat, NEW end \in Nat, since <= now, now <= end,
         cr - send * (end - since) >= bound, new = cr - send * (now - since)
  PROVE  /\ new - send * (end - now) >= bound
         /\ new >= bound
<1> DEFINE gone == send * (now - since)
           rest == send * (end - now)
           whole == send * (end - since)
<1>1. /\ gone \in Nat /\ rest \in Nat /\ whole \in Nat
  <2>1. now - since \in Nat /\ end - now \in Nat /\ end - since \in Nat
    OBVIOUS
  <2> QED
    BY <2>1
<1>2. whole = gone + rest
  OBVIOUS
<1>3. cr - whole >= bound /\ new = cr - gone
  OBVIOUS
<1> HIDE DEF gone, rest, whole
<1>4. new - rest >= bound /\ new >= bound
  BY <1>1, <1>2, <1>3
<1> QED
  BY <1>4 DEF rest

-----------------------------------------------------------------------------
(* The invariant                                                           *)

(* The bounds of the credit of class c on port l. *)
Most(l, c) == case.slopes[c].idle * LongestAirtime(l, "best_effort")
Least(l, c) == -(case.slopes[c].send * LongestAirtime(l, c))

(* Event x ends a transmission on link l. *)
IsEnd(x, l) == x.task.kind = "TRANSMISSION_END" /\ x.task.link = l

(* Credits cr, valid at time since, will be within their bounds when the   *)
(* transmission on the wire of l ends with x.                              *)
InTime(l, cr, since, x) ==
  \A c \in Shaped :
    /\ WireClass(l) = "best_effort" =>
         cr[c] + case.slopes[c].idle * (x.at - since) <= Most(l, c)
    /\ WireClass(l) = c =>
         cr[c] - case.slopes[c].send * (x.at - since) >= Least(l, c)

(* The credits of port l are within their bounds and owed, now and, while  *)
(* the port transmits, until it ends.                                      *)
CreditHolds(l) ==
  \A c \in Shaped :
    /\ credit[l][c] \in Int
    /\ credit[l][c] <= Most(l, c) /\ credit[l][c] >= Least(l, c)
    /\ credit[l][c] > 0 => queue[l][c] # <<>> \/ WireClass(l) = c

EndsInTime(l) == \A x \in events : IsEnd(x, l) => InTime(l, credit[l], syncedAt[l], x)

CreditInv ==
  /\ \A l \in Link : CreditHolds(l)
  /\ Running => \A l \in Link : EndsInTime(l)

(* The bounds are whole numbers, on either side of zero. *)
LEMMA BoundsFacts ==
  ASSUME TypeOK, NEW l \in Link, NEW c \in Shaped
  PROVE  /\ Most(l, c) \in Nat
         /\ Least(l, c) \in Int /\ Least(l, c) <= 0
         /\ case.slopes[c].idle \in Nat \ {0} /\ case.slopes[c].send \in Nat \ {0}
<1>1. /\ case.slopes[c].idle \in Nat \ {0} /\ case.slopes[c].send \in Nat \ {0}
  BY SlopeFacts
<1>2. /\ LongestAirtime(l, "best_effort") \in Nat /\ LongestAirtime(l, c) \in Nat
  BY LongestAirtimeFacts DEF TrafficClass, Shaped
<1>3. /\ case.slopes[c].idle * LongestAirtime(l, "best_effort") \in Nat
      /\ case.slopes[c].send * LongestAirtime(l, c) \in Nat
  BY <1>1, <1>2
<1> QED
  BY <1>1, <1>3 DEF Most, Least

(* No step changes the bounds. *)
LEMMA BoundsStand ==
  ASSUME case' = case, NEW l, NEW c
  PROVE  Most(l, c)' = Most(l, c) /\ Least(l, c)' = Least(l, c)
BY DEF Most, Least, LongestAirtime, Crosses, Airtime

(* Synchronizing port l before its transmission ends keeps its credits     *)
(* within their bounds and owed.                                           *)
LEMMA SyncHolds ==
  ASSUME TypeOK, NEW l \in Link, CreditHolds(l), EndsInTime(l),
         onWire[l] # None => \E x \in events : IsEnd(x, l),
         clock' \in Nat, syncedAt[l] <= clock',
         \A x \in events : IsEnd(x, l) => clock' <= x.at,
         NEW cr, cr = SyncedCredit(l, WireClass(l))
  PROVE  /\ \A c \in Shaped :
              /\ cr[c] \in Int
              /\ cr[c] <= Most(l, c) /\ cr[c] >= Least(l, c)
              /\ cr[c] > 0 => queue'[l][c] # <<>> \/ WireClass(l) = c
         /\ \A x \in events : IsEnd(x, l) => InTime(l, cr, clock', x)
<1> DEFINE elapsed == clock' - syncedAt[l]
<1>1. /\ syncedAt[l] \in Nat /\ elapsed \in Nat /\ credit[l] \in [Shaped -> Int]
      /\ \A x \in events : x.at \in Nat
  BY DEF TypeOK, Event
<1>2. cr = SynchronizedCredit(credit[l], elapsed, case.slopes, queue'[l], WireClass(l))
  BY DEF SyncedCredit
<1> HIDE DEF elapsed
<1> SUFFICES ASSUME NEW c \in Shaped
             PROVE  /\ cr[c] \in Int
                    /\ cr[c] <= Most(l, c) /\ cr[c] >= Least(l, c)
                    /\ cr[c] > 0 => queue'[l][c] # <<>> \/ WireClass(l) = c
                    /\ \A x \in events : IsEnd(x, l) =>
                         /\ WireClass(l) = "best_effort" =>
                              cr[c] + case.slopes[c].idle * (x.at - clock') <= Most(l, c)
                         /\ WireClass(l) = c =>
                              cr[c] - case.slopes[c].send * (x.at - clock') >= Least(l, c)
  BY DEF InTime
<1> PICK old : old = credit[l][c]
  OBVIOUS
<1>3. /\ Most(l, c) \in Nat /\ Least(l, c) \in Int /\ Least(l, c) <= 0
      /\ case.slopes[c].idle \in Nat \ {0} /\ case.slopes[c].send \in Nat \ {0}
  BY BoundsFacts
<1>4. /\ cr[c] \in Int
      /\ cr[c] <= old + case.slopes[c].idle * elapsed
      /\ WireClass(l) # "best_effort" => cr[c] <= old \/ cr[c] <= 0
      /\ WireClass(l) = c => cr[c] = old - case.slopes[c].send * elapsed
      /\ WireClass(l) # c => cr[c] >= old \/ cr[c] >= 0
      /\ cr[c] > 0 => queue'[l][c] # <<>> \/ WireClass(l) = c
  <2> DEFINE before == credit[l]
             slopes == case.slopes
             pending == queue'[l]
             wire == WireClass(l)
  <2>1. /\ before \in [Shaped -> Int] /\ elapsed \in Nat
        /\ slopes[c].idle \in Nat \ {0} /\ slopes[c].send \in Nat \ {0}
        /\ cr[c] = SynchronizedCredit(before, elapsed, slopes, pending, wire)[c]
    BY <1>1, <1>2, <1>3
  <2> HIDE DEF before, slopes, pending, wire
  <2>2. /\ cr[c] \in Int
        /\ cr[c] <= before[c] + slopes[c].idle * elapsed
        /\ wire # "best_effort" => cr[c] <= before[c] \/ cr[c] <= 0
        /\ wire = c => cr[c] = before[c] - slopes[c].send * elapsed
        /\ wire # c => cr[c] >= before[c] \/ cr[c] >= 0
        /\ cr[c] > 0 => pending[c] # <<>> \/ wire = c
    BY <2>1, SyncedOnce
  <2> QED
    BY <2>2 DEF before, slopes, pending, wire
<1>5. old \in Int /\ old <= Most(l, c) /\ old >= Least(l, c)
  BY DEF CreditHolds
<1>6. ASSUME NEW x \in events, IsEnd(x, l), WireClass(l) = "best_effort"
      PROVE  /\ cr[c] + case.slopes[c].idle * (x.at - clock') <= Most(l, c)
             /\ cr[c] <= Most(l, c)
  <2>1. /\ old + case.slopes[c].idle * (x.at - syncedAt[l]) <= Most(l, c)
        /\ clock' <= x.at
    BY <1>6 DEF EndsInTime, InTime
  <2> DEFINE idle == case.slopes[c].idle
             bound == Most(l, c)
             since == syncedAt[l]
             now == clock'
             end == x.at
             new == cr[c]
  <2>2. /\ old \in Int /\ new \in Int /\ idle \in Nat /\ bound \in Int
        /\ since \in Nat /\ now \in Nat /\ end \in Nat /\ since <= now /\ now <= end
        /\ old + idle * (end - since) <= bound /\ new <= old + idle * (now - since)
    BY <1>1, <1>3, <1>4, <1>5, <2>1 DEF elapsed
  <2> HIDE DEF idle, bound, since, now, end, new
  <2>3. new + idle * (end - now) <= bound /\ new <= bound
    BY <2>2, EarnedInTime
  <2> QED
    BY <2>3 DEF idle, bound, now, end, new
<1>7. ASSUME NEW x \in events, IsEnd(x, l), WireClass(l) = c
      PROVE  /\ cr[c] - case.slopes[c].send * (x.at - clock') >= Least(l, c)
             /\ cr[c] >= Least(l, c)
  <2>1. /\ old - case.slopes[c].send * (x.at - syncedAt[l]) >= Least(l, c)
        /\ clock' <= x.at
    BY <1>7 DEF EndsInTime, InTime
  <2> DEFINE send == case.slopes[c].send
             bound == Least(l, c)
             since == syncedAt[l]
             now == clock'
             end == x.at
             new == cr[c]
  <2>2. /\ old \in Int /\ new \in Int /\ send \in Nat /\ bound \in Int
        /\ since \in Nat /\ now \in Nat /\ end \in Nat /\ since <= now /\ now <= end
        /\ old - send * (end - since) >= bound /\ new = old - send * (now - since)
    BY <1>1, <1>3, <1>4, <1>5, <1>7, <2>1 DEF elapsed
  <2> HIDE DEF send, bound, since, now, end, new
  <2>3. new - send * (end - now) >= bound /\ new >= bound
    BY <2>2, SpentInTime
  <2> QED
    BY <2>3 DEF send, bound, now, end, new
<1>8. WireClass(l) = "best_effort" \/ WireClass(l) = c => \E x \in events : IsEnd(x, l)
  BY DEF WireClass, NoClass, Shaped
<1>9. cr[c] <= Most(l, c)
  <2>1. CASE WireClass(l) = "best_effort"
    BY <1>6, <1>8, <2>1
  <2>2. CASE WireClass(l) # "best_effort"
    BY <1>3, <1>4, <1>5, <2>2
  <2> QED
    BY <2>1, <2>2
<1>10. cr[c] >= Least(l, c)
  <2>1. CASE WireClass(l) = c
    BY <1>7, <1>8, <2>1
  <2>2. CASE WireClass(l) # c
    BY <1>3, <1>4, <1>5, <2>2
  <2> QED
    BY <2>1, <2>2
<1> QED
  BY <1>4, <1>6, <1>7, <1>9, <1>10

-----------------------------------------------------------------------------
(* Every step keeps the credits within their bounds                        *)

(* The step pushes no end of a transmission. *)
NoNewEnds == \A x \in events' : x.task.kind = "TRANSMISSION_END" => x \in events

(* A port that a step leaves as it is keeps its credits. *)
LEMMA SamePortHolds ==
  ASSUME case' = case, NEW k \in Link, SamePort(k),
         \A x \in events' : IsEnd(x, k) => x \in events
  PROVE  /\ WireClass(k)' = WireClass(k)
         /\ CreditHolds(k) => CreditHolds(k)'
         /\ EndsInTime(k) => EndsInTime(k)'
<1>1. WireClass(k)' = WireClass(k)
  BY DEF SamePort, WireClass, ClassOf, StreamOf
<1>2. CreditHolds(k) => CreditHolds(k)'
  BY <1>1, BoundsStand DEF SamePort, CreditHolds
<1>3. ASSUME EndsInTime(k), NEW x \in events', IsEnd(x, k)
      PROVE  InTime(k, credit[k], syncedAt[k], x)'
  <2>1. InTime(k, credit[k], syncedAt[k], x)
    BY <1>3 DEF EndsInTime
  <2>2. credit'[k] = credit[k] /\ syncedAt'[k] = syncedAt[k]
    BY DEF SamePort
  <2> QED
    BY <1>1, <2>1, <2>2, BoundsStand DEF InTime
<1> QED
  BY <1>1, <1>2, <1>3 DEF EndsInTime, IsEnd

(* The scheduler pushes no end of a transmission. *)
LEMMA SchedulerEndsNothing ==
  ASSUME NEW e, NEW l, NEW cr, NEW starts, NEW wakes, NEW pushed,
         ScheduleNextTransmission(e, l, cr, starts, wakes, pushed),
         \A n \in pushed : n.task.kind # "TRANSMISSION_END"
  PROVE  NoNewEnds
<1>1. PICK new : /\ events' = (events \ {e}) \cup (pushed \cup new)
                 /\ \A n \in new :
                      /\ n.task.kind \in {"TRANSMISSION_START", "CREDIT_UPDATE"}
                      /\ n.seq = 2 * processed' + 1
  BY SchedulerMovesNothing
<1> QED
  BY <1>1 DEF NoNewEnds

(* What the invariants say when a port of a running loop is synchronized   *)
(* by a handler.                                                           *)
LEMMA SyncPremises ==
  ASSUME FrameInv, NEW e, Dispatch(e), NEW l \in Link
  PROVE  /\ TypeOK /\ case' = case /\ clock' \in Nat /\ syncedAt[l] <= clock'
         /\ onWire[l] # None => \E x \in events : IsEnd(x, l)
         /\ \A x \in events : IsEnd(x, l) => clock' <= x.at
<1>1. TypeOK /\ case' = case /\ clock' \in Nat /\ clock' = e.at /\ PortInv(l)
  BY DispatchFacts
<1>2. syncedAt[l] <= clock'
  <2>1. /\ syncedAt[l] \in Nat /\ clock \in Nat /\ syncedAt[l] <= clock /\ clock <= clock'
    BY <1>1 DEF PortInv, TypeOK, Dispatch, Raises
  <2> QED
    BY <1>1, <2>1
<1>3. onWire[l] # None => \E x \in events : IsEnd(x, l)
  BY <1>1, TaskFields DEF PortInv, PortMatchesEvents, WireMatchesEvents, Pending, IsEnd
<1>4. \A x \in events : clock' <= x.at
  BY <1>1, NextIsEarliest DEF Dispatch, Pops
<1> QED
  BY <1>1, <1>2, <1>3, <1>4

(* A handler that synchronizes its port and leaves the wire alone. *)
LEMMA SchedulerHolds ==
  ASSUME FrameInv, NEW e, Dispatch(e), NEW l \in Link, CreditHolds(l), EndsInTime(l),
         onWire' = onWire, NEW starts, NEW wakes,
         ScheduleNextTransmission(e, l, SyncedCredit(l, WireClass(l)), starts, wakes, {})
  PROVE  CreditHolds(l)' /\ EndsInTime(l)' /\ NoNewEnds
<1> PICK cr : cr = SyncedCredit(l, WireClass(l))
  OBVIOUS
<1>1. /\ TypeOK /\ case' = case /\ clock' \in Nat /\ syncedAt[l] <= clock'
      /\ onWire[l] # None => \E x \in events : IsEnd(x, l)
      /\ \A x \in events : IsEnd(x, l) => clock' <= x.at
  BY SyncPremises
<1>2. /\ \A c \in Shaped :
           /\ cr[c] \in Int
           /\ cr[c] <= Most(l, c) /\ cr[c] >= Least(l, c)
           /\ cr[c] > 0 => queue'[l][c] # <<>> \/ WireClass(l) = c
      /\ \A x \in events : IsEnd(x, l) => InTime(l, cr, clock', x)
  BY <1>1, SyncHolds
<1>3. credit'[l] = cr /\ syncedAt'[l] = clock'
  BY <1>1 DEF ScheduleNextTransmission, TypeOK
<1>4. NoNewEnds
  BY SchedulerEndsNothing
<1>5. WireClass(l)' = WireClass(l)
  BY <1>1 DEF WireClass, ClassOf, StreamOf
<1>6. CreditHolds(l)'
  BY <1>1, <1>2, <1>3, <1>5, BoundsStand DEF CreditHolds
<1>7. ASSUME NEW x \in events', IsEnd(x, l)
      PROVE  InTime(l, credit[l], syncedAt[l], x)'
  <2>1. InTime(l, cr, clock', x)
    BY <1>2, <1>4, <1>7 DEF NoNewEnds, IsEnd
  <2> QED
    BY <1>1, <1>3, <1>5, <2>1, BoundsStand DEF InTime
<1> QED
  BY <1>4, <1>6, <1>7 DEF EndsInTime, IsEnd

(* The end of a transmission schedules no other. *)
LEMMA EndPushesNoEnd ==
  ASSUME NEW e, NEW l, NEW f, HandleEnd(e, l, f)
  PROVE  NoNewEnds
<1> DEFINE arrival == Scheduled(clock', 0, IF IsLastHop(f) THEN DeliveryComplete(f)
                                                           ELSE ForwardFrame(f))
           pushed == {arrival}
<1>1. \E cr : ScheduleNextTransmission(e, l, cr, startAt, wakeAt, pushed)
  BY DEF HandleEnd
<1>2. \A n \in pushed : n.task.kind # "TRANSMISSION_END"
  BY ScheduledFields, TaskFields
<1> HIDE DEF pushed
<1> QED
  BY <1>1, <1>2, SchedulerEndsNothing

(* The end of a transmission settles its cost and frees the wire. *)
LEMMA EndHolds ==
  ASSUME FrameInv, NEW e \in events, NEW f \in DOMAIN frames, NEW l \in Link,
         HandleEnd(e, l, f), CreditHolds(l), EndsInTime(l)
  PROVE  CreditHolds(l)' /\ EndsInTime(l)' /\ NoNewEnds
<1> PICK synced : synced = SyncedCredit(l, WireClass(l))
  OBVIOUS
<1> PICK freed : freed = SynchronizedCredit(synced, 0, case.slopes, queue'[l], NoClass)
  OBVIOUS
<1>1. /\ Dispatch(e)
      /\ onWire' = [onWire EXCEPT ![l] = None]
      /\ \E pushed : ScheduleNextTransmission(e, l, freed, startAt, wakeAt, pushed)
  BY DEF HandleEnd
<1>3. NoNewEnds
  BY EndPushesNoEnd
<1>4. /\ TypeOK /\ case' = case /\ clock' \in Nat /\ syncedAt[l] <= clock'
      /\ onWire[l] # None => \E x \in events : IsEnd(x, l)
      /\ \A x \in events : IsEnd(x, l) => clock' <= x.at
  BY <1>1, SyncPremises
<1>5. \A c \in Shaped : /\ synced[c] \in Int
                        /\ synced[c] <= Most(l, c) /\ synced[c] >= Least(l, c)
  BY <1>4, SyncHolds
<1>6. ASSUME NEW c \in Shaped
      PROVE  /\ freed[c] \in Int
             /\ freed[c] <= Most(l, c) /\ freed[c] >= Least(l, c)
             /\ freed[c] > 0 => queue'[l][c] # <<>>
  <2> DEFINE slopes == case.slopes
             pending == queue'[l]
             elapsed == 0
  <2>1. /\ synced \in [Shaped -> Int] /\ elapsed \in Nat
        /\ slopes[c].idle \in Nat \ {0} /\ slopes[c].send \in Nat \ {0}
        /\ freed = SynchronizedCredit(synced, elapsed, slopes, pending, NoClass)
    BY <1>4, SyncedCreditType, SlopeFacts
  <2>2. NoClass # "best_effort" /\ NoClass # c
    BY DEF NoClass, Shaped
  <2> HIDE DEF slopes, pending, elapsed
  <2>3. /\ freed[c] \in Int
        /\ freed[c] <= synced[c] \/ freed[c] <= 0
        /\ freed[c] >= synced[c] \/ freed[c] >= 0
        /\ freed[c] > 0 => pending[c] # <<>>
    BY <2>1, <2>2, SyncedOnce
  <2>4. Most(l, c) \in Nat /\ Least(l, c) \in Int /\ Least(l, c) <= 0
    BY <1>4, BoundsFacts
  <2>5. synced[c] \in Int /\ synced[c] <= Most(l, c) /\ synced[c] >= Least(l, c)
    BY <1>5
  <2>6. freed[c] <= Most(l, c) /\ freed[c] >= Least(l, c)
    BY <2>3, <2>4, <2>5
  <2> QED
    BY <2>3, <2>6 DEF pending
<1>7. credit'[l] = freed
  BY <1>1, <1>4 DEF ScheduleNextTransmission, TypeOK
<1>8. WireClass(l)' = NoClass
  BY <1>1, <1>4 DEF WireClass, TypeOK
<1>9. CreditHolds(l)'
  BY <1>4, <1>6, <1>7, BoundsStand DEF CreditHolds
<1>10. EndsInTime(l)'
  BY <1>8 DEF EndsInTime, InTime, NoClass, Shaped
<1> QED
  BY <1>3, <1>9, <1>10

(* A frame that starts is one of its class and route, on credits that are   *)
(* fresh, and the end of its transmission is the only one pending for its  *)
(* link.                                                                   *)
LEMMA StartFacts ==
  ASSUME FrameInv, NEW e \in events, NEW l \in Link, NEW c \in TrafficClass,
         NEW f \in Frame, Transmits(e, l, c, f)
  PROVE  /\ TypeOK /\ case' = case /\ UNCHANGED <<credit, syncedAt>>
         /\ onWire[l] = None /\ onWire'[l] = f /\ WireClass(l)' = c
         /\ f \in DOMAIN frames /\ ClassOf(f) = c /\ StreamOf(f) \in Stream
         /\ Crosses(StreamOf(f), l)
         /\ clock' \in Nat /\ syncedAt[l] = clock'
         /\ \A x \in events' : IsEnd(x, l) => x.at = clock' + Airtime(StreamOf(f), l)
         /\ \A x \in events', k \in Link \ {l} : IsEnd(x, k) => x \in events
<1>1. /\ Dispatch(e) /\ e.task = TransmissionStart(l)
      /\ onWire[l] = None /\ IsCandidate(c, queue[l], credit[l])
      /\ queue' = [queue EXCEPT ![l][c] = Popped(@)]
      /\ onWire' = [onWire EXCEPT ![l] = f]
      /\ UNCHANGED <<credit, syncedAt>>
  BY DEF Transmits
<1>2. /\ TypeOK /\ case' = case /\ clock' \in Nat /\ PortInv(l)
      /\ \A g \in DOMAIN frames : Placed(g)
  BY <1>1, DispatchFacts
<1>3. PICK end : /\ events' = (events \ {e}) \cup {end}
                 /\ end.task = TransmissionEnd(l, f)
                 /\ end.at = clock' + Airtime(StreamOf(f), l)
  BY ScheduledFields DEF Transmits, Push
<1>4. syncedAt[l] = clock'
  <2>1. startAt[l] = e.at /\ e.at \in Nat
    BY <1>1, <1>2 DEF PortInv, PortMatchesEvents, Marks, TypeOK, Event
  <2>2. startAt[l] # None
    BY <2>1, NoneAssumption
  <2>3. syncedAt[l] = startAt[l]
    BY <1>2, <2>2 DEF PortInv, FreshStart
  <2> QED
    BY <1>1, <2>1, <2>3 DEF Dispatch
<1>5. /\ f \in DOMAIN frames /\ f # None /\ ClassOf(f) = c /\ StreamOf(f) \in Stream
      /\ Crosses(StreamOf(f), l)
  <2>1. f \in DOMAIN frames /\ Holds(queue[l][c], f)
    BY StartMoves
  <2>2. HopLink(f) = l /\ ClassOf(f) = c /\ frames[f].hop \in DOMAIN RouteOf(f)
    BY <1>2, <2>1 DEF Placed
  <2>3. f # None /\ StreamOf(f) \in Stream
    BY <1>2, <2>1, PlacedFacts
  <2> QED
    BY <2>1, <2>2, <2>3 DEF Crosses, HopLink, RouteOf
<1>6. WireClass(l)' = c
  BY <1>1, <1>2, <1>5 DEF WireClass, ClassOf, StreamOf, TypeOK
<1>7. \A x \in events : ~IsEnd(x, l)
  <2> SUFFICES ASSUME NEW x \in events, IsEnd(x, l)
               PROVE  FALSE
    OBVIOUS
  <2>1. x.task.frame = None
    BY <1>1, <1>2 DEF PortInv, PortMatchesEvents, WireMatchesEvents, IsEnd
  <2>2. x.task \in Task
    BY <1>2 DEF TypeOK, Event
  <2>3. x.task.frame \in Frame
    BY <2>2 DEF Task, IsEnd
  <2> QED
    BY <2>1, <2>3, NoneAssumption DEF Frame
<1>8. \A x \in events' : IsEnd(x, l) => x.at = clock' + Airtime(StreamOf(f), l)
  BY <1>3, <1>7
<1>9. \A x \in events', k \in Link \ {l} : IsEnd(x, k) => x \in events
  BY <1>3, TaskFields DEF IsEnd
<1>10. onWire'[l] = f
  BY <1>1, <1>2 DEF TypeOK
<1> QED
  BY <1>1, <1>2, <1>4, <1>5, <1>6, <1>8, <1>9, <1>10

(* A frame that starts cannot cost its class more than the longest frame,  *)
(* for its credit is not negative; nor, if it is a best-effort frame, earn *)
(* another class more, for no credit is positive then.                     *)
LEMMA StartHolds ==
  ASSUME FrameInv, NEW e \in events, NEW l \in Link, NEW c \in TrafficClass,
         NEW f \in Frame, Transmits(e, l, c, f), CreditHolds(l), EndsInTime(l)
  PROVE  CreditHolds(l)' /\ EndsInTime(l)'
<1>1. /\ onWire[l] = None /\ IsCandidate(c, queue[l], credit[l])
      /\ queue' = [queue EXCEPT ![l][c] = Popped(@)]
  BY DEF Transmits
<1>2. /\ TypeOK /\ case' = case /\ UNCHANGED <<credit, syncedAt>>
      /\ WireClass(l)' = c /\ ClassOf(f) = c /\ StreamOf(f) \in Stream
      /\ Crosses(StreamOf(f), l)
      /\ clock' \in Nat /\ syncedAt[l] = clock'
      /\ \A x \in events' : IsEnd(x, l) => x.at = clock' + Airtime(StreamOf(f), l)
  BY StartFacts
<1>3. \A d \in Shaped : d # c => queue'[l][d] = queue[l][d]
  BY <1>1, <1>2 DEF TypeOK
<1>4. \A d \in Shaped : credit[l][d] > 0 => queue[l][d] # <<>>
  BY <1>1 DEF CreditHolds, WireClass, NoClass, Shaped
<1>5. CreditHolds(l)'
  BY <1>2, <1>3, <1>4, BoundsStand DEF CreditHolds
<1>6. ASSUME NEW d \in Shaped, c = "best_effort"
      PROVE  credit[l][d] <= 0
  <2>1. d \in TrafficClass /\ ~(Priority[d] <= Priority[c])
    BY <1>6 DEF Shaped, TrafficClass, Priority
  <2>2. d \notin Eligible(queue[l], credit[l])
    BY <1>1, <2>1 DEF IsCandidate
  <2>3. credit[l][d] \in Int
    BY DEF CreditHolds
  <2>4. queue[l][d] = <<>> \/ ~(credit[l][d] >= 0)
    BY <2>1, <2>2 DEF Eligible, CanTransmitWithCredit
  <2> QED
    BY <1>4, <2>3, <2>4
<1>7. ASSUME c \in Shaped
      PROVE  credit[l][c] >= 0
  BY <1>1, <1>7 DEF IsCandidate, Eligible, CanTransmitWithCredit
<1> PICK airtime : airtime = Airtime(StreamOf(f), l)
  OBVIOUS
<1>8. ASSUME NEW d \in Shaped
      PROVE  /\ c = "best_effort" =>
                  credit[l][d] + case.slopes[d].idle * airtime <= Most(l, d)
             /\ c = d =>
                  credit[l][d] - case.slopes[d].send * airtime >= Least(l, d)
  <2>1. airtime \in Nat /\ airtime <= LongestAirtime(l, c) /\ LongestAirtime(l, c) \in Nat
    BY <1>2, LongestAirtimeFacts DEF ClassOf
  <2>2. /\ case.slopes[d].idle \in Nat \ {0} /\ case.slopes[d].send \in Nat \ {0}
        /\ credit[l][d] \in Int
    BY <1>2, BoundsFacts DEF CreditHolds
  <2>3. ASSUME NEW slope \in Nat
        PROVE  /\ slope * airtime \in Int /\ slope * LongestAirtime(l, c) \in Int
               /\ slope * airtime <= slope * LongestAirtime(l, c)
    BY <2>1, ProductMonotone
  <2>4. ASSUME c = "best_effort"
        PROVE  credit[l][d] + case.slopes[d].idle * airtime <= Most(l, d)
    <3> DEFINE cost == case.slopes[d].idle * airtime
    <3>1. cost \in Int /\ Most(l, d) \in Int /\ cost <= Most(l, d)
      BY <2>2, <2>3, <2>4 DEF Most
    <3> HIDE DEF cost
    <3>2. credit[l][d] <= 0
      BY <1>6, <2>4
    <3>3. credit[l][d] + cost <= Most(l, d)
      BY <2>2, <3>1, <3>2
    <3> QED
      BY <3>3 DEF cost
  <2>5. ASSUME c = d
        PROVE  credit[l][d] - case.slopes[d].send * airtime >= Least(l, d)
    <3> DEFINE cost == case.slopes[d].send * airtime
               most == case.slopes[d].send * LongestAirtime(l, c)
    <3>1. cost \in Int /\ most \in Int /\ cost <= most
      BY <2>2, <2>3
    <3>2. Least(l, d) = -most
      BY <2>5 DEF Least
    <3> HIDE DEF cost, most
    <3>3. credit[l][d] >= 0
      BY <1>7, <2>5
    <3>4. credit[l][d] - cost >= Least(l, d)
      BY <2>2, <3>1, <3>2, <3>3
    <3> QED
      BY <3>4 DEF cost
  <2> QED
    BY <2>4, <2>5
<1>9. ASSUME NEW x \in events', IsEnd(x, l)
      PROVE  InTime(l, credit[l], syncedAt[l], x)'
  <2>1. airtime \in Int /\ x.at - syncedAt[l] = airtime
    <3>1. airtime \in Nat
      BY <1>2, LongestAirtimeFacts DEF ClassOf
    <3> QED
      BY <1>2, <1>9, <3>1
  <2> QED
    BY <1>2, <1>8, <2>1, BoundsStand DEF InTime
<1>10. EndsInTime(l)'
  BY <1>9 DEF EndsInTime, IsEnd
<1> QED
  BY <1>5, <1>10

(* The handler of e changes no port and ends no transmission. *)
LeavesPorts(e) ==
  /\ Dispatch(e)
  /\ UNCHANGED portVars
  /\ \E new : Push(e, new) /\ \A n \in new : n.task.kind # "TRANSMISSION_END"

(* Such a handler keeps every credit. *)
LEMMA OthersKeepCredits ==
  ASSUME TypeOK, NEW e, case' = case, UNCHANGED portVars,
         NEW new, Push(e, new), \A n \in new : n.task.kind # "TRANSMISSION_END",
         NEW k \in Link, CreditHolds(k), EndsInTime(k)
  PROVE  CreditHolds(k)' /\ EndsInTime(k)'
<1>1. SamePort(k)
  BY PortsUntouched
<1>2. \A x \in events' : IsEnd(x, k) => x \in events
  BY DEF Push, IsEnd
<1> QED
  BY <1>1, <1>2, SamePortHolds

(* release_frame, forward_frame and complete_delivery leave the ports alone. *)
LEMMA FrameHandlersLeavePorts ==
  ASSUME NEW e \in events,
         \/ \E s \in Stream : HandleRelease(e, s)
         \/ \E f \in DOMAIN frames : HandleForward(e, f)
         \/ \E f \in DOMAIN frames : HandleDelivery(e, f)
  PROVE  LeavesPorts(e)
<1>1. ASSUME NEW s \in Stream, HandleRelease(e, s)
      PROVE  LeavesPorts(e)
  <2> DEFINE f == <<s, released[s]>>
             next == (released[s] + 1) * case.period[s]
             enqueue == Scheduled(clock', 0, EnqueueFrame(f, case.route[s][1]))
             release == Scheduled(next, 1, ReleaseFrame(s))
             new == {enqueue} \cup
                    IF CanScheduleRelease(released[s] + 1, next) THEN {release} ELSE {}
  <2>1. Push(e, new) /\ Dispatch(e) /\ UNCHANGED portVars
    BY <1>1 DEF HandleRelease
  <2>2. enqueue.task.kind = "ENQUEUE_FRAME" /\ release.task.kind = "RELEASE_FRAME"
    BY ScheduledFields, TaskFields
  <2> HIDE DEF enqueue, release
  <2>3. \A n \in new : n.task.kind # "TRANSMISSION_END"
    BY <2>2
  <2> QED
    BY <2>1, <2>3 DEF LeavesPorts
<1>2. ASSUME NEW f \in DOMAIN frames, HandleForward(e, f)
      PROVE  LeavesPorts(e)
  <2> DEFINE enqueue == Scheduled(clock', 0, EnqueueFrame(f, RouteOf(f)[frames[f].hop + 1]))
             new == {enqueue}
  <2>1. Push(e, new) /\ Dispatch(e) /\ UNCHANGED portVars
    BY <1>2 DEF HandleForward
  <2>2. enqueue.task.kind = "ENQUEUE_FRAME"
    BY ScheduledFields, TaskFields
  <2> HIDE DEF enqueue
  <2>3. \A n \in new : n.task.kind # "TRANSMISSION_END"
    BY <2>2
  <2> QED
    BY <2>1, <2>3 DEF LeavesPorts
<1>3. ASSUME NEW f \in DOMAIN frames, HandleDelivery(e, f)
      PROVE  LeavesPorts(e)
  <2> DEFINE finalize == Scheduled(clock', 0, FinalizeRun)
  <2>1. /\ Push(e, {finalize}) \/ Push(e, {})
        /\ Dispatch(e) /\ UNCHANGED portVars
    BY <1>3 DEF HandleDelivery
  <2>2. finalize.task.kind = "FINALIZE_RUN"
    BY ScheduledFields, TaskFields
  <2> HIDE DEF finalize
  <2>3. CASE Push(e, {finalize})
    <3> DEFINE new == {finalize}
    <3>1. \A n \in new : n.task.kind # "TRANSMISSION_END"
      BY <2>2
    <3> QED
      BY <2>1, <2>3, <3>1 DEF LeavesPorts
  <2>4. CASE Push(e, {})
    <3> DEFINE new == {}
    <3>1. \A n \in new : n.task.kind # "TRANSMISSION_END"
      OBVIOUS
    <3> QED
      BY <2>1, <2>4, <3>1 DEF LeavesPorts
  <2> QED
    BY <2>1, <2>3, <2>4
<1> QED
  BY <1>1, <1>2, <1>3

(* They keep every credit. *)
LEMMA FrameHandlersKeepCredits ==
  ASSUME FrameInv, NEW e \in events,
         \/ \E s \in Stream : HandleRelease(e, s)
         \/ \E f \in DOMAIN frames : HandleForward(e, f)
         \/ \E f \in DOMAIN frames : HandleDelivery(e, f),
         NEW k \in Link, CreditHolds(k), EndsInTime(k)
  PROVE  CreditHolds(k)' /\ EndsInTime(k)'
<1>1. TypeOK
  BY DEF FrameInv, EngineInv
<1>2. LeavesPorts(e)
  BY FrameHandlersLeavePorts
<1>3. case' = case
  BY <1>2 DEF LeavesPorts, Dispatch
<1> QED
  BY <1>1, <1>2, <1>3, OthersKeepCredits DEF LeavesPorts

(* Leaving the loop synchronizes every port, at a time no later than the   *)
(* end of what it transmits.                                               *)
LEMMA LeavingHolds ==
  ASSUME TypeOK, NEW outcome, NEW reason, LeaveLoop(outcome, reason), NEW l \in Link,
         CreditHolds(l), EndsInTime(l), clock' \in Nat, syncedAt[l] <= clock',
         onWire[l] # None => \E x \in events : IsEnd(x, l),
         \A x \in events : IsEnd(x, l) => clock' <= x.at
  PROVE  CreditHolds(l)'
<1> PICK cr : cr = SyncedCredit(l, WireClass(l))
  OBVIOUS
<1>1. credit'[l] = cr /\ case' = case /\ queue' = queue /\ onWire' = onWire
  BY DEF LeaveLoop
<1>2. \A c \in Shaped :
        /\ cr[c] \in Int
        /\ cr[c] <= Most(l, c) /\ cr[c] >= Least(l, c)
        /\ cr[c] > 0 => queue'[l][c] # <<>> \/ WireClass(l) = c
  BY SyncHolds
<1>3. WireClass(l)' = WireClass(l)
  BY <1>1 DEF WireClass, ClassOf, StreamOf
<1> QED
  BY <1>1, <1>2, <1>3, BoundsStand DEF CreditHolds

(* However the loop is left, the credits are. *)
LEMMA LeavingKeepsCredits ==
  ASSUME FrameInv, CreditInv, Next, ~Running', NEW l \in Link
  PROVE  CreditHolds(l)'
<1>1. /\ TypeOK /\ Running /\ CreditHolds(l) /\ EndsInTime(l) /\ PortInv(l)
      /\ EventsNotInPast
  BY StepsRun DEF FrameInv, EngineInv, CreditInv
<1>2. onWire[l] # None => \E x \in events : IsEnd(x, l)
  BY <1>1, TaskFields DEF PortInv, PortMatchesEvents, WireMatchesEvents, Pending, IsEnd
<1>3. /\ clock \in Nat /\ syncedAt[l] \in Nat /\ syncedAt[l] <= clock
      /\ \A x \in events : x.at \in Nat /\ clock <= x.at
  BY <1>1 DEF TypeOK, Event, PortInv, EventsNotInPast
<1>4. CASE \E e \in events : HandleFinalize(e)
  <2>1. PICK e \in events : HandleFinalize(e)
    BY <1>4
  <2>2. Dispatch(e) /\ LeaveLoop("ok", "delivery_target_reached")
    BY <2>1 DEF HandleFinalize
  <2> QED
    BY <1>1, <2>2, SyncPremises, LeavingHolds
<1>5. CASE \E e \in events : StopBefore(e)
  <2>1. PICK e \in events : StopBefore(e)
    BY <1>5
  <2>2. /\ LeaveLoop("stopped", "time_limit_reached")
        /\ IsNext(e) /\ ~TimeLimitReached /\ BeyondTimeLimit(e) /\ clock' = case.timeLimit
    BY <2>1 DEF StopBefore
  <2>3. clock' \in Nat /\ clock <= clock' /\ clock' <= e.at
    <3>1. case.timeLimit \in Nat
      BY <1>1, <2>2, CaseFacts DEF BeyondTimeLimit, Limit, TypeOK
    <3>2. e.at \in Nat /\ ~(clock >= case.timeLimit) /\ e.at > case.timeLimit
      BY <1>3, <2>2 DEF TimeLimitReached, BeyondTimeLimit
    <3> QED
      BY <1>3, <2>2, <3>1, <3>2
  <2>4. \A x \in events : e.at \in Nat /\ e.at <= x.at
    BY <1>1, <2>2, NextIsEarliest
  <2>5. syncedAt[l] <= clock' /\ \A x \in events : clock' <= x.at
    BY <1>3, <2>1, <2>3, <2>4
  <2> QED
    BY <1>1, <1>2, <2>2, <2>3, <2>5, LeavingHolds
<1>6. CASE RunDry \/ Stop
  <2>1. PICK outcome, reason : LeaveLoop(outcome, reason)
    BY <1>6 DEF RunDry, Stop
  <2>2. clock' = clock
    BY <1>6 DEF RunDry, Stop
  <2> QED
    BY <1>1, <1>2, <1>3, <2>1, <2>2, LeavingHolds
<1>7. CASE \E e \in events : Raise(e)
  <2>1. PICK e \in events : Raise(e)
    BY <1>7
  <2>2. case' = case /\ UNCHANGED portVars /\ events' = (events \ {e}) \cup {}
    BY <2>1 DEF Raise, Push
  <2>3. SamePort(l)
    BY <1>1, <2>2, PortsUntouched
  <2> QED
    BY <1>1, <2>2, <2>3, SamePortHolds
<1> QED
  BY <1>4, <1>5, <1>6, <1>7, LeavingSteps

(* Every handler of the loop keeps every credit, its own port's and others'. *)
LEMMA DispatchKeepsCredits ==
  ASSUME FrameInv, CreditInv, Next, Running', NEW k \in Link
  PROVE  CreditHolds(k)' /\ EndsInTime(k)'
<1>1. /\ TypeOK /\ Running
      /\ \A l \in Link : CreditHolds(l) /\ EndsInTime(l)
  BY StepsRun DEF FrameInv, EngineInv, CreditInv
<1>2. ASSUME case' = case, SamePort(k), \A x \in events' : IsEnd(x, k) => x \in events
      PROVE  CreditHolds(k)' /\ EndsInTime(k)'
  BY <1>1, <1>2, SamePortHolds
<1>3. ASSUME NEW e \in events, NEW f \in DOMAIN frames, NEW l \in Link, HandleEnqueue(e, f, l)
      PROVE  CreditHolds(k)' /\ EndsInTime(k)'
  <2>1. /\ Dispatch(e) /\ onWire' = onWire /\ case' = case
        /\ ScheduleNextTransmission(e, l, SyncedCredit(l, WireClass(l)), startAt, wakeAt, {})
    BY <1>3 DEF HandleEnqueue, Dispatch
  <2>2. CreditHolds(l)' /\ EndsInTime(l)' /\ NoNewEnds
    BY <1>1, <2>1, SchedulerHolds
  <2>3. CASE k # l
    <3>1. SamePort(k)
      BY <1>1, <1>3, <2>3, EnqueueTouchesOnePort
    <3> QED
      BY <1>2, <2>1, <2>2, <3>1 DEF NoNewEnds, IsEnd
  <2> QED
    BY <2>2, <2>3
<1>4. ASSUME NEW e \in events, NEW l \in Link, NEW c \in Shaped, HandleCreditUpdate(e, l, c)
      PROVE  CreditHolds(k)' /\ EndsInTime(k)'
  <2> PICK cleared : cleared = [wakeAt EXCEPT ![l][c] = None]
    OBVIOUS
  <2>1. /\ Dispatch(e) /\ onWire' = onWire /\ case' = case
        /\ ScheduleNextTransmission(e, l, SyncedCredit(l, WireClass(l)), startAt, cleared, {})
    BY <1>4 DEF HandleCreditUpdate, Dispatch
  <2>2. CreditHolds(l)' /\ EndsInTime(l)' /\ NoNewEnds
    BY <1>1, <2>1, SchedulerHolds
  <2>3. CASE k # l
    <3>1. SamePort(k)
      BY <1>1, <1>4, <2>3, CreditUpdateTouchesOnePort
    <3> QED
      BY <1>2, <2>1, <2>2, <3>1 DEF NoNewEnds, IsEnd
  <2> QED
    BY <2>2, <2>3
<1>5. ASSUME NEW e \in events, NEW f \in DOMAIN frames, NEW l \in Link, HandleEnd(e, l, f)
      PROVE  CreditHolds(k)' /\ EndsInTime(k)'
  <2>1. case' = case
    BY <1>5 DEF HandleEnd, Dispatch
  <2>2. CreditHolds(l)' /\ EndsInTime(l)' /\ NoNewEnds
    BY <1>1, <1>5, EndHolds
  <2>3. CASE k # l
    <3>1. SamePort(k)
      BY <1>1, <1>5, <2>3, EndTouchesOnePort
    <3> QED
      BY <1>2, <2>1, <2>2, <3>1 DEF NoNewEnds, IsEnd
  <2> QED
    BY <2>2, <2>3
<1>6. ASSUME NEW e \in events, NEW l \in Link, HandleStart(e, l)
      PROVE  CreditHolds(k)' /\ EndsInTime(k)'
  <2>1. case' = case
    BY <1>6 DEF HandleStart, Dispatch
  <2>2. PICK c \in TrafficClass, f \in Frame : Transmits(e, l, c, f)
    BY <1>6, StartChooses
  <2>3. /\ CreditHolds(l)' /\ EndsInTime(l)'
        /\ \A x \in events', j \in Link \ {l} : IsEnd(x, j) => x \in events
    BY <1>1, <2>2, StartHolds, StartFacts
  <2>4. CASE k # l
    <3>1. SamePort(k)
      BY <1>1, <1>6, <2>4, StartTouchesOnePort
    <3> QED
      BY <1>2, <2>1, <2>3, <2>4, <3>1
  <2> QED
    BY <2>3, <2>4
<1>7. ASSUME NEW e \in events,
             \/ \E s \in Stream : HandleRelease(e, s)
             \/ \E f \in DOMAIN frames : HandleForward(e, f)
             \/ \E f \in DOMAIN frames : HandleDelivery(e, f)
      PROVE  CreditHolds(k)' /\ EndsInTime(k)'
  BY <1>1, <1>7, FrameHandlersKeepCredits
<1>8. ASSUME NEW e \in events, HandleFinalize(e) \/ StopBefore(e) \/ Raise(e)
      PROVE  FALSE
  BY <1>8 DEF HandleFinalize, StopBefore, Raise, LeaveLoop, Running
<1>9. ~RunDry /\ ~Stop
  BY DEF RunDry, Stop, LeaveLoop, Running
<1> QED
  BY <1>3, <1>4, <1>5, <1>6, <1>7, <1>8, <1>9 DEF Next

(* Every step keeps the credits within their bounds and owed. *)
LEMMA CreditStep ==
  ASSUME FrameInv, CreditInv, [Next]_vars
  PROVE  CreditInv'
<1>1. CASE UNCHANGED vars
  <2>1. /\ case' = case /\ UNCHANGED portVars /\ events' = events /\ status' = status
    BY <1>1 DEF vars
  <2>2. ASSUME NEW k \in Link
        PROVE  CreditHolds(k)' /\ (Running' => EndsInTime(k)')
    <3>1. TypeOK /\ CreditHolds(k) /\ (Running => EndsInTime(k))
      BY DEF FrameInv, EngineInv, CreditInv
    <3>2. SamePort(k)
      BY <2>1, <3>1, PortsUntouched
    <3> QED
      BY <2>1, <3>1, <3>2, SamePortHolds DEF Running
  <2> QED
    BY <2>2 DEF CreditInv
<1>2. CASE Next /\ ~Running'
  BY <1>2, LeavingKeepsCredits DEF CreditInv
<1>3. CASE Next /\ Running'
  BY <1>3, DispatchKeepsCredits DEF CreditInv
<1> QED
  BY <1>1, <1>2, <1>3

(* A run starts with every credit at zero. *)
LEMMA CreditInit ==
  ASSUME Init
  PROVE  CreditInv
<1>1. TypeOK
  BY InitTypes
<1>2. ASSUME NEW l \in Link
      PROVE  CreditHolds(l)
  <2>1. \A c \in Shaped : credit[l][c] = 0
    BY DEF Init
  <2>2. \A c \in Shaped : Most(l, c) \in Nat /\ Least(l, c) \in Int /\ Least(l, c) <= 0
    BY <1>1, BoundsFacts
  <2> QED
    BY <2>1, <2>2 DEF CreditHolds
<1>3. ASSUME NEW l \in Link
      PROVE  EndsInTime(l)
  <2>1. \A x \in events : \E s : x.task = ReleaseFrame(s)
    BY DEF Init
  <2> QED
    BY <2>1, TaskFields DEF EndsInTime, IsEnd
<1> QED
  BY <1>2, <1>3 DEF CreditInv

(* Whatever the case, a credit stays between what one own frame can cost   *)
(* and what waiting behind one best-effort frame can earn.                 *)
THEOREM CreditsAreBounded == Spec => []CreditWithinBounds
<1>1. Init => FrameInv /\ CreditInv
  BY FrameInit, CreditInit
<1>2. FrameInv /\ CreditInv /\ [Next]_vars => FrameInv' /\ CreditInv'
  BY FrameStep, CreditStep
<1>3. CreditInv => CreditWithinBounds
  BY DEF CreditInv, CreditHolds, CreditWithinBounds, Most, Least
<1> QED
  BY <1>1, <1>2, <1>3, PTL DEF Spec

(* Positive credit is never idle credit: it belongs to a class with a frame *)
(* queued or on the wire.                                                  *)
THEOREM PositiveCreditBelongsToFrames == Spec => []PositiveCreditIsOwed
<1>1. Init => FrameInv /\ CreditInv
  BY FrameInit, CreditInit
<1>2. FrameInv /\ CreditInv /\ [Next]_vars => FrameInv' /\ CreditInv'
  BY FrameStep, CreditStep
<1>3. CreditInv => PositiveCreditIsOwed
  BY DEF CreditInv, CreditHolds, PositiveCreditIsOwed
<1> QED
  BY <1>1, <1>2, <1>3, PTL DEF Spec

-----------------------------------------------------------------------------
(* Sums over a finite set                                                  *)

(* The element a fold of the community modules takes first. *)
First(T) == CHOOSE x \in T : TRUE

(* Function g adds up the weights w over every subset of S. *)
AddsUp(g, w, S) ==
  \A T \in SUBSET S : g[T] = IF T = {} THEN 0 ELSE w[First(T)] + g[T \ {First(T)}]

(* The sum of the weights w over S. *)
Total(w, S) ==
  (CHOOSE g : g = [T \in SUBSET S |->
                     IF T = {} THEN 0 ELSE w[First(T)] + g[T \ {First(T)}]])[S]

(* Taking the first element out of a finite set makes it smaller. *)
LEMMA FirstOut ==
  ASSUME NEW S, IsFiniteSet(S), NEW T \in SUBSET S
  PROVE  /\ IsFiniteSet(T) /\ Cardinality(T) \in Nat
         /\ Cardinality(T) = 0 <=> T = {}
         /\ T # {} => /\ First(T) \in T
                      /\ T \ {First(T)} \in SUBSET S
                      /\ Cardinality(T \ {First(T)}) = Cardinality(T) - 1
<1>1. IsFiniteSet(T) /\ Cardinality(T) \in Nat
  BY FS_Subset, FS_CardinalityType
<1>2. Cardinality(T) = 0 <=> T = {}
  BY <1>1, FS_EmptySet
<1>3. T # {} => First(T) \in T
  BY DEF First
<1>4. T # {} => Cardinality(T \ {First(T)}) = Cardinality(T) - 1
  BY <1>1, <1>3, FS_RemoveElement
<1> QED
  BY <1>1, <1>2, <1>3, <1>4

(* The sums over the subsets of a finite set exist. *)
LEMMA SumsExist ==
  ASSUME NEW S, IsFiniteSet(S), NEW w, \A x \in S : w[x] \in Nat
  PROVE  \E g \in [SUBSET S -> Nat] : AddsUp(g, w, S)
<1> DEFINE Upto(n) == {T \in SUBSET S : Cardinality(T) <= n}
           sum(g, T) == IF T = {} THEN 0 ELSE w[First(T)] + g[T \ {First(T)}]
           Summed(n) == \E g \in [Upto(n) -> Nat] : \A T \in Upto(n) : g[T] = sum(g, T)
           Unsummed == {n \in Nat : ~Summed(n)}
<1>1. Summed(0)
  <2> DEFINE g == [T \in Upto(0) |-> 0]
  <2>1. ASSUME NEW T \in Upto(0)
        PROVE  T = {}
    <3>1. Cardinality(T) \in Nat /\ (Cardinality(T) = 0 <=> T = {})
      BY FirstOut
    <3> QED
      BY <3>1
  <2>2. g \in [Upto(0) -> Nat] /\ \A T \in Upto(0) : g[T] = sum(g, T)
    BY <2>1
  <2> HIDE DEF g
  <2> QED
    BY <2>2
<1>2. ASSUME NEW n \in Nat \ {0}, Summed(n - 1)
      PROVE  Summed(n)
  <2>1. PICK g \in [Upto(n - 1) -> Nat] : \A T \in Upto(n - 1) : g[T] = sum(g, T)
    BY <1>2
  <2> DEFINE h == [T \in Upto(n) |-> sum(g, T)]
  <2>2. \A T \in Upto(n) : T # {} => T \ {First(T)} \in Upto(n - 1) /\ First(T) \in S
    BY FirstOut
  <2>3. ASSUME NEW T \in Upto(n - 1)
        PROVE  T \in Upto(n)
    <3>1. Cardinality(T) \in Nat
      BY FirstOut
    <3> QED
      BY <3>1
  <2>4. h \in [Upto(n) -> Nat]
    <3>1. \A T \in Upto(n) : sum(g, T) \in Nat
      BY <2>1, <2>2
    <3> QED
      BY <3>1
  <2>5. \A T \in Upto(n - 1) : h[T] = g[T]
    BY <2>1, <2>3
  <2>6. ASSUME NEW T \in Upto(n)
        PROVE  h[T] = sum(h, T)
    <3>1. h[T] = sum(g, T)
      OBVIOUS
    <3> HIDE DEF h
    <3> QED
      BY <2>2, <2>5, <3>1
  <2> HIDE DEF h
  <2> QED
    BY <2>4, <2>6
<1> HIDE DEF Summed
<1>3. \A n \in Nat : Summed(n)
  <2> SUFFICES ASSUME Unsummed # {}
               PROVE  FALSE
    OBVIOUS
  <2>1. PICK n \in Unsummed : \A m \in Unsummed : n <= m
    <3>1. Unsummed \subseteq Nat
      OBVIOUS
    <3> QED
      BY <3>1, LeastNumber
  <2>2. n \in Nat \ {0} /\ ~Summed(n)
    BY <1>1, <2>1
  <2>3. n - 1 \in Nat /\ n - 1 < n
    BY <2>2
  <2>4. Summed(n - 1)
    BY <2>1, <2>3
  <2> QED
    BY <1>2, <2>2, <2>4
<1>4. Cardinality(S) \in Nat /\ Upto(Cardinality(S)) = SUBSET S
  <2>1. \A T \in SUBSET S : Cardinality(T) <= Cardinality(S)
    BY FS_Subset
  <2> QED
    BY <2>1, FS_CardinalityType
<1>5. PICK g \in [SUBSET S -> Nat] : \A T \in SUBSET S : g[T] = sum(g, T)
  BY <1>3, <1>4 DEF Summed
<1> QED
  BY <1>5 DEF AddsUp

(* There is one sum over a finite set. *)
LEMMA SumsAgree ==
  ASSUME NEW S, IsFiniteSet(S), NEW w, NEW g, NEW h, AddsUp(g, w, S), AddsUp(h, w, S)
  PROVE  \A T \in SUBSET S : g[T] = h[T]
<1> DEFINE Differ == {n \in Nat : \E T \in SUBSET S : Cardinality(T) = n /\ g[T] # h[T]}
<1> SUFFICES ASSUME NEW R \in SUBSET S, g[R] # h[R]
             PROVE  FALSE
  OBVIOUS
<1>1. PICK n \in Differ : \A m \in Differ : n <= m
  <2>1. Differ \subseteq Nat /\ Differ # {}
    BY FirstOut
  <2> HIDE DEF Differ
  <2> QED
    BY <2>1, LeastNumber
<1>2. PICK T \in SUBSET S : Cardinality(T) = n /\ g[T] # h[T]
  BY <1>1
<1>3. T # {}
  BY <1>2 DEF AddsUp
<1>4. /\ T \ {First(T)} \in SUBSET S
      /\ Cardinality(T \ {First(T)}) = n - 1 /\ Cardinality(T \ {First(T)}) \in Nat
  BY <1>2, <1>3, FirstOut
<1>5. g[T \ {First(T)}] = h[T \ {First(T)}]
  <2>1. n - 1 \notin Differ
    BY <1>1, <1>4
  <2> QED
    BY <1>4, <2>1
<1> QED
  BY <1>2, <1>3, <1>5 DEF AddsUp

(* The sum over a finite set, one element less at a time. *)
LEMMA TotalUnfolds ==
  ASSUME NEW S, IsFiniteSet(S), NEW w, \A x \in S : w[x] \in Nat
  PROVE  /\ Total(w, S) \in Nat
         /\ \A g : AddsUp(g, w, S) => g[S] = Total(w, S)
         /\ \E g : AddsUp(g, w, S) /\ \A T \in SUBSET S : g[T] = Total(w, T) /\ g[T] \in Nat
<1> DEFINE Sums(g, R) ==
      g = [T \in SUBSET R |-> IF T = {} THEN 0 ELSE w[First(T)] + g[T \ {First(T)}]]
<1>1. ASSUME NEW R \in SUBSET S
      PROVE  \E g \in [SUBSET R -> Nat] : AddsUp(g, w, R) /\ Total(w, R) = g[R]
  <2>1. IsFiniteSet(R)
    BY FirstOut
  <2>2. PICK h \in [SUBSET R -> Nat] : AddsUp(h, w, R)
    BY <2>1, SumsExist
  <2> PICK f : f = CHOOSE g : Sums(g, R)
    OBVIOUS
  <2>3. Sums(f, R)
    <3>1. h = [T \in SUBSET R |-> h[T]]
      BY <2>2
    <3>2. Sums(h, R)
      BY <2>2, <3>1 DEF AddsUp
    <3> QED
      BY <3>2
  <2>4. AddsUp(f, w, R) /\ AddsUp(h, w, R)
    BY <2>2, <2>3 DEF AddsUp
  <2>5. \A T \in SUBSET R : f[T] = h[T]
    BY <2>1, <2>4, SumsAgree
  <2>6. Total(w, R) = f[R]
    BY DEF Total
  <2> QED
    BY <2>4, <2>5, <2>6
<1>2. PICK g \in [SUBSET S -> Nat] : AddsUp(g, w, S) /\ Total(w, S) = g[S]
  BY <1>1
<1>3. ASSUME NEW T \in SUBSET S
      PROVE  g[T] = Total(w, T)
  <2>1. PICK h \in [SUBSET T -> Nat] : AddsUp(h, w, T) /\ Total(w, T) = h[T]
    BY <1>1
  <2>2. AddsUp(g, w, T) /\ IsFiniteSet(T)
    BY <1>2, FirstOut DEF AddsUp
  <2> QED
    BY <2>1, <2>2, SumsAgree
<1>4. \A h : AddsUp(h, w, S) => h[S] = Total(w, S)
  BY <1>2, SumsAgree
<1> QED
  BY <1>2, <1>3, <1>4

(* A new element adds its weight, whatever the order of the fold. *)
LEMMA TotalGrows ==
  ASSUME NEW S, IsFiniteSet(S), NEW w, \A x \in S : w[x] \in Nat,
         NEW R \in SUBSET S, NEW z \in S \ R
  PROVE  Total(w, R \cup {z}) = Total(w, R) + w[z]
<1>1. PICK g : AddsUp(g, w, S) /\ \A T \in SUBSET S : g[T] = Total(w, T) /\ g[T] \in Nat
  BY TotalUnfolds
<1> DEFINE Grows(T) == \A x \in S \ T : g[T \cup {x}] = g[T] + w[x]
           Wrong == {n \in Nat : \E T \in SUBSET S : Cardinality(T) = n /\ ~Grows(T)}
<1> SUFFICES Grows(R)
  <2>1. R \cup {z} \in SUBSET S
    OBVIOUS
  <2> QED
    BY <1>1, <2>1
<1> SUFFICES ASSUME ~Grows(R)
             PROVE  FALSE
  OBVIOUS
<1> HIDE DEF Grows
<1>2. PICK n \in Wrong : \A m \in Wrong : n <= m
  <2>1. Cardinality(R) \in Nat
    BY FirstOut
  <2>2. Wrong \subseteq Nat /\ Wrong # {}
    BY <2>1
  <2> HIDE DEF Wrong
  <2> QED
    BY <2>2, LeastNumber
<1>3. PICK T \in SUBSET S : Cardinality(T) = n /\ ~Grows(T)
  BY <1>2
<1>4. PICK x \in S \ T : g[T \cup {x}] # g[T] + w[x]
  BY <1>3 DEF Grows
<1>5. ASSUME NEW y \in T
      PROVE  Grows(T \ {y})
  <2>1. T \ {y} \in SUBSET S /\ Cardinality(T \ {y}) = n - 1 /\ Cardinality(T \ {y}) \in Nat
    <3>1. IsFiniteSet(T)
      BY FirstOut
    <3>2. Cardinality(T \ {y}) = n - 1
      BY <1>3, <3>1, FS_RemoveElement
    <3>3. T \ {y} \in SUBSET S
      OBVIOUS
    <3>4. Cardinality(T \ {y}) \in Nat
      BY <3>1, FS_Subset, FS_CardinalityType
    <3> QED
      BY <3>2, <3>3, <3>4
  <2>2. n - 1 \notin Wrong
    BY <1>2, <2>1
  <2> QED
    BY <2>1, <2>2
<1> PICK y : y = First(T \cup {x})
  OBVIOUS
<1>6. y \in T \cup {x} /\ g[T \cup {x}] = w[y] + g[(T \cup {x}) \ {y}]
  <2> DEFINE U == T \cup {x}
  <2>1. U \in SUBSET S /\ U # {}
    BY <1>4
  <2> HIDE DEF U
  <2>2. First(U) \in U
    BY <2>1, FirstOut
  <2>3. g[U] = w[First(U)] + g[U \ {First(U)}]
    BY <1>1, <2>1 DEF AddsUp
  <2> QED
    BY <2>2, <2>3 DEF U
<1>7. CASE y = x
  <2>1. (T \cup {x}) \ {y} = T
    BY <1>4, <1>7
  <2>2. w[x] \in Nat /\ g[T] \in Nat
    BY <1>1, <1>4
  <2> QED
    BY <1>4, <1>6, <1>7, <2>1, <2>2
<1>8. CASE y # x
  <2>1. y \in T /\ (T \cup {x}) \ {y} = (T \ {y}) \cup {x} /\ (T \ {y}) \cup {y} = T
    BY <1>4, <1>6, <1>8
  <2>2. g[(T \ {y}) \cup {x}] = g[T \ {y}] + w[x] /\ g[(T \ {y}) \cup {y}] = g[T \ {y}] + w[y]
    <3>1. Grows(T \ {y}) /\ x \in S \ (T \ {y}) /\ y \in S \ (T \ {y})
      BY <1>4, <1>5, <2>1
    <3> QED
      BY <3>1 DEF Grows
  <2>3. w[x] \in Nat /\ w[y] \in Nat /\ g[T \ {y}] \in Nat
    BY <1>1, <1>4, <2>1
  <2> DEFINE rest == g[T \ {y}]
  <2>4. /\ w[x] \in Nat /\ w[y] \in Nat /\ rest \in Nat
        /\ g[T \cup {x}] = w[y] + (rest + w[x]) /\ g[T] = rest + w[y]
    BY <1>6, <2>1, <2>2, <2>3
  <2> HIDE DEF rest
  <2>5. g[T \cup {x}] = g[T] + w[x]
    BY <2>4
  <2> QED
    BY <1>4, <2>5
<1> QED
  BY <1>7, <1>8

-----------------------------------------------------------------------------
(* The airtime a class has used                                            *)

(* The airtime of the frames S on link l in case k, added up as            *)
(* AirtimeUsed does.                                                       *)
Airtimes(k, l, S) ==
  (CHOOSE g : g = [T \in SUBSET S |->
                     IF T = {} THEN 0
                     ELSE k.size[First(T)[1]] * k.pace[l] + g[T \ {First(T)}]])[S]

(* The frames of class c that have been transmitted on link l. *)
SentFrames(l, c) == {f \in DOMAIN frames : ClassOf(f) = c /\ HasLeft(f, l)}

(* It is the airtime used. *)
LEMMA AirtimeUsedAddsUp ==
  ASSUME NEW l, NEW c
  PROVE  /\ AirtimeUsed(l, c) = Airtimes(case, l, SentFrames(l, c))
         /\ AirtimeUsed(l, c)' = Airtimes(case', l, SentFrames(l, c)')
<1>1. AirtimeUsed(l, c) = Airtimes(case, l, SentFrames(l, c))
  BY DEF AirtimeUsed, MapThenSumSet, MapThenFoldSet, Airtime, StreamOf, First, SentFrames,
         Airtimes
<1>2. AirtimeUsed(l, c)' = Airtimes(case', l, SentFrames(l, c)')
  BY DEF AirtimeUsed, MapThenSumSet, MapThenFoldSet, Airtime, StreamOf, First, SentFrames,
         Airtimes
<1> QED
  BY <1>1, <1>2

(* No frames take no time. *)
LEMMA NoAirtime ==
  ASSUME NEW k, NEW l
  PROVE  Airtimes(k, l, {}) = 0
<1> DEFINE Sums(g) ==
      g = [T \in SUBSET {} |-> IF T = {} THEN 0
                              ELSE k.size[First(T)[1]] * k.pace[l] + g[T \ {First(T)}]]
<1>1. Sums([T \in SUBSET {} |-> 0])
  OBVIOUS
<1> PICK f : f = CHOOSE g : Sums(g)
  OBVIOUS
<1>2. Sums(f)
  BY <1>1
<1>3. f[{}] = 0
  BY <1>2
<1> QED
  BY <1>3 DEF Airtimes

(* A frame that is sent adds its airtime. *)
LEMMA AirtimesGrow ==
  ASSUME NEW k \in Cases, NEW l \in Link, NEW S \in SUBSET Frame, IsFiniteSet(S)
  PROVE  /\ Airtimes(k, l, S) \in Nat
         /\ \A z \in Frame \ S :
              Airtimes(k, l, S \cup {z}) = Airtimes(k, l, S) + k.size[z[1]] * k.pace[l]
<1> DEFINE w == [f \in Frame |-> k.size[f[1]] * k.pace[l]]
<1>1. \A f \in Frame : w[f] \in Nat
  <2>1. k.size \in [Stream -> Nat \ {0}] /\ k.pace \in [Link -> Nat \ {0}]
    BY CasesAssumption DEF CaseType
  <2>2. ASSUME NEW f \in Frame
        PROVE  w[f] \in Nat
    <3> DEFINE a == k.size[f[1]]
               b == k.pace[l]
    <3>1. a \in Nat /\ b \in Nat
      BY <2>1 DEF Frame
    <3> HIDE DEF a, b
    <3>2. a * b \in Nat
      BY <3>1
    <3> QED
      BY <3>2 DEF a, b
  <2> QED
    BY <2>2
<1>2. ASSUME NEW R \in SUBSET Frame, IsFiniteSet(R)
      PROVE  Airtimes(k, l, R) = Total(w, R)
  <2> DEFINE Sums(g) ==
        g = [T \in SUBSET R |-> IF T = {} THEN 0
                                ELSE k.size[First(T)[1]] * k.pace[l] + g[T \ {First(T)}]]
  <2>1. \A T \in SUBSET R : T # {} => w[First(T)] = k.size[First(T)[1]] * k.pace[l]
    BY FirstOut, <1>2
  <2> HIDE DEF w
  <2>2. PICK h \in [SUBSET R -> Nat] : AddsUp(h, w, R)
    <3>1. \A f \in R : w[f] \in Nat
      BY <1>1
    <3> QED
      BY <1>2, <3>1, SumsExist
  <2>3. Sums(h)
    <3>1. h = [T \in SUBSET R |-> h[T]]
      BY <2>2
    <3> QED
      BY <2>1, <2>2, <3>1 DEF AddsUp
  <2> PICK f : f = CHOOSE g : Sums(g)
    OBVIOUS
  <2>4. Sums(f)
    BY <2>3
  <2>5. AddsUp(f, w, R)
    <3>1. ASSUME NEW T \in SUBSET R
          PROVE  f[T] = IF T = {} THEN 0 ELSE w[First(T)] + f[T \ {First(T)}]
      <4>1. f[T] = IF T = {} THEN 0 ELSE k.size[First(T)[1]] * k.pace[l] + f[T \ {First(T)}]
        BY <2>4
      <4> HIDE DEF Sums
      <4> QED
        BY <2>1, <4>1
    <3> HIDE DEF Sums
    <3> QED
      BY <3>1 DEF AddsUp
  <2>6. f[R] = Total(w, R)
    <3>1. \A x \in R : w[x] \in Nat
      BY <1>1
    <3> QED
      BY <1>2, <2>5, <3>1, TotalUnfolds
  <2> QED
    BY <2>6 DEF Airtimes
<1> HIDE DEF w
<1>3. Airtimes(k, l, S) \in Nat
  <2>1. \A x \in S : w[x] \in Nat
    BY <1>1
  <2> QED
    BY <1>2, <2>1, TotalUnfolds
<1>4. ASSUME NEW z \in Frame \ S
      PROVE  Airtimes(k, l, S \cup {z}) = Airtimes(k, l, S) + k.size[z[1]] * k.pace[l]
  <2> DEFINE U == S \cup {z}
  <2>1. U \in SUBSET Frame /\ IsFiniteSet(U) /\ S \in SUBSET U /\ z \in U \ S
    BY FS_AddElement
  <2>2. \A x \in U : w[x] \in Nat
    BY <1>1, <2>1
  <2> HIDE DEF U
  <2>3. Total(w, S \cup {z}) = Total(w, S) + w[z]
    BY <2>1, <2>2, TotalGrows
  <2>4. w[z] = k.size[z[1]] * k.pace[l]
    BY DEF w
  <2> QED
    BY <1>2, <2>1, <2>3, <2>4 DEF U
<1> QED
  BY <1>3, <1>4

-----------------------------------------------------------------------------
(* The invariant                                                           *)

(* Class c, with credit cr at time since, has spent at its send slope while *)
(* it used the link no more than it has earned at its idle slope while it  *)
(* did not.                                                                *)
Earned(c, cr, since, used) ==
  cr + (case.slopes[c].idle + case.slopes[c].send) * used <= case.slopes[c].idle * since

(* How long the frame on the wire of l, which ends with x, has been on it   *)
(* at time t.                                                              *)
InFlight(l, x, t) == Airtime(StreamOf(onWire[l]), l) - (x.at - t)

(* Class c has earned what it used of link l until time since, its frame   *)
(* on the wire included, if its credit is then cr.                         *)
EarnedSoFar(l, c, cr, since) ==
  /\ WireClass(l) # c => Earned(c, cr, since, AirtimeUsed(l, c))
  /\ \A x \in events : IsEnd(x, l) /\ WireClass(l) = c =>
       /\ InFlight(l, x, since) >= 0
       /\ Earned(c, cr, since, AirtimeUsed(l, c) + InFlight(l, x, since))

EarnedOnPort(l) == \A c \in Shaped : EarnedSoFar(l, c, credit[l][c], syncedAt[l])

ReservationInv ==
  /\ IsFiniteSet(DOMAIN frames)
  /\ Running => \A l \in Link : EarnedOnPort(l)

-----------------------------------------------------------------------------
(* What the steps add to the airtime used                                  *)

(* A frame has left a link that is behind it on its route, or its hop's    *)
(* when it leaves that hop or is delivered.                                *)
HasPassed(f, l) ==
  \E h \in DOMAIN RouteOf(f) :
    /\ RouteOf(f)[h] = l
    /\ \/ h < frames[f].hop
       \/ h = frames[f].hop /\ (Leaving(f) \/ Delivered(f))

(* A frame has left the links it has passed. *)
LEMMA HasLeftIs ==
  ASSUME NEW f, NEW l
  PROVE  /\ TypeOK => (HasLeft(f, l) <=> HasPassed(f, l))
         /\ TypeOK' => (HasLeft(f, l)' <=> HasPassed(f, l)')
<1>1. ASSUME NEW x, x.task \in Task
      PROVE  (x.task = ForwardFrame(f) \/ x.task = DeliveryComplete(f))
               <=> x.task.kind \in {"FORWARD_FRAME", "DELIVERY_COMPLETE"} /\ x.task.frame = f
  BY <1>1, TaskKinds, TaskFields, MoveFields
<1>2. ASSUME TypeOK
      PROVE  Pending(ForwardFrame(f)) \/ Pending(DeliveryComplete(f)) <=> Leaving(f)
  <2>1. \A x \in events : x.task \in Task
    BY <1>2 DEF TypeOK, Event
  <2> QED
    BY <1>1, <2>1 DEF Pending, Leaving
<1>3. ASSUME TypeOK'
      PROVE  (Pending(ForwardFrame(f)) \/ Pending(DeliveryComplete(f)))' <=> Leaving(f)'
  <2>1. \A x \in events' : x.task \in Task
    BY <1>3 DEF TypeOK, Event
  <2> QED
    BY <1>1, <2>1 DEF Pending, Leaving
<1>4. TypeOK => (HasLeft(f, l) <=> HasPassed(f, l))
  BY <1>2 DEF HasLeft, HasPassed, Delivered
<1>5. TypeOK' => (HasLeft(f, l)' <=> HasPassed(f, l)')
  BY <1>3 DEF HasLeft, HasPassed, Delivered
<1> QED
  BY <1>4, <1>5

(* A frame that a step leaves where it is has passed the same links. *)
LEMMA SameFramePassed ==
  ASSUME case' = case, NEW g, SameFrame(g), NEW l
  PROVE  HasPassed(g, l)' <=> HasPassed(g, l)
<1>1. Leaving(g)' <=> Leaving(g)
  BY DEF SameFrame, Leaving, Moves, MoveKind
<1> QED
  BY <1>1 DEF HasPassed, SameFrame, RouteOf, Delivered

(* A step that lets no frame pass a link adds to no airtime. *)
LEMMA NoneSent ==
  ASSUME TypeOK, TypeOK', case' = case, NEW f,
         \A g \in DOMAIN frames \ {f} : SameFrame(g),
         DOMAIN frames' \ {f} = DOMAIN frames \ {f},
         NEW l,
         f \in DOMAIN frames' /\ HasPassed(f, l)' <=> f \in DOMAIN frames /\ HasPassed(f, l),
         NEW c
  PROVE  AirtimeUsed(l, c)' = AirtimeUsed(l, c)
<1>1. ASSUME NEW g
      PROVE  g \in SentFrames(l, c)' <=> g \in SentFrames(l, c)
  <2>1. /\ g \in SentFrames(l, c) <=> g \in DOMAIN frames /\ ClassOf(g) = c /\ HasPassed(g, l)
        /\ g \in SentFrames(l, c)' <=> g \in DOMAIN frames' /\ ClassOf(g)' = c /\ HasPassed(g, l)'
    BY HasLeftIs DEF SentFrames
  <2>2. ClassOf(g)' = ClassOf(g)
    BY DEF ClassOf, StreamOf
  <2>3. CASE g = f
    BY <2>1, <2>2, <2>3
  <2>4. CASE g # f
    <3>1. g \in DOMAIN frames => (HasPassed(g, l)' <=> HasPassed(g, l))
      BY <2>4, SameFramePassed
    <3> QED
      BY <2>1, <2>2, <2>4, <3>1
  <2> QED
    BY <2>3, <2>4
<1>2. SentFrames(l, c)' = SentFrames(l, c)
  <2>1. SentFrames(l, c)' \subseteq SentFrames(l, c) /\ SentFrames(l, c) \subseteq SentFrames(l, c)'
    BY <1>1
  <2> QED
    BY <2>1
<1> QED
  BY <1>2, AirtimeUsedAddsUp

(* Two stages that leave the same hop in the same way. *)
LEMMA SameHopPassed ==
  ASSUME case' = case, NEW f, frames'[f].hop = frames[f].hop,
         Leaving(f)' \/ Delivered(f)' <=> Leaving(f) \/ Delivered(f), NEW l
  PROVE  HasPassed(f, l)' <=> HasPassed(f, l)
BY DEF HasPassed, RouteOf

(* No handler but the one of a transmission's end adds to the airtime used. *)
LEMMA OthersSendNothing ==
  ASSUME FrameInv, TypeOK', NEW e \in events,
         \/ \E s \in Stream : HandleRelease(e, s)
         \/ \E f \in DOMAIN frames, l \in Link : HandleEnqueue(e, f, l)
         \/ \E l \in Link : HandleStart(e, l)
         \/ \E f \in DOMAIN frames : HandleForward(e, f)
         \/ \E f \in DOMAIN frames : HandleDelivery(e, f)
         \/ \E l \in Link, c \in Shaped : HandleCreditUpdate(e, l, c),
         NEW l, NEW c
  PROVE  AirtimeUsed(l, c)' = AirtimeUsed(l, c)
<1>1. TypeOK /\ case' = case /\ Running
  BY HandlersDispatch, DispatchFacts
<1>2. ASSUME NEW s \in Stream, HandleRelease(e, s)
      PROVE  AirtimeUsed(l, c)' = AirtimeUsed(l, c)
  <2> PICK f : f = <<s, released[s]>>
    OBVIOUS
  <2>1. /\ f \notin DOMAIN frames /\ At(f, 0)' /\ DOMAIN frames' = DOMAIN frames \cup {f}
        /\ \A g \in DOMAIN frames : SameFrame(g)
        /\ frames'[f].hop = 1 /\ Placed(f)'
    BY <1>2, ReleaseMoves
  <2>2. ~Leaving(f)' /\ ~Delivered(f)'
    BY <2>1 DEF At
  <2>3. \A h \in DOMAIN RouteOf(f)' : h \in Nat /\ h >= 1
    <3>1. f \in DOMAIN frames'
      BY <2>1
    <3>2. RouteOf(f)' \in Seq(Link)
      BY <1>1, <3>1, CaseFacts DEF TypeOK, Frame, RouteOf, StreamOf
    <3> QED
      BY <3>2
  <2>4. ~HasPassed(f, l)'
    BY <2>1, <2>2, <2>3 DEF HasPassed
  <2> QED
    BY <1>1, <2>1, <2>4, NoneSent
<1>3. ASSUME NEW f \in DOMAIN frames, NEW k \in Link, HandleEnqueue(e, f, k)
      PROVE  AirtimeUsed(l, c)' = AirtimeUsed(l, c)
  <2>1. Moved(f, 0, 1) /\ DOMAIN frames' = DOMAIN frames /\ frames'[f].hop = frames[f].hop
    BY <1>3, EnqueueMoves
  <2>2. Leaving(f)' \/ Delivered(f)' <=> Leaving(f) \/ Delivered(f)
    BY <2>1 DEF Moved, At
  <2>3. HasPassed(f, l)' <=> HasPassed(f, l)
    BY <1>1, <2>1, <2>2, SameHopPassed
  <2> QED
    BY <1>1, <2>1, <2>3, NoneSent DEF Moved
<1>4. ASSUME NEW k \in Link, HandleStart(e, k)
      PROVE  AirtimeUsed(l, c)' = AirtimeUsed(l, c)
  <2>1. PICK d \in TrafficClass, f \in Frame : Transmits(e, k, d, f)
    BY <1>4, StartChooses
  <2>2. Moved(f, 1, 2) /\ frames' = frames
    BY <2>1, StartMoves DEF Transmits
  <2>3. Leaving(f)' \/ Delivered(f)' <=> Leaving(f) \/ Delivered(f)
    BY <2>2 DEF Moved, At
  <2>4. HasPassed(f, l)' <=> HasPassed(f, l)
    BY <1>1, <2>2, <2>3, SameHopPassed
  <2> QED
    BY <1>1, <2>2, <2>4, NoneSent DEF Moved
<1>5. ASSUME NEW f \in DOMAIN frames, HandleForward(e, f)
      PROVE  AirtimeUsed(l, c)' = AirtimeUsed(l, c)
  <2>1. /\ At(f, 3) /\ At(f, 0)' /\ DOMAIN frames' = DOMAIN frames
        /\ \A g \in DOMAIN frames \ {f} : SameFrame(g)
        /\ frames'[f].hop = frames[f].hop + 1
    BY <1>5, ForwardMoves
  <2>2. Leaving(f) /\ ~Leaving(f)' /\ ~Delivered(f)'
    BY <2>1 DEF At
  <2>3. /\ frames[f].hop \in Nat /\ RouteOf(f)' = RouteOf(f)
        /\ \A h \in DOMAIN RouteOf(f) : h \in Nat
    <3>1. Placed(f)
      BY <1>1 DEF FrameInv
    <3> QED
      BY <1>1, <3>1, PlacedFacts DEF RouteOf
  <2>4. \A h \in DOMAIN RouteOf(f) :
          h < frames'[f].hop <=> h < frames[f].hop \/ h = frames[f].hop
    BY <2>1, <2>3
  <2>5. HasPassed(f, l)' <=> HasPassed(f, l)
    BY <2>2, <2>3, <2>4 DEF HasPassed
  <2> QED
    BY <1>1, <2>1, <2>5, NoneSent
<1>6. ASSUME NEW f \in DOMAIN frames, HandleDelivery(e, f)
      PROVE  AirtimeUsed(l, c)' = AirtimeUsed(l, c)
  <2>1. Moved(f, 3, 4) /\ DOMAIN frames' = DOMAIN frames /\ frames'[f].hop = frames[f].hop
    BY <1>6, DeliveryMoves
  <2>2. Leaving(f)' \/ Delivered(f)' <=> Leaving(f) \/ Delivered(f)
    BY <2>1 DEF Moved, At
  <2>3. HasPassed(f, l)' <=> HasPassed(f, l)
    BY <1>1, <2>1, <2>2, SameHopPassed
  <2> QED
    BY <1>1, <2>1, <2>3, NoneSent DEF Moved
<1>7. ASSUME NEW k \in Link, NEW d \in Shaped, HandleCreditUpdate(e, k, d)
      PROVE  AirtimeUsed(l, c)' = AirtimeUsed(l, c)
  <2>1. /\ \A g \in DOMAIN frames : SameFrame(g)
        /\ frames' = frames
    BY <1>7, CreditUpdateMovesNothing
  <2>2. None \notin DOMAIN frames
    BY <1>1, NoneAssumption DEF TypeOK, Frame
  <2> QED
    BY <1>1, <2>1, <2>2, NoneSent
<1> QED
  BY <1>2, <1>3, <1>4, <1>5, <1>6, <1>7

(* The end of a transmission adds its frame's airtime, to its class on its *)
(* link.                                                                   *)
LEMMA EndSends ==
  ASSUME FrameInv, TypeOK', IsFiniteSet(DOMAIN frames),
         NEW e \in events, NEW f \in DOMAIN frames, NEW l \in Link, HandleEnd(e, l, f)
  PROVE  /\ \A k \in Link : \A c : k # l \/ c # ClassOf(f) => AirtimeUsed(k, c)' = AirtimeUsed(k, c)
         /\ \A c : c = ClassOf(f) =>
              AirtimeUsed(l, c)' = AirtimeUsed(l, c) + Airtime(StreamOf(f), l)
<1>1. TypeOK /\ case' = case /\ Running /\ Placed(f)
  BY DispatchFacts DEF HandleEnd
<1>2. Moved(f, 2, 3) /\ frames' = frames /\ onWire[l] = f
  BY EndMoves
<1>3. ~Leaving(f) /\ ~Delivered(f) /\ Leaving(f)'
  BY <1>2 DEF Moved, At
<1>4. /\ HopLink(f) = l /\ RouteOf(f)' = RouteOf(f) /\ f \in Frame
      /\ frames[f].hop \in DOMAIN RouteOf(f) /\ frames[f].hop \in Nat
      /\ DOMAIN RouteOf(f) \subseteq Nat
  BY <1>1, <1>2, PlacedFacts DEF Placed, RouteOf
<1>5. \A k : HasPassed(f, k)' <=> HasPassed(f, k) \/ k = l
  BY <1>2, <1>3, <1>4 DEF HasPassed, HopLink
<1>6. ~HasPassed(f, l)
  <2>1. \A i, j \in DOMAIN RouteOf(f) : RouteOf(f)[i] = RouteOf(f)[j] => i = j
    BY <1>1, PlacedFacts, CaseFacts DEF TypeOK, WellFormed, RouteOf
  <2> SUFFICES ASSUME NEW h \in DOMAIN RouteOf(f), RouteOf(f)[h] = l, h < frames[f].hop
               PROVE  FALSE
    BY <1>3 DEF HasPassed
  <2>2. h = frames[f].hop
    BY <1>4, <2>1 DEF HopLink
  <2> QED
    BY <1>4, <2>2
<1>7. ASSUME NEW k \in Link, NEW c, k # l
      PROVE  AirtimeUsed(k, c)' = AirtimeUsed(k, c)
  <2>1. HasPassed(f, k)' <=> HasPassed(f, k)
    BY <1>5, <1>7
  <2> QED
    BY <1>1, <1>2, <2>1, NoneSent DEF Moved
<1>8. ASSUME NEW c, NEW g
      PROVE  g \in SentFrames(l, c)' <=>
               g \in SentFrames(l, c) \/ (g = f /\ c = ClassOf(f))
  <2>1. /\ g \in SentFrames(l, c) <=> g \in DOMAIN frames /\ ClassOf(g) = c /\ HasPassed(g, l)
        /\ g \in SentFrames(l, c)' <=> g \in DOMAIN frames /\ ClassOf(g) = c /\ HasPassed(g, l)'
    <3>1. ClassOf(g)' = ClassOf(g)
      BY <1>1 DEF ClassOf, StreamOf
    <3> QED
      BY <1>1, <1>2, <3>1, HasLeftIs DEF SentFrames
  <2>2. CASE g = f
    BY <1>5, <2>1, <2>2
  <2>3. CASE g # f
    <3>1. g \in DOMAIN frames => (HasPassed(g, l)' <=> HasPassed(g, l))
      BY <1>1, <1>2, <2>3, SameFramePassed DEF Moved
    <3> QED
      BY <2>1, <2>3, <3>1
  <2> QED
    BY <2>2, <2>3
<1>9. ASSUME NEW c, c # ClassOf(f)
      PROVE  AirtimeUsed(l, c)' = AirtimeUsed(l, c)
  <2>1. SentFrames(l, c)' \subseteq SentFrames(l, c) /\ SentFrames(l, c) \subseteq SentFrames(l, c)'
    BY <1>8, <1>9
  <2>2. SentFrames(l, c)' = SentFrames(l, c)
    BY <2>1
  <2> QED
    BY <1>1, <2>2, AirtimeUsedAddsUp
<1>10. ASSUME NEW c, c = ClassOf(f)
       PROVE  AirtimeUsed(l, c)' = AirtimeUsed(l, c) + Airtime(StreamOf(f), l)
  <2> PICK S : S = SentFrames(l, c)
    OBVIOUS
  <2>1. SentFrames(l, c)' = S \cup {f}
    <3>1. SentFrames(l, c)' \subseteq S \cup {f} /\ S \cup {f} \subseteq SentFrames(l, c)'
      BY <1>8, <1>10
    <3> QED
      BY <3>1
  <2>2. f \notin S
    BY <1>1, <1>6, HasLeftIs DEF SentFrames
  <2>3. S \in SUBSET Frame /\ IsFiniteSet(S) /\ case \in Cases
    BY <1>1, FS_Subset DEF SentFrames, TypeOK
  <2>4. Airtimes(case, l, S \cup {f}) = Airtimes(case, l, S) + case.size[f[1]] * case.pace[l]
    BY <1>4, <2>2, <2>3, AirtimesGrow
  <2> QED
    BY <1>1, <2>1, <2>4, AirtimeUsedAddsUp DEF Airtime, StreamOf
<1> QED
  BY <1>7, <1>9, <1>10

(* The airtime used is a number. *)
LEMMA AirtimeUsedNat ==
  ASSUME TypeOK, IsFiniteSet(DOMAIN frames), NEW l \in Link, NEW c
  PROVE  AirtimeUsed(l, c) \in Nat
<1>1. SentFrames(l, c) \in SUBSET Frame /\ IsFiniteSet(SentFrames(l, c)) /\ case \in Cases
  BY FS_Subset DEF SentFrames, TypeOK
<1> QED
  BY <1>1, AirtimesGrow, AirtimeUsedAddsUp

-----------------------------------------------------------------------------
(* Every step keeps what a class used earned                               *)

(* Time in which a class does not transmit earns it no less than its       *)
(* credit gains.                                                           *)
LEMMA EarnedWaiting ==
  ASSUME NEW idle \in Nat, NEW send \in Nat, NEW cr \in Int, NEW new \in Int,
         NEW used \in Int, NEW since \in Nat, NEW now \in Nat,
         cr + (idle + send) * used <= idle * since,
         new <= cr + idle * (now - since)
  PROVE  new + (idle + send) * used <= idle * now
<1> DEFINE spent == (idle + send) * used
           before == idle * since
           after == idle * now
           gained == idle * (now - since)
<1>1. spent \in Int /\ before \in Int /\ after \in Int /\ gained \in Int
  OBVIOUS
<1>2. gained = after - before
  OBVIOUS
<1>3. cr + spent <= before /\ new <= cr + gained
  OBVIOUS
<1> HIDE DEF spent, before, after, gained
<1>4. new + spent <= after
  BY <1>1, <1>2, <1>3
<1> QED
  BY <1>4 DEF spent, after

(* Time in which it transmits costs it its send slope. *)
LEMMA EarnedSending ==
  ASSUME NEW idle \in Nat, NEW send \in Nat, NEW cr \in Int, NEW new \in Int,
         NEW used \in Int, NEW since \in Nat, NEW now \in Nat,
         cr + (idle + send) * used <= idle * since,
         new = cr - send * (now - since)
  PROVE  new + (idle + send) * (used + (now - since)) <= idle * now
<1> DEFINE spent == (idle + send) * used
           lost == send * (now - since)
           earned == idle * (now - since)
           all == (idle + send) * (used + (now - since))
           before == idle * since
           after == idle * now
<1>1. /\ spent \in Int /\ lost \in Int /\ earned \in Int /\ all \in Int
      /\ before \in Int /\ after \in Int
  OBVIOUS
<1>2. all = spent + lost + earned /\ earned = after - before
  OBVIOUS
<1>3. cr + spent <= before /\ new = cr - lost
  OBVIOUS
<1> HIDE DEF spent, lost, earned, all, before, after
<1>4. new + all <= after
  BY <1>1, <1>2, <1>3
<1> QED
  BY <1>4 DEF all, after

(* Serialization takes a whole number of time units. *)
LEMMA AirtimeNat ==
  ASSUME TypeOK, NEW s \in Stream, NEW l \in Link
  PROVE  Airtime(s, l) \in Nat
<1>1. case.size \in [Stream -> Nat \ {0}] /\ case.pace \in [Link -> Nat \ {0}]
  BY CaseFacts DEF TypeOK
<1> DEFINE a == case.size[s]
           b == case.pace[l]
<1>2. a \in Nat /\ b \in Nat
  BY <1>1
<1> HIDE DEF a, b
<1>3. a * b \in Nat
  BY <1>2
<1> QED
  BY <1>3 DEF a, b, Airtime

(* A frame of a shaped class on a wire has an airtime. *)
LEMMA WireFacts ==
  ASSUME TypeOK, NEW l \in Link, WireClass(l) \in Shaped
  PROVE  /\ onWire[l] # None /\ onWire[l] \in Frame
         /\ Airtime(StreamOf(onWire[l]), l) \in Nat
<1>1. onWire[l] # None /\ onWire[l] \in Frame
  BY DEF WireClass, NoClass, Shaped, TypeOK
<1>2. StreamOf(onWire[l]) \in Stream
  BY <1>1 DEF StreamOf, Frame
<1> QED
  BY <1>1, <1>2, AirtimeNat

(* Synchronizing port l keeps what its classes used earned. *)
LEMMA SyncEarns ==
  ASSUME TypeOK, IsFiniteSet(DOMAIN frames), NEW l \in Link, EarnedOnPort(l),
         clock' \in Nat, syncedAt[l] <= clock',
         NEW cr, cr = SyncedCredit(l, WireClass(l)), NEW c \in Shaped
  PROVE  cr[c] \in Int /\ EarnedSoFar(l, c, cr[c], clock')
<1> DEFINE elapsed == clock' - syncedAt[l]
           before == credit[l]
           slopes == case.slopes
           pending == queue'[l]
           wire == WireClass(l)
<1>1. /\ syncedAt[l] \in Nat /\ elapsed \in Nat /\ before \in [Shaped -> Int]
      /\ slopes[c].idle \in Nat \ {0} /\ slopes[c].send \in Nat \ {0}
      /\ cr[c] = SynchronizedCredit(before, elapsed, slopes, pending, wire)[c]
  BY SlopeFacts DEF TypeOK, SyncedCredit
<1>2. clock' - syncedAt[l] = elapsed
  OBVIOUS
<1> HIDE DEF elapsed, before, slopes, pending, wire
<1>3. /\ cr[c] \in Int
      /\ cr[c] <= before[c] + slopes[c].idle * elapsed
      /\ wire = c => cr[c] = before[c] - slopes[c].send * elapsed
  <2> PICK new : new = cr[c]
    OBVIOUS
  <2>1. /\ new \in Int
        /\ new <= before[c] + slopes[c].idle * elapsed
        /\ wire = c => new = before[c] - slopes[c].send * elapsed
    BY <1>1, SyncedOnce, SMTT(30)
  <2> QED
    BY <2>1
<1> PICK old : old = credit[l][c]
  OBVIOUS
<1> PICK used : used = AirtimeUsed(l, c)
  OBVIOUS
<1> PICK idle, send : idle = case.slopes[c].idle /\ send = case.slopes[c].send
  OBVIOUS
<1>4. old \in Int /\ used \in Nat /\ idle \in Nat /\ send \in Nat
  BY <1>1, AirtimeUsedNat DEF before, slopes
<1>5. /\ cr[c] <= old + idle * (clock' - syncedAt[l])
      /\ WireClass(l) = c => cr[c] = old - send * (clock' - syncedAt[l])
  BY <1>2, <1>3 DEF before, slopes, wire
<1>6. ASSUME WireClass(l) # c
      PROVE  Earned(c, cr[c], clock', used)
  <2>1. old + (idle + send) * used <= idle * syncedAt[l]
    BY <1>6 DEF EarnedOnPort, EarnedSoFar, Earned
  <2>2. cr[c] + (idle + send) * used <= idle * clock'
    BY <1>1, <1>3, <1>4, <1>5, <2>1, EarnedWaiting
  <2> QED
    BY <2>2 DEF Earned
<1>7. ASSUME NEW x \in events, IsEnd(x, l), WireClass(l) = c
      PROVE  /\ InFlight(l, x, clock') >= 0
             /\ Earned(c, cr[c], clock', used + InFlight(l, x, clock'))
  <2> PICK gone : gone = InFlight(l, x, syncedAt[l])
    OBVIOUS
  <2>1. gone >= 0 /\ old + (idle + send) * (used + gone) <= idle * syncedAt[l]
    BY <1>7 DEF EarnedOnPort, EarnedSoFar, Earned
  <2>2. gone \in Int /\ InFlight(l, x, clock') = gone + (clock' - syncedAt[l])
    <3>1. Airtime(StreamOf(onWire[l]), l) \in Nat /\ x.at \in Nat
      BY <1>7, WireFacts DEF TypeOK, Event
    <3> QED
      BY <1>1, <3>1 DEF InFlight
  <2>3. cr[c] + (idle + send) * ((used + gone) + (clock' - syncedAt[l])) <= idle * clock'
    <3>1. used + gone \in Int
      BY <1>4, <2>2
    <3> QED
      BY <1>1, <1>3, <1>4, <1>5, <1>7, <2>1, <3>1, EarnedSending
  <2>4. used + InFlight(l, x, clock') = (used + gone) + (clock' - syncedAt[l])
    BY <1>1, <1>4, <2>2
  <2>5. InFlight(l, x, clock') >= 0
    BY <1>1, <2>1, <2>2
  <2> QED
    BY <2>3, <2>4, <2>5 DEF Earned
<1> QED
  BY <1>3, <1>6, <1>7 DEF EarnedSoFar

(* What class c had earned after it was synchronized to credit cr at time  *)
(* since is what it has earned after a step that neither changes its       *)
(* airtime nor what is on the wire.                                        *)
LEMMA EarnedStands ==
  ASSUME case' = case, NEW l, NEW c, NEW cr, NEW since,
         cr = credit'[l][c], since = syncedAt'[l],
         onWire'[l] = onWire[l], AirtimeUsed(l, c)' = AirtimeUsed(l, c),
         \A x \in events' : IsEnd(x, l) => x \in events,
         EarnedSoFar(l, c, cr, since)
  PROVE  EarnedSoFar(l, c, credit[l][c], syncedAt[l])'
<1>1. WireClass(l)' = WireClass(l)
  BY DEF WireClass, ClassOf, StreamOf
<1>2. \A x, t : InFlight(l, x, t)' = InFlight(l, x, t)
  BY DEF InFlight, Airtime, StreamOf
<1>3. \A used : Earned(c, cr, since, used) <=> Earned(c, credit[l][c], syncedAt[l], used)'
  BY DEF Earned
<1>4. WireClass(l)' # c => Earned(c, credit[l][c], syncedAt[l], AirtimeUsed(l, c))'
  BY <1>1, <1>3 DEF EarnedSoFar
<1>5. ASSUME NEW x \in events', IsEnd(x, l), WireClass(l)' = c
      PROVE  /\ InFlight(l, x, syncedAt[l])' >= 0
             /\ Earned(c, credit[l][c], syncedAt[l], AirtimeUsed(l, c) + InFlight(l, x, syncedAt[l]))'
  <2>1. InFlight(l, x, since) >= 0 /\ Earned(c, cr, since, AirtimeUsed(l, c) + InFlight(l, x, since))
    BY <1>1, <1>5 DEF EarnedSoFar
  <2> QED
    BY <1>2, <1>3, <2>1
<1> QED
  BY <1>4, <1>5 DEF EarnedSoFar, IsEnd

(* A port that a step leaves as it is keeps what its classes earned. *)
LEMMA SamePortEarned ==
  ASSUME TypeOK, case' = case, NEW k \in Link, SamePort(k), EarnedOnPort(k),
         \A x \in events' : IsEnd(x, k) => x \in events,
         \A c \in Shaped : AirtimeUsed(k, c)' = AirtimeUsed(k, c)
  PROVE  EarnedOnPort(k)'
<1> SUFFICES ASSUME NEW c \in Shaped
             PROVE  EarnedSoFar(k, c, credit[k][c], syncedAt[k])'
  BY DEF EarnedOnPort
<1> PICK cr, since : cr = credit[k][c] /\ since = syncedAt[k]
  OBVIOUS
<1>1. cr = credit'[k][c] /\ since = syncedAt'[k] /\ onWire'[k] = onWire[k]
  BY DEF SamePort
<1>2. EarnedSoFar(k, c, cr, since)
  BY DEF EarnedOnPort
<1> QED
  BY <1>1, <1>2, EarnedStands

(* A handler that synchronizes its port and leaves the wire alone. *)
LEMMA SchedulerEarns ==
  ASSUME FrameInv, IsFiniteSet(DOMAIN frames), NEW e, Dispatch(e), NEW l \in Link,
         EarnedOnPort(l), onWire' = onWire, NEW starts, NEW wakes,
         ScheduleNextTransmission(e, l, SyncedCredit(l, WireClass(l)), starts, wakes, {}),
         \A c \in Shaped : AirtimeUsed(l, c)' = AirtimeUsed(l, c)
  PROVE  EarnedOnPort(l)'
<1> SUFFICES ASSUME NEW c \in Shaped
             PROVE  EarnedSoFar(l, c, credit[l][c], syncedAt[l])'
  BY DEF EarnedOnPort
<1> PICK synced : synced = SyncedCredit(l, WireClass(l))
  OBVIOUS
<1> PICK cr, since : cr = synced[c] /\ since = clock'
  OBVIOUS
<1>1. TypeOK /\ case' = case /\ clock' \in Nat /\ syncedAt[l] <= clock'
  BY SyncPremises
<1>2. EarnedSoFar(l, c, cr, since)
  BY <1>1, SyncEarns
<1>3. cr = credit'[l][c] /\ since = syncedAt'[l]
  BY <1>1 DEF ScheduleNextTransmission, TypeOK
<1>4. \A x \in events' : IsEnd(x, l) => x \in events
  <2>1. NoNewEnds
    BY SchedulerEndsNothing
  <2> QED
    BY <2>1 DEF NoNewEnds, IsEnd
<1> QED
  BY <1>1, <1>2, <1>3, <1>4, EarnedStands

(* The end of a transmission counts the airtime it has cost already. *)
LEMMA EndEarns ==
  ASSUME FrameInv, TypeOK', IsFiniteSet(DOMAIN frames), NEW e \in events,
         NEW f \in DOMAIN frames, NEW l \in Link, HandleEnd(e, l, f), EarnedOnPort(l)
  PROVE  EarnedOnPort(l)'
<1> SUFFICES ASSUME NEW c \in Shaped
             PROVE  EarnedSoFar(l, c, credit[l][c], syncedAt[l])'
  BY DEF EarnedOnPort
<1> PICK synced : synced = SyncedCredit(l, WireClass(l))
  OBVIOUS
<1> PICK freed : freed = SynchronizedCredit(synced, 0, case.slopes, queue'[l], NoClass)
  OBVIOUS
<1>1. /\ Dispatch(e) /\ e.task = TransmissionEnd(l, f)
      /\ onWire' = [onWire EXCEPT ![l] = None]
      /\ credit' = [credit EXCEPT ![l] = freed]
      /\ syncedAt' = [syncedAt EXCEPT ![l] = clock']
  BY DEF HandleEnd, ScheduleNextTransmission
<1>2. /\ TypeOK /\ case' = case /\ clock' \in Nat /\ syncedAt[l] <= clock'
      /\ clock' = e.at /\ onWire[l] = f
  BY <1>1, SyncPremises, EndMoves DEF Dispatch
<1>3. synced[c] \in Int /\ EarnedSoFar(l, c, synced[c], clock')
  BY <1>2, SyncEarns
<1>4. WireClass(l)' = NoClass /\ NoClass # c
  BY <1>1, <1>2 DEF WireClass, TypeOK, NoClass, Shaped
<1>5. WireClass(l) = ClassOf(f) /\ StreamOf(f) \in Stream /\ f \in Frame
  <2>1. f \in Frame /\ f # None
    BY <1>2, NoneAssumption DEF TypeOK, Frame
  <2> QED
    BY <1>2, <2>1 DEF WireClass, StreamOf, Frame
<1>6. Earned(c, synced[c], clock', AirtimeUsed(l, c)')
  <2>1. CASE c # ClassOf(f)
    <3>1. AirtimeUsed(l, c)' = AirtimeUsed(l, c)
      BY <2>1, EndSends
    <3> QED
      BY <1>3, <1>5, <2>1, <3>1 DEF EarnedSoFar
  <2>2. CASE c = ClassOf(f)
    <3>1. AirtimeUsed(l, c)' = AirtimeUsed(l, c) + Airtime(StreamOf(f), l)
      BY <2>2, EndSends
    <3>2. IsEnd(e, l)
      BY <1>1, TaskFields DEF IsEnd
    <3>3. InFlight(l, e, clock') = Airtime(StreamOf(f), l)
      <4>1. Airtime(StreamOf(f), l) \in Nat
        BY <1>2, <1>5, AirtimeNat
      <4> QED
        BY <1>2, <4>1 DEF InFlight
    <3> QED
      BY <1>3, <1>5, <2>2, <3>1, <3>2, <3>3 DEF EarnedSoFar
  <2> QED
    BY <2>1, <2>2
<1>7. freed[c] \in Int /\ freed[c] <= synced[c]
  <2> DEFINE slopes == case.slopes
             pending == queue'[l]
             elapsed == 0
  <2> PICK new : new = freed[c]
    OBVIOUS
  <2>1. /\ synced \in [Shaped -> Int] /\ elapsed \in Nat
        /\ slopes[c].idle \in Nat \ {0} /\ slopes[c].send \in Nat \ {0}
        /\ new = SynchronizedCredit(synced, elapsed, slopes, pending, NoClass)[c]
    BY <1>2, SyncedCreditType, SlopeFacts
  <2> HIDE DEF slopes, pending, elapsed
  <2>2. new \in Int /\ new <= synced[c] + slopes[c].idle * elapsed
    BY <2>1, SyncedOnce
  <2>3. slopes[c].idle * elapsed = 0
    BY <2>1 DEF elapsed
  <2> QED
    BY <1>3, <2>2, <2>3
<1>8. Earned(c, freed[c], clock', AirtimeUsed(l, c)')
  <2> DEFINE spent == (case.slopes[c].idle + case.slopes[c].send) * AirtimeUsed(l, c)'
             most == case.slopes[c].idle * clock'
  <2>1. spent \in Int /\ most \in Int
    <3>1. case.slopes[c].idle \in Nat /\ case.slopes[c].send \in Nat
      BY <1>2, SlopeFacts
    <3>2. AirtimeUsed(l, c) \in Nat /\ AirtimeUsed(l, c)' \in Int
      <4>1. AirtimeUsed(l, c) \in Nat
        BY <1>2, AirtimeUsedNat
      <4>2. Airtime(StreamOf(f), l) \in Nat
        BY <1>2, <1>5, AirtimeNat
      <4>3. \/ AirtimeUsed(l, c)' = AirtimeUsed(l, c)
            \/ AirtimeUsed(l, c)' = AirtimeUsed(l, c) + Airtime(StreamOf(f), l)
        BY EndSends
      <4> QED
        BY <4>1, <4>2, <4>3
    <3> QED
      BY <1>2, <3>1, <3>2
  <2>2. synced[c] + spent <= most
    BY <1>6 DEF Earned
  <2> HIDE DEF spent, most
  <2>3. freed[c] + spent <= most
    BY <1>3, <1>7, <2>1, <2>2
  <2> QED
    BY <2>3 DEF Earned, spent, most
<1>9. credit'[l] = freed /\ syncedAt'[l] = clock'
  BY <1>1, <1>2 DEF TypeOK
<1>10. Earned(c, credit[l][c], syncedAt[l], AirtimeUsed(l, c))'
  BY <1>2, <1>8, <1>9 DEF Earned
<1> QED
  BY <1>4, <1>10 DEF EarnedSoFar

(* A transmission that starts has cost nothing yet. *)
LEMMA StartEarns ==
  ASSUME FrameInv, TypeOK', IsFiniteSet(DOMAIN frames), NEW e \in events, NEW l \in Link,
         NEW d \in TrafficClass, NEW f \in Frame, Transmits(e, l, d, f), EarnedOnPort(l),
         \A c \in Shaped : AirtimeUsed(l, c)' = AirtimeUsed(l, c)
  PROVE  EarnedOnPort(l)'
<1> SUFFICES ASSUME NEW c \in Shaped
             PROVE  EarnedSoFar(l, c, credit[l][c], syncedAt[l])'
  BY DEF EarnedOnPort
<1>1. /\ TypeOK /\ case' = case /\ UNCHANGED <<credit, syncedAt>>
      /\ onWire[l] = None /\ onWire'[l] = f /\ StreamOf(f) \in Stream
      /\ clock' \in Nat /\ syncedAt[l] = clock'
      /\ \A x \in events' : IsEnd(x, l) => x.at = clock' + Airtime(StreamOf(f), l)
  BY StartFacts
<1>2. Earned(c, credit[l][c], syncedAt[l], AirtimeUsed(l, c))'
  <2>1. WireClass(l) # c
    BY <1>1 DEF WireClass, NoClass, Shaped
  <2>2. Earned(c, credit[l][c], syncedAt[l], AirtimeUsed(l, c))
    BY <2>1 DEF EarnedOnPort, EarnedSoFar
  <2> QED
    BY <1>1, <2>2 DEF Earned
<1>3. ASSUME NEW x \in events', IsEnd(x, l)
      PROVE  InFlight(l, x, syncedAt[l])' = 0
  <2>1. Airtime(StreamOf(f), l) \in Nat /\ Airtime(StreamOf(f), l)' = Airtime(StreamOf(f), l)
    BY <1>1, AirtimeNat DEF Airtime, StreamOf
  <2>2. InFlight(l, x, syncedAt[l])' = Airtime(StreamOf(f), l) - (x.at - clock')
    BY <1>1, <2>1 DEF InFlight, StreamOf
  <2> QED
    BY <1>1, <1>3, <2>1, <2>2
<1>4. AirtimeUsed(l, c)' + 0 = AirtimeUsed(l, c)'
  <2>1. AirtimeUsed(l, c) \in Nat
    BY <1>1, AirtimeUsedNat
  <2> QED
    BY <2>1
<1> QED
  BY <1>2, <1>3, <1>4 DEF EarnedSoFar, IsEnd

(* There are finitely many frames, for every release adds one. *)
LEMMA FramesStayFinite ==
  ASSUME TypeOK, IsFiniteSet(DOMAIN frames), [Next]_vars
  PROVE  IsFiniteSet(DOMAIN frames')
<1>1. ASSUME NEW e \in events, NEW s \in Stream, HandleRelease(e, s)
      PROVE  IsFiniteSet(DOMAIN frames')
  <2>1. DOMAIN frames' = DOMAIN frames \cup {<<s, released[s]>>}
    BY <1>1 DEF HandleRelease
  <2> QED
    BY <2>1, FS_AddElement
<1>2. ASSUME ~(\E e \in events, s \in Stream : HandleRelease(e, s))
      PROVE  DOMAIN frames' = DOMAIN frames
  <2>1. CASE UNCHANGED vars
    BY <2>1 DEF vars
  <2>2. ASSUME NEW e \in events, NEW f \in DOMAIN frames, NEW l \in Link,
               HandleEnqueue(e, f, l) \/ HandleEnd(e, l, f)
        PROVE  DOMAIN frames' = DOMAIN frames
    BY <2>2 DEF HandleEnqueue, HandleEnd
  <2>3. ASSUME NEW e \in events, NEW f \in DOMAIN frames,
               HandleForward(e, f) \/ HandleDelivery(e, f)
        PROVE  DOMAIN frames' = DOMAIN frames
    BY <2>3 DEF HandleForward, HandleDelivery
  <2>4. ASSUME NEW e \in events, NEW l \in Link,
               HandleStart(e, l) \/ \E c \in Shaped : HandleCreditUpdate(e, l, c)
        PROVE  DOMAIN frames' = DOMAIN frames
    BY <2>4 DEF HandleStart, HandleCreditUpdate
  <2>5. ASSUME NEW e \in events, HandleFinalize(e) \/ StopBefore(e) \/ Raise(e)
        PROVE  DOMAIN frames' = DOMAIN frames
    BY <2>5 DEF HandleFinalize, StopBefore, Raise, LeaveLoop
  <2>6. CASE RunDry \/ Stop
    BY <2>6 DEF RunDry, Stop, LeaveLoop
  <2> QED
    BY <1>2, <2>1, <2>2, <2>3, <2>4, <2>5, <2>6 DEF Next
<1> QED
  BY <1>1, <1>2

(* Every step of the loop keeps what every class used earned. *)
LEMMA ReservationStep ==
  ASSUME FrameInv, FrameInv', ReservationInv, [Next]_vars
  PROVE  ReservationInv'
<1>1. TypeOK /\ TypeOK' /\ IsFiniteSet(DOMAIN frames)
  BY DEF FrameInv, EngineInv, ReservationInv
<1>2. IsFiniteSet(DOMAIN frames')
  BY <1>1, FramesStayFinite
<1>3. CASE UNCHANGED vars
  <2>1. /\ case' = case /\ UNCHANGED portVars /\ events' = events /\ status' = status
        /\ frames' = frames
    BY <1>3 DEF vars
  <2>2. ASSUME Running', NEW k \in Link
        PROVE  EarnedOnPort(k)'
    <3>1. EarnedOnPort(k)
      BY <2>1, <2>2 DEF ReservationInv, Running
    <3>2. SamePort(k)
      BY <1>1, <2>1, PortsUntouched
    <3>3. \A c : AirtimeUsed(k, c)' = AirtimeUsed(k, c)
      <4>1. \A f : HasLeft(f, k)' <=> HasLeft(f, k)
        BY <2>1 DEF HasLeft, RouteOf, StreamOf, Pending
      <4>2. \A c : SentFrames(k, c)' = SentFrames(k, c)
        BY <2>1, <4>1 DEF SentFrames, ClassOf, StreamOf
      <4> QED
        BY <2>1, <4>2, AirtimeUsedAddsUp
    <3> QED
      BY <1>1, <2>1, <3>1, <3>2, <3>3, SamePortEarned
  <2> QED
    BY <1>2, <2>2 DEF ReservationInv
<1> SUFFICES ASSUME Next, Running', NEW k \in Link
             PROVE  EarnedOnPort(k)'
  BY <1>2, <1>3 DEF ReservationInv
<1>4. Running /\ \A l \in Link : EarnedOnPort(l)
  BY StepsRun DEF ReservationInv
<1>5. ASSUME case' = case, SamePort(k), \A x \in events' : IsEnd(x, k) => x \in events,
             \A c : AirtimeUsed(k, c)' = AirtimeUsed(k, c)
      PROVE  EarnedOnPort(k)'
  BY <1>1, <1>4, <1>5, SamePortEarned
<1>6. ASSUME NEW e \in events, NEW f \in DOMAIN frames, NEW l \in Link, HandleEnqueue(e, f, l)
      PROVE  EarnedOnPort(k)'
  <2>1. /\ Dispatch(e) /\ onWire' = onWire /\ case' = case
        /\ ScheduleNextTransmission(e, l, SyncedCredit(l, WireClass(l)), startAt, wakeAt, {})
    BY <1>6 DEF HandleEnqueue, Dispatch
  <2>2. \A j, c : AirtimeUsed(j, c)' = AirtimeUsed(j, c)
    BY <1>1, <1>6, OthersSendNothing
  <2>3. CASE k = l
    BY <1>1, <1>4, <2>1, <2>2, <2>3, SchedulerEarns
  <2>4. CASE k # l
    <3>1. SamePort(k)
      BY <1>1, <1>6, <2>4, EnqueueTouchesOnePort
    <3>2. NoNewEnds
      BY <2>1, SchedulerEndsNothing
    <3> QED
      BY <1>5, <2>1, <2>2, <3>1, <3>2 DEF NoNewEnds, IsEnd
  <2> QED
    BY <2>3, <2>4
<1>7. ASSUME NEW e \in events, NEW l \in Link, NEW d \in Shaped, HandleCreditUpdate(e, l, d)
      PROVE  EarnedOnPort(k)'
  <2> PICK cleared : cleared = [wakeAt EXCEPT ![l][d] = None]
    OBVIOUS
  <2>1. /\ Dispatch(e) /\ onWire' = onWire /\ case' = case
        /\ ScheduleNextTransmission(e, l, SyncedCredit(l, WireClass(l)), startAt, cleared, {})
    BY <1>7 DEF HandleCreditUpdate, Dispatch
  <2>2. \A j, c : AirtimeUsed(j, c)' = AirtimeUsed(j, c)
    BY <1>1, <1>7, OthersSendNothing
  <2>3. CASE k = l
    BY <1>1, <1>4, <2>1, <2>2, <2>3, SchedulerEarns
  <2>4. CASE k # l
    <3>1. SamePort(k)
      BY <1>1, <1>7, <2>4, CreditUpdateTouchesOnePort
    <3>2. NoNewEnds
      BY <2>1, SchedulerEndsNothing
    <3> QED
      BY <1>5, <2>1, <2>2, <3>1, <3>2 DEF NoNewEnds, IsEnd
  <2> QED
    BY <2>3, <2>4
<1>8. ASSUME NEW e \in events, NEW f \in DOMAIN frames, NEW l \in Link, HandleEnd(e, l, f)
      PROVE  EarnedOnPort(k)'
  <2>1. CASE k = l
    BY <1>1, <1>4, <1>8, <2>1, EndEarns
  <2>2. CASE k # l
    <3>1. case' = case
      BY <1>8 DEF HandleEnd, Dispatch
    <3>2. SamePort(k)
      BY <1>1, <1>8, <2>2, EndTouchesOnePort
    <3>3. \A c : AirtimeUsed(k, c)' = AirtimeUsed(k, c)
      BY <1>1, <1>8, <2>2, EndSends
    <3>4. \A x \in events' : IsEnd(x, k) => x \in events
      BY <1>8, EndPushesNoEnd DEF NoNewEnds, IsEnd
    <3> QED
      BY <1>5, <3>1, <3>2, <3>3, <3>4
  <2> QED
    BY <2>1, <2>2
<1>9. ASSUME NEW e \in events, NEW l \in Link, HandleStart(e, l)
      PROVE  EarnedOnPort(k)'
  <2>1. \A j, c : AirtimeUsed(j, c)' = AirtimeUsed(j, c)
    BY <1>1, <1>9, OthersSendNothing
  <2>2. PICK d \in TrafficClass, f \in Frame : Transmits(e, l, d, f)
    BY <1>9, StartChooses
  <2>3. CASE k = l
    BY <1>1, <1>4, <2>1, <2>2, <2>3, StartEarns
  <2>4. CASE k # l
    <3>1. case' = case /\ \A x \in events' : IsEnd(x, k) => x \in events
      BY <2>2, <2>4, StartFacts
    <3>2. SamePort(k)
      BY <1>1, <1>9, <2>4, StartTouchesOnePort
    <3> QED
      BY <1>5, <2>1, <3>1, <3>2
  <2> QED
    BY <2>3, <2>4
<1>10. ASSUME NEW e \in events,
              \/ \E s \in Stream : HandleRelease(e, s)
              \/ \E f \in DOMAIN frames : HandleForward(e, f)
              \/ \E f \in DOMAIN frames : HandleDelivery(e, f)
       PROVE  EarnedOnPort(k)'
  <2>1. \A c : AirtimeUsed(k, c)' = AirtimeUsed(k, c)
    BY <1>1, <1>10, OthersSendNothing
  <2>2. LeavesPorts(e)
    BY <1>10, FrameHandlersLeavePorts
  <2>3. case' = case /\ SamePort(k)
    BY <1>1, <2>2, PortsUntouched DEF LeavesPorts, Dispatch
  <2>4. \A x \in events' : IsEnd(x, k) => x \in events
    BY <2>2 DEF LeavesPorts, Push, IsEnd
  <2> QED
    BY <1>5, <2>1, <2>3, <2>4
<1>11. ASSUME NEW e \in events, HandleFinalize(e) \/ StopBefore(e) \/ Raise(e)
       PROVE  FALSE
  BY <1>11 DEF HandleFinalize, StopBefore, Raise, LeaveLoop, Running
<1>12. ~RunDry /\ ~Stop
  BY DEF RunDry, Stop, LeaveLoop, Running
<1> QED
  BY <1>6, <1>7, <1>8, <1>9, <1>10, <1>11, <1>12 DEF Next

(* No class has used a link when a run starts. *)
LEMMA ReservationInit ==
  ASSUME Init
  PROVE  ReservationInv
<1>1. DOMAIN frames = {} /\ IsFiniteSet(DOMAIN frames)
  BY FS_EmptySet DEF Init
<1>2. TypeOK
  BY InitTypes
<1>3. ASSUME NEW l \in Link, NEW c \in Shaped
      PROVE  EarnedSoFar(l, c, credit[l][c], syncedAt[l])
  <2>1. AirtimeUsed(l, c) = 0
    <3>1. SentFrames(l, c) = {}
      BY <1>1 DEF SentFrames
    <3>2. Airtimes(case, l, {}) = 0
      BY <1>2, NoAirtime DEF TypeOK
    <3> QED
      BY <3>1, <3>2, AirtimeUsedAddsUp
  <2>2. credit[l][c] = 0 /\ syncedAt[l] = 0 /\ onWire[l] = None
    BY DEF Init
  <2>3. case.slopes[c].idle \in Nat /\ case.slopes[c].send \in Nat
    BY <1>2, SlopeFacts
  <2>4. Earned(c, credit[l][c], syncedAt[l], AirtimeUsed(l, c))
    BY <2>1, <2>2, <2>3 DEF Earned
  <2>5. WireClass(l) # c
    BY <2>2 DEF WireClass, NoClass, Shaped
  <2> QED
    BY <2>4, <2>5 DEF EarnedSoFar
<1> QED
  BY <1>1, <1>3 DEF ReservationInv, EarnedOnPort

(* What was earned bounds what was used, for the credit is not below one   *)
(* frame's cost.                                                           *)
LEMMA EarnedBoundsUse ==
  ASSUME NEW idle \in Nat, NEW send \in Nat, NEW cr \in Int, NEW used \in Nat,
         NEW flying \in Nat, NEW since \in Nat, NEW now \in Nat, since <= now,
         NEW longest \in Nat,
         cr + (idle + send) * (used + flying) <= idle * since,
         cr >= -(send * longest)
  PROVE  send * used <= idle * (now - used) + send * longest
<1> DEFINE spent == send * used
           flown == (idle + send) * flying
           share == idle * used
           before == idle * since
           after == idle * now
           one == send * longest
<1>1. /\ spent \in Nat /\ flown \in Nat /\ share \in Nat /\ before \in Nat
      /\ after \in Nat /\ one \in Nat
  OBVIOUS
<1>2. before <= after
  BY ProductMonotone
<1>3. /\ (idle + send) * (used + flying) = spent + share + flown
      /\ idle * (now - used) = after - share
  OBVIOUS
<1>4. cr + (spent + share + flown) <= before /\ cr >= -one
  BY <1>3
<1> HIDE DEF spent, flown, share, before, after, one
<1>5. spent <= (after - share) + one
  BY <1>1, <1>2, <1>4
<1> QED
  BY <1>3, <1>5 DEF spent, one

(* The invariants imply the reservation. *)
LEMMA EarnedMeansReserved ==
  ASSUME FrameInv, CreditInv, ReservationInv
  PROVE  ReservationRespected
<1> SUFFICES ASSUME Running, NEW l \in Link, NEW c \in Shaped
             PROVE  case.slopes[c].send * AirtimeUsed(l, c)
                      <= case.slopes[c].idle * (clock - AirtimeUsed(l, c))
                           + case.slopes[c].send * LongestAirtime(l, c)
  BY DEF ReservationRespected
<1> PICK idle, send : idle = case.slopes[c].idle /\ send = case.slopes[c].send
  OBVIOUS
<1> PICK cr, used : cr = credit[l][c] /\ used = AirtimeUsed(l, c)
  OBVIOUS
<1> PICK since, longest : since = syncedAt[l] /\ longest = LongestAirtime(l, c)
  OBVIOUS
<1>1. TypeOK /\ PortInv(l) /\ CreditHolds(l) /\ EarnedOnPort(l) /\ IsFiniteSet(DOMAIN frames)
  BY DEF FrameInv, EngineInv, CreditInv, ReservationInv
<1>2. /\ idle \in Nat /\ send \in Nat /\ cr \in Int /\ used \in Nat
      /\ since \in Nat /\ clock \in Nat /\ since <= clock /\ longest \in Nat
  <2>1. longest \in Nat
    BY <1>1, LongestAirtimeFacts DEF Shaped, TrafficClass
  <2>2. idle \in Nat /\ send \in Nat /\ used \in Nat
    BY <1>1, SlopeFacts, AirtimeUsedNat
  <2> QED
    BY <1>1, <2>1, <2>2 DEF TypeOK, PortInv
<1>3. cr >= -(send * longest)
  BY <1>1 DEF CreditHolds, Least
<1>4. \E flying \in Nat : cr + (idle + send) * (used + flying) <= idle * since
  <2>1. CASE WireClass(l) # c
    <3>1. cr + (idle + send) * used <= idle * since
      BY <1>1, <2>1 DEF EarnedOnPort, EarnedSoFar, Earned
    <3>2. used + 0 = used /\ 0 \in Nat
      BY <1>2
    <3> QED
      BY <3>1, <3>2
  <2>2. CASE WireClass(l) = c
    <3>1. onWire[l] # None /\ Airtime(StreamOf(onWire[l]), l) \in Nat
      BY <1>1, <2>2, WireFacts
    <3>2. PICK x \in events : IsEnd(x, l)
      BY <1>1, <3>1, TaskFields DEF PortInv, PortMatchesEvents, WireMatchesEvents, Pending, IsEnd
    <3>3. /\ InFlight(l, x, since) >= 0
          /\ cr + (idle + send) * (used + InFlight(l, x, since)) <= idle * since
      BY <1>1, <2>2, <3>2 DEF EarnedOnPort, EarnedSoFar, Earned
    <3>4. InFlight(l, x, since) \in Int
      BY <1>1, <1>2, <3>1 DEF InFlight, TypeOK, Event
    <3>5. InFlight(l, x, since) \in Nat
      BY <3>3, <3>4
    <3> QED
      BY <3>3, <3>5
  <2> QED
    BY <2>1, <2>2
<1>5. PICK flying \in Nat : cr + (idle + send) * (used + flying) <= idle * since
  BY <1>4
<1>6. send * used <= idle * (clock - used) + send * longest
  BY <1>2, <1>3, <1>5, EarnedBoundsUse
<1> QED
  BY <1>6

(* Whatever the streams, routes and slopes of a case, and whatever else    *)
(* waits, the shaper never lets a class have more of a link than its       *)
(* slopes reserve for it.                                                  *)
THEOREM ReservationsAreKept == Spec => []ReservationRespected
<1>1. Init => FrameInv /\ CreditInv /\ ReservationInv
  BY FrameInit, CreditInit, ReservationInit
<1>2. FrameInv /\ CreditInv /\ ReservationInv /\ [Next]_vars
        => FrameInv' /\ CreditInv' /\ ReservationInv'
  BY FrameStep, CreditStep, ReservationStep
<1>3. FrameInv /\ CreditInv /\ ReservationInv => ReservationRespected
  BY EarnedMeansReserved
<1> QED
  BY <1>1, <1>2, <1>3, PTL DEF Spec

-----------------------------------------------------------------------------
(* Queues are in the order of arrival                                      *)

(* At time t the frames of queue q, whose states are fr, are in the order  *)
(* in which they joined it.                                                *)
InTurn(q, fr, t) ==
  \A i, j \in DOMAIN q : i <= j =>
    /\ fr[q[i]].enqueuedAt \in Nat /\ fr[q[j]].enqueuedAt \in Nat
    /\ fr[q[i]].enqueuedAt <= fr[q[j]].enqueuedAt
    /\ fr[q[j]].enqueuedAt <= t

TurnInv ==
  Running => \A l \in Link, c \in TrafficClass : InTurn(queue[l][c], frames, clock)

(* A queue that stays as it is stays in order. *)
LEMMA TurnStays ==
  ASSUME NEW S, NEW q \in Seq(S), NEW fr, NEW fs, NEW t \in Nat, NEW u \in Nat, t <= u,
         InTurn(q, fr, t),
         \A i \in DOMAIN q : fs[q[i]].enqueuedAt = fr[q[i]].enqueuedAt
  PROVE  InTurn(q, fs, u)
<1> SUFFICES ASSUME NEW i \in DOMAIN q, NEW j \in DOMAIN q, i <= j
             PROVE  /\ fs[q[i]].enqueuedAt \in Nat /\ fs[q[j]].enqueuedAt \in Nat
                    /\ fs[q[i]].enqueuedAt <= fs[q[j]].enqueuedAt
                    /\ fs[q[j]].enqueuedAt <= u
  BY DEF InTurn
<1>1. /\ fr[q[i]].enqueuedAt \in Nat /\ fr[q[j]].enqueuedAt \in Nat
      /\ fr[q[i]].enqueuedAt <= fr[q[j]].enqueuedAt
      /\ fr[q[j]].enqueuedAt <= t
  BY DEF InTurn
<1>2. fs[q[i]].enqueuedAt = fr[q[i]].enqueuedAt /\ fs[q[j]].enqueuedAt = fr[q[j]].enqueuedAt
  OBVIOUS
<1> QED
  BY <1>1, <1>2

(* A frame that joins a queue now is the last that came. *)
LEMMA TurnJoined ==
  ASSUME NEW S, NEW q \in Seq(S), NEW f \in S, NEW fr, NEW t \in Nat,
         InTurn(q, fr, t), fr[f].enqueuedAt = t
  PROVE  InTurn(Joined(q, f), fr, t)
<1> DEFINE r == Joined(q, f)
<1>1. /\ Len(q) \in Nat /\ DOMAIN q = 1..Len(q) /\ DOMAIN r = 1..(Len(q) + 1)
      /\ \A i \in 1..Len(q) : r[i] = q[i]
      /\ r[Len(q) + 1] = f
  BY DEF Joined
<1> HIDE DEF r
<1> SUFFICES ASSUME NEW i \in DOMAIN r, NEW j \in DOMAIN r, i <= j
             PROVE  /\ fr[r[i]].enqueuedAt \in Nat /\ fr[r[j]].enqueuedAt \in Nat
                    /\ fr[r[i]].enqueuedAt <= fr[r[j]].enqueuedAt
                    /\ fr[r[j]].enqueuedAt <= t
  BY DEF InTurn, r
<1>2. CASE j \in DOMAIN q
  <2>1. i \in DOMAIN q /\ r[i] = q[i] /\ r[j] = q[j]
    BY <1>1, <1>2
  <2> QED
    BY <1>2, <2>1 DEF InTurn
<1>3. CASE j = Len(q) + 1
  <2>1. fr[r[j]].enqueuedAt = t
    BY <1>1, <1>3
  <2>2. CASE i \in DOMAIN q
    <3>1. r[i] = q[i]
      BY <1>1, <2>2
    <3>2. fr[q[i]].enqueuedAt \in Nat /\ fr[q[i]].enqueuedAt <= t
      BY <1>1, <2>2 DEF InTurn
    <3> QED
      BY <2>1, <3>1, <3>2
  <2>3. CASE i = j
    BY <2>1, <2>3
  <2> QED
    BY <1>1, <1>3, <2>2, <2>3
<1> QED
  BY <1>1, <1>2, <1>3

(* A queue that is popped stays in order. *)
LEMMA TurnPopped ==
  ASSUME NEW S, NEW q \in Seq(S), q # <<>>, NEW fr, NEW t, InTurn(q, fr, t)
  PROVE  InTurn(Popped(q), fr, t)
<1> DEFINE r == Popped(q)
<1>1. /\ Len(q) \in Nat \ {0} /\ DOMAIN q = 1..Len(q) /\ DOMAIN r = 1..(Len(q) - 1)
      /\ \A i \in 1..(Len(q) - 1) : r[i] = q[i + 1]
  BY DEF Popped
<1> HIDE DEF r
<1>2. \A i \in DOMAIN r : i \in Nat /\ i + 1 \in DOMAIN q /\ r[i] = q[i + 1]
  BY <1>1
<1>3. \A i, j \in DOMAIN r : i <= j => i + 1 <= j + 1
  BY <1>2
<1>4. InTurn(r, fr, t)
  BY <1>2, <1>3 DEF InTurn
<1> QED
  BY <1>4 DEF r

(* Every step of the loop keeps the queues in the order of arrival. *)
LEMMA TurnStep ==
  ASSUME FrameInv, FrameInv', TurnInv, Next
  PROVE  TurnInv'
<1> SUFFICES ASSUME Running', NEW l \in Link, NEW c \in TrafficClass
             PROVE  InTurn(queue'[l][c], frames', clock')
  BY DEF TurnInv
<1>1. Running /\ TypeOK /\ TypeOK' /\ EventsNotInPast
  BY StepsRun DEF FrameInv, EngineInv
<1>2. InTurn(queue[l][c], frames, clock)
  BY <1>1 DEF TurnInv
<1>3. /\ queue[l][c] \in Seq(Frame) /\ clock \in Nat /\ clock' \in Nat
      /\ \A i \in DOMAIN queue[l][c] : queue[l][c][i] \in DOMAIN frames
  BY <1>1 DEF TypeOK, FrameInv, OnlyKnownFrames
<1>4. ASSUME NEW e, Dispatch(e)
      PROVE  clock <= clock'
  BY <1>1, <1>3, <1>4 DEF Dispatch, Pops, IsNext, EventsNotInPast
<1>5. ASSUME NEW e, Dispatch(e), queue'[l][c] = queue[l][c],
             \A i \in DOMAIN queue[l][c] :
               frames'[queue[l][c][i]].enqueuedAt = frames[queue[l][c][i]].enqueuedAt
      PROVE  InTurn(queue'[l][c], frames', clock')
  BY <1>2, <1>3, <1>4, <1>5, TurnStays
<1>6. ASSUME NEW e, Dispatch(e), queue' = queue, frames' = frames
      PROVE  InTurn(queue'[l][c], frames', clock')
  BY <1>5, <1>6
<1>7. ASSUME NEW e \in events, NEW s \in Stream, HandleRelease(e, s)
      PROVE  InTurn(queue'[l][c], frames', clock')
  <2> PICK f : f = <<s, released[s]>>
    OBVIOUS
  <2>1. queue' = queue /\ \A g \in DOMAIN frames : frames'[g] = frames[g]
    BY <1>7, ReleaseMoves
  <2> QED
    BY <1>3, <1>5, <1>7, <2>1, HandlersDispatch
<1>8. ASSUME NEW e \in events, NEW f \in DOMAIN frames, NEW k \in Link, HandleEnqueue(e, f, k)
      PROVE  InTurn(queue'[l][c], frames', clock')
  <2>1. /\ Dispatch(e) /\ queue' = [queue EXCEPT ![k][ClassOf(f)] = Joined(@, f)]
        /\ frames' = [frames EXCEPT ![f].enqueuedAt = clock']
    BY <1>8 DEF HandleEnqueue
  <2>2. ~Queued(f)
    BY <1>8, EnqueueMoves DEF Moved, At
  <2>3. \A i \in DOMAIN queue[l][c] : queue[l][c][i] # f
    BY <2>2 DEF Queued, Holds
  <2>4. /\ \A i \in DOMAIN queue[l][c] : frames'[queue[l][c][i]] = frames[queue[l][c][i]]
        /\ frames'[f].enqueuedAt = clock' /\ f \in Frame
    <3>1. frames[f] \in FrameState /\ f \in Frame
      BY <1>1, FrameFacts
    <3>2. frames'[f].enqueuedAt = clock'
      BY <1>8, <2>1, <3>1 DEF FrameState
    <3> QED
      BY <1>3, <2>1, <2>3, <3>1, <3>2
  <2>5. CASE l = k /\ c = ClassOf(f)
    <3>1. queue'[l][c] = Joined(queue[l][c], f)
      BY <1>1, <2>1, <2>5 DEF TypeOK
    <3>2. InTurn(queue[l][c], frames', clock')
      BY <1>2, <1>3, <1>4, <2>1, <2>4, TurnStays
    <3> QED
      BY <1>3, <2>4, <3>1, <3>2, TurnJoined
  <2>6. CASE ~(l = k /\ c = ClassOf(f))
    <3>1. queue'[l][c] = queue[l][c]
      BY <1>1, <2>1, <2>6 DEF TypeOK
    <3> QED
      BY <1>5, <2>1, <2>4, <3>1
  <2> QED
    BY <2>5, <2>6
<1>9. ASSUME NEW e \in events, NEW k \in Link, HandleStart(e, k)
      PROVE  InTurn(queue'[l][c], frames', clock')
  <2> PICK d \in TrafficClass, f \in Frame : Transmits(e, k, d, f)
    BY <1>9, StartChooses
  <2>1. /\ Dispatch(e) /\ frames' = frames
        /\ queue' = [queue EXCEPT ![k][d] = Popped(@)]
        /\ queue[k][d] # <<>>
    BY DEF Transmits, IsCandidate, Eligible
  <2>2. InTurn(queue[l][c], frames', clock')
    BY <1>2, <1>3, <1>4, <2>1, TurnStays
  <2>3. CASE l = k /\ c = d
    <3>1. queue'[l][c] = Popped(queue[l][c])
      BY <1>1, <2>1, <2>3 DEF TypeOK
    <3> QED
      BY <1>3, <2>1, <2>2, <2>3, <3>1, TurnPopped
  <2>4. CASE ~(l = k /\ c = d)
    BY <1>1, <2>1, <2>2, <2>4 DEF TypeOK
  <2> QED
    BY <2>3, <2>4
<1>10. ASSUME NEW e \in events, NEW f \in DOMAIN frames, NEW k \in Link, HandleEnd(e, k, f)
       PROVE  InTurn(queue'[l][c], frames', clock')
  BY <1>6, <1>10 DEF HandleEnd
<1>11. ASSUME NEW e \in events, NEW f \in DOMAIN frames, HandleForward(e, f) \/ HandleDelivery(e, f)
       PROVE  InTurn(queue'[l][c], frames', clock')
  <2>1. /\ Dispatch(e) /\ queue' = queue
        /\ \/ frames' = [frames EXCEPT ![f].hop = @ + 1]
           \/ frames' = [frames EXCEPT ![f].deliveredAt = clock']
    BY <1>11 DEF HandleForward, HandleDelivery, portVars
  <2>2. \A g \in DOMAIN frames : frames'[g].enqueuedAt = frames[g].enqueuedAt
    <3> SUFFICES ASSUME NEW g \in DOMAIN frames
                 PROVE  frames'[g].enqueuedAt = frames[g].enqueuedAt
      OBVIOUS
    <3>1. frames[g] \in FrameState
      BY <1>1, FrameFacts
    <3> QED
      BY <2>1, <3>1 DEF FrameState
  <2> QED
    BY <1>3, <1>5, <2>1, <2>2
<1>12. ASSUME NEW e \in events, NEW k \in Link, NEW d \in Shaped, HandleCreditUpdate(e, k, d)
       PROVE  InTurn(queue'[l][c], frames', clock')
  BY <1>6, <1>12 DEF HandleCreditUpdate
<1>13. ~(\E e \in events : HandleFinalize(e) \/ StopBefore(e) \/ Raise(e)) /\ ~RunDry /\ ~Stop
  BY DEF HandleFinalize, StopBefore, Raise, LeaveLoop, Running, RunDry, Stop
<1> QED
  BY <1>7, <1>8, <1>9, <1>10, <1>11, <1>12, <1>13 DEF Next

-----------------------------------------------------------------------------
(* What the network sees of a frame                                        *)

(* The events that count as a frame's way to its next place are those that *)
(* move it.                                                                *)
MovesPend(f) ==
  /\ Leaving(f) <=> Pending(ForwardFrame(f)) \/ Pending(DeliveryComplete(f))
  /\ Arriving(f) \/ Leaving(f) <=> \E e \in events : e.task \in MovesOf(f)

(* So it is for every frame. *)
LEMMA MovesPending == TypeOK => \A f : MovesPend(f)
<1> SUFFICES ASSUME TypeOK, NEW f
             PROVE  MovesPend(f)
  OBVIOUS
<1>1. \A e \in events : e.task \in Task
  BY DEF TypeOK, Event
<1>2. ASSUME NEW e \in events, e.task.frame = f
      PROVE  /\ e.task.kind = "FORWARD_FRAME" => e.task = ForwardFrame(f)
             /\ e.task.kind = "DELIVERY_COMPLETE" => e.task = DeliveryComplete(f)
             /\ e.task.kind = "ENQUEUE_FRAME" => \E l \in Link : e.task = EnqueueFrame(f, l)
  BY <1>1, <1>2, TaskKinds
<1>3. /\ ForwardFrame(f).kind = "FORWARD_FRAME" /\ ForwardFrame(f).frame = f
      /\ DeliveryComplete(f).kind = "DELIVERY_COMPLETE" /\ DeliveryComplete(f).frame = f
      /\ \A l : EnqueueFrame(f, l).kind = "ENQUEUE_FRAME" /\ EnqueueFrame(f, l).frame = f
  BY DEF ForwardFrame, DeliveryComplete, EnqueueFrame
<1>4. Leaving(f) <=> Pending(ForwardFrame(f)) \/ Pending(DeliveryComplete(f))
  BY <1>2, <1>3 DEF Leaving, Pending
<1>5. Arriving(f) <=> \E e \in events, l \in Link : e.task = EnqueueFrame(f, l)
  <2>1. ASSUME Arriving(f)
        PROVE  \E e \in events, l \in Link : e.task = EnqueueFrame(f, l)
    BY <1>2, <2>1 DEF Arriving
  <2>2. ASSUME NEW e \in events, NEW l \in Link, e.task = EnqueueFrame(f, l)
        PROVE  Arriving(f)
    BY <1>3, <2>2 DEF Arriving
  <2> QED
    BY <2>1, <2>2
<1>6. (\E e \in events : e.task \in MovesOf(f)) <=>
        \/ \E e \in events, l \in Link : e.task = EnqueueFrame(f, l)
        \/ Pending(ForwardFrame(f)) \/ Pending(DeliveryComplete(f))
  BY DEF MovesOf, Pending
<1> QED
  BY <1>4, <1>5, <1>6 DEF MovesPend

(* The stage of a frame says how many links it has crossed and since when  *)
(* it is where it is.                                                      *)
StageTells(f) ==
  \A n \in Stage : At(f, n) =>
    /\ Crossed[f] = IF n \in {3, 4} THEN frames[f].hop ELSE frames[f].hop - 1
    /\ Since[f] = IF n = 4 THEN frames[f].deliveredAt
                  ELSE IF n \in {0, 3} THEN clock ELSE frames[f].enqueuedAt

(* So it is for every frame that is in one stage. *)
LEMMA StagesTell == TypeOK => \A f \in DOMAIN frames : StageTells(f)
<1> SUFFICES ASSUME TypeOK, NEW f \in DOMAIN frames, NEW n \in Stage, At(f, n)
             PROVE  /\ Crossed[f] = IF n \in {3, 4} THEN frames[f].hop ELSE frames[f].hop - 1
                    /\ Since[f] = IF n = 4 THEN frames[f].deliveredAt
                                  ELSE IF n \in {0, 3} THEN clock ELSE frames[f].enqueuedAt
  BY DEF StageTells
<1>1. /\ Leaving(f) <=> Pending(ForwardFrame(f)) \/ Pending(DeliveryComplete(f))
      /\ Arriving(f) \/ Leaving(f) <=> \E e \in events : e.task \in MovesOf(f)
  BY MovesPending DEF MovesPend
<1>2. /\ Arriving(f) <=> n = 0
      /\ Leaving(f) <=> n = 3
      /\ frames[f].deliveredAt # None <=> n = 4
  BY DEF At, Delivered
<1>3. Crossed[f] = IF n \in {3, 4} THEN frames[f].hop ELSE frames[f].hop - 1
  BY <1>1, <1>2 DEF Crossed
<1>4. Since[f] = IF n = 4 THEN frames[f].deliveredAt
                 ELSE IF n \in {0, 3} THEN clock ELSE frames[f].enqueuedAt
  BY <1>1, <1>2 DEF Since
<1> QED
  BY <1>3, <1>4

(* Where the frame is after a step. *)
LEMMA StagesTellNext ==
  TypeOK' => \A f \in DOMAIN frames' : StageTells(f)'
<1>1. (TypeOK => \A f \in DOMAIN frames : StageTells(f))'
  BY StagesTell, PTL
<1> QED
  BY <1>1

(* An event that moves a frame leaves no time before it. *)
LEMMA MovingStands ==
  ASSUME TypeOK, MovesAreNow, Next, clock <= clock',
         NEW f, Arriving(f) \/ Leaving(f)
  PROVE  clock' = clock
<1>1. PICK x \in events : x.task.kind \in MoveKind
  BY DEF Arriving, Leaving, MoveKind
<1>2. x.at = clock /\ clock \in Nat
  BY <1>1 DEF MovesAreNow, TypeOK
<1> SUFFICES ASSUME clock' # clock
             PROVE  FALSE
  OBVIOUS
<1>3. PICK e \in events : IsNext(e) /\ clock' \in Nat /\ clock' <= e.at
  BY ClockMovesToNext
<1>4. e.at \in Nat /\ e.at <= x.at
  BY <1>3, NextIsEarliest
<1> QED
  BY <1>2, <1>3, <1>4

(* A frame that a step leaves where it is, is the same to the network. *)
LEMMA SameToNetwork ==
  ASSUME FrameInv, Running, TypeOK', MovesAreNow, Next, clock <= clock', case' = case,
         NEW g \in DOMAIN frames, g \in DOMAIN frames', SameFrame(g),
         frames'[g].enqueuedAt = frames[g].enqueuedAt
  PROVE  Crossed'[g] = Crossed[g] /\ Since'[g] = Since[g]
<1>1. TypeOK /\ Placed(g)
  BY DEF FrameInv, EngineInv
<1>2. PICK n \in Stage : At(g, n)
  BY <1>1 DEF Placed
<1>3. At(g, n)'
  BY <1>2, SameFrameSamePlace
<1>4. /\ Crossed[g] = IF n \in {3, 4} THEN frames[g].hop ELSE frames[g].hop - 1
      /\ Since[g] = IF n = 4 THEN frames[g].deliveredAt
                    ELSE IF n \in {0, 3} THEN clock ELSE frames[g].enqueuedAt
  BY <1>1, <1>2, StagesTell DEF StageTells
<1>5. /\ Crossed'[g] = IF n \in {3, 4} THEN frames'[g].hop ELSE frames'[g].hop - 1
      /\ Since'[g] = IF n = 4 THEN frames'[g].deliveredAt
                     ELSE IF n \in {0, 3} THEN clock' ELSE frames'[g].enqueuedAt
  BY <1>2, <1>3, StagesTellNext DEF StageTells
<1>6. n \in {0, 3} => clock' = clock
  BY <1>1, <1>2, MovingStands DEF At
<1> QED
  BY <1>4, <1>5, <1>6 DEF SameFrame

-----------------------------------------------------------------------------
(* What the network sees of a wire                                         *)

(* A wire in use carries its frame until its one pending end. *)
WiresTell ==
  /\ DOMAIN Carried = {l \in Link : onWire[l] # None}
  /\ \A l \in Link : onWire[l] # None =>
       /\ Carried[l].frame = onWire[l]
       /\ \E x \in events : IsEnd(x, l) /\ Carried[l] = [frame |-> onWire[l], until |-> x.at]
       /\ \A x \in events : IsEnd(x, l) => Carried[l].until = x.at

(* A pending end is one of the frame on the wire. *)
LEMMA EndIs ==
  ASSUME TypeOK, NEW l \in Link, PortMatchesEvents(l), NEW x \in events, IsEnd(x, l)
  PROVE  onWire[l] # None /\ x.task = TransmissionEnd(l, onWire[l])
<1>1. x.task.frame = onWire[l]
  BY DEF PortMatchesEvents, WireMatchesEvents, IsEnd
<1>2. x.task \in [kind : {"TRANSMISSION_END"}, link : Link, frame : Frame]
  <2>1. x.task \in Task
    BY DEF TypeOK, Event
  <2> QED
    BY <2>1 DEF Task, IsEnd
<1>3. x.task = TransmissionEnd(l, onWire[l])
  BY <1>1, <1>2 DEF IsEnd, TransmissionEnd
<1> QED
  BY <1>1, <1>2, <1>3, NoneAssumption DEF Frame

(* The wires of a running loop do. *)
LEMMA WiresAreTold == EngineInv /\ Running => WiresTell
<1> SUFFICES ASSUME EngineInv, Running
             PROVE  WiresTell
  OBVIOUS
<1>1. TypeOK /\ \A l \in Link : PortMatchesEvents(l)
  BY DEF EngineInv, PortInv
<1>2. DOMAIN Carried = {l \in Link : onWire[l] # None}
  BY DEF Carried
<1>3. ASSUME NEW l \in Link, onWire[l] # None
      PROVE  /\ Carried[l].frame = onWire[l]
             /\ \E x \in events : IsEnd(x, l) /\ Carried[l] = [frame |-> onWire[l], until |-> x.at]
             /\ \A x \in events : IsEnd(x, l) => Carried[l].until = x.at
  <2>1. PICK y \in events : y.task = TransmissionEnd(l, onWire[l])
    BY <1>1, <1>3 DEF PortMatchesEvents, WireMatchesEvents, Pending
  <2>2. \A x \in events : x.task = TransmissionEnd(l, onWire[l]) => x = y
    BY <1>1, <1>3, <2>1 DEF PortMatchesEvents, WireMatchesEvents, PendingOnce
  <2>3. EndOf(l) = y
    BY <2>1, <2>2 DEF EndOf
  <2>4. Carried[l] = [frame |-> onWire[l], until |-> y.at]
    BY <1>3, <2>3 DEF Carried
  <2>5. IsEnd(y, l)
    BY <2>1, TaskFields DEF IsEnd, TransmissionEnd
  <2>6. \A x \in events : IsEnd(x, l) => x = y
    BY <1>1, <2>2, EndIs
  <2> QED
    BY <2>4, <2>5, <2>6
<1> QED
  BY <1>2, <1>3 DEF WiresTell

(* And after a step. *)
LEMMA WiresAreToldNext == EngineInv' /\ Running' => WiresTell'
<1>1. (EngineInv /\ Running => WiresTell)'
  BY WiresAreTold, PTL
<1> QED
  BY <1>1

(* A wire that a handler neither fills nor frees is the same to the network. *)
LEMMA SameWire ==
  ASSUME WiresTell, WiresTell', NEW l \in Link, onWire'[l] = onWire[l], onWire[l] # None,
         \A x \in events' : IsEnd(x, l) => x \in events
  PROVE  Carried'[l] = Carried[l]
<1>1. PICK x \in events' : IsEnd(x, l) /\ Carried'[l] = [frame |-> onWire'[l], until |-> x.at]
  BY DEF WiresTell, IsEnd
<1>2. PICK y \in events : IsEnd(y, l) /\ Carried[l] = [frame |-> onWire[l], until |-> y.at]
  BY DEF WiresTell
<1>3. Carried[l].until = x.at
  BY <1>1 DEF WiresTell
<1> QED
  BY <1>1, <1>2, <1>3

(* A handler that touches no wire keeps them all. *)
LEMMA SameWires ==
  ASSUME WiresTell, WiresTell', onWire' = onWire, NoNewEnds
  PROVE  Carried' = Carried
<1>1. \A l \in Link : onWire[l] # None => Carried'[l] = Carried[l]
  BY SameWire DEF NoNewEnds, IsEnd
<1>2. DOMAIN Carried' = DOMAIN Carried /\ DOMAIN Carried = {l \in Link : onWire[l] # None}
  BY DEF WiresTell
<1>3. Carried' = [l \in DOMAIN Carried' |-> Carried'[l]] /\ Carried = [l \in DOMAIN Carried |-> Carried[l]]
  BY DEF Carried
<1> QED
  BY <1>1, <1>2, <1>3

(* Nor do the steps that leave the loop. *)
LEMMA LeavingSameWires ==
  ASSUME EngineInv, Running, onWire' = onWire,
         \A x : x.task.kind = "TRANSMISSION_END" => (x \in events' <=> x \in events)
  PROVE  Carried' = Carried
<1>1. \A l : TransmissionEnd(l, onWire[l]).kind = "TRANSMISSION_END"
  BY DEF TransmissionEnd
<1>2. ASSUME NEW l \in Link, onWire[l] # None
      PROVE  EndOf(l)' = EndOf(l)
  <2> DEFINE IsIt(x) == x.task = TransmissionEnd(l, onWire[l])
  <2>1. TypeOK /\ PortMatchesEvents(l)
    BY DEF EngineInv, PortInv
  <2>2. PICK y \in events : IsIt(y)
    BY <1>2, <2>1 DEF PortMatchesEvents, WireMatchesEvents, Pending
  <2>3. \A x \in events : IsIt(x) => x = y
    BY <1>2, <2>1, <2>2 DEF PortMatchesEvents, WireMatchesEvents, PendingOnce
  <2>4. y \in events' /\ \A x \in events' : IsIt(x) => x = y
    BY <1>1, <2>2, <2>3
  <2>5. (CHOOSE x \in events' : IsIt(x)) = y
    BY <2>2, <2>4
  <2>6. (CHOOSE x \in events : IsIt(x)) = y
    BY <2>2, <2>3
  <2>7. EndOf(l)' = CHOOSE x \in events' : IsIt(x)
    BY DEF EndOf, TransmissionEnd
  <2> QED
    BY <2>5, <2>6, <2>7 DEF EndOf
<1> QED
  BY <1>2 DEF Carried

-----------------------------------------------------------------------------
(* Which frames wait for a link                                            *)

(* A frame that waits for link l is queued there or about to be, or has    *)
(* left the link before.                                                   *)
LEMMA Waiters ==
  ASSUME FrameInv, Running, WiresTell, NEW f \in DOMAIN frames, NEW l \in Link,
         Network!WaitsFor(f, l), NEW n \in Stage, At(f, n)
  PROVE  \/ n \in {0, 1} /\ HopLink(f) = l /\ Crossed[f] = frames[f].hop - 1
         \/ n = 3 /\ RouteOf(f)[frames[f].hop + 1] = l /\ Crossed[f] = frames[f].hop
<1>1. TypeOK /\ Placed(f)
  BY DEF FrameInv, EngineInv
<1>2. /\ Crossed[f] < Len(RouteOf(f)) /\ RouteOf(f)[Crossed[f] + 1] = l
      /\ \A k \in DOMAIN Carried : Carried[k].frame # f
  BY DEF Network!WaitsFor, NetworkOf, RouteOf, StreamOf
<1>3. /\ frames[f].hop \in Nat \ {0} /\ frames[f].hop <= Len(RouteOf(f))
      /\ Len(RouteOf(f)) \in Nat /\ f # None
  BY <1>1, PlacedFacts
<1>4. Crossed[f] = IF n \in {3, 4} THEN frames[f].hop ELSE frames[f].hop - 1
  BY <1>1, StagesTell DEF StageTells
<1>5. n # 2
  <2> SUFFICES ASSUME n = 2
               PROVE  FALSE
    OBVIOUS
  <2>1. PICK k \in Link : onWire[k] = f
    BY DEF At, OnAWire
  <2>2. k \in DOMAIN Carried /\ Carried[k].frame = f
    BY <1>3, <2>1 DEF WiresTell
  <2> QED
    BY <1>2, <2>2
<1>6. n # 4
  <2> SUFFICES ASSUME n = 4
               PROVE  FALSE
    OBVIOUS
  <2>1. frames[f].hop >= Len(RouteOf(f))
    BY <1>1 DEF At, Placed, IsLastHop
  <2> QED
    BY <1>2, <1>3, <1>4, <2>1
<1>7. CASE n = 3
  BY <1>2, <1>4, <1>7
<1>8. CASE n \in {0, 1}
  <2>1. Crossed[f] = frames[f].hop - 1 /\ Crossed[f] + 1 = frames[f].hop
    BY <1>3, <1>4, <1>8
  <2> QED
    BY <1>2, <1>8, <2>1 DEF HopLink
<1> QED
  BY <1>5, <1>6, <1>7, <1>8 DEF Stage

(* A queued frame waits for its link. *)
LEMMA QueuedWaits ==
  ASSUME FrameInv, Running, WiresTell, NEW f \in DOMAIN frames, At(f, 1)
  PROVE  Network!WaitsFor(f, HopLink(f))
<1>1. TypeOK /\ Placed(f)
  BY DEF FrameInv, EngineInv
<1>2. /\ frames[f].hop \in Nat \ {0} /\ frames[f].hop <= Len(RouteOf(f))
      /\ Len(RouteOf(f)) \in Nat
  BY <1>1, PlacedFacts
<1>3. Crossed[f] = frames[f].hop - 1
  BY <1>1, StagesTell DEF StageTells, Stage
<1>4. Crossed[f] < Len(RouteOf(f)) /\ Crossed[f] + 1 = frames[f].hop
  BY <1>2, <1>3
<1>5. ASSUME NEW k \in DOMAIN Carried
      PROVE  Carried[k].frame # f
  <2>1. k \in Link /\ Carried[k].frame = onWire[k]
    BY <1>5 DEF WiresTell
  <2>2. ~OnAWire(f)
    BY DEF At
  <2> QED
    BY <2>1, <2>2 DEF OnAWire
<1> QED
  BY <1>4, <1>5 DEF Network!WaitsFor, NetworkOf, RouteOf, StreamOf, HopLink

(* The head of a queue goes before every other frame that waits for the    *)
(* link.                                                                   *)
LEMMA HeadGoesBefore ==
  ASSUME FrameInv, OrderInv, TurnInv, Running, WiresTell,
         NEW l \in Link, NEW c \in TrafficClass, queue[l][c] # <<>>,
         NEW f, f = Head(queue[l][c]), f \in DOMAIN frames, At(f, 1),
         NEW g \in DOMAIN frames \ {f}, Network!WaitsFor(g, l)
  PROVE  Network!GoesBefore(f, g)
<1>1. /\ TypeOK /\ Placed(f) /\ Placed(g) /\ MovesAreNow
      /\ NoRepeat(queue[l][c]) /\ InTurn(queue[l][c], frames, clock)
      /\ \A x, y \in DOMAIN frames : Earlier(x, y) => Ahead(x, y)
  BY DEF FrameInv, EngineInv, OrderInv, Ordered, TurnInv
<1>2. /\ queue[l][c] \in Seq(Frame) /\ Len(queue[l][c]) \in Nat \ {0}
      /\ DOMAIN queue[l][c] = 1..Len(queue[l][c]) /\ f = queue[l][c][1]
      /\ 1 \in DOMAIN queue[l][c]
  BY <1>1 DEF TypeOK
<1>3. Holds(queue[l][c], f) /\ l = HopLink(f) /\ c = ClassOf(f)
  BY <1>1, <1>2 DEF Holds, Placed
<1>4. PICK n \in Stage : At(g, n)
  BY <1>1 DEF Placed
<1>5. \/ n \in {0, 1} /\ HopLink(g) = l /\ Crossed[g] = frames[g].hop - 1
      \/ n = 3 /\ RouteOf(g)[frames[g].hop + 1] = l /\ Crossed[g] = frames[g].hop
  BY <1>4, Waiters
<1> SUFFICES ASSUME ClassOf(f) = ClassOf(g)
             PROVE  /\ Since[f] <= Since[g]
                    /\ StreamOf(f) = StreamOf(g) => f[2] < g[2]
  BY DEF Network!GoesBefore, NetworkOf, ClassOf, StreamOf
<1>6. /\ Since[f] = frames[f].enqueuedAt
      /\ frames[f].enqueuedAt \in Nat /\ frames[f].enqueuedAt <= clock
  BY <1>1, <1>2, StagesTell DEF StageTells, Stage, InTurn
<1>7. Since[g] = IF n \in {0, 3} THEN clock ELSE frames[g].enqueuedAt
  BY <1>1, <1>4, <1>5, StagesTell DEF StageTells
<1>8. n = 1 => Holds(queue[l][c], g)
  <2> SUFFICES ASSUME n = 1
               PROVE  Holds(queue[l][c], g)
    OBVIOUS
  <2>1. PICK k \in Link, d \in TrafficClass : Holds(queue[k][d], g)
    BY <1>4 DEF At, Queued
  <2>2. k = HopLink(g) /\ d = ClassOf(g)
    BY <1>1, <2>1 DEF Placed
  <2>3. HopLink(g) = l
    BY <1>5
  <2>4. k = l /\ d = c
    BY <1>3, <2>2, <2>3
  <2> QED
    BY <2>1, <2>4
<1>9. Since[f] <= Since[g]
  <2>1. CASE n = 1
    <3>1. PICK j \in DOMAIN queue[l][c] : queue[l][c][j] = g
      BY <1>8, <2>1 DEF Holds
    <3>2. 1 <= j
      BY <1>2
    <3>3. frames[f].enqueuedAt <= frames[g].enqueuedAt
      BY <1>1, <1>2, <3>1, <3>2 DEF InTurn
    <3> QED
      BY <1>6, <1>7, <2>1, <3>3
  <2>2. CASE n \in {0, 3}
    BY <1>6, <1>7, <2>2
  <2> QED
    BY <1>5, <2>1, <2>2
<1>10. ASSUME StreamOf(f) = StreamOf(g)
       PROVE  f[2] < g[2]
  <2>1. f \in Frame /\ g \in Frame
    BY <1>1, FrameFacts
  <2>2. f[2] \in Nat /\ g[2] \in Nat /\ f[2] # g[2]
    BY <1>10, <2>1 DEF Frame, StreamOf
  <2> SUFFICES ASSUME g[2] < f[2]
               PROVE  FALSE
    BY <2>2
  <2>3. Earlier(g, f) /\ Ahead(g, f)
    BY <1>1, <1>10 DEF Earlier
  <2>4. RouteOf(f) = RouteOf(g) /\ frames[f].hop \in Nat /\ frames[g].hop \in Nat
        /\ (HopLink(g) = HopLink(f) <=> frames[g].hop = frames[f].hop)
    BY <2>3, PairFacts
  <2>5. frames[g].hop >= frames[f].hop
    BY <2>3 DEF Ahead
  <2>6. n # 3
    <3> SUFFICES ASSUME n = 3
                 PROVE  FALSE
      OBVIOUS
    <3>1. RouteOf(g)[frames[g].hop + 1] = RouteOf(g)[frames[f].hop]
      <4>1. RouteOf(f)[frames[f].hop] = l
        BY <1>3 DEF HopLink
      <4>2. RouteOf(g)[frames[g].hop + 1] = l
        BY <1>5
      <4> QED
        BY <2>4, <4>1, <4>2
    <3>2. Crossed[g] < Len(RouteOf(g))
      BY DEF Network!WaitsFor, NetworkOf, RouteOf, StreamOf
    <3>3. DOMAIN RouteOf(g) = 1..Len(RouteOf(g)) /\ Len(RouteOf(g)) \in Nat
      BY <1>1, PlacedFacts
    <3>4. frames[g].hop + 1 \in DOMAIN RouteOf(g) /\ frames[f].hop \in DOMAIN RouteOf(g)
      BY <1>1, <1>5, <2>4, <3>2, <3>3 DEF Placed
    <3>5. \A i, j \in DOMAIN RouteOf(g) : RouteOf(g)[i] = RouteOf(g)[j] => i = j
      <4>1. WellFormed(case) /\ StreamOf(g) \in Stream
        BY <1>1, CaseFacts, PlacedFacts DEF TypeOK
      <4> QED
        BY <4>1 DEF WellFormed, RouteOf
    <3>6. frames[g].hop + 1 = frames[f].hop
      BY <3>1, <3>4, <3>5
    <3> QED
      BY <2>4, <2>5, <3>6
  <2>7. frames[g].hop = frames[f].hop
    BY <1>3, <1>5, <2>4, <2>6
  <2>8. n = 1
    <3>1. n >= 1
      BY <1>4, <2>3, <2>7 DEF Ahead, Stage
    <3> QED
      BY <1>5, <2>6, <3>1
  <2>9. Holds(queue[l][c], g) /\ Before(queue[l][c], g, f)
    BY <1>8, <2>3, <2>8 DEF Ahead
  <2> QED
    BY <1>1, <1>2, <2>9, PoppedFacts
<1> QED
  BY <1>9, <1>10

-----------------------------------------------------------------------------
(* Time                                                                    *)

(* What holds before and after a step of the loop. *)
LEMMA StepStands ==
  ASSUME FrameInv, FrameInv', OrderInv, Next
  PROVE  /\ Running /\ TypeOK /\ TypeOK' /\ case' = case /\ MovesAreNow
         /\ EventsNotInPast /\ WiresTell
         /\ clock \in Nat /\ clock' \in Nat /\ clock <= clock'
         /\ \A l \in Link : PortInv(l)
         /\ \A f \in DOMAIN frames : Placed(f)
<1>1. /\ Running /\ TypeOK /\ TypeOK' /\ MovesAreNow
      /\ EventsNotInPast /\ WiresTell
      /\ \A l \in Link : PortInv(l)
      /\ \A f \in DOMAIN frames : Placed(f)
  BY StepsRun, WiresAreTold DEF FrameInv, EngineInv, OrderInv, Ordered
<1>2. clock \in Nat /\ clock' \in Nat /\ \A e \in events : e.at \in Nat
  BY <1>1 DEF TypeOK, Event
<1>3. ASSUME NEW e \in events, Dispatch(e)
      PROVE  case' = case /\ clock <= clock'
  BY <1>2, <1>3 DEF Dispatch, Raises
<1>4. ASSUME NEW e \in events, StopBefore(e)
      PROVE  case' = case /\ clock <= clock'
  <2>1. /\ ~TimeLimitReached /\ BeyondTimeLimit(e) /\ clock' = case.timeLimit /\ case' = case
    BY <1>4 DEF StopBefore, LeaveLoop
  <2>2. case.timeLimit \in Nat
    BY <1>2, <2>1
  <2> QED
    BY <1>2, <2>1, <2>2 DEF TimeLimitReached, BeyondTimeLimit
<1>5. ASSUME NEW e \in events, Raise(e)
      PROVE  case' = case /\ clock <= clock'
  BY <1>2, <1>5 DEF Raise
<1>6. RunDry \/ Stop => case' = case /\ clock' = clock
  BY DEF RunDry, Stop, LeaveLoop
<1> QED
  BY <1>1, <1>2, <1>3, <1>4, <1>5, <1>6, StepKinds

(* No step passes the end of a transmission by, nor a free link that a      *)
(* best-effort frame waits for.                                            *)
LEMMA TimePasses ==
  ASSUME FrameInv, FrameInv', OrderInv, NoLostWakeup, Next
  PROVE  Network!TimePasses
<1>1. /\ Running /\ TypeOK /\ MovesAreNow /\ EventsNotInPast /\ WiresTell
      /\ clock \in Nat /\ clock' \in Nat /\ clock <= clock'
      /\ \A f \in DOMAIN frames : Placed(f)
  BY StepStands
<1>2. ASSUME NEW l \in DOMAIN Carried
      PROVE  clock' <= Carried[l].until
  <2>1. PICK x \in events : Carried[l].until = x.at
    BY <1>1, <1>2 DEF WiresTell
  <2>2. x.at \in Nat /\ clock <= x.at
    BY <1>1 DEF TypeOK, Event, EventsNotInPast
  <2>3. ASSUME clock' # clock
        PROVE  clock' <= x.at
    <3>1. PICK e \in events : IsNext(e) /\ clock' <= e.at
      BY <1>1, <2>3, ClockMovesToNext
    <3>2. e.at \in Nat /\ e.at <= x.at
      BY <1>1, <3>1, NextIsEarliest
    <3> QED
      BY <1>1, <2>2, <3>1, <3>2
  <2> QED
    BY <2>1, <2>2, <2>3
<1>3. ASSUME clock' > clock, NEW l \in Link \ DOMAIN Carried, NEW f \in DOMAIN Crossed,
             Network!WaitsFor(f, l)
      PROVE  NetworkOf(case).class[f[1]] # "best_effort"
  <2> SUFFICES ASSUME ClassOf(f) = "best_effort"
               PROVE  FALSE
    BY DEF NetworkOf, ClassOf, StreamOf
  <2>1. f \in DOMAIN frames /\ onWire[l] = None
    BY <1>1, <1>3 DEF Crossed, WiresTell
  <2>2. PICK n \in Stage : At(f, n)
    BY <1>1, <2>1 DEF Placed
  <2>3. n \notin {0, 3}
    BY <1>1, <1>3, <2>2, MovingStands DEF At
  <2>4. n = 1 /\ HopLink(f) = l
    BY <1>1, <1>3, <2>1, <2>2, <2>3, Waiters
  <2>5. PICK k \in Link, c \in TrafficClass : Holds(queue[k][c], f)
    BY <2>2, <2>4 DEF At, Queued
  <2>6. k = l /\ c = "best_effort"
    BY <1>1, <2>1, <2>4, <2>5 DEF Placed
  <2>7. queue[l]["best_effort"] # <<>>
    BY <2>5, <2>6 DEF Holds
  <2>8. "best_effort" \in Eligible(queue[l], credit[l])
    BY <2>7 DEF Eligible, TrafficClass, Shaped
  <2> QED
    BY <1>3, <2>1, <2>8, WorkConservingStep DEF FrameInv
<1> QED
  BY <1>1, <1>2, <1>3 DEF Network!TimePasses

-----------------------------------------------------------------------------
(* Every step is one of the network                                        *)

(* Frames that are the same to the network in all, are. *)
LEMMA SameFrames ==
  ASSUME DOMAIN frames' = DOMAIN frames,
         \A g \in DOMAIN frames : Crossed'[g] = Crossed[g] /\ Since'[g] = Since[g]
  PROVE  Crossed' = Crossed /\ Since' = Since
<1>1. /\ Crossed = [g \in DOMAIN frames |-> Crossed[g]]
      /\ Since = [g \in DOMAIN frames |-> Since[g]]
  BY DEF Crossed, Since
<1>2. /\ Crossed' = [g \in DOMAIN frames' |-> Crossed'[g]]
      /\ Since' = [g \in DOMAIN frames' |-> Since'[g]]
  BY DEF Crossed, Since
<1> QED
  BY <1>1, <1>2

(* A release sends a frame, a period after the one before. *)
LEMMA ReleaseSends ==
  ASSUME FrameInv, FrameInv', OrderInv, Next,
         NEW e \in events, NEW s \in Stream, HandleRelease(e, s)
  PROVE  Network!Send(s)
<1> PICK f : f = <<s, released[s]>>
  OBVIOUS
<1>1. /\ Running /\ TypeOK /\ TypeOK' /\ case' = case /\ MovesAreNow /\ WiresTell
      /\ clock <= clock'
  BY StepStands
<1>2. /\ f \notin DOMAIN frames /\ At(f, 0)'
      /\ \A g \in DOMAIN frames : SameFrame(g) /\ frames'[g] = frames[g]
      /\ DOMAIN frames' = DOMAIN frames \cup {f}
      /\ frames'[f].hop = 1
  BY ReleaseMoves
<1>3. clock' = released[s] * NetworkOf(case).period[s]
  <2>1. e.task = ReleaseFrame(s) /\ clock' = e.at
    BY DEF HandleRelease, Dispatch
  <2>2. ReleaseInTime(s)
    BY <1>1 DEF FrameInv, EngineInv
  <2> QED
    BY <2>1, <2>2 DEF ReleaseInTime, NetworkOf
<1>4. released' = [released EXCEPT ![s] = @ + 1]
  BY DEF HandleRelease
<1>5. Crossed'[f] = 0 /\ Since'[f] = clock'
  BY <1>1, <1>2, StagesTellNext DEF StageTells, Stage
<1>6. \A g \in DOMAIN frames : Crossed'[g] = Crossed[g] /\ Since'[g] = Since[g]
  BY <1>1, <1>2, SameToNetwork
<1>7. Carried' = Carried
  <2>1. LeavesPorts(e)
    BY FrameHandlersLeavePorts
  <2>2. onWire' = onWire /\ NoNewEnds
    BY <2>1 DEF LeavesPorts, portVars, Push, NoNewEnds
  <2>3. WiresTell'
    BY WiresAreToldNext, HandlersDispatch DEF HandleRelease, FrameInv, Dispatch, Pops, Running
  <2> QED
    BY <1>1, <2>2, <2>3, SameWires
<1>8. DOMAIN Crossed = DOMAIN frames /\ DOMAIN Since = DOMAIN frames
  BY DEF Crossed, Since
<1>9. Crossed' = [g \in DOMAIN Crossed \cup {f} |-> IF g = f THEN 0 ELSE Crossed[g]]
  <2>1. Crossed' = [g \in DOMAIN frames' |-> Crossed'[g]]
    BY DEF Crossed
  <2> QED
    BY <1>2, <1>5, <1>6, <1>8, <2>1
<1>10. Since' = [g \in DOMAIN Crossed \cup {f} |-> IF g = f THEN clock' ELSE Since[g]]
  <2>1. Since' = [g \in DOMAIN frames' |-> Since'[g]]
    BY DEF Since
  <2> QED
    BY <1>2, <1>5, <1>6, <1>8, <2>1
<1> QED
  BY <1>3, <1>4, <1>7, <1>9, <1>10 DEF Network!Send

(* A handler of the loop runs in it. *)
LEMMA LoopGoesOn ==
  ASSUME FrameInv', NEW e, Dispatch(e), UNCHANGED status
  PROVE  WiresTell'
<1>1. Running'
  BY DEF Dispatch, Pops, Running
<1> QED
  BY <1>1, WiresAreToldNext DEF FrameInv

(* What a step does to one frame is all that the network sees of frames. *)
LEMMA OneFrameMoves ==
  ASSUME FrameInv, FrameInv', OrderInv, Next,
         DOMAIN frames' = DOMAIN frames,
         NEW f \in DOMAIN frames, NEW m \in Stage, NEW n \in Stage, At(f, m), At(f, n)',
         \A g \in DOMAIN frames \ {f} :
           SameFrame(g) /\ frames'[g].enqueuedAt = frames[g].enqueuedAt
  PROVE  /\ Crossed[f] = IF m \in {3, 4} THEN frames[f].hop ELSE frames[f].hop - 1
         /\ Since[f] = IF m = 4 THEN frames[f].deliveredAt
                       ELSE IF m \in {0, 3} THEN clock ELSE frames[f].enqueuedAt
         /\ Crossed'[f] = IF n \in {3, 4} THEN frames'[f].hop ELSE frames'[f].hop - 1
         /\ Since'[f] = IF n = 4 THEN frames'[f].deliveredAt
                        ELSE IF n \in {0, 3} THEN clock' ELSE frames'[f].enqueuedAt
         /\ m \in {0, 3} => clock' = clock
         /\ \A g \in DOMAIN frames \ {f} : Crossed'[g] = Crossed[g] /\ Since'[g] = Since[g]
<1>1. /\ Running /\ TypeOK /\ TypeOK' /\ case' = case /\ MovesAreNow
      /\ clock <= clock'
  BY StepStands
<1>2. /\ Crossed[f] = IF m \in {3, 4} THEN frames[f].hop ELSE frames[f].hop - 1
      /\ Since[f] = IF m = 4 THEN frames[f].deliveredAt
                    ELSE IF m \in {0, 3} THEN clock ELSE frames[f].enqueuedAt
  BY <1>1, StagesTell DEF StageTells
<1>3. /\ Crossed'[f] = IF n \in {3, 4} THEN frames'[f].hop ELSE frames'[f].hop - 1
      /\ Since'[f] = IF n = 4 THEN frames'[f].deliveredAt
                     ELSE IF n \in {0, 3} THEN clock' ELSE frames'[f].enqueuedAt
  BY <1>1, StagesTellNext DEF StageTells
<1>4. m \in {0, 3} => clock' = clock
  BY <1>1, MovingStands DEF At
<1>5. \A g \in DOMAIN frames \ {f} : Crossed'[g] = Crossed[g] /\ Since'[g] = Since[g]
  BY <1>1, SameToNetwork
<1> QED
  BY <1>2, <1>3, <1>4, <1>5

(* A frame that joins its queue came where it is at that time. *)
LEMMA EnqueueIsWait ==
  ASSUME FrameInv, FrameInv', OrderInv, Next,
         NEW e \in events, NEW f \in DOMAIN frames, NEW l \in Link, HandleEnqueue(e, f, l)
  PROVE  Network!Wait
<1>1. /\ Running /\ TypeOK /\ WiresTell
  BY StepStands
<1>2. /\ At(f, 0) /\ At(f, 1)' /\ DOMAIN frames' = DOMAIN frames
      /\ \A g \in DOMAIN frames \ {f} : SameFrame(g)
      /\ \A g \in DOMAIN frames : frames'[g].hop = frames[g].hop
  BY EnqueueMoves DEF Moved
<1>3. /\ Dispatch(e) /\ frames' = [frames EXCEPT ![f].enqueuedAt = clock']
      /\ onWire' = onWire /\ UNCHANGED status /\ released' = released
      /\ ScheduleNextTransmission(e, l, SyncedCredit(l, WireClass(l)), startAt, wakeAt, {})
  BY DEF HandleEnqueue, streamVars
<1>4. frames'[f].enqueuedAt = clock'
  <2>1. frames[f] \in FrameState
    BY <1>1, FrameFacts
  <2> QED
    BY <1>3, <2>1 DEF FrameState
<1>5. \A g \in DOMAIN frames \ {f} : frames'[g].enqueuedAt = frames[g].enqueuedAt
  BY <1>3
<1>6. /\ Crossed[f] = frames[f].hop - 1 /\ Since[f] = clock
      /\ Crossed'[f] = frames'[f].hop - 1 /\ Since'[f] = frames'[f].enqueuedAt
      /\ clock' = clock
      /\ \A g \in DOMAIN frames \ {f} : Crossed'[g] = Crossed[g] /\ Since'[g] = Since[g]
  BY <1>2, <1>5, OneFrameMoves DEF Stage
<1>7. Crossed' = Crossed /\ Since' = Since
  <2>1. Crossed'[f] = Crossed[f] /\ Since'[f] = Since[f]
    BY <1>2, <1>4, <1>6
  <2> QED
    BY <1>2, <1>6, <2>1, SameFrames
<1>8. Carried' = Carried
  BY <1>1, <1>3, LoopGoesOn, SchedulerEndsNothing, SameWires
<1> QED
  BY <1>3, <1>7, <1>8 DEF Network!Wait

(* A frame that is forwarded or delivered has crossed its link before. *)
LEMMA MovingOnIsWait ==
  ASSUME FrameInv, FrameInv', OrderInv, Next,
         NEW e \in events, NEW f \in DOMAIN frames, HandleForward(e, f) \/ HandleDelivery(e, f)
  PROVE  Network!Wait
<1>1. /\ Running /\ TypeOK /\ WiresTell /\ frames[f].hop \in Nat
  <2>1. Running /\ TypeOK /\ WiresTell /\ Placed(f)
    BY StepStands
  <2> QED
    BY <2>1, PlacedFacts
<1>2. frames[f] \in FrameState
  BY <1>1, FrameFacts
<1>3. LeavesPorts(e) /\ UNCHANGED status /\ released' = released
  BY FrameHandlersLeavePorts DEF HandleForward, HandleDelivery, streamVars
<1>4. Dispatch(e) /\ onWire' = onWire /\ NoNewEnds
  BY <1>3 DEF LeavesPorts, portVars, Push, NoNewEnds
<1>5. Carried' = Carried
  BY <1>1, <1>3, <1>4, LoopGoesOn, SameWires
<1>6. CASE HandleForward(e, f)
  <2>1. /\ At(f, 3) /\ At(f, 0)' /\ DOMAIN frames' = DOMAIN frames
        /\ \A g \in DOMAIN frames \ {f} : SameFrame(g)
        /\ frames'[f].hop = frames[f].hop + 1
    BY <1>6, ForwardMoves
  <2>2. \A g \in DOMAIN frames \ {f} : frames'[g].enqueuedAt = frames[g].enqueuedAt
    BY <1>6 DEF HandleForward
  <2>3. /\ Crossed[f] = frames[f].hop /\ Since[f] = clock
        /\ Crossed'[f] = frames'[f].hop - 1 /\ Since'[f] = clock'
        /\ clock' = clock
        /\ \A g \in DOMAIN frames \ {f} : Crossed'[g] = Crossed[g] /\ Since'[g] = Since[g]
    BY <2>1, <2>2, OneFrameMoves DEF Stage
  <2>4. Crossed'[f] = Crossed[f] /\ Since'[f] = Since[f]
    BY <1>1, <2>1, <2>3
  <2>5. Crossed' = Crossed /\ Since' = Since
    BY <2>1, <2>3, <2>4, SameFrames
  <2> QED
    BY <1>3, <1>5, <2>5 DEF Network!Wait
<1>7. CASE HandleDelivery(e, f)
  <2>1. /\ At(f, 3) /\ At(f, 4)' /\ DOMAIN frames' = DOMAIN frames
        /\ \A g \in DOMAIN frames \ {f} : SameFrame(g)
        /\ frames'[f].hop = frames[f].hop
    BY <1>7, DeliveryMoves DEF Moved
  <2>2. /\ \A g \in DOMAIN frames \ {f} : frames'[g].enqueuedAt = frames[g].enqueuedAt
        /\ frames'[f].deliveredAt = clock'
    BY <1>2, <1>7 DEF HandleDelivery, FrameState
  <2>3. /\ Crossed[f] = frames[f].hop /\ Since[f] = clock
        /\ Crossed'[f] = frames'[f].hop /\ Since'[f] = frames'[f].deliveredAt
        /\ clock' = clock
        /\ \A g \in DOMAIN frames \ {f} : Crossed'[g] = Crossed[g] /\ Since'[g] = Since[g]
    BY <2>1, <2>2, OneFrameMoves DEF Stage
  <2>4. Crossed'[f] = Crossed[f] /\ Since'[f] = Since[f]
    BY <2>1, <2>2, <2>3
  <2>5. Crossed' = Crossed /\ Since' = Since
    BY <2>1, <2>3, <2>4, SameFrames
  <2> QED
    BY <1>3, <1>5, <2>5 DEF Network!Wait
<1> QED
  BY <1>6, <1>7

(* A credit update is nothing to the network. *)
LEMMA CreditUpdateIsWait ==
  ASSUME FrameInv, FrameInv', OrderInv, Next,
         NEW e \in events, NEW l \in Link, NEW c \in Shaped, HandleCreditUpdate(e, l, c)
  PROVE  Network!Wait
<1>1. /\ Running /\ TypeOK /\ TypeOK' /\ case' = case /\ MovesAreNow /\ WiresTell
      /\ clock <= clock'
  BY StepStands
<1>2. (\A g \in DOMAIN frames : SameFrame(g)) /\ frames' = frames
  BY CreditUpdateMovesNothing
<1>3. \A g \in DOMAIN frames : Crossed'[g] = Crossed[g] /\ Since'[g] = Since[g]
  BY <1>1, <1>2, SameToNetwork
<1>4. Crossed' = Crossed /\ Since' = Since
  BY <1>2, <1>3, SameFrames
<1>5. /\ Dispatch(e) /\ onWire' = onWire /\ UNCHANGED status /\ released' = released
      /\ \E wakes : ScheduleNextTransmission(e, l, SyncedCredit(l, WireClass(l)),
                                             startAt, wakes, {})
  BY DEF HandleCreditUpdate, streamVars
<1>6. Carried' = Carried
  BY <1>1, <1>5, LoopGoesOn, SchedulerEndsNothing, SameWires
<1> QED
  BY <1>4, <1>5, <1>6 DEF Network!Wait

(* A start puts on a free link a frame that waits for it, and none that     *)
(* goes before.                                                            *)
LEMMA StartIsTransmit ==
  ASSUME FrameInv, FrameInv', OrderInv, TurnInv, Next,
         NEW e \in events, NEW l \in Link, HandleStart(e, l)
  PROVE  \E f \in DOMAIN Crossed : Network!Transmit(f, l)
<1> PICK c \in TrafficClass, f \in Frame : Transmits(e, l, c, f)
  BY StartChooses
<1>1. /\ Running /\ TypeOK /\ case' = case /\ WiresTell
      /\ PortInv(l) /\ \A g \in DOMAIN frames : Placed(g)
  BY StepStands
<1>2. /\ Dispatch(e) /\ e.task = TransmissionStart(l) /\ f = Head(queue[l][c])
      /\ queue[l][c] # <<>> /\ frames' = frames /\ released' = released
      /\ onWire' = [onWire EXCEPT ![l] = f]
  BY DEF Transmits, IsCandidate, Eligible, streamVars
<1>3. /\ f \in DOMAIN frames /\ At(f, 1) /\ At(f, 2)' /\ Holds(queue[l][c], f)
      /\ \A g \in DOMAIN frames \ {f} : SameFrame(g)
  BY StartMoves DEF Moved
<1>4. /\ onWire[l] = None /\ onWire'[l] = f
      /\ \A x \in events' : IsEnd(x, l) => x.at = clock' + Airtime(StreamOf(f), l)
      /\ \A x \in events', k \in Link \ {l} : IsEnd(x, k) => x \in events
  BY StartFacts
<1>5. clock' = clock
  <2>1. startAt[l] # None
    <3>1. e.at = startAt[l] /\ e.at \in Nat
      BY <1>1, <1>2 DEF PortInv, PortMatchesEvents, Marks, TypeOK, Event
    <3> QED
      BY <3>1, NoneAssumption
  <2> QED
    BY <1>1, <1>2, <2>1, TimeStands DEF PortInv
<1>6. l \notin DOMAIN Carried
  BY <1>1, <1>4 DEF WiresTell
<1>7. Network!WaitsFor(f, l)
  <2>1. HopLink(f) = l
    BY <1>1, <1>3 DEF Placed
  <2> QED
    BY <1>1, <1>3, <2>1, QueuedWaits
<1>8. DOMAIN Crossed = DOMAIN frames /\ DOMAIN Since = DOMAIN frames
  BY DEF Crossed, Since
<1>9. \A g \in DOMAIN Crossed \ {f} : Network!WaitsFor(g, l) => Network!GoesBefore(f, g)
  BY <1>1, <1>2, <1>3, <1>8, HeadGoesBefore
<1>10. Crossed' = Crossed /\ Since' = Since
  <2>1. /\ Crossed[f] = frames[f].hop - 1 /\ Since[f] = frames[f].enqueuedAt
        /\ Crossed'[f] = frames'[f].hop - 1 /\ Since'[f] = frames'[f].enqueuedAt
        /\ \A g \in DOMAIN frames \ {f} : Crossed'[g] = Crossed[g] /\ Since'[g] = Since[g]
    BY <1>2, <1>3, OneFrameMoves DEF Stage
  <2> QED
    BY <1>2, <2>1, SameFrames
<1>11. WiresTell'
  <2>1. UNCHANGED status
    BY DEF HandleStart
  <2> QED
    BY <1>2, <2>1, LoopGoesOn
<1>12. f # None /\ onWire \in [Link -> Frame \cup {None}]
  BY <1>1, NoneAssumption DEF TypeOK, Frame
<1>13. Carried' = [k \in DOMAIN Carried \cup {l} |->
                    IF k = l THEN [frame |-> f,
                                   until |-> clock + NetworkOf(case).airtime[f[1]][l]]
                    ELSE Carried[k]]
  <2>1. Carried'[l] = [frame |-> f, until |-> clock' + Airtime(StreamOf(f), l)]
    <3>1. PICK x \in events' :
            IsEnd(x, l) /\ Carried'[l] = [frame |-> onWire'[l], until |-> x.at]
      BY <1>4, <1>11, <1>12 DEF WiresTell, IsEnd
    <3> QED
      BY <1>4, <3>1
  <2>2. Airtime(StreamOf(f), l) = NetworkOf(case).airtime[f[1]][l]
    <3>1. StreamOf(f) \in Stream
      BY DEF Frame, StreamOf
    <3> QED
      BY <3>1 DEF Airtime, NetworkOf, StreamOf
  <2>3. \A k \in Link \ {l} : onWire'[k] = onWire[k]
    BY <1>2, <1>12
  <2>4. \A k \in DOMAIN Carried : Carried'[k] = Carried[k]
    <3> SUFFICES ASSUME NEW k \in DOMAIN Carried
                 PROVE  Carried'[k] = Carried[k]
      OBVIOUS
    <3>1. k \in Link \ {l} /\ onWire[k] # None
      BY <1>1, <1>6 DEF WiresTell
    <3>2. \A x \in events' : IsEnd(x, k) => x \in events
      BY <1>4, <3>1
    <3> QED
      BY <1>1, <1>11, <2>3, <3>1, <3>2, SameWire
  <2>5. DOMAIN Carried' = DOMAIN Carried \cup {l}
    <3>1. DOMAIN Carried' = {k \in Link : onWire'[k] # None}
      BY <1>11 DEF WiresTell
    <3>2. DOMAIN Carried = {k \in Link : onWire[k] # None}
      BY <1>1 DEF WiresTell
    <3> QED
      BY <1>4, <1>12, <2>3, <3>1, <3>2
  <2>6. Carried' = [k \in DOMAIN Carried' |-> Carried'[k]]
    BY DEF Carried
  <2> QED
    BY <1>5, <1>6, <2>1, <2>2, <2>4, <2>5, <2>6
<1>14. Network!Transmit(f, l)
  BY <1>2, <1>5, <1>6, <1>7, <1>9, <1>10, <1>13 DEF Network!Transmit
<1> QED
  BY <1>3, <1>8, <1>14

(* An end takes its frame across the link, when the frame has taken its     *)
(* time.                                                                   *)
LEMMA EndCrosses ==
  ASSUME FrameInv, FrameInv', OrderInv, Next,
         NEW e \in events, NEW f \in DOMAIN frames, NEW l \in Link, HandleEnd(e, l, f)
  PROVE  Network!Cross(f, l)
<1>1. /\ Running /\ TypeOK /\ WiresTell
  BY StepStands
<1>2. /\ At(f, 2) /\ At(f, 3)' /\ frames' = frames /\ onWire[l] = f
      /\ \A g \in DOMAIN frames \ {f} : SameFrame(g)
  BY EndMoves DEF Moved
<1>3. /\ Dispatch(e) /\ e.task = TransmissionEnd(l, f) /\ clock' = e.at
      /\ onWire' = [onWire EXCEPT ![l] = None]
      /\ UNCHANGED status /\ released' = released
  BY DEF HandleEnd, streamVars, Dispatch
<1>4. f # None /\ onWire \in [Link -> Frame \cup {None}] /\ frames[f].hop \in Nat
  <2>1. f \in Frame
    BY <1>1, FrameFacts
  <2>2. Placed(f)
    BY StepStands
  <2> QED
    BY <1>1, <2>1, <2>2, NoneAssumption, PlacedFacts DEF TypeOK, Frame
<1>5. WiresTell' /\ NoNewEnds
  BY <1>3, LoopGoesOn, EndPushesNoEnd
<1>6. /\ l \in DOMAIN Carried /\ Carried[l].frame = f /\ clock' = Carried[l].until
  <2>1. IsEnd(e, l)
    BY <1>3, TaskFields DEF IsEnd
  <2> QED
    BY <1>1, <1>2, <1>3, <1>4, <2>1 DEF WiresTell
<1>7. /\ Crossed[f] = frames[f].hop - 1
      /\ Crossed'[f] = frames'[f].hop /\ Since'[f] = clock'
      /\ \A g \in DOMAIN frames \ {f} : Crossed'[g] = Crossed[g] /\ Since'[g] = Since[g]
  BY <1>2, OneFrameMoves DEF Stage
<1>8. Crossed'[f] = Crossed[f] + 1
  BY <1>2, <1>4, <1>7
<1>9. Crossed' = [Crossed EXCEPT ![f] = @ + 1]
  <2>1. Crossed' = [g \in DOMAIN frames |-> Crossed'[g]] /\ DOMAIN Crossed = DOMAIN frames
    BY <1>2 DEF Crossed
  <2> QED
    BY <1>7, <1>8, <2>1
<1>10. Since' = [Since EXCEPT ![f] = clock']
  <2>1. Since' = [g \in DOMAIN frames |-> Since'[g]] /\ DOMAIN Since = DOMAIN frames
    BY <1>2 DEF Since
  <2> QED
    BY <1>7, <2>1
<1>11. Carried' = [k \in DOMAIN Carried \ {l} |-> Carried[k]]
  <2>1. onWire'[l] = None /\ \A k \in Link \ {l} : onWire'[k] = onWire[k]
    BY <1>3, <1>4
  <2>2. \A k \in DOMAIN Carried \ {l} : Carried'[k] = Carried[k]
    <3> SUFFICES ASSUME NEW k \in DOMAIN Carried \ {l}
                 PROVE  Carried'[k] = Carried[k]
      OBVIOUS
    <3>1. k \in Link \ {l} /\ onWire[k] # None
      BY <1>1 DEF WiresTell
    <3> QED
      BY <1>1, <1>5, <2>1, <3>1, SameWire DEF NoNewEnds, IsEnd
  <2>3. DOMAIN Carried' = DOMAIN Carried \ {l}
    <3>1. DOMAIN Carried' = {k \in Link : onWire'[k] # None}
      BY <1>5 DEF WiresTell
    <3>2. DOMAIN Carried = {k \in Link : onWire[k] # None}
      BY <1>1 DEF WiresTell
    <3> QED
      BY <2>1, <3>1, <3>2
  <2>4. Carried' = [k \in DOMAIN Carried' |-> Carried'[k]]
    BY DEF Carried
  <2> QED
    BY <2>2, <2>3, <2>4
<1> QED
  BY <1>3, <1>6, <1>9, <1>10, <1>11 DEF Network!Cross

(* The steps that leave the loop are nothing to the network. *)
LEMMA LeavingIsWait ==
  ASSUME FrameInv, FrameInv', OrderInv, Next, ~Running'
  PROVE  Network!Wait
<1>1. /\ Running /\ TypeOK /\ TypeOK' /\ case' = case /\ MovesAreNow /\ clock <= clock'
  BY StepStands
<1>2. UNCHANGED <<frames, released, queue, onWire>>
  BY LeavingKeepsFrames DEF streamVars
<1>3. \A x : x.task.kind \in MoveKind \cup {"TRANSMISSION_END"} => (x \in events' <=> x \in events)
  <2>1. ASSUME NEW e \in events, HandleFinalize(e)
        PROVE  events' = events \ {e} /\ e.task.kind = "FINALIZE_RUN"
    BY <2>1, TaskFields DEF HandleFinalize, Push
  <2>2. ASSUME NEW e \in events, Raise(e)
        PROVE  events' = events \ {e} /\ e.task.kind = "RELEASE_FRAME"
    BY <2>2, OnlyReleasesRaise DEF Raise, Push
  <2>3. ASSUME (\E e \in events : StopBefore(e)) \/ RunDry \/ Stop
        PROVE  events' = events
    BY <2>3 DEF StopBefore, RunDry, Stop
  <2> QED
    BY <2>1, <2>2, <2>3, LeavingSteps DEF MoveKind
<1>4. \A g \in DOMAIN frames : SameFrame(g)
  BY <1>2, <1>3 DEF SameFrame, Moves
<1>5. \A g \in DOMAIN frames : Crossed'[g] = Crossed[g] /\ Since'[g] = Since[g]
  BY <1>1, <1>2, <1>4, SameToNetwork
<1>6. Crossed' = Crossed /\ Since' = Since
  BY <1>2, <1>5, SameFrames
<1>7. Carried' = Carried
  BY <1>1, <1>2, <1>3, LeavingSameWires DEF FrameInv
<1> QED
  BY <1>2, <1>6, <1>7 DEF Network!Wait

(* Every step of the loop is a step of the network. *)
LEMMA NetworkStep ==
  ASSUME FrameInv, FrameInv', OrderInv, TurnInv, NoLostWakeup, Next
  PROVE  Network!Next
<1>1. case' = case
  BY StepStands
<1>2. Network!TimePasses /\ NetworkOf(case)' = NetworkOf(case)
  BY <1>1, TimePasses DEF NetworkOf
<1>3. DOMAIN Crossed = DOMAIN frames
  BY DEF Crossed
<1>4. ASSUME NEW e \in events, NEW s \in Stream, HandleRelease(e, s)
      PROVE  Network!Send(s)
  BY <1>4, ReleaseSends
<1>5. ASSUME NEW e \in events, NEW f \in DOMAIN frames, NEW l \in Link, HandleEnqueue(e, f, l)
      PROVE  Network!Wait
  BY <1>5, EnqueueIsWait
<1>6. ASSUME NEW e \in events, NEW l \in Link, HandleStart(e, l)
      PROVE  \E f \in DOMAIN Crossed : Network!Transmit(f, l)
  BY <1>6, StartIsTransmit
<1>7. ASSUME NEW e \in events, NEW f \in DOMAIN frames, NEW l \in Link, HandleEnd(e, l, f)
      PROVE  f \in DOMAIN Crossed /\ Network!Cross(f, l)
  BY <1>3, <1>7, EndCrosses
<1>8. ASSUME NEW e \in events, NEW f \in DOMAIN frames, HandleForward(e, f) \/ HandleDelivery(e, f)
      PROVE  Network!Wait
  BY <1>8, MovingOnIsWait
<1>9. ASSUME NEW e \in events, NEW l \in Link, NEW c \in Shaped, HandleCreditUpdate(e, l, c)
      PROVE  Network!Wait
  BY <1>9, CreditUpdateIsWait
<1>10. ASSUME (\E e \in events : HandleFinalize(e) \/ StopBefore(e) \/ Raise(e)) \/ RunDry \/ Stop
       PROVE  Network!Wait
  <2>1. ~Running'
    BY <1>10 DEF HandleFinalize, StopBefore, Raise, RunDry, Stop, LeaveLoop, Running
  <2> QED
    BY <2>1, LeavingIsWait
<1>11. \/ \E s \in Stream : Network!Send(s)
       \/ \E f \in DOMAIN Crossed, l \in Link : Network!Transmit(f, l) \/ Network!Cross(f, l)
       \/ Network!Wait
  BY <1>4, <1>5, <1>6, <1>7, <1>8, <1>9, <1>10 DEF Next
<1> QED
  BY <1>2, <1>11 DEF Network!Next

(* The loop begins with a network that has sent nothing. *)
LEMMA NetworkInit == Init => Network!Init
<1> SUFFICES ASSUME Init
             PROVE  Network!Init
  OBVIOUS
<1>1. DOMAIN frames = {} /\ {l \in Link : onWire[l] # None} = {}
  BY DEF Init
<1>2. /\ Crossed = [f \in {} |-> 0]
      /\ Since = [f \in {} |-> 0]
      /\ Carried = [l \in {} |-> 0]
  BY <1>1 DEF Crossed, Since, Carried
<1>3. NetworkOf(case) \in {NetworkOf(k) : k \in Cases}
  BY DEF Init
<1> QED
  BY <1>2, <1>3 DEF Init, Network!Init

(* A frame a period is sent, it crosses its links one by one, whole, alone *)
(* on the link and in turn: whatever the case, the simulator is the        *)
(* store-and-forward network of that case.                                 *)
THEOREM SimulatorForwardsFrames == Spec => ForwardsFrames
<1>1. OrderInv /\ FrameInv /\ FrameInv' /\ [Next]_vars => OrderInv'
  BY OrderStep
<1>2. TurnInv /\ FrameInv /\ FrameInv' /\ [Next]_vars => TurnInv'
  <2>1. ASSUME TurnInv, UNCHANGED vars
        PROVE  TurnInv'
    BY <2>1 DEF TurnInv, InTurn, vars, portVars, Running
  <2> QED
    BY <2>1, TurnStep
<1>3. Init => TurnInv
  BY DEF Init, TurnInv, InTurn
<1>4. FrameInv /\ FrameInv' /\ OrderInv /\ TurnInv /\ NoLostWakeup /\ [Next]_vars =>
        [Network!Next]_(Network!vars)
  <2>1. ASSUME UNCHANGED vars
        PROVE  UNCHANGED Network!vars
    BY <2>1 DEF vars, portVars, streamVars, Network!vars, NetworkOf, Crossed, Since, Carried,
                EndOf, Pending, MovesOf, ForwardFrame, DeliveryComplete, EnqueueFrame,
                TransmissionEnd
  <2> QED
    BY <2>1, NetworkStep
<1> QED
  BY <1>1, <1>2, <1>3, <1>4, NetworkInit, OrderInit, FramesAreConsistent, NoWakeupIsLost,
     PTL DEF Spec, ForwardsFrames, Network!Spec
=============================================================================
