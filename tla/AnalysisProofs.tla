---------------------------- MODULE AnalysisProofs ----------------------------
(***************************************************************************)
(* The analysis against the simulator: the bound that the formulas give a  *)
(* stream holds for its first frame, hop by hop, when it shares its class  *)
(* with nobody on its links.                                               *)
(***************************************************************************)
EXTENDS AnalysisProperties, SimulatorServiceProofs

-----------------------------------------------------------------------------
(* The invariant                                                           *)

(* A shaped stream that shares its class with nobody on its links. *)
Solo(s) == case.class[s] \in Shaped /\ AloneInClass(s)

(* The bounds of the links of a route, and what they allow stream s for its *)
(* first h hops.                                                           *)
Bounds(k, s) ==
  [i \in DOMAIN k.route[s] |-> LinkBound(k, k.period, s, k.route[s][i])]
Allowed(k, s, h) == MapThenSumSet(LAMBDA i : Bounds(k, s)[i], 1..h)

Meets(t, s, h) == t * Scale(case) <= Allowed(case, s, h)

Low(s, l)  == LowerPriority(case, s, l)
High(s, l) == HigherPriority(case, s, l)

(* How long frame f will have waited in its queue at time t. *)
Waited(f, t) == (t - frames[f].enqueuedAt) * Scale(case)

(* The wire of l is free for class A, or class A has it.                   *)
BurstOn(l) == WireClass(l) \in {NoClass, "class_a"}

(* Frame f, queued on port l, waits no longer than one lower frame takes   *)
(* and what class A may send on its credit.                                *)
Waits(f, l) ==
  LET s == StreamOf(f)
      slope == case.slopes["class_a"]
  IN /\ frames[f].enqueuedAt \in Nat
     /\ onWire[l] = None => Waited(f, clock) <= Low(s, l) + High(s, l)
     /\ \A x \in events : IsEnd(x, l) =>
          /\ Waited(f, x.at) <= Low(s, l) + High(s, l)
          /\ ~BurstOn(l) => Waited(f, x.at) <= Low(s, l)
     /\ case.class[s] = "class_b" /\ BurstOn(l) =>
          slope.send * (Waited(f, syncedAt[l]) - Low(s, l))
            + Scale(case) * credit[l]["class_a"] <= slope.idle * Low(s, l)

(* Frame f, the first of its stream, is at each stage of each hop no later *)
(* than the analysis allows.                                               *)
OnTime(f) ==
  LET s == StreamOf(f)
      hop == frames[f].hop
  IN /\ Running =>
          /\ \A x \in events : x.task.kind = "ENQUEUE_FRAME" /\ x.task.frame = f =>
               Meets(x.at, s, hop - 1)
          /\ \A l \in Link : Holds(queue[l][ClassOf(f)], f) =>
               Meets(frames[f].enqueuedAt, s, hop - 1) /\ Waits(f, l)
          /\ \A l \in Link, x \in events : onWire[l] = f /\ IsEnd(x, l) =>
               Meets(x.at, s, hop)
          /\ \A x \in events :
               x.task.kind \in {"FORWARD_FRAME", "DELIVERY_COMPLETE"} /\ x.task.frame = f =>
                 Meets(x.at, s, hop)
     /\ frames[f].deliveredAt # None =>
          Meets(frames[f].deliveredAt, s, Len(case.route[s]))

FirstInv == \A f \in DOMAIN frames : f[2] = 0 /\ Solo(StreamOf(f)) => OnTime(f)

(* A class that owes credit has sent.                                      *)
SpentInv ==
  Running => \A l \in Link, c \in Shaped :
    credit[l][c] < 0 => WireClass(l) = c \/ AirtimeUsed(l, c) > 0

-----------------------------------------------------------------------------
(* The formulas of one link                                                *)

(* The units of the analysis divide a unit of time.                        *)
LEMMA ScaleFacts ==
  ASSUME TypeOK
  PROVE  /\ Scale(case) \in Nat \ {0}
         /\ \E n \in Nat : Scale(case) = n * case.slopes["class_a"].send
<1> PICK a, b, c : /\ a = case.slopes["class_a"].idle /\ b = case.slopes["class_b"].idle
                   /\ c = case.slopes["class_a"].send
  OBVIOUS
<1>1. a \in Nat \ {0} /\ b \in Nat \ {0} /\ c \in Nat \ {0}
  BY SlopeFacts DEF Shaped
<1>2. Scale(case) = a * b * c
  BY DEF Scale
<1>3. a * b \in Nat \ {0}
  BY <1>1
<1> PICK n : n = a * b
  OBVIOUS
<1>4. n * c \in Nat \ {0}
  BY <1>1, <1>3
<1> QED
  BY <1>2, <1>3, <1>4

(* The longest of some streams on a link, in the units of the analysis.    *)
LEMMA LongestIs ==
  ASSUME TypeOK, NEW l \in Link, NEW T \in SUBSET Stream
  PROVE  \E a \in Nat : /\ Longest(case, T, l) = a * Scale(case)
                        /\ a = 0 \/ \E t \in T : a = Airtime(t, l)
                        /\ \A t \in T : Airtime(t, l) \in Nat /\ Airtime(t, l) <= a
<1> PICK K : K = Scale(case)
  OBVIOUS
<1>1. K \in Nat \ {0}
  BY ScaleFacts
<1>2. PICK a \in Nat : /\ a = 0 \/ \E t \in T : a = Airtime(t, l)
                       /\ \A t \in T : Airtime(t, l) \in Nat /\ Airtime(t, l) <= a
  BY GreatestAirtime
<1> DEFINE times == {0} \cup {TransmissionTime(case, t, l) : t \in T}
<1>3. \A t \in T : TransmissionTime(case, t, l) = Airtime(t, l) * K
  BY DEF TransmissionTime, Airtime
<1>4. ASSUME NEW t \in T
      PROVE  Airtime(t, l) * K \in Nat /\ Airtime(t, l) * K <= a * K
  <2> PICK b : b = Airtime(t, l)
    OBVIOUS
  <2>1. b \in Nat /\ b <= a
    BY <1>2
  <2>2. b * K \in Nat /\ K * b <= K * a /\ K * b = b * K /\ K * a = a * K
    BY <1>1, <2>1, ProductMonotone
  <2> QED
    BY <2>2
<1>5. a * K \in Nat
  BY <1>1
<1>6. times \subseteq Nat /\ a * K \in times /\ \A x \in times : x <= a * K
  <2>1. a * K \in times
    <3>1. CASE a = 0
      BY <1>1, <3>1
    <3>2. CASE \E t \in T : a = Airtime(t, l)
      BY <1>3, <3>2
    <3> QED
      BY <1>2, <3>1, <3>2
  <2> QED
    BY <1>3, <1>4, <1>5, <2>1
<1>7. Longest(case, T, l) = a * K
  <2>1. Longest(case, T, l) = Max(times)
    BY DEF Longest
  <2> HIDE DEF times
  <2> QED
    BY <1>6, <2>1, GreatestIsMax
<1> QED
  BY <1>2, <1>7

(* Serialization takes time. *)
LEMMA AirtimePositive ==
  ASSUME TypeOK, NEW s \in Stream, NEW l \in Link
  PROVE  Airtime(s, l) \in Nat \ {0}
<1>1. case.size \in [Stream -> Nat \ {0}] /\ case.pace \in [Link -> Nat \ {0}]
  BY CaseFacts DEF TypeOK
<1> PICK a, b : a = case.size[s] /\ b = case.pace[l]
  OBVIOUS
<1>2. a \in Nat \ {0} /\ b \in Nat \ {0}
  BY <1>1
<1>3. a * b \in Nat \ {0}
  BY <1>2
<1> QED
  BY <1>3 DEF Airtime

(* A quotient that is whole.                                               *)
LEMMA WholeQuotient ==
  ASSUME NEW q \in Nat, NEW n \in Nat \ {0}
  PROVE  (q * n) \div n = q
OBVIOUS

(* Priorities tell the classes apart.                                      *)
LEMMA PriorityFacts ==
  ASSUME NEW c \in TrafficClass, NEW d \in TrafficClass
  PROVE  /\ Priority[c] \in Nat
         /\ Priority[c] = Priority[d] <=> c = d
         /\ c \in Shaped /\ Priority[d] > Priority[c] => c = "class_b" /\ d = "class_a"
         /\ c \in Shaped => Priority["best_effort"] < Priority[c]
BY DEF Priority, TrafficClass, Shaped

(* Stream t crosses link l beside stream s.                                *)
LEMMA OthersAre ==
  ASSUME TypeOK, NEW s, NEW l
  PROVE  /\ Others(case, s, l) = {t \in Stream \ {s} : Crosses(t, l)}
         /\ Others(case, s, l) \in SUBSET Stream
<1>1. case.class \in [Stream -> TrafficClass] /\ case.route \in [Stream -> Seq(Link)]
  BY CaseFacts DEF TypeOK
<1>2. \A t \in Stream : DOMAIN case.route[t] = 1..Len(case.route[t])
  BY <1>1
<1>3. \A t \in Stream : Contains(case.route[t], l) <=> Crosses(t, l)
  BY <1>2 DEF Contains, Crosses
<1> QED
  BY <1>1, <1>3 DEF Others

(* A class waits for one of the lower frames, the longest at most.         *)
LEMMA LowIs ==
  ASSUME TypeOK, NEW s \in Stream, case.class[s] \in Shaped, NEW l \in Link
  PROVE  \E a \in Nat :
           /\ Low(s, l) = a * Scale(case)
           /\ \A t \in Stream :
                Crosses(t, l) /\ Priority[case.class[t]] < Priority[case.class[s]] =>
                  Airtime(t, l) \in Nat /\ Airtime(t, l) <= a
           /\ LongestAirtime(l, "best_effort") <= a
<1> DEFINE T == BelowOn(case, s, l)
<1>1. /\ T \in SUBSET Stream
      /\ \A t \in Stream :
           Crosses(t, l) /\ Priority[case.class[t]] < Priority[case.class[s]] => t \in T
  <2>1. ASSUME NEW t \in Stream, Priority[case.class[t]] < Priority[case.class[s]]
        PROVE  t # s
    <3>1. Priority[case.class[s]] \in Nat
      BY PriorityFacts DEF Shaped, TrafficClass
    <3> QED
      BY <2>1, <3>1
  <2> QED
    BY <2>1, OthersAre DEF BelowOn
<1>2. Low(s, l) = Longest(case, T, l)
  BY DEF Low, LowerPriority
<1> HIDE DEF T
<1>3. PICK a \in Nat : /\ Longest(case, T, l) = a * Scale(case)
                       /\ \A t \in T : Airtime(t, l) \in Nat /\ Airtime(t, l) <= a
  BY <1>1, LongestIs
<1>4. LongestAirtime(l, "best_effort") <= a
  <2>1. "best_effort" \in TrafficClass
    BY DEF TrafficClass
  <2>2. CASE LongestAirtime(l, "best_effort") = 0
    BY <2>2
  <2>3. ASSUME NEW t \in Stream, case.class[t] = "best_effort", Crosses(t, l),
               LongestAirtime(l, "best_effort") = Airtime(t, l)
        PROVE  LongestAirtime(l, "best_effort") <= a
    <3>1. case.class[s] \in TrafficClass
      BY DEF Shaped, TrafficClass
    <3>2. Priority[case.class[t]] < Priority[case.class[s]]
      BY <2>1, <2>3, <3>1, PriorityFacts
    <3> QED
      BY <1>1, <1>3, <2>3, <3>2
  <2> QED
    BY <2>1, <2>2, <2>3, LongestAirtimeFacts
<1> QED
  BY <1>1, <1>2, <1>3, <1>4

(* Class B waits for one frame of class A and for what class A sends on    *)
(* the credit that one lower frame earns it.                               *)
LEMMA HighIs ==
  ASSUME TypeOK, NEW s \in Stream, case.class[s] \in Shaped, NEW l \in Link
  PROVE  /\ High(s, l) \in Nat
         /\ \A t \in Stream :
              Crosses(t, l) /\ Priority[case.class[t]] > Priority[case.class[s]] =>
                /\ case.class[t] = "class_a" /\ case.class[s] = "class_b"
                /\ \E q \in Nat :
                     /\ Airtime(t, l) * Scale(case) + q <= High(s, l)
                     /\ case.slopes["class_a"].send * q
                          = case.slopes["class_a"].idle * Low(s, l)
<1> DEFINE T == AboveOn(case, s, l)
<1> PICK K : K = Scale(case)
  OBVIOUS
<1> PICK send, idle : send = case.slopes["class_a"].send /\ idle = case.slopes["class_a"].idle
  OBVIOUS
<1>1. /\ T \in SUBSET Stream
      /\ \A t \in T : Priority[case.class[t]] > Priority[case.class[s]]
      /\ \A t \in Stream :
           Crosses(t, l) /\ Priority[case.class[t]] > Priority[case.class[s]] => t \in T
  <2>1. ASSUME NEW t \in Stream, Priority[case.class[t]] > Priority[case.class[s]]
        PROVE  t # s
    <3>1. Priority[case.class[s]] \in Nat
      BY PriorityFacts DEF Shaped, TrafficClass
    <3> QED
      BY <2>1, <3>1
  <2> QED
    BY <2>1, OthersAre DEF AboveOn
<1>2. \A t \in Stream : Priority[case.class[t]] > Priority[case.class[s]] =>
        case.class[t] = "class_a" /\ case.class[s] = "class_b"
  <2>1. case.class \in [Stream -> TrafficClass]
    BY CaseFacts DEF TypeOK
  <2> QED
    BY <2>1, PriorityFacts
<1>3. High(s, l) = IF case.class[s] = "class_a" \/ T = {} THEN 0
                   ELSE Longest(case, T, l) + (Low(s, l) * idle) \div send
  BY DEF High, HigherPriority, Low
<1> HIDE DEF T
<1>4. K \in Nat /\ send \in Nat \ {0} /\ idle \in Nat
  BY ScaleFacts, SlopeFacts DEF Shaped
<1>5. PICK n \in Nat : K = n * send
  BY ScaleFacts
<1>6. PICK a \in Nat : Low(s, l) = a * K
  BY LowIs
<1>7. PICK b \in Nat : /\ Longest(case, T, l) = b * K
                       /\ \A t \in T : Airtime(t, l) \in Nat /\ Airtime(t, l) <= b
  BY <1>1, LongestIs
<1> PICK q : q = a * n * idle
  OBVIOUS
<1>8. q \in Nat /\ Low(s, l) * idle = q * send
  <2>1. a * n \in Nat
    BY <1>5, <1>6
  <2>2. (a * n) * idle \in Nat
    BY <1>4, <2>1
  <2>3. Low(s, l) = (a * n) * send
    BY <1>4, <1>5, <1>6
  <2> PICK m : m = a * n
    OBVIOUS
  <2>4. m \in Nat /\ q = m * idle /\ Low(s, l) = m * send
    BY <2>1, <2>3
  <2>5. (m * send) * idle = (m * idle) * send
    BY <1>4, <2>4
  <2> QED
    BY <2>2, <2>4, <2>5
<1>9. (Low(s, l) * idle) \div send = q
  BY <1>4, <1>8, WholeQuotient
<1>10. b * K \in Nat
  BY <1>4, <1>7
<1>11. High(s, l) \in Nat
  BY <1>3, <1>7, <1>8, <1>9, <1>10
<1>12. ASSUME NEW t \in Stream, Crosses(t, l),
              Priority[case.class[t]] > Priority[case.class[s]]
       PROVE  Airtime(t, l) * K + q <= High(s, l) /\ send * q = idle * Low(s, l)
  <2>1. t \in T /\ case.class[s] # "class_a"
    BY <1>1, <1>2, <1>12
  <2>2. High(s, l) = b * K + q
    BY <1>3, <1>7, <1>9, <2>1
  <2> PICK c : c = Airtime(t, l)
    OBVIOUS
  <2>3. c \in Nat /\ c <= b
    BY <1>7, <2>1
  <2>4. c * K \in Nat /\ K * c <= K * b /\ K * c = c * K /\ K * b = b * K
    BY <1>4, <2>3, ProductMonotone
  <2>5. send * q = idle * Low(s, l)
    <3>1. Low(s, l) \in Nat
      BY <1>4, <1>6
    <3> QED
      BY <1>4, <1>8, <3>1
  <2> QED
    BY <1>8, <1>10, <2>2, <2>4, <2>5
<1> QED
  BY <1>2, <1>8, <1>11, <1>12

(* A stream that shares its class with nobody on its links waits for no    *)
(* frame of its class.                                                     *)
LEMMA LinkBoundIs ==
  ASSUME TypeOK, NEW s \in Stream, Solo(s), NEW l \in Link, Crosses(s, l), NEW d
  PROVE  /\ LinkBound(case, d, s, l) = Airtime(s, l) * Scale(case) + Low(s, l) + High(s, l)
         /\ LinkBound(case, d, s, l) \in Nat
<1>1. SameOn(case, s, l) = {}
  <2> SUFFICES ASSUME NEW t \in Stream \ {s}, Crosses(t, l),
                      Priority[case.class[t]] = Priority[case.class[s]]
               PROVE  FALSE
    BY OthersAre DEF SameOn
  <2>1. case.class[t] = case.class[s]
    <3>1. case.class \in [Stream -> TrafficClass]
      BY CaseFacts DEF TypeOK
    <3> QED
      BY <3>1, PriorityFacts
  <2>2. ToSet(case.route[s]) \cap ToSet(case.route[t]) = {}
    BY <2>1 DEF Solo, AloneInClass
  <2>3. l \in ToSet(case.route[s]) /\ l \in ToSet(case.route[t])
    BY DEF Crosses, ToSet
  <2> QED
    BY <2>2, <2>3
<1>2. SamePriority(case, d, s, l) = 0
  <2> DEFINE Sums(g) ==
        g = [T \in SUBSET {} |->
               IF T = {} THEN 0
               ELSE QueuedAhead(case, d, s, CHOOSE x \in T : TRUE)
                      * EligibleInterval(case, CHOOSE x \in T : TRUE, l)
                      + g[T \ {CHOOSE x \in T : TRUE}]]
  <2>1. Sums([T \in SUBSET {} |-> 0])
    OBVIOUS
  <2> PICK f : f = CHOOSE g : Sums(g)
    OBVIOUS
  <2>2. Sums(f)
    BY <2>1
  <2>3. f[{}] = 0
    BY <2>2
  <2>4. SamePriority(case, d, s, l) = f[{}]
    BY <1>1 DEF SamePriority, MapThenSumSet, MapThenFoldSet
  <2> QED
    BY <2>3, <2>4
<1>3. TransmissionTime(case, s, l) = Airtime(s, l) * Scale(case)
  BY DEF TransmissionTime, Airtime
<1> PICK K : K = Scale(case)
  OBVIOUS
<1>4. K \in Nat /\ Airtime(s, l) \in Nat /\ High(s, l) \in Nat
  BY ScaleFacts, AirtimeNat, HighIs DEF Solo
<1>5. Airtime(s, l) * K \in Nat
  BY <1>4
<1>6. Low(s, l) \in Nat
  <2>1. PICK a \in Nat : Low(s, l) = a * K
    BY LowIs DEF Solo
  <2> QED
    BY <1>4, <2>1
<1> QED
  BY <1>2, <1>3, <1>4, <1>5, <1>6 DEF LinkBound, Low, High

-----------------------------------------------------------------------------
(* The formulas of a route                                                 *)

(* The weights of the first numbers add up one by one.                     *)
LEMMA TotalUpTo ==
  ASSUME NEW n \in Nat, NEW w, \A i \in 1..n : w[i] \in Nat
  PROVE  /\ Total(w, 1..0) = 0
         /\ \A h \in 1..n : /\ Total(w, 1..(h - 1)) \in Nat
                            /\ Total(w, 1..h) = Total(w, 1..(h - 1)) + w[h]
<1>1. Total(w, 1..0) = 0
  <2>1. IsFiniteSet({}) /\ \A x \in {} : w[x] \in Nat
    BY FS_EmptySet
  <2>2. PICK g : AddsUp(g, w, {}) /\ \A T \in SUBSET {} : g[T] = Total(w, T)
    BY <2>1, TotalUnfolds
  <2>3. Total(w, {}) = 0
    BY <2>2 DEF AddsUp
  <2>4. 1..0 = {}
    OBVIOUS
  <2> QED
    BY <2>3, <2>4
<1>2. ASSUME NEW S, IsFiniteSet(S), NEW R \in SUBSET S, NEW z \in S \ R,
             \A x \in S : w[x] \in Nat
      PROVE  Total(w, R) \in Nat /\ Total(w, R \cup {z}) = Total(w, R) + w[z]
  <2>1. IsFiniteSet(R) /\ \A x \in R : w[x] \in Nat
    BY <1>2, FS_Subset
  <2>2. Total(w, R) \in Nat
    BY <2>1, TotalUnfolds
  <2>3. Total(w, R \cup {z}) = Total(w, R) + w[z]
    BY <1>2, TotalGrows
  <2> QED
    BY <2>2, <2>3
<1>3. ASSUME NEW h \in 1..n
      PROVE  Total(w, 1..(h - 1)) \in Nat /\ Total(w, 1..h) = Total(w, 1..(h - 1)) + w[h]
  <2>1. h \in Nat /\ h - 1 \in Nat
    OBVIOUS
  <2>2. IsFiniteSet(1..h)
    BY <2>1, FS_Interval
  <2>3. /\ 1..(h - 1) \in SUBSET (1..h) /\ h \in (1..h) \ (1..(h - 1))
        /\ (1..(h - 1)) \cup {h} = 1..h
    BY <2>1
  <2>4. \A x \in 1..h : w[x] \in Nat
    BY <2>1
  <2> DEFINE S == 1..h
             R == 1..(h - 1)
  <2>5. /\ IsFiniteSet(S) /\ R \in SUBSET S /\ h \in S \ R /\ R \cup {h} = S
        /\ \A x \in S : w[x] \in Nat
    BY <2>2, <2>3, <2>4
  <2> HIDE DEF S, R
  <2>6. Total(w, R) \in Nat /\ Total(w, R \cup {h}) = Total(w, R) + w[h]
    BY <1>2, <2>5
  <2>7. Total(w, R) \in Nat /\ Total(w, S) = Total(w, R) + w[h]
    BY <2>5, <2>6
  <2> QED
    BY <2>7 DEF S, R
<1> QED
  BY <1>1, <1>3

(* The bounds of a route are numbers, and add up hop by hop.               *)
LEMMA AllowedGrows ==
  ASSUME TypeOK, NEW s \in Stream, Solo(s)
  PROVE  /\ Allowed(case, s, 0) = 0
         /\ \A h \in 1..Len(case.route[s]) :
              /\ Allowed(case, s, h - 1) \in Nat
              /\ LinkBound(case, case.period, s, case.route[s][h]) \in Nat
              /\ Allowed(case, s, h) = Allowed(case, s, h - 1)
                   + LinkBound(case, case.period, s, case.route[s][h])
<1> DEFINE n == Len(case.route[s])
<1> PICK w : w = Bounds(case, s)
  OBVIOUS
<1>1. n \in Nat /\ DOMAIN case.route[s] = 1..n /\ \A i \in 1..n : case.route[s][i] \in Link
  BY CaseFacts DEF TypeOK
<1> HIDE DEF n
<1>2. \A i \in 1..n : w[i] = LinkBound(case, case.period, s, case.route[s][i])
  BY <1>1 DEF Bounds
<1>3. \A i \in 1..n : w[i] \in Nat
  <2>1. ASSUME NEW i \in 1..n
        PROVE  LinkBound(case, case.period, s, case.route[s][i]) \in Nat
    <3>1. case.route[s][i] \in Link /\ Crosses(s, case.route[s][i])
      BY <1>1 DEF Crosses
    <3> QED
      BY <3>1, LinkBoundIs
  <2> QED
    BY <1>2, <2>1
<1>4. \A h : Allowed(case, s, h) = Total(w, 1..h)
  BY DEF Allowed, MapThenSumSet, MapThenFoldSet, Total, First
<1>5. /\ Total(w, 1..0) = 0
      /\ \A h \in 1..n : /\ Total(w, 1..(h - 1)) \in Nat
                         /\ Total(w, 1..h) = Total(w, 1..(h - 1)) + w[h]
  BY <1>1, <1>3, TotalUpTo
<1>6. Allowed(case, s, 0) = 0
  BY <1>4, <1>5
<1>7. ASSUME NEW h \in 1..n
      PROVE  /\ Allowed(case, s, h - 1) \in Nat
             /\ LinkBound(case, case.period, s, case.route[s][h]) \in Nat
             /\ Allowed(case, s, h) = Allowed(case, s, h - 1)
                  + LinkBound(case, case.period, s, case.route[s][h])
  <2>1. /\ Allowed(case, s, h) = Total(w, 1..h)
        /\ Allowed(case, s, h - 1) = Total(w, 1..(h - 1))
    BY <1>4
  <2>2. w[h] = LinkBound(case, case.period, s, case.route[s][h]) /\ w[h] \in Nat
    BY <1>2, <1>3
  <2>3. Total(w, 1..(h - 1)) \in Nat /\ Total(w, 1..h) = Total(w, 1..(h - 1)) + w[h]
    BY <1>5
  <2> QED
    BY <2>1, <2>2, <2>3
<1> QED
  BY <1>6, <1>7 DEF n

(* A sum that adds each weight on the other side is the same.              *)
LEMMA SumsAgreeReversed ==
  ASSUME NEW S, IsFiniteSet(S), NEW w, \A x \in S : w[x] \in Nat,
         NEW f, \A T \in SUBSET S : f[T] = IF T = {} THEN 0
                                           ELSE f[T \ {First(T)}] + w[First(T)]
  PROVE  f[S] = Total(w, S)
<1>1. PICK h : AddsUp(h, w, S) /\ \A T \in SUBSET S : h[T] = Total(w, T) /\ h[T] \in Nat
  BY TotalUnfolds
<1> DEFINE Differ == {n \in Nat : \E T \in SUBSET S : Cardinality(T) = n /\ f[T] # h[T]}
<1> SUFFICES ASSUME f[S] # h[S]
             PROVE  FALSE
  BY <1>1
<1>2. PICK n \in Differ : \A m \in Differ : n <= m
  <2>1. Differ \subseteq Nat /\ Differ # {}
    BY FirstOut
  <2> HIDE DEF Differ
  <2> QED
    BY <2>1, LeastNumber
<1>3. PICK T \in SUBSET S : Cardinality(T) = n /\ f[T] # h[T]
  BY <1>2
<1>4. T # {}
  BY <1>1, <1>3 DEF AddsUp
<1>5. /\ First(T) \in S
      /\ T \ {First(T)} \in SUBSET S
      /\ Cardinality(T \ {First(T)}) = n - 1 /\ Cardinality(T \ {First(T)}) \in Nat
  BY <1>3, <1>4, FirstOut
<1>6. f[T \ {First(T)}] = h[T \ {First(T)}] /\ h[T \ {First(T)}] \in Nat
  <2>1. n - 1 \notin Differ
    BY <1>2, <1>5
  <2> QED
    BY <1>1, <1>5, <2>1
<1>7. f[T] = f[T \ {First(T)}] + w[First(T)]
  BY <1>4
<1>8. h[T] = w[First(T)] + h[T \ {First(T)}]
  BY <1>1, <1>4 DEF AddsUp
<1>9. w[First(T)] \in Nat
  BY <1>5
<1> HIDE DEF Differ
<1>10. f[T] = h[T]
  BY <1>6, <1>7, <1>8, <1>9
<1> QED
  BY <1>3, <1>10

(* The end-to-end bound is what the route allows, in whatever order it is   *)
(* added up.                                                               *)
LEMMA WcrtIs ==
  ASSUME TypeOK, NEW s \in Stream, Solo(s)
  PROVE  Wcrt(case, case.period, s) = Allowed(case, s, Len(case.route[s]))
<1> DEFINE n == Len(case.route[s])
           R == 1..n
           Bound(i) == LinkBound(case, case.period, s, case.route[s][i])
           Sums(g) == g = [T \in SUBSET R |->
                             IF T = {} THEN 0 ELSE g[T \ {First(T)}] + Bound(First(T))]
<1> PICK w : w = Bounds(case, s)
  OBVIOUS
<1>1. n \in Nat /\ DOMAIN case.route[s] = R
  BY CaseFacts DEF TypeOK
<1>2. IsFiniteSet(R)
  <2>1. \A m \in Nat : IsFiniteSet(1..m)
    BY FS_Interval
  <2> HIDE DEF n
  <2> QED
    BY <1>1, <2>1
<1>3. \A i \in R : w[i] = Bound(i) /\ w[i] \in Nat
  <2>1. \A i \in R : w[i] = Bound(i)
    BY <1>1 DEF Bounds
  <2>2. \A i \in R : Bound(i) \in Nat
    BY AllowedGrows
  <2> QED
    BY <2>1, <2>2
<1>4. Wcrt(case, case.period, s) = (CHOOSE g : Sums(g))[R]
  BY <1>1 DEF Wcrt, FoldSeq, FoldFunction, FoldFunctionOnSet, MapThenFoldSet, First
<1>5. Allowed(case, s, n) = Total(w, R)
  BY DEF Allowed, MapThenSumSet, MapThenFoldSet, Total, First
<1> HIDE DEF R, Bound
<1>6. \A T \in SUBSET R : T # {} => First(T) \in R /\ T \ {First(T)} \in SUBSET R
  BY DEF First
<1>7. PICK h \in [SUBSET R -> Nat] : AddsUp(h, w, R)
  <2>1. \A i \in R : w[i] \in Nat
    BY <1>3
  <2> QED
    BY <1>2, <2>1, SumsExist
<1>8. Sums(h)
  <2>1. h = [T \in SUBSET R |-> h[T]]
    BY <1>7
  <2>2. ASSUME NEW T \in SUBSET R, T # {}
        PROVE  h[T] = h[T \ {First(T)}] + Bound(First(T))
    <3>1. h[T] = w[First(T)] + h[T \ {First(T)}]
      BY <1>7, <2>2 DEF AddsUp
    <3>2. /\ w[First(T)] = Bound(First(T)) /\ w[First(T)] \in Nat
          /\ h[T \ {First(T)}] \in Nat
      BY <1>3, <1>6, <1>7, <2>2
    <3> QED
      BY <3>1, <3>2
  <2>3. h[{}] = 0
    BY <1>7 DEF AddsUp
  <2> QED
    BY <2>1, <2>2, <2>3
<1> DEFINE f == CHOOSE g : Sums(g)
<1>9. Sums(f)
  BY <1>8
<1> HIDE DEF f
<1>10. \A T \in SUBSET R : f[T] = IF T = {} THEN 0 ELSE f[T \ {First(T)}] + Bound(First(T))
  BY <1>9
<1> HIDE DEF Sums
<1>11. \A T \in SUBSET R : f[T] = IF T = {} THEN 0 ELSE f[T \ {First(T)}] + w[First(T)]
  BY <1>3, <1>6, <1>10
<1>12. f[R] = Total(w, R)
  <2>1. \A i \in R : w[i] \in Nat
    BY <1>3
  <2> QED
    BY <1>2, <1>11, <2>1, SumsAgreeReversed
<1> QED
  BY <1>4, <1>5, <1>12 DEF f

-----------------------------------------------------------------------------
(* What a step does to a port                                              *)

(* A step has nothing to do with port k. *)
Undisturbed(k) == SamePort(k) /\ \A x \in events' : IsEnd(x, k) => x \in events

(* A step brings the credits of port k up to date and leaves the wires alone. *)
Synchronizes(k) ==
  /\ onWire' = onWire
  /\ credit'[k] = SyncedCredit(k, WireClass(k)) /\ syncedAt'[k] = clock'
  /\ NoNewEnds

(* A handler leaves a port alone, synchronizes it, puts a frame on its wire *)
(* or takes one off; only the last adds to the airtime used.               *)
LEMMA PortStep ==
  ASSUME FrameInv, TypeOK', Next, Running', NEW k \in Link
  PROVE  \E e \in events :
           /\ Dispatch(e)
           /\ \/ /\ \A c : AirtimeUsed(k, c)' = AirtimeUsed(k, c)
                 /\ \/ Undisturbed(k)
                    \/ Synchronizes(k)
                    \/ \E c \in TrafficClass, f \in Frame : Transmits(e, k, c, f)
              \/ \E f \in DOMAIN frames : HandleEnd(e, k, f)
              \/ \E f \in DOMAIN frames, l \in Link :
                   l # k /\ HandleEnd(e, l, f) /\ Undisturbed(k)
<1>1. TypeOK
  BY DEF FrameInv, EngineInv
<1>2. ASSUME NEW e, NEW l \in Link, NEW starts, NEW wakes, Dispatch(e), onWire' = onWire,
             ScheduleNextTransmission(e, l, SyncedCredit(l, WireClass(l)), starts, wakes, {})
      PROVE  Synchronizes(l) /\ NoNewEnds
  <2>1. credit'[l] = SyncedCredit(l, WireClass(l)) /\ syncedAt'[l] = clock'
    BY <1>1, <1>2 DEF ScheduleNextTransmission, TypeOK
  <2>2. NoNewEnds
    BY <1>2, SchedulerEndsNothing
  <2> QED
    BY <1>2, <2>1, <2>2 DEF Synchronizes
<1>3. ASSUME NEW e \in events, NEW f \in DOMAIN frames, NEW l \in Link, HandleEnqueue(e, f, l)
      PROVE  /\ Dispatch(e) /\ \A c : AirtimeUsed(k, c)' = AirtimeUsed(k, c)
             /\ Undisturbed(k) \/ Synchronizes(k)
  <2>1. /\ Dispatch(e) /\ onWire' = onWire
        /\ ScheduleNextTransmission(e, l, SyncedCredit(l, WireClass(l)), startAt, wakeAt, {})
    BY <1>3 DEF HandleEnqueue
  <2>2. \A c : AirtimeUsed(k, c)' = AirtimeUsed(k, c)
    BY <1>3, OthersSendNothing
  <2>3. Synchronizes(l) /\ NoNewEnds
    BY <1>2, <2>1
  <2>4. k # l => SamePort(k)
    BY <1>1, <1>3, EnqueueTouchesOnePort
  <2> QED
    BY <2>1, <2>2, <2>3, <2>4 DEF Undisturbed, NoNewEnds, IsEnd
<1>4. ASSUME NEW e \in events, NEW l \in Link, NEW d \in Shaped, HandleCreditUpdate(e, l, d)
      PROVE  /\ Dispatch(e) /\ \A c : AirtimeUsed(k, c)' = AirtimeUsed(k, c)
             /\ Undisturbed(k) \/ Synchronizes(k)
  <2> PICK cleared : cleared = [wakeAt EXCEPT ![l][d] = None]
    OBVIOUS
  <2>1. /\ Dispatch(e) /\ onWire' = onWire
        /\ ScheduleNextTransmission(e, l, SyncedCredit(l, WireClass(l)), startAt, cleared, {})
    BY <1>4 DEF HandleCreditUpdate
  <2>2. \A c : AirtimeUsed(k, c)' = AirtimeUsed(k, c)
    BY <1>4, OthersSendNothing
  <2>3. Synchronizes(l) /\ NoNewEnds
    BY <1>2, <2>1
  <2>4. k # l => SamePort(k)
    BY <1>1, <1>4, CreditUpdateTouchesOnePort
  <2> QED
    BY <2>1, <2>2, <2>3, <2>4 DEF Undisturbed, NoNewEnds, IsEnd
<1>5. ASSUME NEW e \in events, NEW l \in Link, HandleStart(e, l)
      PROVE  /\ Dispatch(e) /\ \A c : AirtimeUsed(k, c)' = AirtimeUsed(k, c)
             /\ \/ Undisturbed(k)
                \/ \E c \in TrafficClass, f \in Frame : Transmits(e, k, c, f)
  <2>1. \A c : AirtimeUsed(k, c)' = AirtimeUsed(k, c)
    BY <1>5, OthersSendNothing
  <2>2. PICK d \in TrafficClass, f \in Frame : Transmits(e, l, d, f)
    BY <1>5, StartChooses
  <2>3. k # l => Undisturbed(k)
    <3>1. k # l => SamePort(k)
      BY <1>1, <1>5, StartTouchesOnePort
    <3>2. k # l => \A x \in events' : IsEnd(x, k) => x \in events
      BY <2>2, StartFacts
    <3> QED
      BY <3>1, <3>2 DEF Undisturbed
  <2> QED
    BY <2>1, <2>2, <2>3 DEF Transmits
<1>6. ASSUME NEW e \in events, NEW f \in DOMAIN frames, NEW l \in Link, HandleEnd(e, l, f)
      PROVE  Dispatch(e) /\ (k # l => Undisturbed(k))
  <2>1. k # l => SamePort(k)
    BY <1>1, <1>6, EndTouchesOnePort
  <2>2. NoNewEnds
    BY <1>6, EndPushesNoEnd
  <2> QED
    BY <1>6, <2>1, <2>2 DEF HandleEnd, Undisturbed, NoNewEnds, IsEnd
<1>7. ASSUME NEW e \in events,
             \/ \E s \in Stream : HandleRelease(e, s)
             \/ \E f \in DOMAIN frames : HandleForward(e, f)
             \/ \E f \in DOMAIN frames : HandleDelivery(e, f)
      PROVE  /\ Dispatch(e) /\ \A c : AirtimeUsed(k, c)' = AirtimeUsed(k, c)
             /\ Undisturbed(k)
  <2>1. \A c : AirtimeUsed(k, c)' = AirtimeUsed(k, c)
    BY <1>7, OthersSendNothing
  <2>2. LeavesPorts(e)
    BY <1>7, FrameHandlersLeavePorts
  <2>3. Dispatch(e) /\ SamePort(k)
    BY <1>1, <2>2, PortsUntouched DEF LeavesPorts
  <2>4. \A x \in events' : IsEnd(x, k) => x \in events
    BY <2>2 DEF LeavesPorts, Push, IsEnd
  <2> QED
    BY <2>1, <2>3, <2>4 DEF Undisturbed
<1>8. ASSUME NEW e \in events, HandleFinalize(e) \/ StopBefore(e) \/ Raise(e)
      PROVE  FALSE
  BY <1>8 DEF HandleFinalize, StopBefore, Raise, LeaveLoop, Running
<1>9. ~RunDry /\ ~Stop
  BY DEF RunDry, Stop, LeaveLoop, Running
<1>10. PICK e \in events :
         \/ \E s \in Stream : HandleRelease(e, s)
         \/ \E f \in DOMAIN frames, l \in Link : HandleEnqueue(e, f, l)
         \/ \E l \in Link : HandleStart(e, l)
         \/ \E f \in DOMAIN frames, l \in Link : HandleEnd(e, l, f)
         \/ \E f \in DOMAIN frames : HandleForward(e, f)
         \/ \E f \in DOMAIN frames : HandleDelivery(e, f)
         \/ \E l \in Link, c \in Shaped : HandleCreditUpdate(e, l, c)
  BY <1>8, <1>9 DEF Next
<1> WITNESS e \in events
<1> QED
  BY <1>3, <1>4, <1>5, <1>6, <1>7, <1>10

-----------------------------------------------------------------------------
(* A class that owes credit has sent                                       *)

(* Synchronizing leaves a credit below zero only if it was, or its class   *)
(* has the wire.                                                           *)
LEMMA SyncOwes ==
  ASSUME TypeOK, NEW cr \in [Shaped -> Int], NEW elapsed \in Nat, NEW pending, NEW wire,
         NEW c \in Shaped, NEW new,
         new = SynchronizedCredit(cr, elapsed, case.slopes, pending, wire)[c]
  PROVE  /\ new \in Int
         /\ wire # c => new >= cr[c] \/ new >= 0
         /\ wire = NoClass /\ elapsed = 0 /\ cr[c] >= 0 => new >= 0
         /\ wire = c => new = cr[c] - case.slopes[c].send * elapsed
<1> DEFINE slopes == case.slopes
<1>1. /\ slopes[c].idle \in Nat \ {0} /\ slopes[c].send \in Nat \ {0}
      /\ new = SynchronizedCredit(cr, elapsed, slopes, pending, wire)[c]
  BY SlopeFacts
<1> HIDE DEF slopes
<1>2. /\ new \in Int
      /\ wire # c => new >= cr[c] \/ new >= 0
      /\ wire = c => new = cr[c] - slopes[c].send * elapsed
  BY <1>1, SyncedOnce
<1>3. NoClass # c
  BY DEF NoClass, Shaped
<1>4. wire = NoClass /\ cr[c] >= 0 => new >= 0
  BY <1>2, <1>3
<1> QED
  BY <1>2, <1>4 DEF slopes

(* Every step of the loop leaves only classes that have sent in debt.      *)
LEMMA SpentStep ==
  ASSUME FrameInv, TypeOK', IsFiniteSet(DOMAIN frames), SpentInv, [Next]_vars
  PROVE  SpentInv'
<1>1. TypeOK
  BY DEF FrameInv, EngineInv
<1>2. CASE UNCHANGED vars
  <2>1. \A l, c : /\ WireClass(l)' = WireClass(l)
                  /\ AirtimeUsed(l, c)' = AirtimeUsed(l, c)
    <3>1. /\ case' = case /\ onWire' = onWire /\ frames' = frames /\ events' = events
      BY <1>2 DEF vars, portVars
    <3>2. \A f, l : HasLeft(f, l)' <=> HasLeft(f, l)
      BY <3>1 DEF HasLeft, RouteOf, StreamOf, Pending
    <3>3. \A l, c : SentFrames(l, c)' = SentFrames(l, c)
      BY <3>1, <3>2 DEF SentFrames, ClassOf, StreamOf
    <3> QED
      BY <3>1, <3>3, AirtimeUsedAddsUp DEF WireClass, ClassOf, StreamOf
  <2> QED
    BY <1>2, <2>1 DEF SpentInv, Running, vars, portVars
<1> SUFFICES ASSUME Next, Running', NEW k \in Link, NEW c \in Shaped, credit'[k][c] < 0,
                    WireClass(k)' # c
             PROVE  AirtimeUsed(k, c)' > 0
  BY <1>2 DEF SpentInv
<1>3. credit[k][c] < 0 => WireClass(k) = c \/ AirtimeUsed(k, c) > 0
  BY StepsRun DEF SpentInv
<1>4. credit[k] \in [Shaped -> Int] /\ credit[k][c] \in Int
  BY <1>1 DEF TypeOK
<1>5. ASSUME Undisturbed(k)
      PROVE  AirtimeUsed(k, c)' = AirtimeUsed(k, c) => AirtimeUsed(k, c)' > 0
  <2>1. case' = case
    BY PortStep DEF Dispatch
  <2>2. WireClass(k)' = WireClass(k) /\ credit'[k] = credit[k]
    BY <1>5, <2>1 DEF Undisturbed, SamePort, WireClass, ClassOf, StreamOf
  <2> QED
    BY <1>3, <2>2
<1>6. ASSUME NEW e \in events, Dispatch(e), Synchronizes(k),
             AirtimeUsed(k, c)' = AirtimeUsed(k, c)
      PROVE  AirtimeUsed(k, c)' > 0
  <2>1. case' = case /\ clock' \in Nat /\ syncedAt[k] <= clock' /\ syncedAt[k] \in Nat
    BY <1>1, <1>6, SyncPremises DEF TypeOK
  <2>2. WireClass(k)' = WireClass(k)
    BY <1>6, <2>1 DEF Synchronizes, WireClass, ClassOf, StreamOf
  <2> PICK elapsed : elapsed = clock' - syncedAt[k]
    OBVIOUS
  <2>3. elapsed \in Nat
    BY <2>1
  <2> PICK new : new = credit'[k][c]
    OBVIOUS
  <2>4. new = SynchronizedCredit(credit[k], elapsed, case.slopes, queue'[k], WireClass(k))[c]
    BY <1>6 DEF Synchronizes, SyncedCredit
  <2>5. new \in Int /\ (WireClass(k) # c => new >= credit[k][c] \/ new >= 0)
    BY <1>1, <1>4, <2>3, <2>4, SyncOwes
  <2>6. credit[k][c] < 0
    BY <1>4, <2>2, <2>5
  <2> QED
    BY <1>3, <1>6, <2>2, <2>6
<1>7. ASSUME NEW e \in events, NEW d \in TrafficClass, NEW f \in Frame, Transmits(e, k, d, f),
             AirtimeUsed(k, c)' = AirtimeUsed(k, c)
      PROVE  AirtimeUsed(k, c)' > 0
  <2>1. credit' = credit /\ onWire[k] = None
    BY <1>7 DEF Transmits
  <2>2. WireClass(k) # c
    BY <2>1 DEF WireClass, NoClass, Shaped
  <2> QED
    BY <1>3, <1>7, <2>1, <2>2
<1>8. ASSUME NEW e \in events, NEW f \in DOMAIN frames, HandleEnd(e, k, f)
      PROVE  AirtimeUsed(k, c)' > 0
  <2>1. /\ Dispatch(e)
        /\ credit'[k] = SynchronizedCredit(SyncedCredit(k, WireClass(k)), 0,
                                           case.slopes, queue'[k], NoClass)
    BY <1>1, <1>8 DEF HandleEnd, ScheduleNextTransmission, TypeOK
  <2>2. clock' \in Nat /\ syncedAt[k] <= clock' /\ syncedAt[k] \in Nat
    BY <1>1, <2>1, SyncPremises DEF TypeOK
  <2>3. onWire[k] = f /\ f \in Frame /\ f # None /\ StreamOf(f) \in Stream
    BY <1>1, <1>8, EndMoves, NoneAssumption DEF TypeOK, Frame, StreamOf
  <2>4. WireClass(k) = ClassOf(f)
    BY <2>3 DEF WireClass
  <2>5. AirtimeUsed(k, c) \in Nat
    BY <1>1, AirtimeUsedNat
  <2>6. CASE ClassOf(f) = c
    <3>1. AirtimeUsed(k, c)' = AirtimeUsed(k, c) + Airtime(StreamOf(f), k)
      BY <1>8, <2>6, EndSends
    <3>2. Airtime(StreamOf(f), k) \in Nat \ {0}
      BY <1>1, <2>3, AirtimePositive
    <3> QED
      BY <2>5, <3>1, <3>2
  <2>7. CASE ClassOf(f) # c
    <3> PICK elapsed : elapsed = clock' - syncedAt[k]
      OBVIOUS
    <3> PICK synced : synced = SyncedCredit(k, WireClass(k))
      OBVIOUS
    <3>1. elapsed \in Nat /\ synced \in [Shaped -> Int]
      BY <1>1, <2>1, <2>2, SyncedCreditType, DispatchTypes
    <3> PICK one, new : one = synced[c] /\ new = credit'[k][c]
      OBVIOUS
    <3>2. one = SynchronizedCredit(credit[k], elapsed, case.slopes, queue'[k], WireClass(k))[c]
      BY DEF SyncedCredit
    <3>3. one \in Int /\ (one >= credit[k][c] \/ one >= 0)
      BY <1>1, <1>4, <2>4, <2>7, <3>1, <3>2, SyncOwes
    <3>4. new \in Int /\ (synced[c] >= 0 => new >= 0)
      <4> PICK none : none = 0
        OBVIOUS
      <4>1. /\ new = SynchronizedCredit(synced, none, case.slopes, queue'[k], NoClass)[c]
            /\ none \in Nat
        BY <2>1
      <4>2. /\ new \in Int
            /\ NoClass = NoClass /\ none = 0 /\ synced[c] >= 0 => new >= 0
        BY <1>1, <3>1, <4>1, SyncOwes
      <4> QED
        BY <4>2
    <3>5. credit[k][c] < 0
      BY <1>4, <3>3, <3>4
    <3>6. AirtimeUsed(k, c)' = AirtimeUsed(k, c)
      BY <1>8, <2>7, EndSends
    <3> QED
      BY <1>3, <2>4, <2>7, <3>5, <3>6
  <2> QED
    BY <2>6, <2>7
<1>9. ASSUME NEW e \in events, NEW f \in DOMAIN frames, NEW l \in Link, l # k,
             HandleEnd(e, l, f), Undisturbed(k)
      PROVE  AirtimeUsed(k, c)' > 0
  <2>1. AirtimeUsed(k, c)' = AirtimeUsed(k, c)
    BY <1>1, <1>9, EndSends
  <2> QED
    BY <1>5, <1>9, <2>1
<1> QED
  BY <1>5, <1>6, <1>7, <1>8, <1>9, PortStep

(* No class owes credit when a run starts. *)
LEMMA SpentInit ==
  ASSUME Init
  PROVE  SpentInv
BY DEF Init, SpentInv

-----------------------------------------------------------------------------
(* The first frame of a stream alone in its class                          *)

(* No frame of its class has crossed the link before it, nor is on the wire. *)
LEMMA FirstIsAlone ==
  ASSUME FrameInv, OrderInv, Running,
         NEW f \in DOMAIN frames, f[2] = 0, Solo(StreamOf(f)), Arriving(f) \/ Queued(f),
         NEW l \in Link, HopLink(f) = l,
         NEW g \in DOMAIN frames, ClassOf(g) = ClassOf(f),
         HasPassed(g, l) \/ onWire[l] = g
  PROVE  FALSE
<1>1. /\ TypeOK /\ Placed(f) /\ Placed(g)
      /\ f \in Frame /\ g \in Frame /\ StreamOf(f) \in Stream /\ StreamOf(g) \in Stream
  BY FrameFacts DEF FrameInv, EngineInv
<1>2. /\ frames[f].hop \in DOMAIN RouteOf(f) /\ frames[f].hop \in Nat
      /\ frames[g].hop \in DOMAIN RouteOf(g) /\ frames[g].hop \in Nat
  BY <1>1, PlacedFacts DEF Placed
<1>3. PICK h \in DOMAIN RouteOf(g) :
        /\ RouteOf(g)[h] = l
        /\ \/ h < frames[g].hop
           \/ h = frames[g].hop /\ (Leaving(g) \/ Delivered(g) \/ onWire[l] = g)
  <2>1. CASE HasPassed(g, l)
    BY <2>1 DEF HasPassed
  <2>2. CASE onWire[l] = g
    BY <1>1, <1>2, <2>2 DEF Placed, HopLink
  <2> QED
    BY <2>1, <2>2
<1>4. StreamOf(g) = StreamOf(f)
  <2> SUFFICES ASSUME StreamOf(g) # StreamOf(f)
               PROVE  FALSE
    OBVIOUS
  <2>1. ToSet(case.route[StreamOf(f)]) \cap ToSet(case.route[StreamOf(g)]) = {}
    BY <1>1 DEF Solo, AloneInClass, ClassOf
  <2>2. l \in ToSet(case.route[StreamOf(f)])
    BY <1>2 DEF ToSet, HopLink, RouteOf
  <2>3. l \in ToSet(case.route[StreamOf(g)])
    BY <1>3 DEF ToSet, RouteOf
  <2> QED
    BY <2>1, <2>2, <2>3
<1>5. h = frames[f].hop /\ h \in Nat
  <2>1. WellFormed(case) /\ DOMAIN RouteOf(g) = 1..Len(RouteOf(g)) /\ Len(RouteOf(g)) \in Nat
    BY <1>1, CaseFacts, PlacedFacts DEF TypeOK
  <2>2. RouteOf(f) = RouteOf(g)
    BY <1>4 DEF RouteOf
  <2>3. \A i, j \in DOMAIN RouteOf(g) : RouteOf(g)[i] = RouteOf(g)[j] => i = j
    BY <1>1, <2>1 DEF WellFormed, RouteOf
  <2> QED
    BY <1>2, <1>3, <2>1, <2>2, <2>3 DEF HopLink
<1>6. PICK m \in Stage : At(f, m)
  BY <1>1 DEF Placed
<1>7. m = 0 \/ m = 1
  BY <1>6 DEF At
<1>8. PICK n \in Stage : At(g, n)
  BY <1>1 DEF Placed
<1>9. h = frames[g].hop => n \in {2, 3, 4}
  BY <1>2, <1>3, <1>8 DEF At, OnAWire
<1>10. CASE g = f
  <2>1. m = n
    BY <1>6, <1>8, <1>10, OneStage
  <2> QED
    BY <1>5, <1>7, <1>9, <1>10, <2>1
<1>11. CASE g # f
  <2>1. Earlier(f, g)
    <3>1. f[2] \in Nat /\ g[2] \in Nat /\ f = <<f[1], f[2]>> /\ g = <<g[1], g[2]>>
      BY <1>1 DEF Frame
    <3>2. g[2] # 0
      BY <1>4, <1>11, <3>1 DEF StreamOf
    <3> QED
      BY <1>4, <3>1, <3>2 DEF Earlier
  <2>2. Ahead(f, g)
    BY <2>1 DEF OrderInv, Ordered
  <2>3. frames[f].hop >= frames[g].hop
    BY <2>2 DEF Ahead
  <2>4. h = frames[g].hop /\ frames[f].hop = frames[g].hop
    BY <1>2, <1>3, <1>5, <2>3
  <2>5. m >= n
    BY <1>6, <1>8, <2>2, <2>4 DEF Ahead
  <2> QED
    BY <1>7, <1>9, <2>4, <2>5
<1> QED
  BY <1>10, <1>11

(* Its class does not have the wire and owes no credit.                    *)
LEMMA FirstMayGo ==
  ASSUME FrameInv, OrderInv, SpentInv, Running,
         NEW f \in DOMAIN frames, f[2] = 0, Solo(StreamOf(f)), Arriving(f) \/ Queued(f),
         NEW l \in Link, HopLink(f) = l
  PROVE  WireClass(l) # ClassOf(f) /\ credit[l][ClassOf(f)] >= 0
<1> DEFINE c == ClassOf(f)
<1>1. TypeOK /\ OnlyKnownFrames
  BY DEF FrameInv, EngineInv
<1>2. c \in Shaped
  BY DEF Solo, ClassOf
<1>3. WireClass(l) # c
  <2>1. NoClass # c
    BY <1>2 DEF NoClass, Shaped
  <2>2. onWire[l] # None => onWire[l] \in DOMAIN frames
    BY <1>1 DEF OnlyKnownFrames
  <2> QED
    BY <2>1, <2>2, FirstIsAlone DEF WireClass
<1>4. SentFrames(l, c) = {}
  BY <1>1, FirstIsAlone, HasLeftIs DEF SentFrames
<1>5. AirtimeUsed(l, c) = 0
  BY <1>4, AirtimeUsedAddsUp, NoAirtime
<1>6. credit[l][c] \in Int
  BY <1>1, <1>2 DEF TypeOK
<1> QED
  BY <1>2, <1>3, <1>5, <1>6 DEF SpentInv

(* While it is queued on a free wire no time passes.                       *)
LEMMA FirstIsNotHeldUp ==
  ASSUME FrameInv, OrderInv, SpentInv, NoLostWakeup, Running,
         NEW f \in DOMAIN frames, f[2] = 0, Solo(StreamOf(f)),
         NEW l \in Link, Holds(queue[l][ClassOf(f)], f)
  PROVE  /\ HopLink(f) = l /\ Queued(f)
         /\ WireClass(l) # ClassOf(f) /\ credit[l][ClassOf(f)] >= 0
         /\ ClassOf(f) \in Eligible(queue[l], credit[l])
         /\ onWire[l] = None =>
              /\ syncedAt[l] = clock
              /\ \A e : Dispatch(e) => clock' = clock
<1> DEFINE c == ClassOf(f)
<1>1. TypeOK /\ Placed(f) /\ PortInv(l) /\ Awake(l)
  BY DEF FrameInv, EngineInv, NoLostWakeup
<1>2. c \in Shaped /\ c \in TrafficClass
  BY DEF Solo, ClassOf, Shaped, TrafficClass
<1>3. HopLink(f) = l /\ Queued(f)
  BY <1>1, <1>2 DEF Placed, Queued
<1>4. WireClass(l) # c /\ credit[l][c] >= 0
  BY <1>3, FirstMayGo
<1>5. queue[l][c] # <<>>
  BY DEF Holds
<1>6. c \in Eligible(queue[l], credit[l])
  BY <1>2, <1>4, <1>5 DEF Eligible, CanTransmitWithCredit
<1>7. ASSUME onWire[l] = None
      PROVE  syncedAt[l] = clock /\ \A e : Dispatch(e) => clock' = clock
  <2>1. startAt[l] # None
    BY <1>1, <1>2, <1>5, <1>6, <1>7 DEF Awake
  <2>2. PortMatchesEvents(l) /\ FreshStart(l)
    BY <1>1 DEF PortInv
  <2>3. syncedAt[l] = clock
    BY <2>1, <2>2 DEF FreshStart
  <2>4. ASSUME NEW e, Dispatch(e)
        PROVE  clock' = clock
    BY <1>1, <2>1, <2>2, <2>4, TimeStands
  <2> QED
    BY <2>3, <2>4
<1> QED
  BY <1>3, <1>4, <1>6, <1>7

(* No other frame of its class is sent before it.                          *)
LEMMA FirstGoesFirst ==
  ASSUME FrameInv, OrderInv, Running,
         NEW f \in DOMAIN frames, f[2] = 0, Solo(StreamOf(f)),
         NEW l \in Link, Holds(queue[l][ClassOf(f)], f),
         NEW e \in events, NEW g \in Frame, Transmits(e, l, ClassOf(f), g)
  PROVE  g = f
<1> DEFINE c == ClassOf(f)
           q == queue[l][c]
<1>1. TypeOK /\ Placed(f) /\ c \in TrafficClass /\ StreamOf(f) \in Stream /\ f \in Frame
  BY FrameFacts DEF FrameInv, EngineInv
<1>2. g \in DOMAIN frames /\ ClassOf(g) = c /\ Crosses(StreamOf(g), l) /\ StreamOf(g) \in Stream
  BY <1>1, StartFacts
<1>3. q \in Seq(Frame) /\ NoRepeat(q) /\ q # <<>> /\ g = Head(q)
  BY <1>1 DEF TypeOK, FrameInv, Transmits, IsCandidate, Eligible
<1>4. StreamOf(g) = StreamOf(f)
  <2> SUFFICES ASSUME StreamOf(g) # StreamOf(f)
               PROVE  FALSE
    OBVIOUS
  <2>1. ToSet(case.route[StreamOf(f)]) \cap ToSet(case.route[StreamOf(g)]) = {}
    BY <1>2 DEF Solo, AloneInClass, ClassOf
  <2>2. l \in ToSet(case.route[StreamOf(g)])
    BY <1>2 DEF ToSet, Crosses
  <2>3. l \in ToSet(case.route[StreamOf(f)])
    BY <1>1 DEF ToSet, Placed, HopLink, RouteOf
  <2> QED
    BY <2>1, <2>2, <2>3
<1> SUFFICES ASSUME g # f
             PROVE  FALSE
  OBVIOUS
<1>5. Earlier(f, g)
  <2>1. f[2] \in Nat /\ g[2] \in Nat /\ f = <<f[1], f[2]>> /\ g = <<g[1], g[2]>>
    BY <1>1 DEF Frame
  <2>2. g[2] # 0
    BY <1>4, <2>1 DEF StreamOf
  <2> QED
    BY <1>4, <2>1, <2>2 DEF Earlier
<1>6. Before(q, f, g)
  BY <1>1, <1>2, <1>5 DEF OrderInv, Ordered, Ahead
<1> HIDE DEF q
<1>7. Holds(q, f)
  BY DEF q
<1> QED
  BY <1>3, <1>6, <1>7, PoppedFacts

-----------------------------------------------------------------------------
(* How long it waits                                                       *)

(* The formulas depend on the case alone.                                  *)
LEMMA UnitsStand ==
  ASSUME case' = case, NEW s, NEW l
  PROVE  /\ Scale(case)' = Scale(case)
         /\ Low(s, l)' = Low(s, l) /\ High(s, l)' = High(s, l)
         /\ \A t, h : Meets(t, s, h)' <=> Meets(t, s, h)
BY DEF Low, High, Meets

(* The units, and what a frame may wait for, are numbers.                  *)
LEMMA UnitFacts ==
  ASSUME TypeOK, NEW s \in Stream, Solo(s), NEW l \in Link
  PROVE  Scale(case) \in Nat \ {0} /\ Low(s, l) \in Nat /\ High(s, l) \in Nat
<1> PICK K : K = Scale(case)
  OBVIOUS
<1>1. K \in Nat \ {0} /\ High(s, l) \in Nat
  BY ScaleFacts, HighIs DEF Solo
<1>2. PICK a \in Nat : Low(s, l) = a * K
  BY LowIs DEF Solo
<1>3. a * K \in Nat
  BY <1>1
<1> QED
  BY <1>1, <1>2, <1>3

(* Class A pays for the time it holds the wire with credit.                *)
LEMMA PaidInCredit ==
  ASSUME NEW send \in Nat, NEW K \in Nat, NEW cr \in Int, NEW new \in Int, NEW d \in Nat,
         NEW W \in Int, NEW L \in Nat, NEW B \in Int,
         send * (W - L) + K * cr <= B, new <= cr - send * d
  PROVE  send * (W + d * K - L) + K * new <= B
<1>1. K * new <= K * (cr - send * d)
  BY ProductMonotone
<1>2. K * (cr - send * d) = K * cr - K * (send * d)
  OBVIOUS
<1>3. send * (W + d * K - L) = send * (W - L) + send * (d * K)
  <2>1. d * K \in Int
    OBVIOUS
  <2> QED
    BY <2>1
<1>4. send * (d * K) = K * (send * d)
  OBVIOUS
<1>5. K * new \in Int /\ K * cr \in Int /\ K * (send * d) \in Int /\ send * (W - L) \in Int
  OBVIOUS
<1> QED
  BY <1>1, <1>2, <1>3, <1>4, <1>5

(* With credit left it has sent no more than one lower frame earned it.    *)
LEMMA BurstEnds ==
  ASSUME NEW send \in Nat \ {0}, NEW idle \in Nat, NEW K \in Nat, NEW cr \in Int, cr >= 0,
         NEW W \in Int, NEW L \in Nat, NEW q \in Nat, send * q = idle * L,
         send * (W - L) + K * cr <= idle * L
  PROVE  W <= L + q
<1>1. K * cr >= 0 /\ K * cr \in Int
  OBVIOUS
<1>2. send * (W - L) <= send * q
  BY <1>1
<1> SUFFICES ASSUME W - L >= q + 1
             PROVE  FALSE
  OBVIOUS
<1>3. send * (q + 1) <= send * (W - L)
  BY ProductMonotone
<1>4. send * (q + 1) = send * q + send
  OBVIOUS
<1> QED
  BY <1>2, <1>3, <1>4

(* The most credit there is was earned behind one lower frame.             *)
LEMMA CreditIsWorth ==
  ASSUME NEW send \in Nat, NEW idle \in Nat, NEW K \in Nat, NEW cr \in Int,
         NEW a \in Nat, NEW b \in Nat, b <= a, cr <= idle * b,
         NEW W \in Int, NEW L, L = a * K, W <= L
  PROVE  send * (W - L) + K * cr <= idle * L
<1>1. idle * b <= idle * a
  BY ProductMonotone
<1>2. K * cr <= K * (idle * a)
  <2>1. idle * a \in Int /\ idle * b \in Int
    OBVIOUS
  <2> QED
    BY <1>1, <2>1, ProductMonotone
<1>3. K * (idle * a) = idle * (a * K)
  OBVIOUS
<1>4. L \in Nat
  OBVIOUS
<1>5. send * (W - L) <= 0
  <2>1. send * (W - L) <= send * 0
    BY <1>4, ProductMonotone
  <2> QED
    BY <2>1
<1>6. send * (W - L) \in Int /\ K * cr \in Int /\ idle * (a * K) \in Int
  BY <1>4
<1> QED
  BY <1>2, <1>3, <1>5, <1>6

(* What it takes to wait no longer than allowed after a step.              *)
LEMMA WaitsNext ==
  ASSUME case' = case, NEW f, NEW l, NEW enq \in Nat, frames'[f].enqueuedAt = enq,
         NEW K, K = Scale(case),
         NEW L, L = Low(StreamOf(f), l), NEW H, H = High(StreamOf(f), l),
         onWire'[l] = None => (clock' - enq) * K <= L + H,
         \A x \in events' : IsEnd(x, l) =>
           /\ (x.at - enq) * K <= L + H
           /\ ~BurstOn(l)' => (x.at - enq) * K <= L,
         case.class[StreamOf(f)] = "class_b" /\ BurstOn(l)' =>
           case.slopes["class_a"].send * ((syncedAt'[l] - enq) * K - L)
             + K * credit'[l]["class_a"] <= case.slopes["class_a"].idle * L
  PROVE  Waits(f, l)'
<1>1. /\ Scale(case)' = K
      /\ Low(StreamOf(f), l)' = L /\ High(StreamOf(f), l)' = H
  BY UnitsStand
<1>2. StreamOf(f)' = StreamOf(f)
  BY DEF StreamOf
<1>3. \A t : Waited(f, t)' = (t - enq) * K
  BY <1>1 DEF Waited
<1>4. Waited(f, clock)' = (clock' - enq) * K /\ Waited(f, syncedAt[l])' = (syncedAt'[l] - enq) * K
  BY <1>1 DEF Waited
<1>5. \A x : Waited(f, x.at)' = (x.at - enq) * K
  BY <1>1 DEF Waited
<1> QED
  BY <1>1, <1>2, <1>4, <1>5 DEF Waits, IsEnd

(* What it means to wait no longer than allowed.                           *)
LEMMA WaitsNow ==
  ASSUME NEW f, NEW l, Waits(f, l), NEW enq, frames[f].enqueuedAt = enq,
         NEW K, K = Scale(case),
         NEW L, L = Low(StreamOf(f), l), NEW H, H = High(StreamOf(f), l)
  PROVE  /\ enq \in Nat
         /\ onWire[l] = None => (clock - enq) * K <= L + H
         /\ \A x \in events : IsEnd(x, l) =>
              /\ (x.at - enq) * K <= L + H
              /\ ~BurstOn(l) => (x.at - enq) * K <= L
         /\ case.class[StreamOf(f)] = "class_b" /\ BurstOn(l) =>
              case.slopes["class_a"].send * ((syncedAt[l] - enq) * K - L)
                + K * credit[l]["class_a"] <= case.slopes["class_a"].idle * L
BY DEF Waits, Waited

(* The wait goes on in the same units. *)
LEMMA WaitGrows ==
  ASSUME NEW K \in Nat, NEW t \in Int, NEW d \in Int, NEW enq \in Int
  PROVE  (t + d - enq) * K = (t - enq) * K + d * K
<1> PICK w \in Int : w = t - enq
  OBVIOUS
<1>1. (w + d) * K = w * K + d * K
  OBVIOUS
<1>2. t + d - enq = w + d
  OBVIOUS
<1> QED
  BY <1>1, <1>2

(* What a synchronization does to a waiting class and to the class above.  *)
LEMMA SyncPays ==
  ASSUME TypeOK, NEW l \in Link, NEW cr \in [Shaped -> Int], NEW d \in Nat, NEW pending,
         NEW wire, NEW new, new = SynchronizedCredit(cr, d, case.slopes, pending, wire)["class_a"],
         (wire = NoClass /\ d = 0) \/ wire = "class_a"
  PROVE  new \in Int /\ new <= cr["class_a"] - case.slopes["class_a"].send * d
<1> DEFINE slopes == case.slopes
<1> PICK a : a = "class_a"
  OBVIOUS
<1>1. /\ a \in Shaped /\ slopes[a].idle \in Nat \ {0} /\ slopes[a].send \in Nat \ {0}
      /\ new = SynchronizedCredit(cr, d, slopes, pending, wire)[a]
  BY SlopeFacts DEF Shaped
<1> HIDE DEF slopes
<1>2. /\ new \in Int
      /\ new <= cr[a] + slopes[a].idle * d
      /\ wire = a => new = cr[a] - slopes[a].send * d
  BY <1>1, SyncedOnce
<1>3. cr[a] \in Int
  BY <1>1
<1>4. CASE wire = a
  <2>1. slopes[a].send * d \in Int
    BY <1>1
  <2> QED
    BY <1>2, <1>3, <1>4, <2>1 DEF slopes
<1>5. CASE d = 0
  <2>1. slopes[a].idle * d = 0 /\ slopes[a].send * d = 0
    BY <1>1, <1>5
  <2> QED
    BY <1>2, <1>3, <2>1 DEF slopes
<1> QED
  BY <1>4, <1>5

(* A step that has nothing to do with its port does not hold it up.        *)
LEMMA UndisturbedWaits ==
  ASSUME FrameInv, OrderInv, SpentInv, NoLostWakeup, Running,
         NEW f \in DOMAIN frames, f[2] = 0, Solo(StreamOf(f)),
         NEW l \in Link, Holds(queue[l][ClassOf(f)], f), Waits(f, l),
         frames'[f].enqueuedAt = frames[f].enqueuedAt,
         NEW e, Dispatch(e), Undisturbed(l)
  PROVE  Waits(f, l)'
<1> PICK enq, K, L, H : /\ enq = frames[f].enqueuedAt /\ K = Scale(case)
                        /\ L = Low(StreamOf(f), l) /\ H = High(StreamOf(f), l)
  OBVIOUS
<1>1. case' = case /\ SamePort(l) /\ \A x \in events' : IsEnd(x, l) => x \in events
  BY DEF Dispatch, Undisturbed
<1>2. onWire'[l] = onWire[l] /\ syncedAt'[l] = syncedAt[l] /\ credit'[l] = credit[l]
  BY <1>1 DEF SamePort
<1>3. BurstOn(l)' <=> BurstOn(l)
  BY <1>1, <1>2 DEF BurstOn, WireClass, ClassOf, StreamOf
<1>4. onWire[l] = None => clock' = clock
  BY FirstIsNotHeldUp
<1>5. /\ enq \in Nat
      /\ onWire[l] = None => (clock - enq) * K <= L + H
      /\ \A x \in events : IsEnd(x, l) =>
           /\ (x.at - enq) * K <= L + H
           /\ ~BurstOn(l) => (x.at - enq) * K <= L
      /\ case.class[StreamOf(f)] = "class_b" /\ BurstOn(l) =>
           case.slopes["class_a"].send * ((syncedAt[l] - enq) * K - L)
             + K * credit[l]["class_a"] <= case.slopes["class_a"].idle * L
  BY WaitsNow
<1> QED
  BY <1>1, <1>2, <1>3, <1>4, <1>5, WaitsNext

(* Synchronizing its port takes from class A what its frame costs.         *)
LEMMA SyncWaits ==
  ASSUME FrameInv, OrderInv, SpentInv, NoLostWakeup, Running,
         NEW f \in DOMAIN frames, f[2] = 0, Solo(StreamOf(f)),
         NEW l \in Link, Holds(queue[l][ClassOf(f)], f), Waits(f, l),
         frames'[f].enqueuedAt = frames[f].enqueuedAt,
         NEW e, Dispatch(e), Synchronizes(l)
  PROVE  Waits(f, l)'
<1> PICK enq, K, L, H : /\ enq = frames[f].enqueuedAt /\ K = Scale(case)
                        /\ L = Low(StreamOf(f), l) /\ H = High(StreamOf(f), l)
  OBVIOUS
<1> PICK send, idle : send = case.slopes["class_a"].send /\ idle = case.slopes["class_a"].idle
  OBVIOUS
<1>1. /\ case' = case /\ onWire' = onWire /\ syncedAt'[l] = clock'
      /\ \A x \in events' : IsEnd(x, l) => x \in events
      /\ credit'[l]["class_a"] =
           SynchronizedCredit(credit[l], clock' - syncedAt[l], case.slopes,
                              queue'[l], WireClass(l))["class_a"]
  BY DEF Dispatch, Synchronizes, NoNewEnds, IsEnd, SyncedCredit
<1>2. /\ TypeOK /\ clock' \in Nat /\ syncedAt[l] \in Nat /\ syncedAt[l] <= clock'
      /\ credit[l] \in [Shaped -> Int] /\ StreamOf(f) \in Stream
  BY SyncPremises, FrameFacts DEF TypeOK
<1>3. BurstOn(l)' <=> BurstOn(l)
  BY <1>1 DEF BurstOn, WireClass, ClassOf, StreamOf
<1>4. onWire[l] = None => clock' = clock /\ syncedAt[l] = clock
  BY FirstIsNotHeldUp
<1>5. /\ enq \in Nat
      /\ onWire[l] = None => (clock - enq) * K <= L + H
      /\ \A x \in events : IsEnd(x, l) =>
           /\ (x.at - enq) * K <= L + H
           /\ ~BurstOn(l) => (x.at - enq) * K <= L
      /\ case.class[StreamOf(f)] = "class_b" /\ BurstOn(l) =>
           send * ((syncedAt[l] - enq) * K - L) + K * credit[l]["class_a"] <= idle * L
  BY WaitsNow
<1>6. ASSUME case.class[StreamOf(f)] = "class_b", BurstOn(l)
      PROVE  send * ((clock' - enq) * K - L) + K * credit'[l]["class_a"] <= idle * L
  <2> PICK d : d = clock' - syncedAt[l]
    OBVIOUS
  <2>1. d \in Nat /\ clock' = syncedAt[l] + d
    BY <1>2
  <2>2. (WireClass(l) = NoClass /\ d = 0) \/ WireClass(l) = "class_a"
    <3>1. CASE WireClass(l) = NoClass
      <4>1. onWire[l] = None
        <5>1. onWire[l] # None => onWire[l] \in DOMAIN frames
          BY DEF FrameInv, OnlyKnownFrames
        <5>2. onWire[l] # None => ClassOf(onWire[l]) \in TrafficClass
          BY <1>2, <5>1, FrameFacts
        <5> QED
          BY <3>1, <5>2 DEF WireClass, NoClass, TrafficClass
      <4> QED
        BY <1>2, <1>4, <2>1, <3>1, <4>1
    <3> QED
      BY <1>6, <3>1 DEF BurstOn
  <2> PICK cr, new : cr = credit[l]["class_a"] /\ new = credit'[l]["class_a"]
    OBVIOUS
  <2>3. new = SynchronizedCredit(credit[l], d, case.slopes, queue'[l], WireClass(l))["class_a"]
    BY <1>1
  <2>4. new \in Int /\ new <= cr - send * d
    BY <1>2, <2>1, <2>2, <2>3, SyncPays
  <2> PICK W : W = (syncedAt[l] - enq) * K
    OBVIOUS
  <2>5. /\ send \in Nat /\ K \in Nat /\ L \in Nat /\ cr \in Int /\ W \in Int /\ idle * L \in Int
    <3>1. send \in Nat /\ idle \in Nat /\ K \in Nat /\ L \in Nat
      BY <1>2, SlopeFacts, UnitFacts DEF Shaped
    <3>2. cr \in Int
      BY <1>2 DEF Shaped
    <3>3. syncedAt[l] - enq \in Int
      BY <1>2, <1>5
    <3>4. W \in Int /\ idle * L \in Int
      BY <3>1, <3>3
    <3> QED
      BY <3>1, <3>2, <3>4
  <2>6. send * (W - L) + K * cr <= idle * L
    BY <1>5, <1>6
  <2> PICK B : B = idle * L
    OBVIOUS
  <2>7. send * (W + d * K - L) + K * new <= B
    BY <2>1, <2>4, <2>5, <2>6, PaidInCredit
  <2>8. (clock' - enq) * K = W + d * K
    BY <1>2, <1>5, <2>1, <2>5, WaitGrows
  <2> PICK T : T = (clock' - enq) * K
    OBVIOUS
  <2>9. T - L = W + d * K - L
    <3>1. d * K \in Int
      BY <2>1, <2>5
    <3> QED
      BY <2>5, <2>8, <3>1
  <2>10. send * (T - L) + K * new <= B
    BY <2>7, <2>9, Zenon
  <2> QED
    BY <2>10
<1>7. onWire'[l] = None => (clock' - enq) * K <= L + H
  BY <1>1, <1>4, <1>5
<1> QED
  BY <1>1, <1>3, <1>5, <1>6, <1>7, WaitsNext

(* Class A may start ahead of it, on what is left of its credit.           *)
LEMMA StartWaits ==
  ASSUME FrameInv, OrderInv, SpentInv, NoLostWakeup, Running,
         NEW f \in DOMAIN frames, f[2] = 0, Solo(StreamOf(f)),
         NEW l \in Link, Holds(queue[l][ClassOf(f)], f), Waits(f, l),
         frames'[f].enqueuedAt = frames[f].enqueuedAt,
         NEW e \in events, NEW d \in TrafficClass, NEW g \in Frame, Transmits(e, l, d, g),
         Holds(queue'[l][ClassOf(f)], f)
  PROVE  Waits(f, l)'
<1> PICK enq, K, L, H : /\ enq = frames[f].enqueuedAt /\ K = Scale(case)
                        /\ L = Low(StreamOf(f), l) /\ H = High(StreamOf(f), l)
  OBVIOUS
<1> PICK send, idle : send = case.slopes["class_a"].send /\ idle = case.slopes["class_a"].idle
  OBVIOUS
<1>1. /\ TypeOK /\ case' = case /\ UNCHANGED <<credit, syncedAt>> /\ Dispatch(e)
      /\ onWire[l] = None /\ onWire'[l] = g /\ g # None /\ WireClass(l)' = d
      /\ g \in DOMAIN frames /\ ClassOf(g) = d /\ StreamOf(g) \in Stream
      /\ Crosses(StreamOf(g), l)
      /\ clock' \in Nat /\ syncedAt[l] = clock'
      /\ \A x \in events' : IsEnd(x, l) => x.at = clock' + Airtime(StreamOf(g), l)
  <2>1. g # None
    BY NoneAssumption DEF Frame
  <2>2. Dispatch(e)
    BY DEF Transmits
  <2> QED
    BY <2>1, <2>2, StartFacts
<1>2. ClassOf(f) \in TrafficClass /\ ClassOf(f) \in Shaped /\ StreamOf(f) \in Stream
  BY <1>1, FrameFacts DEF Solo, ClassOf
<1>3. d # ClassOf(f)
  <2> SUFFICES ASSUME d = ClassOf(f)
               PROVE  FALSE
    OBVIOUS
  <2> DEFINE q == queue[l][ClassOf(f)]
  <2>0. d = ClassOf(f)
    OBVIOUS
  <2>1. g = f
    BY FirstGoesFirst
  <2>2. f = Head(q)
    BY <2>1 DEF Transmits
  <2>3. q \in Seq(Frame) /\ queue'[l][ClassOf(f)] = Popped(q)
    <3>1. queue' = [queue EXCEPT ![l][d] = Popped(@)]
      BY DEF Transmits
    <3>2. /\ queue[l][d] \in Seq(Frame)
          /\ \A k \in Link, b \in TrafficClass :
               queue'[k][b] = IF k = l /\ b = d THEN Popped(queue[l][d]) ELSE queue[k][b]
      BY <1>1, <3>1, QueueWithOneLess
    <3> QED
      BY <2>0, <3>2
  <2>4. NoRepeat(q) /\ q # <<>>
    BY DEF FrameInv, Holds
  <2> HIDE DEF q
  <2>5. ~Holds(Popped(q), f)
    BY <2>2, <2>3, <2>4, PoppedFacts
  <2> QED
    BY <2>3, <2>5
<1>4. Priority[d] > Priority[ClassOf(f)]
  <2>1. ClassOf(f) \in Eligible(queue[l], credit[l])
    BY FirstIsNotHeldUp
  <2>2. Priority[ClassOf(f)] <= Priority[d]
    BY <2>1 DEF Transmits, IsCandidate
  <2> QED
    BY <1>2, <1>3, <2>2, PriorityFacts
<1>5. d = "class_a" /\ ClassOf(f) = "class_b"
  BY <1>2, <1>4, PriorityFacts
<1>6. /\ K \in Nat \ {0} /\ L \in Nat /\ H \in Nat
      /\ send \in Nat \ {0} /\ idle \in Nat \ {0}
      /\ Airtime(StreamOf(g), l) \in Nat
  BY <1>1, <1>2, UnitFacts, SlopeFacts, AirtimeNat DEF Shaped
<1>7. PICK q \in Nat : /\ Airtime(StreamOf(g), l) * K + q <= H
                       /\ send * q = idle * L
  BY <1>1, <1>2, <1>4, HighIs DEF ClassOf
<1>8. credit[l]["class_a"] \in Int /\ credit[l]["class_a"] >= 0
  BY <1>1, <1>5 DEF Transmits, IsCandidate, Eligible, CanTransmitWithCredit, Shaped, TypeOK
<1>9. /\ enq \in Nat
      /\ case.class[StreamOf(f)] = "class_b" /\ BurstOn(l) =>
           send * ((syncedAt[l] - enq) * K - L) + K * credit[l]["class_a"] <= idle * L
  BY WaitsNow
<1>10. send * ((clock' - enq) * K - L) + K * credit[l]["class_a"] <= idle * L
  BY <1>1, <1>5, <1>9 DEF BurstOn, WireClass, ClassOf
<1> PICK W, cr, air : /\ W = (clock' - enq) * K /\ cr = credit[l]["class_a"]
                      /\ air = Airtime(StreamOf(g), l)
  OBVIOUS
<1>11. W \in Int
  <2>1. clock' - enq \in Int
    BY <1>1, <1>9
  <2> QED
    BY <1>6, <2>1
<1>12. W <= L + q
  BY <1>6, <1>7, <1>8, <1>10, <1>11, BurstEnds
<1>13. (clock' + air - enq) * K = W + air * K
  BY <1>1, <1>6, <1>9, WaitGrows
<1>14. (clock' + air - enq) * K <= L + H
  <2>1. air * K \in Nat /\ air * K + q <= H
    BY <1>6, <1>7
  <2> QED
    BY <1>6, <1>7, <1>11, <1>12, <1>13, <2>1
<1>15. /\ BurstOn(l)' /\ credit'[l] = credit[l] /\ syncedAt'[l] = clock'
  BY <1>1, <1>5 DEF BurstOn
<1>16. ASSUME NEW x \in events', IsEnd(x, l)
       PROVE  (x.at - enq) * K <= L + H
  <2>1. x.at - enq = clock' + air - enq
    BY <1>1, <1>6, <1>9, <1>16
  <2> QED
    BY <1>14, <2>1, Zenon
<1>17. send * ((syncedAt'[l] - enq) * K - L) + K * credit'[l]["class_a"] <= idle * L
  BY <1>10, <1>15
<1> QED
  BY <1>1, <1>9, <1>15, <1>16, <1>17, WaitsNext

(* When the wire is freed, it waited for that frame alone, or class A has  *)
(* paid for it.                                                            *)
LEMMA EndWaits ==
  ASSUME FrameInv, OrderInv, SpentInv, NoLostWakeup, Running, FrameInv', CreditInv', Running',
         NEW f \in DOMAIN frames, f[2] = 0, Solo(StreamOf(f)),
         NEW l \in Link, Holds(queue[l][ClassOf(f)], f), Waits(f, l),
         frames'[f].enqueuedAt = frames[f].enqueuedAt,
         NEW e \in events, NEW g \in DOMAIN frames, HandleEnd(e, l, g)
  PROVE  Waits(f, l)'
<1> PICK enq, K, L, H : /\ enq = frames[f].enqueuedAt /\ K = Scale(case)
                        /\ L = Low(StreamOf(f), l) /\ H = High(StreamOf(f), l)
  OBVIOUS
<1> PICK send, idle : send = case.slopes["class_a"].send /\ idle = case.slopes["class_a"].idle
  OBVIOUS
<1>1. /\ TypeOK /\ Dispatch(e) /\ case' = case /\ clock' \in Nat /\ clock' = e.at
      /\ syncedAt[l] \in Nat /\ syncedAt[l] <= clock'
      /\ credit[l] \in [Shaped -> Int] /\ StreamOf(f) \in Stream
      /\ ClassOf(f) \in TrafficClass
  BY SyncPremises, FrameFacts DEF TypeOK, HandleEnd, Dispatch
<1>2. /\ syncedAt'[l] = clock' /\ onWire'[l] = None
      /\ credit'[l] = SynchronizedCredit(SyncedCredit(l, WireClass(l)), 0,
                                         case.slopes, queue'[l], NoClass)
  BY <1>1 DEF HandleEnd, ScheduleNextTransmission, TypeOK
<1>3. IsEnd(e, l)
  BY TaskFields DEF HandleEnd, IsEnd
<1>4. onWire[l] = g /\ g # None /\ WireClass(l) = ClassOf(g) /\ ClassOf(g) \in TrafficClass
  BY <1>1, EndMoves, FrameFacts, NoneAssumption DEF WireClass, Frame
<1>5. \A x \in events' : ~IsEnd(x, l)
  <2>1. WireMatchesEvents(l)'
    BY DEF FrameInv, EngineInv, PortInv, PortMatchesEvents
  <2>2. \A x \in events' : IsEnd(x, l) => x.task.frame = None
    BY <1>2, <2>1 DEF WireMatchesEvents, IsEnd
  <2>3. \A x \in events' : IsEnd(x, l) => x.task.frame \in Frame
    <3>1. events' \subseteq Event
      BY DEF FrameInv, EngineInv, TypeOK
    <3> QED
      BY <3>1 DEF Event, Task, IsEnd
  <2> QED
    BY <2>2, <2>3, NoneAssumption DEF Frame
<1>6. /\ enq \in Nat
      /\ (clock' - enq) * K <= L + H
      /\ ~BurstOn(l) => (clock' - enq) * K <= L
      /\ case.class[StreamOf(f)] = "class_b" /\ BurstOn(l) =>
           send * ((syncedAt[l] - enq) * K - L) + K * credit[l]["class_a"] <= idle * L
  BY <1>1, <1>3, WaitsNow
<1>7. /\ K \in Nat \ {0} /\ L \in Nat /\ H \in Nat
      /\ send \in Nat \ {0} /\ idle \in Nat \ {0}
  BY <1>1, UnitFacts, SlopeFacts DEF Shaped
<1>8. clock' - enq \in Int /\ (clock' - enq) * K \in Int
  <2>1. clock' - enq \in Int
    BY <1>1, <1>6
  <2> QED
    BY <1>7, <2>1
<1>9. ASSUME case.class[StreamOf(f)] = "class_b"
      PROVE  send * ((clock' - enq) * K - L) + K * credit'[l]["class_a"] <= idle * L
  <2> PICK cr, one, new, d : /\ cr = credit[l]["class_a"]
                             /\ one = SyncedCredit(l, WireClass(l))["class_a"]
                             /\ new = credit'[l]["class_a"]
                             /\ d = clock' - syncedAt[l]
    OBVIOUS
  <2>1. d \in Nat /\ clock' = syncedAt[l] + d /\ cr \in Int
    BY <1>1 DEF Shaped
  <2>2. CASE WireClass(l) = "class_a"
    <3>1. one \in Int /\ one <= cr - send * d
      <4>1. one = SynchronizedCredit(credit[l], d, case.slopes, queue'[l], WireClass(l))["class_a"]
        BY DEF SyncedCredit
      <4> QED
        BY <1>1, <2>1, <2>2, <4>1, SyncPays
    <3>2. new \in Int /\ new <= one
      <4> PICK none, synced, free : /\ none = 0 /\ synced = SyncedCredit(l, WireClass(l))
                                    /\ free = NoClass
        OBVIOUS
      <4>1. new = SynchronizedCredit(synced, none, case.slopes, queue'[l], free)["class_a"]
        BY <1>2
      <4>2. synced \in [Shaped -> Int]
        BY <1>1, SyncedCreditType
      <4>3. new \in Int /\ new <= synced["class_a"] - case.slopes["class_a"].send * none
        BY <1>1, <4>1, <4>2, SyncPays
      <4>4. send * none = 0
        BY <1>7
      <4> QED
        BY <3>1, <4>3, <4>4
    <3>3. send * d \in Int /\ new <= cr - send * d
      BY <1>7, <2>1, <3>1, <3>2
    <3> PICK W, B, T : /\ W = (syncedAt[l] - enq) * K /\ B = idle * L
                       /\ T = (clock' - enq) * K
      OBVIOUS
    <3>4. W \in Int /\ B \in Int
      <4>1. syncedAt[l] - enq \in Int
        BY <1>1, <1>6
      <4> QED
        BY <1>7, <4>1
    <3>5. send * (W - L) + K * cr <= B
      BY <1>6, <1>9, <2>2 DEF BurstOn
    <3>6. send * (W + d * K - L) + K * new <= B
      BY <1>7, <2>1, <3>2, <3>3, <3>4, <3>5, PaidInCredit
    <3>7. T = W + d * K
      BY <1>1, <1>6, <1>7, <2>1, WaitGrows
    <3>8. T - L = W + d * K - L
      <4>1. d * K \in Int
        BY <1>7, <2>1
      <4> QED
        BY <1>7, <3>4, <3>7, <4>1
    <3>9. send * (T - L) + K * new <= B
      BY <3>6, <3>8, Zenon
    <3> QED
      BY <3>9
  <2>3. CASE WireClass(l) # "class_a"
    <3>1. ~BurstOn(l)
      BY <1>4, <2>3 DEF BurstOn, NoClass, TrafficClass
    <3> PICK W, a, b : /\ W = (clock' - enq) * K /\ b = LongestAirtime(l, "best_effort")
                       /\ a \in Nat /\ L = a * K /\ b <= a
      BY <1>1, LowIs DEF Solo
    <3>2. W \in Int /\ W <= L
      BY <1>6, <1>8, <3>1
    <3>3. b \in Nat
      BY <1>1, LongestAirtimeFacts DEF TrafficClass
    <3>4. new \in Int /\ new <= idle * b
      <4>1. CreditHolds(l)'
        BY DEF CreditInv
      <4>2. Most(l, "class_a")' = idle * b
        BY <1>1, BoundsStand DEF Most
      <4> QED
        BY <4>1, <4>2 DEF CreditHolds, Shaped
    <3>5. send * (W - L) + K * new <= idle * L
      BY <1>7, <3>2, <3>3, <3>4, CreditIsWorth
    <3> QED
      BY <3>5
  <2> QED
    BY <2>2, <2>3
<1> QED
  BY <1>1, <1>2, <1>5, <1>6, <1>9, WaitsNext

(* A frame on the wire is off it again within its airtime.                 *)
LEMMA WireIsFreedInTime ==
  ASSUME FrameInv', CreditInv', ReservationInv', Running', case' = case, TypeOK,
         NEW l \in Link, NEW x \in events', IsEnd(x, l), onWire'[l] # None,
         NEW g, g = onWire'[l], NEW c \in Shaped, credit'[l][c] >= 0, syncedAt'[l] = clock'
  PROVE  /\ ClassOf(g) \in Shaped => x.at - clock' <= Airtime(StreamOf(g), l)
         /\ ClassOf(g) = "best_effort" => x.at - clock' <= LongestAirtime(l, "best_effort")
<1>1. TypeOK' /\ x.at \in Nat /\ clock' \in Nat /\ credit'[l] \in [Shaped -> Int] /\ g \in Frame
  <2>1. TypeOK'
    BY DEF FrameInv, EngineInv
  <2>2. /\ events' \subseteq Event /\ clock' \in Nat
        /\ credit' \in [Link -> [Shaped -> Int]] /\ onWire' \in [Link -> Frame \cup {None}]
    BY <2>1 DEF TypeOK
  <2> QED
    BY <2>1, <2>2 DEF Event
<1>2. WireClass(l)' = ClassOf(g) /\ StreamOf(g) \in Stream
  BY <1>1 DEF WireClass, ClassOf, StreamOf, Frame
<1>3. ASSUME ClassOf(g) \in Shaped
      PROVE  x.at - clock' <= Airtime(StreamOf(g), l)
  <2>1. EarnedSoFar(l, ClassOf(g), credit[l][ClassOf(g)], syncedAt[l])'
    <3>1. EarnedOnPort(l)'
      BY DEF ReservationInv
    <3> PICK k : k = ClassOf(g)
      OBVIOUS
    <3>2. \A d \in Shaped : EarnedSoFar(l, d, credit[l][d], syncedAt[l])'
      BY <3>1 DEF EarnedOnPort
    <3>3. EarnedSoFar(l, k, credit[l][k], syncedAt[l])'
      BY <1>3, <3>2
    <3>4. ClassOf(g)' = ClassOf(g)
      BY DEF ClassOf, StreamOf
    <3> QED
      BY <3>3, <3>4 DEF EarnedSoFar, Earned
  <2>2. InFlight(l, x, syncedAt[l])' >= 0
    BY <1>2, <2>1 DEF EarnedSoFar, IsEnd, ClassOf, StreamOf
  <2>3. InFlight(l, x, syncedAt[l])' = Airtime(StreamOf(g), l) - (x.at - clock')
    BY DEF InFlight, Airtime, StreamOf
  <2>4. Airtime(StreamOf(g), l) \in Nat
    BY <1>2, AirtimeNat
  <2> QED
    BY <1>1, <2>2, <2>3, <2>4
<1>4. ASSUME ClassOf(g) = "best_effort"
      PROVE  x.at - clock' <= LongestAirtime(l, "best_effort")
  <2>1. EndsInTime(l)'
    BY DEF CreditInv
  <2> PICK idle, b, cr, d : /\ idle = case.slopes[c].idle /\ b = LongestAirtime(l, "best_effort")
                            /\ cr = credit'[l][c] /\ d = x.at - clock'
    OBVIOUS
  <2>2. Most(l, c)' = idle * b
    BY BoundsStand DEF Most
  <2>3. cr + idle * d <= idle * b
    BY <1>2, <1>4, <2>1, <2>2 DEF EndsInTime, InTime, IsEnd
  <2>4. idle \in Nat \ {0} /\ b \in Nat /\ cr \in Int /\ cr >= 0 /\ d \in Int
    BY <1>1, SlopeFacts, LongestAirtimeFacts DEF TrafficClass
  <2>5. idle * d <= idle * b
    <3>1. idle * d \in Int /\ idle * b \in Int
      BY <2>4
    <3> QED
      BY <2>3, <2>4, <3>1
  <2>6. d <= b
    <3> SUFFICES ASSUME d >= b + 1
                 PROVE  FALSE
      BY <2>4
    <3>1. idle * (b + 1) <= idle * d
      BY <2>4, ProductMonotone
    <3>2. idle * (b + 1) = idle * b + idle /\ idle * b \in Int /\ idle * d \in Int
      BY <2>4
    <3> QED
      BY <2>4, <2>5, <3>1, <3>2
  <2> QED
    BY <2>6
<1> QED
  BY <1>3, <1>4

(* A frame that joins its queue waits for what is on the wire at most.     *)
LEMMA EnqueueWaits ==
  ASSUME FrameInv, OrderInv, SpentInv, Running,
         FrameInv', CreditInv', ReservationInv', Running',
         NEW f \in DOMAIN frames, f[2] = 0, Solo(StreamOf(f)),
         NEW e \in events, NEW l \in Link, HandleEnqueue(e, f, l)
  PROVE  Waits(f, l)'
<1> PICK enq, K, L, H : /\ enq = clock' /\ K = Scale(case)
                        /\ L = Low(StreamOf(f), l) /\ H = High(StreamOf(f), l)
  OBVIOUS
<1> PICK send, idle : send = case.slopes["class_a"].send /\ idle = case.slopes["class_a"].idle
  OBVIOUS
<1> DEFINE c == ClassOf(f)
<1>1. /\ TypeOK /\ Dispatch(e) /\ case' = case /\ clock' \in Nat
      /\ syncedAt[l] \in Nat /\ syncedAt[l] <= clock'
      /\ credit[l] \in [Shaped -> Int] /\ StreamOf(f) \in Stream
      /\ c \in Shaped /\ c \in TrafficClass /\ frames[f] \in FrameState
  BY SyncPremises, FrameFacts DEF TypeOK, HandleEnqueue, Dispatch, Solo, ClassOf
<1>2. /\ onWire' = onWire /\ syncedAt'[l] = clock'
      /\ credit'[l] = SyncedCredit(l, WireClass(l))
      /\ frames'[f].enqueuedAt = enq
  BY <1>1 DEF HandleEnqueue, ScheduleNextTransmission, TypeOK, FrameState
<1>3. Arriving(f) /\ HopLink(f) = l
  <2>1. e.task.kind = "ENQUEUE_FRAME" /\ e.task.frame = f /\ e.task.link = l
    BY TaskFields, MoveFields DEF HandleEnqueue
  <2>2. Placed(f) /\ Moves(e.task, f)
    BY <2>1 DEF FrameInv, Moves, MoveKind
  <2> QED
    BY <2>1, <2>2 DEF Arriving, Placed
<1>4. WireClass(l) # c /\ credit[l][c] >= 0
  BY <1>3, FirstMayGo
<1>5. credit'[l][c] >= 0
  <2> PICK d, new, k : d = clock' - syncedAt[l] /\ new = credit'[l][c] /\ k = c
    OBVIOUS
  <2>1. d \in Nat /\ credit[l][k] \in Int /\ k \in Shaped
    BY <1>1
  <2>2. new = SynchronizedCredit(credit[l], d, case.slopes, queue'[l], WireClass(l))[k]
    BY <1>2 DEF SyncedCredit
  <2>3. new \in Int /\ (WireClass(l) # k => new >= credit[l][k] \/ new >= 0)
    BY <1>1, <2>1, <2>2, SyncOwes
  <2> QED
    BY <1>4, <2>1, <2>3
<1>6. /\ K \in Nat \ {0} /\ L \in Nat /\ H \in Nat
      /\ send \in Nat \ {0} /\ idle \in Nat \ {0}
  BY <1>1, UnitFacts, SlopeFacts DEF Shaped
<1>7. ASSUME NEW x \in events', IsEnd(x, l)
      PROVE  /\ (x.at - enq) * K <= L + H
             /\ ~BurstOn(l)' => (x.at - enq) * K <= L
  <2>1. WireMatchesEvents(l)' /\ OnlyKnownFrames' /\ TypeOK'
    BY DEF FrameInv, EngineInv, PortInv, PortMatchesEvents
  <2>2. x.at \in Nat /\ x.task.frame = onWire'[l] /\ x.task.frame \in Frame
    <3>1. x \in Event
      BY <2>1 DEF TypeOK
    <3> QED
      BY <1>7, <2>1, <3>1 DEF WireMatchesEvents, IsEnd, Event, Task
  <2> PICK g : g = onWire[l]
    OBVIOUS
  <2>3. g = onWire'[l] /\ g \in DOMAIN frames /\ g # None
    BY <1>2, <2>2, NoneAssumption DEF FrameInv, OnlyKnownFrames, Frame
  <2>4. /\ StreamOf(g) \in Stream /\ ClassOf(g) \in TrafficClass /\ ClassOf(g) # c
        /\ ClassOf(g) = case.class[StreamOf(g)] /\ c = case.class[StreamOf(f)]
        /\ Crosses(StreamOf(g), l)
    <3>1. Placed(g)
      BY <2>3 DEF FrameInv
    <3>2. HopLink(g) = l /\ frames[g].hop \in DOMAIN RouteOf(g)
      BY <2>3, <3>1 DEF Placed
    <3> QED
      BY <1>1, <1>4, <2>3, <3>2, FrameFacts DEF WireClass, ClassOf, Crosses, HopLink, RouteOf
  <2> PICK d, air : d = x.at - enq /\ air = Airtime(StreamOf(g), l)
    OBVIOUS
  <2>5. d \in Int /\ air \in Nat
    BY <1>1, <2>2, <2>4, AirtimeNat
  <2>6. /\ ClassOf(g) \in Shaped => d <= air
        /\ ClassOf(g) = "best_effort" => d <= LongestAirtime(l, "best_effort")
    BY <1>1, <1>2, <1>5, <1>7, <2>3, WireIsFreedInTime
  <2>7. CASE Priority[ClassOf(g)] > Priority[c]
    <3>1. PICK q \in Nat : ClassOf(g) = "class_a" /\ air * K + q <= H
      BY <1>1, <2>4, <2>7, HighIs DEF Solo
    <3>2. d <= air
      BY <2>6, <3>1 DEF Shaped
    <3>3. d * K <= air * K /\ d * K \in Int /\ air * K \in Int
      <4>1. K * d <= K * air /\ K * d = d * K /\ K * air = air * K
        BY <1>6, <2>5, <3>2, ProductMonotone
      <4> QED
        BY <1>6, <2>5, <4>1
    <3>4. d * K <= L + H
      BY <1>6, <3>1, <3>3
    <3>5. BurstOn(l)'
      BY <1>1, <2>3, <3>1 DEF BurstOn, WireClass, ClassOf, StreamOf
    <3> QED
      BY <3>4, <3>5
  <2>8. CASE Priority[ClassOf(g)] < Priority[c]
    <3>1. PICK a \in Nat :
            /\ L = a * K
            /\ \A t \in Stream :
                 Crosses(t, l) /\ Priority[case.class[t]] < Priority[case.class[StreamOf(f)]] =>
                   Airtime(t, l) \in Nat /\ Airtime(t, l) <= a
            /\ LongestAirtime(l, "best_effort") <= a
      BY <1>1, LowIs DEF Solo
    <3>2. air <= a
      BY <2>4, <2>8, <3>1
    <3>3. d <= a
      <4>1. LongestAirtime(l, "best_effort") \in Nat
        BY <1>1, LongestAirtimeFacts DEF TrafficClass
      <4>2. ClassOf(g) \in Shaped \/ ClassOf(g) = "best_effort"
        BY <2>4 DEF Shaped, TrafficClass
      <4> QED
        BY <2>5, <2>6, <3>1, <3>2, <4>1, <4>2
    <3>4. d * K <= L
      <4>1. K * d <= K * a /\ K * d = d * K /\ K * a = a * K
        BY <1>6, <2>5, <3>3, ProductMonotone
      <4> QED
        BY <3>1, <4>1
    <3>5. d * K \in Int /\ d * K <= L + H
      <4>1. d * K \in Int
        BY <1>6, <2>5
      <4> QED
        BY <1>6, <3>4, <4>1
    <3> QED
      BY <3>4, <3>5
  <2> QED
    BY <1>1, <2>4, <2>7, <2>8, PriorityFacts
<1>8. send * ((clock' - enq) * K - L) + K * credit'[l]["class_a"] <= idle * L
  <2> PICK W, a, b, new : /\ W = 0 /\ b = LongestAirtime(l, "best_effort")
                          /\ a \in Nat /\ L = a * K /\ b <= a
                          /\ new = credit'[l]["class_a"]
    BY <1>1, LowIs DEF Solo
  <2>1. b \in Nat
    BY <1>1, LongestAirtimeFacts DEF TrafficClass
  <2>2. new \in Int /\ new <= idle * b
    <3>1. CreditHolds(l)'
      BY DEF CreditInv
    <3>2. Most(l, "class_a")' = idle * b
      BY <1>1, BoundsStand DEF Most
    <3> QED
      BY <3>1, <3>2 DEF CreditHolds, Shaped
  <2>3. W \in Int /\ W <= L
    BY <1>6
  <2>4. send * (W - L) + K * new <= idle * L
    BY <1>6, <2>1, <2>2, <2>3, CreditIsWorth
  <2>5. (clock' - enq) * K = W
    <3>1. clock' - enq = 0 /\ 0 * K = 0
      BY <1>1, <1>6
    <3> QED
      BY <3>1, Zenon
  <2> QED
    BY <2>4, <2>5
<1>9. (clock' - enq) * K <= L + H
  <2>1. enq \in Nat /\ clock' = enq
    BY <1>1
  <2>2. enq - enq = 0
    BY <2>1
  <2>3. (clock' - enq) * K = 0
    BY <1>6, <2>1, <2>2
  <2>4. 0 <= L + H
    BY <1>6
  <2> QED
    BY <2>3, <2>4
<1> QED
  BY <1>1, <1>2, <1>7, <1>8, <1>9, WaitsNext

(* A frame that stays queued waits no longer than allowed.                 *)
LEMMA WaitsStep ==
  ASSUME FrameInv, OrderInv, SpentInv, NoLostWakeup, FrameInv', CreditInv', Next, Running',
         NEW f \in DOMAIN frames, f[2] = 0, Solo(StreamOf(f)),
         NEW l \in Link, Holds(queue[l][ClassOf(f)], f), Holds(queue'[l][ClassOf(f)], f),
         Waits(f, l), frames'[f].enqueuedAt = frames[f].enqueuedAt
  PROVE  Waits(f, l)'
<1>1. Running /\ TypeOK'
  BY StepsRun DEF FrameInv, EngineInv
<1>2. PICK e \in events :
        /\ Dispatch(e)
        /\ \/ Undisturbed(l)
           \/ Synchronizes(l)
           \/ \E d \in TrafficClass, g \in Frame : Transmits(e, l, d, g)
           \/ \E g \in DOMAIN frames : HandleEnd(e, l, g)
  BY <1>1, PortStep
<1>3. CASE Undisturbed(l)
  BY <1>1, <1>2, <1>3, UndisturbedWaits
<1>4. CASE Synchronizes(l)
  BY <1>1, <1>2, <1>4, SyncWaits
<1>5. ASSUME NEW d \in TrafficClass, NEW g \in Frame, Transmits(e, l, d, g)
      PROVE  Waits(f, l)'
  BY <1>1, <1>2, <1>5, StartWaits
<1>6. ASSUME NEW g \in DOMAIN frames, HandleEnd(e, l, g)
      PROVE  Waits(f, l)'
  BY <1>1, <1>2, <1>6, EndWaits
<1> QED
  BY <1>2, <1>3, <1>4, <1>5, <1>6

-----------------------------------------------------------------------------
(* Hop by hop                                                              *)

(* What it takes to be on time after a step.                               *)
LEMMA OnTimeNext ==
  ASSUME case' = case, NEW f, NEW s, s = StreamOf(f), NEW h, h = frames'[f].hop,
         NEW c, c = ClassOf(f), NEW last, last = Len(case.route[s]),
         Running' =>
           /\ \A x \in events' : x.task.kind = "ENQUEUE_FRAME" /\ x.task.frame = f =>
                Meets(x.at, s, h - 1)
           /\ \A l \in Link : Holds(queue'[l][c], f) =>
                Meets(frames'[f].enqueuedAt, s, h - 1) /\ Waits(f, l)'
           /\ \A l \in Link, x \in events' : onWire'[l] = f /\ IsEnd(x, l) => Meets(x.at, s, h)
           /\ \A x \in events' :
                x.task.kind \in {"FORWARD_FRAME", "DELIVERY_COMPLETE"} /\ x.task.frame = f =>
                  Meets(x.at, s, h),
         frames'[f].deliveredAt # None => Meets(frames'[f].deliveredAt, s, last)
  PROVE  OnTime(f)'
<1>1. \A t, n : /\ Meets(t, s, n)' <=> Meets(t, s, n)
  BY UnitsStand
<1>2. ClassOf(f)' = c /\ StreamOf(f)' = s
  BY DEF ClassOf, StreamOf
<1>3. /\ \A t : Meets(t, StreamOf(f), frames[f].hop - 1)' <=> Meets(t, s, h - 1)
      /\ \A t : Meets(t, StreamOf(f), frames[f].hop)' <=> Meets(t, s, h)
  BY <1>2 DEF Meets
<1>4. /\ Meets(frames[f].enqueuedAt, StreamOf(f), frames[f].hop - 1)'
           <=> Meets(frames'[f].enqueuedAt, s, h - 1)
      /\ Meets(frames[f].deliveredAt, StreamOf(f), Len(case.route[StreamOf(f)]))'
           <=> Meets(frames'[f].deliveredAt, s, last)
  BY <1>2 DEF Meets
<1>5. \A x : /\ Meets(x.at, StreamOf(f), frames[f].hop - 1)' <=> Meets(x.at, s, h - 1)
             /\ Meets(x.at, StreamOf(f), frames[f].hop)' <=> Meets(x.at, s, h)
  BY <1>2 DEF Meets
<1>6. Running' =>
        /\ \A x \in events' : x.task.kind = "ENQUEUE_FRAME" /\ x.task.frame = f =>
             Meets(x.at, StreamOf(f), frames[f].hop - 1)'
        /\ \A l \in Link : Holds(queue'[l][ClassOf(f)'], f) =>
             Meets(frames[f].enqueuedAt, StreamOf(f), frames[f].hop - 1)' /\ Waits(f, l)'
        /\ \A l \in Link, x \in events' : onWire'[l] = f /\ IsEnd(x, l)' =>
             Meets(x.at, StreamOf(f), frames[f].hop)'
        /\ \A x \in events' :
             x.task.kind \in {"FORWARD_FRAME", "DELIVERY_COMPLETE"} /\ x.task.frame = f =>
               Meets(x.at, StreamOf(f), frames[f].hop)'
  BY <1>2, <1>4, <1>5 DEF IsEnd
<1>7. frames'[f].deliveredAt # None =>
        Meets(frames[f].deliveredAt, StreamOf(f), Len(case.route[StreamOf(f)]))'
  BY <1>4
<1> QED
  BY <1>6, <1>7 DEF OnTime, Holds

(* What it means to be on time.                                            *)
LEMMA OnTimeNow ==
  ASSUME Running, NEW f, OnTime(f), NEW s, s = StreamOf(f), NEW h, h = frames[f].hop,
         NEW c, c = ClassOf(f), NEW last, last = Len(case.route[s])
  PROVE  /\ \A x \in events : x.task.kind = "ENQUEUE_FRAME" /\ x.task.frame = f =>
              Meets(x.at, s, h - 1)
         /\ \A l \in Link : Holds(queue[l][c], f) =>
              Meets(frames[f].enqueuedAt, s, h - 1) /\ Waits(f, l)
         /\ \A l \in Link, x \in events : onWire[l] = f /\ IsEnd(x, l) => Meets(x.at, s, h)
         /\ \A x \in events :
              x.task.kind \in {"FORWARD_FRAME", "DELIVERY_COMPLETE"} /\ x.task.frame = f =>
                Meets(x.at, s, h)
         /\ frames[f].deliveredAt # None => Meets(frames[f].deliveredAt, s, last)
BY DEF OnTime

(* A frame that a step does not move stays on time.                        *)
LEMMA OthersOnTime ==
  ASSUME FrameInv, OrderInv, SpentInv, NoLostWakeup, FrameInv', CreditInv', Next, Running',
         NEW f \in DOMAIN frames, f[2] = 0, Solo(StreamOf(f)), OnTime(f), SameFrame(f),
         frames'[f].enqueuedAt = frames[f].enqueuedAt
  PROVE  OnTime(f)'
<1> PICK s, h, c, last : /\ s = StreamOf(f) /\ h = frames[f].hop /\ c = ClassOf(f)
                         /\ last = Len(case.route[s])
  OBVIOUS
<1>1. Running /\ TypeOK /\ TypeOK' /\ f \in Frame /\ f # None /\ c \in TrafficClass
  BY StepsRun, FrameFacts, NoneAssumption DEF FrameInv, EngineInv, Frame
<1>2. case' = case
  BY StepKinds DEF Dispatch, StopBefore, Raise, RunDry, Stop, LeaveLoop
<1>3. /\ h = frames'[f].hop /\ frames'[f].deliveredAt = frames[f].deliveredAt
      /\ \A l \in Link : Holds(queue'[l][c], f) <=> Holds(queue[l][c], f)
      /\ \A l \in Link : onWire'[l] = f <=> onWire[l] = f
      /\ \A x : Moves(x.task, f) => (x \in events' <=> x \in events)
  BY <1>1 DEF SameFrame
<1>4. /\ \A x \in events : x.task.kind = "ENQUEUE_FRAME" /\ x.task.frame = f =>
           Meets(x.at, s, h - 1)
      /\ \A l \in Link : Holds(queue[l][c], f) =>
           Meets(frames[f].enqueuedAt, s, h - 1) /\ Waits(f, l)
      /\ \A l \in Link, x \in events : onWire[l] = f /\ IsEnd(x, l) => Meets(x.at, s, h)
      /\ \A x \in events :
           x.task.kind \in {"FORWARD_FRAME", "DELIVERY_COMPLETE"} /\ x.task.frame = f =>
             Meets(x.at, s, h)
      /\ frames[f].deliveredAt # None => Meets(frames[f].deliveredAt, s, last)
  BY <1>1, OnTimeNow
<1>5. \A x \in events' : x.task.kind = "ENQUEUE_FRAME" /\ x.task.frame = f =>
        Meets(x.at, s, h - 1)
  BY <1>3, <1>4 DEF Moves, MoveKind
<1>6. \A x \in events' :
        x.task.kind \in {"FORWARD_FRAME", "DELIVERY_COMPLETE"} /\ x.task.frame = f =>
          Meets(x.at, s, h)
  BY <1>3, <1>4 DEF Moves, MoveKind
<1>7. ASSUME NEW l \in Link, Holds(queue'[l][c], f)
      PROVE  Meets(frames'[f].enqueuedAt, s, h - 1) /\ Waits(f, l)'
  BY <1>3, <1>4, <1>7, WaitsStep
<1>8. ASSUME NEW l \in Link, NEW x \in events', onWire'[l] = f, IsEnd(x, l)
      PROVE  Meets(x.at, s, h)
  <2>1. onWire[l] = f
    BY <1>3, <1>8
  <2>2. x \in events
    <3>1. PICK e \in events :
            \/ Undisturbed(l)
            \/ Synchronizes(l)
            \/ \E d \in TrafficClass, g \in Frame : Transmits(e, l, d, g)
            \/ \E g \in DOMAIN frames : HandleEnd(e, l, g)
      BY <1>1, PortStep
    <3>2. CASE Undisturbed(l)
      BY <1>8, <3>2 DEF Undisturbed
    <3>3. CASE Synchronizes(l)
      BY <1>8, <3>3 DEF Synchronizes, NoNewEnds, IsEnd
    <3>4. ASSUME NEW d \in TrafficClass, NEW g \in Frame, Transmits(e, l, d, g)
          PROVE  FALSE
      BY <1>1, <2>1, <3>4 DEF Transmits
    <3>5. ASSUME NEW g \in DOMAIN frames, HandleEnd(e, l, g)
          PROVE  FALSE
      <4>1. onWire'[l] = None
        BY <1>1, <3>5 DEF HandleEnd, TypeOK
      <4> QED
        BY <1>1, <1>8, <4>1
    <3> QED
      BY <3>1, <3>2, <3>3, <3>4, <3>5
  <2> QED
    BY <1>4, <1>8, <2>1, <2>2
<1>9. frames'[f].deliveredAt # None => Meets(frames'[f].deliveredAt, s, last)
  BY <1>3, <1>4
<1> QED
  BY <1>2, <1>3, <1>5, <1>6, <1>7, <1>8, <1>9, OnTimeNext

(* The first frame of a stream is released at time zero.                   *)
LEMMA ReleaseOnTime ==
  ASSUME FrameInv, NEW e \in events, NEW s \in Stream, HandleRelease(e, s),
         released[s] = 0, Solo(s), NEW f, f = <<s, released[s]>>
  PROVE  OnTime(f)'
<1>0. /\ At(f, 0)' /\ frames'[f].hop = 1 /\ frames'[f].deliveredAt = None
      /\ StreamOf(f) = s
      /\ \A x \in events : ~Moves(x.task, f)
  <2>1. At(f, 0)' /\ \A x \in events : ~Moves(x.task, f)
    BY ReleaseMoves
  <2>2. frames'[f].hop = 1
    BY ReleaseMoves
  <2>3. frames'[f].deliveredAt = None
    BY ReleaseMoves
  <2>4. StreamOf(f) = s
    BY ReleaseMoves
  <2> QED
    BY <2>1, <2>2, <2>3, <2>4
<1> PICK arrival, new : Announces(e, f, arrival, new)
  BY ReleaseMoves
<1> PICK h, c, zero : h = 1 /\ c = ClassOf(f) /\ zero = 0
  OBVIOUS
<1>1. Dispatch(e) /\ e.task = ReleaseFrame(s)
  BY DEF HandleRelease
<1>2. TypeOK /\ case' = case /\ clock' \in Nat /\ clock' = e.at /\ ReleaseInTime(s)
  BY <1>1, DispatchFacts
<1>3. h = frames'[f].hop
  BY <1>0
<1>4. clock' = 0
  <2>1. released[s] = 0 /\ case.period[s] \in Nat
    BY <1>2, CaseFacts DEF TypeOK
  <2>2. e.at = released[s] * case.period[s]
    BY <1>1, <1>2 DEF ReleaseInTime
  <2> QED
    BY <1>2, <2>1, <2>2
<1>5. Meets(clock', s, h - 1)
  <2>1. Scale(case) \in Nat /\ Allowed(case, s, zero) = 0
    BY <1>2, ScaleFacts, AllowedGrows
  <2>2. clock' * Scale(case) = 0
    BY <1>4, <2>1
  <2>3. h - 1 = zero
    OBVIOUS
  <2>4. clock' * Scale(case) <= Allowed(case, s, zero)
    BY <2>1, <2>2
  <2> QED
    BY <2>3, <2>4 DEF Meets
<1>6. \A x \in events' : x.task.kind = "ENQUEUE_FRAME" /\ x.task.frame = f =>
        Meets(x.at, s, h - 1)
  BY <1>0, <1>5 DEF Announces, Moves, MoveKind
<1>7. \A k \in Link : ~Holds(queue'[k][c], f)
  <2>1. ClassOf(f) \in TrafficClass
    BY <1>0, <1>2, CaseFacts DEF ClassOf, TypeOK
  <2> QED
    BY <1>0, <2>1 DEF At, Queued, Holds
<1>8. /\ \A k \in Link : onWire'[k] # f
      /\ \A x \in events' :
           ~(x.task.kind \in {"FORWARD_FRAME", "DELIVERY_COMPLETE"} /\ x.task.frame = f)
  BY <1>0 DEF At, OnAWire, Leaving
<1> QED
  BY <1>0, <1>2, <1>3, <1>6, <1>7, <1>8, OnTimeNext

(* It joins a queue at the instant it arrives.                             *)
LEMMA EnqueueOnTime ==
  ASSUME FrameInv, OrderInv, SpentInv, Running,
         FrameInv', CreditInv', ReservationInv', Running',
         NEW e \in events, NEW f \in DOMAIN frames, NEW l \in Link, HandleEnqueue(e, f, l),
         f[2] = 0, Solo(StreamOf(f)), OnTime(f)
  PROVE  OnTime(f)'
<1> PICK s, h, c : s = StreamOf(f) /\ h = frames[f].hop /\ c = ClassOf(f)
  OBVIOUS
<1>1. /\ Dispatch(e) /\ e.task = EnqueueFrame(f, l)
      /\ frames' = [frames EXCEPT ![f].enqueuedAt = clock']
  BY DEF HandleEnqueue
<1>2. /\ TypeOK /\ case' = case /\ clock' \in Nat /\ clock' = e.at
      /\ c \in TrafficClass /\ frames[f] \in FrameState
  BY <1>1, DispatchFacts, FrameFacts
<1>3. At(f, 1)' /\ Placed(f)' /\ h = frames'[f].hop
  BY EnqueueMoves DEF Moved
<1>4. Meets(e.at, s, h - 1)
  <2>1. e.task.kind = "ENQUEUE_FRAME" /\ e.task.frame = f
    BY <1>1, TaskFields, MoveFields
  <2> QED
    BY <2>1, OnTimeNow
<1>5. frames'[f].enqueuedAt = clock'
  BY <1>1, <1>2 DEF FrameState
<1>6. ASSUME NEW k \in Link, Holds(queue'[k][c], f)
      PROVE  Meets(frames'[f].enqueuedAt, s, h - 1) /\ Waits(f, k)'
  <2>1. k = l
    <3>1. k = HopLink(f)'
      BY <1>2, <1>3, <1>6 DEF Placed, Holds
    <3>2. HopLink(f)' = HopLink(f)
      BY <1>2, <1>3 DEF HopLink, RouteOf, StreamOf
    <3>3. HopLink(f) = l
      <4>1. e.task.kind = "ENQUEUE_FRAME" /\ e.task.frame = f /\ e.task.link = l
        BY <1>1, TaskFields, MoveFields
      <4>2. Placed(f) /\ Moves(e.task, f)
        BY <4>1 DEF FrameInv, Moves, MoveKind
      <4> QED
        BY <4>1, <4>2 DEF Placed
    <3> QED
      BY <3>1, <3>2, <3>3
  <2>2. Waits(f, l)'
    BY EnqueueWaits
  <2> QED
    BY <1>2, <1>4, <1>5, <2>1, <2>2
<1>7. /\ \A x \in events' : ~(x.task.kind = "ENQUEUE_FRAME" /\ x.task.frame = f)
      /\ \A k \in Link : onWire'[k] # f
      /\ \A x \in events' :
           ~(x.task.kind \in {"FORWARD_FRAME", "DELIVERY_COMPLETE"} /\ x.task.frame = f)
      /\ frames'[f].deliveredAt = None
  BY <1>3 DEF At, Arriving, OnAWire, Leaving, Delivered
<1> QED
  BY <1>2, <1>3, <1>6, <1>7, OnTimeNext

(* Its transmission ends within the bound of the link.                     *)
LEMMA StartOnTime ==
  ASSUME FrameInv, Running, FrameInv',
         NEW e \in events, NEW l \in Link, NEW d \in TrafficClass, NEW f \in Frame,
         Transmits(e, l, d, f), f \in DOMAIN frames,
         f[2] = 0, Solo(StreamOf(f)), OnTime(f), OrderInv, SpentInv, NoLostWakeup
  PROVE  OnTime(f)'
<1> PICK s, h, c : s = StreamOf(f) /\ h = frames[f].hop /\ c = ClassOf(f)
  OBVIOUS
<1>1. /\ TypeOK /\ case' = case /\ clock' \in Nat /\ onWire[l] = None
      /\ c = d /\ s \in Stream /\ Crosses(s, l)
      /\ \A x \in events' : IsEnd(x, l) => x.at = clock' + Airtime(s, l)
  BY StartFacts
<1>2. /\ At(f, 2)' /\ Placed(f)' /\ h = frames'[f].hop
      /\ Holds(queue[l][c], f) /\ Dispatch(e)
  <2>1. Moved(f, 1, 2) /\ Holds(queue[l][d], f)
    BY StartMoves
  <2>2. Dispatch(e) /\ frames' = frames
    BY DEF Transmits
  <2> QED
    BY <1>1, <2>1, <2>2 DEF Moved
<1>3. HopLink(f) = l /\ clock' = clock
  BY <1>1, <1>2, FirstIsNotHeldUp
<1>4. Placed(f)
  BY DEF FrameInv
<1> PICK enq, K, L, H, air : /\ enq = frames[f].enqueuedAt /\ K = Scale(case)
                             /\ L = Low(s, l) /\ H = High(s, l) /\ air = Airtime(s, l)
  OBVIOUS
<1>5. Meets(enq, s, h - 1) /\ enq \in Nat /\ (clock' - enq) * K <= L + H
  <2>1. Meets(enq, s, h - 1) /\ Waits(f, l)
    BY <1>2, OnTimeNow
  <2>2. enq \in Nat /\ (clock - enq) * K <= L + H
    BY <1>1, <2>1, WaitsNow
  <2> QED
    BY <1>3, <2>1, <2>2
<1>6. K \in Nat \ {0} /\ L \in Nat /\ H \in Nat /\ air \in Nat
  BY <1>1, UnitFacts, AirtimeNat
<1>7. /\ Allowed(case, s, h - 1) \in Nat
      /\ Allowed(case, s, h) = Allowed(case, s, h - 1) + (air * K + L + H)
  <2>1. h \in 1..Len(case.route[s]) /\ case.route[s][h] = l
    BY <1>1, <1>3, <1>4, PlacedFacts DEF HopLink, RouteOf
  <2>2. /\ Allowed(case, s, h - 1) \in Nat
        /\ Allowed(case, s, h) = Allowed(case, s, h - 1) + LinkBound(case, case.period, s, l)
    BY <1>1, <2>1, AllowedGrows
  <2>3. LinkBound(case, case.period, s, l) = air * K + L + H
    BY <1>1, LinkBoundIs
  <2> QED
    BY <2>2, <2>3
<1>8. Meets(clock' + air, s, h)
  <2> PICK t, A, B, Z, X : /\ t = clock' /\ A = Allowed(case, s, h - 1) /\ B = Allowed(case, s, h)
                           /\ Z = enq * K /\ X = (t - enq) * K
    OBVIOUS
  <2>1. t \in Nat /\ Z \in Int /\ X \in Int /\ air * K \in Int
    <3>1. t \in Nat /\ t - enq \in Int
      BY <1>1, <1>5
    <3> QED
      BY <1>5, <1>6, <3>1
  <2>2. Z <= A /\ X <= L + H
    BY <1>5 DEF Meets
  <2>3. (t + air) * K = Z + X + air * K
    <3>1. t * K = Z + X
      <4> PICK w \in Int : w = t - enq
        BY <1>5, <2>1
      <4>1. t = enq + w
        BY <1>5, <2>1
      <4>2. (enq + w) * K = enq * K + w * K
        BY <1>5, <1>6
      <4> QED
        BY <4>1, <4>2
    <3>2. (t + air) * K = t * K + air * K
      BY <1>6, <2>1
    <3> QED
      BY <3>1, <3>2
  <2>4. A \in Nat /\ B = A + (air * K + L + H)
    BY <1>7
  <2>5. (t + air) * K <= B
    BY <1>6, <2>1, <2>2, <2>3, <2>4
  <2> QED
    BY <2>5 DEF Meets
<1>9. ASSUME NEW k \in Link, NEW x \in events', onWire'[k] = f, IsEnd(x, k)
      PROVE  Meets(x.at, s, h)
  <2>1. k = l
    <3>1. k = HopLink(f)'
      BY <1>2, <1>9 DEF Placed
    <3>2. HopLink(f)' = HopLink(f)
      BY <1>1, <1>2 DEF HopLink, RouteOf, StreamOf
    <3> QED
      BY <1>3, <3>1, <3>2
  <2> QED
    BY <1>1, <1>8, <1>9, <2>1
<1>10. /\ \A x \in events' : ~(x.task.kind = "ENQUEUE_FRAME" /\ x.task.frame = f)
       /\ \A k \in Link : ~Holds(queue'[k][c], f)
       /\ \A x \in events' :
            ~(x.task.kind \in {"FORWARD_FRAME", "DELIVERY_COMPLETE"} /\ x.task.frame = f)
       /\ frames'[f].deliveredAt = None
  BY <1>1, <1>2 DEF At, Arriving, Queued, Leaving, Delivered, Holds
<1> QED
  BY <1>1, <1>2, <1>9, <1>10, OnTimeNext

(* The end of its transmission is the time at which it leaves the link.    *)
LEMMA EndOnTime ==
  ASSUME FrameInv, Running,
         NEW e \in events, NEW f \in DOMAIN frames, NEW l \in Link, HandleEnd(e, l, f),
         OnTime(f)
  PROVE  OnTime(f)'
<1> PICK s, h, c : s = StreamOf(f) /\ h = frames[f].hop /\ c = ClassOf(f)
  OBVIOUS
<1>1. Dispatch(e) /\ e.task = TransmissionEnd(l, f)
  BY DEF HandleEnd
<1>2. TypeOK /\ case' = case /\ clock' = e.at /\ c \in TrafficClass
  BY <1>1, DispatchFacts, FrameFacts
<1>3. /\ At(f, 2) /\ At(f, 3)' /\ frames' = frames /\ onWire[l] = f
      /\ \E arrival, new :
           /\ events' = (events \ {e}) \cup ({arrival} \cup new)
           /\ arrival.at = clock'
           /\ \A n \in new : n.task.kind \notin MoveKind
  BY EndMoves DEF Moved
<1>4. Meets(clock', s, h)
  <2>1. IsEnd(e, l)
    BY <1>1, TaskFields DEF IsEnd
  <2> QED
    BY <1>2, <1>3, <2>1, OnTimeNow
<1>5. \A x \in events' :
        x.task.kind \in {"FORWARD_FRAME", "DELIVERY_COMPLETE"} /\ x.task.frame = f =>
          Meets(x.at, s, h)
  <2>1. \A x \in events :
          ~(x.task.kind \in {"FORWARD_FRAME", "DELIVERY_COMPLETE"} /\ x.task.frame = f)
    BY <1>3 DEF At, Leaving
  <2> QED
    BY <1>3, <1>4, <2>1 DEF MoveKind
<1>6. /\ \A x \in events' : ~(x.task.kind = "ENQUEUE_FRAME" /\ x.task.frame = f)
      /\ \A k \in Link : ~Holds(queue'[k][c], f)
      /\ \A k \in Link : onWire'[k] # f
      /\ frames'[f].deliveredAt = None
  BY <1>2, <1>3 DEF At, Arriving, Queued, OnAWire, Delivered, Holds
<1> QED
  BY <1>2, <1>3, <1>5, <1>6, OnTimeNext

(* It arrives at the next hop at that time.                                *)
LEMMA ForwardOnTime ==
  ASSUME FrameInv, Running,
         NEW e \in events, NEW f \in DOMAIN frames, HandleForward(e, f), OnTime(f)
  PROVE  OnTime(f)'
<1> PICK s, h, c : s = StreamOf(f) /\ h = frames[f].hop /\ c = ClassOf(f)
  OBVIOUS
<1>1. Dispatch(e) /\ e.task = ForwardFrame(f)
  BY DEF HandleForward
<1>2. TypeOK /\ case' = case /\ clock' = e.at /\ c \in TrafficClass /\ h \in Nat
  BY <1>1, DispatchFacts, FrameFacts DEF FrameState
<1>3. /\ At(f, 3) /\ At(f, 0)' /\ frames'[f].hop = h + 1
      /\ \E arrival :
           /\ events' = (events \ {e}) \cup {arrival}
           /\ arrival.at = clock'
  BY ForwardMoves
<1> PICK next : next = h + 1
  OBVIOUS
<1>4. Meets(clock', s, next - 1)
  <2>1. e.task.kind = "FORWARD_FRAME" /\ e.task.frame = f
    BY <1>1, TaskFields, MoveFields
  <2>2. Meets(e.at, s, h)
    BY <2>1, OnTimeNow
  <2>3. next - 1 = h
    BY <1>2
  <2> QED
    BY <1>2, <2>2, <2>3
<1>5. \A x \in events' : x.task.kind = "ENQUEUE_FRAME" /\ x.task.frame = f =>
        Meets(x.at, s, next - 1)
  <2>1. \A x \in events : ~(x.task.kind = "ENQUEUE_FRAME" /\ x.task.frame = f)
    BY <1>3 DEF At, Arriving
  <2> QED
    BY <1>3, <1>4, <2>1
<1>6. /\ \A k \in Link : ~Holds(queue'[k][c], f)
      /\ \A k \in Link : onWire'[k] # f
      /\ \A x \in events' :
           ~(x.task.kind \in {"FORWARD_FRAME", "DELIVERY_COMPLETE"} /\ x.task.frame = f)
      /\ frames'[f].deliveredAt = None
  BY <1>2, <1>3 DEF At, Queued, OnAWire, Leaving, Delivered, Holds
<1> QED
  BY <1>2, <1>3, <1>5, <1>6, OnTimeNext

(* It is delivered at that time.                                           *)
LEMMA DeliveryOnTime ==
  ASSUME FrameInv, Running,
         NEW e \in events, NEW f \in DOMAIN frames, HandleDelivery(e, f), OnTime(f)
  PROVE  OnTime(f)'
<1> PICK s, h, c : s = StreamOf(f) /\ h = frames[f].hop /\ c = ClassOf(f)
  OBVIOUS
<1>1. /\ Dispatch(e) /\ e.task = DeliveryComplete(f)
      /\ frames' = [frames EXCEPT ![f].deliveredAt = clock']
  BY DEF HandleDelivery
<1>2. /\ TypeOK /\ case' = case /\ clock' = e.at /\ c \in TrafficClass
      /\ frames[f] \in FrameState
  BY <1>1, DispatchFacts, FrameFacts
<1>3. At(f, 4)' /\ frames'[f].hop = h
  BY DeliveryMoves DEF Moved
<1> PICK last : last = Len(case.route[s])
  OBVIOUS
<1>4. Meets(e.at, s, last)
  <2>1. e.task.kind = "DELIVERY_COMPLETE" /\ e.task.frame = f
    BY <1>1, TaskFields, MoveFields
  <2>2. Meets(e.at, s, h)
    BY <2>1, OnTimeNow
  <2>3. h = last
    <3>1. Placed(f)
      BY DEF FrameInv
    <3>2. IsLastHop(f) /\ h <= last /\ h \in Nat /\ last \in Nat
      BY <1>2, <2>1, <3>1, PlacedFacts DEF Placed, Moves, MoveKind, RouteOf
    <3> QED
      BY <3>2 DEF IsLastHop, RouteOf
  <2> QED
    BY <2>2, <2>3
<1>5. frames'[f].deliveredAt = clock'
  BY <1>1, <1>2 DEF FrameState
<1>6. /\ \A x \in events' : ~(x.task.kind = "ENQUEUE_FRAME" /\ x.task.frame = f)
      /\ \A k \in Link : ~Holds(queue'[k][c], f)
      /\ \A k \in Link : onWire'[k] # f
      /\ \A x \in events' :
           ~(x.task.kind \in {"FORWARD_FRAME", "DELIVERY_COMPLETE"} /\ x.task.frame = f)
  BY <1>2, <1>3 DEF At, Arriving, Queued, OnAWire, Leaving, Holds
<1> QED
  BY <1>2, <1>3, <1>4, <1>5, <1>6, OnTimeNext

(* What has been delivered stays so when the loop is left.                 *)
LEMMA LeavingOnTime ==
  ASSUME Next, ~Running', NEW f \in DOMAIN frames, OnTime(f)
  PROVE  OnTime(f)'
<1> PICK s, h, c, last : /\ s = StreamOf(f) /\ h = frames[f].hop /\ c = ClassOf(f)
                         /\ last = Len(case.route[s])
  OBVIOUS
<1>1. case' = case /\ frames' = frames
  BY LeavingKeepsFrames
<1>2. frames[f].deliveredAt # None => Meets(frames[f].deliveredAt, s, last)
  BY DEF OnTime
<1> QED
  BY <1>1, <1>2, OnTimeNext

(* What the first frames' bound rests on.                                  *)
BoundInv ==
  /\ FrameInv /\ OrderInv /\ NoLostWakeup /\ ReleaseInv
  /\ CreditInv /\ ReservationInv /\ SpentInv
  /\ FirstInv

(* Every handler leaves the first frames on time.                          *)
LEMMA FirstStep ==
  ASSUME FrameInv, OrderInv, SpentInv, NoLostWakeup, FirstInv, Next,
         FrameInv', CreditInv', ReservationInv'
  PROVE  FirstInv'
<1>1. Running /\ TypeOK
  BY StepsRun DEF FrameInv, EngineInv
<1>2. case' = case
  BY StepKinds DEF Dispatch, StopBefore, Raise, RunDry, Stop, LeaveLoop
<1>3. \A s : Solo(s)' <=> Solo(s)
  BY <1>2 DEF Solo, AloneInClass
<1> DEFINE Early(f) == f[2] = 0 /\ Solo(StreamOf(f))
<1>4. \A f \in DOMAIN frames : Early(f) => OnTime(f)
  BY DEF FirstInv
<1> SUFFICES ASSUME NEW f \in DOMAIN frames', f[2] = 0, Solo(StreamOf(f))
             PROVE  OnTime(f)'
  <2>1. \A f : Solo(StreamOf(f))' <=> Solo(StreamOf(f))
    BY <1>3 DEF StreamOf
  <2> QED
    BY <2>1 DEF FirstInv
<1>5. CASE ~Running'
  <2>1. f \in DOMAIN frames
    BY <1>5, LeavingKeepsFrames
  <2> QED
    BY <1>4, <1>5, <2>1, LeavingOnTime
<1>6. ASSUME Running', f \in DOMAIN frames, SameFrame(f),
             frames'[f].enqueuedAt = frames[f].enqueuedAt
      PROVE  OnTime(f)'
  BY <1>4, <1>6, OthersOnTime
<1>7. ASSUME Running', NEW e \in events, NEW s \in Stream, HandleRelease(e, s)
      PROVE  OnTime(f)'
  <2> PICK g : g = <<s, released[s]>>
    OBVIOUS
  <2>1. DOMAIN frames' = DOMAIN frames \cup {g} /\ StreamOf(g) = s
    BY <1>7, ReleaseMoves
  <2>2. \A x \in DOMAIN frames : SameFrame(x) /\ frames'[x] = frames[x]
    BY <1>7, ReleaseMoves
  <2>3. CASE f \in DOMAIN frames
    BY <1>6, <1>7, <2>2, <2>3
  <2>4. CASE f = g
    <3>1. released[s] = 0 /\ Solo(s)
      BY <2>1, <2>4
    <3> QED
      BY <1>7, <2>4, <3>1, ReleaseOnTime
  <2> QED
    BY <2>1, <2>3, <2>4
<1>8. ASSUME Running', NEW e \in events, NEW g \in DOMAIN frames, NEW l \in Link,
             HandleEnqueue(e, g, l)
      PROVE  OnTime(f)'
  <2>1. /\ DOMAIN frames' = DOMAIN frames
        /\ \A x \in DOMAIN frames \ {g} : SameFrame(x)
    BY <1>8, EnqueueMoves DEF Moved
  <2>2. CASE f = g
    BY <1>1, <1>4, <1>8, <2>2, EnqueueOnTime
  <2>3. CASE f # g
    <3>1. frames'[f] = frames[f]
      BY <1>8, <2>1, <2>3 DEF HandleEnqueue
    <3> QED
      BY <1>6, <1>8, <2>1, <2>3, <3>1
  <2> QED
    BY <2>2, <2>3
<1>9. ASSUME Running', NEW e \in events, NEW l \in Link, HandleStart(e, l)
      PROVE  OnTime(f)'
  <2> PICK d \in TrafficClass, g \in Frame : Transmits(e, l, d, g)
    BY <1>9, StartChooses
  <2>1. /\ g \in DOMAIN frames /\ frames' = frames
        /\ \A x \in DOMAIN frames \ {g} : SameFrame(x)
    BY StartMoves DEF Moved, Transmits
  <2>2. CASE f = g
    BY <1>1, <1>4, <2>1, <2>2, StartOnTime
  <2>3. CASE f # g
    BY <1>6, <1>9, <2>1, <2>3
  <2> QED
    BY <2>2, <2>3
<1>10. ASSUME Running', NEW e \in events, NEW g \in DOMAIN frames, NEW l \in Link,
              HandleEnd(e, l, g)
       PROVE  OnTime(f)'
  <2>1. frames' = frames /\ \A x \in DOMAIN frames \ {g} : SameFrame(x)
    BY <1>10, EndMoves DEF Moved
  <2>2. CASE f = g
    BY <1>1, <1>4, <1>10, <2>2, EndOnTime
  <2>3. CASE f # g
    BY <1>6, <1>10, <2>1, <2>3
  <2> QED
    BY <2>2, <2>3
<1>11. ASSUME Running', NEW e \in events, NEW g \in DOMAIN frames, HandleForward(e, g)
       PROVE  OnTime(f)'
  <2>1. /\ DOMAIN frames' = DOMAIN frames
        /\ \A x \in DOMAIN frames \ {g} : SameFrame(x)
    BY <1>11, ForwardMoves
  <2>2. CASE f = g
    BY <1>1, <1>4, <1>11, <2>2, ForwardOnTime
  <2>3. CASE f # g
    <3>1. frames'[f] = frames[f]
      BY <1>11, <2>1, <2>3 DEF HandleForward
    <3> QED
      BY <1>6, <1>11, <2>1, <2>3, <3>1
  <2> QED
    BY <2>2, <2>3
<1>12. ASSUME Running', NEW e \in events, NEW g \in DOMAIN frames, HandleDelivery(e, g)
       PROVE  OnTime(f)'
  <2>1. /\ DOMAIN frames' = DOMAIN frames
        /\ \A x \in DOMAIN frames \ {g} : SameFrame(x)
    BY <1>12, DeliveryMoves DEF Moved
  <2>2. CASE f = g
    BY <1>1, <1>4, <1>12, <2>2, DeliveryOnTime
  <2>3. CASE f # g
    <3>1. frames'[f] = frames[f]
      BY <1>12, <2>1, <2>3 DEF HandleDelivery
    <3> QED
      BY <1>6, <1>12, <2>1, <2>3, <3>1
  <2> QED
    BY <2>2, <2>3
<1>13. ASSUME Running', NEW e \in events, NEW l \in Link, NEW c \in Shaped,
              HandleCreditUpdate(e, l, c)
       PROVE  OnTime(f)'
  <2>1. frames' = frames /\ \A x \in DOMAIN frames : SameFrame(x)
    BY <1>13, CreditUpdateMovesNothing
  <2> QED
    BY <1>6, <1>13, <2>1
<1>14. ASSUME Running', NEW e \in events, HandleFinalize(e) \/ StopBefore(e) \/ Raise(e)
       PROVE  FALSE
  BY <1>14 DEF HandleFinalize, StopBefore, Raise, LeaveLoop, Running
<1>15. ~(Running' /\ (RunDry \/ Stop))
  BY DEF RunDry, Stop, LeaveLoop, Running
<1> QED
  BY <1>5, <1>7, <1>8, <1>9, <1>10, <1>11, <1>12, <1>13, <1>14, <1>15 DEF Next

(* A step that changes nothing leaves the first frames on time.            *)
LEMMA FirstStutters ==
  ASSUME FirstInv, UNCHANGED vars
  PROVE  FirstInv'
<1>1. /\ case' = case /\ clock' = clock /\ events' = events /\ frames' = frames
      /\ queue' = queue /\ credit' = credit /\ syncedAt' = syncedAt /\ onWire' = onWire
      /\ status' = status
  BY DEF vars, portVars
<1>2. \A f, l : Waits(f, l)' <=> Waits(f, l)
  BY <1>1 DEF Waits, Waited, Low, High, BurstOn, WireClass, ClassOf, StreamOf, IsEnd
<1>3. ASSUME NEW f, OnTime(f)
      PROVE  OnTime(f)'
  <2> PICK s, h, c, last : /\ s = StreamOf(f) /\ h = frames[f].hop /\ c = ClassOf(f)
                           /\ last = Len(case.route[s])
    OBVIOUS
  <2>1. frames[f].deliveredAt # None => Meets(frames[f].deliveredAt, s, last)
    BY <1>3 DEF OnTime
  <2>2. CASE Running
    BY <1>1, <1>2, <1>3, <2>1, <2>2, OnTimeNow, OnTimeNext
  <2>3. CASE ~Running
    BY <1>1, <2>1, <2>3, OnTimeNext DEF Running
  <2> QED
    BY <2>2, <2>3
<1>4. \A f : Solo(StreamOf(f))' <=> Solo(StreamOf(f))
  BY <1>1 DEF Solo, AloneInClass, StreamOf
<1> QED
  BY <1>1, <1>3, <1>4 DEF FirstInv

(* Every step keeps the invariant. *)
LEMMA BoundStep ==
  ASSUME BoundInv, [Next]_vars
  PROVE  BoundInv'
<1>1. TypeOK /\ IsFiniteSet(DOMAIN frames)
  BY DEF BoundInv, FrameInv, EngineInv, ReservationInv
<1>2. FrameInv' /\ OrderInv' /\ ReleaseInv'
  BY FrameStep, OrderStep, ReleaseStep DEF BoundInv
<1>3. TypeOK'
  BY <1>2 DEF FrameInv, EngineInv
<1>4. NoLostWakeup'
  BY <1>1, AwakeStep DEF BoundInv
<1>5. CreditInv' /\ ReservationInv'
  BY <1>2, CreditStep, ReservationStep DEF BoundInv
<1>6. SpentInv'
  BY <1>1, <1>3, SpentStep DEF BoundInv
<1>7. FirstInv'
  <2>1. CASE Next
    BY <1>2, <1>5, <2>1, FirstStep DEF BoundInv
  <2>2. CASE UNCHANGED vars
    BY <2>2, FirstStutters DEF BoundInv
  <2> QED
    BY <2>1, <2>2
<1> QED
  BY <1>2, <1>4, <1>5, <1>6, <1>7 DEF BoundInv

(* A run starts with no frames. *)
LEMMA BoundInit ==
  ASSUME Init
  PROVE  BoundInv
<1>1. FirstInv
  BY DEF Init, FirstInv
<1>2. NoLostWakeup
  BY DEF Init, NoLostWakeup, Awake
<1> QED
  BY <1>1, <1>2, FrameInit, OrderInit, ReleaseInit, CreditInit, ReservationInit, SpentInit
     DEF BoundInv

(* A first frame that has been delivered took no longer than its bound.    *)
LEMMA OnTimeMeansBounded ==
  ASSUME BoundInv
  PROVE  FirstFrameIsBounded
<1>1. TypeOK
  BY DEF BoundInv, FrameInv, EngineInv
<1> SUFFICES ASSUME NEW f \in DOMAIN frames, f[2] = 0, AloneInClass(StreamOf(f)),
                    ClassOf(f) \in Shaped, frames[f].deliveredAt # None
             PROVE  (frames[f].deliveredAt - frames[f].releasedAt) * Scale(case)
                      <= Wcrt(case, case.period, StreamOf(f))
  BY DEF FirstFrameIsBounded, InBound
<1> PICK s, last, t : /\ s = StreamOf(f) /\ last = Len(case.route[s])
                      /\ t = frames[f].deliveredAt
  OBVIOUS
<1>2. Solo(s) /\ s \in Stream /\ t \in Nat
  BY <1>1, FrameFacts DEF Solo, ClassOf, FrameState
<1>3. Meets(t, s, last)
  <2>1. OnTime(f)
    BY <1>2 DEF BoundInv, FirstInv
  <2> QED
    BY <2>1 DEF OnTime
<1>4. frames[f].releasedAt = 0
  <2>1. frames[f].releasedAt = f[2] * case.period[s]
    BY DEF BoundInv, ReleaseInv, ReleasedInTime
  <2>2. case.period[s] \in Nat
    BY <1>1, <1>2, CaseFacts DEF TypeOK
  <2> QED
    BY <2>1, <2>2
<1>5. t * Scale(case) <= Wcrt(case, case.period, s)
  BY <1>1, <1>2, <1>3, WcrtIs DEF Meets
<1>6. t - 0 = t
  BY <1>2
<1> QED
  BY <1>4, <1>5, <1>6

(* A delivered first frame of a stream that shares its class with nobody   *)
(* on its links took no longer than the end-to-end bound of the analysis.  *)
THEOREM FirstFramesMeetTheirBound == Spec => []FirstFrameIsBounded
<1>1. Init => BoundInv
  BY BoundInit
<1>2. BoundInv /\ [Next]_vars => BoundInv'
  BY BoundStep
<1>3. BoundInv => FirstFrameIsBounded
  BY OnTimeMeansBounded
<1> QED
  BY <1>1, <1>2, <1>3, PTL DEF Spec
=============================================================================
