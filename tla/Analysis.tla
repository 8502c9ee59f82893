------------------------------- MODULE Analysis --------------------------------
(***************************************************************************)
(* The analytical engine of analysis/: the link contexts, the interference *)
(* terms of one link and their sum over a route, as functions of a case k  *)
(* (class, period, route, size, pace and slopes, as in Simulator) and of   *)
(* the streams' deadlines d.  The two slopes of a class share the speed of *)
(* a link, so the idle share is idle / (idle + send).  Times are           *)
(* multiples of 1 / Scale(k), in which every quotient is whole.            *)
(***************************************************************************)
EXTENDS CbsPolicy, FiniteSetsExt, SequencesExt

Whole(k, c) == k.slopes[c].idle + k.slopes[c].send
Scale(k) == k.slopes["class_a"].idle * k.slopes["class_b"].idle * k.slopes["class_a"].send

(* The shares of the class and of the classes above it fit the link.       *)
Feasible(k, c) ==
    c = "class_b" =>
      k.slopes["class_a"].idle * Whole(k, "class_b") + k.slopes["class_b"].idle * Whole(k, "class_a")
        <= Whole(k, "class_a") * Whole(k, "class_b")

(* The preconditions hold for every AVB stream, or none gets a bound.      *)
Analysable(k) ==
    \A s \in DOMAIN k.class :
      k.class[s] \in Shaped => k.route[s] # <<>> /\ Feasible(k, k.class[s])

(* The other streams whose route crosses l, by priority.                   *)
Others(k, s, l)  == {t \in DOMAIN k.class \ {s} : Contains(k.route[t], l)}
SameOn(k, s, l)  == {t \in Others(k, s, l) : Priority[k.class[t]] = Priority[k.class[s]]}
AboveOn(k, s, l) == {t \in Others(k, s, l) : Priority[k.class[t]] > Priority[k.class[s]]}
BelowOn(k, s, l) == {t \in Others(k, s, l) : Priority[k.class[t]] < Priority[k.class[s]]}

TransmissionTime(k, s, l) == k.size[s] * k.pace[l] * Scale(k)
Longest(k, streams, l) == Max({0} \cup {TransmissionTime(k, t, l) : t \in streams})

(* A frame and the time its credit takes to recover from it.               *)
EligibleInterval(k, t, l) ==
    (TransmissionTime(k, t, l) * Whole(k, k.class[t])) \div k.slopes[k.class[t]].idle

(* Frames of t that may be queued ahead of one of s.                       *)
QueuedAhead(k, d, s, t) ==
    IF d[s] <= k.period[s] THEN 1
    ELSE Max({1, (d[s] + k.period[t] - 1) \div k.period[t]})

SamePriority(k, d, s, l) ==
    MapThenSumSet(LAMBDA t : QueuedAhead(k, d, s, t) * EligibleInterval(k, t, l), SameOn(k, s, l))

LowerPriority(k, s, l) == Longest(k, BelowOn(k, s, l), l)

(* Mutant: a class B frame waits for nobody above it.                      *)
HigherPriorityIgnored(k, s, l) == 0

(* Class B waits for the longest class A frame and for what class A sends  *)
(* on the credit it earns behind a lower frame.                            *)
HigherPriority(k, s, l) ==
    IF k.class[s] = "class_a" \/ AboveOn(k, s, l) = {} THEN 0
    ELSE Longest(k, AboveOn(k, s, l), l)
           + (LowerPriority(k, s, l) * k.slopes["class_a"].idle) \div k.slopes["class_a"].send

LinkBound(k, d, s, l) ==
    TransmissionTime(k, s, l) + SamePriority(k, d, s, l) + LowerPriority(k, s, l)
      + HigherPriority(k, s, l)

(* The end-to-end worst-case response time of an AVB stream.               *)
Wcrt(k, d, s) == FoldSeq(LAMBDA l, sum : sum + LinkBound(k, d, s, l), 0, k.route[s])
=============================================================================
