----------------------------- MODULE MCSimulator -----------------------------
(***************************************************************************)
(* Three families of small cases for Simulator.  Streams sa and sx are     *)
(* class A and best effort, sb is class B (or a second class A stream).    *)
(***************************************************************************)
EXTENDS AnalysisProperties, TLC

CONSTANTS sa, sb, sx, l1, l2, l3

ThreeStreams == {sa, sb, sx}
TwoStreams == {sa, sx}

Per(a, b, x) == (sa :> a) @@ (sb :> b) @@ (sx :> x)
Slopes(a, b) == [class_a |-> a, class_b |-> b]
Even == [idle |-> 1, send |-> 1]     \* the default: half of the link each
Steep == [idle |-> 1, send |-> 3]
Flat == [idle |-> 2, send |-> 1]

(* The configuration of a run that ends when the event queue is empty. *)
Unlimited ==
  [maxReleases |-> None, maxDeliveries |-> None, timeLimit |-> None,
   maxEvents |-> 1000, maxHyperperiod |-> 12, stopWhenObserved |-> TRUE]

-----------------------------------------------------------------------------
(* One port: every release pattern of three periods over one hyperperiod,  *)
(* short and long best-effort frames, slopes that recover slowly and fast. *)

OneLink == {l1}

OneLinkCases ==
  {k \in
    {Unlimited @@
     [streams |-> o, class |-> Per("class_a", "class_b", "best_effort"),
      period |-> Per(p[1], p[2], p[3]),
      route |-> [s \in ThreeStreams |-> <<l1>>],
      size |-> Per(t[1], t[2], t[3]), pace |-> l1 :> 1,
      slopes |-> d] :
       o \in {<<sa, sb, sx>>, <<sx, sb, sa>>},
       p \in {3, 4} \X {4, 6} \X {4, 6},
       t \in {1, 2} \X {1, 2} \X {1, 4},
       d \in {Slopes(Even, Even), Slopes(Steep, Steep), Slopes(Flat, Even)}} :
   WellFormed(k)}

-----------------------------------------------------------------------------
(* A switch: l1 and l3 lead to it, l2 away from it; frames of several      *)
(* streams meet on l2, often at the same instant.                          *)

SwitchLinks == {l1, l2, l3}

SwitchCases ==
  {Unlimited @@
   [streams |-> o, class |-> Per("class_a", c, "best_effort"),
    period |-> Per(p[1], p[2], p[3]),
    route |-> Per(<<l1, l2>>, r[1], r[2]),
    size |-> t, pace |-> (l1 :> 1) @@ (l2 :> v) @@ (l3 :> 1),
    slopes |-> Slopes(Even, Steep)] :
     o \in {<<sa, sb, sx>>, <<sx, sb, sa>>},
     c \in {"class_a", "class_b"},
     p \in {4} \X {3, 4} \X {4, 6},
     r \in {<<l1, l2>>, <<l3, l2>>} \X {<<l1, l2>>, <<l3, l2>>},
     t \in {Per(1, 1, 1), Per(1, 1, 2), Per(2, 1, 3)},
     v \in {1, 2}}

-----------------------------------------------------------------------------
(* Limits: every combination of the configured limits, met one at a time   *)
(* and together, and a stream whose route belongs to another stream.       *)

LimitCases ==
  {[streams |-> <<sx, sa>>,
    class |-> (sa :> "class_a") @@ (sx :> "best_effort"),
    period |-> (sa :> 2) @@ (sx :> 3),
    route |-> (sa :> <<l1>>) @@ (sx :> r),
    size |-> (sa :> 1) @@ (sx :> 2), pace |-> l1 :> 1,
    slopes |-> Slopes(Steep, Even),
    maxReleases |-> mr, maxDeliveries |-> md, timeLimit |-> tl,
    maxEvents |-> me, maxHyperperiod |-> mh, stopWhenObserved |-> so] :
     r \in {<<l1>>, <<>>},
     mr \in {None, 0, 1, 2},
     md \in {None, 1, 3},
     tl \in {None, 0, 3, 4, 20},
     me \in {1, 9, 1000},
     mh \in {4, 12},
     so \in BOOLEAN}

-----------------------------------------------------------------------------
(* A full port: two class A streams and a class B stream, each class up to *)
(* its half of the link.                                                   *)

ReservedCases ==
  {Unlimited @@
   [streams |-> o, class |-> Per("class_a", "class_a", "class_b"),
    period |-> Per(4, 4, 6), route |-> [s \in ThreeStreams |-> <<l1>>],
    size |-> Per(1, 1, b), pace |-> l1 :> 1, slopes |-> Slopes(Even, Even)] :
     o \in {<<sa, sb, sx>>, <<sx, sb, sa>>}, b \in 1..3}
=============================================================================
