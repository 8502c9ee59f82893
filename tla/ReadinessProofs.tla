---------------------------- MODULE ReadinessProofs ----------------------------
(***************************************************************************)
(* What the readiness stages promise, for every set of cases: an analysis  *)
(* that was declared ready neither raises nor comes back empty, where the  *)
(* parsers made the route ids the three indexes of the routes agree, so    *)
(* that a simulation that was declared ready runs, and the counts of the   *)
(* assumptions validator accept simple lines and nothing else.             *)
(***************************************************************************)
EXTENDS ReadinessProperties, TLAPS, WellFoundedInduction, FiniteSetTheorems

-----------------------------------------------------------------------------
(* The inductive invariant                                                 *)

(* The case is what the stage made of the external case. *)
CaseInv ==
    /\ raw \in RawCases
    /\ stage \in {"external", "mapped", "normalized", "judged", "refused"}
    /\ stage \in {"mapped", "normalized", "judged"} => ~Unreadable(raw)
    /\ stage = "external" => case = None
    /\ stage = "mapped" => case = Mapped(raw)
    /\ stage \in {"normalized", "judged"} => case = Normalized(Mapped(raw))
    /\ stage = "refused" => case = IF Unreadable(raw) THEN None ELSE Mapped(raw)

(* The answers of the engines are about the case that was judged. *)
AnswerInv ==
    /\ ready \in [Labels -> BOOLEAN]
    /\ stage = "judged" => ready = Judged(case)
    /\ simulation \in Outcomes /\ analysis \in Outcomes \cup {"empty"}
    /\ simulation # "none" \/ analysis # "none" => stage = "judged"
    /\ simulation = "raised" => SimulationRaises(case)
    /\ analysis = "raised" => AnalysisRaises(case)
    /\ analysis = "empty" => AnalysisIssues(case) # {}

(* What the two together say of every reachable state. *)
ReadyInv == CaseInv /\ AnswerInv

(* The verdicts are truth values. *)
LEMMA VerdictsAreBoolean ==
  ASSUME NEW c
  PROVE  Judged(c) \in [Labels -> BOOLEAN]
<1> DEFINE normal == TopologyIssues(c) \cup RouteIssues(c) \cup StreamIssues(c) \cup CbsIssues(c)
           n == normal = {}
           b == n /\ AssumptionIssues(c) = {}
           s == b /\ SimulationIssues(c) = {}
           a == b /\ AnalysisIssues(c) = {}
<1>1. n \in BOOLEAN /\ b \in BOOLEAN /\ s \in BOOLEAN /\ a \in BOOLEAN
  OBVIOUS
<1>2. Judged(c) = [normalization |-> n, baseline |-> b, simulation |-> s, analysis |-> a]
  BY DEF Judged
<1> HIDE DEF n, b, s, a
<1> QED
  BY <1>1, <1>2 DEF Labels

(* What each verdict says of the issues. *)
LEMMA Verdicts ==
  ASSUME NEW c
  PROVE  /\ Judged(c)["simulation"] =>
              RouteIssues(c) = {} /\ StreamIssues(c) = {} /\ SimulationIssues(c) = {}
         /\ Judged(c)["analysis"] => AnalysisIssues(c) = {}
<1> DEFINE normal == TopologyIssues(c) \cup RouteIssues(c) \cup StreamIssues(c) \cup CbsIssues(c)
           n == normal = {}
           b == n /\ AssumptionIssues(c) = {}
           s == b /\ SimulationIssues(c) = {}
           a == b /\ AnalysisIssues(c) = {}
<1>1. Judged(c) = [normalization |-> n, baseline |-> b, simulation |-> s, analysis |-> a]
  BY DEF Judged
<1>2. Judged(c)["simulation"] = s /\ Judged(c)["analysis"] = a
  <2> HIDE DEF n, b, s, a
  <2> QED
    BY <1>1
<1> QED
  BY <1>2

(* The invariant holds at the start. *)
LEMMA ReadyInvInit == Init => ReadyInv
BY DEF Init, ReadyInv, CaseInv, AnswerInv, Outcomes

(* Every step of the commands keeps the invariant. *)
LEMMA ReadyInvNext == ReadyInv /\ [Next]_vars => ReadyInv'
<1> SUFFICES ASSUME ReadyInv, [Next]_vars
             PROVE  ReadyInv'
  OBVIOUS
<1> USE DEF ReadyInv
<1>1. CASE Refuse
  BY <1>1 DEF Refuse, CaseInv, AnswerInv, Unreadable, SimulationRaises, AnalysisRaises, Judged
<1>2. CASE Load
  BY <1>2 DEF Load, CaseInv, AnswerInv
<1>3. CASE Normalize
  BY <1>3 DEF Normalize, CaseInv, AnswerInv
<1>4. CASE Validate
  BY <1>4, VerdictsAreBoolean DEF Validate, CaseInv, AnswerInv
<1>5. CASE Simulate
  BY <1>5 DEF Simulate, CaseInv, AnswerInv, Outcomes
<1>6. ASSUME NEW strict \in BOOLEAN, Analyze(strict)
      PROVE  ReadyInv'
  BY <1>6 DEF Analyze, CaseInv, AnswerInv, Outcomes
<1>7. CASE UNCHANGED vars
  BY <1>7 DEF vars, CaseInv, AnswerInv
<1> QED
  BY <1>1, <1>2, <1>3, <1>4, <1>5, <1>6, <1>7 DEF Next

(* The invariant holds in every reachable state. *)
LEMMA ReadyInvAlways == Spec => []ReadyInv
BY ReadyInvInit, ReadyInvNext, PTL DEF Spec

(* The stage follows the preparation, and the engines were asked only      *)
(* about a case that was judged.                                           *)
THEOREM StagesAreInOrder == Spec => []TypeOK
<1>1. ReadyInv => TypeOK
  <2> SUFFICES ASSUME ReadyInv
               PROVE  TypeOK
    OBVIOUS
  <2>1. ~Unreadable(raw) => Mapped(raw) # None /\ Normalized(Mapped(raw)) # None
    BY NoneAssumption DEF ReadyInv, CaseInv
  <2>2. case = None <=> stage = "external" \/ (stage = "refused" /\ Unreadable(raw))
    BY <2>1 DEF ReadyInv, CaseInv
  <2> QED
    BY <2>2 DEF ReadyInv, CaseInv, AnswerInv, TypeOK
<1> QED
  BY <1>1, ReadyInvAlways, PTL

-----------------------------------------------------------------------------
(* The last row with a key                                                 *)

(* A set of indices of a list has a greatest one, which Max denotes. *)
LEMMA GreatestIndex ==
  ASSUME NEW n \in Nat, NEW T, T \subseteq 1..n, T # {}
  PROVE  Max(T) \in T /\ \A i \in T : i <= Max(T)
<1> DEFINE Gaps == {n - i : i \in T}
<1>1. Gaps \subseteq Nat /\ Gaps # {}
  <2>1. \A i \in T : n - i \in Nat
    OBVIOUS
  <2> QED
    BY <2>1
<1>2. PICK g \in Gaps : \A h \in Gaps : <<h, g>> \notin OpToRel(<, Nat)
  <2> HIDE DEF Gaps
  <2> QED
    BY <1>1, NatLessThanWellFounded, WFMin
<1>3. PICK m \in T : g = n - m
  BY <1>2
<1>4. ASSUME NEW i \in T
      PROVE  i <= m
  <2>1. n - i \in Gaps /\ n - i \in Nat /\ g \in Nat
    BY <1>1
  <2>2. ~(n - i < n - m)
    BY <1>2, <1>3, <2>1 DEF OpToRel
  <2> QED
    BY <2>2
<1>5. \E x \in T : \A y \in T : x >= y
  BY <1>4
<1>6. \A x \in T : (\A y \in T : x >= y) => \A y \in T : y <= x
  OBVIOUS
<1> QED
  BY <1>5, <1>6 DEF Max

(* Where no two streams share an id, the link model follows a routed       *)
(* stream along the route that it names.                                   *)
LEMMA AnalysedAlongItsRoute ==
  ASSUME NEW c, IsList(c.streams), Distinct(c.streams), NEW s \in ToSet(c.streams),
         RouteById(c, s.route) # <<>>
  PROVE  AnalysedPath(c, s.id) = LinksByRouteId(c, s)
<1> DEFINE rows == c.streams
           T == {k \in 1..Len(rows) : rows[k].id = s.id /\ RouteById(c, rows[k].route) # <<>>}
           found == LastWith(rows, LAMBDA x : x.id = s.id /\ RouteById(c, x.route) # <<>>)
<1>1. Len(rows) \in Nat /\ DOMAIN rows = 1..Len(rows)
  BY DEF IsList
<1>2. PICK i \in 1..Len(rows) : rows[i] = s
  BY <1>1 DEF ToSet
<1>3. i \in T
  BY <1>2
<1>4. Max(T) \in T
  <2>1. T \subseteq 1..Len(rows) /\ T # {}
    BY <1>3
  <2> HIDE DEF T
  <2> QED
    BY <1>1, <2>1, GreatestIndex
<1>5. rows[Max(T)] = s
  <2>1. Max(T) \in DOMAIN rows /\ rows[Max(T)].id = rows[i].id
    BY <1>1, <1>2, <1>4
  <2>2. Max(T) = i
    BY <1>1, <2>1 DEF Distinct, Map, IsInjective
  <2> QED
    BY <1>2, <2>2
<1>6. SelectLastInSeq(rows, LAMBDA x : x.id = s.id /\ RouteById(c, x.route) # <<>>) = Max(T)
  BY <1>3 DEF SelectLastInSeq
<1>7. Max(T) # 0
  BY <1>1, <1>4
<1>8. found = <<s>>
  BY <1>5, <1>6, <1>7 DEF LastWith
<1>9. found # <<>> /\ found[1] = s
  BY <1>8
<1>10. AnalysedPath(c, s.id) = IF found = <<>> THEN <<>> ELSE LinksByRouteId(c, found[1])
  BY DEF AnalysedPath
<1> HIDE DEF found
<1> QED
  BY <1>9, <1>10

(* A case without analysis issues makes the analysis raise nothing. *)
LEMMA AnalysisIssuesCoverTheAnalysis ==
  ASSUME NEW c, IsList(c.streams), Distinct(c.streams), AnalysisIssues(c) = {}
  PROVE  ~AnalysisRaises(c)
<1>1. ASSUME NEW s \in ToSet(c.streams), s.class \in Shaped
      PROVE  /\ RouteById(c, s.route) # <<>> /\ LinksByRouteId(c, s) # <<>>
             /\ ~(ReservedUpTo(c, s.class) > 100)
  <2> DEFINE avb == {x \in ToSet(c.streams) : x.class \in Shaped}
             routed == {x \in avb : RouteById(c, x.route) # <<>>}
             linked == {x \in routed : LinksByRouteId(c, x) # <<>>}
             beyond == \E x \in linked : ReservedUpTo(c, x.class) > 100
  <2>1. routed = avb /\ linked = routed /\ ~beyond
    BY DEF AnalysisIssues, Issue
  <2>2. s \in avb
    BY <1>1
  <2> QED
    BY <2>1, <2>2
<1> QED
  BY <1>1, AnalysedAlongItsRoute DEF AnalysisRaises

-----------------------------------------------------------------------------
(* The case that the passes make                                           *)

(* Reading the rows of a list one by one gives a list of the same length. *)
LEMMA ListOfSameLength ==
  ASSUME NEW rows, IsList(rows), NEW list, list = [i \in DOMAIN rows |-> list[i]]
  PROVE  IsList(list) /\ Len(list) = Len(rows)
<1>1. Len(rows) \in Nat /\ DOMAIN rows = 1..Len(rows)
  BY DEF IsList
<1>2. \A i \in 1..Len(rows) : list[i] \in ToSet(list)
  BY <1>1 DEF ToSet
<1>3. list \in Seq(ToSet(list)) /\ Len(list) = Len(rows)
  BY <1>1, <1>2
<1> QED
  BY <1>3 DEF IsList

(* The passes after the first leave the ids, the routes that streams name  *)
(* and the streams that routes name alone; of the hops they set the links. *)
LEMMA LaterPasses ==
  ASSUME NEW m, {"links", "streams", "routes", "queues"} \subseteq DOMAIN m,
         m = [x \in DOMAIN m |-> m[x]],
         NEW c, c = Paths(PriorityClasses(FrameParameters(LinkParameters(m))))
  PROVE  /\ c.streams = [i \in DOMAIN m.streams |-> WithDeadline(m.streams[i])]
         /\ \E d : c.routes = [i \in DOMAIN m.routes |-> Resolved(d, m.routes[i])]
<1> DEFINE a == LinkParameters(m)
           b == FrameParameters(a)
           d == PriorityClasses(b)
<1>1. DOMAIN a = DOMAIN m /\ a.streams = m.streams /\ a.routes = m.routes
  BY DEF LinkParameters
<1>2. /\ DOMAIN b = DOMAIN m /\ b.routes = m.routes
      /\ b.streams = [i \in DOMAIN m.streams |-> WithDeadline(m.streams[i])]
  <2> HIDE DEF a
  <2> QED
    BY <1>1 DEF FrameParameters, Map
<1>3. DOMAIN d = DOMAIN m /\ d.routes = m.routes /\ d.streams = b.streams
  <2> HIDE DEF b
  <2> QED
    BY <1>2 DEF PriorityClasses
<1>4. c = Paths(d)
  OBVIOUS
<1>5. c.streams = d.streams /\ c.routes = Map(LAMBDA r : Resolved(d, r), d.routes)
  <2> HIDE DEF d
  <2> QED
    BY <1>3, <1>4 DEF Paths
<1>6. c.streams = [i \in DOMAIN m.streams |-> WithDeadline(m.streams[i])]
  <2> HIDE DEF b, d
  <2> QED
    BY <1>2, <1>3, <1>5
<1>7. c.routes = [i \in DOMAIN m.routes |-> Resolved(d, m.routes[i])]
  <2> HIDE DEF d
  <2>1. d.routes = m.routes
    BY <1>3
  <2> QED
    BY <1>5, <2>1 DEF Map
<1> HIDE DEF d
<1>8. \E e : c.routes = [i \in DOMAIN m.routes |-> Resolved(e, m.routes[i])]
  BY <1>7
<1> QED
  BY <1>6, <1>8

(* Finding the links of a route keeps its id and its stream. *)
LEMMA ResolvedRoute ==
  ASSUME NEW d, NEW r, r = [id |-> r.id, stream |-> r.stream, hops |-> r.hops], IsList(r.hops)
  PROVE  /\ Resolved(d, r).id = r.id /\ Resolved(d, r).stream = r.stream
         /\ IsList(Resolved(d, r).hops)
<1>1. CASE r.stream \notin Ids(d.streams)
  BY <1>1 DEF Resolved
<1>2. CASE r.stream \in Ids(d.streams)
  <2> DEFINE Hop(i) == IF i = Len(r.hops) THEN r.hops[i]
                       ELSE [r.hops[i] EXCEPT !.link = LinkBetween(d, r.hops[i].node, r.hops[i + 1].node)]
             hops == [i \in DOMAIN r.hops |-> Hop(i)]
  <2>1. Resolved(d, r) = [r EXCEPT !.hops = hops]
    BY <1>2 DEF Resolved
  <2> HIDE DEF Hop
  <2>2. hops = [i \in DOMAIN r.hops |-> hops[i]]
    OBVIOUS
  <2> HIDE DEF hops
  <2>3. IsList(hops)
    BY <2>2, ListOfSameLength
  <2>4. /\ [r EXCEPT !.hops = hops].id = r.id /\ [r EXCEPT !.hops = hops].stream = r.stream
        /\ [r EXCEPT !.hops = hops].hops = hops
    <3>1. DOMAIN r = {"id", "stream", "hops"}
      <4>1. DOMAIN [id |-> r.id, stream |-> r.stream, hops |-> r.hops] = {"id", "stream", "hops"}
        OBVIOUS
      <4> QED
        BY <4>1
    <3> QED
      BY <3>1
  <2> QED
    BY <2>1, <2>3, <2>4
<1> QED
  BY <1>1, <1>2

(* The first pass turns the id of a stream, and the route it names, into   *)
(* slugs; a later one, which may set its deadline, leaves them alone.      *)
LEMMA PreparedStream ==
  ASSUME NEW row, NEW s, s = Stream(row), NEW q, q = WithDeadline(CanonicalStream(s))
  PROVE  q.id = Slug[s.id] /\ q.route = Slug[s.route]
<1>1. DOMAIN s = {"id", "source", "destination", "class", "period", "deadline", "size", "route"}
  BY DEF Stream
<1>2. PICK t : t = CanonicalStream(s)
  OBVIOUS
<1>3. {"id", "route"} \subseteq DOMAIN t /\ t.id = Slug[s.id] /\ t.route = Slug[s.route]
  BY <1>1, <1>2 DEF CanonicalStream
<1> QED
  BY <1>2, <1>3 DEF WithDeadline

(* The first pass turns the id of a route, and the stream it names, into   *)
(* slugs.                                                                  *)
LEMMA SluggedRoute ==
  ASSUME NEW row, IsList(row.hops), NEW r, r = Route(row), NEW q, q = CanonicalRoute(r)
  PROVE  /\ q = [id |-> q.id, stream |-> q.stream, hops |-> q.hops] /\ IsList(q.hops)
         /\ q.id = Slug[r.id] /\ q.stream = Slug[r.stream]
<1> DEFINE hops == Map(LAMBDA n : [node |-> n, link |-> None], row.hops)
           slugged == Map(LAMBDA h : [h EXCEPT !.node = Slug[@]], hops)
<1>1. r = [id |-> r.id, stream |-> r.stream, hops |-> hops]
  BY DEF Route
<1>2. hops = [i \in DOMAIN row.hops |-> hops[i]]
  BY DEF Map
<1>3. slugged = [i \in DOMAIN hops |-> slugged[i]]
  BY DEF Map
<1>4. IsList(hops)
  <2> HIDE DEF hops
  <2> QED
    BY <1>2, ListOfSameLength
<1>5. IsList(slugged)
  <2> HIDE DEF hops, slugged
  <2> QED
    BY <1>3, <1>4, ListOfSameLength
<1>6. r.hops = hops /\ DOMAIN r = {"id", "stream", "hops"}
  <2> HIDE DEF hops
  <2> QED
    BY <1>1
<1>7. q = [r EXCEPT !.id = Slug[@], !.stream = Slug[@], !.hops = slugged]
  BY <1>6 DEF CanonicalRoute
<1> HIDE DEF slugged
<1>8. q = [id |-> Slug[r.id], stream |-> Slug[r.stream], hops |-> slugged]
  BY <1>6, <1>7
<1>9. q.id = Slug[r.id] /\ q.stream = Slug[r.stream] /\ q.hops = slugged
  BY <1>8
<1>10. q = [id |-> q.id, stream |-> q.stream, hops |-> q.hops]
  BY <1>8, <1>9
<1> QED
  BY <1>5, <1>9, <1>10

(* Every stream and every route of a prepared case comes from a row of the *)
(* external case; its id is the slug of the id that the parsers gave it.   *)
LEMMA PreparedCase ==
  ASSUME NEW r, IsList(r.streams), IsList(r.routes), \A row \in ToSet(r.routes) : IsList(row.hops),
         NEW c, c = Normalized(Mapped(r))
  PROVE  /\ IsList(c.streams) /\ DOMAIN c.streams = DOMAIN r.streams
         /\ IsList(c.routes) /\ DOMAIN c.routes = DOMAIN r.routes
         /\ \A i \in DOMAIN r.streams :
              /\ c.streams[i].id = Slug[Stream(r.streams[i]).id]
              /\ c.streams[i].route = Slug[Stream(r.streams[i]).route]
         /\ \A i \in DOMAIN r.routes :
              /\ c.routes[i].id = Slug[Route(r.routes[i]).id]
              /\ c.routes[i].stream = Slug[Route(r.routes[i]).stream]
              /\ IsList(c.routes[i].hops)
<1> DEFINE m == Mapped(r)
           p == CanonicalIds(m)
<1>1. /\ DOMAIN m = {"nodes", "links", "streams", "routes", "assumptions", "slopes", "speed", "queues"}
      /\ m.streams = [i \in DOMAIN r.streams |-> Stream(r.streams[i])]
      /\ m.routes = [i \in DOMAIN r.routes |-> Route(r.routes[i])]
  BY DEF Mapped, Map
<1>2. /\ DOMAIN p = DOMAIN m /\ p = [x \in DOMAIN p |-> p[x]]
      /\ p.streams = [i \in DOMAIN m.streams |-> CanonicalStream(m.streams[i])]
      /\ p.routes = [i \in DOMAIN m.routes |-> CanonicalRoute(m.routes[i])]
  <2> HIDE DEF m
  <2> QED
    BY <1>1 DEF CanonicalIds, Map
<1>3. /\ {"links", "streams", "routes", "queues"} \subseteq DOMAIN p
      /\ p.streams = [i \in DOMAIN r.streams |-> CanonicalStream(Stream(r.streams[i]))]
      /\ p.routes = [i \in DOMAIN r.routes |-> CanonicalRoute(Route(r.routes[i]))]
  <2> HIDE DEF m, p
  <2> QED
    BY <1>1, <1>2
<1>4. c = Paths(PriorityClasses(FrameParameters(LinkParameters(p))))
  BY DEF Normalized
<1> HIDE DEF m, p
<1>5. /\ c.streams = [i \in DOMAIN p.streams |-> WithDeadline(p.streams[i])]
      /\ \E d : c.routes = [i \in DOMAIN p.routes |-> Resolved(d, p.routes[i])]
  BY <1>2, <1>3, <1>4, LaterPasses
<1>6. c.streams = [i \in DOMAIN r.streams |-> WithDeadline(CanonicalStream(Stream(r.streams[i])))]
  BY <1>3, <1>5
<1>7. \A i \in DOMAIN r.streams :
        /\ c.streams[i].id = Slug[Stream(r.streams[i]).id]
        /\ c.streams[i].route = Slug[Stream(r.streams[i]).route]
  BY <1>6, PreparedStream
<1>8. \A i \in DOMAIN r.routes : \E q :
        /\ p.routes[i] = q /\ q = [id |-> q.id, stream |-> q.stream, hops |-> q.hops] /\ IsList(q.hops)
        /\ q.id = Slug[Route(r.routes[i]).id] /\ q.stream = Slug[Route(r.routes[i]).stream]
  <2> TAKE i \in DOMAIN r.routes
  <2>1. IsList(r.routes[i].hops)
    BY DEF ToSet
  <2>2. p.routes[i] = CanonicalRoute(Route(r.routes[i]))
    BY <1>3
  <2> QED
    BY <2>1, <2>2, SluggedRoute
<1>9. PICK d : c.routes = [i \in DOMAIN r.routes |-> Resolved(d, p.routes[i])]
  BY <1>3, <1>5
<1>10. \A i \in DOMAIN r.routes :
         /\ c.routes[i].id = Slug[Route(r.routes[i]).id]
         /\ c.routes[i].stream = Slug[Route(r.routes[i]).stream]
         /\ IsList(c.routes[i].hops)
  BY <1>8, <1>9, ResolvedRoute
<1>11. IsList(c.streams) /\ DOMAIN c.streams = DOMAIN r.streams
  BY <1>6, ListOfSameLength
<1>12. IsList(c.routes) /\ DOMAIN c.routes = DOMAIN r.routes
  BY <1>9, ListOfSameLength
<1> QED
  BY <1>7, <1>10, <1>11, <1>12

-----------------------------------------------------------------------------
(* The links of a route                                                    *)

(* The links kept of the first hops, as one recursive function. *)
Keeps(f, hops, n) ==
    f = [i \in 0 .. n |->
          IF i = 0 THEN <<>>
          ELSE IF hops[i].link = None THEN f[i - 1] ELSE Append(f[i - 1], hops[i].link)]

(* There is such a function for a list of any length. *)
LEMMA LinksCanBeKept ==
  ASSUME NEW hops, NEW n \in Nat
  PROVE  \E f : Keeps(f, hops, n)
<1> DEFINE Kept(k) == \E f : Keeps(f, hops, k)
           Unkept == {k \in 0..n : ~Kept(k)}
<1>1. Kept(0)
  <2>1. Keeps([i \in 0..0 |-> <<>>], hops, 0)
    BY DEF Keeps
  <2> QED
    BY <2>1
<1>2. ASSUME NEW k \in 1..n, Kept(k - 1)
      PROVE  Kept(k)
  <2>1. PICK f : Keeps(f, hops, k - 1)
    BY <1>2
  <2> DEFINE last == IF hops[k].link = None THEN f[k - 1] ELSE Append(f[k - 1], hops[k].link)
             g == [i \in 0..k |-> IF i = k THEN last ELSE f[i]]
  <2>2. k - 1 \in Nat /\ 0..(k - 1) = (0..k) \ {k} /\ k # 0
    OBVIOUS
  <2>3. ASSUME NEW i \in 0..k
        PROVE  g[i] = IF i = 0 THEN <<>>
                      ELSE IF hops[i].link = None THEN g[i - 1] ELSE Append(g[i - 1], hops[i].link)
    <3>1. CASE i = k
      <4>1. g[i] = last /\ g[i - 1] = f[i - 1] /\ i # 0
        <5>1. i - 1 \in 0..k /\ i - 1 # k
          BY <2>2, <3>1
        <5> HIDE DEF last
        <5> QED
          BY <2>2, <3>1, <5>1
      <4> HIDE DEF g
      <4> QED
        BY <3>1, <4>1
    <3>2. CASE i # k
      <4>1. i \in 0..(k - 1) /\ g[i] = f[i] /\ (i # 0 => i - 1 \in 0..k /\ i - 1 # k)
        <5> HIDE DEF last
        <5> QED
          BY <3>2
      <4>2. i # 0 => g[i - 1] = f[i - 1]
        <5> HIDE DEF last
        <5> QED
          BY <4>1
      <4> HIDE DEF g
      <4> QED
        BY <2>1, <4>1, <4>2 DEF Keeps
    <3> QED
      BY <3>1, <3>2
  <2>4. g = [i \in 0..k |-> g[i]]
    OBVIOUS
  <2> HIDE DEF g
  <2>5. Keeps(g, hops, k)
    BY <2>3, <2>4 DEF Keeps
  <2> QED
    BY <2>5
<1> HIDE DEF Kept
<1>3. Unkept = {}
  <2> SUFFICES ASSUME Unkept # {}
               PROVE  FALSE
    OBVIOUS
  <2>1. PICK k \in Unkept : \A m \in Unkept : <<m, k>> \notin OpToRel(<, Nat)
    <3>1. Unkept \subseteq Nat
      OBVIOUS
    <3> HIDE DEF Unkept
    <3> QED
      BY <3>1, NatLessThanWellFounded, WFMin
  <2>2. k \in 1..n /\ ~Kept(k)
    BY <1>1
  <2>3. k - 1 \in 0..n /\ k - 1 < k /\ k - 1 \in Nat /\ k \in Nat
    BY <2>2
  <2>4. k - 1 \notin Unkept
    BY <2>1, <2>3 DEF OpToRel
  <2> QED
    BY <1>2, <2>2, <2>3, <2>4
<1> QED
  BY <1>3 DEF Kept

(* The links of the first hops that have one. *)
HopLinks(hops, n) == {hops[i].link : i \in 1..n} \ {None}

(* A function of this kind yields lists of the links that the hops have. *)
LEMMA KeptLinksAreLists ==
  ASSUME NEW hops, NEW n \in Nat, NEW f, Keeps(f, hops, n)
  PROVE  f[n] \in Seq(HopLinks(hops, n))
<1> DEFINE S == HopLinks(hops, n)
           Bad == {k \in 0..n : f[k] \notin Seq(S)}
<1>1. \A i \in 0..n : f[i] = IF i = 0 THEN <<>>
                            ELSE IF hops[i].link = None THEN f[i - 1] ELSE Append(f[i - 1], hops[i].link)
  BY DEF Keeps
<1>2. f[0] \in Seq(S)
  <2>1. f[0] = <<>>
    BY <1>1
  <2> HIDE DEF S
  <2> QED
    BY <2>1
<1>3. ASSUME NEW k \in 1..n, f[k - 1] \in Seq(S)
      PROVE  f[k] \in Seq(S)
  <2>1. hops[k].link # None => hops[k].link \in S
    BY DEF HopLinks
  <2>2. f[k] = IF hops[k].link = None THEN f[k - 1] ELSE Append(f[k - 1], hops[k].link)
    BY <1>1
  <2> HIDE DEF S
  <2> QED
    BY <1>3, <2>1, <2>2
<1>4. Bad = {}
  <2> SUFFICES ASSUME Bad # {}
               PROVE  FALSE
    OBVIOUS
  <2>1. PICK k \in Bad : \A m \in Bad : <<m, k>> \notin OpToRel(<, Nat)
    <3>1. Bad \subseteq Nat
      OBVIOUS
    <3> HIDE DEF Bad
    <3> QED
      BY <3>1, NatLessThanWellFounded, WFMin
  <2> HIDE DEF S
  <2>2. k \in 1..n /\ f[k] \notin Seq(S)
    BY <1>2
  <2>3. k - 1 \in 0..n /\ k - 1 < k /\ k - 1 \in Nat /\ k \in Nat
    BY <2>2
  <2>4. k - 1 \notin Bad
    BY <2>1, <2>3 DEF OpToRel
  <2> QED
    BY <1>3, <2>2, <2>3, <2>4
<1> QED
  BY <1>4

(* The links of a route are a list of the links that its hops but the last *)
(* have.                                                                   *)
LEMMA RouteLinksAreKept ==
  ASSUME NEW q, IsList(q.hops)
  PROVE  RouteLinks(q) \in Seq(HopLinks(Front(q.hops), Len(Front(q.hops))))
<1> DEFINE hops == Front(q.hops)
           n == Len(hops)
           kept == CHOOSE f : Keeps(f, hops, n)
<1>1. n \in Nat
  BY DEF Front, IsList
<1>2. RouteLinks(q) = kept[n]
  BY DEF RouteLinks, Keeps
<1>3. Keeps(kept, hops, n)
  BY <1>1, LinksCanBeKept
<1>4. kept[n] \in Seq(HopLinks(hops, n))
  <2> HIDE DEF kept, n, hops
  <2> QED
    BY <1>1, <1>3, KeptLinksAreLists
<1> QED
  BY <1>2, <1>4

(* When that list is not empty, the route has a link. *)
LEMMA RouteLinksList ==
  ASSUME NEW q, IsList(q.hops), RouteLinks(q) # <<>>
  PROVE  ToSet(RouteLinks(q)) # {}
<1> PICK S : RouteLinks(q) \in Seq(S)
  BY RouteLinksAreKept
<1> PICK links : links = RouteLinks(q)
  OBVIOUS
<1>1. links \in Seq(S) /\ links # <<>>
  OBVIOUS
<1>2. 1 \in DOMAIN links
  BY <1>1
<1> QED
  BY <1>2 DEF ToSet

(* Each link of a route is the link of a hop before the last. *)
LEMMA LinksOfItsHops ==
  ASSUME NEW q, IsList(q.hops), NEW id \in ToSet(RouteLinks(q))
  PROVE  \E i \in 1..(Len(q.hops) - 1) : id = q.hops[i].link /\ id # None
<1> DEFINE hops == Front(q.hops)
           n == Len(hops)
<1>1. RouteLinks(q) \in Seq(HopLinks(hops, n))
  BY RouteLinksAreKept
<1>2. id \in HopLinks(hops, n)
  <2> HIDE DEF hops, n
  <2> QED
    BY <1>1 DEF ToSet
<1>3. PICK i \in 1..n : id = hops[i].link /\ id # None
  BY <1>2 DEF HopLinks
<1>4. i \in 1..(Len(q.hops) - 1) /\ hops[i] = q.hops[i]
  BY DEF Front, IsList
<1> QED
  BY <1>3, <1>4

-----------------------------------------------------------------------------
(* The three indexes of the routes                                         *)

(* Where the parsers made the route ids, a route has the id that a stream  *)
(* names exactly when it names that stream.                                *)
Paired(c) ==
    \A s \in ToSet(c.streams), q \in ToSet(c.routes) : q.id = s.route <=> q.stream = s.id

(* The passes pair the streams and the routes of a case that names no      *)
(* route.                                                                  *)
LEMMA DefaultRoutesArePaired ==
  ASSUME NEW r \in RawCases, NEW c, c = Normalized(Mapped(r)),
         \A row \in ToSet(r.streams) : row.route = None,
         \A row \in ToSet(r.routes) : row.id = None
  PROVE  /\ IsList(c.streams) /\ IsList(c.routes)
         /\ \A q \in ToSet(c.routes) : IsList(q.hops)
         /\ Paired(c)
<1>1. /\ IsList(c.streams) /\ DOMAIN c.streams = DOMAIN r.streams
      /\ IsList(c.routes) /\ DOMAIN c.routes = DOMAIN r.routes
      /\ \A i \in DOMAIN r.streams :
           /\ c.streams[i].id = Slug[Stream(r.streams[i]).id]
           /\ c.streams[i].route = Slug[Stream(r.streams[i]).route]
      /\ \A i \in DOMAIN r.routes :
           /\ c.routes[i].id = Slug[Route(r.routes[i]).id]
           /\ c.routes[i].stream = Slug[Route(r.routes[i]).stream]
           /\ IsList(c.routes[i].hops)
  BY RawCasesAssumption, PreparedCase
<1>2. ASSUME NEW s \in ToSet(c.streams)
      PROVE  \E a \in DOMAIN RouteName : s.id = Slug[a] /\ s.route = Slug[RouteName[a]]
  <2>1. PICK i \in DOMAIN r.streams : c.streams[i] = s
    BY <1>1 DEF ToSet
  <2> PICK row : row = r.streams[i]
    OBVIOUS
  <2>2. row \in ToSet(r.streams)
    BY DEF ToSet
  <2>3. StreamName[row.id] \in DOMAIN RouteName /\ row.route = None
    BY <2>2, RawCasesAssumption
  <2>4. Stream(row).id = StreamName[row.id] /\ Stream(row).route = RouteName[StreamName[row.id]]
    BY <2>3 DEF Stream, Or
  <2> QED
    BY <1>1, <2>1, <2>3, <2>4
<1>3. ASSUME NEW q \in ToSet(c.routes)
      PROVE  /\ \E b \in DOMAIN RouteName : q.stream = Slug[b] /\ q.id = Slug[RouteName[b]]
             /\ IsList(q.hops)
  <2>1. PICK i \in DOMAIN r.routes : c.routes[i] = q
    BY <1>1 DEF ToSet
  <2> PICK row : row = r.routes[i]
    OBVIOUS
  <2>2. row \in ToSet(r.routes)
    BY DEF ToSet
  <2>3. StreamOf(row) \in DOMAIN RouteName /\ row.id = None
    BY <2>2, RawCasesAssumption
  <2>4. Route(row).id = RouteName[StreamOf(row)] /\ Route(row).stream = StreamOf(row)
    BY <2>3 DEF Route, Or
  <2> QED
    BY <1>1, <2>1, <2>3, <2>4
<1>4. Paired(c)
  BY <1>2, <1>3, RouteNameAssumption DEF Paired
<1> QED
  BY <1>1, <1>3, <1>4

(* The simulator then gives a stream the links of the route it names.      *)
LEMMA SimulatedAlongItsRoute ==
  ASSUME NEW c, IsList(c.routes), Paired(c), NEW s \in ToSet(c.streams)
  PROVE  SimulatedPath(c, s.id) = LinksByRouteId(c, s)
<1> DEFINE rows == c.routes
           T == {k \in 1..Len(rows) : rows[k].stream = s.id}
           U == {k \in 1..Len(rows) : rows[k].id = s.route}
<1>1. \A k \in 1..Len(rows) : rows[k] \in ToSet(rows)
  BY DEF IsList, ToSet
<1>2. T = U
  BY <1>1 DEF Paired
<1>3. /\ SelectLastInSeq(rows, LAMBDA x : x.stream = s.id) = IF T # {} THEN Max(T) ELSE 0
      /\ SelectLastInSeq(rows, LAMBDA x : x.id = s.route) = IF U # {} THEN Max(U) ELSE 0
  BY DEF SelectLastInSeq
<1>4. SelectLastInSeq(rows, LAMBDA x : x.stream = s.id) = SelectLastInSeq(rows, LAMBDA x : x.id = s.route)
  <2> HIDE DEF T, U
  <2> QED
    BY <1>2, <1>3
<1>5. LastWith(rows, LAMBDA x : x.stream = s.id) = LastWith(rows, LAMBDA x : x.id = s.route)
  BY <1>4 DEF LastWith
<1> QED
  BY <1>5 DEF SimulatedPath, LinksByRouteId, RouteById

(* A route that is found by its id is one of the routes, and has that id.  *)
LEMMA RouteFound ==
  ASSUME NEW c, IsList(c.routes), NEW id, RouteById(c, id) # <<>>
  PROVE  \E q \in ToSet(c.routes) : q.id = id /\ RouteById(c, id) = <<q>>
<1> DEFINE rows == c.routes
           T == {k \in 1..Len(rows) : rows[k].id = id}
           i == SelectLastInSeq(rows, LAMBDA x : x.id = id)
<1>1. Len(rows) \in Nat /\ DOMAIN rows = 1..Len(rows)
  BY DEF IsList
<1>2. i = IF T # {} THEN Max(T) ELSE 0
  BY DEF SelectLastInSeq
<1>3. RouteById(c, id) = IF i = 0 THEN <<>> ELSE <<rows[i]>>
  BY DEF RouteById, LastWith
<1>4. i # 0 /\ T # {}
  <2> HIDE DEF T, i
  <2> QED
    BY <1>2, <1>3
<1>5. i \in T
  <2>1. T \subseteq 1..Len(rows)
    OBVIOUS
  <2> HIDE DEF T, i
  <2> QED
    BY <1>1, <1>2, <1>4, <2>1, GreatestIndex
<1>6. rows[i] \in ToSet(rows) /\ rows[i].id = id
  <2> HIDE DEF i
  <2> QED
    BY <1>1, <1>5 DEF ToSet
<1> HIDE DEF i
<1> QED
  BY <1>3, <1>4, <1>6

(* A case without route, stream and simulation issues whose routes are     *)
(* paired: each stream has a path, and the simulation does not raise.      *)
LEMMA SimulationIssuesCoverTheSimulation ==
  ASSUME NEW c, IsList(c.streams), IsList(c.routes), \A q \in ToSet(c.routes) : IsList(q.hops),
         Paired(c), RouteIssues(c) = {}, SimulationIssues(c) = {}
  PROVE  /\ \A s \in ToSet(c.streams) : RouteById(c, s.route) # <<>>
         /\ ~SimulationRaises(c)
<1> DEFINE routed == {s \in ToSet(c.streams) : RouteById(c, s.route) # <<>>}
<1>1. /\ c.streams # <<>> /\ routed = ToSet(c.streams)
      /\ ~ \E s \in routed : LinksByRouteId(c, s) = <<>>
      /\ ~ \E s \in routed : ~(ToSet(LinksByRouteId(c, s)) \subseteq Ids(c.links))
  BY DEF SimulationIssues, Issue
<1>2. \A s \in ToSet(c.streams) :
        /\ RouteById(c, s.route) # <<>> /\ LinksByRouteId(c, s) # <<>>
        /\ ToSet(LinksByRouteId(c, s)) \subseteq Ids(c.links)
        /\ SimulatedPath(c, s.id) = LinksByRouteId(c, s)
  BY <1>1, SimulatedAlongItsRoute
<1>3. Distinct(c.routes) /\ \A q \in ToSet(c.routes) : q.stream \in Ids(c.streams)
  BY DEF RouteIssues, Issue
<1>4. ASSUME NEW q \in ToSet(c.routes)
      PROVE  \E s \in ToSet(c.streams) : s.id = q.stream /\ LinksByRouteId(c, s) = RouteLinks(q)
  <2>1. PICK s \in ToSet(c.streams) : s.id = q.stream
    BY <1>3 DEF Ids
  <2>2. PICK p \in ToSet(c.routes) : p.id = s.route /\ RouteById(c, s.route) = <<p>>
    BY <1>2, RouteFound
  <2>3. p.id = q.id
    BY <2>1, <2>2 DEF Paired
  <2>4. p = q
    BY <1>3, <2>3 DEF Distinct, Map, IsInjective, ToSet
  <2>5. LinksByRouteId(c, s) = RouteLinks(q)
    <3>1. <<p>> # <<>> /\ <<p>>[1] = p
      OBVIOUS
    <3> QED
      BY <2>2, <2>4, <3>1 DEF LinksByRouteId
  <2> QED
    BY <2>1, <2>5
<1>5. ActiveLinks(c) # {}
  <2>1. PICK s \in ToSet(c.streams) : TRUE
    <3>1. 1 \in DOMAIN c.streams
      BY <1>1 DEF IsList
    <3> QED
      BY <3>1 DEF ToSet
  <2>2. PICK p \in ToSet(c.routes) : RouteById(c, s.route) = <<p>>
    BY <1>2, RouteFound
  <2>3. LinksByRouteId(c, s) = RouteLinks(p)
    <3>1. <<p>> # <<>> /\ <<p>>[1] = p
      OBVIOUS
    <3> QED
      BY <2>2, <3>1 DEF LinksByRouteId
  <2>4. ToSet(RouteLinks(p)) # {}
    BY <1>2, <2>3, RouteLinksList
  <2> QED
    BY <2>4 DEF ActiveLinks
<1>6. ActiveLinks(c) \subseteq Ids(c.links)
  BY <1>2, <1>4 DEF ActiveLinks
<1>7. \A id \in {q.stream : q \in ToSet(c.routes)} \cup Ids(c.streams) : SimulatedPath(c, id) # <<>>
  <2>1. \A id \in Ids(c.streams) : SimulatedPath(c, id) # <<>>
    BY <1>2 DEF Ids
  <2> QED
    BY <1>3, <2>1
<1> QED
  BY <1>2, <1>5, <1>6, <1>7 DEF SimulationRaises

-----------------------------------------------------------------------------
(* What the walk of assumptions_validator reaches                          *)

(* The nodes reached after each number of rounds, as one function. *)
Widens(f, arcs, n) ==
    f = [k \in 0 .. n |->
          IF k = 0 THEN {CHOOSE x \in ActiveNodes(arcs) : TRUE}
          ELSE f[k - 1] \cup UNION {Neighbours(arcs, x) : x \in f[k - 1]}]

(* There is such a function for any number of rounds. *)
LEMMA WalksCanWiden ==
  ASSUME NEW arcs, NEW n \in Nat
  PROVE  \E f : Widens(f, arcs, n)
<1> DEFINE Wide(k) == \E f : Widens(f, arcs, k)
           Stuck == {k \in 0..n : ~Wide(k)}
           first == {CHOOSE x \in ActiveNodes(arcs) : TRUE}
<1>1. Wide(0)
  <2>1. Widens([k \in 0..0 |-> first], arcs, 0)
    BY DEF Widens
  <2> QED
    BY <2>1
<1>2. ASSUME NEW k \in 1..n, Wide(k - 1)
      PROVE  Wide(k)
  <2>1. PICK f : Widens(f, arcs, k - 1)
    BY <1>2
  <2> DEFINE last == f[k - 1] \cup UNION {Neighbours(arcs, x) : x \in f[k - 1]}
             g == [i \in 0..k |-> IF i = k THEN last ELSE f[i]]
  <2>2. k - 1 \in Nat /\ 0..(k - 1) = (0..k) \ {k} /\ k # 0
    OBVIOUS
  <2>3. ASSUME NEW i \in 0..k
        PROVE  g[i] = IF i = 0 THEN first
                      ELSE g[i - 1] \cup UNION {Neighbours(arcs, x) : x \in g[i - 1]}
    <3>1. CASE i = k
      <4>1. g[i] = last /\ g[i - 1] = f[i - 1] /\ i # 0
        <5>1. i - 1 \in 0..k /\ i - 1 # k
          BY <2>2, <3>1
        <5> HIDE DEF last
        <5> QED
          BY <2>2, <3>1, <5>1
      <4> HIDE DEF g
      <4> QED
        BY <3>1, <4>1
    <3>2. CASE i # k
      <4>1. i \in 0..(k - 1) /\ g[i] = f[i] /\ (i # 0 => i - 1 \in 0..k /\ i - 1 # k)
        <5> HIDE DEF last
        <5> QED
          BY <3>2
      <4>2. i # 0 => g[i - 1] = f[i - 1]
        <5> HIDE DEF last
        <5> QED
          BY <4>1
      <4> HIDE DEF g
      <4> QED
        BY <2>1, <4>1, <4>2 DEF Widens
    <3> QED
      BY <3>1, <3>2
  <2>4. g = [i \in 0..k |-> g[i]]
    OBVIOUS
  <2> HIDE DEF g
  <2>5. Widens(g, arcs, k)
    BY <2>3, <2>4 DEF Widens
  <2> QED
    BY <2>5
<1> HIDE DEF Wide
<1>3. Stuck = {}
  <2> SUFFICES ASSUME Stuck # {}
               PROVE  FALSE
    OBVIOUS
  <2>1. PICK k \in Stuck : \A m \in Stuck : <<m, k>> \notin OpToRel(<, Nat)
    <3>1. Stuck \subseteq Nat
      OBVIOUS
    <3> HIDE DEF Stuck
    <3> QED
      BY <3>1, NatLessThanWellFounded, WFMin
  <2>2. k \in 1..n /\ ~Wide(k)
    BY <1>1
  <2>3. k - 1 \in 0..n /\ k - 1 < k /\ k - 1 \in Nat /\ k \in Nat
    BY <2>2
  <2>4. k - 1 \notin Stuck
    BY <2>1, <2>3 DEF OpToRel
  <2> QED
    BY <1>2, <2>2, <2>3, <2>4
<1> QED
  BY <1>3 DEF Wide

(* Among the active nodes of finitely many arcs, Reached is the last of    *)
(* these functions' values.                                                *)
LEMMA ReachedInRounds ==
  ASSUME NEW arcs, Cardinality(ActiveNodes(arcs)) \in Nat
  PROVE  \E f : /\ Reached(arcs) = f[Cardinality(ActiveNodes(arcs))]
                /\ f[0] = {CHOOSE x \in ActiveNodes(arcs) : TRUE}
                /\ \A k \in 1..Cardinality(ActiveNodes(arcs)) :
                     f[k] = f[k - 1] \cup UNION {Neighbours(arcs, x) : x \in f[k - 1]}
<1> DEFINE n == Cardinality(ActiveNodes(arcs))
           within == CHOOSE f : Widens(f, arcs, n)
<1>1. Reached(arcs) = within[n]
  BY DEF Reached, Widens
<1>2. Widens(within, arcs, n)
  BY WalksCanWiden
<1> HIDE DEF within, n
<1>3. n \in Nat
  BY DEF n
<1>4. within[0] = {CHOOSE x \in ActiveNodes(arcs) : TRUE}
  BY <1>2, <1>3 DEF Widens
<1>5. \A k \in 1..n : within[k] = within[k - 1] \cup UNION {Neighbours(arcs, x) : x \in within[k - 1]}
  BY <1>2, <1>3 DEF Widens
<1>6. \E f : /\ Reached(arcs) = f[n]
             /\ f[0] = {CHOOSE x \in ActiveNodes(arcs) : TRUE}
             /\ \A k \in 1..n : f[k] = f[k - 1] \cup UNION {Neighbours(arcs, x) : x \in f[k - 1]}
  BY <1>1, <1>4, <1>5
<1> QED
  BY <1>6 DEF n

(* The neighbours of nodes are active, and neighbour back. *)
LEMMA NeighboursAreMutual ==
  ASSUME NEW arcs, NEW x, NEW y \in Neighbours(arcs, x)
  PROVE  /\ x \in Neighbours(arcs, y)
         /\ x \in ActiveNodes(arcs) /\ y \in ActiveNodes(arcs)
<1>1. PICK a \in arcs : \/ a.source = x /\ a.target = y
                        \/ a.target = x /\ a.source = y
  BY DEF Neighbours
<1> QED
  BY <1>1 DEF Neighbours, ActiveNodes

(* Nodes that neighbour only each other are left by no round. *)
LEMMA RoundsStayInside ==
  ASSUME NEW arcs, NEW n \in Nat, NEW f,
         \A k \in 1..n : f[k] = f[k - 1] \cup UNION {Neighbours(arcs, x) : x \in f[k - 1]},
         NEW W, \A x \in W : Neighbours(arcs, x) \subseteq W,
         f[0] \subseteq W
  PROVE  f[n] \subseteq W
<1> DEFINE Out == {k \in 0..n : ~(f[k] \subseteq W)}
<1>1. ASSUME NEW k \in 1..n, f[k - 1] \subseteq W
      PROVE  f[k] \subseteq W
  BY <1>1
<1>2. Out = {}
  <2> SUFFICES ASSUME Out # {}
               PROVE  FALSE
    OBVIOUS
  <2>1. PICK k \in Out : \A m \in Out : <<m, k>> \notin OpToRel(<, Nat)
    <3>1. Out \subseteq Nat
      OBVIOUS
    <3> HIDE DEF Out
    <3> QED
      BY <3>1, NatLessThanWellFounded, WFMin
  <2>2. k \in 1..n /\ ~(f[k] \subseteq W)
    OBVIOUS
  <2>3. k - 1 \in 0..n /\ k - 1 < k /\ k - 1 \in Nat /\ k \in Nat
    BY <2>2
  <2>4. k - 1 \notin Out
    BY <2>1, <2>3 DEF OpToRel
  <2> QED
    BY <1>1, <2>2, <2>3, <2>4
<1> QED
  BY <1>2

(* Hence all that is reached from such nodes is among them. *)
LEMMA ReachedInside ==
  ASSUME NEW arcs, Cardinality(ActiveNodes(arcs)) \in Nat,
         NEW W, \A x \in W : Neighbours(arcs, x) \subseteq W,
         (CHOOSE x \in ActiveNodes(arcs) : TRUE) \in W
  PROVE  Reached(arcs) \subseteq W
<1> PICK n \in Nat : n = Cardinality(ActiveNodes(arcs))
  OBVIOUS
<1> DEFINE start == CHOOSE x \in ActiveNodes(arcs) : TRUE
<1>0. start \in W
  OBVIOUS
<1> HIDE DEF start
<1>1. PICK f : /\ Reached(arcs) = f[n]
               /\ f[0] = {start}
               /\ \A k \in 1..n : f[k] = f[k - 1] \cup UNION {Neighbours(arcs, x) : x \in f[k - 1]}
  BY ReachedInRounds DEF start
<1>2. f[0] \subseteq W
  BY <1>0, <1>1
<1>3. f[n] \subseteq W
  BY <1>1, <1>2, RoundsStayInside
<1> QED
  BY <1>1, <1>3

(* When every active node is reached, nodes that neighbour only each other *)
(* are all of them.                                                        *)
LEMMA ConnectedNodesAreAll ==
  ASSUME NEW arcs, Cardinality(ActiveNodes(arcs)) \in Nat,
         ActiveNodes(arcs) = Reached(arcs),
         NEW W, W \subseteq ActiveNodes(arcs), W # {},
         \A x \in W : Neighbours(arcs, x) \subseteq W
  PROVE  W = ActiveNodes(arcs)
<1> DEFINE start == CHOOSE x \in ActiveNodes(arcs) : TRUE
           Rest == ActiveNodes(arcs) \ W
<1>1. start \in ActiveNodes(arcs)
  OBVIOUS
<1>2. CASE start \in W
  BY <1>2, ReachedInside
<1>3. CASE start \notin W
  <2>1. \A x \in Rest : Neighbours(arcs, x) \subseteq Rest
    BY NeighboursAreMutual
  <2>2. ActiveNodes(arcs) \subseteq Rest
    <3> HIDE DEF Rest
    <3>1. start \in Rest
      BY <1>1, <1>3 DEF Rest
    <3> QED
      BY <2>1, <3>1, ReachedInside
  <2> QED
    BY <2>2
<1> QED
  BY <1>2, <1>3

-----------------------------------------------------------------------------
(* Counting arcs and nodes                                                 *)

(* A finite set with at most one member has equal members. *)
LEMMA MembersOfOne ==
  ASSUME NEW S, IsFiniteSet(S), ~(Cardinality(S) > 1), NEW x \in S, NEW y \in S
  PROVE  x = y
<1>1. Cardinality(S) \in Nat /\ IsFiniteSet(S \ {x}) /\ Cardinality(S \ {x}) = Cardinality(S) - 1
  BY FS_CardinalityType, FS_RemoveElement
<1>2. Cardinality(S \ {x}) \in Nat
  BY <1>1, FS_CardinalityType
<1>3. Cardinality(S \ {x}) = 0
  BY <1>1, <1>2
<1>4. S \ {x} = {}
  BY <1>1, <1>3, FS_EmptySet
<1> QED
  BY <1>4

(* A set whose members are equal has one member, unless it is empty. *)
LEMMA OneOrNone ==
  ASSUME NEW S, \A x, y \in S : x = y
  PROVE  /\ S = {} => Cardinality(S) = 0
         /\ S # {} => Cardinality(S) = 1
<1>1. S # {} => \E x : S = {x}
  OBVIOUS
<1> QED
  BY <1>1, FS_EmptySet, FS_Singleton

(* Finitely many arcs have finitely many nodes. *)
LEMMA FewActiveNodes ==
  ASSUME NEW arcs, IsFiniteSet(arcs)
  PROVE  IsFiniteSet(ActiveNodes(arcs)) /\ Cardinality(ActiveNodes(arcs)) \in Nat
<1> DEFINE S == {a.source : a \in arcs}
           T == {a.target : a \in arcs}
<1>1. [a \in arcs |-> a.source] \in Surjection(arcs, S)
  BY DEF Surjection
<1>2. [a \in arcs |-> a.target] \in Surjection(arcs, T)
  BY DEF Surjection
<1>3. IsFiniteSet(S) /\ IsFiniteSet(T)
  <2> HIDE DEF S, T
  <2> QED
    BY <1>1, <1>2, FS_Surjection
<1>4. IsFiniteSet(S \cup T)
  <2> HIDE DEF S, T
  <2> QED
    BY <1>3, FS_Union
<1>5. ActiveNodes(arcs) = S \cup T
  BY DEF ActiveNodes
<1> QED
  BY <1>4, <1>5, FS_CardinalityType

-----------------------------------------------------------------------------
(* Walks that visit no node twice                                          *)

(* A walk of k of the nodes along the edges, from one of the first ones. *)
Walks(nodes, edges, firsts, o, k) ==
    /\ k \in Nat /\ k >= 1
    /\ o \in [1..k -> nodes] /\ o[1] \in firsts
    /\ \A i, j \in 1..k : o[i] = o[j] => i = j
    /\ \A i \in 1..(k - 1) : <<o[i], o[i + 1]>> \in edges

(* A walk that no other is longer than. *)
Longest(nodes, edges, firsts, o, k) ==
    /\ Walks(nodes, edges, firsts, o, k)
    /\ \A p, j : Walks(nodes, edges, firsts, p, j) => j <= k

(* A walk is not longer than there are nodes. *)
LEMMA WalksAreShort ==
  ASSUME NEW nodes, IsFiniteSet(nodes), NEW edges, NEW firsts, NEW o, NEW k,
         Walks(nodes, edges, firsts, o, k)
  PROVE  k \in 1..Cardinality(nodes)
<1>1. o \in Injection(1..k, nodes)
  BY DEF Walks, Injection, IsInjective
<1>2. Cardinality(1..k) <= Cardinality(nodes)
  BY <1>1, FS_Injection
<1>3. Cardinality(1..k) = k
  BY FS_Interval DEF Walks
<1> QED
  BY <1>2, <1>3, FS_CardinalityType DEF Walks

(* Among finitely many nodes there is a longest walk. *)
LEMMA LongestWalkExists ==
  ASSUME NEW nodes, IsFiniteSet(nodes), NEW edges, NEW firsts, NEW x \in nodes \cap firsts
  PROVE  \E o, k : Longest(nodes, edges, firsts, o, k)
<1> DEFINE n == Cardinality(nodes)
           T == {k \in 1..n : \E o : Walks(nodes, edges, firsts, o, k)}
<1>1. n \in Nat
  BY FS_CardinalityType
<1>2. Walks(nodes, edges, firsts, [i \in 1..1 |-> x], 1)
  BY DEF Walks
<1>3. 1 \in T
  BY <1>2, WalksAreShort
<1>4. Max(T) \in T /\ \A k \in T : k <= Max(T)
  <2>1. T \subseteq 1..n
    OBVIOUS
  <2> HIDE DEF T, n
  <2> QED
    BY <1>1, <1>3, <2>1, GreatestIndex
<1>5. PICK k \in T : \A j \in T : j <= k
  BY <1>4
<1>6. PICK o : Walks(nodes, edges, firsts, o, k)
  OBVIOUS
<1>7. ASSUME NEW p, NEW j, Walks(nodes, edges, firsts, p, j)
      PROVE  j <= k
  <2>1. j \in T
    BY <1>7, WalksAreShort
  <2> QED
    BY <1>5, <2>1
<1> QED
  BY <1>6, <1>7 DEF Longest

(* A walk is extended by an edge from its end to a node it does not visit. *)
LEMMA WalkIsExtended ==
  ASSUME NEW nodes, NEW edges, NEW firsts, NEW o, NEW k, Walks(nodes, edges, firsts, o, k),
         NEW x \in nodes, <<o[k], x>> \in edges, \A i \in 1..k : o[i] # x
  PROVE  \E p : Walks(nodes, edges, firsts, p, k + 1)
<1> DEFINE p == [i \in 1..(k + 1) |-> IF i = k + 1 THEN x ELSE o[i]]
<1> USE DEF Walks
<1>1. k \in Nat /\ k >= 1 /\ k + 1 \in Nat /\ k + 1 >= 1 /\ (k + 1) - 1 = k
  OBVIOUS
<1>2. p \in [1..(k + 1) -> nodes]
  OBVIOUS
<1>3. p[k + 1] = x /\ \A i \in 1..k : p[i] = o[i] /\ i \in 1..(k + 1)
  BY <1>1
<1>4. \A i \in 1..(k + 1) : i = k + 1 \/ i \in 1..k
  BY <1>1
<1> HIDE DEF p
<1>5. \A i, j \in 1..(k + 1) : p[i] = p[j] => i = j
  BY <1>3, <1>4
<1>6. \A i \in 1..k : <<p[i], p[i + 1]>> \in edges
  <2> TAKE i \in 1..k
  <2>1. CASE i = k
    BY <1>3, <2>1
  <2>2. CASE i # k
    <3>1. i \in 1..(k - 1) /\ i + 1 \in 1..k
      BY <1>1, <2>2
    <3> QED
      BY <1>3, <3>1
  <2> QED
    BY <2>1, <2>2
<1>7. p[1] \in firsts
  BY <1>1, <1>3
<1> QED
  BY <1>1, <1>2, <1>5, <1>6, <1>7

(* So every edge from the end of a longest walk leads back into it. *)
LEMMA LongestEndsInside ==
  ASSUME NEW nodes, NEW edges, NEW firsts, NEW o, NEW k, Longest(nodes, edges, firsts, o, k),
         NEW x \in nodes, <<o[k], x>> \in edges
  PROVE  \E i \in 1..k : o[i] = x
<1> SUFFICES ASSUME \A i \in 1..k : o[i] # x
             PROVE  FALSE
  OBVIOUS
<1>1. PICK p : Walks(nodes, edges, firsts, p, k + 1)
  BY WalkIsExtended DEF Longest
<1>2. k \in Nat /\ k + 1 <= k
  BY <1>1 DEF Longest, Walks
<1> QED
  BY <1>2

-----------------------------------------------------------------------------
(* Accepted in one direction: a line                                       *)

(* Without direction issues no two arcs share a source, or a target. *)
LEMMA OneArcPerSide ==
  ASSUME NEW arcs, IsFiniteSet(arcs), DirectionIssues(arcs) = {},
         NEW a \in arcs, NEW b \in arcs
  PROVE  (a.source = b.source => a = b) /\ (a.target = b.target => a = b)
<1> DEFINE out == {x \in arcs : x.source = a.source}
           in == {x \in arcs : x.target = a.target}
<1>1. ~ \E n \in ActiveNodes(arcs) : Incoming(arcs, n) > 1 \/ Outgoing(arcs, n) > 1
  BY DEF DirectionIssues, Issue
<1>2. a.source \in ActiveNodes(arcs) /\ a.target \in ActiveNodes(arcs)
  BY DEF ActiveNodes
<1>3. ~(Cardinality(out) > 1) /\ ~(Cardinality(in) > 1)
  BY <1>1, <1>2 DEF Incoming, Outgoing
<1>4. IsFiniteSet(out) /\ IsFiniteSet(in)
  BY FS_Subset
<1>5. a \in out /\ a \in in
  OBVIOUS
<1>6. b \in out => a = b
  <2> HIDE DEF out
  <2> QED
    BY <1>3, <1>4, <1>5, MembersOfOne
<1>7. b \in in => a = b
  <2> HIDE DEF in
  <2> QED
    BY <1>3, <1>4, <1>5, MembersOfOne
<1> QED
  BY <1>6, <1>7

(* Without direction issues some active node is the target of no arc. *)
LEMMA ASourceExists ==
  ASSUME NEW arcs, IsFiniteSet(arcs), DirectionIssues(arcs) = {}
  PROVE  \E s \in ActiveNodes(arcs) : \A a \in arcs : a.target # s
<1> DEFINE sources == {n \in ActiveNodes(arcs) : Outgoing(arcs, n) = 1 /\ Incoming(arcs, n) = 0}
<1>1. Cardinality(sources) = 1
  BY DEF DirectionIssues, Issue
<1>2. sources # {}
  <2> HIDE DEF sources
  <2> QED
    BY <1>1, FS_EmptySet
<1>3. PICK s \in ActiveNodes(arcs) : Incoming(arcs, s) = 0
  BY <1>2
<1>4. IsFiniteSet({a \in arcs : a.target = s})
  BY FS_Subset
<1>5. {a \in arcs : a.target = s} = {}
  BY <1>3, <1>4, FS_EmptySet DEF Incoming
<1> QED
  BY <1>5

(* A walk of all nodes is an order of them, and Steps are its edges. *)
LEMMA WalkOfAllNodes ==
  ASSUME NEW nodes, IsFiniteSet(nodes), NEW edges, NEW firsts, NEW o, NEW k,
         Walks(nodes, edges, firsts, o, k), \A x \in nodes : \E i \in 1..k : o[i] = x
  PROVE  /\ k = Cardinality(nodes) /\ o \in Orders(nodes) /\ Len(o) = k
         /\ Steps(o) = {<<o[i], o[i + 1]>> : i \in 1..(k - 1)}
<1>1. k \in Nat /\ o \in [1..k -> nodes]
  BY DEF Walks
<1>2. o \in Bijection(1..k, nodes)
  BY DEF Walks, Bijection, Injection, Surjection, IsInjective
<1>3. Cardinality(1..k) = k /\ IsFiniteSet(1..k)
  BY <1>1, FS_Interval
<1>4. k = Cardinality(nodes)
  BY <1>2, <1>3, FS_Bijection DEF ExistsBijection
<1>5. Len(o) = k
  BY <1>1
<1>6. o \in Orders(nodes)
  BY <1>1, <1>4 DEF Orders, IsInjective, Walks
<1> QED
  BY <1>4, <1>5, <1>6 DEF Steps

(* The links in use that are accepted in one direction are the steps of    *)
(* one order of their nodes: the walk that starts at the source.           *)
LEMMA AcceptedMeansDirectedLine ==
  ASSUME NEW arcs, IsFiniteSet(arcs), LineIssues(arcs) = {}, DirectionIssues(arcs) = {}
  PROVE  IsDirectedLine(Pairs(arcs), ActiveNodes(arcs))
<1> DEFINE nodes == ActiveNodes(arcs)
           edges == Pairs(arcs)
<1>1. nodes = Reached(arcs)
  BY DEF LineIssues, Issue
<1>2. IsFiniteSet(nodes) /\ Cardinality(nodes) \in Nat
  BY FewActiveNodes
<1>3. \A a, b \in arcs : (a.source = b.source => a = b) /\ (a.target = b.target => a = b)
  BY OneArcPerSide
<1>4. PICK s \in nodes : \A a \in arcs : a.target # s
  BY ASourceExists
<1>5. PICK o, k : Longest(nodes, edges, {s}, o, k)
  BY <1>2, LongestWalkExists
<1>6. /\ k \in Nat /\ k >= 1 /\ o \in [1..k -> nodes] /\ o[1] = s
      /\ \A i, j \in 1..k : o[i] = o[j] => i = j
      /\ \A i \in 1..(k - 1) : <<o[i], o[i + 1]>> \in edges
  BY <1>5 DEF Longest, Walks
<1>7. \A i \in 1..(k - 1) : \E a \in arcs : a.source = o[i] /\ a.target = o[i + 1]
  BY <1>6 DEF Pairs
<1>8. \A i \in 1..k : i # k => i \in 1..(k - 1) /\ i + 1 \in 1..k
  BY <1>6
<1>9. \A i \in 1..k : i # 1 => i - 1 \in 1..(k - 1) /\ (i - 1) + 1 = i /\ i - 1 \in 1..k
  BY <1>6
<1>10. ASSUME NEW a \in arcs, NEW i \in 1..k, a.target = o[i]
       PROVE  i # 1 /\ a.source = o[i - 1]
  <2>1. i # 1
    BY <1>4, <1>6, <1>10
  <2>2. PICK b \in arcs : b.source = o[i - 1] /\ b.target = o[i]
    BY <1>7, <1>9, <2>1
  <2> QED
    BY <1>3, <1>10, <2>1, <2>2
<1>11. ASSUME NEW a \in arcs, NEW i \in 1..k, a.source = o[i]
       PROVE  i # k /\ a.target = o[i + 1]
  <2>1. i # k
    <3> SUFFICES ASSUME i = k
                 PROVE  FALSE
      OBVIOUS
    <3>1. a.target \in nodes /\ <<o[k], a.target>> \in edges
      BY <1>11 DEF ActiveNodes, Pairs
    <3>2. PICK j \in 1..k : o[j] = a.target
      BY <1>5, <3>1, LongestEndsInside
    <3>3. j # 1 /\ a.source = o[j - 1]
      BY <1>10, <3>2
    <3>4. j - 1 = k
      BY <1>6, <1>9, <1>11, <3>3
    <3> QED
      BY <1>6, <3>4
  <2>2. PICK b \in arcs : b.source = o[i] /\ b.target = o[i + 1]
    BY <1>7, <1>8, <2>1
  <2> QED
    BY <1>3, <1>11, <2>1, <2>2
<1>12. \A x \in nodes : \E i \in 1..k : o[i] = x
  <2> DEFINE W == {o[i] : i \in 1..k}
  <2>1. ASSUME NEW x \in W
        PROVE  Neighbours(arcs, x) \subseteq W
    <3>1. PICK i \in 1..k : o[i] = x
      OBVIOUS
    <3>2. ASSUME NEW y \in Neighbours(arcs, x)
          PROVE  y \in W
      <4>1. PICK a \in arcs : \/ a.source = x /\ a.target = y
                              \/ a.target = x /\ a.source = y
        BY DEF Neighbours
      <4>2. CASE a.source = x /\ a.target = y
        BY <1>8, <1>11, <3>1, <4>2
      <4>3. CASE a.target = x /\ a.source = y
        BY <1>9, <1>10, <3>1, <4>3
      <4> QED
        BY <4>1, <4>2, <4>3
    <3> QED
      BY <3>2
  <2>2. W \subseteq nodes /\ W # {}
    BY <1>6
  <2>3. W = nodes
    <3> HIDE DEF W
    <3> QED
      BY <1>1, <1>2, <2>1, <2>2, ConnectedNodesAreAll
  <2> QED
    BY <2>3
<1>13. /\ o \in Orders(nodes)
       /\ Steps(o) = {<<o[i], o[i + 1]>> : i \in 1..(k - 1)}
  BY <1>2, <1>5, <1>12, WalkOfAllNodes DEF Longest
<1>14. edges \subseteq Steps(o)
  <2> SUFFICES ASSUME NEW a \in arcs
               PROVE  <<a.source, a.target>> \in Steps(o)
    BY DEF Pairs
  <2>1. PICK i \in 1..k : o[i] = a.source
    BY <1>12 DEF ActiveNodes
  <2>2. i \in 1..(k - 1) /\ a.target = o[i + 1]
    BY <1>8, <1>11, <2>1
  <2> QED
    BY <1>13, <2>1, <2>2
<1>15. Steps(o) \subseteq edges
  BY <1>6, <1>13
<1> QED
  BY <1>13, <1>14, <1>15 DEF IsDirectedLine

-----------------------------------------------------------------------------
(* Accepted without a direction: a line                                    *)

(* The arcs read both ways. *)
Joined(arcs) == Pairs(arcs) \cup Reversed(Pairs(arcs))

(* Two nodes are joined exactly when they neighbour each other. *)
LEMMA JoinedNeighbours ==
  ASSUME NEW arcs
  PROVE  /\ \A x, y : <<x, y>> \in Joined(arcs) <=> y \in Neighbours(arcs, x)
         /\ Joined(arcs) = UNION {{<<x, y>> : y \in Neighbours(arcs, x)} : x \in ActiveNodes(arcs)}
         /\ \A p \in Joined(arcs) : \E x, y \in ActiveNodes(arcs) : p = <<x, y>>
<1>1. /\ \A p \in Joined(arcs) : \E a \in arcs : p = <<a.source, a.target>> \/ p = <<a.target, a.source>>
      /\ \A a \in arcs : <<a.source, a.target>> \in Joined(arcs) /\ <<a.target, a.source>> \in Joined(arcs)
  <2>1. \A p \in Reversed(Pairs(arcs)) : \E a \in arcs : p = <<a.target, a.source>>
    BY DEF Pairs, Reversed
  <2>2. \A a \in arcs : <<a.target, a.source>> \in Reversed(Pairs(arcs))
    <3> TAKE a \in arcs
    <3>1. PICK p \in Pairs(arcs) : p = <<a.source, a.target>>
      BY DEF Pairs
    <3>2. p[1] = a.source /\ p[2] = a.target
      BY <3>1
    <3> QED
      BY <3>2 DEF Reversed
  <2> QED
    BY <2>1, <2>2 DEF Joined, Pairs
<1>2. \A x, y : <<x, y>> \in Joined(arcs) <=> y \in Neighbours(arcs, x)
  BY <1>1 DEF Neighbours
<1>3. \A p \in Joined(arcs) : \E x, y \in ActiveNodes(arcs) : p = <<x, y>>
  BY <1>1 DEF ActiveNodes
<1>4. \A x, y : <<x, y>> \in UNION {{<<n, m>> : m \in Neighbours(arcs, n)} : n \in ActiveNodes(arcs)}
                  <=> x \in ActiveNodes(arcs) /\ y \in Neighbours(arcs, x)
  OBVIOUS
<1>5. \A p \in UNION {{<<n, m>> : m \in Neighbours(arcs, n)} : n \in ActiveNodes(arcs)} :
        \E x, y : p = <<x, y>>
  OBVIOUS
<1>6. \A x, y : y \in Neighbours(arcs, x) => x \in ActiveNodes(arcs)
  BY NeighboursAreMutual
<1> QED
  BY <1>2, <1>3, <1>4, <1>5, <1>6

(* A new member makes a finite set larger by one. *)
LEMMA OneMore ==
  ASSUME NEW S, IsFiniteSet(S), NEW x, x \notin S
  PROVE  IsFiniteSet(S \cup {x}) /\ Cardinality(S \cup {x}) = Cardinality(S) + 1
BY FS_AddElement

(* Three different values make a set of three. *)
LEMMA ThreeMembers ==
  ASSUME NEW a, NEW b, NEW d, a # b, b # d, a # d
  PROVE  Cardinality({a, b, d}) = 3
<1> DEFINE one == {a}
           two == one \cup {b}
<1>1. Cardinality(one) = 1 /\ IsFiniteSet(one)
  BY FS_Singleton
<1>2. b \notin one /\ d \notin two /\ {a, b, d} = two \cup {d}
  OBVIOUS
<1> HIDE DEF one
<1>3. IsFiniteSet(two) /\ Cardinality(two) = 2
  BY <1>1, <1>2, FS_AddElement
<1> HIDE DEF two
<1>4. Cardinality(two \cup {d}) = 3
  BY <1>2, <1>3, FS_AddElement
<1> QED
  BY <1>2, <1>4

(* A node of unbranched links has at most two neighbours. *)
LEMMA TwoNeighbours ==
  ASSUME NEW arcs, IsFiniteSet(arcs), \A a \in arcs : a.source # a.target, LineIssues(arcs) = {},
         NEW n, NEW x \in Neighbours(arcs, n), NEW y \in Neighbours(arcs, n), NEW z \in Neighbours(arcs, n)
  PROVE  x = y \/ y = z \/ x = z
<1> SUFFICES ASSUME x # y, y # z, x # z
             PROVE  FALSE
  OBVIOUS
<1> DEFINE out == {a \in arcs : a.source = n}
           in == {a \in arcs : a.target = n}
<1>1. n \in ActiveNodes(arcs)
  BY NeighboursAreMutual
<1>2. ~(Cardinality(in) + Cardinality(out) > 2)
  BY <1>1 DEF LineIssues, Issue, Incoming, Outgoing
<1>3. IsFiniteSet(out) /\ IsFiniteSet(in) /\ Cardinality(in) \in Nat /\ Cardinality(out) \in Nat
  <2>1. IsFiniteSet(out) /\ IsFiniteSet(in)
    BY FS_Subset
  <2> HIDE DEF out, in
  <2> QED
    BY <2>1, FS_CardinalityType
<1>4. in \cap out = {}
  OBVIOUS
<1>5. IsFiniteSet(in \cup out) /\ Cardinality(in \cup out) = Cardinality(in) + Cardinality(out)
  <2> HIDE DEF in, out
  <2>1. Cardinality(in \cap out) = 0
    BY <1>4, FS_EmptySet
  <2>2. /\ IsFiniteSet(in \cup out)
        /\ Cardinality(in \cup out) = Cardinality(in) + Cardinality(out) - Cardinality(in \cap out)
    BY <1>3, FS_Union
  <2> QED
    BY <1>3, <2>1, <2>2
<1>6. /\ \E a \in in \cup out : {a.source, a.target} = {n, x}
      /\ \E a \in in \cup out : {a.source, a.target} = {n, y}
      /\ \E a \in in \cup out : {a.source, a.target} = {n, z}
  BY DEF Neighbours
<1>7. PICK a \in in \cup out, b \in in \cup out, d \in in \cup out : a # b /\ b # d /\ a # d
  <2>1. PICK a \in in \cup out : {a.source, a.target} = {n, x}
    BY <1>6
  <2>2. PICK b \in in \cup out : {b.source, b.target} = {n, y}
    BY <1>6
  <2>3. PICK d \in in \cup out : {d.source, d.target} = {n, z}
    BY <1>6
  <2>4. a.source # a.target /\ b.source # b.target /\ d.source # d.target
    OBVIOUS
  <2>5. a # b /\ b # d /\ a # d
    BY <2>1, <2>2, <2>3, <2>4
  <2> QED
    BY <2>5
<1>8. Cardinality({a, b, d}) = 3
  BY <1>7, ThreeMembers
<1>9. Cardinality({a, b, d}) <= Cardinality(in \cup out)
  <2>1. {a, b, d} \in SUBSET (in \cup out)
    OBVIOUS
  <2> HIDE DEF in, out
  <2> QED
    BY <1>5, <2>1, FS_Subset
<1> QED
  BY <1>2, <1>3, <1>5, <1>8, <1>9

(* The steps of a walk of k nodes, forth and back. *)
Forth(o, k) == {<<o[i], o[i + 1]>> : i \in 1..(k - 1)}
Back(o, k) == {<<o[i + 1], o[i]>> : i \in 1..(k - 1)}

(* The steps of a walk of k nodes, read both ways, are 2(k - 1) pairs. *)
LEMMA StepsBothWays ==
  ASSUME NEW nodes, NEW edges, NEW firsts, NEW o, NEW k, Walks(nodes, edges, firsts, o, k)
  PROVE  IsFiniteSet(Forth(o, k) \cup Back(o, k)) /\ Cardinality(Forth(o, k) \cup Back(o, k)) = 2 * (k - 1)
<1> DEFINE S == {<<o[i], o[i + 1]>> : i \in 1..(k - 1)}
           R == {<<o[i + 1], o[i]>> : i \in 1..(k - 1)}
<1>1. /\ k \in Nat /\ k >= 1 /\ k - 1 \in Nat
      /\ \A i, j \in 1..k : o[i] = o[j] => i = j
  BY DEF Walks
<1>2. \A i \in 1..(k - 1) : i \in 1..k /\ i + 1 \in 1..k
  BY <1>1
<1>3. [i \in 1..(k - 1) |-> <<o[i], o[i + 1]>>] \in Bijection(1..(k - 1), S)
  BY <1>1, <1>2 DEF Bijection, Injection, Surjection, IsInjective
<1>4. [i \in 1..(k - 1) |-> <<o[i + 1], o[i]>>] \in Bijection(1..(k - 1), R)
  BY <1>1, <1>2 DEF Bijection, Injection, Surjection, IsInjective
<1>5. IsFiniteSet(1..(k - 1)) /\ Cardinality(1..(k - 1)) = k - 1
  <2> PICK m \in Nat : m = k - 1
    BY <1>1
  <2>1. IsFiniteSet(1..m) /\ Cardinality(1..m) = m
    BY FS_Interval
  <2> QED
    BY <2>1
<1> HIDE DEF S, R
<1>6. IsFiniteSet(S) /\ Cardinality(S) = k - 1
  BY <1>3, <1>5, FS_Bijection DEF ExistsBijection
<1>7. IsFiniteSet(R) /\ Cardinality(R) = k - 1
  BY <1>4, <1>5, FS_Bijection DEF ExistsBijection
<1>8. S \cap R = {}
  <2> SUFFICES ASSUME NEW i \in 1..(k - 1), NEW j \in 1..(k - 1), o[i] = o[j + 1], o[i + 1] = o[j]
               PROVE  FALSE
    BY DEF S, R
  <2>1. i = j + 1 /\ i + 1 = j
    BY <1>1, <1>2
  <2> QED
    BY <2>1
<1>9. Cardinality(S \cap R) = 0
  BY <1>8, FS_EmptySet
<1>10. /\ IsFiniteSet(S \cup R)
       /\ Cardinality(S \cup R) = Cardinality(S) + Cardinality(R) - Cardinality(S \cap R)
  BY <1>6, <1>7, FS_Union
<1>11. Cardinality(S \cup R) = 2 * (k - 1)
  BY <1>1, <1>6, <1>7, <1>9, <1>10
<1> QED
  BY <1>10, <1>11 DEF S, R, Forth, Back

(* The nodes of a walk in the opposite order. *)
Opposite(p, o, k) == \A i \in 1..k : k + 1 - i \in 1..k /\ p[i] = o[k + 1 - i]

(* A walk along edges that lead both ways can be walked backwards. *)
LEMMA WalkedBackwards ==
  ASSUME NEW nodes, NEW edges, \A x, y : <<x, y>> \in edges => <<y, x>> \in edges,
         NEW o, NEW k, Longest(nodes, edges, nodes, o, k)
  PROVE  \E p : Longest(nodes, edges, nodes, p, k) /\ Opposite(p, o, k)
<1> DEFINE p == [i \in 1..k |-> o[k + 1 - i]]
<1>1. /\ k \in Nat /\ k >= 1 /\ o \in [1..k -> nodes]
      /\ \A i, j \in 1..k : o[i] = o[j] => i = j
      /\ \A i \in 1..(k - 1) : <<o[i], o[i + 1]>> \in edges
  BY DEF Longest, Walks
<1>2. \A i \in 1..k : k + 1 - i \in 1..k /\ p[i] = o[k + 1 - i]
  BY <1>1
<1>3. p \in [1..k -> nodes]
  BY <1>1, <1>2
<1>4. p[1] \in nodes
  BY <1>1, <1>3
<1>5. \A i, j \in 1..k : p[i] = p[j] => i = j
  <2> TAKE i \in 1..k, j \in 1..k
  <2> HAVE p[i] = p[j]
  <2>1. k + 1 - i = k + 1 - j
    BY <1>1, <1>2
  <2> QED
    BY <1>1, <2>1
<1>6. \A i \in 1..(k - 1) : <<p[i], p[i + 1]>> \in edges
  <2> TAKE i \in 1..(k - 1)
  <2> PICK j : j = k - i
    OBVIOUS
  <2>1. j \in 1..(k - 1) /\ i \in 1..k /\ i + 1 \in 1..k /\ k + 1 - i = j + 1 /\ k + 1 - (i + 1) = j
    BY <1>1
  <2>2. p[i] = o[j + 1] /\ p[i + 1] = o[j]
    BY <1>2, <2>1
  <2> QED
    BY <1>1, <2>1, <2>2
<1>7. Walks(nodes, edges, nodes, p, k)
  BY <1>1, <1>3, <1>4, <1>5, <1>6 DEF Walks
<1>8. Longest(nodes, edges, nodes, p, k)
  BY <1>7 DEF Longest
<1> HIDE DEF p
<1> QED
  BY <1>2, <1>8 DEF Opposite

(* No edge closes a walk of three nodes or more: it would make one pair    *)
(* too many for the cardinality check.                                     *)
LEMMA NoCycle ==
  ASSUME NEW arcs, IsFiniteSet(arcs), LineIssues(arcs) = {},
         NEW o, NEW k, Walks(ActiveNodes(arcs), Joined(arcs), ActiveNodes(arcs), o, k),
         k = Cardinality(ActiveNodes(arcs)), k >= 3
  PROVE  <<o[1], o[k]>> \notin Joined(arcs)
<1> SUFFICES ASSUME <<o[1], o[k]>> \in Joined(arcs)
             PROVE  FALSE
  OBVIOUS
<1> DEFINE nodes == ActiveNodes(arcs)
           edges == Joined(arcs)
           forth == <<o[1], o[k]>>
           back == <<o[k], o[1]>>
<1> PICK U : U = Forth(o, k) \cup Back(o, k)
  OBVIOUS
<1>1. /\ k \in Nat /\ \A i, j \in 1..k : o[i] = o[j] => i = j
      /\ \A i \in 1..(k - 1) : <<o[i], o[i + 1]>> \in edges
  BY DEF Walks
<1>2. \A x, y : <<x, y>> \in edges => <<y, x>> \in edges
  BY JoinedNeighbours, NeighboursAreMutual
<1>3. U \subseteq edges /\ forth \in edges /\ back \in edges
  <2>1. Forth(o, k) \subseteq edges
    BY <1>1 DEF Forth
  <2>2. Back(o, k) \subseteq edges
    <3> HIDE DEF edges
    <3>1. \A i \in 1..(k - 1) : <<o[i + 1], o[i]>> \in edges
      BY <1>1, <1>2
    <3> QED
      BY <3>1 DEF Back
  <2>3. forth \in edges /\ back \in edges
    BY <1>2
  <2> QED
    BY <2>1, <2>2, <2>3
<1>4. \A i \in 1..(k - 1) : i \in 1..k /\ i + 1 \in 1..k
  BY <1>1
<1>5. 1 \in 1..k /\ k \in 1..k
  BY <1>1
<1>6. forth \notin U
  BY <1>1, <1>4, <1>5 DEF Forth, Back
<1>7. back \notin U \cup {forth}
  BY <1>1, <1>4, <1>5 DEF Forth, Back
<1>8. IsFiniteSet(U) /\ Cardinality(U) = 2 * (k - 1)
  BY StepsBothWays
<1>9. IsFiniteSet(edges)
  <2>1. IsFiniteSet(nodes \X nodes)
    BY FewActiveNodes, FS_Product
  <2>2. edges \in SUBSET (nodes \X nodes)
    BY JoinedNeighbours
  <2> QED
    BY <2>1, <2>2, FS_Subset
<1>10. Cardinality(edges) >= 2 * k
  <2> HIDE DEF forth, back, edges
  <2>1. /\ IsFiniteSet(U \cup {forth})
        /\ Cardinality(U \cup {forth}) = 2 * (k - 1) + 1
    BY <1>6, <1>8, FS_AddElement
  <2>2. Cardinality((U \cup {forth}) \cup {back}) = 2 * (k - 1) + 2
    <3> PICK m \in Nat : m = 2 * (k - 1) + 1
      BY <1>1
    <3> PICK V : V = U \cup {forth}
      OBVIOUS
    <3> PICK x : x = back
      OBVIOUS
    <3>1. IsFiniteSet(V) /\ Cardinality(V) = m /\ x \notin V
      BY <1>7, <2>1
    <3>2. Cardinality(V \cup {x}) = m + 1
      BY <3>1, OneMore
    <3> QED
      BY <1>1, <3>2
  <2>3. (U \cup {forth}) \cup {back} \in SUBSET edges
    BY <1>3
  <2>4. 2 * (k - 1) + 2 <= Cardinality(edges)
    BY <1>9, <2>2, <2>3, FS_Subset
  <2>5. Cardinality(edges) \in Nat
    BY <1>9, FS_CardinalityType
  <2> QED
    BY <1>1, <2>4, <2>5
<1>11. Cardinality(edges) \in Nat /\ (Cardinality(edges) \div 2 = 0 \/ Cardinality(edges) \div 2 = k - 1)
  <2>1. Cardinality(edges) \in Nat
    BY <1>9, FS_CardinalityType
  <2>2. edges = UNION {{<<n, m>> : m \in Neighbours(arcs, n)} : n \in nodes}
    BY JoinedNeighbours
  <2> HIDE DEF edges
  <2>3. Cardinality(edges) \div 2 = 0 \/ Cardinality(edges) \div 2 = k - 1
    BY <2>2 DEF LineIssues, Issue
  <2> QED
    BY <2>1, <2>3
<1> QED
  BY <1>1, <1>10, <1>11

(* The links in use that are accepted as a line join each node of one      *)
(* order of their nodes to the next, and no others.                        *)
LEMMA AcceptedMeansLine ==
  ASSUME NEW arcs, IsFiniteSet(arcs), arcs # {}, \A a \in arcs : a.source # a.target,
         LineIssues(arcs) = {}
  PROVE  IsLine(Pairs(arcs), ActiveNodes(arcs))
<1> DEFINE nodes == ActiveNodes(arcs)
           edges == Joined(arcs)
<1>1. nodes = Reached(arcs)
  BY DEF LineIssues, Issue
<1>2. IsFiniteSet(nodes) /\ Cardinality(nodes) \in Nat
  BY FewActiveNodes
<1>3. \A x, y : <<x, y>> \in edges => <<y, x>> \in edges
  BY JoinedNeighbours, NeighboursAreMutual
<1>4. \A x : <<x, x>> \notin edges
  <2>1. \A x : x \notin Neighbours(arcs, x)
    BY DEF Neighbours
  <2> QED
    BY <2>1, JoinedNeighbours
<1>5. \A x, y : <<x, y>> \in edges => x \in nodes /\ y \in nodes
  BY JoinedNeighbours, NeighboursAreMutual
<1>6. \A n, x, y, z : <<n, x>> \in edges /\ <<n, y>> \in edges /\ <<n, z>> \in edges =>
                        x = y \/ y = z \/ x = z
  BY JoinedNeighbours, TwoNeighbours
<1>7. PICK x0 : x0 \in nodes
  BY DEF ActiveNodes
<1>8. PICK o, k : Longest(nodes, edges, nodes, o, k)
  BY <1>2, <1>7, LongestWalkExists
<1> HIDE DEF edges
<1>9. /\ k \in Nat /\ k >= 1 /\ o \in [1..k -> nodes]
      /\ \A i, j \in 1..k : o[i] = o[j] => i = j
      /\ \A i \in 1..(k - 1) : <<o[i], o[i + 1]>> \in edges
  BY <1>8 DEF Longest, Walks
<1>10. ASSUME NEW y, <<o[k], y>> \in edges
       PROVE  \E j \in 1..k : o[j] = y
  BY <1>5, <1>8, <1>10, LongestEndsInside
<1>11. ASSUME NEW y, <<o[1], y>> \in edges
       PROVE  \E j \in 1..k : o[j] = y
  <2> HIDE DEF nodes
  <2>1. PICK p : Longest(nodes, edges, nodes, p, k) /\ Opposite(p, o, k)
    BY <1>3, <1>8, WalkedBackwards
  <2>2. p[k] = o[1]
    BY <1>9, <2>1 DEF Opposite
  <2>3. y \in nodes /\ <<p[k], y>> \in edges
    BY <1>5, <1>11, <2>2
  <2>4. PICK i \in 1..k : p[i] = y
    BY <2>1, <2>3, LongestEndsInside
  <2> QED
    BY <2>1, <2>4 DEF Opposite
(* Inside the walk the two neighbours of a node are the ones beside it. *)
<1>12. ASSUME NEW i \in 1..k, i # 1, i # k, NEW y, <<o[i], y>> \in edges
       PROVE  y = o[i - 1] \/ y = o[i + 1]
  <2>1. i - 1 \in 1..(k - 1) /\ i \in 1..(k - 1) /\ (i - 1) + 1 = i /\ i - 1 \in 1..k /\ i + 1 \in 1..k
    BY <1>9, <1>12
  <2>2. <<o[i], o[i - 1]>> \in edges /\ <<o[i], o[i + 1]>> \in edges
    BY <1>3, <1>9, <2>1
  <2>3. o[i - 1] # o[i + 1]
    BY <1>9, <2>1
  <2> QED
    BY <1>6, <1>12, <2>2, <2>3
<1>13. \A x \in nodes : \E i \in 1..k : o[i] = x
  <2> DEFINE W == {o[i] : i \in 1..k}
  <2>1. ASSUME NEW x \in W
        PROVE  Neighbours(arcs, x) \subseteq W
    <3>1. PICK i \in 1..k : o[i] = x
      OBVIOUS
    <3>2. ASSUME NEW y \in Neighbours(arcs, x)
          PROVE  y \in W
      <4>1. <<o[i], y>> \in edges
        BY <3>1, JoinedNeighbours DEF edges
      <4>2. CASE i = 1
        BY <1>11, <4>1, <4>2
      <4>3. CASE i = k
        BY <1>10, <4>1, <4>3
      <4>4. CASE i # 1 /\ i # k
        <5>1. y = o[i - 1] \/ y = o[i + 1]
          BY <1>12, <4>1, <4>4
        <5>2. i - 1 \in 1..k /\ i + 1 \in 1..k
          BY <1>9, <4>4
        <5> QED
          BY <5>1, <5>2
      <4> QED
        BY <4>2, <4>3, <4>4
    <3> QED
      BY <3>2
  <2>2. W \subseteq nodes /\ W # {}
    BY <1>9
  <2>3. W = nodes
    <3> HIDE DEF W
    <3> QED
      BY <1>1, <1>2, <2>1, <2>2, ConnectedNodesAreAll
  <2> QED
    BY <2>3
<1>14. /\ k = Cardinality(nodes) /\ o \in Orders(nodes)
       /\ Steps(o) = {<<o[i], o[i + 1]>> : i \in 1..(k - 1)}
  BY <1>2, <1>8, <1>13, WalkOfAllNodes DEF Longest
(* Joined nodes are one step apart: the ends of the walk are not joined.   *)
<1>15. ASSUME NEW i \in 1..k, NEW j \in 1..k, <<o[i], o[j]>> \in edges
       PROVE  j = i + 1 \/ i = j + 1
  <2>1. <<o[j], o[i]>> \in edges /\ i # j
    BY <1>3, <1>4, <1>15
  <2>2. CASE i # 1 /\ i # k
    <3>1. o[j] = o[i - 1] \/ o[j] = o[i + 1]
      BY <1>12, <1>15, <2>2
    <3>2. i - 1 \in 1..k /\ i + 1 \in 1..k
      BY <1>9, <2>2
    <3>3. j = i - 1 \/ j = i + 1
      BY <1>9, <3>1, <3>2
    <3> QED
      BY <3>3
  <2>3. CASE j # 1 /\ j # k
    <3>1. o[i] = o[j - 1] \/ o[i] = o[j + 1]
      BY <1>12, <2>1, <2>3
    <3>2. j - 1 \in 1..k /\ j + 1 \in 1..k
      BY <1>9, <2>3
    <3>3. i = j - 1 \/ i = j + 1
      BY <1>9, <3>1, <3>2
    <3> QED
      BY <3>3
  <2>4. CASE i \in {1, k} /\ j \in {1, k}
    <3>1. <<o[1], o[k]>> \in edges /\ k # 1
      BY <1>15, <2>1, <2>4
    <3>2. ~(k >= 3)
      BY <1>8, <1>14, <3>1, NoCycle DEF edges, Longest
    <3> QED
      BY <1>9, <2>1, <2>4, <3>1, <3>2
  <2> QED
    BY <2>2, <2>3, <2>4
<1>16. edges \subseteq Steps(o) \cup Reversed(Steps(o))
  <2> SUFFICES ASSUME NEW x \in nodes, NEW y \in nodes, <<x, y>> \in edges
               PROVE  <<x, y>> \in Steps(o) \cup Reversed(Steps(o))
    BY JoinedNeighbours DEF edges
  <2>1. PICK i \in 1..k, j \in 1..k : o[i] = x /\ o[j] = y
    BY <1>13
  <2>2. CASE j = i + 1
    <3>1. i \in 1..(k - 1)
      BY <1>9, <2>2
    <3> QED
      BY <1>14, <2>1, <2>2, <3>1
  <2>3. CASE i = j + 1
    <3>1. j \in 1..(k - 1)
      BY <1>9, <2>3
    <3>2. PICK p \in Steps(o) : p = <<y, x>>
      BY <1>14, <2>1, <2>3, <3>1
    <3>3. p[1] = y /\ p[2] = x
      BY <3>2
    <3> QED
      BY <3>3 DEF Reversed
  <2> QED
    BY <1>15, <2>1, <2>2, <2>3
<1>17. Steps(o) \cup Reversed(Steps(o)) \subseteq edges
  <2>1. \A i \in 1..(k - 1) : <<o[i], o[i + 1]>> \in edges /\ <<o[i + 1], o[i]>> \in edges
    BY <1>3, <1>9
  <2>2. \A p \in Steps(o) : p \in edges /\ <<p[2], p[1]>> \in edges
    <3> TAKE p \in Steps(o)
    <3>1. PICK i \in 1..(k - 1) : p = <<o[i], o[i + 1]>>
      BY <1>14
    <3>2. p[1] = o[i] /\ p[2] = o[i + 1]
      BY <3>1
    <3> QED
      BY <2>1, <3>1, <3>2
  <2> QED
    BY <2>2 DEF Reversed
<1>18. Pairs(arcs) \cup Reversed(Pairs(arcs)) = Steps(o) \cup Reversed(Steps(o))
  BY <1>16, <1>17 DEF edges, Joined
<1> QED
  BY <1>14, <1>18 DEF IsLine

-----------------------------------------------------------------------------
(* A line is accepted                                                      *)

(* From any node of a line, each round reaches the next node on both sides *)
(* and so all of them in as many rounds as there are nodes.                *)
LEMMA RoundsSpread ==
  ASSUME NEW arcs, NEW n \in Nat, NEW f,
         \A k \in 1..n : f[k] = f[k - 1] \cup UNION {Neighbours(arcs, x) : x \in f[k - 1]},
         NEW o, NEW p \in 1..n, o[p] \in f[0],
         \A i \in 1..(n - 1) : o[i + 1] \in Neighbours(arcs, o[i]) /\ o[i] \in Neighbours(arcs, o[i + 1])
  PROVE  \A i \in 1..n : o[i] \in f[n]
<1> DEFINE Spread(k) == \A i \in 1..n : i <= p + k /\ p <= i + k => o[i] \in f[k]
           Bad == {k \in 0..n : ~Spread(k)}
<1>1. Spread(0)
  <2> SUFFICES ASSUME NEW i \in 1..n, i <= p + 0, p <= i + 0
               PROVE  o[i] \in f[0]
    OBVIOUS
  <2>1. i = p
    OBVIOUS
  <2> QED
    BY <2>1
<1>2. ASSUME NEW k \in 1..n, Spread(k - 1)
      PROVE  Spread(k)
  <2> SUFFICES ASSUME NEW i \in 1..n, i <= p + k, p <= i + k
               PROVE  o[i] \in f[k]
    OBVIOUS
  <2>1. \A x \in f[k - 1] : x \in f[k] /\ Neighbours(arcs, x) \subseteq f[k]
    OBVIOUS
  <2>2. CASE i <= p + (k - 1) /\ p <= i + (k - 1)
    <3>1. o[i] \in f[k - 1]
      BY <1>2, <2>2
    <3> QED
      BY <2>1, <3>1
  <2>3. CASE i = p + k
    <3> PICK j : j = i - 1
      OBVIOUS
    <3>1. j \in 1..(n - 1) /\ j \in 1..n /\ i = j + 1 /\ j <= p + (k - 1) /\ p <= j + (k - 1)
      BY <2>3
    <3>2. o[j] \in f[k - 1]
      BY <1>2, <3>1
    <3>3. o[i] \in Neighbours(arcs, o[j])
      BY <3>1
    <3> QED
      BY <2>1, <3>2, <3>3
  <2>4. CASE p = i + k
    <3> PICK j : j = i + 1
      OBVIOUS
    <3>1. i \in 1..(n - 1) /\ j \in 1..n /\ j <= p + (k - 1) /\ p <= j + (k - 1)
      BY <2>4
    <3>2. o[j] \in f[k - 1]
      BY <1>2, <3>1
    <3>3. o[i] \in Neighbours(arcs, o[j])
      BY <3>1
    <3> QED
      BY <2>1, <3>2, <3>3
  <2> QED
    BY <2>2, <2>3, <2>4
<1> HIDE DEF Spread
<1>3. Bad = {}
  <2> SUFFICES ASSUME Bad # {}
               PROVE  FALSE
    OBVIOUS
  <2>1. PICK k \in Bad : \A m \in Bad : <<m, k>> \notin OpToRel(<, Nat)
    <3>1. Bad \subseteq Nat
      OBVIOUS
    <3> HIDE DEF Bad
    <3> QED
      BY <3>1, NatLessThanWellFounded, WFMin
  <2>2. k \in 1..n /\ ~Spread(k)
    BY <1>1
  <2>3. k - 1 \in 0..n /\ k - 1 < k /\ k - 1 \in Nat /\ k \in Nat
    BY <2>2
  <2>4. k - 1 \notin Bad
    BY <2>1, <2>3 DEF OpToRel
  <2> QED
    BY <1>2, <2>2, <2>3, <2>4
<1>4. Spread(n)
  BY <1>3
<1>5. \A i \in 1..n : i <= p + n /\ p <= i + n
  OBVIOUS
<1> QED
  BY <1>4, <1>5 DEF Spread

(* What a line in one direction says of its arcs, which are one per pair.  *)
LinedUp(arcs, o, n) ==
    /\ n \in Nat /\ n >= 2
    /\ o \in [1..n -> ActiveNodes(arcs)]
    /\ \A i, j \in 1..n : o[i] = o[j] => i = j
    /\ \A x \in ActiveNodes(arcs) : \E i \in 1..n : o[i] = x
    /\ \A a \in arcs : \E i \in 1..(n - 1) : a.source = o[i] /\ a.target = o[i + 1]
    /\ \A i \in 1..(n - 1) : \E a \in arcs : a.source = o[i] /\ a.target = o[i + 1]

(* The order of a line in one direction lines its arcs up. *)
LEMMA DirectedLinesAreLinedUp ==
  ASSUME NEW arcs, IsFiniteSet(arcs), arcs # {}, IsDirectedLine(Pairs(arcs), ActiveNodes(arcs))
  PROVE  \E o : LinedUp(arcs, o, Cardinality(ActiveNodes(arcs)))
<1> PICK n \in Nat : n = Cardinality(ActiveNodes(arcs))
  BY FewActiveNodes
<1>1. PICK o \in Orders(ActiveNodes(arcs)) : Pairs(arcs) = Steps(o)
  BY DEF IsDirectedLine
<1>2. o \in [1..n -> ActiveNodes(arcs)] /\ \A i, j \in 1..n : o[i] = o[j] => i = j
  BY DEF Orders, IsInjective
<1>3. Len(o) = n
  BY <1>2
<1>4. Pairs(arcs) = {<<o[i], o[i + 1]>> : i \in 1..(n - 1)}
  BY <1>1, <1>3 DEF Steps
<1>5. \A a \in arcs : \E i \in 1..(n - 1) : a.source = o[i] /\ a.target = o[i + 1]
  <2> TAKE a \in arcs
  <2>1. <<a.source, a.target>> \in Pairs(arcs)
    BY DEF Pairs
  <2> QED
    BY <1>4, <2>1
<1>6. \A i \in 1..(n - 1) : \E a \in arcs : a.source = o[i] /\ a.target = o[i + 1]
  <2> TAKE i \in 1..(n - 1)
  <2>1. <<o[i], o[i + 1]>> \in Pairs(arcs)
    BY <1>4
  <2> QED
    BY <2>1 DEF Pairs
<1>7. \A i \in 1..(n - 1) : i \in 1..n /\ i + 1 \in 1..n
  OBVIOUS
<1>8. n >= 2
  <2>1. \E i : i \in 1..(n - 1)
    BY <1>5
  <2> QED
    BY <2>1
<1>9. \A x \in ActiveNodes(arcs) : \E i \in 1..n : o[i] = x
  BY <1>5, <1>7 DEF ActiveNodes
<1>10. LinedUp(arcs, o, n)
  BY <1>2, <1>5, <1>6, <1>8, <1>9 DEF LinedUp
<1> QED
  BY <1>10

(* Arcs that are lined up enter and leave a node at most once, and at the  *)
(* ends not at all.                                                        *)
LEMMA LinedUpDegrees ==
  ASSUME NEW arcs, IsFiniteSet(arcs), NEW o, NEW n, LinedUp(arcs, o, n),
         \A a, b \in arcs : a.source = b.source /\ a.target = b.target => a = b
  PROVE  \A i \in 1..n :
           /\ i = 1 => Incoming(arcs, o[i]) = 0
           /\ i # 1 => Incoming(arcs, o[i]) = 1
           /\ i = n => Outgoing(arcs, o[i]) = 0
           /\ i # n => Outgoing(arcs, o[i]) = 1
<1>1. /\ n \in Nat /\ n >= 2 /\ \A i, j \in 1..n : o[i] = o[j] => i = j
      /\ \A a \in arcs : \E i \in 1..(n - 1) : a.source = o[i] /\ a.target = o[i + 1]
      /\ \A i \in 1..(n - 1) : \E a \in arcs : a.source = o[i] /\ a.target = o[i + 1]
  BY DEF LinedUp
<1>2. \A i \in 1..(n - 1) : i \in 1..n /\ i + 1 \in 1..n /\ i # n /\ i + 1 # 1
  BY <1>1
<1>3. \A a, b \in arcs : (a.source = b.source => a = b) /\ (a.target = b.target => a = b)
  <2> TAKE a \in arcs, b \in arcs
  <2>1. PICK i \in 1..(n - 1) : a.source = o[i] /\ a.target = o[i + 1]
    BY <1>1
  <2>2. PICK j \in 1..(n - 1) : b.source = o[j] /\ b.target = o[j + 1]
    BY <1>1
  <2>3. a.source = b.source => i = j
    BY <1>1, <1>2, <2>1, <2>2
  <2>4. a.target = b.target => i = j
    <3>1. a.target = b.target => i + 1 = j + 1
      BY <1>1, <1>2, <2>1, <2>2
    <3> QED
      BY <3>1
  <2> QED
    BY <2>1, <2>2, <2>3, <2>4
<1>4. ASSUME NEW i \in 1..n
      PROVE  (i = 1 => Incoming(arcs, o[i]) = 0) /\ (i # 1 => Incoming(arcs, o[i]) = 1)
  <2> DEFINE in == {a \in arcs : a.target = o[i]}
  <2>1. \A a, b \in in : a = b
    BY <1>3
  <2>2. i = 1 => in = {}
    BY <1>1, <1>2
  <2>3. i # 1 => in # {}
    <3> SUFFICES ASSUME i # 1
                 PROVE  in # {}
      OBVIOUS
    <3>1. i - 1 \in 1..(n - 1) /\ (i - 1) + 1 = i
      BY <1>1
    <3> QED
      BY <1>1, <3>1
  <2>4. Incoming(arcs, o[i]) = Cardinality(in)
    BY DEF Incoming
  <2> HIDE DEF in
  <2> QED
    BY <2>1, <2>2, <2>3, <2>4, OneOrNone
<1>5. ASSUME NEW i \in 1..n
      PROVE  (i = n => Outgoing(arcs, o[i]) = 0) /\ (i # n => Outgoing(arcs, o[i]) = 1)
  <2> DEFINE out == {a \in arcs : a.source = o[i]}
  <2>1. \A a, b \in out : a = b
    BY <1>3
  <2>2. i = n => out = {}
    BY <1>1, <1>2
  <2>3. i # n => out # {}
    <3> SUFFICES ASSUME i # n
                 PROVE  out # {}
      OBVIOUS
    <3>1. i \in 1..(n - 1)
      BY <1>1
    <3> QED
      BY <1>1, <3>1
  <2>4. Outgoing(arcs, o[i]) = Cardinality(out)
    BY DEF Outgoing
  <2> HIDE DEF out
  <2> QED
    BY <2>1, <2>2, <2>3, <2>4, OneOrNone
<1> QED
  BY <1>4, <1>5

(* Arcs that are lined up have no direction issues. *)
LEMMA LinedUpInOneDirection ==
  ASSUME NEW arcs, IsFiniteSet(arcs), NEW o, NEW n, LinedUp(arcs, o, n),
         \A a, b \in arcs : a.source = b.source /\ a.target = b.target => a = b
  PROVE  DirectionIssues(arcs) = {}
<1> DEFINE nodes == ActiveNodes(arcs)
           sources == {x \in nodes : Outgoing(arcs, x) = 1 /\ Incoming(arcs, x) = 0}
           sinks == {x \in nodes : Incoming(arcs, x) = 1 /\ Outgoing(arcs, x) = 0}
<1>1. /\ n \in Nat /\ n >= 2 /\ o \in [1..n -> nodes]
      /\ \A x \in nodes : \E i \in 1..n : o[i] = x
  BY DEF LinedUp
<1>2. \A i \in 1..n : /\ i = 1 => Incoming(arcs, o[i]) = 0
                      /\ i # 1 => Incoming(arcs, o[i]) = 1
                      /\ i = n => Outgoing(arcs, o[i]) = 0
                      /\ i # n => Outgoing(arcs, o[i]) = 1
  BY LinedUpDegrees
<1>3. 1 \in 1..n /\ n \in 1..n /\ 1 # n
  BY <1>1
<1>4. ~ \E x \in nodes : Incoming(arcs, x) > 1 \/ Outgoing(arcs, x) > 1
  <2> SUFFICES ASSUME NEW i \in 1..n
               PROVE  ~(Incoming(arcs, o[i]) > 1 \/ Outgoing(arcs, o[i]) > 1)
    BY <1>1
  <2>1. Incoming(arcs, o[i]) \in {0, 1} /\ Outgoing(arcs, o[i]) \in {0, 1}
    BY <1>2
  <2> QED
    BY <2>1
<1>5. sources = {o[1]}
  <2>1. o[1] \in sources
    BY <1>1, <1>2, <1>3
  <2>2. \A x \in sources : x = o[1]
    <3> TAKE x \in sources
    <3>1. PICK i \in 1..n : o[i] = x
      BY <1>1
    <3>2. i = 1
      BY <1>2, <3>1
    <3> QED
      BY <3>1, <3>2
  <2> QED
    BY <2>1, <2>2
<1>6. sinks = {o[n]}
  <2>1. o[n] \in sinks
    BY <1>1, <1>2, <1>3
  <2>2. \A x \in sinks : x = o[n]
    <3> TAKE x \in sinks
    <3>1. PICK i \in 1..n : o[i] = x
      BY <1>1
    <3>2. i = n
      BY <1>2, <3>1
    <3> QED
      BY <3>1, <3>2
  <2> QED
    BY <2>1, <2>2
<1>7. Cardinality(sources) = 1 /\ Cardinality(sinks) = 1
  <2> HIDE DEF sources, sinks
  <2> QED
    BY <1>5, <1>6, FS_Singleton
<1> QED
  BY <1>4, <1>7 DEF DirectionIssues, Issue

(* Arcs that are lined up have no line issues. *)
LEMMA LinedUpInALine ==
  ASSUME NEW arcs, IsFiniteSet(arcs), NEW o, NEW n, LinedUp(arcs, o, n),
         n = Cardinality(ActiveNodes(arcs)),
         \A a, b \in arcs : a.source = b.source /\ a.target = b.target => a = b
  PROVE  LineIssues(arcs) = {}
<1> DEFINE nodes == ActiveNodes(arcs)
           edges == Joined(arcs)
<1>1. /\ n \in Nat /\ n >= 2 /\ o \in [1..n -> nodes]
      /\ \A i, j \in 1..n : o[i] = o[j] => i = j
      /\ \A x \in nodes : \E i \in 1..n : o[i] = x
      /\ \A a \in arcs : \E i \in 1..(n - 1) : a.source = o[i] /\ a.target = o[i + 1]
      /\ \A i \in 1..(n - 1) : \E a \in arcs : a.source = o[i] /\ a.target = o[i + 1]
  BY DEF LinedUp
<1>2. ~ \E x \in nodes : Incoming(arcs, x) + Outgoing(arcs, x) > 2
  <2> SUFFICES ASSUME NEW i \in 1..n
               PROVE  ~(Incoming(arcs, o[i]) + Outgoing(arcs, o[i]) > 2)
    BY <1>1
  <2>1. Incoming(arcs, o[i]) \in {0, 1} /\ Outgoing(arcs, o[i]) \in {0, 1}
    BY LinedUpDegrees
  <2> QED
    BY <2>1
<1>3. nodes = Reached(arcs)
  <2>1. \A i \in 1..(n - 1) : o[i + 1] \in Neighbours(arcs, o[i]) /\ o[i] \in Neighbours(arcs, o[i + 1])
    BY <1>1 DEF Neighbours
  <2> DEFINE start == CHOOSE x \in nodes : TRUE
  <2>2. start \in nodes
    <3>1. o[1] \in nodes
      BY <1>1
    <3> QED
      BY <3>1
  <2>3. Reached(arcs) \subseteq nodes
    <3>1. \A x \in nodes : Neighbours(arcs, x) \subseteq nodes
      BY NeighboursAreMutual
    <3> QED
      BY <1>1, <2>2, <3>1, ReachedInside
  <2> HIDE DEF start
  <2>4. PICK p \in 1..n : o[p] = start
    BY <1>1, <2>2
  <2>5. PICK f : /\ Reached(arcs) = f[n]
                 /\ f[0] = {start}
                 /\ \A k \in 1..n : f[k] = f[k - 1] \cup UNION {Neighbours(arcs, x) : x \in f[k - 1]}
    BY <1>1, ReachedInRounds DEF start
  <2>6. \A i \in 1..n : o[i] \in f[n]
    <3>1. o[p] \in f[0]
      BY <2>4, <2>5
    <3> QED
      BY <1>1, <2>1, <2>5, <3>1, RoundsSpread
  <2>7. nodes \subseteq f[n]
    BY <1>1, <2>6
  <2>8. Reached(arcs) = f[n]
    BY <2>5
  <2> HIDE DEF nodes
  <2> QED
    BY <2>3, <2>7, <2>8
<1>4. edges = Forth(o, n) \cup Back(o, n)
  <2>1. \A p \in edges : p \in Forth(o, n) \cup Back(o, n)
    <3> TAKE p \in edges
    <3>1. PICK x, y : p = <<x, y>> /\ y \in Neighbours(arcs, x)
      BY JoinedNeighbours
    <3>2. PICK a \in arcs : \/ a.source = x /\ a.target = y
                            \/ a.target = x /\ a.source = y
      BY <3>1 DEF Neighbours
    <3>3. PICK i \in 1..(n - 1) : a.source = o[i] /\ a.target = o[i + 1]
      BY <1>1
    <3>4. CASE a.source = x /\ a.target = y
      BY <3>1, <3>3, <3>4 DEF Forth
    <3>5. CASE a.target = x /\ a.source = y
      BY <3>1, <3>3, <3>5 DEF Back
    <3> QED
      BY <3>2, <3>4, <3>5
  <2>2. ASSUME NEW i \in 1..(n - 1)
        PROVE  <<o[i], o[i + 1]>> \in edges /\ <<o[i + 1], o[i]>> \in edges
    <3>1. o[i + 1] \in Neighbours(arcs, o[i]) /\ o[i] \in Neighbours(arcs, o[i + 1])
      BY <1>1 DEF Neighbours
    <3> QED
      BY <3>1, JoinedNeighbours
  <2>3. Forth(o, n) \subseteq edges
    BY <2>2 DEF Forth
  <2>4. Back(o, n) \subseteq edges
    BY <2>2 DEF Back
  <2> QED
    BY <2>1, <2>3, <2>4
<1>5. Cardinality(edges) = 2 * (n - 1)
  <2>1. o[1] \in nodes
    BY <1>1
  <2>2. \A i \in 1..(n - 1) : <<o[i], o[i + 1]>> \in edges
    BY <1>4 DEF Forth
  <2> HIDE DEF nodes, edges
  <2>3. Walks(nodes, edges, nodes, o, n)
    BY <1>1, <2>1, <2>2 DEF Walks
  <2> QED
    BY <1>4, <2>3, StepsBothWays
<1>6. Cardinality(edges) \div 2 = n - 1
  <2> HIDE DEF edges
  <2> QED
    BY <1>1, <1>5
<1>7. edges = UNION {{<<x, y>> : y \in Neighbours(arcs, x)} : x \in nodes}
  BY JoinedNeighbours
<1> HIDE DEF edges
<1>8. LineIssues(arcs) =
        Issue("assumptions.line-topology.branching",
              \E x \in nodes : Incoming(arcs, x) + Outgoing(arcs, x) > 2)
          \cup Issue("assumptions.line-topology.disconnected", nodes # Reached(arcs))
          \cup Issue("assumptions.line-topology.cardinality",
                     Cardinality(edges) \div 2 # 0 /\ Cardinality(edges) \div 2 # Cardinality(nodes) - 1)
  BY <1>7 DEF LineIssues
<1> QED
  BY <1>2, <1>3, <1>6, <1>8 DEF Issue

-----------------------------------------------------------------------------
(* The links that the routes of a case use                                 *)

(* The link that Arcs takes for an id. *)
LinkById(c, id) == LastWith(c.links, LAMBDA l : l.id = id)[1]

(* Where no two links share an id, the link of an id is the one that has   *)
(* it.                                                                     *)
LEMMA LinkHasItsId ==
  ASSUME NEW c, IsList(c.links), Distinct(c.links), NEW l \in ToSet(c.links)
  PROVE  LinkById(c, l.id) = l
<1> DEFINE rows == c.links
           T == {k \in 1..Len(rows) : rows[k].id = l.id}
           i == SelectLastInSeq(rows, LAMBDA x : x.id = l.id)
<1>1. Len(rows) \in Nat /\ DOMAIN rows = 1..Len(rows)
  BY DEF IsList
<1>2. PICK j \in 1..Len(rows) : rows[j] = l
  BY <1>1 DEF ToSet
<1>3. j \in T
  BY <1>2
<1>4. Max(T) \in T
  <2>1. T \subseteq 1..Len(rows) /\ T # {}
    BY <1>3
  <2> HIDE DEF T
  <2> QED
    BY <1>1, <2>1, GreatestIndex
<1>5. i = Max(T)
  BY <1>3 DEF SelectLastInSeq
<1>6. rows[i] = l /\ i # 0
  <2>1. i \in 1..Len(rows) /\ rows[i].id = rows[j].id
    <3> HIDE DEF i
    <3> QED
      BY <1>2, <1>4, <1>5
  <2> HIDE DEF i
  <2>2. i = j
    BY <1>1, <2>1 DEF Distinct, Map, IsInjective
  <2> QED
    BY <1>1, <1>2, <2>1, <2>2
<1>7. LinkById(c, l.id) = (IF i = 0 THEN <<>> ELSE <<rows[i]>>)[1]
  BY DEF LinkById, LastWith
<1> HIDE DEF i
<1> QED
  BY <1>6, <1>7

(* The link between two nodes is one of the links, from the one to the     *)
(* other.                                                                  *)
LEMMA LinkFound ==
  ASSUME NEW c, IsList(c.links), NEW x, NEW y, LinkBetween(c, x, y) # None
  PROVE  \E l \in ToSet(c.links) : l.id = LinkBetween(c, x, y) /\ l.source = x /\ l.target = y
<1> DEFINE rows == c.links
           T == {k \in 1..Len(rows) : rows[k].source = x /\ rows[k].target = y}
           i == SelectLastInSeq(rows, LAMBDA l : l.source = x /\ l.target = y)
           found == LastWith(rows, LAMBDA l : l.source = x /\ l.target = y)
<1>1. Len(rows) \in Nat /\ DOMAIN rows = 1..Len(rows)
  BY DEF IsList
<1>2. i = IF T # {} THEN Max(T) ELSE 0
  BY DEF SelectLastInSeq
<1>3. found = IF i = 0 THEN <<>> ELSE <<rows[i]>>
  BY DEF LastWith
<1>4. LinkBetween(c, x, y) = IF found = <<>> THEN None ELSE found[1].id
  BY DEF LinkBetween
<1>5. i # 0 /\ T # {}
  <2> HIDE DEF T, i, found
  <2> QED
    BY <1>2, <1>3, <1>4
<1>6. i \in T
  <2>1. T \subseteq 1..Len(rows)
    OBVIOUS
  <2> HIDE DEF T, i
  <2> QED
    BY <1>1, <1>2, <1>5, <2>1, GreatestIndex
<1>7. rows[i] \in ToSet(rows) /\ rows[i].source = x /\ rows[i].target = y
  <2> HIDE DEF i
  <2> QED
    BY <1>1, <1>6 DEF ToSet
<1>8. found # <<>> /\ found[1] = rows[i]
  <2> HIDE DEF found, i
  <2>1. found = <<rows[i]>>
    BY <1>3, <1>5
  <2> QED
    BY <2>1
<1> HIDE DEF i, found
<1> QED
  BY <1>4, <1>7, <1>8

(* In a case without topology and route issues every link that a route     *)
(* uses is the link between the nodes that it joins.                       *)
LEMMA UsedLinks ==
  ASSUME NEW c, IsList(c.links), \A q \in ToSet(c.routes) : IsList(q.hops),
         TopologyIssues(c) = {}, RouteIssues(c) = {}, NEW id \in ActiveLinks(c)
  PROVE  \E l \in ToSet(c.links) :
           /\ l.id = id /\ l.id = LinkBetween(c, l.source, l.target)
           /\ LinkById(c, id) = l /\ l.source # l.target
<1>1. Distinct(c.links) /\ \A l \in ToSet(c.links) : l.source # l.target
  BY DEF TopologyIssues, Issue
<1>2. PICK q \in ToSet(c.routes) : id \in ToSet(RouteLinks(q))
  BY DEF ActiveLinks
<1>3. \A i \in 1..(Len(q.hops) - 1) :
        q.hops[i].link \in {None, LinkBetween(c, q.hops[i].node, q.hops[i + 1].node)}
  BY DEF RouteIssues, Issue
<1>4. PICK i \in 1..(Len(q.hops) - 1) : id = q.hops[i].link /\ id # None
  BY <1>2, LinksOfItsHops
<1>5. id = LinkBetween(c, q.hops[i].node, q.hops[i + 1].node)
  BY <1>3, <1>4
<1>6. PICK l \in ToSet(c.links) : l.id = id /\ l.source = q.hops[i].node /\ l.target = q.hops[i + 1].node
  BY <1>4, <1>5, LinkFound
<1>7. LinkById(c, id) = l
  BY <1>1, <1>6, LinkHasItsId
<1> QED
  BY <1>1, <1>5, <1>6, <1>7

(* Hence the arcs are finitely many links, none a loop and no two between  *)
(* the same nodes, and there are some when a route uses a link.            *)
LEMMA ArcsOfTheCase ==
  ASSUME NEW c, IsList(c.links), \A q \in ToSet(c.routes) : IsList(q.hops),
         TopologyIssues(c) = {}, RouteIssues(c) = {}
  PROVE  /\ IsFiniteSet(Arcs(c))
         /\ \A a \in Arcs(c) : a.source # a.target
         /\ \A a, b \in Arcs(c) : a.source = b.source /\ a.target = b.target => a = b
         /\ ActiveLinks(c) \subseteq Ids(c.links)
         /\ Arcs(c) = {} <=> ActiveLinks(c) = {}
<1>1. Arcs(c) = {LinkById(c, id) : id \in ActiveLinks(c) \cap Ids(c.links)}
  BY DEF Arcs, LinkById
<1>2. ActiveLinks(c) \subseteq Ids(c.links)
  BY UsedLinks DEF Ids
<1>3. \A a \in Arcs(c) : /\ a \in ToSet(c.links) /\ a.source # a.target
                         /\ a = LinkById(c, LinkBetween(c, a.source, a.target))
  <2> TAKE a \in Arcs(c)
  <2>1. PICK id \in ActiveLinks(c) : a = LinkById(c, id)
    BY <1>1
  <2>2. PICK l \in ToSet(c.links) : /\ l.id = id /\ l.id = LinkBetween(c, l.source, l.target)
                                    /\ LinkById(c, id) = l /\ l.source # l.target
    BY UsedLinks
  <2> QED
    BY <2>1, <2>2
<1>4. IsFiniteSet(ToSet(c.links))
  <2> PICK n \in Nat : n = Len(c.links) /\ DOMAIN c.links = 1..n
    BY DEF IsList
  <2>1. c.links \in Surjection(1..n, ToSet(c.links))
    BY DEF Surjection, ToSet, IsList
  <2>2. IsFiniteSet(1..n)
    BY FS_Interval
  <2> QED
    BY <2>1, <2>2, FS_Surjection
<1>5. IsFiniteSet(Arcs(c))
  <2>1. Arcs(c) \in SUBSET ToSet(c.links)
    BY <1>3
  <2> QED
    BY <1>4, <2>1, FS_Subset
<1>6. \A a, b \in Arcs(c) : a.source = b.source /\ a.target = b.target => a = b
  BY <1>3
<1>7. Arcs(c) = {} <=> ActiveLinks(c) = {}
  BY <1>1, <1>2
<1> QED
  BY <1>2, <1>3, <1>5, <1>6, <1>7

(* The links of a prepared case are as many as the external case has. *)
LEMMA PreparedLinks ==
  ASSUME NEW r, IsList(r.links), NEW c, c = Normalized(Mapped(r))
  PROVE  IsList(c.links)
<1> DEFINE m == Mapped(r)
           p == CanonicalIds(m)
           a == LinkParameters(p)
           b == FrameParameters(a)
           d == PriorityClasses(b)
<1>1. /\ m.links = r.links
      /\ DOMAIN m = {"nodes", "links", "streams", "routes", "assumptions", "slopes", "speed", "queues"}
  BY DEF Mapped
<1>2. DOMAIN p = DOMAIN m /\ p.links = [i \in DOMAIN m.links |-> p.links[i]]
  <2> HIDE DEF m
  <2> QED
    BY <1>1 DEF CanonicalIds, Map
<1>3. DOMAIN a = DOMAIN p /\ a.links = [i \in DOMAIN p.links |-> a.links[i]]
  <2> HIDE DEF m, p
  <2> QED
    BY <1>1, <1>2 DEF LinkParameters, Map
<1>4. DOMAIN b = DOMAIN a /\ b.links = a.links
  <2> HIDE DEF m, p, a
  <2> QED
    BY <1>1, <1>2, <1>3 DEF FrameParameters
<1>5. DOMAIN d = DOMAIN b /\ d.links = b.links
  <2> HIDE DEF m, p, a, b
  <2> QED
    BY <1>1, <1>2, <1>3, <1>4 DEF PriorityClasses
<1>6. c = Paths(d)
  BY DEF Normalized
<1> HIDE DEF m, p, a, b, d
<1>7. c.links = d.links
  BY <1>1, <1>2, <1>3, <1>4, <1>5, <1>6 DEF Paths
<1>8. IsList(p.links)
  BY <1>1, <1>2, ListOfSameLength
<1>9. IsList(a.links)
  BY <1>3, <1>8, ListOfSameLength
<1> QED
  BY <1>4, <1>5, <1>7, <1>9

(* What the first two verdicts say of the issues. *)
LEMMA BaselineVerdict ==
  ASSUME NEW c
  PROVE  /\ Judged(c)["normalization"] => TopologyIssues(c) = {} /\ RouteIssues(c) = {}
         /\ Judged(c)["normalization"] => (Judged(c)["baseline"] <=> AssumptionIssues(c) = {})
<1> DEFINE normal == TopologyIssues(c) \cup RouteIssues(c) \cup StreamIssues(c) \cup CbsIssues(c)
           n == normal = {}
           b == n /\ AssumptionIssues(c) = {}
           s == b /\ SimulationIssues(c) = {}
           a == b /\ AnalysisIssues(c) = {}
<1>1. Judged(c) = [normalization |-> n, baseline |-> b, simulation |-> s, analysis |-> a]
  BY DEF Judged
<1>2. Judged(c)["normalization"] = n /\ Judged(c)["baseline"] = b
  <2> HIDE DEF n, b, s, a
  <2> QED
    BY <1>1
<1> QED
  BY <1>2

(* A case that declares the baseline assumptions is judged ready exactly   *)
(* when a route uses a link and the checks of the assumptions it declares  *)
(* find nothing.                                                           *)
LEMMA AssumptionVerdict ==
  ASSUME NEW c, ActiveLinks(c) \subseteq Ids(c.links), Arcs(c) = {} <=> ActiveLinks(c) = {},
         "line-topology" \in c.assumptions
  PROVE  AssumptionIssues(c) = {} <=>
           /\ Arcs(c) # {} /\ LineIssues(Arcs(c)) = {}
           /\ "single-direction" \in c.assumptions => DirectionIssues(Arcs(c)) = {}
<1> PICK arcs : arcs = Arcs(c)
  OBVIOUS
<1>1. c.assumptions # {}
  OBVIOUS
<1>2. AssumptionIssues(c) =
        Issue("assumptions.active-routes.empty", ActiveLinks(c) = {})
          \cup Issue("assumptions.active-routes.unknown-link", ~(ActiveLinks(c) \subseteq Ids(c.links)))
          \cup (IF "line-topology" \in c.assumptions /\ arcs # {} THEN LineIssues(arcs) ELSE {})
          \cup (IF "single-direction" \in c.assumptions /\ arcs # {} THEN DirectionIssues(arcs) ELSE {})
  BY <1>1 DEF AssumptionIssues
<1> QED
  BY <1>2 DEF Issue

-----------------------------------------------------------------------------
(* What the stages promise                                                 *)

(* An analysis that was declared ready does not raise, nor does it come    *)
(* back empty, whatever the case.                                          *)
THEOREM ReadyAnalysesAnswer == Spec => []AnalysisReadyNeverRaises
<1>1. ReadyInv => AnalysisReadyNeverRaises
  <2> SUFFICES ASSUME ReadyInv, stage = "judged", UniqueStreams, ready["analysis"]
               PROVE  analysis \notin {"raised", "empty"}
    BY DEF AnalysisReadyNeverRaises
  <2>1. /\ raw \in RawCases /\ case = Normalized(Mapped(raw)) /\ ready = Judged(case)
        /\ analysis = "raised" => AnalysisRaises(case)
        /\ analysis = "empty" => AnalysisIssues(case) # {}
    BY DEF ReadyInv, CaseInv, AnswerInv
  <2>2. AnalysisIssues(case) = {}
    BY <2>1, Verdicts
  <2>3. IsList(case.streams)
    BY <2>1, RawCasesAssumption, PreparedCase
  <2>4. ~AnalysisRaises(case)
    BY <2>2, <2>3, AnalysisIssuesCoverTheAnalysis DEF UniqueStreams
  <2> QED
    BY <2>1, <2>2, <2>4
<1> QED
  BY <1>1, ReadyInvAlways, PTL

(* Where the parsers made the route ids, the validators, the simulator and *)
(* the analysis find the same links for every stream of a case that is     *)
(* ready for simulation, and the simulation does not raise.                *)
THEOREM ParsersRoutesAgree == Spec => []DefaultRoutesAgree
<1>1. ReadyInv => DefaultRoutesAgree
  <2> SUFFICES ASSUME ReadyInv, stage = "judged", UniqueStreams, NamesNoRoute, ready["simulation"]
               PROVE  /\ simulation # "raised"
                      /\ \A s \in ToSet(case.streams) :
                           /\ SimulatedPath(case, s.id) = LinksByRouteId(case, s)
                           /\ AnalysedPath(case, s.id) = LinksByRouteId(case, s)
    BY DEF DefaultRoutesAgree
  <2>1. /\ raw \in RawCases /\ case = Normalized(Mapped(raw)) /\ ready = Judged(case)
        /\ simulation = "raised" => SimulationRaises(case)
    BY DEF ReadyInv, CaseInv, AnswerInv
  <2>2. RouteIssues(case) = {} /\ SimulationIssues(case) = {}
    BY <2>1, Verdicts
  <2>3. /\ IsList(case.streams) /\ IsList(case.routes)
        /\ \A q \in ToSet(case.routes) : IsList(q.hops)
        /\ Paired(case)
    BY <2>1, DefaultRoutesArePaired DEF NamesNoRoute
  <2>4. /\ \A s \in ToSet(case.streams) : RouteById(case, s.route) # <<>>
        /\ ~SimulationRaises(case)
    BY <2>2, <2>3, SimulationIssuesCoverTheSimulation
  <2> QED
    BY <2>1, <2>3, <2>4, SimulatedAlongItsRoute, AnalysedAlongItsRoute DEF UniqueStreams
<1> QED
  BY <1>1, ReadyInvAlways, PTL

(* A case that declares the baseline assumptions is runnable exactly when  *)
(* the links its routes use are one simple line, walked one way where both *)
(* assumptions are declared: the degree, connectivity, cardinality and     *)
(* endpoint counts stand for the shape, whatever the case.                 *)
THEOREM AssumptionsMeanALine == Spec => []LineMeansLine
<1>1. ReadyInv => LineMeansLine
  <2> SUFFICES ASSUME ReadyInv, stage = "judged", ready["normalization"]
               PROVE  LET arcs  == Arcs(case)
                          nodes == ActiveNodes(arcs)
                          pairs == Pairs(arcs)
                      IN /\ {"line-topology", "single-direction"} \subseteq case.assumptions =>
                              (ready["baseline"] <=> arcs # {} /\ IsDirectedLine(pairs, nodes))
                         /\ case.assumptions = {"line-topology"} =>
                              /\ ready["baseline"] => arcs # {} /\ IsLine(pairs, nodes)
                              /\ arcs # {} /\ IsDirectedLine(pairs, nodes) => ready["baseline"]
    BY DEF LineMeansLine
  <2> DEFINE arcs == Arcs(case)
             directed == IsDirectedLine(Pairs(arcs), ActiveNodes(arcs))
  <2>1. raw \in RawCases /\ case = Normalized(Mapped(raw)) /\ ready = Judged(case)
    BY DEF ReadyInv, CaseInv, AnswerInv
  <2>2. /\ TopologyIssues(case) = {} /\ RouteIssues(case) = {}
        /\ ready["baseline"] <=> AssumptionIssues(case) = {}
    BY <2>1, BaselineVerdict
  <2>3. IsList(case.links)
    BY <2>1, RawCasesAssumption, PreparedLinks
  <2>4. \A q \in ToSet(case.routes) : IsList(q.hops)
    <3>1. /\ IsList(case.routes) /\ DOMAIN case.routes = DOMAIN raw.routes
          /\ \A i \in DOMAIN raw.routes : IsList(case.routes[i].hops)
      BY <2>1, RawCasesAssumption, PreparedCase
    <3> QED
      BY <3>1 DEF ToSet
  <2>5. /\ IsFiniteSet(arcs) /\ \A a \in arcs : a.source # a.target
        /\ \A a, b \in arcs : a.source = b.source /\ a.target = b.target => a = b
        /\ ActiveLinks(case) \subseteq Ids(case.links)
        /\ arcs = {} <=> ActiveLinks(case) = {}
    BY <2>2, <2>3, <2>4, ArcsOfTheCase
  <2>6. "line-topology" \in case.assumptions =>
          (ready["baseline"] <=>
             /\ arcs # {} /\ LineIssues(arcs) = {}
             /\ "single-direction" \in case.assumptions => DirectionIssues(arcs) = {})
    BY <2>2, <2>5, AssumptionVerdict
  <2> HIDE DEF arcs
  <2>7. LineIssues(arcs) = {} /\ DirectionIssues(arcs) = {} => directed
    BY <2>5, AcceptedMeansDirectedLine
  <2>8. arcs # {} /\ LineIssues(arcs) = {} => IsLine(Pairs(arcs), ActiveNodes(arcs))
    BY <2>5, AcceptedMeansLine
  <2>9. ASSUME arcs # {}, directed
        PROVE  LineIssues(arcs) = {} /\ DirectionIssues(arcs) = {}
    <3>1. PICK o : LinedUp(arcs, o, Cardinality(ActiveNodes(arcs)))
      BY <2>5, <2>9, DirectedLinesAreLinedUp
    <3> QED
      BY <2>5, <3>1, LinedUpInOneDirection, LinedUpInALine
  <2> HIDE DEF directed
  <2>10. {"line-topology", "single-direction"} \subseteq case.assumptions =>
           (ready["baseline"] <=> arcs # {} /\ directed)
    BY <2>6, <2>7, <2>9
  <2>11. case.assumptions = {"line-topology"} =>
           /\ ready["baseline"] => arcs # {} /\ IsLine(Pairs(arcs), ActiveNodes(arcs))
           /\ arcs # {} /\ directed => ready["baseline"]
    BY <2>6, <2>8, <2>9
  <2> QED
    BY <2>10, <2>11 DEF arcs, directed
<1> QED
  BY <1>1, ReadyInvAlways, PTL
=============================================================================
