------------------------------- MODULE Readiness -------------------------------
(***************************************************************************)
(* The front of every command: an external case is loaded and mapped       *)
(* (adapters/external_cases), normalised in five passes (normalization/),  *)
(* judged for the readiness stages (validation/), and handed to the two    *)
(* engines, which index its routes in two different ways: the validators   *)
(* and the analysis by the route id a stream names, the simulator by the   *)
(* stream a route names.  Slopes and shares are in hundredths.             *)
(***************************************************************************)
EXTENDS Integers, Sequences, FiniteSets, SequencesExt

CONSTANTS
    RawCases,    \* the external cases that may be given
    Slug,        \* name -> its lowercase slug
    StreamName,  \* stream id as written -> id ("7" becomes "stream-7")
    RouteName,   \* stream id -> the route id made from it ("route-<id>")
    None

IsList(rows) == rows \in Seq(ToSet(rows))

(* The stream a route row names; only a "flow" is read as a stream id.     *)
StreamOf(row) == IF row.flow THEN StreamName[row.stream] ELSE row.stream

(* slugify_identifier leaves a slug as it is.                              *)
ASSUME SlugAssumption ==
    \A n \in DOMAIN Slug : Slug[n] \in DOMAIN Slug /\ Slug[Slug[n]] = Slug[n]

(* A stream id has a letter or a digit: without any, its slug would be     *)
(* "unnamed" and that of "route-<id>" just "route".                        *)
ASSUME RouteNameAssumption ==
    \A a, b \in DOMAIN RouteName : Slug[RouteName[a]] = Slug[RouteName[b]] <=> Slug[a] = Slug[b]

(* The payloads hold lists, and every stream they name has an id.          *)
ASSUME RawCasesAssumption ==
    \A r \in RawCases :
      /\ IsList(r.links) /\ IsList(r.streams) /\ IsList(r.routes)
      /\ \A row \in ToSet(r.streams) : StreamName[row.id] \in DOMAIN RouteName
      /\ \A row \in ToSet(r.routes)  : StreamOf(row) \in DOMAIN RouteName /\ IsList(row.hops)

VARIABLES raw, case, stage, ready, simulation, analysis
vars == <<raw, case, stage, ready, simulation, analysis>>

Shaped  == {"class_a", "class_b"}
Classes == Shaped \cup {"best_effort"}
Labels  == {"normalization", "baseline", "simulation", "analysis"}
DefaultSpeed == 100
DefaultSlope == 50

Map(Op(_), rows) == [i \in DOMAIN rows |-> Op(rows[i])]
Or(value, default) == IF value = None THEN default ELSE value
Distinct(rows) == IsInjective(Map(LAMBDA r : r.id, rows))
Ids(rows) == {r.id : r \in ToSet(rows)}

(* A dict built from rows keeps the last row of a key: <<row>>, or <<>>.   *)
LastWith(rows, Test(_)) ==
    LET i == SelectLastInSeq(rows, Test) IN IF i = 0 THEN <<>> ELSE <<rows[i]>>

-----------------------------------------------------------------------------
(* Loading and mapping.                                                    *)

ClassOfPcp(pcp) == IF pcp >= 2 THEN "class_a" ELSE IF pcp = 1 THEN "class_b" ELSE "best_effort"

Stream(row) ==
    LET id == StreamName[row.id]
    IN [id |-> id, source |-> row.source, destination |-> row.destination,
        class |-> IF row.class = None THEN ClassOfPcp(row.pcp) ELSE row.class,
        period |-> row.period, deadline |-> Or(row.deadline, row.period),
        size |-> row.size, route |-> Or(row.route, RouteName[id])]

Route(row) ==
    [id |-> Or(row.id, RouteName[StreamOf(row)]), stream |-> StreamOf(row),
     hops |-> Map(LAMBDA n : [node |-> n, link |-> None], row.hops)]

Unreadable(r) ==
    \/ \E row \in ToSet(r.routes)  : row.hops = <<>>
    \/ \E row \in ToSet(r.streams) : row.class = None /\ row.pcp = None

Mapped(r) ==
    [nodes |-> r.nodes, links |-> r.links, streams |-> Map(Stream, r.streams),
     routes |-> Map(Route, r.routes), assumptions |-> r.assumptions,
     slopes |-> r.slopes, speed |-> Or(r.speed, DefaultSpeed), queues |-> <<>>]

-----------------------------------------------------------------------------
(* The five passes of normalize_case.                                      *)

CanonicalStream(s) ==
    [s EXCEPT !.id = Slug[@], !.source = Slug[@], !.destination = Slug[@], !.route = Slug[@]]

CanonicalRoute(r) ==
    [r EXCEPT !.id = Slug[@], !.stream = Slug[@],
              !.hops = Map(LAMBDA h : [h EXCEPT !.node = Slug[@]], @)]

CanonicalIds(c) ==
    [c EXCEPT
       !.nodes = Map(LAMBDA n : [n EXCEPT !.id = Slug[@]], @),
       !.links = Map(LAMBDA l : [l EXCEPT !.id = Slug[@], !.source = Slug[@], !.target = Slug[@]], @),
       !.streams = Map(CanonicalStream, @), !.routes = Map(CanonicalRoute, @)]

LinkParameters(c) ==
    [c EXCEPT !.links = Map(LAMBDA l : [l EXCEPT !.speed = IF @ \in {None, 0} THEN c.speed ELSE @], @)]

WithDeadline(s) == [s EXCEPT !.deadline = IF @ > 0 THEN @ ELSE s.period]
FrameParameters(c) == [c EXCEPT !.streams = Map(WithDeadline, @)]

(* A slope up to 1 is a share of the reference speed, a larger one is a    *)
(* rate in Mb/s; both readings are kept.                                   *)
SlopeOf(value, speed) ==
    IF value <= 100 THEN [share |-> value, rate |-> value * speed]
                    ELSE [share |-> value \div speed, rate |-> value]

BadSlopes(c) == \E k \in Shaped : c.slopes[k].idle <= 0 \/ c.slopes[k].send <= 0

PriorityClasses(c) ==
    [c EXCEPT !.queues =
       [k \in Classes |->
          IF k \in Shaped
          THEN [cbs |-> TRUE, idle |-> SlopeOf(c.slopes[k].idle, c.speed),
                              send |-> SlopeOf(c.slopes[k].send, c.speed)]
          ELSE [cbs |-> FALSE]]]

LinkBetween(c, from, to) ==
    LET found == LastWith(c.links, LAMBDA l : l.source = from /\ l.target = to)
    IN IF found = <<>> THEN None ELSE found[1].id

Resolved(c, r) ==
    IF r.stream \notin Ids(c.streams) THEN r
    ELSE [r EXCEPT !.hops =
            [i \in DOMAIN r.hops |->
               IF i = Len(r.hops) THEN r.hops[i]
               ELSE [r.hops[i] EXCEPT !.link = LinkBetween(c, r.hops[i].node, r.hops[i + 1].node)]]]

Paths(c) == [c EXCEPT !.routes = Map(LAMBDA r : Resolved(c, r), @)]

Normalized(c) ==
    Paths(PriorityClasses(FrameParameters(LinkParameters(CanonicalIds(c)))))

(* None is no case.                                                        *)
ASSUME NoneAssumption ==
    \A r \in RawCases : ~Unreadable(r) => None \notin {Mapped(r), Normalized(Mapped(r))}

-----------------------------------------------------------------------------
(* What the validators and the engines look up.                            *)

(* The resolved links of the hops before the last, in their order.         *)
RouteLinks(r) ==
    LET hops == Front(r.hops)
        kept[i \in 0 .. Len(hops)] ==
          IF i = 0 THEN <<>>
          ELSE IF hops[i].link = None THEN kept[i - 1] ELSE Append(kept[i - 1], hops[i].link)
    IN kept[Len(hops)]

RouteById(c, id) == LastWith(c.routes, LAMBDA r : r.id = id)

LinksByRouteId(c, s) ==
    LET found == RouteById(c, s.route) IN IF found = <<>> THEN <<>> ELSE RouteLinks(found[1])

(* route_link_ids_by_stream: the path the simulator gives a stream.        *)
SimulatedPath(c, id) ==
    LET found == LastWith(c.routes, LAMBDA r : r.stream = id)
    IN IF found = <<>> THEN <<>> ELSE RouteLinks(found[1])

(* The path of a stream in the link contexts of the analysis.              *)
AnalysedPath(c, id) ==
    LET found == LastWith(c.streams, LAMBDA s : s.id = id /\ RouteById(c, s.route) # <<>>)
    IN IF found = <<>> THEN <<>> ELSE LinksByRouteId(c, found[1])

ActiveLinks(c) == UNION {ToSet(RouteLinks(r)) : r \in ToSet(c.routes)}

(* Idle shares of the class and of the shaped classes above it.            *)
ReservedUpTo(c, class) ==
    c.queues["class_a"].idle.share
      + (IF class = "class_b" THEN c.queues["class_b"].idle.share ELSE 0)

-----------------------------------------------------------------------------
(* Issues, as sets of codes: every issue has severity "error".             *)

Issue(code, holds) == IF holds THEN {code} ELSE {}

TopologyIssues(c) ==
    LET nodes == Ids(c.nodes)
        links == ToSet(c.links)
    IN Issue("topology.nodes.empty", c.nodes = <<>>)
         \cup Issue("topology.links.empty", c.links = <<>>)
         \cup Issue("topology.nodes.duplicate-id", ~Distinct(c.nodes))
         \cup Issue("topology.links.duplicate-id", ~Distinct(c.links))
         \cup Issue("topology.link.unknown-node", \E l \in links : ~({l.source, l.target} \subseteq nodes))
         \cup Issue("topology.link.self-loop", \E l \in links : l.source = l.target)

RouteIssues(c) ==
    LET routes == ToSet(c.routes)
        Hop(r, i) == LinkBetween(c, r.hops[i].node, r.hops[i + 1].node)
    IN Issue("routes.id.duplicate", ~Distinct(c.routes))
         \cup Issue("routes.stream.missing", \E r \in routes : r.stream \notin Ids(c.streams))
         \cup Issue("routes.hop.unknown-node",
                    \E r \in routes : \E h \in ToSet(r.hops) : h.node \notin Ids(c.nodes))
         \cup Issue("routes.link.missing",
                    \E r \in routes : \E i \in 1 .. Len(r.hops) - 1 : Hop(r, i) = None)
         \cup Issue("routes.link.mismatch",
                    \E r \in routes : \E i \in 1 .. Len(r.hops) - 1 : r.hops[i].link \notin {None, Hop(r, i)})
         \cup Issue("routes.cycle.unsupported",
                    \E r \in routes : ~IsInjective(Map(LAMBDA h : h.node, r.hops)))

StreamIssues(c) ==
    LET streams == ToSet(c.streams)
        Unrouted(s) == RouteById(c, s.route) = <<>>
        Hops(s) == RouteById(c, s.route)[1].hops
    IN Issue("streams.source.unknown-node", \E s \in streams : s.source \notin Ids(c.nodes))
         \cup Issue("streams.destination.unknown-node", \E s \in streams : s.destination \notin Ids(c.nodes))
         \cup Issue("streams.period.invalid", \E s \in streams : s.period <= 0)
         \cup Issue("streams.deadline.invalid", \E s \in streams : s.deadline <= 0)
         \cup Issue("streams.frame.invalid", \E s \in streams : s.size <= 0)
         \cup Issue("streams.route.missing", \E s \in streams : Unrouted(s))
         \cup Issue("streams.route.source-mismatch",
                    \E s \in streams : ~Unrouted(s) /\ Head(Hops(s)).node # s.source)
         \cup Issue("streams.route.destination-mismatch",
                    \E s \in streams : ~Unrouted(s) /\ Last(Hops(s)).node # s.destination)

CbsIssues(c) ==
    Issue("queues.class.missing", Classes # DOMAIN c.queues)
      \cup Issue("queues.cbs.required", \E k \in Shaped : ~c.queues[k].cbs)
      \cup Issue("queues.cbs.idle.invalid", \E k \in Shaped : c.queues[k].idle.rate <= 0)
      \cup Issue("queues.cbs.send.invalid", \E k \in Shaped : c.queues[k].send.rate <= 0)
      \cup Issue("queues.cbs.slope.inconsistent", \E k \in Shaped :
                   c.queues[k].idle.share <= 0 \/ c.queues[k].send.share <= 0)
      \cup Issue("queues.be.cbs.unsupported", c.queues["best_effort"].cbs)

(* The graph of the links that routes use; a shared id names the last link.*)
Arcs(c) ==
    {LastWith(c.links, LAMBDA l : l.id = id)[1] : id \in ActiveLinks(c) \cap Ids(c.links)}
ActiveNodes(arcs)     == {a.source : a \in arcs} \cup {a.target : a \in arcs}
Incoming(arcs, n)     == Cardinality({a \in arcs : a.target = n})
Outgoing(arcs, n)     == Cardinality({a \in arcs : a.source = n})
Neighbours(arcs, n)   == {a.target : a \in {b \in arcs : b.source = n}}
                           \cup {a.source : a \in {b \in arcs : b.target = n}}

(* A walk of the undirected view from one active node.                     *)
Reached(arcs) ==
    LET nodes == ActiveNodes(arcs)
        within[k \in 0 .. Cardinality(nodes)] ==
          IF k = 0 THEN {CHOOSE n \in nodes : TRUE}
          ELSE within[k - 1] \cup UNION {Neighbours(arcs, n) : n \in within[k - 1]}
    IN within[Cardinality(nodes)]

(* Mutant: a node may have any number of active links.                     *)
LineIssuesUnbranched(arcs) ==
    LET nodes == ActiveNodes(arcs)
    IN Issue("assumptions.line-topology.disconnected", nodes # Reached(arcs))

LineIssues(arcs) ==
    LET nodes == ActiveNodes(arcs)
        pairs == Cardinality(UNION {{<<n, m>> : m \in Neighbours(arcs, n)} : n \in nodes}) \div 2
    IN Issue("assumptions.line-topology.branching",
             \E n \in nodes : Incoming(arcs, n) + Outgoing(arcs, n) > 2)
         \cup Issue("assumptions.line-topology.disconnected", nodes # Reached(arcs))
         \cup Issue("assumptions.line-topology.cardinality", pairs # 0 /\ pairs # Cardinality(nodes) - 1)

DirectionIssues(arcs) ==
    LET nodes   == ActiveNodes(arcs)
        sources == {n \in nodes : Outgoing(arcs, n) = 1 /\ Incoming(arcs, n) = 0}
        sinks   == {n \in nodes : Incoming(arcs, n) = 1 /\ Outgoing(arcs, n) = 0}
    IN Issue("assumptions.single-direction.directionality",
             \E n \in nodes : Incoming(arcs, n) > 1 \/ Outgoing(arcs, n) > 1)
         \cup Issue("assumptions.single-direction.endpoints",
                    Cardinality(sources) # 1 \/ Cardinality(sinks) # 1)

AssumptionIssues(c) ==
    LET arcs == Arcs(c)
    IN IF c.assumptions = {} THEN {}
       ELSE Issue("assumptions.active-routes.empty", ActiveLinks(c) = {})
              \cup Issue("assumptions.active-routes.unknown-link", ~(ActiveLinks(c) \subseteq Ids(c.links)))
              \cup (IF "line-topology" \in c.assumptions /\ arcs # {} THEN LineIssues(arcs) ELSE {})
              \cup (IF "single-direction" \in c.assumptions /\ arcs # {} THEN DirectionIssues(arcs) ELSE {})

(* Mutant: a route that resolves to no link is accepted.                   *)
SimulationIssuesOfRoutes(c) ==
    Issue("simulation.streams.required", c.streams = <<>>)
      \cup Issue("simulation.route.required", \E s \in ToSet(c.streams) : RouteById(c, s.route) = <<>>)

SimulationIssues(c) ==
    LET routed == {s \in ToSet(c.streams) : RouteById(c, s.route) # <<>>}
    IN Issue("simulation.streams.required", c.streams = <<>>)
         \cup Issue("simulation.route.required", routed # ToSet(c.streams))
         \cup Issue("simulation.route.links.required", \E s \in routed : LinksByRouteId(c, s) = <<>>)
         \cup Issue("simulation.route.link.unknown",
                    \E s \in routed : ~(ToSet(LinksByRouteId(c, s)) \subseteq Ids(c.links)))

(* Mutant: the share of the class above is forgotten.                      *)
AnalysisIssuesOwnShare(c) ==
    LET avb == {s \in ToSet(c.streams) : s.class \in Shaped}
    IN Issue("analysis.avb.required", avb = {})
         \cup Issue("analysis.route.links.required", \E s \in avb : LinksByRouteId(c, s) = <<>>)
         \cup Issue("analysis.reserved-bandwidth.exceeded",
                    \E s \in avb : c.queues[s.class].idle.share > 100)

AnalysisIssues(c) ==
    LET avb      == {s \in ToSet(c.streams) : s.class \in Shaped}
        routed   == {s \in avb : RouteById(c, s.route) # <<>>}
        linked   == {s \in routed : LinksByRouteId(c, s) # <<>>}
        required == Issue("analysis.routes.required", c.routes = <<>>)
                      \cup Issue("analysis.avb.required", avb = {})
    IN IF required # {} THEN required
       ELSE Issue("analysis.route.required", routed # avb)
              \cup Issue("analysis.route.links.required", linked # routed)
              \cup Issue("analysis.reserved-bandwidth.exceeded",
                         \E s \in linked : ReservedUpTo(c, s.class) > 100)

Judged(c) ==
    LET normal   == TopologyIssues(c) \cup RouteIssues(c) \cup StreamIssues(c) \cup CbsIssues(c)
        baseline == normal = {} /\ AssumptionIssues(c) = {}
    IN [normalization |-> normal = {}, baseline |-> baseline,
        simulation |-> baseline /\ SimulationIssues(c) = {},
        analysis |-> baseline /\ AnalysisIssues(c) = {}]

-----------------------------------------------------------------------------
(* build_simulation_context refuses a route without links, release_frame a *)
(* stream without a path.                                                  *)
SimulationRaises(c) ==
    \/ ActiveLinks(c) = {}
    \/ ~(ActiveLinks(c) \subseteq Ids(c.links))
    \/ \E id \in {r.stream : r \in ToSet(c.routes)} \cup Ids(c.streams) : SimulatedPath(c, id) = <<>>

(* An AVB stream without link contexts, or beyond the reservable share.    *)
AnalysisRaises(c) ==
    \E s \in ToSet(c.streams) :
      s.class \in Shaped /\ (AnalysedPath(c, s.id) = <<>> \/ ReservedUpTo(c, s.class) > 100)

-----------------------------------------------------------------------------
Init ==
    /\ raw \in RawCases
    /\ case = None
    /\ stage = "external"
    /\ ready = [label \in Labels |-> FALSE]
    /\ simulation = "none" /\ analysis = "none"

(* load_external_case and map_external_case, ended by a ValueError.        *)
Refuse ==
    /\ \/ stage = "external" /\ Unreadable(raw)
       \/ stage = "mapped" /\ BadSlopes(case)
    /\ stage' = "refused"
    /\ UNCHANGED <<raw, case, ready, simulation, analysis>>

Load ==
    /\ stage = "external" /\ ~Unreadable(raw)
    /\ case' = Mapped(raw)
    /\ stage' = "mapped"
    /\ UNCHANGED <<raw, ready, simulation, analysis>>

Normalize ==
    /\ stage = "mapped" /\ ~BadSlopes(case)
    /\ case' = Normalized(case)
    /\ stage' = "normalized"
    /\ UNCHANGED <<raw, ready, simulation, analysis>>

Validate ==
    /\ stage = "normalized"
    /\ ready' = Judged(case)
    /\ stage' = "judged"
    /\ UNCHANGED <<raw, case, simulation, analysis>>

(* Mutant: the engine is asked before the case was judged.                 *)
SimulateUnjudged ==
    /\ simulation = "none"
    /\ simulation' = IF ~ready["simulation"] THEN "refused" ELSE "ran"
    /\ UNCHANGED <<raw, case, stage, ready, analysis>>

(* drts-tsn simulate: the readiness gate, then the engine.                 *)
Simulate ==
    /\ stage = "judged" /\ simulation = "none"
    /\ simulation' = IF ~ready["simulation"] THEN "refused"
                     ELSE IF SimulationRaises(case) THEN "raised" ELSE "ran"
    /\ UNCHANGED <<raw, case, stage, ready, analysis>>

(* drts-tsn analyze: a lenient run needs the baseline only, and answers    *)
(* failed preconditions with an empty result.                              *)
Analyze(strict) ==
    /\ stage = "judged" /\ analysis = "none"
    /\ analysis' = IF ~ready[IF strict THEN "analysis" ELSE "baseline"] THEN "refused"
                   ELSE IF AnalysisIssues(case) # {} THEN "empty"
                   ELSE IF AnalysisRaises(case) THEN "raised" ELSE "ran"
    /\ UNCHANGED <<raw, case, stage, ready, simulation>>

Next == Refuse \/ Load \/ Normalize \/ Validate \/ Simulate \/ \E strict \in BOOLEAN : Analyze(strict)

Spec == Init /\ [][Next]_vars
=============================================================================
