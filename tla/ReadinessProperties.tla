-------------------------- MODULE ReadinessProperties --------------------------
(***************************************************************************)
(* What the readiness stages promise to the engines behind them.           *)
(***************************************************************************)
EXTENDS Readiness

Outcomes == {"none", "refused", "raised", "ran"}

(* The stage follows the preparation, and an engine has been asked only    *)
(* about a case that was judged (run_manager.py, cli/commands).            *)
TypeOK ==
    /\ stage \in {"external", "mapped", "normalized", "judged", "refused"}
    /\ case = None <=> stage = "external" \/ (stage = "refused" /\ Unreadable(raw))
    /\ ready \in [Labels -> BOOLEAN]
    /\ simulation \in Outcomes /\ analysis \in Outcomes \cup {"empty"}
    /\ simulation # "none" \/ analysis # "none" => stage = "judged"

Orders(nodes) == {o \in [1 .. Cardinality(nodes) -> nodes] : IsInjective(o)}
Steps(o) == {<<o[i], o[i + 1]>> : i \in 1 .. Len(o) - 1}
Pairs(arcs) == {<<a.source, a.target>> : a \in arcs}
Reversed(pairs) == {<<p[2], p[1]>> : p \in pairs}

(* Some order of the active nodes is walked by exactly the active links.   *)
IsLine(pairs, nodes) ==
    \E o \in Orders(nodes) : pairs \cup Reversed(pairs) = Steps(o) \cup Reversed(Steps(o))
IsDirectedLine(pairs, nodes) == \E o \in Orders(nodes) : pairs = Steps(o)

(* A case that declares the baseline assumptions is runnable only when the *)
(* links its routes use are one simple line, walked one way when both      *)
(* assumptions are declared, and no such line is turned away: the degree,  *)
(* connectivity, cardinality and endpoint counts of assumptions_validator  *)
(* stand for the shape itself.                                             *)
LineMeansLine ==
    stage = "judged" /\ ready["normalization"] =>
      LET arcs  == Arcs(case)
          nodes == ActiveNodes(arcs)
          pairs == Pairs(arcs)
      IN /\ {"line-topology", "single-direction"} \subseteq case.assumptions =>
              (ready["baseline"] <=> arcs # {} /\ IsDirectedLine(pairs, nodes))
         /\ case.assumptions = {"line-topology"} =>
              /\ ready["baseline"] => arcs # {} /\ IsLine(pairs, nodes)
              /\ arcs # {} /\ IsDirectedLine(pairs, nodes) => ready["baseline"]

UniqueStreams == Distinct(case.streams)

(* The analysis never raises on a case it was declared ready for: every    *)
(* AVB stream has link contexts and a share that fits, although the checks *)
(* look a stream up by its route id and the link model by its own id.      *)
AnalysisReadyNeverRaises ==
    stage = "judged" /\ UniqueStreams /\ ready["analysis"] => analysis \notin {"raised", "empty"}

NamesNoRoute == /\ \A row \in ToSet(raw.streams) : row.route = None
                /\ \A row \in ToSet(raw.routes) : row.id = None

(* When a case leaves the route ids to the parsers, the three ways a route *)
(* is looked up agree: a stream that is ready is simulated and analysed on *)
(* the links its route was checked for, and the simulation does not raise. *)
DefaultRoutesAgree ==
    stage = "judged" /\ UniqueStreams /\ NamesNoRoute /\ ready["simulation"] =>
      /\ simulation # "raised"
      /\ \A s \in ToSet(case.streams) :
           /\ SimulatedPath(case, s.id) = LinksByRouteId(case, s)
           /\ AnalysedPath(case, s.id) = LinksByRouteId(case, s)

(* A case declared ready for simulation is simulated: "Validate conditions *)
(* specifically required by the simulation engine"                         *)
(* (validation/simulation_preconditions.py).                               *)
SimulationReadyNeverRaises ==
    stage = "judged" /\ UniqueStreams /\ ready["simulation"] => simulation # "raised"
=============================================================================
