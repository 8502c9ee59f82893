------------------------------ MODULE MCReadiness ------------------------------
EXTENDS ReadinessProperties, TLC

(* Names: nodes, links, stream ids and route ids, as written and as slugs. *)
Written == {"n1", "n2", "n3", "n4", "N1", "l1", "l2", "l3", "L1",
            "s1", "S1", "stream-7", "route-s1", "route-S1", "route-stream-7", "shared", "7", "route-7"}
Lower == ("N1" :> "n1") @@ ("L1" :> "l1") @@ ("S1" :> "s1") @@ ("route-S1" :> "route-s1")
MCSlug == [n \in Written |-> IF n \in DOMAIN Lower THEN Lower[n] ELSE n]
MCStreamName == [n \in Written |-> IF n = "7" THEN "stream-7" ELSE n]
MCRouteName == ("s1" :> "route-s1") @@ ("S1" :> "route-S1") @@ ("7" :> "route-7")
                 @@ ("stream-7" :> "route-stream-7")

Nodes(ids) == [i \in DOMAIN ids |-> [id |-> ids[i]]]
Link(id, from, to) == [id |-> id, source |-> from, target |-> to, speed |-> None]

Four == Nodes(<<"n1", "n2", "n3", "n4">>)
(* A line, a line walked from its middle, both ways, a fork, a confluence, *)
(* two lines, a triangle, ids that are or become equal, a self-loop, a     *)
(* node that is not there, and nothing.                                    *)
Topologies ==
    {[nodes |-> Four, links |-> l] : l \in
       {<<Link("l1", "n1", "n2"), Link("l2", "n2", "n3")>>,
        <<Link("l1", "n1", "n2"), Link("l2", "n2", "n3"), Link("l3", "n3", "n4")>>,
        <<Link("l1", "n1", "n2"), Link("l2", "n2", "n1")>>,
        <<Link("l1", "n1", "n2"), Link("l2", "n2", "n3"), Link("l3", "n2", "n4")>>,
        <<Link("l1", "n1", "n2"), Link("l2", "n3", "n2")>>,
        <<Link("l1", "n1", "n2"), Link("l2", "n3", "n4")>>,
        <<Link("l1", "n1", "n2"), Link("l2", "n2", "n3"), Link("l3", "n3", "n1")>>,
        <<Link("l1", "n1", "n2"), Link("L1", "n2", "n3")>>,
        <<Link("l1", "n1", "n1"), Link("l2", "n1", "n2")>>, <<>>}}
    \cup {[nodes |-> Nodes(<<"n1", "n2", "N1">>), links |-> <<Link("l1", "n1", "n2")>>],
          [nodes |-> Nodes(<<"n1", "n2">>), links |-> <<Link("l1", "n1", "n2"), Link("l2", "n2", "n3")>>],
          [nodes |-> <<>>, links |-> <<Link("l1", "n1", "n2")>>]}

Walks == {<<"n1", "n2", "n3">>, <<"n1", "n2">>, <<"n2", "n3", "n1">>, <<"n3", "n4">>,
          <<"n2", "n1">>, <<"n2", "n4">>, <<"n3", "n2">>, <<"n1">>}

(* Route ids as the streams and as the routes write them.                  *)
Namings == {[streams |-> <<None, None>>, routes |-> <<None, None>>],
            [streams |-> <<"shared", "shared">>, routes |-> <<"shared">>],
            [streams |-> <<"route-stream-7", "route-s1">>, routes |-> <<None, None>>]}

Half == [idle |-> DefaultSlope, send |-> DefaultSlope]
Slopes(a, b) == [k \in Shaped |-> IF k = "class_a" THEN a ELSE b]

Talker(id, class, pcp, walk, route) ==
    [id |-> id, source |-> Head(walk), destination |-> Last(walk), class |-> class, pcp |-> pcp,
     period |-> 1, deadline |-> None, size |-> 1, route |-> route]
Path(id, stream, flow, hops) == [id |-> id, stream |-> stream, flow |-> flow, hops |-> hops]

Assumed == SUBSET {"line-topology", "single-direction"}

(* Two streams, "s1" on walk w and "7" on walk v; where both name the     *)
(* route "shared" the case has the row of "s1" only.                       *)
Plain(t, w, v, n, a) ==
    [nodes |-> t.nodes, links |-> t.links, speed |-> None,
     slopes |-> Slopes(Half, Half), assumptions |-> a,
     streams |-> <<Talker("s1", "class_a", None, w, n.streams[1]), Talker("7", None, 1, v, n.streams[2])>>,
     routes |-> [i \in DOMAIN n.routes |-> IF i = 1 THEN Path(n.routes[1], "s1", FALSE, w)
                                                    ELSE Path(n.routes[2], "7", TRUE, v)]]

(* The two-link line with one thing changed.                               *)
Line == Plain([nodes |-> Four, links |-> <<Link("l1", "n1", "n2"), Link("l2", "n2", "n3")>>],
              <<"n1", "n2", "n3">>, <<"n1", "n2">>,
              [streams |-> <<None, None>>, routes |-> <<None, None>>], {})
Changed ==
    {[Line EXCEPT !.slopes = Slopes([idle |-> i, send |-> j], [idle |-> k, send |-> DefaultSlope])]
       : i \in {0, 60, 6000}, j \in {0, 40}, k \in {-1, 50, 5000}}
    \cup {[Line EXCEPT !.routes[1].hops = <<>>], [Line EXCEPT !.streams[2].pcp = None],
          [Line EXCEPT !.routes[2].flow = FALSE], [Line EXCEPT !.routes = <<@[1]>>],
          [Line EXCEPT !.routes = <<>>], [Line EXCEPT !.streams = <<>>, !.routes = <<>>],
          [Line EXCEPT !.streams[1].period = 0], [Line EXCEPT !.streams[1].deadline = 0],
          [Line EXCEPT !.streams[1].size = 0], [Line EXCEPT !.streams[1].destination = "n2"],
          [Line EXCEPT !.streams[1].source = "n2"], [Line EXCEPT !.streams[1].source = "l1"],
          [Line EXCEPT !.streams[1].class = "best_effort", !.streams[2].pcp = 0],
          [Line EXCEPT !.streams[2].pcp = 3],
          [Line EXCEPT !.streams[2].id = "S1", !.routes[2].stream = "S1"]}
MCRawCases ==
    {Plain(t, w, v, n, a) : t \in Topologies, w \in Walks, v \in Walks, n \in Namings, a \in Assumed}
      \cup Changed
=============================================================================
