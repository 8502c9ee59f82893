----------------------------- MODULE MCComparison -----------------------------
(***************************************************************************)
(* Two stream ids; cases that differ in one respect from the first.        *)
(***************************************************************************)
EXTENDS ComparisonProperties, TLC

Ids2 == {"s1", "s2"}
Times == {1, 2}
References == {None, 1}

Row(id, class, route) == [id |-> id, class |-> class, route |-> route]
Of(streams, hops) == [streams |-> streams, hops |-> hops]
Usual == ("s1" :> 1) @@ ("s2" :> 2)

CasesMC ==
  LET a == Row("s1", "class_a", None)
      b == Row("s2", "class_b", "r2")
  IN {Of(<<a, b>>, Usual),
      Of(<<a>>, Usual),
      Of(<<a, Row("s1", "class_a", "r1")>>, Usual),
      Of(<<a, Row("s2", "best_effort", "r2")>>, Usual),
      Of(<<a, Row("s1", "best_effort", "r2")>>, Usual),
      Of(<<a, Row("s2", "class_a", "r2")>>, Usual),
      Of(<<a, Row("s2", "class_b", "r1")>>, Usual),
      Of(<<a, b>>, [id \in Ids2 |-> 1]),
      Of(<<Row("s1", "best_effort", None)>>, Usual)}
=============================================================================
