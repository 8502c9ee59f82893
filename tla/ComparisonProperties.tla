------------------------- MODULE ComparisonProperties -------------------------
(***************************************************************************)
(* What the verdict and the counts of a comparison say about the two runs  *)
(* that were compared.                                                     *)
(***************************************************************************)
EXTENDS Comparison

Avb(c) == RowsOf(c.streams, IsShaped, LAMBDA s : s)
Ids(streams) == {s.id : s \in Range(streams)}
AnalysedAvb == IF analysis.failed THEN <<>> ELSE Avb(analysis.case)

(* The same AVB streams on both sides, each once, of one class, on one     *)
(* path: a stream without a route id is on the route of its own name.      *)
SameStreams ==
    LET a == AnalysedAvb
        b == Avb(simulation.case)
    IN /\ IsInjective([i \in DOMAIN a |-> a[i].id]) /\ IsInjective([i \in DOMAIN b |-> b[i].id])
       /\ Ids(a) = Ids(b)
       /\ \A s \in Range(a), t \in Range(b) : s.id = t.id =>
            /\ s.class = t.class
            /\ t.route # None => t.route = IF s.route = None THEN s.id ELSE s.route
            /\ analysis.case.hops[s.id] = simulation.case.hops[t.id]

Bounded(id) == \A r \in simulation.responses[id] : r <= analysis.bound[id]

(* The engine says ok exactly when both results are about the same AVB     *)
(* streams, each once, and no frame that was delivered took longer than    *)
(* its stream's bound: neither first-row-wins, nor the rows a side lacks,  *)
(* nor metadata that is absent lets a difference pass (comparison/engine). *)
OkMeansBounded ==
    comparison # None /\ analysis.tabled /\ simulation.tabled =>
      (comparison.summary.engine_status = "ok" <=>
         SameStreams /\ \A id \in Ids(AnalysedAvb) : Bounded(id))

(* An ok comparison says nothing of a stream that was never delivered: the *)
(* counts do.  Whatever the age of the files, a comparison that is ok and  *)
(* has matched every stream it lists has seen each analysed stream         *)
(* delivered, and always within its bound; an overrun is told exactly when *)
(* it is counted (comparison/engine.py, the summary).                      *)
CountsTellWhatWasCompared ==
    LET told == comparison.summary
    IN comparison # None =>
         /\ told.engine_status = "ok" /\ told.matched_stream_count = told.stream_count =>
              \A id \in Ids(AnalysedAvb) : simulation.responses[id] # {} /\ Bounded(id)
         /\ told.max_simulation_over_analysis > 0 <=> told.simulation_exceeded_analysis_count > 0
=============================================================================
