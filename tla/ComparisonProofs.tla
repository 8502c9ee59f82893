--------------------------- MODULE ComparisonProofs ---------------------------
(***************************************************************************)
(* What the verdict of a comparison says, for all cases and results.       *)
(***************************************************************************)
EXTENDS ComparisonProperties, FiniteSetTheorems, WellFoundedInduction, TLAPS

-----------------------------------------------------------------------------
(* The inductive invariant                                                 *)

(* What the two files and the comparison are made of. *)
ResultInv ==
    /\ case \in Cases
    /\ analysis # None =>
         /\ analysis.case \in Cases /\ analysis.failed \in BOOLEAN /\ analysis.tabled \in BOOLEAN
         /\ analysis.bound \in [Stream -> Value]
    /\ simulation # None =>
         /\ simulation.case \in Cases /\ simulation.tabled \in BOOLEAN
         /\ simulation.responses \in [Stream -> SUBSET Value]
    /\ comparison # None =>
         /\ analysis # None /\ simulation # None
         /\ comparison = Compared(analysis, simulation)

(* The results are typed, and a comparison is that of the two results. *)
LEMMA ResultsAreCompared == Spec => []ResultInv
<1>1. Init => ResultInv
  BY DEF Init, ResultInv
<1>2. ResultInv /\ [Next]_vars => ResultInv'
  <2> SUFFICES ASSUME ResultInv, [Next]_vars
               PROVE  ResultInv'
    OBVIOUS
  <2>1. CASE Edit
    BY <2>1 DEF Edit, ResultInv
  <2>2. CASE Analyze
    <3>1. PICK failed \in BOOLEAN, tabled \in BOOLEAN, bound \in [Stream -> Value], e \in Expected :
            analysis' = [case |-> case, failed |-> failed, tabled |-> tabled, bound |-> bound,
                         expected |-> [id \in Stream |-> e]]
      BY <2>2 DEF Analyze
    <3>2. /\ analysis'.case = case /\ analysis'.failed = failed /\ analysis'.tabled = tabled
          /\ analysis'.bound = bound
      BY <3>1
    <3>3. comparison' = None /\ UNCHANGED <<case, simulation>>
      BY <2>2 DEF Analyze, ResultInv
    <3> QED
      BY <3>2, <3>3 DEF ResultInv
  <2>3. CASE Simulate
    <3>1. PICK tabled \in BOOLEAN, responses \in [Stream -> SUBSET Value] :
            simulation' = [case |-> case, tabled |-> tabled, responses |-> responses]
      BY <2>3 DEF Simulate
    <3>2. /\ simulation'.case = case /\ simulation'.tabled = tabled
          /\ simulation'.responses = responses
      BY <3>1
    <3>3. comparison' = None /\ UNCHANGED <<case, analysis>>
      BY <2>3 DEF Simulate, ResultInv
    <3> QED
      BY <3>2, <3>3 DEF ResultInv
  <2>4. CASE Compare
    BY <2>4 DEF Compare, ResultInv
  <2>5. CASE UNCHANGED vars
    BY <2>5 DEF vars, ResultInv
  <2> QED
    BY <2>1, <2>2, <2>3, <2>4, <2>5 DEF Next
<1> QED
  BY <1>1, <1>2, PTL DEF Spec

-----------------------------------------------------------------------------
(* The rows of a table                                                     *)

(* A table has its rows at the places of a list. *)
IsTable(rows) == \E n \in Nat : DOMAIN rows \subseteq 1..n

(* A set of integers that has a lower bound has a least one, which Min     *)
(* denotes.                                                                *)
LEMMA LeastInteger ==
  ASSUME NEW T, T \subseteq Int, T # {}, NEW low \in Int, \A m \in T : low <= m
  PROVE  Min(T) \in T
<1> DEFINE Gaps == {m - low : m \in T}
<1>1. Gaps \subseteq Nat /\ Gaps # {}
  <2>1. \A m \in T : m - low \in Nat
    OBVIOUS
  <2> QED
    BY <2>1
<1>2. PICK g \in Gaps : \A h \in Gaps : <<h, g>> \notin OpToRel(<, Nat)
  <2> HIDE DEF Gaps
  <2> QED
    BY <1>1, NatLessThanWellFounded, WFMin
<1>3. PICK n \in T : g = n - low
  BY <1>2
<1>4. ASSUME NEW m \in T
      PROVE  n <= m
  <2>1. m - low \in Gaps /\ m - low \in Nat /\ g \in Nat
    BY <1>1
  <2>2. ~(m - low < n - low)
    BY <1>2, <1>3, <2>1 DEF OpToRel
  <2>3. m \in Int /\ n \in Int
    OBVIOUS
  <2> QED
    BY <2>2, <2>3
<1> QED
  BY <1>4 DEF Min

(* The places of an id in a table are finitely many. *)
LEMMA PlacesAreFinite ==
  ASSUME NEW rows, IsTable(rows), NEW id
  PROVE  IsFiniteSet(Places(rows, id)) /\ Places(rows, id) \subseteq Nat
<1>1. PICK n \in Nat : DOMAIN rows \subseteq 1..n
  BY DEF IsTable
<1>2. Places(rows, id) \subseteq 1..n
  BY <1>1 DEF Places
<1>3. IsFiniteSet(1..n)
  BY FS_Interval
<1>4. IsFiniteSet(Places(rows, id))
  BY <1>2, <1>3, FS_Subset
<1> QED
  BY <1>2, <1>4

(* The row that counts for an id is one with that id. *)
LEMMA FirstIsOfItsId ==
  ASSUME NEW rows, IsTable(rows), NEW id \in Named(rows)
  PROVE  \E i \in DOMAIN rows : rows[i].stream = id /\ First(rows, id) = rows[i]
<1>1. Places(rows, id) # {}
  BY DEF Named, Range, Places
<1>2. /\ Places(rows, id) \subseteq Int
      /\ 0 \in Int
      /\ \A i \in Places(rows, id) : 0 <= i
  BY PlacesAreFinite
<1>3. Min(Places(rows, id)) \in Places(rows, id)
  BY <1>1, <1>2, LeastInteger
<1> QED
  BY <1>3 DEF Places, First

(* An id is repeated when two rows have it; else it is counted once. *)
LEMMA RepeatedRows ==
  ASSUME NEW rows, IsTable(rows), NEW id \in Named(rows)
  PROVE  /\ id \in Repeated(rows) <=>
              \E i, j \in DOMAIN rows : i # j /\ rows[i].stream = id /\ rows[j].stream = id
         /\ id \notin Repeated(rows) => Cardinality(Places(rows, id)) = 1
<1> DEFINE P == Places(rows, id)
           n == Cardinality(P)
<1>1. PICK i \in P : TRUE
  BY DEF Named, Range, Places
<1>2. IsFiniteSet(P) /\ n \in Nat
  BY PlacesAreFinite, FS_CardinalityType
<1>3. n # 0
  BY <1>1, <1>2, FS_EmptySet
<1>4. n = 1 <=> \E x : P = {x}
  BY <1>2, FS_Singleton
<1>5. n > 1 <=> \E j \in P : i # j
  BY <1>1, <1>2, <1>3, <1>4
<1>6. id \in Repeated(rows) <=> n > 1
  BY DEF Repeated
<1>7. (\E j \in P : i # j) <=> \E k, j \in P : k # j
  BY <1>1
<1>8. id \in Repeated(rows) <=> \E k, j \in P : k # j
  <2> HIDE DEF P, n
  <2> QED
    BY <1>5, <1>6, <1>7
<1>9. id \notin Repeated(rows) => n = 1
  <2> HIDE DEF P
  <2> QED
    BY <1>2, <1>3, <1>6
<1> QED
  BY <1>8, <1>9 DEF Places

-----------------------------------------------------------------------------
(* Flags and verdict                                                       *)

(* What each flag of an entry says. *)
LEMMA FlagsSay ==
  ASSUME NEW ra, NEW rb, NEW id, NEW a, a = First(ra, id), NEW b, b = First(rb, id),
         NEW flags, flags = Flags(ra, rb, id)
  PROVE  /\ flags \subseteq {"missing_analysis", "missing_simulation", "duplicate_stream_id",
                             "class_mismatch", "path_mismatch", "simulation_exceeded_analysis",
                             "expected_differs_from_analysis"}
         /\ "missing_analysis" \in flags <=> id \notin Named(ra)
         /\ "missing_simulation" \in flags <=> id \notin Named(rb)
         /\ "duplicate_stream_id" \in flags <=> id \in Repeated(ra) \cup Repeated(rb)
         /\ "class_mismatch" \in flags <=> Disagree(a.class, b.class)
         /\ "path_mismatch" \in flags <=> Disagree(a.route, b.route) \/ Disagree(a.hops, b.hops)
         /\ "simulation_exceeded_analysis" \in flags <=> Exceeds(a.value, b.value)
<1> DEFINE ma == id \notin Named(ra)
           ms == id \notin Named(rb)
           du == id \in Repeated(ra) \cup Repeated(rb)
           cm == Disagree(a.class, b.class)
           pm == Disagree(a.route, b.route) \/ Disagree(a.hops, b.hops)
           se == Exceeds(a.value, b.value)
           ed == Disagree(a.expected, a.value)
           raised == [missing_analysis |-> ma, missing_simulation |-> ms, duplicate_stream_id |-> du,
                      class_mismatch |-> cm, path_mismatch |-> pm,
                      simulation_exceeded_analysis |-> se, expected_differs_from_analysis |-> ed]
<1>1. flags = {flag \in DOMAIN raised : raised[flag]}
  BY DEF Flags
<1> HIDE DEF ma, ms, du, cm, pm, se, ed
<1>2. DOMAIN raised = {"missing_analysis", "missing_simulation", "duplicate_stream_id",
                       "class_mismatch", "path_mismatch", "simulation_exceeded_analysis",
                       "expected_differs_from_analysis"}
  OBVIOUS
<1>3. /\ raised["missing_analysis"] = ma /\ raised["missing_simulation"] = ms
      /\ raised["duplicate_stream_id"] = du /\ raised["class_mismatch"] = cm
      /\ raised["path_mismatch"] = pm /\ raised["simulation_exceeded_analysis"] = se
  OBVIOUS
<1> HIDE DEF raised
<1>4. /\ "missing_analysis" \in flags <=> ma
      /\ "missing_simulation" \in flags <=> ms
      /\ "duplicate_stream_id" \in flags <=> du
      /\ "class_mismatch" \in flags <=> cm
      /\ "path_mismatch" \in flags <=> pm
      /\ "simulation_exceeded_analysis" \in flags <=> se
  BY <1>1, <1>2, <1>3, Zenon
<1>5. flags \subseteq DOMAIN raised
  BY <1>1
<1> QED
  BY <1>2, <1>4, <1>5 DEF ma, ms, du, cm, pm, se

(* A comparison is ok when no entry has a flag other than the one about    *)
(* the reference.                                                          *)
LEMMA VerdictIsFlags ==
  ASSUME NEW ra, NEW rb, NEW entries, entries = {Entry(ra, rb, id) : id \in Named(ra) \cup Named(rb)}
  PROVE  EngineStatus(entries, Diagnostics(ra, rb, entries)) = "ok" <=>
           \A id \in Named(ra) \cup Named(rb) : Flags(ra, rb, id) \subseteq {"expected_differs_from_analysis"}
<1> DEFINE ids == Named(ra) \cup Named(rb)
           Fine(id) == Flags(ra, rb, id) \subseteq {"expected_differs_from_analysis"}
           ds == Diagnostics(ra, rb, entries)
<1>1. \A id : /\ Entry(ra, rb, id).flags = Flags(ra, rb, id)
              /\ Entry(ra, rb, id).stream = id
              /\ Entry(ra, rb, id).status = IF Fine(id) THEN "ok" ELSE "error"
  BY DEF Entry
<1>2. (\E e \in entries : e.status = "error") <=> \E id \in ids : ~Fine(id)
  <2> HIDE DEF Fine
  <2> QED
    BY <1>1
<1>3. ASSUME \A id \in ids : Fine(id), NEW d \in ds
      PROVE  Severity(d[1]) # "error"
  <2>1. Repeated(ra) \cup Repeated(rb) = {}
    <3> SUFFICES ASSUME NEW id \in Repeated(ra) \cup Repeated(rb)
                 PROVE  FALSE
      OBVIOUS
    <3>1. id \in ids
      BY DEF Repeated
    <3>2. "duplicate_stream_id" \in Flags(ra, rb, id)
      BY FlagsSay
    <3> QED
      BY <1>3, <3>1, <3>2
  <2>2. d \in UNION {{<<flag, e.stream>> : flag \in e.flags \ {"duplicate_stream_id"}} : e \in entries}
    BY <2>1 DEF Diagnostics
  <2>3. PICK e \in entries : \E flag \in e.flags : d = <<flag, e.stream>>
    BY <2>2
  <2>4. PICK flag \in e.flags : d = <<flag, e.stream>>
    BY <2>3
  <2>5. flag = "expected_differs_from_analysis"
    BY <1>1, <1>3, <2>4
  <2>6. d[1] = flag
    BY <2>4
  <2> QED
    BY <2>5, <2>6 DEF Severity
<1> QED
  BY <1>2, <1>3 DEF EngineStatus

-----------------------------------------------------------------------------
(* The tables of the two results                                           *)

(* A row has the id of its stream. *)
LEMMA RowHasItsId ==
  ASSUME NEW x, NEW s
  PROVE  AnalysisRow(x, s).stream = s.id /\ SimulationRow(x, s).stream = s.id
BY DEF AnalysisRow, SimulationRow

(* The rows of an analysis stand for the shaped streams that it analysed.  *)
LEMMA AnalysisTable ==
  ASSUME ResultInv, analysis # None, analysis.tabled,
         NEW rows, rows = AnalysisRows(analysis), NEW a, a = AnalysedAvb
  PROVE  /\ IsTable(rows) /\ DOMAIN rows = DOMAIN a
         /\ \A i \in DOMAIN a : /\ rows[i] = AnalysisRow(analysis, a[i])
                                /\ a[i].id \in Stream /\ a[i].class \in Shaped
         /\ \A id : id \in Named(rows) =>
              Copies(analysis.case, id) = Cardinality(Places(rows, id))
<1> DEFINE streams == analysis.case.streams
           places == {k \in DOMAIN streams : streams[k].class \in Shaped}
<1>1. /\ Len(streams) \in Nat /\ DOMAIN streams = 1..Len(streams)
      /\ \A i \in DOMAIN streams : streams[i].id \in Stream
  <2> PICK c \in Cases : c = analysis.case
    BY DEF ResultInv
  <2>1. c.streams \in Seq(Range(c.streams))
    BY CasesAssumption
  <2>2. \A i \in DOMAIN c.streams : c.streams[i] \in Range(c.streams)
    BY DEF Range
  <2>3. \A s \in Range(c.streams) : s.id \in Stream
    BY CasesAssumption
  <2> QED
    BY <2>1, <2>2, <2>3
<1>2. CASE analysis.failed
  <2>1. DOMAIN rows = {} /\ DOMAIN a = {}
    BY <1>2 DEF AnalysisRows, AnalysedAvb
  <2>2. Named(rows) = {} /\ IsTable(rows)
    BY <2>1 DEF Named, Range, IsTable
  <2> QED
    BY <2>1, <2>2
<1>3. CASE ~analysis.failed
  <2>1. rows = [i \in places |-> AnalysisRow(analysis, streams[i])]
    BY <1>3 DEF AnalysisRows, RowsOf, IsShaped
  <2>2. a = [i \in places |-> streams[i]]
    BY <1>3 DEF AnalysedAvb, Avb, RowsOf, IsShaped
  <2>3. IsTable(rows)
    BY <1>1, <2>1 DEF IsTable
  <2>4. ASSUME NEW id
        PROVE  Copies(analysis.case, id) = Cardinality(Places(rows, id))
    <3>1. \A i \in places : rows[i].stream = streams[i].id
      BY <2>1, RowHasItsId
    <3>2. Places(rows, id) = {i \in DOMAIN streams : streams[i].id = id /\ streams[i].class \in Shaped}
      BY <2>1, <3>1 DEF Places
    <3> QED
      BY <3>2 DEF Copies, Quantify, IsShaped
  <2> QED
    BY <1>1, <2>1, <2>2, <2>3, <2>4
<1> QED
  BY <1>2, <1>3

(* The rows of a simulation that are compared are those of its shaped      *)
(* streams.                                                                *)
LEMMA SimulationTable ==
  ASSUME ResultInv, simulation # None, simulation.tabled,
         NEW rows, rows = SimulationRows(simulation), NEW b, b = Avb(simulation.case)
  PROVE  /\ IsTable(rows) /\ DOMAIN rows = DOMAIN b
         /\ \A i \in DOMAIN b : /\ rows[i] = SimulationRow(simulation, b[i])
                                /\ b[i].id \in Stream /\ b[i].class \in Shaped
<1> DEFINE streams == simulation.case.streams
           places == {k \in DOMAIN streams : streams[k].class \in Shaped}
<1>1. /\ Len(streams) \in Nat /\ DOMAIN streams = 1..Len(streams)
      /\ \A i \in DOMAIN streams : streams[i].id \in Stream /\ streams[i].class \in Classes
  <2> PICK c \in Cases : c = simulation.case
    BY DEF ResultInv
  <2>1. c.streams \in Seq(Range(c.streams))
    BY CasesAssumption
  <2>2. \A i \in DOMAIN c.streams : c.streams[i] \in Range(c.streams)
    BY DEF Range
  <2>3. \A s \in Range(c.streams) : s.id \in Stream /\ s.class \in Classes
    BY CasesAssumption
  <2> QED
    BY <2>1, <2>2, <2>3
<1>2. places = {k \in DOMAIN streams : streams[k].class # "best_effort"}
  BY <1>1 DEF Classes, Shaped
<1>3. rows = [i \in places |-> SimulationRow(simulation, streams[i])]
  BY <1>2 DEF SimulationRows, RowsOf
<1>4. b = [i \in places |-> streams[i]]
  BY DEF Avb, RowsOf, IsShaped
<1>5. IsTable(rows)
  BY <1>1, <1>3 DEF IsTable
<1> QED
  BY <1>1, <1>3, <1>4, <1>5

(* A table and the streams it stands for have the same ids, and an id is   *)
(* repeated when two of the streams share it.                              *)
LEMMA TableOfStreams ==
  ASSUME NEW rows, IsTable(rows), NEW a, DOMAIN rows = DOMAIN a,
         \A i \in DOMAIN a : rows[i].stream = a[i].id
  PROVE  /\ Named(rows) = Ids(a)
         /\ Repeated(rows) = {} <=> \A i, j \in DOMAIN a : a[i].id = a[j].id => i = j
         /\ \A i \in DOMAIN a : a[i].id \notin Repeated(rows) => First(rows, a[i].id) = rows[i]
<1>1. Named(rows) = Ids(a)
  BY DEF Named, Ids, Range
<1>2. \A id \in Named(rows) : id \in Repeated(rows) <=>
        \E i, j \in DOMAIN rows : i # j /\ rows[i].stream = id /\ rows[j].stream = id
  BY RepeatedRows
<1>3. \A id \in Repeated(rows) : id \in Named(rows)
  BY DEF Repeated
<1>4. \A i \in DOMAIN rows : rows[i].stream \in Named(rows)
  BY DEF Named, Range
<1>5. Repeated(rows) = {} <=> \A i, j \in DOMAIN rows : rows[i].stream = rows[j].stream => i = j
  BY <1>2, <1>3, <1>4
<1>6. ASSUME NEW i \in DOMAIN a, a[i].id \notin Repeated(rows)
      PROVE  First(rows, a[i].id) = rows[i]
  <2>1. a[i].id \in Named(rows)
    BY <1>4
  <2>2. PICK j \in DOMAIN rows : rows[j].stream = a[i].id /\ First(rows, a[i].id) = rows[j]
    BY <2>1, FirstIsOfItsId
  <2>3. i = j
    BY <1>2, <1>6, <2>1, <2>2
  <2> QED
    BY <2>2, <2>3
<1> QED
  BY <1>1, <1>5, <1>6

(* A set of response times that is not empty has a greatest one, which Max *)
(* denotes.                                                                *)
LEMMA GreatestValue ==
  ASSUME NEW T, T \subseteq Value, T # {}
  PROVE  Max(T) \in T /\ \A v \in T : v <= Max(T)
<1>1. PICK most \in Nat : \A v \in T : v <= most
  BY ValueAssumption
<1>2. T \subseteq Nat
  BY ValueAssumption
<1> DEFINE Gaps == {most - v : v \in T}
<1>3. Gaps \subseteq Nat /\ Gaps # {}
  <2>1. \A v \in T : most - v \in Nat
    BY <1>1, <1>2
  <2> QED
    BY <2>1
<1>4. PICK g \in Gaps : \A h \in Gaps : <<h, g>> \notin OpToRel(<, Nat)
  <2> HIDE DEF Gaps
  <2> QED
    BY <1>3, NatLessThanWellFounded, WFMin
<1>5. PICK m \in T : g = most - m
  BY <1>4
<1>6. ASSUME NEW v \in T
      PROVE  m >= v
  <2>1. most - v \in Gaps /\ most - v \in Nat /\ g \in Nat /\ v \in Nat /\ m \in Nat
    BY <1>2, <1>3
  <2>2. ~(most - v < most - m)
    BY <1>4, <1>5, <2>1 DEF OpToRel
  <2> QED
    BY <2>1, <2>2
<1>7. \E x \in T : \A y \in T : x >= y
  BY <1>6
<1>8. Max(T) \in T /\ \A y \in T : Max(T) >= y
  BY <1>7 DEF Max
<1> QED
  BY <1>2, <1>8

(* The worst response time of a stream exceeds its bound exactly when a    *)
(* frame of it exceeded the bound.                                         *)
LEMMA ExceedsIsUnbounded ==
  ASSUME ResultInv, analysis # None, simulation # None, NEW id \in Stream
  PROVE  /\ Exceeds(analysis.bound[id], Worst(simulation, id)) <=> ~Bounded(id)
         /\ analysis.bound[id] \in Nat /\ analysis.bound[id] # None
         /\ Worst(simulation, id) # None <=> simulation.responses[id] # {}
         /\ Worst(simulation, id) # None => Worst(simulation, id) \in Value
<1> DEFINE T == simulation.responses[id]
           bound == analysis.bound[id]
<1>1. T \subseteq Value /\ bound \in Nat /\ bound # None /\ T \subseteq Nat
  BY ValueAssumption, NoneAssumption DEF ResultInv
<1>2. Bounded(id) <=> \A r \in T : r <= bound
  BY DEF Bounded
<1>3. Worst(simulation, id) = IF T = {} THEN None ELSE Max(T)
  BY DEF Worst
<1> HIDE DEF T, bound
<1>4. CASE T = {}
  BY <1>1, <1>2, <1>3, <1>4 DEF Exceeds, T, bound
<1>5. CASE T # {}
  <2>1. Max(T) \in T /\ \A v \in T : v <= Max(T)
    BY <1>1, <1>5, GreatestValue
  <2>2. Max(T) \in Nat /\ Max(T) \in Value /\ Max(T) # None
    BY <1>1, <2>1, NoneAssumption
  <2>3. Max(T) > bound <=> ~(\A r \in T : r <= bound)
    BY <1>1, <2>1, <2>2
  <2>4. Exceeds(bound, Worst(simulation, id)) <=> ~Bounded(id)
    BY <1>1, <1>2, <1>3, <1>5, <2>2, <2>3 DEF Exceeds
  <2> QED
    BY <1>1, <1>3, <1>5, <2>2, <2>4 DEF T, bound
<1> QED
  BY <1>4, <1>5

(* What it takes for a stream that both tables have once to be fine.       *)
LEMMA PairIsFine ==
  ASSUME ResultInv, analysis # None, simulation # None, analysis.tabled, simulation.tabled,
         NEW ra, ra = AnalysisRows(analysis), NEW rb, rb = SimulationRows(simulation),
         NEW a, a = AnalysedAvb, NEW b, b = Avb(simulation.case),
         Repeated(ra) = {}, Repeated(rb) = {},
         NEW i \in DOMAIN a, NEW j \in DOMAIN b, NEW s, s = a[i], NEW t, t = b[j], s.id = t.id
  PROVE  Flags(ra, rb, s.id) \subseteq {"expected_differs_from_analysis"} <=>
           /\ s.class = t.class
           /\ t.route # None => t.route = IF s.route = None THEN s.id ELSE s.route
           /\ analysis.case.hops[s.id] = simulation.case.hops[t.id]
           /\ Bounded(s.id)
<1> DEFINE id == s.id
           flags == Flags(ra, rb, id)
           x == AnalysisRow(analysis, s)
           y == SimulationRow(simulation, t)
<1>1. /\ IsTable(ra) /\ DOMAIN ra = DOMAIN a /\ \A k \in DOMAIN a : ra[k] = AnalysisRow(analysis, a[k])
      /\ id \in Stream /\ s.class \in Shaped
      /\ \A n : n \in Named(ra) => Copies(analysis.case, n) = Cardinality(Places(ra, n))
  BY AnalysisTable
<1>2. /\ IsTable(rb) /\ DOMAIN rb = DOMAIN b /\ \A k \in DOMAIN b : rb[k] = SimulationRow(simulation, b[k])
      /\ t.class \in Shaped
  BY SimulationTable
<1>3. First(ra, id) = x /\ First(rb, id) = y /\ id \in Named(ra) /\ id \in Named(rb)
  <2>1. /\ \A k \in DOMAIN a : ra[k].stream = a[k].id
        /\ \A k \in DOMAIN b : rb[k].stream = b[k].id
    BY <1>1, <1>2, RowHasItsId
  <2>2. /\ Named(ra) = Ids(a)
        /\ \A k \in DOMAIN a : a[k].id \notin Repeated(ra) => First(ra, a[k].id) = ra[k]
    <3>1. IsTable(ra) /\ DOMAIN ra = DOMAIN a
      BY <1>1
    <3> QED
      BY <2>1, <3>1, TableOfStreams
  <2>3. /\ Named(rb) = Ids(b)
        /\ \A k \in DOMAIN b : b[k].id \notin Repeated(rb) => First(rb, b[k].id) = rb[k]
    <3>1. IsTable(rb) /\ DOMAIN rb = DOMAIN b
      BY <1>2
    <3> QED
      BY <2>1, <3>1, TableOfStreams
  <2>4. First(ra, id) = ra[i] /\ First(rb, id) = rb[j]
    BY <2>2, <2>3
  <2> QED
    BY <1>1, <1>2, <2>2, <2>3, <2>4 DEF Ids, Range
<1>4. Copies(analysis.case, id) = 1
  BY <1>1, <1>3, RepeatedRows
<1>5. /\ x.class = s.class /\ x.route = (IF s.route = None THEN s.id ELSE s.route)
      /\ x.hops = 1 * analysis.case.hops[id] /\ x.value = analysis.bound[id]
  BY <1>4 DEF AnalysisRow
<1>6. /\ y.class = t.class /\ y.route = t.route
      /\ y.hops = simulation.case.hops[id] /\ y.value = Worst(simulation, id)
  BY DEF SimulationRow
<1>7. analysis.case.hops[id] \in Nat /\ simulation.case.hops[id] \in Nat
  BY <1>1, CasesAssumption DEF ResultInv
<1>8. x.hops = analysis.case.hops[id]
  BY <1>5, <1>7
<1> HIDE DEF x, y
<1>9. /\ flags \subseteq {"missing_analysis", "missing_simulation", "duplicate_stream_id",
                          "class_mismatch", "path_mismatch", "simulation_exceeded_analysis",
                          "expected_differs_from_analysis"}
      /\ "missing_analysis" \notin flags /\ "missing_simulation" \notin flags
      /\ "duplicate_stream_id" \notin flags
      /\ "class_mismatch" \in flags <=> Disagree(x.class, y.class)
      /\ "path_mismatch" \in flags <=> Disagree(x.route, y.route) \/ Disagree(x.hops, y.hops)
      /\ "simulation_exceeded_analysis" \in flags <=> Exceeds(x.value, y.value)
  BY <1>3, FlagsSay
<1>10. Disagree(x.class, y.class) <=> s.class # t.class
  BY <1>1, <1>2, <1>5, <1>6, NoneAssumption DEF Disagree, Classes
<1>11. Disagree(x.route, y.route) <=> t.route # None /\ t.route # (IF s.route = None THEN s.id ELSE s.route)
  BY <1>1, <1>5, <1>6, NoneAssumption DEF Disagree
<1>12. Disagree(x.hops, y.hops) <=> analysis.case.hops[s.id] # simulation.case.hops[t.id]
  BY <1>6, <1>7, <1>8, NoneAssumption DEF Disagree
<1>13. Exceeds(x.value, y.value) <=> ~Bounded(s.id)
  BY <1>1, <1>5, <1>6, ExceedsIsUnbounded
<1> HIDE DEF flags
<1>14. flags \subseteq {"expected_differs_from_analysis"} <=>
         /\ "class_mismatch" \notin flags /\ "path_mismatch" \notin flags
         /\ "simulation_exceeded_analysis" \notin flags
  BY <1>9
<1> QED
  BY <1>9, <1>10, <1>11, <1>12, <1>13, <1>14 DEF flags

-----------------------------------------------------------------------------
(* The verdict                                                             *)

(* What the summary of a comparison is made from. *)
LEMMA SummaryOfResults ==
  ASSUME NEW x, NEW y, NEW ra, ra = AnalysisRows(x), NEW rb, rb = SimulationRows(y),
         NEW entries, entries = {Entry(ra, rb, id) : id \in Named(ra) \cup Named(rb)}
  PROVE  Compared(x, y).summary = Summary(entries, Diagnostics(ra, rb, entries))
BY DEF Compared

(* The status in the summary is the verdict of the engine. *)
LEMMA StatusInSummary ==
  ASSUME NEW entries, NEW diagnostics
  PROVE  Summary(entries, diagnostics).engine_status = EngineStatus(entries, diagnostics)
BY DEF Summary

(* The engine says ok exactly when both results are about the same shaped  *)
(* streams, each once, and no delivered frame took longer than its         *)
(* stream's bound.                                                         *)
THEOREM OkIsAboutTheSameStreams == Spec => []OkMeansBounded
<1>1. ResultInv => OkMeansBounded
  <2> SUFFICES ASSUME ResultInv, comparison # None, analysis.tabled, simulation.tabled
               PROVE  comparison.summary.engine_status = "ok" <=>
                        SameStreams /\ \A id \in Ids(AnalysedAvb) : Bounded(id)
    BY DEF OkMeansBounded
  <2> PICK a : a = AnalysedAvb
    OBVIOUS
  <2> PICK b : b = Avb(simulation.case)
    OBVIOUS
  <2> PICK ra : ra = AnalysisRows(analysis)
    OBVIOUS
  <2> PICK rb : rb = SimulationRows(simulation)
    OBVIOUS
  <2> DEFINE ids == Named(ra) \cup Named(rb)
             Fine(id) == Flags(ra, rb, id) \subseteq {"expected_differs_from_analysis"}
             Match(s, t) == /\ s.class = t.class
                            /\ t.route # None => t.route = IF s.route = None THEN s.id ELSE s.route
                            /\ analysis.case.hops[s.id] = simulation.case.hops[t.id]
  <2>1. /\ analysis # None /\ simulation # None
        /\ comparison = Compared(analysis, simulation)
    BY DEF ResultInv
  <2>2. comparison.summary.engine_status = "ok" <=> \A id \in ids : Fine(id)
    <3> PICK entries : entries = {Entry(ra, rb, id) : id \in ids}
      OBVIOUS
    <3>1. comparison.summary = Summary(entries, Diagnostics(ra, rb, entries))
      BY <2>1, SummaryOfResults
    <3> QED
      BY <3>1, StatusInSummary, VerdictIsFlags
  <2>3. SameStreams <=>
          /\ \A i, j \in DOMAIN a : a[i].id = a[j].id => i = j
          /\ \A i, j \in DOMAIN b : b[i].id = b[j].id => i = j
          /\ Ids(a) = Ids(b)
          /\ \A s \in Range(a), t \in Range(b) : s.id = t.id => Match(s, t)
    BY DEF SameStreams, IsInjective
  <2>4. /\ IsTable(ra) /\ DOMAIN ra = DOMAIN a /\ \A i \in DOMAIN a : ra[i].stream = a[i].id
    BY <2>1, AnalysisTable, RowHasItsId
  <2>5. /\ IsTable(rb) /\ DOMAIN rb = DOMAIN b /\ \A i \in DOMAIN b : rb[i].stream = b[i].id
    BY <2>1, SimulationTable, RowHasItsId
  <2>6. /\ Named(ra) = Ids(a)
        /\ Repeated(ra) = {} <=> \A i, j \in DOMAIN a : a[i].id = a[j].id => i = j
    BY <2>4, TableOfStreams
  <2>7. /\ Named(rb) = Ids(b)
        /\ Repeated(rb) = {} <=> \A i, j \in DOMAIN b : b[i].id = b[j].id => i = j
    BY <2>5, TableOfStreams
  <2>8. ASSUME Repeated(ra) = {}, Repeated(rb) = {}, NEW s \in Range(a), NEW t \in Range(b), s.id = t.id
        PROVE  Fine(s.id) <=> Match(s, t) /\ Bounded(s.id)
    <3>1. PICK i \in DOMAIN a : s = a[i]
      BY DEF Range
    <3>2. PICK j \in DOMAIN b : t = b[j]
      BY DEF Range
    <3> QED
      BY <2>1, <2>8, <3>1, <3>2, PairIsFine
  <2>9. ASSUME \A id \in ids : Fine(id)
        PROVE  Repeated(ra) = {} /\ Repeated(rb) = {} /\ Named(ra) = Named(rb)
    <3>1. \A id \in ids : id \in Named(ra) /\ id \in Named(rb) /\ id \notin Repeated(ra) \cup Repeated(rb)
      <4> TAKE id \in ids
      <4>1. /\ "missing_analysis" \notin Flags(ra, rb, id)
            /\ "missing_simulation" \notin Flags(ra, rb, id)
            /\ "duplicate_stream_id" \notin Flags(ra, rb, id)
        BY <2>9
      <4> QED
        BY <4>1, FlagsSay
    <3>2. Repeated(ra) \cup Repeated(rb) \subseteq ids
      BY DEF Repeated
    <3> QED
      BY <3>1, <3>2
  <2>10. \A id \in Ids(a) : \E s \in Range(a) : s.id = id
    BY DEF Ids
  <2>11. \A id \in Ids(b) : \E t \in Range(b) : t.id = id
    BY DEF Ids
  <2>12. /\ \A s \in Range(a) : s.id \in Ids(a)
         /\ \A t \in Range(b) : t.id \in Ids(b)
    BY DEF Ids
  <2> HIDE DEF Fine, Match
  <2>13. ASSUME \A id \in ids : Fine(id)
         PROVE  SameStreams /\ \A id \in Ids(a) : Bounded(id)
    <3>1. Repeated(ra) = {} /\ Repeated(rb) = {} /\ Ids(a) = Ids(b)
      BY <2>6, <2>7, <2>9, <2>13
    <3>2. \A s \in Range(a), t \in Range(b) : s.id = t.id => Match(s, t) /\ Bounded(s.id)
      BY <2>6, <2>8, <2>12, <2>13, <3>1
    <3>3. \A id \in Ids(a) : Bounded(id)
      BY <2>10, <2>11, <3>1, <3>2
    <3> QED
      BY <2>3, <2>6, <2>7, <3>1, <3>2, <3>3
  <2>14. ASSUME SameStreams, \A id \in Ids(a) : Bounded(id)
         PROVE  \A id \in ids : Fine(id)
    <3>1. Repeated(ra) = {} /\ Repeated(rb) = {} /\ Ids(a) = Ids(b)
      BY <2>3, <2>6, <2>7, <2>14
    <3> TAKE id \in ids
    <3>2. PICK s \in Range(a) : s.id = id
      BY <2>6, <2>7, <2>10, <3>1
    <3>3. PICK t \in Range(b) : t.id = id
      BY <2>6, <2>7, <2>11, <3>1
    <3>4. Match(s, t) /\ Bounded(s.id)
      BY <2>3, <2>12, <2>14, <3>2, <3>3
    <3> QED
      BY <2>8, <3>1, <3>2, <3>3, <3>4
  <2> QED
    BY <2>2, <2>13, <2>14
<1> QED
  BY <1>1, ResultsAreCompared, PTL

-----------------------------------------------------------------------------
(* The counts                                                              *)

(* The images of finitely many things are finitely many. *)
LEMMA FiniteImage ==
  ASSUME NEW S, IsFiniteSet(S), NEW f, DOMAIN f = S, NEW T, T = {f[x] : x \in S}
  PROVE  IsFiniteSet(T)
<1> DEFINE g == [x \in S |-> f[x]]
<1>1. g \in Surjection(S, T)
  BY DEF Surjection
<1> QED
  BY <1>1, FS_Surjection

(* The ids that a table names are finitely many. *)
LEMMA NamesAreFinite ==
  ASSUME NEW rows, IsTable(rows)
  PROVE  IsFiniteSet(Named(rows))
<1> DEFINE f == [i \in DOMAIN rows |-> rows[i].stream]
<1>1. PICK n \in Nat : DOMAIN rows \subseteq 1..n
  BY DEF IsTable
<1>2. IsFiniteSet(1..n)
  BY FS_Interval
<1>3. IsFiniteSet(DOMAIN rows)
  BY <1>1, <1>2, FS_Subset
<1>4. Named(rows) = {f[i] : i \in DOMAIN rows} /\ DOMAIN f = DOMAIN rows
  BY DEF Named, Range
<1> HIDE DEF f
<1> QED
  BY <1>3, <1>4, FiniteImage

(* What the rows of any two results, with or without tables, say.          *)
LEMMA RowsOfResults ==
  ASSUME ResultInv, analysis # None, simulation # None,
         NEW ra, ra = AnalysisRows(analysis), NEW rb, rb = SimulationRows(simulation)
  PROVE  /\ IsTable(ra) /\ IsTable(rb)
         /\ Named(ra) \cup Named(rb) \subseteq Stream
         /\ Ids(AnalysedAvb) \subseteq Named(ra)
         /\ \A id \in Stream : /\ First(ra, id).value \in {None, analysis.bound[id]}
                               /\ First(rb, id).value \in {None, Worst(simulation, id)}
<1> DEFINE sa == analysis.case.streams
           sb == simulation.case.streams
           Ta(i) == analysis.tabled => sa[i].class \in Shaped
           Tb(i) == simulation.tabled => sb[i].class # "best_effort"
<1>1. /\ Len(sa) \in Nat /\ DOMAIN sa = 1..Len(sa) /\ \A i \in DOMAIN sa : sa[i].id \in Stream
      /\ Len(sb) \in Nat /\ DOMAIN sb = 1..Len(sb) /\ \A i \in DOMAIN sb : sb[i].id \in Stream
  <2>1. analysis.case \in Cases /\ simulation.case \in Cases
    BY DEF ResultInv
  <2>2. \A c \in Cases : /\ Len(c.streams) \in Nat /\ DOMAIN c.streams = 1..Len(c.streams)
                         /\ \A i \in DOMAIN c.streams : c.streams[i].id \in Stream
    <3> TAKE c \in Cases
    <3>1. c.streams \in Seq(Range(c.streams)) /\ \A s \in Range(c.streams) : s.id \in Stream
      BY CasesAssumption
    <3>2. \A i \in DOMAIN c.streams : c.streams[i] \in Range(c.streams)
      BY DEF Range
    <3> QED
      BY <3>1, <3>2
  <2> QED
    BY <2>1, <2>2
<1>2. /\ DOMAIN ra \subseteq DOMAIN sa /\ (~analysis.failed => DOMAIN ra = {i \in DOMAIN sa : Ta(i)})
      /\ \A i \in DOMAIN ra : ra[i].stream = sa[i].id /\ ra[i].value \in {None, analysis.bound[sa[i].id]}
  <2>1. CASE analysis.failed
    BY <2>1 DEF AnalysisRows
  <2>2. CASE ~analysis.failed /\ analysis.tabled
    <3>1. ra = [i \in {k \in DOMAIN sa : sa[k].class \in Shaped} |-> AnalysisRow(analysis, sa[i])]
      BY <2>2 DEF AnalysisRows, RowsOf, IsShaped
    <3>2. \A s : /\ AnalysisRow(analysis, s).stream = s.id
                 /\ AnalysisRow(analysis, s).value = analysis.bound[s.id]
      BY DEF AnalysisRow
    <3>3. DOMAIN ra = {i \in DOMAIN sa : Ta(i)}
      BY <2>2, <3>1
    <3>4. \A i \in DOMAIN ra : ra[i] = AnalysisRow(analysis, sa[i])
      BY <3>1
    <3> QED
      BY <3>2, <3>3, <3>4
  <2>3. CASE ~analysis.failed /\ ~analysis.tabled
    <3>1. ra = [i \in DOMAIN sa |-> Bare(sa[i].id, IF sa[i].class \in Shaped THEN analysis.bound[sa[i].id] ELSE None)]
      BY <2>3 DEF AnalysisRows, RowsOf, IsShaped
    <3>2. \A id, v : Bare(id, v).stream = id /\ Bare(id, v).value = v
      BY DEF Bare
    <3> QED
      BY <2>3, <3>1, <3>2
  <2> QED
    BY <2>1, <2>2, <2>3
<1>3. /\ DOMAIN rb \subseteq DOMAIN sb
      /\ \A i \in DOMAIN rb : rb[i].stream = sb[i].id /\ rb[i].value = Worst(simulation, sb[i].id)
  <2>1. CASE simulation.tabled
    <3>1. rb = [i \in {k \in DOMAIN sb : sb[k].class # "best_effort"} |-> SimulationRow(simulation, sb[i])]
      BY <2>1 DEF SimulationRows, RowsOf
    <3>2. \A s : /\ SimulationRow(simulation, s).stream = s.id
                 /\ SimulationRow(simulation, s).value = Worst(simulation, s.id)
      BY DEF SimulationRow
    <3>3. \A i \in DOMAIN rb : i \in DOMAIN sb /\ rb[i] = SimulationRow(simulation, sb[i])
      BY <3>1
    <3> QED
      BY <3>2, <3>3
  <2>2. CASE ~simulation.tabled
    <3>1. rb = [i \in DOMAIN sb |-> Bare(sb[i].id, Worst(simulation, sb[i].id))]
      BY <2>2 DEF SimulationRows, RowsOf
    <3>2. \A id, v : Bare(id, v).stream = id /\ Bare(id, v).value = v
      BY DEF Bare
    <3> QED
      BY <3>1, <3>2
  <2> QED
    BY <2>1, <2>2
<1>4. IsTable(ra) /\ IsTable(rb)
  BY <1>1, <1>2, <1>3 DEF IsTable
<1>5. Named(ra) \cup Named(rb) \subseteq Stream
  BY <1>1, <1>2, <1>3 DEF Named, Range
<1>6. \A id : Bare(id, None).value = None
  BY DEF Bare
<1>7. \A id \in Stream : First(ra, id).value \in {None, analysis.bound[id]}
  <2> TAKE id \in Stream
  <2>1. CASE id \in Named(ra)
    BY <1>2, <1>4, <2>1, FirstIsOfItsId
  <2>2. CASE id \notin Named(ra)
    BY <1>6, <2>2 DEF First
  <2> QED
    BY <2>1, <2>2
<1>8. \A id \in Stream : First(rb, id).value \in {None, Worst(simulation, id)}
  <2> TAKE id \in Stream
  <2>1. CASE id \in Named(rb)
    BY <1>3, <1>4, <2>1, FirstIsOfItsId
  <2>2. CASE id \notin Named(rb)
    BY <1>6, <2>2 DEF First
  <2> QED
    BY <2>1, <2>2
<1>9. Ids(AnalysedAvb) \subseteq Named(ra)
  <2> SUFFICES ASSUME NEW id \in Ids(AnalysedAvb)
               PROVE  id \in Named(ra)
    OBVIOUS
  <2>1. PICK s \in Range(AnalysedAvb) : s.id = id
    BY DEF Ids
  <2>2. ~analysis.failed
    BY <2>1 DEF AnalysedAvb, Range
  <2>3. AnalysedAvb = [i \in {k \in DOMAIN sa : sa[k].class \in Shaped} |-> sa[i]]
    BY <2>2 DEF AnalysedAvb, Avb, RowsOf, IsShaped
  <2>4. PICK i \in DOMAIN sa : sa[i].class \in Shaped /\ sa[i] = s
    BY <2>1, <2>3 DEF Range
  <2>5. i \in DOMAIN ra /\ ra[i].stream = id
    BY <1>2, <2>1, <2>2, <2>4
  <2> QED
    BY <2>5 DEF Named, Range
<1> QED
  BY <1>4, <1>5, <1>7, <1>8, <1>9

(* What an entry says of its stream. *)
LEMMA EntryOfStream ==
  ASSUME NEW ra, NEW rb, NEW id, NEW e, e = Entry(ra, rb, id)
  PROVE  /\ e.analysis = First(ra, id).value /\ e.simulation = First(rb, id).value
         /\ e.margin = Margin(e.analysis, e.simulation)
         /\ "simulation_exceeded_analysis" \in e.flags <=> Exceeds(e.analysis, e.simulation)
<1>1. /\ e.analysis = First(ra, id).value /\ e.simulation = First(rb, id).value
      /\ e.margin = Margin(First(ra, id).value, First(rb, id).value)
      /\ e.flags = Flags(ra, rb, id)
  BY DEF Entry
<1>2. "simulation_exceeded_analysis" \in Flags(ra, rb, id) <=>
        Exceeds(First(ra, id).value, First(rb, id).value)
  BY FlagsSay
<1> QED
  BY <1>1, <1>2

(* The overruns of the entries, and the entries flagged for one. *)
Overruns(entries) == {m \in {e.margin : e \in Matched(entries)} : m < 0}

Exceeding(entries) == {e \in entries : "simulation_exceeded_analysis" \in e.flags}

(* The counts of a summary. *)
LEMMA CountsInSummary ==
  ASSUME NEW entries, NEW diagnostics, NEW told, told = Summary(entries, diagnostics)
  PROVE  /\ told.stream_count = Cardinality(entries)
         /\ told.matched_stream_count = Cardinality(Matched(entries))
         /\ told.simulation_exceeded_analysis_count = Cardinality(Exceeding(entries))
         /\ Overruns(entries) = {} => told.max_simulation_over_analysis = 0
         /\ Overruns(entries) # {} => told.max_simulation_over_analysis = -Min(Overruns(entries))
BY DEF Summary, Quantify, Overruns, Exceeding

(* The counts of a comparison tell what was compared: one that is ok and   *)
(* has matched every stream it lists has seen each analysed stream         *)
(* delivered within its bound, and an overrun is told exactly when it is   *)
(* counted.                                                                *)
THEOREM CountsAreOfTheStreams == Spec => []CountsTellWhatWasCompared
<1>1. ResultInv => CountsTellWhatWasCompared
  <2> SUFFICES ASSUME ResultInv, comparison # None, NEW told, told = comparison.summary
               PROVE  /\ told.engine_status = "ok" /\ told.matched_stream_count = told.stream_count =>
                           \A id \in Ids(AnalysedAvb) : simulation.responses[id] # {} /\ Bounded(id)
                      /\ told.max_simulation_over_analysis > 0 <=>
                           told.simulation_exceeded_analysis_count > 0
    BY DEF CountsTellWhatWasCompared
  <2> PICK ra : ra = AnalysisRows(analysis)
    OBVIOUS
  <2> PICK rb : rb = SimulationRows(simulation)
    OBVIOUS
  <2> PICK ids : ids = Named(ra) \cup Named(rb)
    OBVIOUS
  <2> PICK entries : entries = {Entry(ra, rb, id) : id \in ids}
    OBVIOUS
  <2> PICK matched : matched = Matched(entries)
    OBVIOUS
  <2> PICK negative : negative = Overruns(entries)
    OBVIOUS
  <2> PICK exceeded : exceeded = Exceeding(entries)
    OBVIOUS
  <2>1. /\ analysis # None /\ simulation # None
        /\ comparison = Compared(analysis, simulation)
    BY DEF ResultInv
  <2>2. told = Summary(entries, Diagnostics(ra, rb, entries))
    BY <2>1, SummaryOfResults
  <2>3. /\ told.stream_count = Cardinality(entries)
        /\ told.matched_stream_count = Cardinality(matched)
        /\ told.simulation_exceeded_analysis_count = Cardinality(exceeded)
        /\ negative = {} => told.max_simulation_over_analysis = 0
        /\ negative # {} => told.max_simulation_over_analysis = -Min(negative)
    <3>1. PICK ds : told = Summary(entries, ds)
      BY <2>2
    <3>2. told.stream_count = Cardinality(entries)
      BY <3>1, CountsInSummary
    <3>3. told.matched_stream_count = Cardinality(matched)
      BY <3>1, CountsInSummary
    <3>4. told.simulation_exceeded_analysis_count = Cardinality(exceeded)
      BY <3>1, CountsInSummary
    <3>5. negative = {} => told.max_simulation_over_analysis = 0
      BY <3>1, CountsInSummary
    <3>6. negative # {} => told.max_simulation_over_analysis = -Min(negative)
      BY <3>1, CountsInSummary
    <3> QED
      BY <3>2, <3>3, <3>4, <3>5, <3>6
  <2>4. /\ IsTable(ra) /\ IsTable(rb) /\ ids \subseteq Stream /\ Ids(AnalysedAvb) \subseteq Named(ra)
        /\ \A id \in Stream : /\ First(ra, id).value \in {None, analysis.bound[id]}
                              /\ First(rb, id).value \in {None, Worst(simulation, id)}
    BY <2>1, RowsOfResults
  <2>5. PICK most \in Nat : \A v \in Value : v <= most /\ v \in Nat
    BY ValueAssumption
  <2>6. ASSUME NEW id \in ids, NEW e, e = Entry(ra, rb, id)
        PROVE  /\ e \in matched <=> e.analysis # None /\ e.simulation # None
               /\ e \in matched => /\ e.margin \in Int /\ -most <= e.margin
                                   /\ simulation.responses[id] # {}
                                   /\ Bounded(id) <=> "simulation_exceeded_analysis" \notin e.flags
               /\ e \in exceeded <=> e \in matched /\ e.margin < 0
    <3>1. e \in entries
      BY <2>6
    <3>2. e \in matched <=> e.analysis # None /\ e.simulation # None
      BY <3>1 DEF Matched
    <3>3. /\ e.analysis \in {None, analysis.bound[id]} /\ e.simulation \in {None, Worst(simulation, id)}
          /\ e.margin = Margin(e.analysis, e.simulation)
          /\ "simulation_exceeded_analysis" \in e.flags <=> Exceeds(e.analysis, e.simulation)
      BY <2>4, <2>6, EntryOfStream
    <3>4. /\ Exceeds(analysis.bound[id], Worst(simulation, id)) <=> ~Bounded(id)
          /\ analysis.bound[id] \in Nat
          /\ Worst(simulation, id) # None <=> simulation.responses[id] # {}
          /\ Worst(simulation, id) # None => Worst(simulation, id) \in Value
      BY <2>1, <2>4, ExceedsIsUnbounded
    <3>5. e \in exceeded <=> Exceeds(e.analysis, e.simulation)
      BY <3>1, <3>3 DEF Exceeding
    <3>6. CASE e.analysis = None \/ e.simulation = None
      BY <3>2, <3>5, <3>6 DEF Exceeds
    <3>7. CASE e.analysis # None /\ e.simulation # None
      <4>1. e.analysis = analysis.bound[id] /\ e.simulation = Worst(simulation, id)
        BY <3>3, <3>7
      <4>2. e.analysis \in Nat /\ e.simulation \in Nat /\ e.simulation <= most
        BY <2>5, <3>4, <3>7, <4>1
      <4>3. e.margin = e.analysis - e.simulation
        BY <3>3, <3>7 DEF Margin
      <4>4. e.margin \in Int /\ -most <= e.margin
        BY <4>2, <4>3
      <4>5. Exceeds(e.analysis, e.simulation) <=> e.margin < 0
        BY <3>7, <4>2, <4>3 DEF Exceeds
      <4>6. simulation.responses[id] # {} /\ (Bounded(id) <=> ~Exceeds(e.analysis, e.simulation))
        BY <3>4, <3>7, <4>1
      <4> QED
        BY <3>2, <3>3, <3>5, <3>7, <4>4, <4>5, <4>6
    <3> QED
      BY <3>6, <3>7
  <2>7. IsFiniteSet(entries)
    <3> PICK f : f = [id \in ids |-> Entry(ra, rb, id)]
      OBVIOUS
    <3>1. IsFiniteSet(ids)
      <4>1. IsFiniteSet(Named(ra)) /\ IsFiniteSet(Named(rb))
        BY <2>4, NamesAreFinite
      <4> QED
        BY <4>1, FS_Union
    <3>2. DOMAIN f = ids /\ entries = {f[id] : id \in ids}
      OBVIOUS
    <3> QED
      BY <3>1, <3>2, FiniteImage
  <2>8. ASSUME told.engine_status = "ok", told.matched_stream_count = told.stream_count,
               NEW id \in Ids(AnalysedAvb)
        PROVE  simulation.responses[id] # {} /\ Bounded(id)
    <3>1. matched \in SUBSET entries
      BY DEF Matched
    <3>2. Cardinality(entries) = Cardinality(matched)
      BY <2>3, <2>8
    <3>3. matched = entries
      BY <2>7, <3>1, <3>2, FS_Subset
    <3>4. id \in ids
      BY <2>4
    <3> PICK e : e = Entry(ra, rb, id)
      OBVIOUS
    <3>5. e \in matched
      BY <3>3, <3>4
    <3>6. EngineStatus(entries, Diagnostics(ra, rb, entries)) = "ok"
      BY <2>2, <2>8, StatusInSummary
    <3>7. Flags(ra, rb, id) \subseteq {"expected_differs_from_analysis"}
      BY <3>4, <3>6, VerdictIsFlags
    <3>8. "simulation_exceeded_analysis" \notin e.flags
      BY <3>7 DEF Entry
    <3> QED
      BY <2>6, <3>4, <3>5, <3>8
  <2>9. told.max_simulation_over_analysis > 0 <=> negative # {}
    <3>1. CASE negative = {}
      <4>1. told.max_simulation_over_analysis = 0
        BY <2>3, <3>1
      <4>2. ~(told.max_simulation_over_analysis > 0)
        BY <4>1
      <4> QED
        BY <3>1, <4>2, Zenon
    <3>2. CASE negative # {}
      <4>1. \A m \in negative : m \in Int /\ -most <= m /\ m < 0
        <5> TAKE m \in negative
        <5>1. PICK e \in matched : m = e.margin /\ m < 0
          BY DEF Overruns
        <5>2. PICK id \in ids : e = Entry(ra, rb, id)
          BY DEF Matched
        <5> QED
          BY <2>6, <5>1, <5>2
      <4>2. negative \subseteq Int /\ -most \in Int
        BY <4>1
      <4>3. Min(negative) \in negative
        BY <3>2, <4>1, <4>2, LeastInteger
      <4>4. Min(negative) \in Int /\ Min(negative) < 0
        BY <4>1, <4>3
      <4>5. told.max_simulation_over_analysis = -Min(negative)
        BY <2>3, <3>2
      <4>6. told.max_simulation_over_analysis > 0
        BY <4>4, <4>5
      <4> QED
        BY <3>2, <4>6, Zenon
    <3> QED
      BY <3>1, <3>2
  <2>10. told.simulation_exceeded_analysis_count > 0 <=> exceeded # {}
    <3>1. exceeded \subseteq entries
      BY DEF Exceeding
    <3>2. IsFiniteSet(exceeded)
      BY <2>7, <3>1, FS_Subset
    <3>3. Cardinality(exceeded) \in Nat /\ (Cardinality(exceeded) = 0 <=> exceeded = {})
      BY <3>2, FS_CardinalityType, FS_EmptySet
    <3>4. told.simulation_exceeded_analysis_count \in Nat
      BY <2>3, <3>3
    <3>5. told.simulation_exceeded_analysis_count = 0 <=> exceeded = {}
      BY <2>3, <3>3
    <3>6. told.simulation_exceeded_analysis_count > 0 <=> told.simulation_exceeded_analysis_count # 0
      BY <3>4
    <3> QED
      BY <3>5, <3>6, Zenon
  <2>11. negative # {} <=> exceeded # {}
    <3>1. ASSUME NEW m \in negative
          PROVE  exceeded # {}
      <4>1. PICK e \in matched : m = e.margin /\ m < 0
        BY DEF Overruns
      <4>2. PICK id \in ids : e = Entry(ra, rb, id)
        BY DEF Matched
      <4> QED
        BY <2>6, <4>1, <4>2
    <3>2. ASSUME NEW e \in exceeded
          PROVE  negative # {}
      <4>1. PICK id \in ids : e = Entry(ra, rb, id)
        BY DEF Exceeding
      <4>2. e \in matched /\ e.margin < 0
        BY <2>6, <4>1
      <4> QED
        BY <4>2 DEF Overruns
    <3> QED
      BY <3>1, <3>2
  <2> QED
    BY <2>8, <2>9, <2>10, <2>11
<1> QED
  BY <1>1, ResultsAreCompared, PTL
=============================================================================
