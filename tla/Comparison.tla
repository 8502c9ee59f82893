------------------------------ MODULE Comparison ------------------------------
(***************************************************************************)
(* The comparison of an analysis result with a simulation result.  The two *)
(* stages are commands of their own and the user may edit the case between *)
(* them, so the comparison aligns two files that need not be about the     *)
(* same case.  A result is kept as what its run was about; the operators   *)
(* below build the rows the run writes from it.                            *)
(***************************************************************************)
EXTENDS Integers, FiniteSetsExt, SequencesExt

CONSTANTS
  Stream,   \* the stream ids
  Cases,    \* the cases that may lie in the case directory
  Value,    \* the response times and bounds that occur
  Expected, \* what the reference file may say of the bounds
  None

Shaped  == {"class_a", "class_b"}
Classes == Shaped \cup {"best_effort"}

(* Cases are typed, a response time is a number that no run exceeds, and   *)
(* None is none of these.                                                  *)
ASSUME CasesAssumption ==
    \A c \in Cases :
      /\ c.streams \in Seq(Range(c.streams))
      /\ \A s \in Range(c.streams) : s.id \in Stream /\ s.class \in Classes
      /\ c.hops \in [Stream -> Nat]
ASSUME ValueAssumption == Value \subseteq Nat /\ \E most \in Value : \A v \in Value : v <= most
ASSUME NoneAssumption == None \notin Nat \cup Stream \cup Classes

VARIABLES
  case,        \* the case directory: its streams in order, the hops of each id
  analysis,    \* the analysis result file: [case, failed, tabled, bound, expected]
  simulation,  \* the simulation result file: [case, tabled, responses]
  comparison   \* what the comparison engine returned

vars == <<case, analysis, simulation, comparison>>

-----------------------------------------------------------------------------
(* The rows of the results.  A result without tables, as older files are,  *)
(* is read from its stream results, which know neither class nor path.     *)
Bare(id, value) ==
    [stream |-> id, class |-> None, route |-> None, hops |-> None, value |-> value,
     expected |-> None]

IsShaped(s) == s.class \in Shaped

(* The rows of the streams that Test accepts, each at its stream's place.  *)
RowsOf(streams, Test(_), Row(_)) ==
    [i \in {k \in DOMAIN streams : Test(streams[k])} |-> Row(streams[i])]

(* A link context per shaped stream and link, gathered under the stream's  *)
(* id.                                                                     *)
Copies(c, id) ==
    Quantify(DOMAIN c.streams, LAMBDA i : c.streams[i].id = id /\ IsShaped(c.streams[i]))

AnalysisRow(a, s) ==
    [stream |-> s.id, class |-> s.class,
     route |-> IF s.route = None THEN s.id ELSE s.route,
     hops |-> Copies(a.case, s.id) * a.case.hops[s.id],
     value |-> a.bound[s.id], expected |-> a.expected[s.id]]

AnalysisRows(a) ==
    IF a.failed THEN <<>>
    ELSE IF a.tabled THEN RowsOf(a.case.streams, IsShaped, LAMBDA s : AnalysisRow(a, s))
    ELSE RowsOf(a.case.streams, LAMBDA s : TRUE,
                LAMBDA s : Bare(s.id, IF IsShaped(s) THEN a.bound[s.id] ELSE None))

(* Mutant: the maximum of no response time is taken for 0.                 *)
WorstByDefault(b, id) == IF b.responses[id] = {} THEN 0 ELSE Max(b.responses[id])

(* A stream none of whose frames arrived has no maximum.                   *)
Worst(b, id) == IF b.responses[id] = {} THEN None ELSE Max(b.responses[id])

SimulationRow(b, s) ==
    [stream |-> s.id, class |-> s.class, route |-> s.route, hops |-> b.case.hops[s.id],
     value |-> Worst(b, s.id), expected |-> None]

SimulationRows(b) ==
    IF b.tabled THEN RowsOf(b.case.streams, LAMBDA s : s.class # "best_effort",
                            LAMBDA s : SimulationRow(b, s))
    ELSE RowsOf(b.case.streams, LAMBDA s : TRUE, LAMBDA s : Bare(s.id, Worst(b, s.id)))

-----------------------------------------------------------------------------
(* Alignment by stream id: the first row of an id counts.                  *)
Named(rows) == {row.stream : row \in Range(rows)}

Places(rows, id) == {i \in DOMAIN rows : rows[i].stream = id}

Repeated(rows) == {id \in Named(rows) : Cardinality(Places(rows, id)) > 1}

First(rows, id) == IF id \in Named(rows) THEN rows[Min(Places(rows, id))] ELSE Bare(id, None)

Disagree(x, y) == x # None /\ y # None /\ x # y

Margin(x, y) == IF x = None \/ y = None THEN None ELSE x - y

Distance(x, y) == IF x = None \/ y = None THEN None ELSE IF x < y THEN y - x ELSE x - y

(* Mutant: a response that meets its bound counts as beyond it.            *)
ExceedsAtBound(bound, worst) == bound # None /\ worst # None /\ worst >= bound

Exceeds(bound, worst) == bound # None /\ worst # None /\ worst > bound

-----------------------------------------------------------------------------
(* The comparison of one stream and the flags it raises.                   *)
Flags(ra, rb, id) ==
    LET a == First(ra, id)
        b == First(rb, id)
        raised == [missing_analysis   |-> id \notin Named(ra),
                   missing_simulation |-> id \notin Named(rb),
                   duplicate_stream_id |-> id \in Repeated(ra) \cup Repeated(rb),
                   class_mismatch |-> Disagree(a.class, b.class),
                   path_mismatch  |-> Disagree(a.route, b.route) \/ Disagree(a.hops, b.hops),
                   simulation_exceeded_analysis  |-> Exceeds(a.value, b.value),
                   expected_differs_from_analysis |-> Disagree(a.expected, a.value)]
    IN {flag \in DOMAIN raised : raised[flag]}

Entry(ra, rb, id) ==
    LET a == First(ra, id)
        b == First(rb, id)
        flags == Flags(ra, rb, id)
    IN [stream |-> id, analysis |-> a.value, simulation |-> b.value, expected |-> a.expected,
        margin |-> Margin(a.value, b.value), difference |-> Distance(a.value, b.value),
        flags |-> flags,
        status |-> IF flags \subseteq {"expected_differs_from_analysis"} THEN "ok" ELSE "error"]

(* Everything the flags say, and one line for each side's repeated ids.    *)
Severity(code) ==
    IF code \in {"simulation_exceeded_analysis", "expected_differs_from_analysis"}
    THEN "warning" ELSE "error"

Diagnostics(ra, rb, entries) ==
    {<<"duplicate_analysis", id>> : id \in Repeated(ra)}
      \cup {<<"duplicate_simulation", id>> : id \in Repeated(rb)}
      \cup UNION {{<<flag, e.stream>> : flag \in e.flags \ {"duplicate_stream_id"}} : e \in entries}

EngineStatus(entries, diagnostics) ==
    IF \/ \E e \in entries : e.status = "error"
       \/ \E d \in diagnostics : Severity(d[1]) = "error"
    THEN "issues_detected" ELSE "ok"

Matched(entries) == {e \in entries : e.analysis # None /\ e.simulation # None}

Summary(entries, diagnostics) ==
    LET Flagged(flag)  == Quantify(entries, LAMBDA e : flag \in e.flags)
        Reported(code) == Quantify(diagnostics, LAMBDA d : d[1] = code)
        matched  == Matched(entries)
        negative == {m \in {e.margin : e \in matched} : m < 0}
    IN [engine_status |-> EngineStatus(entries, diagnostics),
        stream_count  |-> Cardinality(entries),
        matched_stream_count     |-> Cardinality(matched),
        missing_analysis_count   |-> Flagged("missing_analysis"),
        missing_simulation_count |-> Flagged("missing_simulation"),
        duplicate_analysis_count   |-> Reported("duplicate_analysis"),
        duplicate_simulation_count |-> Reported("duplicate_simulation"),
        simulation_exceeded_analysis_count |-> Flagged("simulation_exceeded_analysis"),
        reference_row_count |-> Quantify(entries, LAMBDA e : e.expected # None),
        max_absolute_difference |->
          IF matched = {} THEN None ELSE Max({0} \cup ({e.difference : e \in matched} \ {None})),
        max_simulation_over_analysis |-> IF negative = {} THEN 0 ELSE -Min(negative)]

Compared(a, b) ==
    LET ra == AnalysisRows(a)
        rb == SimulationRows(b)
        entries == {Entry(ra, rb, id) : id \in Named(ra) \cup Named(rb)}
        diagnostics == Diagnostics(ra, rb, entries)
    IN [entries |-> entries, diagnostics |-> diagnostics,
        summary |-> Summary(entries, diagnostics)]

-----------------------------------------------------------------------------
Init ==
    /\ case \in Cases
    /\ analysis = None /\ simulation = None /\ comparison = None

(* The user changes the case between the two commands.                     *)
Edit ==
    /\ (analysis = None) # (simulation = None)
    /\ case' \in Cases \ {case}
    /\ UNCHANGED <<analysis, simulation, comparison>>

(* A lenient analysis writes an empty result when a precondition fails.    *)
Analyze ==
    /\ analysis = None
    /\ \E failed, tabled \in BOOLEAN, bound \in [Stream -> Value], e \in Expected :
         analysis' = [case |-> case, failed |-> failed, tabled |-> tabled, bound |-> bound,
                      expected |-> [id \in Stream |-> e]]
    /\ UNCHANGED <<case, simulation, comparison>>

Simulate ==
    /\ simulation = None
    /\ \E tabled \in BOOLEAN, responses \in [Stream -> SUBSET Value] :
         simulation' = [case |-> case, tabled |-> tabled, responses |-> responses]
    /\ UNCHANGED <<case, analysis, comparison>>

Compare ==
    /\ analysis # None /\ simulation # None /\ comparison = None
    /\ comparison' = Compared(analysis, simulation)
    /\ UNCHANGED <<case, analysis, simulation>>

Next == Edit \/ Analyze \/ Simulate \/ Compare

Spec == Init /\ [][Next]_vars
=============================================================================
