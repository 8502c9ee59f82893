---------------------------- MODULE MCRunPipeline ----------------------------
(***************************************************************************)
(* Plans of three jobs for RunPipeline: directories reused one after the   *)
(* other, and commands that overlap.                                       *)
(***************************************************************************)
EXTENDS RunPipelineProperties, TLC

CONSTANTS j1, j2, j3, d1, d2, d3

Jobs == {j1, j2, j3}
Directories == {d1, d2, d3}
CaseIds == {"case-good", "case-bad"}

Everything == [json |-> TRUE, csv |-> TRUE, metadata |-> TRUE, trace |-> FALSE,
               latest |-> TRUE]
WithTrace == [Everything EXCEPT !.trace = TRUE, !.csv = FALSE]
NoJson == [Everything EXCEPT !.json = FALSE]
NoLink == [Everything EXCEPT !.latest = FALSE, !.csv = FALSE]
NoMetadata == [Everything EXCEPT !.metadata = FALSE]

Run(kind, dir, case, output, after) ==
  [kind |-> kind, dir |-> dir, case |-> case, strict |-> TRUE, output |-> output,
   inputs |-> [simulation |-> None, analysis |-> None], after |-> after]

Comparing(sim, ana, dir, output, after) ==
  [Run("compare", dir, "case-good", output, after) EXCEPT
     !.inputs = [simulation |-> sim, analysis |-> ana]]

Good == [ready |-> Stage, raises |-> {}, expected |-> TRUE]
Plain == [Good EXCEPT !.expected = FALSE]
Unready == [Plain EXCEPT !.ready = {"baseline", "simulation"}]
Raising == [Plain EXCEPT !.raises = {"simulation"}]

Plan(first, second, third, bad, crashes) ==
  [jobs |-> (j1 :> first) @@ (j2 :> second) @@ (j3 :> third),
   cases |-> ("case-good" :> Good) @@ ("case-bad" :> bad), crashes |-> crashes]

(* One directory used twice, then its results compared from the link or    *)
(* from the directory; any one of the jobs may be killed.                  *)
Reuse ==
  {Plan(Run(k[1], d1, "case-good", k[2], {}),
        Run(k[3], d1, "case-bad", k[4], {j1}),
        Comparing(from, from, d2, Everything, {j1, j2}), Plain, 1) :
     k \in {<<"run-case", Everything, "run-case", Everything>>,
            <<"run-case", Everything, "run-case", NoJson>>,
            <<"simulate", NoLink, "run-case", Everything>>,
            <<"analyze", NoMetadata, "simulate", WithTrace>>,
            <<"simulate", WithTrace, "analyze", NoLink>>},
     from \in {d1, None}}

(* The second case is not ready for analysis, or makes the simulation      *)
(* raise.                                                                  *)
BadCases ==
  {Plan(Run("run-case", d1, "case-good", NoLink, {}),
        [Run(k, d1, "case-bad", Everything, {j1}) EXCEPT !.strict = b],
        Comparing(d1, d1, d1, WithTrace, {j2}), bad, 0) :
     k \in {"run-case", "analyze", "simulate"}, b \in BOOLEAN,
     bad \in {Unready, Raising}}

(* Commands that overlap: two in one directory; a run and a comparison of  *)
(* what the link leads to; two runs that race for the link.                *)
Overlap ==
  {Plan(Run("run-case", d1, "case-good", Everything, {}),
        Run("simulate", d1, "case-good", WithTrace, {}),
        Comparing(d1, d1, d3, NoLink, {j1, j2}), Good, 0),
   Plan(Run("run-case", d1, "case-good", Everything, {}),
        Run("run-case", d2, "case-good", Everything, {j1}),
        Comparing(None, None, d3, NoLink, {j1}), Good, 0),
   Plan(Run("analyze", d1, "case-good", Everything, {}),
        Run("analyze", d2, "case-good", WithTrace, {j1}),
        Run("run-case", d3, "case-good", Everything, {j1}), Good, 0)}

AllPlans == Reuse \cup BadCases \cup Overlap

(* run-case on the default outputs, and again without JSON.                *)
RunTwice ==
  {Plan(Run("run-case", d1, "case-good", Everything, {}),
        Run("run-case", d1, "case-good", NoJson, {j1}),
        Run("analyze", d2, "case-good", NoLink, {j1, j2}), Good, 0)}
=============================================================================
