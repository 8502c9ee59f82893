-------------------------- MODULE RunPipelineProofs --------------------------
(***************************************************************************)
(* Proofs about the commands that share outputs/runs.  A job is what is    *)
(* left of its script; what the proofs know of a script is the order of    *)
(* its steps, the steps that follow one another at once, and which steps   *)
(* it has at all.                                                          *)
(***************************************************************************)
EXTENDS RunPipelineProperties, FiniteSetTheorems, SequenceTheorems, TLAPS

-----------------------------------------------------------------------------
(* Scripts                                                                 *)

Step == File \cup Command
LayoutStep == {"directories", "see_latest", "unlink", "relink"}
BundleFile == {"run_manifest", "run_metadata"}
Compared == {"comparison_result", "comparison_csv", "expected_wcrt_comparison"}
Side == {"simulation", "analysis"}
Loading(side) == IF side = "simulation" THEN "load_simulation" ELSE "load_analysis"

StepsIn(s) == {s[i] : i \in 1 .. Len(s)}

(* The place of a step in the commands; a case is exported second.         *)
Rank(x) ==
  CASE x = "prepare" -> 1
    [] x = "run_analysis" -> 3
    [] x = "run_simulation" -> 4
    [] x = "analysis_result" -> 5
    [] x = "analysis_csv" -> 6
    [] x = "simulation_result" -> 7
    [] x = "simulation_csv" -> 8
    [] x = "load_simulation" -> 9
    [] x = "load_analysis" -> 10
    [] x = "comparison_result" -> 11
    [] x = "comparison_csv" -> 12
    [] x = "expected_wcrt_comparison" -> 13
    [] x \in {"analysis_manifest", "simulation_manifest", "comparison_manifest"} -> 14
    [] x \in {"run_manifest", "run_metadata", "artifact_index"} -> 15
    [] x = "trace_csv" -> 16
    [] OTHER -> 2

(* Only the layout of the run directory and the manifest are done twice.   *)
MayFollow(x, y) ==
  \/ x \in LayoutStep \/ y \in LayoutStep
  \/ Rank(x) < Rank(y)
  \/ Rank(x) = 15 /\ Rank(y) = 15 /\ ~(x = "artifact_index" /\ y = "artifact_index")

InOrder(s) == \A i, k \in 1 .. Len(s) : i < k => MayFollow(s[i], s[k])

(* The first of a pair is followed by the second at once. *)
Pair == {<<"see_latest", "unlink">>, <<"unlink", "relink">>,
         <<"load_simulation", "load_analysis">>, <<"run_manifest", "run_metadata">>,
         <<"artifact_index", "run_manifest">>}

(* The second of these comes from nothing but the first. *)
Origin == {<<"directories", "see_latest">>, <<"see_latest", "unlink">>,
           <<"unlink", "relink">>, <<"load_simulation", "load_analysis">>,
           <<"run_manifest", "run_metadata">>, <<"run_metadata", "artifact_index">>}

Joined(s) ==
  /\ \A p \in Pair : \A i \in 1 .. Len(s) :
       s[i] = p[1] => i + 1 \in 1 .. Len(s) /\ s[i + 1] = p[2]
  /\ \A p \in Origin : \A i \in 2 .. Len(s) : s[i] = p[2] => s[i - 1] = p[1]

Script(s) == s \in Seq(Step) /\ InOrder(s) /\ Joined(s)

(* The steps that job j has taken.                                         *)
Passed(j) == StepsIn(Steps(j)) \ StepsIn(todo[j])

-----------------------------------------------------------------------------
(* The invariant                                                           *)

TypeInv ==
  /\ plan \in Plans
  /\ status \in [Job -> {"idle", "running", "ok", "failed", "crashed"}]
  /\ todo \in [Job -> Seq(Step)]
  /\ open \subseteq Job
  /\ loaded \in [Job -> [simulation : Job \cup {None}, analysis : Job \cup {None}]]
  /\ recorded \in [Job -> SUBSET Artifact]
  /\ files \in [RunId -> [File -> Content \cup {None}]]
  /\ made \subseteq RunId
  /\ latest \in RunId \cup {None}

(* What is left of a job is the end of its script, and nothing once it is  *)
(* done; an opened file is the one the job is about to complete; the user  *)
(* waits for the jobs that come before.                                    *)
ScriptInv ==
  \A j \in Job :
    /\ Script(todo[j])
    /\ StepsIn(todo[j]) \subseteq StepsIn(Steps(j))
    /\ status[j] \in {"idle", "ok"} => todo[j] = <<>>
    /\ status[j] = "idle" => /\ recorded[j] = {}
                             /\ loaded[j] = [simulation |-> None, analysis |-> None]
    /\ status[j] # "idle" => \A k \in The(j).after : Ended(k)
    /\ j \in open => /\ status[j] = "running" /\ todo[j] # <<>> /\ Head(todo[j]) \in File
                     /\ Head(todo[j]) = "expected_wcrt_comparison" => HasExpected(j)

(* A result that was to be read is read before anything is compared.       *)
LoadInv ==
  \A j \in Job : \A side \in Side :
    status[j] # "idle" =>
      (Loading(side) \in Passed(j) <=> loaded[j][side] \in Job)

(* A file was written by a job of its directory that has got that far, and *)
(* names what that job had collected.                                      *)
Sourced(d, f, j) ==
  LET c == files[d][f]
  IN  /\ d = Dir(j) /\ status[j] # "idle"
      /\ f \in StepsIn(Steps(j))
      /\ c.names \subseteq recorded[j]
      /\ ~c.whole => status[j] = "crashed" \/ (j \in open /\ Head(todo[j]) = f)
      /\ f \in StepsIn(todo[j]) /\ f \notin BundleFile /\ status[j] # "crashed" =>
           j \in open /\ Head(todo[j]) = f
      /\ c.whole /\ f \in Compared => c.of = {loaded[j].simulation, loaded[j].analysis}
      /\ c.whole /\ f \notin BundleFile \cup {"trace_csv"} => <<d, f>> \in recorded[j]

FileInv ==
  \A d \in RunId, f \in File, j \in Job :
    files[d][f] # None /\ files[d][f].by = j => Sourced(d, f, j)

(* What a job has collected is there, and it has completed it.             *)
RecordInv ==
  \A j \in Job :
    /\ \A a \in recorded[j] : a[1] # None =>
         LET named == files[a[1]][a[2]]
         IN  named # None /\ (named.whole \/ named.by # j \/ a[2] \in BundleFile)
    /\ \A f \in StepsIn(todo[j]) \cap File :
         f \notin BundleFile => <<Dir(j), f>> \notin recorded[j]
    /\ status[j] = "running" /\ todo[j] # <<>> /\ Head(todo[j]) = "run_metadata" =>
         files[Dir(j)]["run_manifest"] # None

(* The link leads to a directory that was made; a job that nobody          *)
(* interferes with finds no link where it puts its own.                    *)
Linking == {"see_latest", "unlink", "relink"}
AboutTo(j, step) == todo[j] # <<>> /\ Head(todo[j]) = step

Quiet(j) == \A k \in Job \ {j} : k \in The(j).after \/ status[k] = "idle"

LinkInv ==
  /\ latest \in made \cup {None}
  /\ \A j \in Job : status[j] = "running" /\ todo[j] # <<>> /\ Head(todo[j]) \in Linking =>
       Dir(j) \in made
  /\ \A j \in Job : status[j] \in {"running", "ok"} /\ The(j).output.latest /\ Quiet(j) =>
       /\ "relink" \notin StepsIn(todo[j]) => latest = Dir(j)
       /\ AboutTo(j, "relink") => latest = None
  /\ \/ latest # None
     \/ \E k \in Job : status[k] \in {"running", "crashed"} /\ AboutTo(k, "relink")
     \/ \A j \in Job : status[j] \in {"running", "ok"} /\ The(j).output.latest =>
          "relink" \in StepsIn(todo[j])

(* Which results a job has read.                                           *)
OwnInv ==
  \A j \in Job : \A side \in Side :
    status[j] # "idle" /\ The(j).kind = "run-case" /\ The(j).output.json /\ Undisturbed(j) =>
      /\ loaded[j][side] \in {j, None}
      /\ status[j] = "running" /\ ResultOf(side) \in Passed(j) =>
           LET c == files[Dir(j)][ResultOf(side)] IN c # None /\ c.by = j

OneInput(j) ==
  /\ The(j).kind = "compare"
  /\ The(j).inputs.simulation = The(j).inputs.analysis
  /\ \A k \in Job \ {j} : Apart(j, k)

InputInv ==
  \A j \in Job : OneInput(j) /\ loaded[j].simulation # None =>
    /\ loaded[j].analysis # None => Dir(loaded[j].simulation) = Dir(loaded[j].analysis)
    /\ loaded[j].analysis = None /\ status[j] = "running" =>
         /\ AboutTo(j, "load_analysis")
         /\ Dir(loaded[j].simulation) = Resolved(j, "analysis")

(* The metadata of a job that has its directory to itself.                 *)
Described(j) ==
  /\ status[j] \in {"running", "ok"}
  /\ The(j).output.json /\ The(j).output.metadata
  /\ LastInItsDirectory(j)

ByItself(j, f) == files[Dir(j)][f] # None /\ files[Dir(j)][f].by = j

Inputs(j) == {<<InputDir(j, side), ResultOf(side)>> : side \in Side}

Says(j, names) == [by |-> j, whole |-> TRUE, names |-> names, of |-> {j}]
Told(j) == Says(j, recorded[j])

(* An artifact that was collected is an input or a file of the job's own.  *)
Accounted(j, a) ==
  \/ a \in Inputs(j)
  \/ /\ a[1] = Dir(j) /\ a[2] # "trace_csv"
     /\ a[2] = "expected_wcrt_comparison" \/ ByItself(j, a[2])

(* Once the index is written nothing more is collected, and each manifest  *)
(* that is written again says what was.                                    *)
Indexed(j) ==
  /\ StepsIn(todo[j]) \subseteq LayoutStep \cup BundleFile \cup {"trace_csv"}
  /\ Own(j, BundleFile) \subseteq recorded[j]
  /\ <<Dir(j), "artifact_index">> \in recorded[j]
  /\ files[Dir(j)]["artifact_index"] = Says(j, recorded[j] \ Own(j, {"artifact_index"}))
  /\ \A f \in BundleFile : f \notin StepsIn(todo[j]) => files[Dir(j)][f] = Told(j)

MetadataInv ==
  \A j \in Job : Described(j) =>
    /\ \A a \in recorded[j] : Accounted(j, a)
    /\ AboutTo(j, "run_metadata") => ByItself(j, "run_manifest")
    /\ AboutTo(j, "artifact_index") => Own(j, BundleFile) \subseteq recorded[j]
    /\ "artifact_index" \in Passed(j) => Indexed(j)

-----------------------------------------------------------------------------
(* Lemmas about scripts                                                    *)

(* The first step and the rest of a sequence of steps. *)
LEMMA TailFacts ==
  ASSUME NEW s \in Seq(Step), s # <<>>
  PROVE  /\ Len(s) \in Nat \ {0} /\ Head(s) = s[1] /\ Head(s) \in Step
         /\ Tail(s) \in Seq(Step) /\ Len(Tail(s)) = Len(s) - 1
         /\ \A i \in 1 .. Len(Tail(s)) : Tail(s)[i] = s[i + 1] /\ i + 1 \in 1 .. Len(s)
OBVIOUS

(* What is left of a script once its first step is taken is a script. *)
LEMMA ScriptTail ==
  ASSUME NEW s, Script(s), s # <<>>
  PROVE  /\ Script(Tail(s))
         /\ StepsIn(s) = {Head(s)} \cup StepsIn(Tail(s))
         /\ \A y \in StepsIn(Tail(s)) : MayFollow(Head(s), y)
         /\ \A p \in Pair : Head(s) = p[1] => Tail(s) # <<>> /\ Head(Tail(s)) = p[2]
         /\ \A p \in Origin : Tail(s) # <<>> /\ Head(Tail(s)) = p[2] => Head(s) = p[1]
<1> DEFINE t == Tail(s)
<1>1. s \in Seq(Step) /\ InOrder(s) /\ Joined(s)
  BY DEF Script
<1>2. /\ Len(s) \in Nat \ {0} /\ Head(s) = s[1]
      /\ t \in Seq(Step) /\ Len(t) = Len(s) - 1
      /\ \A i \in 1 .. Len(t) : t[i] = s[i + 1] /\ i + 1 \in 1 .. Len(s)
  BY <1>1, TailFacts
<1>3. t # <<>> => Head(t) = t[1] /\ Len(t) \in Nat \ {0}
  BY <1>2, TailFacts
<1> HIDE DEF t
<1>4. Len(t) > 0 => t # <<>>
  BY <1>2
<1>5. InOrder(t)
  BY <1>1, <1>2 DEF InOrder
<1>6. StepsIn(s) = {Head(s)} \cup StepsIn(t)
  <2>1. ASSUME NEW i \in 1 .. Len(s)
        PROVE  s[i] \in {Head(s)} \cup StepsIn(t)
    <3>1. CASE i = 1
      BY <1>2, <3>1
    <3>2. CASE i # 1
      <4>1. i - 1 \in 1 .. Len(t) /\ t[i - 1] = s[(i - 1) + 1] /\ (i - 1) + 1 = i
        BY <1>2, <3>2
      <4> QED
        BY <4>1 DEF StepsIn
    <3> QED
      BY <3>1, <3>2
  <2>2. ASSUME NEW i \in 1 .. Len(t)
        PROVE  t[i] \in StepsIn(s)
    BY <1>2 DEF StepsIn
  <2>3. Head(s) \in StepsIn(s)
    BY <1>2 DEF StepsIn
  <2> QED
    BY <2>1, <2>2, <2>3 DEF StepsIn
<1>7. \A y \in StepsIn(t) : MayFollow(Head(s), y)
  <2>1. ASSUME NEW i \in 1 .. Len(t)
        PROVE  MayFollow(Head(s), t[i])
    <3>1. 1 \in 1 .. Len(s) /\ i + 1 \in 1 .. Len(s) /\ 1 < i + 1 /\ t[i] = s[i + 1]
      BY <1>2
    <3> QED
      BY <1>1, <1>2, <3>1 DEF InOrder
  <2> QED
    BY <2>1 DEF StepsIn
<1>8. Joined(t)
  <2>1. ASSUME NEW p \in Pair, NEW i \in 1 .. Len(t), t[i] = p[1]
        PROVE  i + 1 \in 1 .. Len(t) /\ t[i + 1] = p[2]
    <3>1. s[i + 1] = p[1] /\ i + 1 \in 1 .. Len(s)
      BY <1>2, <2>1
    <3>2. (i + 1) + 1 \in 1 .. Len(s) /\ s[(i + 1) + 1] = p[2]
      BY <1>1, <3>1 DEF Joined
    <3> QED
      BY <1>2, <3>2
  <2>2. ASSUME NEW p \in Origin, NEW i \in 2 .. Len(t), t[i] = p[2]
        PROVE  t[i - 1] = p[1]
    <3>1. s[i + 1] = p[2] /\ i + 1 \in 2 .. Len(s)
      BY <1>2, <2>2
    <3>2. s[(i + 1) - 1] = p[1]
      BY <1>1, <3>1 DEF Joined
    <3> QED
      BY <1>2, <3>2
  <2> QED
    BY <2>1, <2>2 DEF Joined
<1>9. \A p \in Pair : Head(s) = p[1] => t # <<>> /\ Head(t) = p[2]
  <2>1. ASSUME NEW p \in Pair, Head(s) = p[1]
        PROVE  t # <<>> /\ Head(t) = p[2]
    <3>1. 1 + 1 \in 1 .. Len(s) /\ s[1 + 1] = p[2]
      BY <1>1, <1>2, <2>1 DEF Joined
    <3> QED
      BY <1>2, <1>3, <1>4, <3>1
  <2> QED
    BY <2>1
<1>10. \A p \in Origin : t # <<>> /\ Head(t) = p[2] => Head(s) = p[1]
  <2>1. ASSUME NEW p \in Origin, t # <<>>, Head(t) = p[2]
        PROVE  Head(s) = p[1]
    <3>1. 1 \in 1 .. Len(t) /\ 2 \in 2 .. Len(s) /\ s[2] = p[2]
      BY <1>2, <1>3, <2>1
    <3>2. s[2 - 1] = p[1]
      BY <1>1, <3>1 DEF Joined
    <3> QED
      BY <1>2, <3>2
  <2> QED
    BY <2>1
<1> QED
  BY <1>1, <1>2, <1>5, <1>6, <1>7, <1>8, <1>9, <1>10 DEF Script, t

(* Pieces of a script: the ranks of their steps, and how they begin. *)
Piece(s, low, high) ==
  /\ Script(s)
  /\ s # <<>> => \A p \in Origin : s[1] # p[2]
  /\ \A x \in StepsIn(s) : x \in LayoutStep \/ (low <= Rank(x) /\ Rank(x) <= high)

(* Ranks are natural numbers. *)
LEMMA RankNat ==
  ASSUME NEW x
  PROVE  Rank(x) \in Nat
BY DEF Rank

(* The steps of two sequences, one after the other. *)
LEMMA ConcatFacts ==
  ASSUME NEW a \in Seq(Step), NEW b \in Seq(Step)
  PROVE  /\ a \o b \in Seq(Step) /\ Len(a \o b) = Len(a) + Len(b)
         /\ Len(a) \in Nat /\ Len(b) \in Nat
         /\ \A i \in 1 .. Len(a) + Len(b) :
              (a \o b)[i] = IF i <= Len(a) THEN a[i] ELSE b[i - Len(a)]
         /\ StepsIn(a \o b) = StepsIn(a) \cup StepsIn(b)
<1>1. /\ a \o b \in Seq(Step) /\ Len(a \o b) = Len(a) + Len(b)
      /\ Len(a) \in Nat /\ Len(b) \in Nat
      /\ \A i \in 1 .. Len(a) + Len(b) :
           (a \o b)[i] = IF i <= Len(a) THEN a[i] ELSE b[i - Len(a)]
  OBVIOUS
<1>2. ASSUME NEW i \in 1 .. Len(a)
      PROVE  a[i] \in StepsIn(a \o b)
  <2>1. i \in 1 .. Len(a \o b) /\ (a \o b)[i] = a[i]
    BY <1>1
  <2> QED
    BY <2>1 DEF StepsIn
<1>3. ASSUME NEW i \in 1 .. Len(b)
      PROVE  b[i] \in StepsIn(a \o b)
  <2>1. i + Len(a) \in 1 .. Len(a \o b) /\ (a \o b)[i + Len(a)] = b[i]
    BY <1>1
  <2> QED
    BY <2>1 DEF StepsIn
<1>4. ASSUME NEW i \in 1 .. Len(a \o b)
      PROVE  (a \o b)[i] \in StepsIn(a) \cup StepsIn(b)
  <2>1. CASE i <= Len(a)
    <3>1. i \in 1 .. Len(a) /\ (a \o b)[i] = a[i]
      BY <1>1, <2>1
    <3> QED
      BY <3>1 DEF StepsIn
  <2>2. CASE ~(i <= Len(a))
    <3>1. i - Len(a) \in 1 .. Len(b) /\ (a \o b)[i] = b[i - Len(a)]
      BY <1>1, <2>2
    <3> QED
      BY <3>1 DEF StepsIn
  <2> QED
    BY <2>1, <2>2
<1> QED
  BY <1>1, <1>2, <1>3, <1>4 DEF StepsIn

(* A piece of lower and one of higher ranks make a piece. *)
LEMMA PieceConcat ==
  ASSUME NEW a, NEW b, NEW la \in Nat, NEW ha \in Nat, NEW lb \in Nat, NEW hb \in Nat,
         Piece(a, la, ha), Piece(b, lb, hb), la <= lb, ha < lb, ha <= hb
  PROVE  Piece(a \o b, la, hb)
<1> DEFINE s == a \o b
<1>1. /\ a \in Seq(Step) /\ InOrder(a) /\ Joined(a)
      /\ b \in Seq(Step) /\ InOrder(b) /\ Joined(b)
  BY DEF Piece, Script
<1>2. /\ s \in Seq(Step) /\ Len(s) = Len(a) + Len(b)
      /\ Len(a) \in Nat /\ Len(b) \in Nat
      /\ \A i \in 1 .. Len(s) : s[i] = IF i <= Len(a) THEN a[i] ELSE b[i - Len(a)]
      /\ StepsIn(s) = StepsIn(a) \cup StepsIn(b)
  BY <1>1, ConcatFacts
<1>3. \A x \in StepsIn(a) : x \in LayoutStep \/ (la <= Rank(x) /\ Rank(x) <= ha)
  BY DEF Piece
<1>4. \A x \in StepsIn(b) : x \in LayoutStep \/ (lb <= Rank(x) /\ Rank(x) <= hb)
  BY DEF Piece
<1>5. \A p \in Origin : (a # <<>> => a[1] # p[2]) /\ (b # <<>> => b[1] # p[2])
  BY DEF Piece
<1>6. (a # <<>> <=> Len(a) > 0) /\ (b # <<>> <=> Len(b) > 0) /\ (s # <<>> <=> Len(s) > 0)
  BY <1>1, <1>2
<1> HIDE DEF s
<1>7. InOrder(s)
  <2>1. ASSUME NEW i \in 1 .. Len(s), NEW k \in 1 .. Len(s), i < k
        PROVE  MayFollow(s[i], s[k])
    <3>1. CASE k <= Len(a)
      <4>1. i \in 1 .. Len(a) /\ k \in 1 .. Len(a) /\ s[i] = a[i] /\ s[k] = a[k]
        BY <1>2, <2>1, <3>1
      <4> QED
        BY <1>1, <2>1, <4>1 DEF InOrder
    <3>2. CASE Len(a) < i
      <4>1. /\ i - Len(a) \in 1 .. Len(b) /\ k - Len(a) \in 1 .. Len(b)
            /\ i - Len(a) < k - Len(a)
            /\ s[i] = b[i - Len(a)] /\ s[k] = b[k - Len(a)]
        BY <1>2, <2>1, <3>2
      <4> QED
        BY <1>1, <4>1 DEF InOrder
    <3>3. CASE i <= Len(a) /\ Len(a) < k
      <4>1. /\ i \in 1 .. Len(a) /\ k - Len(a) \in 1 .. Len(b)
            /\ s[i] = a[i] /\ s[k] = b[k - Len(a)]
        BY <1>2, <2>1, <3>3
      <4>2. s[i] \in StepsIn(a) /\ s[k] \in StepsIn(b)
        BY <4>1 DEF StepsIn
      <4>3. \/ s[i] \in LayoutStep \/ s[k] \in LayoutStep
            \/ Rank(s[i]) <= ha /\ lb <= Rank(s[k])
        BY <1>3, <1>4, <4>2
      <4>4. Rank(s[i]) \in Nat /\ Rank(s[k]) \in Nat
        BY RankNat
      <4>5. Rank(s[i]) <= ha /\ lb <= Rank(s[k]) => Rank(s[i]) < Rank(s[k])
        BY <4>4
      <4> QED
        BY <4>3, <4>5 DEF MayFollow
    <3> QED
      BY <1>2, <2>1, <3>1, <3>2, <3>3
  <2> QED
    BY <2>1 DEF InOrder
<1>8. Joined(s)
  <2>1. ASSUME NEW p \in Pair, NEW i \in 1 .. Len(s), s[i] = p[1]
        PROVE  i + 1 \in 1 .. Len(s) /\ s[i + 1] = p[2]
    <3>1. CASE i <= Len(a)
      <4>1. i \in 1 .. Len(a) /\ a[i] = p[1]
        BY <1>2, <2>1, <3>1
      <4>2. i + 1 \in 1 .. Len(a) /\ a[i + 1] = p[2]
        BY <1>1, <4>1 DEF Joined
      <4> QED
        BY <1>2, <4>2
    <3>2. CASE ~(i <= Len(a))
      <4>1. i - Len(a) \in 1 .. Len(b) /\ b[i - Len(a)] = p[1]
        BY <1>2, <2>1, <3>2
      <4>2. (i - Len(a)) + 1 \in 1 .. Len(b) /\ b[(i - Len(a)) + 1] = p[2]
        BY <1>1, <4>1 DEF Joined
      <4>3. i + 1 \in 1 .. Len(s) /\ ~(i + 1 <= Len(a)) /\ (i + 1) - Len(a) = (i - Len(a)) + 1
        BY <1>2, <3>2, <4>2
      <4>4. s[i + 1] = b[(i - Len(a)) + 1]
        BY <1>2, <4>3
      <4> QED
        BY <4>2, <4>3, <4>4
    <3> QED
      BY <3>1, <3>2
  <2>2. ASSUME NEW p \in Origin, NEW i \in 2 .. Len(s), s[i] = p[2]
        PROVE  s[i - 1] = p[1]
    <3>1. CASE i <= Len(a)
      <4>1. i \in 2 .. Len(a) /\ a[i] = p[2]
        BY <1>2, <2>2, <3>1
      <4>2. a[i - 1] = p[1]
        BY <1>1, <4>1 DEF Joined
      <4> QED
        BY <1>2, <3>1, <4>2
    <3>2. CASE i = Len(a) + 1
      <4>1. s[i] = b[1] /\ Len(b) > 0
        BY <1>2, <3>2
      <4> QED
        BY <1>5, <1>6, <2>2, <4>1
    <3>3. CASE i > Len(a) + 1
      <4>1. i - Len(a) \in 2 .. Len(b) /\ b[i - Len(a)] = p[2]
        BY <1>2, <2>2, <3>3
      <4>2. b[(i - Len(a)) - 1] = p[1]
        BY <1>1, <4>1 DEF Joined
      <4>3. i - 1 \in 1 .. Len(s) /\ ~(i - 1 <= Len(a)) /\ (i - 1) - Len(a) = (i - Len(a)) - 1
        BY <1>2, <3>3
      <4> QED
        BY <1>2, <4>2, <4>3
    <3> QED
      BY <1>2, <3>1, <3>2, <3>3
  <2> QED
    BY <2>1, <2>2 DEF Joined
<1>9. s # <<>> => \A p \in Origin : s[1] # p[2]
  <2>1. CASE Len(a) > 0
    BY <1>2, <1>5, <1>6, <2>1
  <2>2. CASE Len(a) = 0 /\ Len(b) > 0
    BY <1>2, <1>5, <1>6, <2>2
  <2> QED
    BY <1>2, <1>6, <2>1, <2>2
<1>10. ASSUME NEW x \in StepsIn(s)
       PROVE  x \in LayoutStep \/ (la <= Rank(x) /\ Rank(x) <= hb)
  <2>1. Rank(x) \in Nat
    BY RankNat
  <2>2. \/ x \in LayoutStep
        \/ la <= Rank(x) /\ Rank(x) <= ha
        \/ lb <= Rank(x) /\ Rank(x) <= hb
    BY <1>2, <1>3, <1>4
  <2> QED
    BY <2>1, <2>2
<1> QED
  BY <1>2, <1>7, <1>8, <1>9, <1>10 DEF Piece, Script, s

(* A piece that is left out is a piece. *)
LEMMA PieceWhen ==
  ASSUME NEW s, NEW low \in Nat, NEW high \in Nat, NEW b \in BOOLEAN, Piece(s, low, high)
  PROVE  /\ Piece(When(b, s), low, high)
         /\ StepsIn(When(b, s)) = IF b THEN StepsIn(s) ELSE {}
<1>1. CASE b
  BY <1>1 DEF When
<1>2. CASE ~b
  <2>1. When(b, s) = <<>> /\ StepsIn(When(b, s)) = {}
    BY <1>2 DEF When, StepsIn
  <2>2. Script(<<>>)
    BY DEF Script, InOrder, Joined
  <2> QED
    BY <1>2, <2>1, <2>2 DEF Piece
<1> QED
  BY <1>1, <1>2

(* A single step is a piece. *)
LEMMA PieceOfOne ==
  ASSUME NEW x \in Step, \A p \in Pair : x # p[1], \A p \in Origin : x # p[2]
  PROVE  Piece(<<x>>, Rank(x), Rank(x)) /\ StepsIn(<<x>>) = {x}
<1>1. <<x>> \in Seq(Step) /\ Len(<<x>>) = 1 /\ <<x>>[1] = x
  OBVIOUS
<1>2. StepsIn(<<x>>) = {x}
  BY <1>1 DEF StepsIn
<1>3. InOrder(<<x>>)
  BY <1>1 DEF InOrder
<1>4. Joined(<<x>>)
  BY <1>1 DEF Joined
<1>5. Rank(x) \in Nat
  BY RankNat
<1> QED
  BY <1>1, <1>2, <1>3, <1>4, <1>5 DEF Piece, Script

(* The ranks of the steps that are named. *)
LEMMA Ranks ==
  /\ Rank("prepare") = 1 /\ Rank("run_analysis") = 3 /\ Rank("run_simulation") = 4
  /\ Rank("analysis_result") = 5 /\ Rank("analysis_csv") = 6
  /\ Rank("simulation_result") = 7 /\ Rank("simulation_csv") = 8
  /\ Rank("load_simulation") = 9 /\ Rank("load_analysis") = 10
  /\ Rank("comparison_result") = 11 /\ Rank("comparison_csv") = 12
  /\ Rank("expected_wcrt_comparison") = 13
  /\ Rank("analysis_manifest") = 14 /\ Rank("simulation_manifest") = 14
  /\ Rank("comparison_manifest") = 14
  /\ Rank("run_manifest") = 15 /\ Rank("run_metadata") = 15 /\ Rank("artifact_index") = 15
  /\ Rank("trace_csv") = 16
  /\ \A c \in Case : Rank(c) = 2
BY CaseAssumption DEF Rank, ResultFile, MetadataFile, Command

(* The steps of the layout may stand anywhere. *)
LEMMA LayoutPieces ==
  ASSUME NEW low \in Nat, NEW high \in Nat
  PROVE  /\ Piece(<<"directories">>, low, high) /\ StepsIn(<<"directories">>) = {"directories"}
         /\ LET s == <<"directories">> \o <<"see_latest", "unlink", "relink">>
            IN  Piece(s, low, high) /\ StepsIn(s) = LayoutStep
<1> DEFINE s == <<"directories">> \o <<"see_latest", "unlink", "relink">>
           u == <<"directories">>
<1>1. /\ s \in Seq(Step) /\ Len(s) = 4 /\ s[1] = "directories" /\ s[2] = "see_latest"
      /\ s[3] = "unlink" /\ s[4] = "relink"
  BY DEF Step, Command
<1>2. u \in Seq(Step) /\ Len(u) = 1 /\ u[1] = "directories"
  BY DEF Step, Command
<1> HIDE DEF s, u
<1>3. \A i \in 1 .. 4 : i = 1 \/ i = 2 \/ i = 3 \/ i = 4
  OBVIOUS
<1>4. StepsIn(s) = LayoutStep /\ StepsIn(u) = {"directories"}
  BY <1>1, <1>2, <1>3 DEF StepsIn, LayoutStep
<1>5. InOrder(s) /\ InOrder(u)
  BY <1>1, <1>2, <1>3 DEF InOrder, MayFollow, LayoutStep
<1>6. Joined(s)
  BY <1>1, <1>3 DEF Joined, Pair, Origin
<1>7. Joined(u)
  BY <1>2 DEF Joined, Pair, Origin
<1> QED
  BY <1>1, <1>2, <1>4, <1>5, <1>6, <1>7 DEF Piece, Script, Origin, Pair, s, u, LayoutStep

(* The two results are read one after the other. *)
LEMMA LoadPiece ==
  LET s == <<"load_simulation", "load_analysis">>
  IN  Piece(s, 9, 10) /\ StepsIn(s) = {"load_simulation", "load_analysis"}
<1> DEFINE s == <<"load_simulation", "load_analysis">>
<1>1. s \in Seq(Step) /\ Len(s) = 2 /\ s[1] = "load_simulation" /\ s[2] = "load_analysis"
  BY DEF Step, Command
<1> HIDE DEF s
<1>2. \A i \in 1 .. 2 : i = 1 \/ i = 2
  OBVIOUS
<1>3. StepsIn(s) = {"load_simulation", "load_analysis"}
  BY <1>1, <1>2 DEF StepsIn
<1>4. InOrder(s)
  BY <1>1, <1>2, Ranks DEF InOrder, MayFollow
<1>5. Joined(s)
  BY <1>1, <1>2 DEF Joined, Pair, Origin
<1> QED
  BY <1>1, <1>3, <1>4, <1>5, Ranks DEF Piece, Script, Origin, Pair, s

(* The manifest and its copy are written before and after the index. *)
LEMMA BundlePiece ==
  LET s == Bundle \o <<"artifact_index">> \o Bundle
  IN  Piece(s, 15, 15) /\ StepsIn(s) = {"run_manifest", "run_metadata", "artifact_index"}
<1> DEFINE s == Bundle \o <<"artifact_index">> \o Bundle
<1>1. /\ s \in Seq(Step) /\ Len(s) = 5 /\ s[1] = "run_manifest" /\ s[2] = "run_metadata"
      /\ s[3] = "artifact_index" /\ s[4] = "run_manifest" /\ s[5] = "run_metadata"
  BY DEF Step, File, MetadataFile, Bundle
<1> HIDE DEF s
<1>2. \A i \in 1 .. 5 : i = 1 \/ i = 2 \/ i = 3 \/ i = 4 \/ i = 5
  OBVIOUS
<1>3. StepsIn(s) = {"run_manifest", "run_metadata", "artifact_index"}
  BY <1>1, <1>2 DEF StepsIn
<1>4. InOrder(s)
  BY <1>1, <1>2, Ranks, SMTT(30) DEF InOrder, MayFollow
<1>5. Joined(s)
  BY <1>1, <1>2, SMTT(30) DEF Joined, Pair, Origin
<1> QED
  BY <1>1, <1>3, <1>4, <1>5, Ranks DEF Piece, Script, Origin, Pair, s

(* The fields of a job. *)
LEMMA JobFacts ==
  ASSUME plan \in Plans, NEW j \in Job
  PROVE  /\ The(j) \in JobType
         /\ The(j).kind \in Kind /\ The(j).case \in Case /\ Dir(j) \in RunId
         /\ The(j).output.json \in BOOLEAN /\ The(j).output.csv \in BOOLEAN
         /\ The(j).output.metadata \in BOOLEAN /\ The(j).output.trace \in BOOLEAN
         /\ The(j).output.latest \in BOOLEAN
         /\ \A side \in Side : InputDir(j, side) \in RunId \cup {None}
<1>1. plan.jobs \in [Job -> JobType]
  BY PlansAssumption DEF PlanType
<1>2. The(j) \in JobType
  BY <1>1 DEF The
<1>3. /\ The(j).kind \in Kind /\ The(j).case \in Case /\ The(j).dir \in RunId
      /\ The(j).output \in Output
      /\ The(j).inputs \in [simulation : RunId \cup {None}, analysis : RunId \cup {None}]
  BY <1>2 DEF JobType
<1>4. \A side \in Side : The(j).inputs[side] \in RunId \cup {None}
  BY <1>3 DEF Side
<1> QED
  BY <1>2, <1>3, <1>4 DEF Output, Dir, InputDir

(* The parts that the scripts of the four commands are made of. *)
LEMMA PartFacts ==
  ASSUME plan \in Plans, NEW j \in Job
  PROVE  /\ \A n \in Nat : Piece(Layout(j), n + 1, n)
         /\ StepsIn(Layout(j)) = IF The(j).output.latest THEN LayoutStep ELSE {"directories"}
         /\ Piece(Prepared(j), 1, 2)
         /\ StepsIn(Prepared(j)) = {"prepare", The(j).case} \cup StepsIn(Layout(j))
         /\ Piece(AnalysisBundle(j), 5, 6)
         /\ StepsIn(AnalysisBundle(j)) = (IF The(j).output.json THEN {"analysis_result"} ELSE {})
              \cup (IF The(j).output.csv THEN {"analysis_csv"} ELSE {})
         /\ Piece(SimulationBundle(j), 7, 8)
         /\ StepsIn(SimulationBundle(j)) = (IF The(j).output.json THEN {"simulation_result"} ELSE {})
              \cup (IF The(j).output.csv THEN {"simulation_csv"} ELSE {})
<1>1. The(j).case \in Case /\ The(j).output.json \in BOOLEAN
      /\ The(j).output.csv \in BOOLEAN /\ The(j).output.latest \in BOOLEAN
  BY JobFacts
<1> DEFINE layout == <<"directories">> \o <<"see_latest", "unlink", "relink">>
<1>7. Layout(j) = IF The(j).output.latest THEN layout ELSE <<"directories">>
  <2>1. <<"directories">> \o <<>> = <<"directories">>
    OBVIOUS
  <2> QED
    BY <1>1, <2>1 DEF Layout, When
<1>8. \A low, high \in Nat : Piece(<<"directories">>, low, high) /\ Piece(layout, low, high)
  BY LayoutPieces
<1>9. StepsIn(<<"directories">>) = {"directories"} /\ StepsIn(layout) = LayoutStep
  <2>1. 1 \in Nat
    OBVIOUS
  <2> QED
    BY <2>1, LayoutPieces
<1> HIDE DEF layout
<1>2. ASSUME NEW n \in Nat
      PROVE  Piece(Layout(j), n + 1, n)
  <2>1. n + 1 \in Nat
    OBVIOUS
  <2>2. Piece(<<"directories">>, n + 1, n) /\ Piece(layout, n + 1, n)
    BY <1>8, <2>1
  <2> QED
    BY <1>7, <2>2
<1>3. StepsIn(Layout(j)) = IF The(j).output.latest THEN LayoutStep ELSE {"directories"}
  BY <1>7, <1>9
<1>4. /\ Piece(Prepared(j), 1, 2)
      /\ StepsIn(Prepared(j)) = {"prepare", The(j).case} \cup StepsIn(Layout(j))
  <2> DEFINE c == The(j).case
             u == <<"prepare">>
             v == Layout(j)
             w == <<c>>
  <2>1. Piece(u, 1, 1) /\ StepsIn(u) = {"prepare"}
    BY PieceOfOne, Ranks DEF Step, Command, Pair, Origin
  <2>2. Piece(v, 2, 1)
    <3>1. 1 \in Nat /\ 1 + 1 = 2
      OBVIOUS
    <3> QED
      BY <1>2, <3>1
  <2>3. Piece(w, 2, 2) /\ StepsIn(w) = {c}
    <3>1. c \in Step
      BY <1>1 DEF Step, File
    <3>2. c \notin ResultFile \cup MetadataFile \cup Command \cup {"trace_csv"}
      BY <1>1, CaseAssumption
    <3>3. (\A p \in Pair : c # p[1]) /\ (\A p \in Origin : c # p[2])
      BY <3>2 DEF Pair, Origin, MetadataFile, Command
    <3> QED
      BY <1>1, <3>1, <3>3, PieceOfOne, Ranks
  <2>4. Prepared(j) = (u \o v) \o w
    BY DEF Prepared
  <2> HIDE DEF u, v, w, c
  <2>5. Piece(u \o v, 1, 1)
    BY <2>1, <2>2, PieceConcat
  <2>6. Piece((u \o v) \o w, 1, 2)
    BY <2>3, <2>5, PieceConcat
  <2>7. u \in Seq(Step) /\ v \in Seq(Step) /\ w \in Seq(Step) /\ u \o v \in Seq(Step)
    BY <2>1, <2>2, <2>3, <2>5 DEF Piece, Script
  <2>8. StepsIn((u \o v) \o w) = (StepsIn(u) \cup StepsIn(v)) \cup StepsIn(w)
    BY <2>7, ConcatFacts
  <2> QED
    BY <2>1, <2>3, <2>4, <2>6, <2>8 DEF v, c
<1>5. /\ Piece(AnalysisBundle(j), 5, 6)
      /\ StepsIn(AnalysisBundle(j)) = (IF The(j).output.json THEN {"analysis_result"} ELSE {})
           \cup (IF The(j).output.csv THEN {"analysis_csv"} ELSE {})
  <2> DEFINE u == Json(j, "analysis_result")
             v == Csv(j, <<"analysis_csv">>)
  <2>1. /\ Piece(<<"analysis_result">>, 5, 5) /\ StepsIn(<<"analysis_result">>) = {"analysis_result"}
        /\ Piece(<<"analysis_csv">>, 6, 6) /\ StepsIn(<<"analysis_csv">>) = {"analysis_csv"}
    BY PieceOfOne, Ranks DEF Step, File, ResultFile, Pair, Origin
  <2>2. Piece(u, 5, 5) /\ StepsIn(u) = IF The(j).output.json THEN {"analysis_result"} ELSE {}
    BY <1>1, <2>1, PieceWhen DEF Json
  <2>3. Piece(v, 6, 6) /\ StepsIn(v) = IF The(j).output.csv THEN {"analysis_csv"} ELSE {}
    <3> DEFINE w == <<"analysis_csv">>
    <3>1. v = When(The(j).output.csv, w)
      BY DEF Csv
    <3>2. Piece(w, 6, 6) /\ StepsIn(w) = {"analysis_csv"}
      BY <2>1
    <3> HIDE DEF v, w
    <3>3. /\ Piece(When(The(j).output.csv, w), 6, 6)
          /\ StepsIn(When(The(j).output.csv, w)) =
               IF The(j).output.csv THEN StepsIn(w) ELSE {}
      BY <1>1, <3>2, PieceWhen
    <3> QED
      BY <3>1, <3>2, <3>3
  <2>4. AnalysisBundle(j) = u \o v
    BY DEF AnalysisBundle
  <2> HIDE DEF u, v
  <2>5. Piece(u \o v, 5, 6)
    BY <2>2, <2>3, PieceConcat
  <2>6. StepsIn(u \o v) = StepsIn(u) \cup StepsIn(v)
    BY <2>2, <2>3, ConcatFacts DEF Piece, Script
  <2> QED
    BY <2>2, <2>3, <2>4, <2>5, <2>6
<1>6. /\ Piece(SimulationBundle(j), 7, 8)
      /\ StepsIn(SimulationBundle(j)) = (IF The(j).output.json THEN {"simulation_result"} ELSE {})
           \cup (IF The(j).output.csv THEN {"simulation_csv"} ELSE {})
  <2> DEFINE u == Json(j, "simulation_result")
             v == Csv(j, <<"simulation_csv">>)
  <2>1. /\ Piece(<<"simulation_result">>, 7, 7)
        /\ StepsIn(<<"simulation_result">>) = {"simulation_result"}
        /\ Piece(<<"simulation_csv">>, 8, 8) /\ StepsIn(<<"simulation_csv">>) = {"simulation_csv"}
    BY PieceOfOne, Ranks DEF Step, File, ResultFile, Pair, Origin
  <2>2. Piece(u, 7, 7) /\ StepsIn(u) = IF The(j).output.json THEN {"simulation_result"} ELSE {}
    BY <1>1, <2>1, PieceWhen DEF Json
  <2>3. Piece(v, 8, 8) /\ StepsIn(v) = IF The(j).output.csv THEN {"simulation_csv"} ELSE {}
    <3> DEFINE w == <<"simulation_csv">>
    <3>1. v = When(The(j).output.csv, w)
      BY DEF Csv
    <3>2. Piece(w, 8, 8) /\ StepsIn(w) = {"simulation_csv"}
      BY <2>1
    <3> HIDE DEF v, w
    <3>3. /\ Piece(When(The(j).output.csv, w), 8, 8)
          /\ StepsIn(When(The(j).output.csv, w)) =
               IF The(j).output.csv THEN StepsIn(w) ELSE {}
      BY <1>1, <3>2, PieceWhen
    <3> QED
      BY <3>1, <3>2, <3>3
  <2>4. SimulationBundle(j) = u \o v
    BY DEF SimulationBundle
  <2> HIDE DEF u, v
  <2>5. Piece(u \o v, 7, 8)
    BY <2>2, <2>3, PieceConcat
  <2>6. StepsIn(u \o v) = StepsIn(u) \cup StepsIn(v)
    BY <2>2, <2>3, ConcatFacts DEF Piece, Script
  <2> QED
    BY <2>2, <2>3, <2>4, <2>5, <2>6
<1> QED
  BY <1>2, <1>3, <1>4, <1>5, <1>6

(* Two pieces and their steps. *)
LEMMA PieceJoin ==
  ASSUME NEW a, NEW b, NEW la \in Nat, NEW ha \in Nat, NEW lb \in Nat, NEW hb \in Nat,
         Piece(a, la, ha), Piece(b, lb, hb), la <= lb, ha < lb, ha <= hb
  PROVE  Piece(a \o b, la, hb) /\ StepsIn(a \o b) = StepsIn(a) \cup StepsIn(b)
<1>1. Piece(a \o b, la, hb)
  BY PieceConcat
<1>2. a \in Seq(Step) /\ b \in Seq(Step)
  BY DEF Piece, Script
<1> QED
  BY <1>1, <1>2, ConcatFacts

(* The comparison reads both results before it writes anything. *)
LEMMA ComparisonPart ==
  ASSUME plan \in Plans, NEW j \in Job
  PROVE  /\ Piece(Comparison(j), 9, 13)
         /\ StepsIn(Comparison(j)) =
              {"load_simulation", "load_analysis"} \cup StepsIn(Layout(j))
                \cup (IF The(j).output.json THEN {"comparison_result"} ELSE {})
                \cup (IF The(j).output.csv THEN {"comparison_csv", "expected_wcrt_comparison"}
                      ELSE {})
<1> DEFINE a == <<"load_simulation", "load_analysis">>
           b == Layout(j)
           w == <<"comparison_csv", "expected_wcrt_comparison">>
           c == Json(j, "comparison_result")
           d == Csv(j, w)
<1>1. The(j).output.json \in BOOLEAN /\ The(j).output.csv \in BOOLEAN
  BY JobFacts
<1>2. Piece(a, 9, 10) /\ StepsIn(a) = {"load_simulation", "load_analysis"}
  BY LoadPiece
<1>3. Piece(b, 11, 10)
  <2>1. 10 \in Nat /\ 10 + 1 = 11
    OBVIOUS
  <2> QED
    BY <2>1, PartFacts
<1>4. Piece(c, 11, 11) /\ StepsIn(c) = IF The(j).output.json THEN {"comparison_result"} ELSE {}
  <2> DEFINE u == <<"comparison_result">>
  <2>1. Piece(u, 11, 11) /\ StepsIn(u) = {"comparison_result"}
    BY PieceOfOne, Ranks DEF Step, File, ResultFile, Pair, Origin
  <2>2. c = When(The(j).output.json, u)
    BY DEF Json
  <2> HIDE DEF u, c
  <2> QED
    BY <1>1, <2>1, <2>2, PieceWhen
<1>5. /\ Piece(d, 12, 13)
      /\ StepsIn(d) = IF The(j).output.csv THEN {"comparison_csv", "expected_wcrt_comparison"}
                      ELSE {}
  <2> DEFINE u == <<"comparison_csv">>
             v == <<"expected_wcrt_comparison">>
  <2>1. /\ Piece(u, 12, 12) /\ StepsIn(u) = {"comparison_csv"}
        /\ Piece(v, 13, 13) /\ StepsIn(v) = {"expected_wcrt_comparison"}
    BY PieceOfOne, Ranks DEF Step, File, ResultFile, Pair, Origin
  <2>2. w = u \o v
    OBVIOUS
  <2>3. d = When(The(j).output.csv, w)
    BY DEF Csv
  <2> HIDE DEF u, v, w, d
  <2>4. Piece(w, 12, 13) /\ StepsIn(w) = {"comparison_csv", "expected_wcrt_comparison"}
    BY <2>1, <2>2, PieceJoin
  <2>5. /\ Piece(When(The(j).output.csv, w), 12, 13)
        /\ StepsIn(When(The(j).output.csv, w)) = IF The(j).output.csv THEN StepsIn(w) ELSE {}
    BY <1>1, <2>4, PieceWhen
  <2> QED
    BY <2>3, <2>4, <2>5
<1>6. Comparison(j) = ((a \o b) \o c) \o d
  BY DEF Comparison
<1> HIDE DEF a, b, c, d
<1>7. Piece(a \o b, 9, 10) /\ StepsIn(a \o b) = StepsIn(a) \cup StepsIn(b)
  BY <1>2, <1>3, PieceJoin
<1>8. /\ Piece((a \o b) \o c, 9, 11)
      /\ StepsIn((a \o b) \o c) = StepsIn(a \o b) \cup StepsIn(c)
  BY <1>4, <1>7, PieceJoin
<1>9. /\ Piece(((a \o b) \o c) \o d, 9, 13)
      /\ StepsIn(((a \o b) \o c) \o d) = StepsIn((a \o b) \o c) \cup StepsIn(d)
  BY <1>5, <1>8, PieceJoin
<1> QED
  BY <1>2, <1>4, <1>5, <1>6, <1>7, <1>8, <1>9 DEF b

(* How the parts of a script are grouped does not matter. *)
LEMMA Regrouped ==
  ASSUME NEW a \in Seq(Step), NEW b \in Seq(Step), NEW c \in Seq(Step)
  PROVE  (a \o b) \o c = a \o (b \o c)
OBVIOUS

(* The manifests of a command come before the manifest of the run.         *)
LEMMA MetadataPart ==
  ASSUME plan \in Plans, NEW j \in Job, NEW m, Piece(m, 14, 14)
  PROVE  /\ Piece(Metadata(j, m), 14, 15)
         /\ StepsIn(Metadata(j, m)) =
              IF The(j).output.json /\ The(j).output.metadata
              THEN StepsIn(m) \cup BundleFile \cup {"artifact_index"} ELSE {}
<1> DEFINE n == <<"artifact_index">>
           s == (Bundle \o n) \o Bundle
           b == The(j).output.json /\ The(j).output.metadata
<1>1. b \in BOOLEAN
  OBVIOUS
<1>2. Piece(s, 15, 15) /\ StepsIn(s) = BundleFile \cup {"artifact_index"}
  BY BundlePiece DEF BundleFile
<1>3. ((m \o Bundle) \o n) \o Bundle = m \o s
  <2>1. m \in Seq(Step)
    BY DEF Piece, Script
  <2>2. Bundle \in Seq(Step) /\ n \in Seq(Step)
    BY DEF Bundle, Step, File, MetadataFile
  <2> HIDE DEF n
  <2>3. Bundle \o n \in Seq(Step) /\ m \o Bundle \in Seq(Step)
    BY <2>1, <2>2
  <2>4. (m \o Bundle) \o n = m \o (Bundle \o n)
    BY <2>1, <2>2, Regrouped
  <2>5. (m \o (Bundle \o n)) \o Bundle = m \o ((Bundle \o n) \o Bundle)
    BY <2>1, <2>2, <2>3, Regrouped
  <2> QED
    BY <2>4, <2>5
<1>4. Metadata(j, m) = When(b, m \o s)
  BY <1>3 DEF Metadata
<1> DEFINE t == m \o s
<1> HIDE DEF s, b
<1>5. Piece(t, 14, 15) /\ StepsIn(t) = StepsIn(m) \cup StepsIn(s)
  BY <1>2, PieceJoin
<1> HIDE DEF t
<1>6. Piece(When(b, t), 14, 15) /\ StepsIn(When(b, t)) = IF b THEN StepsIn(t) ELSE {}
  BY <1>1, <1>5, PieceWhen
<1> QED
  BY <1>2, <1>4, <1>5, <1>6 DEF b, t

(* The manifests that a command may write. *)
LEMMA ManifestPieces ==
  /\ Piece(<<>>, 14, 14)
  /\ \A f \in {"analysis_manifest", "simulation_manifest", "comparison_manifest"} :
       Piece(<<f>>, 14, 14)
<1>1. Piece(<<>>, 14, 14)
  BY DEF Piece, Script, InOrder, Joined, StepsIn
<1>2. ASSUME NEW f \in {"analysis_manifest", "simulation_manifest", "comparison_manifest"}
      PROVE  Piece(<<f>>, 14, 14)
  <2>1. f \in Step /\ (\A p \in Pair : f # p[1]) /\ (\A p \in Origin : f # p[2])
    BY DEF Step, File, MetadataFile, Pair, Origin
  <2>2. Rank(f) = 14
    BY Ranks
  <2> QED
    BY <2>1, <2>2, PieceOfOne
<1> QED
  BY <1>1, <1>2

(* The trace comes last. *)
LEMMA TracePiece ==
  ASSUME plan \in Plans, NEW j \in Job
  PROVE  Piece(Trace(j), 16, 16) /\ StepsIn(Trace(j)) \subseteq {"trace_csv"}
<1> DEFINE u == <<"trace_csv">>
<1>1. Piece(u, 16, 16) /\ StepsIn(u) = {"trace_csv"}
  BY PieceOfOne, Ranks DEF Step, File, Pair, Origin
<1>2. Trace(j) = When(The(j).output.trace, u) /\ The(j).output.trace \in BOOLEAN
  BY JobFacts DEF Trace
<1> HIDE DEF u
<1> QED
  BY <1>1, <1>2, PieceWhen

(* The script of analyze. *)
LEMMA AnalyzeScript ==
  ASSUME plan \in Plans, NEW j \in Job
  PROVE  /\ Piece(Analyze(j), 1, 16)
         /\ StepsIn(Analyze(j)) = StepsIn(Prepared(j)) \cup {"run_analysis"} \cup StepsIn(AnalysisBundle(j))
              \cup StepsIn(Metadata(j, <<"analysis_manifest">>)) \cup StepsIn(Trace(j))
<1> DEFINE a == Prepared(j)
           b == <<"run_analysis">>
           c == AnalysisBundle(j)
           d == Metadata(j, <<"analysis_manifest">>)
           e == Trace(j)
<1>1. Piece(a, 1, 2) /\ Piece(c, 5, 6)
  BY PartFacts
<1>2. Piece(b, 3, 3) /\ StepsIn(b) = {"run_analysis"}
  BY PieceOfOne, Ranks DEF Step, Command, Pair, Origin
<1>3. Piece(d, 14, 15)
  BY ManifestPieces, MetadataPart
<1>4. Piece(e, 16, 16)
  BY TracePiece
<1>5. Analyze(j) = (((a \o b) \o c) \o d) \o e
  BY DEF Analyze
<1> HIDE DEF a, b, c, d, e
<1>6. Piece(a \o b, 1, 3) /\ StepsIn(a \o b) = StepsIn(a) \cup StepsIn(b)
  BY <1>1, <1>2, PieceJoin
<1>7. /\ Piece((a \o b) \o c, 1, 6)
      /\ StepsIn((a \o b) \o c) = StepsIn(a \o b) \cup StepsIn(c)
  BY <1>1, <1>6, PieceJoin
<1>8. /\ Piece(((a \o b) \o c) \o d, 1, 15)
      /\ StepsIn(((a \o b) \o c) \o d) = StepsIn((a \o b) \o c) \cup StepsIn(d)
  BY <1>3, <1>7, PieceJoin
<1>9. /\ Piece((((a \o b) \o c) \o d) \o e, 1, 16)
      /\ StepsIn((((a \o b) \o c) \o d) \o e) = StepsIn(((a \o b) \o c) \o d) \cup StepsIn(e)
  BY <1>4, <1>8, PieceJoin
<1> QED
  BY <1>2, <1>5, <1>6, <1>7, <1>8, <1>9 DEF a, c, d, e

(* The script of simulate. *)
LEMMA SimulateScript ==
  ASSUME plan \in Plans, NEW j \in Job
  PROVE  /\ Piece(Simulate(j), 1, 16)
         /\ StepsIn(Simulate(j)) = StepsIn(Prepared(j)) \cup {"run_simulation"} \cup StepsIn(SimulationBundle(j))
              \cup StepsIn(Metadata(j, <<"simulation_manifest">>)) \cup StepsIn(Trace(j))
<1> DEFINE a == Prepared(j)
           b == <<"run_simulation">>
           c == SimulationBundle(j)
           d == Metadata(j, <<"simulation_manifest">>)
           e == Trace(j)
<1>1. Piece(a, 1, 2) /\ Piece(c, 7, 8)
  BY PartFacts
<1>2. Piece(b, 4, 4) /\ StepsIn(b) = {"run_simulation"}
  BY PieceOfOne, Ranks DEF Step, Command, Pair, Origin
<1>3. Piece(d, 14, 15)
  BY ManifestPieces, MetadataPart
<1>4. Piece(e, 16, 16)
  BY TracePiece
<1>5. Simulate(j) = (((a \o b) \o c) \o d) \o e
  BY DEF Simulate
<1> HIDE DEF a, b, c, d, e
<1>6. Piece(a \o b, 1, 4) /\ StepsIn(a \o b) = StepsIn(a) \cup StepsIn(b)
  BY <1>1, <1>2, PieceJoin
<1>7. /\ Piece((a \o b) \o c, 1, 8)
      /\ StepsIn((a \o b) \o c) = StepsIn(a \o b) \cup StepsIn(c)
  BY <1>1, <1>6, PieceJoin
<1>8. /\ Piece(((a \o b) \o c) \o d, 1, 15)
      /\ StepsIn(((a \o b) \o c) \o d) = StepsIn((a \o b) \o c) \cup StepsIn(d)
  BY <1>3, <1>7, PieceJoin
<1>9. /\ Piece((((a \o b) \o c) \o d) \o e, 1, 16)
      /\ StepsIn((((a \o b) \o c) \o d) \o e) = StepsIn(((a \o b) \o c) \o d) \cup StepsIn(e)
  BY <1>4, <1>8, PieceJoin
<1> QED
  BY <1>2, <1>5, <1>6, <1>7, <1>8, <1>9 DEF a, c, d, e

(* The script of compare. *)
LEMMA CompareScript ==
  ASSUME plan \in Plans, NEW j \in Job
  PROVE  /\ Piece(Compare(j), 9, 15)
         /\ StepsIn(Compare(j)) =
              StepsIn(Comparison(j)) \cup StepsIn(Metadata(j, <<"comparison_manifest">>))
<1>1. Piece(Comparison(j), 9, 13) /\ Piece(Metadata(j, <<"comparison_manifest">>), 14, 15)
  BY ComparisonPart, ManifestPieces, MetadataPart
<1> QED
  BY <1>1, PieceJoin DEF Compare

(* The script of run-case. *)
LEMMA RunCaseScript ==
  ASSUME plan \in Plans, NEW j \in Job
  PROVE  /\ Piece(RunCase(j), 1, 15)
         /\ StepsIn(RunCase(j)) =
              StepsIn(Prepared(j)) \cup {"run_analysis", "run_simulation"}
                \cup StepsIn(AnalysisBundle(j)) \cup StepsIn(SimulationBundle(j))
                \cup StepsIn(Comparison(j)) \cup StepsIn(Metadata(j, <<>>))
<1> DEFINE a == Prepared(j)
           b == <<"run_analysis", "run_simulation">>
           c == AnalysisBundle(j)
           d == SimulationBundle(j)
           e == Comparison(j)
           f == Metadata(j, <<>>)
<1>1. Piece(a, 1, 2) /\ Piece(c, 5, 6) /\ Piece(d, 7, 8)
  BY PartFacts
<1>2. Piece(b, 3, 4) /\ StepsIn(b) = {"run_analysis", "run_simulation"}
  <2> DEFINE u == <<"run_analysis">>
             v == <<"run_simulation">>
  <2>1. /\ Piece(u, 3, 3) /\ StepsIn(u) = {"run_analysis"}
        /\ Piece(v, 4, 4) /\ StepsIn(v) = {"run_simulation"}
    BY PieceOfOne, Ranks DEF Step, Command, Pair, Origin
  <2>2. b = u \o v
    OBVIOUS
  <2> HIDE DEF b, u, v
  <2> QED
    BY <2>1, <2>2, PieceJoin
<1>3. Piece(e, 9, 13) /\ Piece(f, 14, 15)
  BY ComparisonPart, ManifestPieces, MetadataPart
<1>4. RunCase(j) = ((((a \o b) \o c) \o d) \o e) \o f
  BY DEF RunCase
<1> HIDE DEF a, b, c, d, e, f
<1>5. Piece(a \o b, 1, 4) /\ StepsIn(a \o b) = StepsIn(a) \cup StepsIn(b)
  BY <1>1, <1>2, PieceJoin
<1>6. /\ Piece((a \o b) \o c, 1, 6)
      /\ StepsIn((a \o b) \o c) = StepsIn(a \o b) \cup StepsIn(c)
  BY <1>1, <1>5, PieceJoin
<1>7. /\ Piece(((a \o b) \o c) \o d, 1, 8)
      /\ StepsIn(((a \o b) \o c) \o d) = StepsIn((a \o b) \o c) \cup StepsIn(d)
  BY <1>1, <1>6, PieceJoin
<1>8. /\ Piece((((a \o b) \o c) \o d) \o e, 1, 13)
      /\ StepsIn((((a \o b) \o c) \o d) \o e) = StepsIn(((a \o b) \o c) \o d) \cup StepsIn(e)
  BY <1>3, <1>7, PieceJoin
<1>9. /\ Piece(((((a \o b) \o c) \o d) \o e) \o f, 1, 15)
      /\ StepsIn(((((a \o b) \o c) \o d) \o e) \o f) =
           StepsIn((((a \o b) \o c) \o d) \o e) \cup StepsIn(f)
  BY <1>3, <1>8, PieceJoin
<1> QED
  BY <1>2, <1>4, <1>5, <1>6, <1>7, <1>8, <1>9 DEF a, c, d, e, f

(* A piece with some step in it is a script that begins with no step that  *)
(* comes from another one.                                                 *)
LEMMA ScriptBegins ==
  ASSUME NEW s, NEW low, NEW high, Piece(s, low, high), StepsIn(s) # {}
  PROVE  Script(s) /\ s # <<>> /\ \A p \in Origin : Head(s) # p[2]
<1>1. s # <<>>
  BY DEF StepsIn
<1>2. Head(s) = s[1]
  BY <1>1, TailFacts DEF Piece, Script
<1> QED
  BY <1>1, <1>2 DEF Piece

(* Which steps a script has, and where it begins. *)
LEMMA StepsFacts ==
  ASSUME plan \in Plans, NEW j \in Job
  PROVE  /\ Script(Steps(j)) /\ Steps(j) # <<>>
         /\ \A p \in Origin : Head(Steps(j)) # p[2]
         /\ "relink" \in StepsIn(Steps(j)) <=> The(j).output.latest
         /\ Compared \cap StepsIn(Steps(j)) # {} =>
              {"load_simulation", "load_analysis"} \subseteq StepsIn(Steps(j))
         /\ The(j).output.json /\ The(j).output.metadata =>
              BundleFile \cup {"artifact_index"} \subseteq StepsIn(Steps(j))
         /\ The(j).kind = "run-case" /\ The(j).output.json =>
              {"simulation_result", "analysis_result"} \subseteq StepsIn(Steps(j))
<1>1. /\ The(j).kind \in Kind /\ The(j).case \in Case
      /\ The(j).output.json \in BOOLEAN /\ The(j).output.csv \in BOOLEAN
      /\ The(j).output.latest \in BOOLEAN
  BY JobFacts
<1>2. The(j).case \notin ResultFile \cup MetadataFile \cup Command \cup {"trace_csv"}
  BY <1>1, CaseAssumption
<1> DEFINE layout == StepsIn(Layout(j))
<1>3. layout = IF The(j).output.latest THEN LayoutStep ELSE {"directories"}
  BY PartFacts
<1>4. /\ "relink" \in layout <=> The(j).output.latest
      /\ layout \cap Compared = {}
  BY <1>1, <1>3 DEF LayoutStep, Compared
<1>5. /\ StepsIn(Prepared(j)) = {"prepare", The(j).case} \cup layout
      /\ StepsIn(AnalysisBundle(j)) = (IF The(j).output.json THEN {"analysis_result"} ELSE {})
           \cup (IF The(j).output.csv THEN {"analysis_csv"} ELSE {})
      /\ StepsIn(SimulationBundle(j)) = (IF The(j).output.json THEN {"simulation_result"} ELSE {})
           \cup (IF The(j).output.csv THEN {"simulation_csv"} ELSE {})
  BY PartFacts
<1>6. StepsIn(Comparison(j)) =
        {"load_simulation", "load_analysis"} \cup layout
          \cup (IF The(j).output.json THEN {"comparison_result"} ELSE {})
          \cup (IF The(j).output.csv THEN {"comparison_csv", "expected_wcrt_comparison"} ELSE {})
  BY ComparisonPart
<1>7. StepsIn(Trace(j)) \subseteq {"trace_csv"}
  BY TracePiece
<1>8. ASSUME NEW m, \/ m = <<>>
                    \/ \E f \in {"analysis_manifest", "simulation_manifest",
                                 "comparison_manifest"} : m = <<f>>
      PROVE  /\ "relink" \notin StepsIn(Metadata(j, m))
             /\ Compared \cap StepsIn(Metadata(j, m)) = {}
             /\ The(j).output.json /\ The(j).output.metadata =>
                  BundleFile \cup {"artifact_index"} \subseteq StepsIn(Metadata(j, m))
  <2>1. Piece(m, 14, 14)
    BY <1>8, ManifestPieces
  <2>2. StepsIn(Metadata(j, m)) =
          IF The(j).output.json /\ The(j).output.metadata
          THEN StepsIn(m) \cup BundleFile \cup {"artifact_index"} ELSE {}
    BY <2>1, MetadataPart
  <2>3. StepsIn(m) \subseteq {"analysis_manifest", "simulation_manifest", "comparison_manifest"}
    BY <1>8 DEF StepsIn
  <2> QED
    BY <2>2, <2>3 DEF BundleFile, Compared
<1> HIDE DEF layout
<1>9. CASE The(j).kind = "analyze"
  <2> DEFINE rest == StepsIn(Metadata(j, <<"analysis_manifest">>))
  <2>1. Steps(j) = Analyze(j)
    BY <1>9 DEF Steps
  <2>2. /\ Piece(Steps(j), 1, 16)
        /\ StepsIn(Steps(j)) = StepsIn(Prepared(j)) \cup {"run_analysis"}
             \cup StepsIn(AnalysisBundle(j)) \cup rest \cup StepsIn(Trace(j))
    BY <2>1, AnalyzeScript
  <2>3. /\ "relink" \notin rest /\ Compared \cap rest = {}
        /\ The(j).output.json /\ The(j).output.metadata =>
             BundleFile \cup {"artifact_index"} \subseteq rest
    BY <1>8
  <2> HIDE DEF rest
  <2>4. Compared \cap StepsIn(Steps(j)) = {}
    BY <1>1, <1>2, <1>4, <1>5, <1>7, <2>2, <2>3 DEF Compared, ResultFile
  <2>5. "relink" \in StepsIn(Steps(j)) <=> The(j).output.latest
    BY <1>1, <1>2, <1>4, <1>5, <1>7, <2>2, <2>3 DEF Command
  <2>6. "prepare" \in StepsIn(Steps(j))
    BY <1>5, <2>2
  <2> QED
    BY <1>9, <2>2, <2>3, <2>4, <2>5, <2>6, ScriptBegins
<1>10. CASE The(j).kind = "simulate"
  <2> DEFINE rest == StepsIn(Metadata(j, <<"simulation_manifest">>))
  <2>1. Steps(j) = Simulate(j)
    BY <1>10 DEF Steps
  <2>2. /\ Piece(Steps(j), 1, 16)
        /\ StepsIn(Steps(j)) = StepsIn(Prepared(j)) \cup {"run_simulation"}
             \cup StepsIn(SimulationBundle(j)) \cup rest \cup StepsIn(Trace(j))
    BY <2>1, SimulateScript
  <2>3. /\ "relink" \notin rest /\ Compared \cap rest = {}
        /\ The(j).output.json /\ The(j).output.metadata =>
             BundleFile \cup {"artifact_index"} \subseteq rest
    BY <1>8
  <2> HIDE DEF rest
  <2>4. Compared \cap StepsIn(Steps(j)) = {}
    BY <1>1, <1>2, <1>4, <1>5, <1>7, <2>2, <2>3 DEF Compared, ResultFile
  <2>5. "relink" \in StepsIn(Steps(j)) <=> The(j).output.latest
    BY <1>1, <1>2, <1>4, <1>5, <1>7, <2>2, <2>3 DEF Command
  <2>6. "prepare" \in StepsIn(Steps(j))
    BY <1>5, <2>2
  <2> QED
    BY <1>10, <2>2, <2>3, <2>4, <2>5, <2>6, ScriptBegins
<1>11. CASE The(j).kind = "compare"
  <2> DEFINE rest == StepsIn(Metadata(j, <<"comparison_manifest">>))
  <2>1. Steps(j) = Compare(j)
    BY <1>11 DEF Steps
  <2>2. Piece(Steps(j), 9, 15) /\ StepsIn(Steps(j)) = StepsIn(Comparison(j)) \cup rest
    BY <2>1, CompareScript
  <2>3. /\ "relink" \notin rest /\ Compared \cap rest = {}
        /\ The(j).output.json /\ The(j).output.metadata =>
             BundleFile \cup {"artifact_index"} \subseteq rest
    BY <1>8
  <2> HIDE DEF rest
  <2>4. {"load_simulation", "load_analysis"} \subseteq StepsIn(Steps(j))
    BY <1>6, <2>2
  <2>5. "relink" \in StepsIn(Steps(j)) <=> The(j).output.latest
    BY <1>1, <1>4, <1>6, <2>2, <2>3
  <2> QED
    BY <1>11, <2>2, <2>3, <2>4, <2>5, ScriptBegins
<1>12. CASE The(j).kind = "run-case"
  <2> DEFINE rest == StepsIn(Metadata(j, <<>>))
  <2>1. Steps(j) = RunCase(j)
    BY <1>12 DEF Steps
  <2>2. /\ Piece(Steps(j), 1, 15)
        /\ StepsIn(Steps(j)) = StepsIn(Prepared(j)) \cup {"run_analysis", "run_simulation"}
             \cup StepsIn(AnalysisBundle(j)) \cup StepsIn(SimulationBundle(j))
             \cup StepsIn(Comparison(j)) \cup rest
    BY <2>1, RunCaseScript
  <2>3. /\ "relink" \notin rest /\ Compared \cap rest = {}
        /\ The(j).output.json /\ The(j).output.metadata =>
             BundleFile \cup {"artifact_index"} \subseteq rest
    BY <1>8
  <2> HIDE DEF rest
  <2>4. {"load_simulation", "load_analysis"} \subseteq StepsIn(Steps(j))
    BY <1>6, <2>2
  <2>5. "relink" \in StepsIn(Steps(j)) <=> The(j).output.latest
    BY <1>1, <1>2, <1>4, <1>5, <1>6, <2>2, <2>3 DEF Command
  <2>6. The(j).output.json => {"simulation_result", "analysis_result"} \subseteq StepsIn(Steps(j))
    BY <1>5, <2>2
  <2> QED
    BY <2>2, <2>3, <2>4, <2>5, <2>6, ScriptBegins
<1> QED
  BY <1>1, <1>9, <1>10, <1>11, <1>12 DEF Kind

-----------------------------------------------------------------------------
(* What a step does to the job that takes it                               *)

Others(j) ==
  \A k \in Job \ {j} :
    /\ status'[k] = status[k] /\ todo'[k] = todo[k]
    /\ loaded'[k] = loaded[k] /\ recorded'[k] = recorded[k]
    /\ k \in open' <=> k \in open

Kept(j) == loaded'[j] = loaded[j] /\ recorded'[j] = recorded[j]

DiskStays == files' = files /\ made' = made /\ latest' = latest

Stops(j, outcome) ==
  /\ status[j] = "running" /\ status'[j] = outcome /\ todo'[j] = todo[j]
  /\ Kept(j) /\ DiskStays

Takes(j, step) ==
  /\ status[j] = "running" /\ status'[j] = "running"
  /\ todo[j] # <<>> /\ Head(todo[j]) = step /\ todo'[j] = Tail(todo[j])

Starts(j) ==
  /\ status[j] = "idle" /\ status'[j] = "running" /\ todo'[j] = Steps(j)
  /\ \A k \in The(j).after : Ended(k)
  /\ Kept(j) /\ DiskStays /\ open' = open

MayFail == {"prepare", "run_analysis", "run_simulation", "unlink", "load_simulation",
            "load_analysis"}

Fails(j) ==
  /\ Stops(j, "failed") /\ open' = open
  /\ todo[j] # <<>> /\ Head(todo[j]) \in MayFail

Finishes(j) == Stops(j, "ok") /\ todo[j] = <<>> /\ open' = open

Dies(j) == Stops(j, "crashed") /\ open' = open \ {j}

Passes(j) ==
  /\ \E step \in {"prepare", "run_analysis", "run_simulation"} : Takes(j, step)
  /\ Kept(j) /\ DiskStays /\ open' = open

Makes(j) ==
  /\ Takes(j, "directories") /\ Kept(j) /\ open' = open
  /\ made' = made \cup {Dir(j)} /\ files' = files /\ latest' = latest

SeesLink(j) ==
  Takes(j, "see_latest") /\ latest # None /\ Kept(j) /\ DiskStays /\ open' = open

SeesNoLink(j) ==
  /\ status[j] = "running" /\ status'[j] = "running"
  /\ todo[j] # <<>> /\ Head(todo[j]) = "see_latest" /\ latest = None
  /\ todo'[j] = Tail(Tail(todo[j]))
  /\ Kept(j) /\ DiskStays /\ open' = open

Unlinks(j) ==
  /\ Takes(j, "unlink") /\ Kept(j) /\ open' = open
  /\ latest # None /\ latest' = None /\ files' = files /\ made' = made

Relinks(j) ==
  /\ Takes(j, "relink") /\ Kept(j) /\ open' = open
  /\ latest' = IF latest = None THEN Dir(j) ELSE latest
  /\ files' = files /\ made' = made

Loads(j, side) ==
  /\ Takes(j, Loading(side)) /\ DiskStays /\ open' = open
  /\ Readable(Resolved(j, side), ResultOf(side))
  /\ loaded'[j] = [loaded[j] EXCEPT ![side] = files[Resolved(j, side)][ResultOf(side)].by]
  /\ recorded'[j] = recorded[j] \cup {<<InputDir(j, side), ResultOf(side)>>}

Puts(j, f, c) ==
  /\ files' = [files EXCEPT ![Dir(j)][f] = c]
  /\ made' = made /\ latest' = latest

Opens(j, f) ==
  /\ status[j] = "running" /\ status'[j] = "running"
  /\ todo[j] # <<>> /\ Head(todo[j]) = f /\ todo'[j] = todo[j]
  /\ f = "expected_wcrt_comparison" => HasExpected(j)
  /\ Kept(j) /\ j \notin open /\ open' = open \cup {j}
  /\ Puts(j, f, [by |-> j, whole |-> FALSE, names |-> {}, of |-> {}])

Closes(j, f) ==
  /\ Takes(j, f) /\ j \in open /\ open' = open \ {j}
  /\ loaded'[j] = loaded[j] /\ recorded'[j] = recorded[j] \cup Records(j, f)
  /\ Puts(j, f, Payload(j, f))

Skips(j) ==
  /\ Takes(j, "expected_wcrt_comparison") /\ ~HasExpected(j)
  /\ DiskStays /\ open' = open /\ loaded'[j] = loaded[j]
  /\ recorded'[j] = recorded[j] \cup
       {a \in Own(j, {"expected_wcrt_comparison"}) :
          The(j).kind = "run-case" /\ files[a[1]][a[2]] # None}

Move(j) ==
  \/ Starts(j) \/ Fails(j) \/ Finishes(j) \/ Dies(j)
  \/ Passes(j) \/ Makes(j) \/ SeesLink(j) \/ SeesNoLink(j) \/ Unlinks(j) \/ Relinks(j)
  \/ \E side \in Side : Loads(j, side)
  \/ \E f \in File : Opens(j, f) \/ Closes(j, f)
  \/ Skips(j)

(* Every step is a move of one job, and the others stay as they are. *)
LEMMA StepMoves ==
  ASSUME TypeInv, Next
  PROVE  plan' = plan /\ \E j \in Job : Others(j) /\ Move(j)
<1>1. PICK j \in Job : Start(j) \/ Work(j) \/ Crash(j)
  BY DEF Next
<1>2. /\ status \in [Job -> {"idle", "running", "ok", "failed", "crashed"}]
      /\ todo \in [Job -> Seq(Step)] /\ open \subseteq Job
      /\ loaded \in [Job -> [simulation : Job \cup {None}, analysis : Job \cup {None}]]
      /\ recorded \in [Job -> SUBSET Artifact]
  BY DEF TypeInv
<1>3. SUFFICES plan' = plan /\ Others(j) /\ Move(j)
  OBVIOUS
<1>4. CASE Start(j)
  <2>1. Starts(j) /\ Others(j) /\ plan' = plan
    BY <1>2, <1>4 DEF Start, Starts, Others, Kept, DiskStays, diskVars, Ended
  <2> QED
    BY <2>1 DEF Move
<1>5. CASE Crash(j)
  <2>1. Dies(j) /\ Others(j) /\ plan' = plan
    BY <1>2, <1>5 DEF Crash, Dies, Stops, Others, Kept, DiskStays, diskVars
  <2> QED
    BY <2>1 DEF Move
<1>6. CASE Prepare(j)
  <2>1. (Passes(j) \/ Fails(j)) /\ Others(j) /\ plan' = plan
    BY <1>2, <1>6 DEF Prepare, At, Proceed, Advance, Fail, Passes, Fails, Takes, Stops, Others,
                      Kept, DiskStays, diskVars, MayFail
  <2> QED
    BY <2>1 DEF Move
<1>7. CASE RunEngine(j)
  <2>1. (Passes(j) \/ Fails(j)) /\ Others(j) /\ plan' = plan
    BY <1>2, <1>7 DEF RunEngine, At, Proceed, Advance, Fail, Passes, Fails, Takes, Stops, Others,
                      Kept, DiskStays, diskVars, MayFail
  <2> QED
    BY <2>1 DEF Move
<1>8. CASE MakeDirectories(j)
  <2>1. Makes(j) /\ Others(j) /\ plan' = plan
    BY <1>2, <1>8 DEF MakeDirectories, At, Advance, Makes, Takes, Others, Kept
  <2> QED
    BY <2>1 DEF Move
<1>9. CASE SeeLatest(j)
  <2>1. (SeesLink(j) \/ SeesNoLink(j)) /\ Others(j) /\ plan' = plan
    BY <1>2, <1>9 DEF SeeLatest, At, SeesLink, SeesNoLink, Takes, Others, Kept, DiskStays, diskVars
  <2> QED
    BY <2>1 DEF Move
<1>10. CASE Unlink(j)
  <2>1. (Unlinks(j) \/ Fails(j)) /\ Others(j) /\ plan' = plan
    BY <1>2, <1>10 DEF Unlink, At, Proceed, Advance, Fail, Unlinks, Fails, Takes, Stops, Others,
                       Kept, DiskStays, MayFail
  <2> QED
    BY <2>1 DEF Move
<1>11. CASE Relink(j)
  <2>1. Relinks(j) /\ Others(j) /\ plan' = plan
    BY <1>2, <1>11 DEF Relink, At, Advance, Relinks, Takes, Others, Kept
  <2> QED
    BY <2>1 DEF Move
<1>12. ASSUME NEW side \in Side, Load(j, side)
       PROVE  plan' = plan /\ Others(j) /\ Move(j)
  <2> DEFINE good == Readable(Resolved(j, side), ResultOf(side))
             new == files[Resolved(j, side)][ResultOf(side)].by
  <2>1. /\ At(j, Loading(side)) /\ Proceed(j, good)
        /\ IF good
           THEN /\ loaded' = [loaded EXCEPT ![j][side] = new]
                /\ recorded' = [recorded EXCEPT ![j] =
                                  @ \cup {<<InputDir(j, side), ResultOf(side)>>}]
           ELSE UNCHANGED <<loaded, recorded>>
        /\ UNCHANGED <<open, diskVars>>
    BY <1>12 DEF Load, Loading
  <2>2. Loading(side) \in MayFail
    BY DEF Loading, MayFail
  <2>3. CASE good
    <3> HIDE DEF new
    <3>1. loaded'[j] = [loaded[j] EXCEPT ![side] = new]
      BY <1>2, <2>1, <2>3
    <3>2. Takes(j, Loading(side)) /\ plan' = plan
      BY <1>2, <2>1, <2>3 DEF At, Proceed, Advance, Takes
    <3>3. DiskStays /\ open' = open /\ Others(j)
      BY <1>2, <2>1, <2>3 DEF Proceed, Advance, DiskStays, diskVars, Others
    <3>4. recorded'[j] = recorded[j] \cup {<<InputDir(j, side), ResultOf(side)>>}
      BY <1>2, <2>1, <2>3
    <3> QED
      BY <2>3, <3>1, <3>2, <3>3, <3>4 DEF Loads, Move, new
  <2>4. CASE ~good
    <3> HIDE DEF good, new
    <3>1. Fails(j) /\ Others(j) /\ plan' = plan
      BY <1>2, <2>1, <2>2, <2>4 DEF At, Proceed, Fail, Fails, Stops, Others, Kept, DiskStays, diskVars
    <3> QED
      BY <3>1 DEF Move
  <2> QED
    BY <2>3, <2>4
<1>13. CASE OpenFile(j)
  <2>1. PICK f \in File : /\ Writes(j, f)
                          /\ files' = [files EXCEPT ![Dir(j)][f] =
                                [by |-> j, whole |-> FALSE, names |-> {}, of |-> {}]]
    BY <1>13 DEF OpenFile
  <2>2. Opens(j, f) /\ Others(j) /\ plan' = plan
    BY <1>2, <1>13, <2>1 DEF OpenFile, Writes, At, Opens, Puts, Others, Kept
  <2> QED
    BY <2>2 DEF Move
<1>14. CASE CloseFile(j)
  <2>1. PICK f \in File : /\ At(j, f)
                          /\ files' = [files EXCEPT ![Dir(j)][f] = Payload(j, f)]
                          /\ recorded' = [recorded EXCEPT ![j] = @ \cup Records(j, f)]
    BY <1>14 DEF CloseFile
  <2>2. Closes(j, f) /\ Others(j) /\ plan' = plan
    BY <1>2, <1>14, <2>1 DEF CloseFile, At, Advance, Closes, Takes, Puts, Others
  <2> QED
    BY <2>2 DEF Move
<1>15. CASE SkipExpected(j)
  <2>1. Skips(j) /\ Others(j) /\ plan' = plan
    BY <1>2, <1>15 DEF SkipExpected, At, Advance, Skips, Takes, Others, DiskStays, diskVars
  <2> QED
    BY <2>1 DEF Move
<1>16. CASE Finish(j)
  <2>1. Finishes(j) /\ Others(j) /\ plan' = plan
    BY <1>2, <1>16 DEF Finish, Finishes, Stops, Others, Kept, DiskStays, diskVars
  <2> QED
    BY <2>1 DEF Move
<1> QED
  BY <1>1, <1>4, <1>5, <1>6, <1>7, <1>8, <1>9, <1>10, <1>11, <1>12, <1>13, <1>14, <1>15, <1>16
  DEF Work, Side

(* The plan is fixed, and with it what each job is asked to do. *)
LEMMA PlanStays ==
  ASSUME plan' = plan, NEW j
  PROVE  /\ The(j)' = The(j) /\ Dir(j)' = Dir(j) /\ Steps(j)' = Steps(j)
         /\ \A side : InputDir(j, side)' = InputDir(j, side)
         /\ \A fs : Own(j, fs)' = Own(j, fs)
BY DEF The, Dir, Steps, InputDir, Own, Analyze, Simulate, Compare, RunCase, Prepared, Layout,
       Comparison, AnalysisBundle, SimulationBundle, Metadata, Trace, Json, Csv, When, Bundle

(* What is left of a job after it took a step. *)
LEMMA TakeFacts ==
  ASSUME ScriptInv, NEW j \in Job, NEW step, Takes(j, step)
  PROVE  /\ Script(todo'[j])
         /\ StepsIn(todo[j]) = {step} \cup StepsIn(todo'[j])
         /\ \A y \in StepsIn(todo'[j]) : MayFollow(step, y)
         /\ \A p \in Pair : step = p[1] => todo'[j] # <<>> /\ Head(todo'[j]) = p[2]
         /\ \A p \in Origin : todo'[j] # <<>> /\ Head(todo'[j]) = p[2] => step = p[1]
BY ScriptTail DEF ScriptInv, Takes

(* A job that finds no link goes on to put its own. *)
LEMMA SeesNoLinkFacts ==
  ASSUME ScriptInv, NEW j \in Job, SeesNoLink(j)
  PROVE  /\ Script(todo'[j])
         /\ StepsIn(todo[j]) = {"see_latest", "unlink"} \cup StepsIn(todo'[j])
         /\ todo'[j] # <<>> /\ Head(todo'[j]) = "relink"
<1> DEFINE s == todo[j]
           t == Tail(s)
<1>1. Script(s) /\ s # <<>> /\ Head(s) = "see_latest" /\ todo'[j] = Tail(t)
  BY DEF ScriptInv, SeesNoLink
<1>2. /\ Script(t) /\ StepsIn(s) = {"see_latest"} \cup StepsIn(t)
      /\ t # <<>> /\ Head(t) = "unlink"
  <2> HIDE DEF s
  <2>1. <<"see_latest", "unlink">> \in Pair
    BY DEF Pair
  <2> QED
    BY <1>1, <2>1, ScriptTail
<1>3. /\ Script(Tail(t)) /\ StepsIn(t) = {"unlink"} \cup StepsIn(Tail(t))
      /\ Tail(t) # <<>> /\ Head(Tail(t)) = "relink"
  <2> HIDE DEF t
  <2>1. <<"unlink", "relink">> \in Pair
    BY DEF Pair
  <2> QED
    BY <1>2, <2>1, ScriptTail
<1> QED
  BY <1>1, <1>2, <1>3

(* A move either leaves the rest of a script, begins it, or shortens it. *)
LEMMA MoveScript ==
  ASSUME TypeInv, ScriptInv, NEW j \in Job, Move(j)
  PROVE  /\ status[j] \in {"idle", "running"} /\ status'[j] # "idle"
         /\ Script(todo'[j]) /\ StepsIn(todo'[j]) \subseteq StepsIn(Steps(j))
         /\ status[j] = "running" => StepsIn(todo'[j]) \subseteq StepsIn(todo[j])
         /\ status'[j] = "ok" => todo'[j] = <<>>
<1>1. Script(todo[j]) /\ StepsIn(todo[j]) \subseteq StepsIn(Steps(j))
  BY DEF ScriptInv
<1>2. ASSUME NEW step, Takes(j, step)
      PROVE  /\ Script(todo'[j]) /\ StepsIn(todo'[j]) \subseteq StepsIn(todo[j])
             /\ status[j] = "running" /\ status'[j] = "running"
  BY <1>2, TakeFacts DEF Takes
<1>3. CASE Starts(j)
  <2>1. Script(Steps(j))
    BY StepsFacts DEF TypeInv
  <2> QED
    BY <1>3, <2>1 DEF Starts
<1>4. CASE Fails(j) \/ Finishes(j) \/ Dies(j) \/ \E f \in File : Opens(j, f)
  BY <1>1, <1>4 DEF Fails, Finishes, Dies, Stops, Opens
<1>5. CASE SeesNoLink(j)
  BY <1>1, <1>5, SeesNoLinkFacts DEF SeesNoLink
<1>6. CASE \E step : Takes(j, step)
  BY <1>1, <1>2, <1>6
<1>7. (\E step : Takes(j, step)) \/ Starts(j) \/ SeesNoLink(j)
        \/ Fails(j) \/ Finishes(j) \/ Dies(j) \/ \E f \in File : Opens(j, f)
  BY DEF Move, Passes, Makes, SeesLink, Unlinks, Relinks, Loads, Closes, Skips
<1> QED
  BY <1>3, <1>4, <1>5, <1>6, <1>7

(* Who has ended stays so. *)
LEMMA EndedStays ==
  ASSUME TypeInv, ScriptInv, NEW j \in Job, Others(j), Move(j), NEW k \in Job, Ended(k)
  PROVE  Ended(k)' /\ k # j /\ status'[k] = status[k]
<1>1. status[j] \in {"idle", "running"}
  BY MoveScript
<1>2. k # j
  BY <1>1 DEF Ended
<1> QED
  BY <1>2 DEF Ended, Others

(* ScriptInv is kept. *)
LEMMA ScriptStep ==
  ASSUME TypeInv, ScriptInv, plan' = plan, NEW j \in Job, Others(j), Move(j)
  PROVE  ScriptInv'
<1>1. /\ status[j] \in {"idle", "running"} /\ status'[j] # "idle"
      /\ Script(todo'[j]) /\ StepsIn(todo'[j]) \subseteq StepsIn(Steps(j))
      /\ status'[j] = "ok" => todo'[j] = <<>>
  BY MoveScript
<1>2. ASSUME NEW k \in Job
      PROVE  /\ The(k)' = The(k) /\ Steps(k)' = Steps(k)
  BY PlanStays
<1>3. ASSUME NEW k \in Job, loaded'[k] = loaded[k]
      PROVE  HasExpected(k)' = HasExpected(k)
  BY <1>3 DEF HasExpected, The
<1>4. ASSUME status'[j] # "idle"
      PROVE  \A k \in The(j).after : Ended(k)
  BY DEF ScriptInv, Move, Starts, Fails, Finishes, Dies, Stops, Passes, Makes, SeesLink,
         SeesNoLink, Unlinks, Relinks, Loads, Opens, Closes, Skips, Takes
<1>5. ASSUME j \in open'
      PROVE  /\ status'[j] = "running" /\ todo'[j] # <<>> /\ Head(todo'[j]) \in File
             /\ Head(todo'[j]) = "expected_wcrt_comparison" => HasExpected(j)'
  <2>1. CASE j \notin open
    <3>1. PICK f \in File : Opens(j, f)
      BY <1>5, <2>1 DEF Move, Starts, Fails, Finishes, Dies, Stops, Passes, Makes, SeesLink,
                        SeesNoLink, Unlinks, Relinks, Loads, Closes, Skips
    <3> QED
      BY <1>3, <3>1 DEF Opens, Kept
  <2>2. CASE j \in open
    <3>1. /\ status[j] = "running" /\ todo[j] # <<>> /\ Head(todo[j]) \in File
          /\ Head(todo[j]) = "expected_wcrt_comparison" => HasExpected(j)
      BY <2>2 DEF ScriptInv
    <3>2. Head(todo[j]) \notin Command
      BY <3>1, CaseAssumption DEF File, ResultFile, MetadataFile, Command
    <3>3. FALSE
      BY <1>5, <2>2, <3>1, <3>2
      DEF Move, Starts, Fails, Finishes, Dies, Stops, Passes, Makes, SeesLink, SeesNoLink, Unlinks,
          Relinks, Loads, Loading, Opens, Closes, Skips, Takes, MayFail, Command
    <3> QED
      BY <3>3
  <2> QED
    BY <2>1, <2>2
<1>6. ASSUME NEW k \in Job
      PROVE  (status[k] # "idle" => \A i \in The(k).after \cap Job : Ended(i)')
  <2>1. ASSUME status[k] # "idle", NEW i \in The(k).after \cap Job
        PROVE  Ended(i)'
    <3>1. Ended(i)
      BY <2>1 DEF ScriptInv
    <3> QED
      BY <3>1, EndedStays
  <2> QED
    BY <2>1
<1>7. ASSUME NEW k \in Job
      PROVE  The(k).after \subseteq Job
  BY JobFacts DEF TypeInv, JobType
<1>8. \A i \in The(j).after : Ended(i)'
  <2>1. ASSUME NEW i \in The(j).after
        PROVE  Ended(i)'
    <3>1. i \in Job /\ Ended(i)
      BY <1>1, <1>4, <1>7
    <3> QED
      BY <3>1, EndedStays
  <2> QED
    BY <2>1
<1>9. ASSUME NEW k \in Job
      PROVE  /\ Script(todo'[k])
             /\ StepsIn(todo'[k]) \subseteq StepsIn(Steps(k)')
             /\ status'[k] \in {"idle", "ok"} => todo'[k] = <<>>
             /\ status'[k] = "idle" => /\ recorded'[k] = {}
                                      /\ loaded'[k] = [simulation |-> None, analysis |-> None]
             /\ status'[k] # "idle" => \A i \in The(k)'.after : Ended(i)'
             /\ k \in open' => /\ status'[k] = "running" /\ todo'[k] # <<>>
                               /\ Head(todo'[k]) \in File
                               /\ Head(todo'[k]) = "expected_wcrt_comparison" => HasExpected(k)'
  <2>1. CASE k = j
    BY <1>1, <1>2, <1>5, <1>8, <2>1
  <2>2. CASE k # j
    <3>1. /\ status'[k] = status[k] /\ todo'[k] = todo[k]
          /\ loaded'[k] = loaded[k] /\ recorded'[k] = recorded[k]
          /\ k \in open' <=> k \in open
      BY <2>2 DEF Others
    <3>2. HasExpected(k)' = HasExpected(k)
      BY <1>3, <3>1
    <3>3. status'[k] # "idle" => \A i \in The(k)'.after : Ended(i)'
      BY <1>2, <1>6, <1>7, <3>1
    <3>4. /\ Script(todo[k])
          /\ StepsIn(todo[k]) \subseteq StepsIn(Steps(k))
          /\ status[k] \in {"idle", "ok"} => todo[k] = <<>>
          /\ status[k] = "idle" => /\ recorded[k] = {}
                                   /\ loaded[k] = [simulation |-> None, analysis |-> None]
          /\ k \in open => /\ status[k] = "running" /\ todo[k] # <<>> /\ Head(todo[k]) \in File
                           /\ Head(todo[k]) = "expected_wcrt_comparison" => HasExpected(k)
      BY DEF ScriptInv
    <3> QED
      BY <1>2, <3>1, <3>2, <3>3, <3>4
  <2> QED
    BY <2>1, <2>2
<1> QED
  BY <1>9 DEF ScriptInv

(* A step leaves what is still to do only by being taken. *)
LEMMA MoveDrops ==
  ASSUME TypeInv, ScriptInv, NEW j \in Job, Move(j), NEW x,
         x \in StepsIn(todo[j]), x \notin StepsIn(todo'[j])
  PROVE  Takes(j, x) \/ (SeesNoLink(j) /\ x \in {"see_latest", "unlink"})
<1>1. CASE Starts(j)
  <2>1. todo[j] = <<>>
    BY <1>1 DEF ScriptInv, Starts
  <2> QED
    BY <2>1 DEF StepsIn
<1>2. CASE todo'[j] = todo[j]
  BY <1>2
<1>3. CASE SeesNoLink(j)
  BY <1>3, SeesNoLinkFacts
<1>4. ASSUME NEW step, Takes(j, step)
      PROVE  x = step
  BY <1>4, TakeFacts
<1>5. (\E step : Takes(j, step)) \/ Starts(j) \/ SeesNoLink(j) \/ todo'[j] = todo[j]
  BY DEF Move, Passes, Makes, SeesLink, Unlinks, Relinks, Loads, Closes, Skips, Fails, Finishes,
         Dies, Stops, Opens
<1> QED
  BY <1>1, <1>2, <1>3, <1>4, <1>5

(* What the order of a script rules out: a file but for the manifest of    *)
(* the run is written once; nothing is read twice, nor written once it was *)
(* read; nothing is compared before it was read; and only the manifest and *)
(* the trace come after the index.                                         *)
LEMMA NeverAfter ==
  ASSUME NEW x, NEW y \in Step, MayFollow(x, y)
  PROVE  /\ x \in File \ BundleFile => x # y
         /\ \A side \in Side :
              /\ x = Loading(side) => y # Loading(side) /\ y # ResultOf(side)
              /\ x \in Compared => y # Loading(side)
         /\ x = "artifact_index" => y \in LayoutStep \cup BundleFile \cup {"trace_csv"}
<1>1. Rank(x) \in Nat /\ Rank(y) \in Nat
  BY RankNat
<1>2. File \cap LayoutStep = {}
  BY CaseAssumption DEF File, LayoutStep, ResultFile, MetadataFile, Command
<1>3. x \in File \ BundleFile => x # y
  <2>1. ASSUME x \in File \ BundleFile, x = y
        PROVE  FALSE
    <3>1. Rank(x) = 15 => x = "artifact_index"
      BY <2>1 DEF Rank, BundleFile
    <3> QED
      BY <1>1, <1>2, <2>1, <3>1 DEF MayFollow
  <2> QED
    BY <2>1
<1>4. ASSUME NEW side \in Side
      PROVE  /\ x = Loading(side) => y # Loading(side) /\ y # ResultOf(side)
             /\ x \in Compared => y # Loading(side)
  <2>1. /\ Loading(side) \notin LayoutStep /\ ResultOf(side) \notin LayoutStep
        /\ Rank(ResultOf(side)) < Rank(Loading(side))
        /\ Rank(Loading(side)) \in 9 .. 10
    BY Ranks DEF Loading, ResultOf, LayoutStep
  <2>2. x \in Compared => Rank(x) \in 11 .. 13 /\ x \notin LayoutStep
    BY Ranks DEF Compared, LayoutStep
  <2>3. Rank(ResultOf(side)) \in Nat
    BY RankNat
  <2>4. ASSUME x = Loading(side), y = Loading(side) \/ y = ResultOf(side)
        PROVE  FALSE
    BY <2>1, <2>3, <2>4 DEF MayFollow
  <2>5. ASSUME x \in Compared, y = Loading(side)
        PROVE  FALSE
    BY <2>1, <2>2, <2>5 DEF MayFollow
  <2> QED
    BY <2>4, <2>5
<1>5. x = "artifact_index" => y \in LayoutStep \cup BundleFile \cup {"trace_csv"}
  <2>1. ASSUME x = "artifact_index", y \notin LayoutStep \cup BundleFile \cup {"trace_csv"}
        PROVE  FALSE
    <3>1. Rank(x) = 15 /\ x \notin LayoutStep
      BY <2>1, Ranks DEF LayoutStep
    <3>2. y = "artifact_index" \/ Rank(y) < 15
      BY <2>1 DEF Rank, BundleFile, LayoutStep
    <3> QED
      BY <1>1, <2>1, <3>1, <3>2 DEF MayFollow
  <2> QED
    BY <2>1
<1> QED
  BY <1>3, <1>4, <1>5

(* LoadInv is kept. *)
LEMMA LoadStep ==
  ASSUME TypeInv, ScriptInv, LoadInv, plan' = plan, NEW j \in Job, Others(j), Move(j)
  PROVE  LoadInv'
<1>1. ASSUME NEW k \in Job
      PROVE  Passed(k)' = StepsIn(Steps(k)) \ StepsIn(todo'[k])
  BY PlanStays DEF Passed
<1>2. ASSUME NEW side \in Side, status'[j] # "idle"
      PROVE  Loading(side) \in Passed(j)' <=> loaded'[j][side] \in Job
  <2> DEFINE x == Loading(side)
  <2>1. CASE Starts(j)
    <3>1. Passed(j)' = {}
      BY <1>1, <2>1 DEF Starts
    <3>2. loaded'[j] = [simulation |-> None, analysis |-> None]
      BY <2>1 DEF Starts, Kept, ScriptInv
    <3> QED
      BY <3>1, <3>2, NoneAssumption DEF Side
  <2>2. CASE Loads(j, side)
    <3>1. /\ x \in StepsIn(todo[j]) /\ \A y \in StepsIn(todo'[j]) : MayFollow(x, y)
          /\ Script(todo'[j])
      BY <2>2, TakeFacts DEF Loads
    <3>2. x \notin StepsIn(todo'[j])
      <4>1. \A y \in StepsIn(todo'[j]) : y \in Step
        BY <3>1 DEF Script, StepsIn
      <4> QED
        BY <3>1, <4>1, NeverAfter
    <3>3. x \in Passed(j)'
      BY <1>1, <3>1, <3>2 DEF ScriptInv
    <3>4. /\ Resolved(j, side) \in RunId /\ ResultOf(side) \in File
          /\ files[Resolved(j, side)][ResultOf(side)] # None
      <4>1. InputDir(j, side) \in RunId \cup {None}
        BY JobFacts DEF TypeInv
      <4> QED
        BY <2>2, <4>1 DEF Loads, Readable, Resolved, ResultOf, File, ResultFile, TypeInv
    <3>5. files[Resolved(j, side)][ResultOf(side)].by \in Job
      BY <3>4 DEF TypeInv, Content
    <3>6. loaded[j] \in [simulation : Job \cup {None}, analysis : Job \cup {None}]
      BY DEF TypeInv
    <3>7. loaded'[j][side] \in Job
      BY <2>2, <3>5, <3>6 DEF Loads, Side
    <3> QED
      BY <3>3, <3>7
  <2>3. CASE ~Starts(j) /\ ~Loads(j, side)
    <3>1. loaded'[j][side] = loaded[j][side]
      <4>1. CASE loaded'[j] = loaded[j]
        BY <4>1
      <4>2. ASSUME NEW other \in Side, Loads(j, other)
            PROVE  loaded'[j][side] = loaded[j][side]
        <5>1. loaded[j] \in [simulation : Job \cup {None}, analysis : Job \cup {None}]
          BY DEF TypeInv
        <5> QED
          BY <2>3, <4>2, <5>1 DEF Loads, Side
      <4> QED
        BY <2>3, <4>1, <4>2 DEF Move, Fails, Finishes, Dies, Stops, Passes, Makes, SeesLink,
             SeesNoLink, Unlinks, Relinks, Opens, Closes, Skips, Kept
    <3>2. x \in StepsIn(todo[j]) <=> x \in StepsIn(todo'[j])
      <4>1. status[j] = "running"
        BY <2>3, MoveScript DEF Move, Fails, Finishes, Dies, Stops, Passes, Makes, SeesLink,
             SeesNoLink, Unlinks, Relinks, Loads, Opens, Closes, Skips, Takes
      <4>2. StepsIn(todo'[j]) \subseteq StepsIn(todo[j])
        BY <4>1, MoveScript
      <4>3. ASSUME x \in StepsIn(todo[j]), x \notin StepsIn(todo'[j])
            PROVE  FALSE
        <5>1. Takes(j, x)
          BY <4>3, MoveDrops DEF Loading
        <5>2. x \notin File
          BY CaseAssumption DEF Loading, File, ResultFile, MetadataFile, Command
        <5>3. Loads(j, side)
          <6>1. ASSUME NEW step, Takes(j, step)
                PROVE  step = x
            BY <5>1, <6>1 DEF Takes
          <6>2. \A other \in Side : Loading(other) = x => other = side
            BY DEF Loading, Side
          <6>3. x \notin {"prepare", "run_analysis", "run_simulation", "directories",
                          "see_latest", "unlink", "relink", "expected_wcrt_comparison"}
            BY DEF Loading
          <6>4. status'[j] = "running" /\ todo[j] # <<>> /\ Head(todo[j]) = x
            BY <5>1 DEF Takes
          <6>5. todo'[j] # todo[j]
            BY <4>3
          <6> QED
            BY <2>3, <5>2, <6>1, <6>2, <6>3, <6>4, <6>5
            DEF Move, Passes, Makes, SeesLink, SeesNoLink, Unlinks, Relinks, Loads,
                Closes, Skips, Fails, Finishes, Dies, Stops, Opens
        <5> QED
          BY <2>3, <5>3
      <4> QED
        BY <4>2, <4>3
    <3>3. status[j] # "idle"
      BY <2>3 DEF Move, Fails, Finishes, Dies, Stops, Passes, Makes, SeesLink,
             SeesNoLink, Unlinks, Relinks, Loads, Opens, Closes, Skips, Takes
    <3>4. x \in Passed(j) <=> loaded[j][side] \in Job
      BY <3>3 DEF LoadInv
    <3> QED
      BY <1>1, <3>1, <3>2, <3>4 DEF Passed
  <2> QED
    BY <2>1, <2>2, <2>3
<1>3. ASSUME NEW k \in Job, k # j
      PROVE  /\ status'[k] = status[k] /\ loaded'[k] = loaded[k] /\ Passed(k)' = Passed(k)
  BY <1>1, <1>3 DEF Others, Passed
<1>4. ASSUME NEW k \in Job, NEW side \in Side, status'[k] # "idle"
      PROVE  Loading(side) \in Passed(k)' <=> loaded'[k][side] \in Job
  <2>1. CASE k = j
    BY <1>2, <1>4, <2>1
  <2>2. CASE k # j
    BY <1>3, <1>4, <2>2 DEF LoadInv
  <2> QED
    BY <2>1, <2>2
<1> QED
  BY <1>4 DEF LoadInv

(* A comparison names the two results that were read. *)
LEMMA ComparedLoaded ==
  ASSUME TypeInv, ScriptInv, LoadInv, NEW j \in Job, status[j] = "running",
         todo[j] # <<>>, Head(todo[j]) \in Compared
  PROVE  loaded[j].simulation \in Job /\ loaded[j].analysis \in Job
<1> DEFINE f == Head(todo[j])
<1>1. Script(todo[j]) /\ StepsIn(todo[j]) \subseteq StepsIn(Steps(j))
  BY DEF ScriptInv
<1>2. /\ StepsIn(todo[j]) = {f} \cup StepsIn(Tail(todo[j]))
      /\ \A y \in StepsIn(Tail(todo[j])) : MayFollow(f, y)
      /\ Script(Tail(todo[j]))
  BY <1>1, ScriptTail
<1>3. {"load_simulation", "load_analysis"} \subseteq StepsIn(Steps(j))
  BY <1>1, <1>2, StepsFacts DEF TypeInv
<1> HIDE DEF f
<1>4. f \in Compared
  BY DEF f
<1>5. ASSUME NEW side \in Side
      PROVE  loaded[j][side] \in Job
  <2>1. Loading(side) \in StepsIn(Steps(j))
    BY <1>3 DEF Loading
  <2>2. Loading(side) # f
    BY <1>4 DEF Loading, Compared
  <2>3. Loading(side) \notin StepsIn(Tail(todo[j]))
    <3>1. \A y \in StepsIn(Tail(todo[j])) : y \in Step /\ y # Loading(side)
      <4>1. \A y \in StepsIn(Tail(todo[j])) : y \in Step
        BY <1>2 DEF Script, StepsIn
      <4> QED
        BY <1>2, <1>4, <4>1, NeverAfter
    <3> QED
      BY <3>1
  <2>4. Loading(side) \in Passed(j)
    BY <1>2, <2>1, <2>2, <2>3 DEF Passed
  <2> QED
    BY <2>4 DEF LoadInv
<1> QED
  BY <1>5 DEF Side

(* What a job writes is what files hold, and what it collects are artifacts. *)
LEMMA PayloadType ==
  ASSUME TypeInv, ScriptInv, LoadInv, NEW j \in Job, NEW f \in File, At(j, f)
  PROVE  Payload(j, f) \in Content /\ Records(j, f) \subseteq Artifact
<1>1. f \in Compared => {loaded[j].simulation, loaded[j].analysis} \subseteq Job
  BY ComparedLoaded DEF At
<1>2. recorded[j] \subseteq Artifact
  BY DEF TypeInv
<1>3. Payload(j, f).names \subseteq Artifact /\ Payload(j, f).of \subseteq Job
  BY <1>1, <1>2 DEF Payload, Compared
<1>4. Dir(j) \in RunId
  BY JobFacts DEF TypeInv
<1>5. Records(j, f) \subseteq Artifact
  BY <1>4 DEF Records, Own, Artifact, File, MetadataFile
<1>6. ASSUME NEW n \in SUBSET Artifact, NEW o \in SUBSET Job
      PROVE  [by |-> j, whole |-> TRUE, names |-> n, of |-> o] \in Content
  BY DEF Content
<1>7. Payload(j, f) \in Content
  BY <1>3, <1>6 DEF Payload
<1> QED
  BY <1>5, <1>7

(* TypeInv is kept. *)
LEMMA TypeStep ==
  ASSUME TypeInv, ScriptInv, LoadInv, Next
  PROVE  TypeInv'
<1>1. PICK j \in Job : Start(j) \/ Work(j) \/ Crash(j)
  BY DEF Next
<1>2. /\ plan \in Plans
      /\ status \in [Job -> {"idle", "running", "ok", "failed", "crashed"}]
      /\ todo \in [Job -> Seq(Step)] /\ open \subseteq Job
      /\ loaded \in [Job -> [simulation : Job \cup {None}, analysis : Job \cup {None}]]
      /\ recorded \in [Job -> SUBSET Artifact]
      /\ files \in [RunId -> [File -> Content \cup {None}]]
      /\ made \subseteq RunId /\ latest \in RunId \cup {None}
  BY DEF TypeInv
<1>3. Dir(j) \in RunId /\ \A side \in Side : InputDir(j, side) \in RunId \cup {None}
  BY JobFacts DEF TypeInv
<1>4. /\ Script(todo[j])
      /\ todo[j] # <<>> => Tail(todo[j]) \in Seq(Step)
  BY ScriptTail DEF ScriptInv, Script
<1>5. CASE Start(j)
  <2>1. Steps(j) \in Seq(Step)
    BY StepsFacts DEF TypeInv, Script
  <2>2. UNCHANGED <<plan, open, loaded, recorded, files, made, latest>>
    BY <1>5 DEF Start, diskVars
  <2>3. status' \in [Job -> {"idle", "running", "ok", "failed", "crashed"}]
    BY <1>2, <1>5 DEF Start
  <2>4. todo' \in [Job -> Seq(Step)]
    BY <1>2, <1>5, <2>1 DEF Start
  <2> QED
    BY <1>2, <2>2, <2>3, <2>4 DEF TypeInv
<1>6. CASE Crash(j) \/ Finish(j)
  <2>1. UNCHANGED <<plan, todo, loaded, recorded, files, made, latest>> /\ open' \subseteq open
    BY <1>6 DEF Crash, Finish, diskVars
  <2>2. status' \in [Job -> {"idle", "running", "ok", "failed", "crashed"}]
    BY <1>2, <1>6 DEF Crash, Finish
  <2> QED
    BY <1>2, <2>1, <2>2 DEF TypeInv
<1>7. ASSUME NEW ok, Proceed(j, ok), todo[j] # <<>>
      PROVE  /\ status' \in [Job -> {"idle", "running", "ok", "failed", "crashed"}]
             /\ todo' \in [Job -> Seq(Step)] /\ plan' = plan
  BY <1>2, <1>4, <1>7 DEF Proceed, Advance, Fail
<1>8. ASSUME Advance(j), todo[j] # <<>>
      PROVE  /\ status' \in [Job -> {"idle", "running", "ok", "failed", "crashed"}]
             /\ todo' \in [Job -> Seq(Step)] /\ plan' = plan
  BY <1>2, <1>4, <1>8 DEF Advance
<1>9. CASE Prepare(j) \/ RunEngine(j)
  <2>1. UNCHANGED <<open, loaded, recorded, files, made, latest>>
    BY <1>9 DEF Prepare, RunEngine, diskVars
  <2>2. todo[j] # <<>> /\ \E ok \in BOOLEAN : Proceed(j, ok)
    BY <1>9 DEF Prepare, RunEngine, At
  <2> QED
    BY <1>2, <1>7, <2>1, <2>2 DEF TypeInv
<1>10. CASE MakeDirectories(j)
  <2>1. /\ UNCHANGED <<open, loaded, recorded, files, latest>> /\ made' = made \cup {Dir(j)}
        /\ todo[j] # <<>> /\ Advance(j)
    BY <1>10 DEF MakeDirectories, At
  <2> QED
    BY <1>2, <1>3, <1>8, <2>1 DEF TypeInv
<1>11. CASE SeeLatest(j)
  <2>1. UNCHANGED <<plan, status, open, loaded, recorded, files, made, latest>> /\ todo[j] # <<>>
        /\ todo' = [todo EXCEPT ![j] = IF latest = None THEN Tail(Tail(@)) ELSE Tail(@)]
        /\ Head(todo[j]) = "see_latest"
    BY <1>11 DEF SeeLatest, At, diskVars
  <2>2. Tail(todo[j]) # <<>>
    <3>1. <<"see_latest", "unlink">> \in Pair
      BY DEF Pair
    <3> QED
      BY <1>4, <2>1, <3>1, ScriptTail
  <2>3. Tail(Tail(todo[j])) \in Seq(Step)
    BY <1>4, <2>1, <2>2, TailFacts
  <2>4. todo' \in [Job -> Seq(Step)]
    BY <1>2, <1>4, <2>1, <2>3
  <2> QED
    BY <1>2, <2>1, <2>4 DEF TypeInv
<1>12. CASE Unlink(j)
  <2>1. UNCHANGED <<open, loaded, recorded, files, made>> /\ latest' = None /\ todo[j] # <<>>
        /\ \E ok \in BOOLEAN : Proceed(j, ok)
    BY <1>12 DEF Unlink, At
  <2> QED
    BY <1>2, <1>7, <2>1 DEF TypeInv
<1>13. CASE Relink(j)
  <2>1. UNCHANGED <<open, loaded, recorded, files, made>> /\ latest' \in RunId \cup {None}
        /\ todo[j] # <<>> /\ Advance(j)
    BY <1>2, <1>3, <1>13 DEF Relink, At
  <2> QED
    BY <1>2, <1>8, <2>1 DEF TypeInv
<1>14. ASSUME NEW side \in Side, Load(j, side)
       PROVE  TypeInv'
  <2> DEFINE d == Resolved(j, side)
             f == ResultOf(side)
             new == files[d][f].by
  <2>1. /\ UNCHANGED <<open, files, made, latest>> /\ todo[j] # <<>>
        /\ Proceed(j, Readable(d, f))
        /\ IF Readable(d, f)
           THEN /\ loaded' = [loaded EXCEPT ![j][side] = new]
                /\ recorded' = [recorded EXCEPT ![j] = @ \cup {<<InputDir(j, side), f>>}]
           ELSE UNCHANGED <<loaded, recorded>>
    BY <1>14 DEF Load, At, diskVars
  <2>2. f \in File
    BY DEF ResultOf, File, ResultFile
  <2>3. Readable(d, f) => new \in Job
    <3>1. d \in RunId \cup {None}
      BY <1>2, <1>3 DEF Resolved
    <3>2. ASSUME Readable(d, f)
          PROVE  files[d][f] \in Content
      BY <1>2, <2>2, <3>1, <3>2 DEF Readable
    <3> QED
      BY <3>2 DEF Content
  <2>4. <<InputDir(j, side), f>> \in Artifact
    BY <1>3, <2>2 DEF Artifact
  <2>5. /\ status' \in [Job -> {"idle", "running", "ok", "failed", "crashed"}]
        /\ todo' \in [Job -> Seq(Step)] /\ plan' = plan
    BY <1>7, <2>1
  <2> HIDE DEF d, f, new
  <2>6. loaded' \in [Job -> [simulation : Job \cup {None}, analysis : Job \cup {None}]]
    <3>1. CASE Readable(d, f)
      <4>1. loaded' = [loaded EXCEPT ![j][side] = new] /\ new \in Job
        BY <2>1, <2>3, <3>1
      <4>2. [loaded[j] EXCEPT ![side] = new] \in
              [simulation : Job \cup {None}, analysis : Job \cup {None}]
        BY <1>2, <4>1 DEF Side
      <4> QED
        BY <1>2, <4>1, <4>2
    <3>2. CASE ~Readable(d, f)
      BY <1>2, <2>1, <3>2
    <3> QED
      BY <3>1, <3>2
  <2>7. recorded' \in [Job -> SUBSET Artifact]
    <3>1. CASE Readable(d, f)
      <4> DEFINE r == recorded[j] \cup {<<InputDir(j, side), f>>}
      <4>1. recorded' = [recorded EXCEPT ![j] = r]
        BY <2>1, <3>1
      <4>2. r \in SUBSET Artifact
        BY <1>2, <2>4
      <4> HIDE DEF r
      <4> QED
        BY <1>2, <4>1, <4>2
    <3>2. CASE ~Readable(d, f)
      BY <1>2, <2>1, <3>2
    <3> QED
      BY <3>1, <3>2
  <2> QED
    BY <1>2, <2>1, <2>5, <2>6, <2>7 DEF TypeInv
<1>15. CASE OpenFile(j)
  <2> DEFINE c == [by |-> j, whole |-> FALSE, names |-> {}, of |-> {}]
  <2>1. PICK f \in File : files' = [files EXCEPT ![Dir(j)][f] = c]
    BY <1>15 DEF OpenFile
  <2>2. UNCHANGED <<plan, status, todo, loaded, recorded, made, latest>> /\ open' = open \cup {j}
    BY <1>15 DEF OpenFile
  <2>3. c \in Content
    BY DEF Content
  <2> HIDE DEF c
  <2>4. files' \in [RunId -> [File -> Content \cup {None}]]
    BY <1>2, <1>3, <2>1, <2>3
  <2> QED
    BY <1>2, <2>2, <2>4 DEF TypeInv
<1>16. CASE CloseFile(j)
  <2>1. PICK f \in File : /\ At(j, f)
                         /\ files' = [files EXCEPT ![Dir(j)][f] = Payload(j, f)]
                         /\ recorded' = [recorded EXCEPT ![j] = @ \cup Records(j, f)]
    BY <1>16 DEF CloseFile
  <2>2. UNCHANGED <<loaded, made, latest>> /\ open' = open \ {j} /\ Advance(j)
    BY <1>16 DEF CloseFile
  <2>3. Payload(j, f) \in Content /\ Records(j, f) \subseteq Artifact /\ todo[j] # <<>>
    BY <2>1, PayloadType DEF At
  <2>4. files' \in [RunId -> [File -> Content \cup {None}]]
    BY <1>2, <1>3, <2>1, <2>3
  <2>5. recorded' \in [Job -> SUBSET Artifact]
    BY <1>2, <2>1, <2>3
  <2> QED
    BY <1>2, <1>8, <2>2, <2>3, <2>4, <2>5 DEF TypeInv
<1>17. CASE SkipExpected(j)
  <2> DEFINE own == Own(j, {"expected_wcrt_comparison"})
  <2>1. /\ UNCHANGED <<open, loaded, files, made, latest>> /\ todo[j] # <<>> /\ Advance(j)
        /\ recorded' = [recorded EXCEPT ![j] = @ \cup
             {a \in own : The(j).kind = "run-case" /\ files[a[1]][a[2]] # None}]
    BY <1>17 DEF SkipExpected, At, diskVars
  <2>2. own \subseteq Artifact
    BY <1>3 DEF Own, Artifact, File, ResultFile
  <2> HIDE DEF own
  <2>3. recorded' \in [Job -> SUBSET Artifact]
    BY <1>2, <2>1, <2>2
  <2> QED
    BY <1>2, <1>8, <2>1, <2>3 DEF TypeInv
<1> QED
  BY <1>1, <1>5, <1>6, <1>9, <1>10, <1>11, <1>12, <1>13, <1>14, <1>15, <1>16, <1>17 DEF Work, Side

CoreInv == TypeInv /\ ScriptInv /\ LoadInv

(* Every job starts with nothing done. *)
LEMMA CoreInit ==
  ASSUME Init
  PROVE  CoreInv
<1>1. Script(<<>>) /\ StepsIn(<<>>) = {}
  BY DEF Script, InOrder, Joined, StepsIn
<1>2. TypeInv
  BY DEF Init, TypeInv
<1>3. ScriptInv
  BY <1>1 DEF Init, ScriptInv
<1>4. LoadInv
  BY DEF Init, LoadInv
<1> QED
  BY <1>2, <1>3, <1>4 DEF CoreInv

(* CoreInv is kept by every step. *)
LEMMA CoreStep ==
  ASSUME CoreInv, [Next]_vars
  PROVE  CoreInv'
<1>1. CASE Next
  <2>1. plan' = plan /\ \E j \in Job : Others(j) /\ Move(j)
    BY <1>1, StepMoves DEF CoreInv
  <2> QED
    BY <1>1, <2>1, TypeStep, ScriptStep, LoadStep DEF CoreInv
<1>2. CASE UNCHANGED vars
  <2>1. ASSUME NEW j \in Job
        PROVE  The(j)' = The(j) /\ Steps(j)' = Steps(j) /\ HasExpected(j)' = HasExpected(j)
    BY <1>2, PlanStays DEF vars, HasExpected, The
  <2>2. TypeInv'
    BY <1>2 DEF vars, CoreInv, TypeInv
  <2>3. ScriptInv'
    BY <1>2, <2>1 DEF vars, CoreInv, ScriptInv, Ended
  <2>4. LoadInv'
    BY <1>2, <2>1 DEF vars, CoreInv, LoadInv, Passed
  <2> QED
    BY <2>2, <2>3, <2>4 DEF CoreInv
<1> QED
  BY <1>1, <1>2

(* Every variable of the commands keeps its type, whatever the jobs, their *)
(* options and the cases: in particular no comparison is written of a      *)
(* result that was not read (RunPipelineProperties.TypeOK).                *)
THEOREM PipelineTypes == Spec => []TypeOK
<1>1. Init => CoreInv
  BY CoreInit
<1>2. CoreInv /\ [Next]_vars => CoreInv'
  BY CoreStep
<1>3. CoreInv => TypeOK
  BY PlansAssumption DEF CoreInv, TypeInv, TypeOK, Content
<1> QED
  BY <1>1, <1>2, <1>3, PTL DEF Spec

-----------------------------------------------------------------------------
(* Files and records                                                       *)

(* What a step does to the content of one file. *)
LEMMA FileMoves ==
  ASSUME TypeInv, NEW j \in Job, Move(j), NEW d \in RunId, NEW g \in File
  PROVE  \/ files'[d][g] = files[d][g]
         \/ /\ d = Dir(j)
            /\ \/ Opens(j, g) /\ files'[d][g] = [by |-> j, whole |-> FALSE, names |-> {}, of |-> {}]
               \/ Closes(j, g) /\ files'[d][g] = Payload(j, g)
<1>1. files \in [RunId -> [File -> Content \cup {None}]]
  BY DEF TypeInv
<1>2. Dir(j) \in RunId
  BY JobFacts DEF TypeInv
<1>3. ASSUME NEW f \in File, NEW c, Puts(j, f, c)
      PROVE  files'[d][g] = IF d = Dir(j) /\ g = f THEN c ELSE files[d][g]
  BY <1>1, <1>2, <1>3 DEF Puts
<1>4. CASE \E f \in File : Opens(j, f)
  <2>1. PICK f \in File : Opens(j, f)
    BY <1>4
  <2>2. files'[d][g] = IF d = Dir(j) /\ g = f
                       THEN [by |-> j, whole |-> FALSE, names |-> {}, of |-> {}]
                       ELSE files[d][g]
    BY <1>3, <2>1 DEF Opens
  <2> QED
    BY <2>1, <2>2
<1>5. CASE \E f \in File : Closes(j, f)
  <2>1. PICK f \in File : Closes(j, f)
    BY <1>5
  <2>2. files'[d][g] = IF d = Dir(j) /\ g = f THEN Payload(j, f) ELSE files[d][g]
    BY <1>3, <2>1 DEF Closes
  <2> QED
    BY <2>1, <2>2
<1>6. files' = files \/ \E f \in File : Opens(j, f) \/ Closes(j, f)
  BY DEF Move, Starts, Fails, Finishes, Dies, Stops, Passes, Makes, SeesLink, SeesNoLink, Unlinks,
         Relinks, Loads, Skips, DiskStays
<1> QED
  BY <1>4, <1>5, <1>6

(* A step that is taken is gone. *)
LEMMA TailShorter ==
  ASSUME NEW s \in Seq(Step), s # <<>>
  PROVE  Tail(s) # s
<1>1. Len(s) \in Nat /\ Len(Tail(s)) = Len(s) - 1
  BY TailFacts
<1>2. Len(Tail(s)) # Len(s)
  <2> DEFINE n == Len(s)
             m == Len(Tail(s))
  <2>1. n \in Nat /\ m = n - 1
    BY <1>1
  <2> HIDE DEF n, m
  <2>2. m # n
    BY <2>1
  <2> QED
    BY <2>2 DEF n, m
<1> QED
  BY <1>2

(* Which move takes a step. *)
LEMMA TakesIs ==
  ASSUME ScriptInv, NEW j \in Job, Move(j), NEW x, Takes(j, x)
  PROVE  /\ x \in File => Closes(j, x) \/ (Skips(j) /\ x = "expected_wcrt_comparison")
         /\ x \notin File =>
              \/ Passes(j) /\ x \in {"prepare", "run_analysis", "run_simulation"}
              \/ Makes(j) /\ x = "directories"
              \/ SeesLink(j) /\ x = "see_latest"
              \/ Unlinks(j) /\ x = "unlink"
              \/ Relinks(j) /\ x = "relink"
              \/ \E side \in Side : Loads(j, side) /\ x = Loading(side)
<1>1. /\ status[j] = "running" /\ status'[j] = "running" /\ todo[j] # <<>>
      /\ Head(todo[j]) = x /\ todo'[j] = Tail(todo[j])
  BY DEF Takes
<1>2. todo[j] \in Seq(Step) /\ todo'[j] # todo[j]
  <2>1. todo[j] \in Seq(Step)
    BY DEF ScriptInv, Script
  <2> QED
    BY <1>1, <2>1, TailShorter
<1>3. ~SeesNoLink(j)
  <2>1. ASSUME SeesNoLink(j)
        PROVE  FALSE
    <3>1. <<"see_latest", "unlink">> \in Pair
      BY DEF Pair
    <3>2. Script(todo[j]) /\ Head(todo[j]) = "see_latest"
      BY <2>1 DEF ScriptInv, SeesNoLink
    <3>3. Tail(todo[j]) # <<>> /\ Script(Tail(todo[j]))
      BY <1>1, <3>1, <3>2, ScriptTail
    <3>4. Tail(Tail(todo[j])) = Tail(todo[j])
      BY <1>1, <2>1 DEF SeesNoLink
    <3> QED
      BY <3>3, <3>4, TailShorter DEF Script
  <2> QED
    BY <2>1
<1>4. \/ Passes(j) \/ Makes(j) \/ SeesLink(j) \/ Unlinks(j) \/ Relinks(j)
      \/ (\E side \in Side : Loads(j, side)) \/ (\E f \in File : Closes(j, f)) \/ Skips(j)
  BY <1>1, <1>2, <1>3 DEF Move, Starts, Fails, Finishes, Dies, Stops, Opens
<1>5. /\ Passes(j) => x \in {"prepare", "run_analysis", "run_simulation"}
      /\ Makes(j) => x = "directories"
      /\ SeesLink(j) => x = "see_latest"
      /\ Unlinks(j) => x = "unlink"
      /\ Relinks(j) => x = "relink"
      /\ \A side \in Side : Loads(j, side) => x = Loading(side)
      /\ \A f \in File : Closes(j, f) => x = f
      /\ Skips(j) => x = "expected_wcrt_comparison"
  BY <1>1 DEF Passes, Makes, SeesLink, Unlinks, Relinks, Loads, Closes, Skips, Takes
<1>6. \A y \in Command : y \notin File
  BY CaseAssumption DEF Command, File, ResultFile, MetadataFile
<1>7. "expected_wcrt_comparison" \in File
  BY DEF File, ResultFile
<1>8. \A side \in Side : Loading(side) \in Command
  BY DEF Loading, Command
<1>9. {"prepare", "run_analysis", "run_simulation", "directories", "see_latest", "unlink",
       "relink"} \subseteq Command
  BY DEF Command
<1> QED
  BY <1>4, <1>5, <1>6, <1>7, <1>8, <1>9

(* A job with a file open completes it or is killed. *)
LEMMA OpenMoves ==
  ASSUME ScriptInv, NEW j \in Job, j \in open, Move(j)
  PROVE  Dies(j) \/ (Head(todo[j]) \in File /\ Closes(j, Head(todo[j])))
<1>1. /\ status[j] = "running" /\ todo[j] # <<>> /\ Head(todo[j]) \in File
      /\ Head(todo[j]) = "expected_wcrt_comparison" => HasExpected(j)
  BY DEF ScriptInv
<1>2. Head(todo[j]) \notin Command
  BY <1>1, CaseAssumption DEF File, ResultFile, MetadataFile, Command
<1>3. /\ ~Starts(j) /\ ~Fails(j) /\ ~Finishes(j)
  BY <1>1, <1>2 DEF Starts, Fails, Finishes, MayFail, Command
<1>4. /\ ~Passes(j) /\ ~Makes(j) /\ ~SeesLink(j) /\ ~SeesNoLink(j) /\ ~Unlinks(j) /\ ~Relinks(j)
      /\ \A side \in Side : ~Loads(j, side)
  BY <1>2 DEF Passes, Makes, SeesLink, SeesNoLink, Unlinks, Relinks, Loads, Loading, Takes, Command
<1>5. ~Skips(j)
  BY <1>1 DEF Skips, Takes
<1>6. \A f \in File : ~Opens(j, f) /\ (Closes(j, f) => f = Head(todo[j]))
  BY DEF Opens, Closes, Takes
<1> QED
  BY <1>1, <1>3, <1>4, <1>5, <1>6 DEF Move

(* What is written is there. *)
LEMMA WrittenIsThere ==
  ASSUME TypeInv, ScriptInv, LoadInv, NEW j \in Job, Move(j), NEW f \in File
  PROVE  /\ Opens(j, f) => files'[Dir(j)][f] = [by |-> j, whole |-> FALSE, names |-> {}, of |-> {}]
         /\ Closes(j, f) => files'[Dir(j)][f] = Payload(j, f)
         /\ Closes(j, f) => Payload(j, f) # None
         /\ [by |-> j, whole |-> FALSE, names |-> {}, of |-> {}] # None
         /\ \A d \in RunId : files[d][f] # None => files'[d][f] # None
<1>1. files \in [RunId -> [File -> Content \cup {None}]] /\ Dir(j) \in RunId
  BY JobFacts DEF TypeInv
<1>2. ASSUME NEW c, Puts(j, f, c)
      PROVE  files'[Dir(j)][f] = c
  BY <1>1, <1>2 DEF Puts
<1>3. Closes(j, f) => Payload(j, f) # None
  <2>1. ASSUME Closes(j, f)
        PROVE  Payload(j, f) \in Content
    <3>1. At(j, f)
      BY <2>1 DEF Closes, Takes, At
    <3> QED
      BY <3>1, PayloadType
  <2> QED
    BY <2>1, NoneAssumption
<1>4. [by |-> j, whole |-> FALSE, names |-> {}, of |-> {}] # None
  <2>1. [by |-> j, whole |-> FALSE, names |-> {}, of |-> {}] \in Content
    BY DEF Content
  <2> QED
    BY <2>1, NoneAssumption
<1>5. ASSUME NEW d \in RunId, files[d][f] # None
      PROVE  files'[d][f] # None
  BY <1>3, <1>4, <1>5, FileMoves
<1> QED
  BY <1>2, <1>3, <1>4, <1>5 DEF Opens, Closes

(* What is collected stays collected. *)
LEMMA RecordedGrows ==
  ASSUME NEW j \in Job, Others(j), Move(j), NEW k \in Job
  PROVE  recorded[k] \subseteq recorded'[k]
<1>1. CASE k = j
  BY <1>1 DEF Move, Starts, Fails, Finishes, Dies, Stops, Passes, Makes, SeesLink, SeesNoLink,
              Unlinks, Relinks, Loads, Opens, Closes, Skips, Kept
<1>2. CASE k # j
  BY <1>2 DEF Others
<1> QED
  BY <1>1, <1>2

(* A file that a job has completed is not written again, but for the       *)
(* manifest of the run.                                                    *)
LEMMA CompletedOnce ==
  ASSUME TypeInv, ScriptInv, NEW j \in Job, NEW f \in File, Takes(j, f), f \notin BundleFile
  PROVE  f \notin StepsIn(todo'[j])
<1>1. /\ \A y \in StepsIn(todo'[j]) : MayFollow(f, y)
      /\ Script(todo'[j])
  BY TakeFacts
<1>2. \A y \in StepsIn(todo'[j]) : y \in Step
  BY <1>1 DEF Script, StepsIn
<1>3. \A y \in StepsIn(todo'[j]) : f # y
  BY <1>1, <1>2, NeverAfter
<1> QED
  BY <1>3

(* FileInv is kept. *)
LEMMA FileStep ==
  ASSUME CoreInv, FileInv, plan' = plan, CoreInv', NEW j \in Job, Others(j), Move(j)
  PROVE  FileInv'
<1> USE DEF CoreInv
<1>1. SUFFICES ASSUME NEW d \in RunId, NEW g \in File, files'[d][g] # None,
                      NEW c, c = files'[d][g], NEW k \in Job, k = c.by
               PROVE  /\ d = Dir(k) /\ status'[k] # "idle"
                      /\ g \in StepsIn(Steps(k))
                      /\ c.names \subseteq recorded'[k]
                      /\ ~c.whole => \/ status'[k] = "crashed"
                                     \/ (k \in open' /\ Head(todo'[k]) = g)
                      /\ g \in StepsIn(todo'[k]) /\ g \notin BundleFile
                           /\ status'[k] # "crashed" => k \in open' /\ Head(todo'[k]) = g
                      /\ c.whole /\ g \in Compared =>
                           c.of = {loaded'[k].simulation, loaded'[k].analysis}
                      /\ c.whole /\ g \notin BundleFile \cup {"trace_csv"} =>
                           <<d, g>> \in recorded'[k]
  <2>1. \A k : Dir(k)' = Dir(k) /\ Steps(k)' = Steps(k)
    BY PlanStays
  <2>2. ASSUME NEW d \in RunId, NEW g \in File, NEW k \in Job,
               files'[d][g] # None, files'[d][g].by = k
        PROVE  Sourced(d, g, k)'
    <3>1. Dir(k)' = Dir(k) /\ Steps(k)' = Steps(k)
      BY <2>1
    <3> QED
      BY <2>2, <3>1 DEF Sourced
  <2> QED
    BY <2>2 DEF FileInv
<1>2. /\ status[j] \in {"idle", "running"} /\ status'[j] # "idle"
      /\ status[j] = "running" => StepsIn(todo'[j]) \subseteq StepsIn(todo[j])
  BY MoveScript
<1>3. StepsIn(todo[j]) \subseteq StepsIn(Steps(j)) /\ Script(todo[j])
  BY DEF ScriptInv
<1>4. CASE d = Dir(j) /\ Opens(j, g) /\ c = [by |-> j, whole |-> FALSE, names |-> {}, of |-> {}]
  <2>1. /\ k = j /\ c.names = {} /\ c.whole = FALSE
        /\ j \in open' /\ Head(todo'[j]) = g /\ todo[j] # <<>> /\ Head(todo[j]) = g
    BY <1>1, <1>4 DEF Opens
  <2>2. g \in StepsIn(todo[j])
    BY <1>3, <2>1, ScriptTail
  <2> QED
    BY <1>2, <1>3, <1>4, <2>1, <2>2
<1>5. CASE d = Dir(j) /\ Closes(j, g) /\ c = Payload(j, g)
  <2>1. /\ k = j /\ c.names \subseteq recorded[j] /\ c.whole = TRUE
        /\ g \in Compared => c.of = {loaded[j].simulation, loaded[j].analysis}
    BY <1>1, <1>5 DEF Payload, Compared
  <2>2. /\ Takes(j, g) /\ loaded'[j] = loaded[j]
        /\ recorded'[j] = recorded[j] \cup Records(j, g)
    BY <1>5 DEF Closes
  <2>3. g \in StepsIn(todo[j])
    BY <2>2, TakeFacts
  <2>4. g \notin BundleFile => g \notin StepsIn(todo'[j])
    BY <2>2, CompletedOnce
  <2>5. g \notin BundleFile \cup {"trace_csv"} => <<d, g>> \in Records(j, g)
    BY <1>5 DEF Records, Own, BundleFile
  <2> QED
    BY <1>2, <1>3, <1>5, <2>1, <2>2, <2>3, <2>4, <2>5
<1>6. CASE files'[d][g] = files[d][g]
  <2>1. /\ d = Dir(k) /\ status[k] # "idle"
        /\ g \in StepsIn(Steps(k))
        /\ c.names \subseteq recorded[k]
        /\ ~c.whole => status[k] = "crashed" \/ (k \in open /\ Head(todo[k]) = g)
        /\ g \in StepsIn(todo[k]) /\ g \notin BundleFile /\ status[k] # "crashed" =>
             k \in open /\ Head(todo[k]) = g
        /\ c.whole /\ g \in Compared => c.of = {loaded[k].simulation, loaded[k].analysis}
        /\ c.whole /\ g \notin BundleFile \cup {"trace_csv"} => <<d, g>> \in recorded[k]
    BY <1>1, <1>6 DEF FileInv, Sourced
  <2>2. c \in Content
    BY <1>1, <1>6 DEF TypeInv
  <2>3. k \in Job /\ c.of \subseteq Job /\ c.whole \in BOOLEAN
    BY <1>1, <2>2 DEF Content
  <2>4. recorded[k] \subseteq recorded'[k]
    BY <2>3, RecordedGrows
  <2>5. CASE k # j
    <3>1. /\ status'[k] = status[k] /\ todo'[k] = todo[k] /\ loaded'[k] = loaded[k]
          /\ recorded'[k] = recorded[k] /\ (k \in open' <=> k \in open)
      BY <2>3, <2>5 DEF Others
    <3> QED
      BY <2>1, <3>1
  <2>6. CASE k = j
    <3>1. status[j] = "running"
      BY <1>2, <2>1, <2>6
    <3>2. j \in open /\ Head(todo[j]) = g => Dies(j) \/ Closes(j, g)
      BY OpenMoves
    <3>3. Dies(j) => status'[j] = "crashed"
      BY DEF Dies, Stops
    <3>4. Closes(j, g) => c.whole
      <4>1. ASSUME Closes(j, g)
            PROVE  c = Payload(j, g)
        <5>1. files'[Dir(j)][g] = Payload(j, g)
          BY <4>1, WrittenIsThere
        <5> QED
          BY <1>1, <2>1, <2>6, <5>1
      <4> QED
        BY <4>1 DEF Payload
    <3>5. ~c.whole => status'[j] = "crashed"
      BY <2>1, <2>6, <3>1, <3>2, <3>3, <3>4
    <3>6. g \in StepsIn(todo'[j]) /\ g \notin BundleFile => status'[j] = "crashed"
      <4>1. ASSUME g \in StepsIn(todo'[j]), g \notin BundleFile
            PROVE  status'[j] = "crashed"
        <5>1. j \in open /\ Head(todo[j]) = g
          BY <1>2, <2>1, <2>6, <3>1, <4>1
        <5>2. Closes(j, g) => g \notin StepsIn(todo'[j])
          BY <4>1, CompletedOnce DEF Closes
        <5> QED
          BY <3>2, <3>3, <4>1, <5>1, <5>2
      <4> QED
        BY <4>1
    <3>7. c.whole /\ g \in Compared => loaded'[j] = loaded[j]
      <4>1. ASSUME c.whole, g \in Compared, NEW side \in Side, Loads(j, side)
            PROVE  FALSE
        <5>1. Loading(side) \in StepsIn(todo[j])
          BY <4>1, TakeFacts DEF Loads
        <5>2. loaded[j][side] \notin Job
          BY <3>1, <5>1 DEF LoadInv, Passed
        <5>3. loaded[j][side] \in c.of
          BY <2>1, <2>6, <4>1 DEF Side
        <5> QED
          BY <2>3, <5>2, <5>3
      <4>2. ASSUME ~\E side \in Side : Loads(j, side)
            PROVE  loaded'[j] = loaded[j]
        BY <4>2 DEF Move, Starts, Fails, Finishes, Dies, Stops, Passes, Makes, SeesLink, SeesNoLink,
                    Unlinks, Relinks, Opens, Closes, Skips, Kept
      <4> QED
        BY <4>1, <4>2
    <3> QED
      BY <1>2, <2>1, <2>4, <2>6, <3>5, <3>6, <3>7
  <2> QED
    BY <2>5, <2>6
<1> QED
  BY <1>1, <1>4, <1>5, <1>6, FileMoves

(* An artifact that job k may name: it is there, and k has completed it.   *)
Settled(k, a) ==
  LET named == files[a[1]][a[2]]
  IN  named # None /\ (named.whole \/ named.by # k \/ a[2] \in BundleFile)

(* An artifact that was collected stays as it should be. *)
LEMMA SettledStays ==
  ASSUME CoreInv, RecordInv, NEW j \in Job, Move(j), NEW k \in Job, NEW a \in recorded[k],
         a[1] # None
  PROVE  Settled(k, a)'
<1> USE DEF CoreInv
<1>1. a[1] \in RunId /\ a[2] \in File /\ a = <<a[1], a[2]>>
  BY DEF TypeInv, Artifact
<1>2. Settled(k, a)
  BY DEF RecordInv, Settled
<1>3. CASE files'[a[1]][a[2]] = files[a[1]][a[2]]
  BY <1>2, <1>3 DEF Settled
<1>4. CASE a[1] = Dir(j) /\ Closes(j, a[2]) /\ files'[a[1]][a[2]] = Payload(j, a[2])
  <2>1. Payload(j, a[2]) # None /\ Payload(j, a[2]).whole
    BY <1>1, <1>4, WrittenIsThere DEF Payload
  <2> QED
    BY <1>4, <2>1 DEF Settled
<1>5. CASE /\ a[1] = Dir(j) /\ Opens(j, a[2])
           /\ files'[a[1]][a[2]] = [by |-> j, whole |-> FALSE, names |-> {}, of |-> {}]
  <2>1. [by |-> j, whole |-> FALSE, names |-> {}, of |-> {}] # None
    BY <1>1, WrittenIsThere
  <2>2. CASE k # j
    BY <1>5, <2>1, <2>2 DEF Settled
  <2>3. CASE k = j /\ a[2] \notin BundleFile
    <3>1. a[2] \in StepsIn(todo[j])
      <4>1. todo[j] # <<>> /\ Head(todo[j]) = a[2] /\ Script(todo[j])
        BY <1>5 DEF Opens, ScriptInv
      <4> QED
        BY <4>1, ScriptTail
    <3>2. <<Dir(j), a[2]>> \notin recorded[j]
      BY <1>1, <2>3, <3>1 DEF RecordInv
    <3> QED
      BY <1>1, <1>5, <2>3, <3>2
  <2>4. CASE a[2] \in BundleFile
    BY <1>5, <2>1, <2>4 DEF Settled
  <2> QED
    BY <2>2, <2>3, <2>4
<1> QED
  BY <1>1, <1>3, <1>4, <1>5, FileMoves

(* What a step adds to what its job has collected. *)
LEMMA NewRecords ==
  ASSUME CoreInv, FileInv, RecordInv, NEW j \in Job, Move(j), NEW a \in recorded'[j], a \notin recorded[j]
  PROVE  /\ a[1] # None => Settled(j, a)'
         /\ \/ \E side \in Side : Loads(j, side) /\ a = <<InputDir(j, side), ResultOf(side)>>
            \/ \E f \in File : Closes(j, f) /\ a \in Records(j, f)
            \/ Skips(j) /\ a = <<Dir(j), "expected_wcrt_comparison">>
<1> USE DEF CoreInv
<1>1. \/ \E side \in Side : Loads(j, side)
      \/ \E f \in File : Closes(j, f)
      \/ Skips(j)
  BY DEF Move, Starts, Fails, Finishes, Dies, Stops, Passes, Makes, SeesLink, SeesNoLink,
         Unlinks, Relinks, Opens, Kept
<1>2. ASSUME NEW side \in Side, Loads(j, side)
      PROVE  /\ a = <<InputDir(j, side), ResultOf(side)>>
             /\ a[1] # None => Settled(j, a)'
  <2>1. a = <<InputDir(j, side), ResultOf(side)>>
    BY <1>2 DEF Loads
  <2>2. a[1] # None => Resolved(j, side) = a[1]
    BY <2>1 DEF Resolved
  <2>3. files' = files /\ Readable(Resolved(j, side), ResultOf(side))
    BY <1>2 DEF Loads, DiskStays
  <2> QED
    BY <2>1, <2>2, <2>3 DEF Readable, Settled
<1>3. ASSUME NEW f \in File, Closes(j, f)
      PROVE  /\ a \in Records(j, f)
             /\ Settled(j, a)'
  <2>1. a \in Records(j, f)
    BY <1>3 DEF Closes
  <2>2. files'[Dir(j)][f] = Payload(j, f) /\ Payload(j, f) # None /\ Payload(j, f).whole
    BY <1>3, WrittenIsThere DEF Payload
  <2>3. CASE f # "run_metadata"
    <3>1. a = <<Dir(j), f>>
      BY <2>1, <2>3 DEF Records, Own
    <3> QED
      BY <2>1, <2>2, <3>1 DEF Settled
  <2>4. CASE f = "run_metadata"
    <3>1. a = <<Dir(j), "run_manifest">> \/ a = <<Dir(j), "run_metadata">>
      BY <2>1, <2>4 DEF Records, Own
    <3>2. files[Dir(j)]["run_manifest"] # None
      BY <1>3, <2>4 DEF Closes, Takes, RecordInv
    <3>3. files'[Dir(j)]["run_manifest"] # None
      <4>1. "run_manifest" \in File /\ Dir(j) \in RunId
        BY JobFacts DEF File, MetadataFile, TypeInv
      <4> QED
        BY <3>2, <4>1, WrittenIsThere
    <3> QED
      BY <2>1, <2>2, <2>4, <3>1, <3>3 DEF Settled, BundleFile
  <2> QED
    BY <2>3, <2>4, <2>1
<1>4. CASE Skips(j)
  <2> DEFINE f == "expected_wcrt_comparison"
  <2>1. a = <<Dir(j), f>> /\ files[a[1]][a[2]] # None /\ files' = files
    BY <1>4 DEF Skips, Own, DiskStays
  <2>2. f \in File /\ Dir(j) \in RunId
    BY JobFacts DEF TypeInv, File, ResultFile
  <2>3. status[j] = "running" /\ Head(todo[j]) = f /\ ~HasExpected(j)
    BY <1>4 DEF Skips, Takes
  <2>4. ASSUME files[Dir(j)][f].by = j, ~files[Dir(j)][f].whole
        PROVE  FALSE
    <3>1. j \in open
      BY <2>1, <2>2, <2>3, <2>4 DEF FileInv, Sourced
    <3> QED
      BY <2>3, <3>1 DEF ScriptInv
  <2> QED
    BY <1>4, <2>1, <2>4 DEF Settled
<1> QED
  BY <1>1, <1>2, <1>3, <1>4

(* RecordInv is kept. *)
LEMMA RecordStep ==
  ASSUME CoreInv, FileInv, RecordInv, plan' = plan, CoreInv', NEW j \in Job, Others(j), Move(j)
  PROVE  RecordInv'
<1> USE DEF CoreInv
<1>1. \A k : Dir(k)' = Dir(k)
  BY PlanStays
<1>2. ASSUME NEW k \in Job, NEW a \in recorded'[k], a[1] # None
      PROVE  Settled(k, a)'
  <2>1. CASE a \in recorded[k]
    BY <1>2, <2>1, SettledStays
  <2>2. CASE a \notin recorded[k]
    <3>1. k = j
      BY <2>2, <1>2 DEF Others
    <3> QED
      BY <1>2, <2>2, <3>1, NewRecords
  <2> QED
    BY <2>1, <2>2
<1>3. ASSUME NEW f \in StepsIn(todo'[j]) \cap File, f \notin BundleFile
      PROVE  <<Dir(j), f>> \notin recorded'[j]
  <2>1. f \in Step /\ Script(todo'[j])
    BY MoveScript DEF Step
  <2>2. CASE Starts(j)
    BY <2>2 DEF Starts, Kept, ScriptInv
  <2>3. CASE ~Starts(j)
    <3>1. status[j] = "running"
      BY <2>3, MoveScript DEF Move, Fails, Finishes, Dies, Stops, Passes, Makes, SeesLink,
         SeesNoLink, Unlinks, Relinks, Loads, Opens, Closes, Skips, Takes
    <3>2. <<Dir(j), f>> \notin recorded[j]
      <4>1. f \in StepsIn(todo[j])
        BY <3>1, MoveScript
      <4> QED
        BY <1>3, <4>1 DEF RecordInv
    <3>3. ASSUME NEW side \in Side, Loads(j, side)
          PROVE  f # ResultOf(side)
      <4>1. MayFollow(Loading(side), f)
        BY <3>3, TakeFacts DEF Loads
      <4> QED
        BY <2>1, <4>1, NeverAfter
    <3>4. ASSUME NEW g \in File, Closes(j, g)
          PROVE  <<Dir(j), f>> \notin Records(j, g)
      <4>1. g \notin BundleFile => g # f
        BY <3>4, CompletedOnce DEF Closes
      <4> QED
        BY <1>3, <4>1 DEF Records, Own, BundleFile
    <3>5. Skips(j) => f # "expected_wcrt_comparison"
      <4>1. "expected_wcrt_comparison" \in File \ BundleFile
        BY DEF File, ResultFile, BundleFile
      <4> QED
        BY <4>1, CompletedOnce DEF Skips
    <3>6. ASSUME <<Dir(j), f>> \in recorded'[j]
          PROVE  FALSE
      <4>1. \/ \E side \in Side :
                 Loads(j, side) /\ <<Dir(j), f>> = <<InputDir(j, side), ResultOf(side)>>
            \/ \E g \in File : Closes(j, g) /\ <<Dir(j), f>> \in Records(j, g)
            \/ Skips(j) /\ <<Dir(j), f>> = <<Dir(j), "expected_wcrt_comparison">>
        BY <3>2, <3>6, NewRecords
      <4> QED
        BY <3>3, <3>4, <3>5, <4>1
    <3> QED
      BY <3>6
  <2> QED
    BY <2>2, <2>3
<1>4. "run_manifest" \in File /\ Dir(j) \in RunId
  BY JobFacts DEF TypeInv, File, MetadataFile
<1>5. ASSUME status'[j] = "running", todo'[j] # <<>>, Head(todo'[j]) = "run_metadata"
      PROVE  files'[Dir(j)]["run_manifest"] # None
  <2>1. <<"run_manifest", "run_metadata">> \in Origin
    BY DEF Origin, Pair
  <2>2. CASE Starts(j)
    BY <1>5, <2>1, <2>2, StepsFacts DEF Starts, TypeInv
  <2>3. CASE SeesNoLink(j)
    BY <1>5, <2>3, SeesNoLinkFacts
  <2>4. ASSUME NEW x, Takes(j, x)
        PROVE  files'[Dir(j)]["run_manifest"] # None
    <3>1. x = "run_manifest"
      BY <1>5, <2>1, <2>4, TakeFacts
    <3>2. Closes(j, "run_manifest")
      BY <1>4, <2>4, <3>1, TakesIs
    <3> QED
      BY <1>4, <3>2, WrittenIsThere
  <2>5. ASSUME NEW f \in File, Opens(j, f)
        PROVE  files'[Dir(j)]["run_manifest"] # None
    <3>1. files[Dir(j)]["run_manifest"] # None
      BY <1>5, <2>5 DEF Opens, RecordInv
    <3> QED
      BY <1>4, <3>1, WrittenIsThere
  <2>6. \/ Starts(j) \/ SeesNoLink(j) \/ (\E x : Takes(j, x)) \/ (\E f \in File : Opens(j, f))
    BY <1>5 DEF Move, Fails, Finishes, Dies, Stops, Passes, Makes, SeesLink, Unlinks, Relinks,
         Loads, Closes, Skips
  <2> QED
    BY <2>2, <2>3, <2>4, <2>5, <2>6
<1>6. ASSUME NEW k \in Job
      PROVE  /\ \A f \in StepsIn(todo'[k]) \cap File :
                  f \notin BundleFile => <<Dir(k), f>> \notin recorded'[k]
             /\ status'[k] = "running" /\ todo'[k] # <<>> /\ Head(todo'[k]) = "run_metadata" =>
                  files'[Dir(k)]["run_manifest"] # None
  <2>1. CASE k = j
    BY <1>3, <1>5, <2>1
  <2>2. CASE k # j
    <3>1. status'[k] = status[k] /\ todo'[k] = todo[k] /\ recorded'[k] = recorded[k]
      BY <2>2 DEF Others
    <3>2. Dir(k) \in RunId
      BY JobFacts DEF TypeInv
    <3>3. files[Dir(k)]["run_manifest"] # None => files'[Dir(k)]["run_manifest"] # None
      BY <1>4, <3>2, WrittenIsThere
    <3> QED
      BY <3>1, <3>3 DEF RecordInv
  <2> QED
    BY <2>1, <2>2
<1> QED
  BY <1>1, <1>2, <1>6 DEF RecordInv, Settled

DiskInv == CoreInv /\ FileInv /\ RecordInv

(* DiskInv holds from the start and is kept by every step. *)
LEMMA DiskInvariant ==
  /\ Init => DiskInv
  /\ DiskInv /\ [Next]_vars => DiskInv'
<1>1. ASSUME Init
      PROVE  DiskInv
  <2>1. CoreInv
    BY <1>1, CoreInit
  <2>2. FileInv
    BY <1>1 DEF Init, FileInv, Sourced
  <2>3. RecordInv
    BY <1>1 DEF Init, RecordInv, StepsIn
  <2> QED
    BY <2>1, <2>2, <2>3 DEF DiskInv
<1>2. ASSUME DiskInv, [Next]_vars
      PROVE  DiskInv'
  <2>1. CoreInv /\ CoreInv'
    BY <1>2, CoreStep DEF DiskInv
  <2>2. CASE Next
    <3>1. plan' = plan /\ \E j \in Job : Others(j) /\ Move(j)
      BY <2>1, <2>2, StepMoves DEF CoreInv
    <3> QED
      BY <1>2, <2>1, <3>1, FileStep, RecordStep DEF DiskInv
  <2>3. CASE UNCHANGED vars
    <3>1. \A k : Dir(k)' = Dir(k) /\ Steps(k)' = Steps(k)
      BY <2>3, PlanStays DEF vars
    <3>2. FileInv'
      BY <1>2, <2>3, <3>1 DEF vars, DiskInv, FileInv, Sourced
    <3>3. RecordInv'
      BY <1>2, <2>3, <3>1 DEF vars, DiskInv, RecordInv
    <3> QED
      BY <2>1, <3>2, <3>3 DEF DiskInv
  <2> QED
    BY <1>2, <2>2, <2>3
<1> QED
  BY <1>1, <1>2

(* Whatever the jobs, however they overlap, share directories or die: an   *)
(* artifact that a complete manifest or index on disk names is there, and  *)
(* is complete unless another job has taken over the file or it is the     *)
(* manifest itself (RunPipelineProperties.NothingNamedIsMissing).          *)
THEOREM NamedIsThere == Spec => []NothingNamedIsMissing
<1>1. ASSUME DiskInv
      PROVE  NothingNamedIsMissing
  <2>1. SUFFICES ASSUME NEW d \in RunId, NEW m \in MetadataFile, files[d][m] # None,
                        NEW a \in files[d][m].names, a[1] # None
                 PROVE  LET named == files[a[1]][a[2]]
                        IN  /\ named # None
                            /\ \/ named.whole
                               \/ named.by # files[d][m].by
                               \/ a[2] \in BundleFile
    BY DEF NothingNamedIsMissing, BundleFile
  <2> DEFINE k == files[d][m].by
  <2>2. m \in File
    BY DEF File
  <2>3. k \in Job
    BY <1>1, <2>1, <2>2 DEF DiskInv, CoreInv, TypeInv, Content
  <2>4. a \in recorded[k]
    BY <1>1, <2>1, <2>2, <2>3 DEF DiskInv, FileInv, Sourced
  <2> QED
    BY <1>1, <2>1, <2>3, <2>4 DEF DiskInv, RecordInv
<1> QED
  BY <1>1, DiskInvariant, PTL DEF Spec

-----------------------------------------------------------------------------
(* The link                                                                *)

(* The directory of a job is made before the job touches the link. *)
LEMMA MadeBeforeLinking ==
  ASSUME CoreInv, LinkInv, plan' = plan, NEW j \in Job, Others(j), Move(j), NEW k \in Job,
         status'[k] = "running", todo'[k] # <<>>, Head(todo'[k]) \in Linking
  PROVE  Dir(k) \in made'
<1> USE DEF CoreInv
<1>1. made \subseteq made'
  BY DEF Move, Starts, Fails, Finishes, Dies, Stops, Passes, Makes, SeesLink, SeesNoLink, Unlinks,
         Relinks, Loads, Opens, Closes, Skips, Puts, DiskStays
<1>2. CASE k # j
  BY <1>1, <1>2 DEF Others, LinkInv
<1>3. CASE k = j
  <2>1. /\ <<"directories", "see_latest">> \in Origin /\ <<"see_latest", "unlink">> \in Origin
        /\ <<"unlink", "relink">> \in Origin
    BY DEF Origin, Pair
  <2>2. ~Starts(j)
    BY <1>3, <2>1, StepsFacts DEF Starts, Linking, TypeInv
  <2>3. ASSUME NEW x, Takes(j, x)
        PROVE  Dir(j) \in made'
    <3>1. x \in {"directories", "see_latest", "unlink"}
      BY <1>3, <2>1, <2>3, TakeFacts DEF Linking
    <3>2. CASE x = "directories"
      <4>1. x \notin File
        BY <3>2, CaseAssumption DEF File, ResultFile, MetadataFile, Command
      <4>2. Makes(j)
        BY <2>3, <3>2, <4>1, TakesIs DEF Loading
      <4> QED
        BY <4>2 DEF Makes
    <3>3. CASE x # "directories"
      BY <1>1, <2>3, <3>1, <3>3 DEF Takes, LinkInv, Linking
    <3> QED
      BY <3>2, <3>3
  <2>4. CASE SeesNoLink(j)
    BY <1>1, <1>3, <2>4 DEF SeesNoLink, LinkInv, Linking
  <2>5. CASE \E f \in File : Opens(j, f)
    BY <1>1, <1>3, <2>5 DEF Opens, LinkInv
  <2>6. \/ SeesNoLink(j) \/ (\E x : Takes(j, x)) \/ (\E f \in File : Opens(j, f))
    BY <1>3, <2>2 DEF Move, Fails, Finishes, Dies, Stops, Passes, Makes, SeesLink, Unlinks, Relinks,
         Loads, Closes, Skips
  <2>7. CASE \E x : Takes(j, x)
    BY <1>3, <2>3, <2>7
  <2> QED
    BY <2>4, <2>5, <2>6, <2>7
<1> QED
  BY <1>2, <1>3

(* Where the step is none of the link's, what the job has still to do about *)
(* the link is what it had.                                                 *)
LEMMA LinkUntouched ==
  ASSUME CoreInv, NEW j \in Job, NEW x, Takes(j, x), x # "unlink", x # "relink"
  PROVE  /\ "relink" \in StepsIn(todo[j]) <=> "relink" \in StepsIn(todo'[j])
         /\ ~AboutTo(j, "relink")'
<1> USE DEF CoreInv
<1>1. <<"unlink", "relink">> \in Origin
  BY DEF Origin, Pair
<1> QED
  BY <1>1, TakeFacts DEF AboutTo

(* After the link is removed it is put at once. *)
LEMMA RelinkFollows ==
  ASSUME CoreInv, NEW j \in Job, Unlinks(j)
  PROVE  AboutTo(j, "relink")' /\ "relink" \in StepsIn(todo'[j])
<1> USE DEF CoreInv
<1>1. <<"unlink", "relink">> \in Pair
  BY DEF Pair
<1>2. todo'[j] # <<>> /\ Head(todo'[j]) = "relink" /\ Script(todo'[j])
  BY <1>1, TakeFacts DEF Unlinks
<1> QED
  BY <1>2, ScriptTail DEF AboutTo

(* The cases of a move as far as the link is concerned. *)
LEMMA LinkCases ==
  ASSUME CoreInv, NEW j \in Job, Move(j)
  PROVE  \/ Starts(j) \/ Finishes(j) \/ Fails(j) \/ Dies(j)
         \/ SeesNoLink(j) \/ Unlinks(j) \/ Relinks(j)
         \/ \E f \in File : Opens(j, f)
         \/ \E x : Takes(j, x) /\ x # "unlink" /\ x # "relink" /\ latest' = latest
<1> USE DEF CoreInv
<1>1. ASSUME NEW x, Takes(j, x), ~Unlinks(j), ~Relinks(j)
      PROVE  x # "unlink" /\ x # "relink" /\ latest' = latest
  <2>1. x \notin File => x # "unlink" /\ x # "relink"
    BY <1>1, TakesIs DEF Loading
  <2>2. x \in File => x # "unlink" /\ x # "relink"
    BY CaseAssumption DEF File, ResultFile, MetadataFile, Command
  <2>3. latest' = latest
    BY <1>1, TakesIs DEF Passes, Makes, SeesLink, Loads, Closes, Skips, Puts, DiskStays
  <2> QED
    BY <2>1, <2>2, <2>3
<1>2. \/ Starts(j) \/ Finishes(j) \/ Fails(j) \/ Dies(j) \/ SeesNoLink(j)
      \/ (\E f \in File : Opens(j, f)) \/ \E x : Takes(j, x)
  BY DEF Move, Passes, Makes, SeesLink, Unlinks, Relinks, Loads, Closes, Skips
<1> QED
  BY <1>1, <1>2

(* LinkInv is kept. *)
LEMMA LinkStep ==
  ASSUME CoreInv, LinkInv, plan' = plan, CoreInv', NEW j \in Job, Others(j), Move(j)
  PROVE  LinkInv'
<1> USE DEF CoreInv
<1>1. \A k : Dir(k)' = Dir(k) /\ The(k)' = The(k)
  BY PlanStays
<1>2. /\ status[j] \in {"idle", "running"} /\ status'[j] # "idle"
      /\ Dir(j) \in RunId /\ Dir(j) # None
  BY MoveScript, JobFacts, NoneAssumption DEF TypeInv
<1>3. made \subseteq made'
  BY DEF Move, Starts, Fails, Finishes, Dies, Stops, Passes, Makes, SeesLink, SeesNoLink, Unlinks,
         Relinks, Loads, Opens, Closes, Skips, Puts, DiskStays
<1>4. latest' \in made' \cup {None}
  <2>1. CASE Relinks(j)
    <3>1. Dir(j) \in made
      BY <2>1 DEF Relinks, Takes, LinkInv, Linking
    <3> QED
      BY <1>3, <2>1, <3>1 DEF Relinks, LinkInv
  <2>2. CASE Unlinks(j)
    BY <2>2 DEF Unlinks
  <2>3. CASE ~Relinks(j) /\ ~Unlinks(j)
    <3>1. latest' = latest
      BY <2>3 DEF Move, Starts, Fails, Finishes, Dies, Stops, Passes, Makes, SeesLink, SeesNoLink,
         Loads, Opens, Closes, Skips, Puts, DiskStays
    <3> QED
      BY <1>3, <3>1 DEF LinkInv
  <2> QED
    BY <2>1, <2>2, <2>3
<1>5. ASSUME NEW k \in Job, status'[k] = "running", todo'[k] # <<>>, Head(todo'[k]) \in Linking
      PROVE  Dir(k) \in made'
  BY <1>5, MadeBeforeLinking
<1>6. ASSUME NEW k \in Job, status'[k] \in {"running", "ok"}, The(k).output.latest, Quiet(k)'
      PROVE  /\ "relink" \notin StepsIn(todo'[k]) => latest' = Dir(k)
             /\ AboutTo(k, "relink")' => latest' = None
  <2>1. CASE k # j
    <3>1. j \in The(k).after
      BY <1>1, <1>2, <1>6, <2>1 DEF Quiet
    <3>2. status[k] # "idle"
      BY <1>6, <2>1 DEF Others
    <3>3. Ended(j)
      BY <3>1, <3>2 DEF ScriptInv
    <3> QED
      BY <1>2, <3>3 DEF Ended
  <2>2. CASE k = j
    <3>1. Quiet(j)
      BY <1>1, <1>6, <2>2 DEF Quiet, Others
    <3>2. status[j] = "running" =>
            /\ "relink" \notin StepsIn(todo[j]) => latest = Dir(j)
            /\ AboutTo(j, "relink") => latest = None
      BY <1>6, <2>2, <3>1 DEF LinkInv
    <3>3. CASE Starts(j)
      <4>1. <<"unlink", "relink">> \in Origin
        BY DEF Origin, Pair
      <4>2. "relink" \in StepsIn(Steps(j)) /\ Head(Steps(j)) # "relink"
        BY <1>6, <2>2, <4>1, StepsFacts DEF TypeInv
      <4> QED
        BY <2>2, <3>3, <4>2 DEF Starts, AboutTo
    <3>4. CASE Fails(j) \/ Dies(j)
      BY <1>6, <2>2, <3>4 DEF Fails, Dies, Stops
    <3>5. CASE Finishes(j) \/ \E f \in File : Opens(j, f)
      BY <2>2, <3>2, <3>5 DEF Finishes, Stops, Opens, Puts, DiskStays, AboutTo
    <3>6. CASE SeesNoLink(j)
      <4>1. todo'[j] # <<>> /\ Head(todo'[j]) = "relink" /\ Script(todo'[j])
        BY <3>6, SeesNoLinkFacts
      <4>2. "relink" \in StepsIn(todo'[j])
        BY <4>1, ScriptTail
      <4> QED
        BY <2>2, <3>6, <4>2 DEF SeesNoLink, DiskStays
    <3>7. CASE Unlinks(j)
      BY <2>2, <3>7, RelinkFollows DEF Unlinks
    <3>8. CASE Relinks(j)
      <4>1. latest = None /\ latest' = Dir(j)
        BY <3>2, <3>8 DEF Relinks, Takes, AboutTo
      <4>2. <<"unlink", "relink">> \in Origin
        BY DEF Origin, Pair
      <4>3. ~AboutTo(j, "relink")'
        BY <3>8, <4>2, TakeFacts DEF Relinks, AboutTo
      <4> QED
        BY <2>2, <4>1, <4>3
    <3>9. ASSUME NEW x, Takes(j, x), x # "unlink", x # "relink", latest' = latest
          PROVE  /\ "relink" \notin StepsIn(todo'[j]) => latest' = Dir(j)
                 /\ AboutTo(j, "relink")' => latest' = None
      BY <3>2, <3>9, LinkUntouched DEF Takes
    <3> QED
      BY <2>2, <3>3, <3>4, <3>5, <3>6, <3>7, <3>8, <3>9, LinkCases
  <2> QED
    BY <2>1, <2>2
<1> DEFINE Absent == \/ \E k \in Job : status'[k] \in {"running", "crashed"} /\ AboutTo(k, "relink")'
                     \/ \A k \in Job : status'[k] \in {"running", "ok"} /\ The(k).output.latest =>
                          "relink" \in StepsIn(todo'[k])
<1>7. ASSUME latest' = None
      PROVE  Absent
  <2>1. CASE Unlinks(j)
    BY <2>1, RelinkFollows DEF Unlinks, Takes
  <2>2. CASE SeesNoLink(j)
    BY <2>2, SeesNoLinkFacts DEF SeesNoLink, AboutTo
  <2>3. CASE ~Unlinks(j) /\ ~SeesNoLink(j)
    <3>1. ~Relinks(j)
      BY <1>2, <1>7 DEF Relinks
    <3>2. latest = None
      BY <1>7, <2>3, <3>1 DEF Move, Starts, Fails, Finishes, Dies, Stops, Passes, Makes, SeesLink,
         Loads, Opens, Closes, Skips, Puts, DiskStays
    <3>3. CASE \E k \in Job : status[k] \in {"running", "crashed"} /\ AboutTo(k, "relink")
      <4>1. PICK k \in Job : status[k] \in {"running", "crashed"} /\ AboutTo(k, "relink")
        BY <3>3
      <4>2. CASE k # j
        BY <4>1, <4>2 DEF Others, AboutTo
      <4>3. CASE k = j
        <5>1. status[j] = "running" /\ todo[j] # <<>> /\ Head(todo[j]) = "relink"
          BY <1>2, <4>1, <4>3 DEF AboutTo
        <5>2. ~Starts(j) /\ ~Finishes(j) /\ ~Fails(j)
          BY <5>1 DEF Starts, Finishes, Fails, MayFail
        <5>3. \A f \in File : ~Opens(j, f)
          <6>1. "relink" \notin File
            BY CaseAssumption DEF File, ResultFile, MetadataFile, Command
          <6> QED
            BY <5>1, <6>1 DEF Opens
        <5>4. \A x : Takes(j, x) => x = "relink"
          BY <5>1 DEF Takes
        <5>5. Dies(j)
          BY <2>3, <3>1, <5>2, <5>3, <5>4, LinkCases
        <5> QED
          BY <5>1, <5>5 DEF Dies, Stops, AboutTo
      <4> QED
        BY <4>2, <4>3
    <3>4. CASE \A k \in Job : status[k] \in {"running", "ok"} /\ The(k).output.latest =>
                 "relink" \in StepsIn(todo[k])
      <4>1. ASSUME NEW k \in Job, status'[k] \in {"running", "ok"}, The(k).output.latest
            PROVE  "relink" \in StepsIn(todo'[k])
        <5>1. CASE k # j
          BY <3>4, <4>1, <5>1 DEF Others
        <5>2. CASE k = j /\ Starts(j)
          BY <4>1, <5>2, StepsFacts DEF Starts, TypeInv
        <5>3. CASE k = j /\ ~Starts(j)
          <6>1. status[j] = "running"
            BY <5>3, MoveScript DEF Move, Fails, Finishes, Dies, Stops, Passes, Makes, SeesLink,
               SeesNoLink, Unlinks, Relinks, Loads, Opens, Closes, Skips, Takes
          <6>2. "relink" \in StepsIn(todo[j])
            BY <3>4, <4>1, <5>3, <6>1
          <6>3. ~Fails(j) /\ ~Dies(j)
            BY <4>1, <5>3 DEF Fails, Dies, Stops
          <6>4. CASE Finishes(j) \/ \E f \in File : Opens(j, f)
            BY <5>3, <6>2, <6>4 DEF Finishes, Stops, Opens
          <6>5. ASSUME NEW x, Takes(j, x), x # "unlink", x # "relink"
                PROVE  "relink" \in StepsIn(todo'[j])
            BY <6>2, <6>5, LinkUntouched
          <6> QED
            BY <2>3, <3>1, <5>3, <6>3, <6>4, <6>5, LinkCases
        <5> QED
          BY <5>1, <5>2, <5>3
      <4> QED
        BY <4>1
    <3> QED
      BY <3>2, <3>3, <3>4 DEF LinkInv
  <2> QED
    BY <2>1, <2>2, <2>3
<1>8. \/ latest' # None
      \/ \E k \in Job : status'[k] \in {"running", "crashed"} /\ AboutTo(k, "relink")'
      \/ \A k \in Job : status'[k] \in {"running", "ok"} /\ The(k)'.output.latest =>
           "relink" \in StepsIn(todo'[k])
  BY <1>1, <1>7
<1> HIDE DEF Absent
<1>9. \A k \in Job : status'[k] = "running" /\ todo'[k] # <<>> /\ Head(todo'[k]) \in Linking =>
        Dir(k)' \in made'
  BY <1>1, <1>5
<1>10. \A k \in Job : status'[k] \in {"running", "ok"} /\ The(k)'.output.latest /\ Quiet(k)' =>
         /\ "relink" \notin StepsIn(todo'[k]) => latest' = Dir(k)'
         /\ AboutTo(k, "relink")' => latest' = None
  BY <1>1, <1>6
<1> QED
  BY <1>4, <1>8, <1>9, <1>10 DEF LinkInv

(* Whatever the jobs: the link leads to a directory that exists, to the    *)
(* run that ended well last while no other has started, and is absent      *)
(* after such a run only while a job is about to put it back or died there *)
(* (RunPipelineProperties.LatestLeadsToTheLastRun).                        *)
THEOREM LinkLeadsToTheLastRun == Spec => []LatestLeadsToTheLastRun
<1> DEFINE Inv == CoreInv /\ LinkInv
<1>1. Init => Inv
  <2>1. ASSUME Init
        PROVE  LinkInv
    BY <2>1 DEF Init, LinkInv
  <2> QED
    BY <2>1, CoreInit
<1>2. Inv /\ [Next]_vars => Inv'
  <2>1. ASSUME CoreInv, LinkInv, Next
        PROVE  CoreInv' /\ LinkInv'
    <3>1. CoreInv'
      BY <2>1, CoreStep
    <3>2. plan' = plan /\ \E j \in Job : Others(j) /\ Move(j)
      BY <2>1, StepMoves DEF CoreInv
    <3> QED
      BY <2>1, <3>1, <3>2, LinkStep
  <2>2. ASSUME CoreInv, LinkInv, UNCHANGED vars
        PROVE  CoreInv' /\ LinkInv'
    <3>1. CoreInv'
      BY <2>2, CoreStep
    <3>2. \A k : /\ Dir(k)' = Dir(k) /\ The(k)' = The(k)
                 /\ AboutTo(k, "relink")' = AboutTo(k, "relink")
      BY <2>2, PlanStays DEF vars, AboutTo
    <3>3. \A k : Quiet(k)' = Quiet(k)
      BY <2>2, <3>2 DEF vars, Quiet
    <3>4. LinkInv'
      BY <2>2, <3>2, <3>3 DEF vars, LinkInv
    <3> QED
      BY <3>1, <3>4
  <2> QED
    BY <2>1, <2>2
<1>3. Inv => LatestLeadsToTheLastRun
  <2>1. ASSUME CoreInv, LinkInv, NEW j \in Job, status[j] = "ok", The(j).output.latest
        PROVE  /\ Quiet(j) => latest = Dir(j)
               /\ latest = None => \E k \in Job : /\ status[k] \in {"running", "crashed"}
                                                 /\ AboutTo(k, "relink")
    <3>1. "relink" \notin StepsIn(todo[j])
      BY <2>1 DEF CoreInv, ScriptInv, StepsIn
    <3> QED
      BY <2>1, <3>1 DEF LinkInv
  <2>2. ASSUME CoreInv, LinkInv
        PROVE  latest \in made \cup {None}
    BY <2>2 DEF LinkInv
  <2> QED
    BY <2>1, <2>2 DEF LatestLeadsToTheLastRun, Quiet, AboutTo
<1> QED
  <2> HIDE DEF Inv
  <2> QED
    BY <1>1, <1>2, <1>3, PTL DEF Spec

-----------------------------------------------------------------------------
(* Which results are compared                                              *)

(* While a job runs, no job that is never in flight with it moves. *)
LEMMA ApartStandsStill ==
  ASSUME CoreInv, NEW j \in Job, Move(j), NEW k \in Job, k # j, status[k] = "running"
  PROVE  ~Apart(k, j)
<1> USE DEF CoreInv
<1>1. status[j] \in {"idle", "running"}
  BY MoveScript
<1>2. ASSUME j \in The(k).after
      PROVE  FALSE
  BY <1>1, <1>2 DEF ScriptInv, Ended
<1>3. ASSUME k \in The(j).after
      PROVE  FALSE
  <2>1. status[j] = "running" => Ended(k)
    BY <1>3 DEF ScriptInv
  <2>2. status[j] = "idle" => Ended(k)
    BY <1>3 DEF Move, Starts, Fails, Finishes, Dies, Stops, Passes, Makes, SeesLink, SeesNoLink,
       Unlinks, Relinks, Loads, Opens, Closes, Skips, Takes
  <2> QED
    BY <1>1, <2>1, <2>2 DEF Ended
<1> QED
  BY <1>2, <1>3 DEF Apart

(* A result that is about to be read has been passed, where it is written  *)
(* at all.                                                                 *)
LEMMA ResultBeforeLoading ==
  ASSUME CoreInv, NEW j \in Job, NEW side \in Side, Takes(j, Loading(side)),
         ResultOf(side) \in StepsIn(Steps(j))
  PROVE  ResultOf(side) \in Passed(j)
<1> USE DEF CoreInv
<1>1. /\ StepsIn(todo[j]) = {Loading(side)} \cup StepsIn(todo'[j])
      /\ \A y \in StepsIn(todo'[j]) : MayFollow(Loading(side), y)
      /\ Script(todo'[j])
  BY TakeFacts
<1>2. StepsIn(todo'[j]) \subseteq Step
  BY <1>1 DEF Script, StepsIn
<1>3. Loading(side) # ResultOf(side)
  BY DEF Loading, ResultOf, Side
<1> QED
  BY <1>1, <1>2, <1>3, NeverAfter DEF Passed

(* OwnInv is kept. *)
LEMMA OwnStep ==
  ASSUME DiskInv, OwnInv, plan' = plan, CoreInv', NEW j \in Job, Others(j), Move(j)
  PROVE  OwnInv'
<1> USE DEF CoreInv, DiskInv
<1>1. \A k : Dir(k)' = Dir(k) /\ The(k)' = The(k) /\ Steps(k)' = Steps(k)
  BY PlanStays
<1>2. \A k : Undisturbed(k)' = Undisturbed(k)
  BY <1>1 DEF Undisturbed, Apart
<1> DEFINE Kind1(k) == The(k).kind = "run-case" /\ The(k).output.json /\ Undisturbed(k)
           Written(k, f) == files[Dir(k)][f] # None /\ files[Dir(k)][f].by = k
           Written1(k, f) == files'[Dir(k)][f] # None /\ files'[Dir(k)][f].by = k
<1>3. ASSUME NEW k \in Job, NEW side \in Side, status'[k] # "idle", Kind1(k)
      PROVE  /\ loaded'[k][side] \in {k, None}
             /\ status'[k] = "running" /\ ResultOf(side) \in Passed(k)' =>
                  Written1(k, ResultOf(side))
  <2>1. ResultOf(side) \in File /\ Dir(k) \in RunId
    BY JobFacts DEF ResultOf, File, ResultFile, TypeInv
  <2>2. Passed(k)' = StepsIn(Steps(k)) \ StepsIn(todo'[k])
    BY <1>1 DEF Passed
  <2>3. status[k] # "idle" =>
          /\ loaded[k][side] \in {k, None}
          /\ status[k] = "running" /\ ResultOf(side) \in Passed(k) => Written(k, ResultOf(side))
    BY <1>3 DEF OwnInv
  <2>4. CASE k # j
    <3>1. status'[k] = status[k] /\ todo'[k] = todo[k] /\ loaded'[k] = loaded[k]
      BY <2>4 DEF Others
    <3>2. status[k] = "running" => files'[Dir(k)][ResultOf(side)] = files[Dir(k)][ResultOf(side)]
      BY <1>3, <2>1, <2>4, ApartStandsStill, FileMoves DEF Undisturbed
    <3> QED
      BY <1>3, <2>2, <2>3, <3>1, <3>2 DEF Passed
  <2>5. CASE k = j
    <3>1. CASE Starts(j)
      <4>1. loaded'[j] = [simulation |-> None, analysis |-> None] /\ todo'[j] = Steps(j)
        BY <3>1 DEF Starts, Kept, ScriptInv
      <4> QED
        BY <2>2, <2>5, <4>1 DEF Side
    <3>2. CASE Fails(j) \/ Finishes(j) \/ Dies(j)
      BY <2>3, <2>5, <3>2 DEF Fails, Finishes, Dies, Stops, Kept
    <3>3. CASE ~Starts(j) /\ ~Fails(j) /\ ~Finishes(j) /\ ~Dies(j)
      <4>1. status[j] = "running"
        BY <3>3 DEF Move, Passes, Makes, SeesLink, SeesNoLink, Unlinks, Relinks, Loads, Opens,
           Closes, Skips, Takes
      <4>2. Written(j, ResultOf(side)) => Written1(j, ResultOf(side))
        <5>1. \/ files'[Dir(j)][ResultOf(side)] = files[Dir(j)][ResultOf(side)]
              \/ files'[Dir(j)][ResultOf(side)] # None /\ files'[Dir(j)][ResultOf(side)].by = j
          <6>1. \/ files'[Dir(j)][ResultOf(side)] = files[Dir(j)][ResultOf(side)]
                \/ Opens(j, ResultOf(side)) \/ Closes(j, ResultOf(side))
            BY <2>1, <2>5, FileMoves
          <6>2. Opens(j, ResultOf(side)) =>
                  files'[Dir(j)][ResultOf(side)] # None /\ files'[Dir(j)][ResultOf(side)].by = j
            <7> DEFINE c == [by |-> j, whole |-> FALSE, names |-> {}, of |-> {}]
            <7>1. c.by = j
              OBVIOUS
            <7>2. Opens(j, ResultOf(side)) => files'[Dir(j)][ResultOf(side)] = c /\ c # None
              BY <2>1, WrittenIsThere
            <7> HIDE DEF c
            <7> QED
              BY <7>1, <7>2
          <6>3. Payload(j, ResultOf(side)).by = j
            BY DEF Payload
          <6>4. Closes(j, ResultOf(side)) =>
                  files'[Dir(j)][ResultOf(side)] # None /\ files'[Dir(j)][ResultOf(side)].by = j
            BY <2>1, <6>3, WrittenIsThere
          <6> QED
            BY <6>1, <6>2, <6>4
        <5> QED
          BY <2>5, <5>1
      <4>3. ASSUME ResultOf(side) \in Passed(j)', ResultOf(side) \notin Passed(j)
            PROVE  Written1(j, ResultOf(side))
        <5>1. ResultOf(side) \in StepsIn(todo[j]) /\ ResultOf(side) \notin StepsIn(todo'[j])
          BY <2>2, <2>5, <4>3 DEF Passed
        <5>2. ResultOf(side) \notin {"see_latest", "unlink", "expected_wcrt_comparison"}
          BY DEF ResultOf
        <5>3. Takes(j, ResultOf(side))
          BY <5>1, <5>2, MoveDrops
        <5>4. Closes(j, ResultOf(side))
          BY <2>1, <5>2, <5>3, TakesIs
        <5>5. Payload(j, ResultOf(side)).by = j
          BY DEF Payload
        <5> QED
          BY <2>1, <2>5, <5>4, <5>5, WrittenIsThere
      <4>4. loaded'[j][side] \in {j, None}
        <5>1. CASE \E s \in Side : Loads(j, s)
          <6>1. PICK s \in Side : Loads(j, s)
            BY <5>1
          <6>2. InputDir(j, s) = Dir(j) /\ Dir(j) # None
            BY <1>3, <2>1, <2>5, NoneAssumption DEF InputDir
          <6>3. Resolved(j, s) = Dir(j)
            BY <6>2 DEF Resolved
          <6>4. ResultOf(s) \in StepsIn(Steps(j))
            BY <1>3, <2>5, StepsFacts DEF ResultOf, TypeInv
          <6>5. ResultOf(s) \in Passed(j)
            BY <6>1, <6>4, ResultBeforeLoading DEF Loads
          <6>6. files[Dir(j)][ResultOf(s)].by = j
            BY <1>3, <2>5, <4>1, <6>5 DEF OwnInv
          <6>7. loaded'[j] = [loaded[j] EXCEPT ![s] = j]
            BY <6>1, <6>3, <6>6 DEF Loads
          <6>8. loaded[j] \in [simulation : Job \cup {None}, analysis : Job \cup {None}]
            BY DEF TypeInv
          <6>9. loaded'[j][side] = IF side = s THEN j ELSE loaded[j][side]
            BY <6>7, <6>8 DEF Side
          <6> QED
            BY <2>3, <2>5, <4>1, <6>9
        <5>2. CASE ~\E s \in Side : Loads(j, s)
          <6>1. loaded'[j] = loaded[j]
            BY <3>3, <5>2 DEF Move, Passes, Makes, SeesLink, SeesNoLink, Unlinks, Relinks, Opens,
               Closes, Skips, Kept
          <6> QED
            BY <2>3, <2>5, <4>1, <6>1
        <5> QED
          BY <5>1, <5>2
      <4> QED
        BY <2>3, <2>5, <4>1, <4>2, <4>3, <4>4
    <3> QED
      BY <3>1, <3>2, <3>3
  <2> QED
    BY <2>4, <2>5
<1> QED
  BY <1>1, <1>2, <1>3 DEF OwnInv

(* InputInv is kept. *)
LEMMA InputStep ==
  ASSUME DiskInv, InputInv, plan' = plan, CoreInv', NEW j \in Job, Others(j), Move(j)
  PROVE  InputInv'
<1> USE DEF CoreInv, DiskInv
<1>1. \A k : Dir(k)' = Dir(k) /\ The(k)' = The(k)
  BY PlanStays
<1>2. \A k : OneInput(k)' = OneInput(k)
  BY <1>1 DEF OneInput, Apart
<1> DEFINE Source(k) == Resolved(k, "analysis")
           Half(k) == AboutTo(k, "load_analysis") /\ Dir(loaded[k].simulation) = Source(k)
           Half1(k) == AboutTo(k, "load_analysis")' /\ Dir(loaded'[k].simulation) = Source(k)'
<1>3. ASSUME NEW k \in Job, OneInput(k), loaded'[k].simulation # None
      PROVE  /\ loaded'[k].analysis # None =>
                  Dir(loaded'[k].simulation) = Dir(loaded'[k].analysis)
             /\ loaded'[k].analysis = None /\ status'[k] = "running" => Half1(k)
  <2>1. loaded[k].simulation # None =>
          /\ loaded[k].analysis # None => Dir(loaded[k].simulation) = Dir(loaded[k].analysis)
          /\ loaded[k].analysis = None /\ status[k] = "running" => Half(k)
    BY <1>3 DEF InputInv
  <2>2. CASE k # j
    <3>1. status'[k] = status[k] /\ loaded'[k] = loaded[k]
      BY <2>2 DEF Others
    <3>2. status[k] # "running"
      BY <1>3, <2>2, ApartStandsStill DEF OneInput
    <3> QED
      BY <1>3, <2>1, <3>1, <3>2
  <2>3. CASE k = j
    <3>1. \A d \in RunId, f \in File : Readable(d, f) =>
            files[d][f].by \in Job /\ Dir(files[d][f].by) = d
      <4>1. ASSUME NEW d \in RunId, NEW f \in File, files[d][f] # None
            PROVE  files[d][f].by \in Job /\ Dir(files[d][f].by) = d
        <5>1. files[d][f] \in Content
          BY <4>1 DEF TypeInv
        <5>2. PICK w \in Job : files[d][f].by = w
          BY <5>1 DEF Content
        <5>3. Sourced(d, f, w)
          BY <4>1, <5>2 DEF FileInv
        <5> QED
          BY <5>2, <5>3 DEF Sourced
      <4> QED
        BY <4>1 DEF Readable
    <3>2. \A side \in Side : Loads(j, side) =>
            /\ Resolved(j, side) \in RunId /\ ResultOf(side) \in File
            /\ loaded'[j][side] \in Job /\ Dir(loaded'[j][side]) = Resolved(j, side)
            /\ \A s \in Side \ {side} : loaded'[j][s] = loaded[j][s]
      <4>1. ASSUME NEW side \in Side, Loads(j, side)
            PROVE  /\ Resolved(j, side) \in RunId /\ ResultOf(side) \in File
                   /\ loaded'[j][side] \in Job /\ Dir(loaded'[j][side]) = Resolved(j, side)
                   /\ \A s \in Side \ {side} : loaded'[j][s] = loaded[j][s]
        <5>1. Resolved(j, side) \in RunId /\ ResultOf(side) \in File
          BY <4>1, JobFacts DEF Resolved, Loads, Readable, TypeInv, ResultOf, File, ResultFile
        <5> DEFINE b == files[Resolved(j, side)][ResultOf(side)].by
        <5>2. b \in Job /\ Dir(b) = Resolved(j, side)
          BY <3>1, <4>1, <5>1 DEF Loads
        <5>3. loaded'[j] = [loaded[j] EXCEPT ![side] = b]
          BY <4>1 DEF Loads
        <5>4. loaded[j] \in [simulation : Job \cup {None}, analysis : Job \cup {None}]
          BY DEF TypeInv
        <5> HIDE DEF b
        <5>5. loaded'[j][side] = b /\ \A s \in Side \ {side} : loaded'[j][s] = loaded[j][s]
          BY <5>3, <5>4 DEF Side
        <5> QED
          BY <5>1, <5>2, <5>5
      <4> QED
        BY <4>1
    <3>3. status[j] = "running" /\ "load_analysis" \in StepsIn(todo[j]) => loaded[j].analysis = None
      <4>1. loaded[j].analysis \in Job \cup {None}
        BY DEF TypeInv
      <4>2. "analysis" \in Side /\ Loading("analysis") = "load_analysis"
        BY DEF Side, Loading
      <4> QED
        BY <4>1, <4>2 DEF LoadInv, Passed
    <3>4. CASE Loads(j, "simulation")
      <4>1. <<"load_simulation", "load_analysis">> \in Pair
        BY DEF Pair
      <4>2. /\ todo'[j] # <<>> /\ Head(todo'[j]) = "load_analysis"
            /\ "load_analysis" \in StepsIn(todo[j]) /\ status[j] = "running"
        <5>1. Takes(j, "load_simulation")
          BY <3>4 DEF Loads, Loading
        <5>2. /\ todo'[j] # <<>> /\ Head(todo'[j]) = "load_analysis" /\ Script(todo'[j])
              /\ StepsIn(todo[j]) = {"load_simulation"} \cup StepsIn(todo'[j])
          BY <4>1, <5>1, TakeFacts
        <5>3. Head(todo'[j]) \in StepsIn(todo'[j])
          BY <5>2, ScriptTail
        <5> QED
          BY <5>1, <5>2, <5>3 DEF Takes
      <4>3. loaded'[j].analysis = None /\ Dir(loaded'[j].simulation) = Resolved(j, "simulation")
        BY <3>2, <3>3, <3>4, <4>2 DEF Side
      <4>4. Resolved(j, "simulation") = Resolved(j, "analysis")
        BY <1>3, <2>3 DEF OneInput, Resolved, InputDir
      <4>5. Resolved(j, "analysis")' = Resolved(j, "analysis")
        BY <1>1, <3>4 DEF Resolved, InputDir, Loads, DiskStays
      <4> QED
        BY <2>3, <4>2, <4>3, <4>4, <4>5 DEF AboutTo
    <3>5. CASE Loads(j, "analysis")
      <4>1. status[j] = "running" /\ "load_analysis" \in StepsIn(todo[j])
        <5>1. Takes(j, "load_analysis")
          BY <3>5 DEF Loads, Loading
        <5> QED
          BY <5>1, TakeFacts DEF Takes
      <4>2. /\ loaded'[j].simulation = loaded[j].simulation
            /\ loaded'[j].analysis \in Job /\ Dir(loaded'[j].analysis) = Resolved(j, "analysis")
        BY <3>2, <3>5 DEF Side
      <4>3. loaded'[j].analysis # None
        BY <4>2, NoneAssumption
      <4> QED
        BY <1>3, <2>1, <2>3, <3>3, <4>1, <4>2, <4>3
    <3>6. CASE ~\E side \in Side : Loads(j, side)
      <4>1. loaded'[j] = loaded[j]
        BY <3>6 DEF Move, Starts, Fails, Finishes, Dies, Stops, Passes, Makes, SeesLink, SeesNoLink,
           Unlinks, Relinks, Opens, Closes, Skips, Kept
      <4>2. CASE Starts(j)
        BY <1>3, <2>3, <4>1, <4>2 DEF Starts, ScriptInv
      <4>3. CASE Fails(j) \/ Finishes(j) \/ Dies(j)
        BY <1>3, <2>1, <2>3, <4>1, <4>3, MoveScript DEF Fails, Finishes, Dies, Stops
      <4>4. CASE ~Starts(j) /\ ~Fails(j) /\ ~Finishes(j) /\ ~Dies(j)
        <5>1. /\ status[j] = "running"
              /\ (\E x : Takes(j, x)) \/ SeesNoLink(j) \/ \E f \in File : Opens(j, f)
          BY <4>4 DEF Move, Passes, Makes, SeesLink, SeesNoLink, Unlinks, Relinks, Loads, Opens,
             Closes, Skips, Takes
        <5>2. "load_analysis" \notin File
          BY CaseAssumption DEF File, ResultFile, MetadataFile, Command
        <5>3. ~AboutTo(j, "load_analysis")
          <6>1. SUFFICES ASSUME AboutTo(j, "load_analysis")
                         PROVE  FALSE
            OBVIOUS
          <6>2. ~SeesNoLink(j) /\ \A f \in File : ~Opens(j, f)
            BY <5>2, <6>1 DEF AboutTo, SeesNoLink, Opens
          <6>3. Takes(j, "load_analysis")
            BY <5>1, <6>1, <6>2 DEF AboutTo, Takes
          <6> QED
            BY <3>6, <5>2, <6>3, TakesIs
        <5> QED
          BY <1>3, <2>1, <2>3, <4>1, <5>1, <5>3
      <4> QED
        BY <4>2, <4>3, <4>4
    <3> QED
      BY <3>4, <3>5, <3>6 DEF Side
  <2> QED
    BY <2>2, <2>3
<1>4. SUFFICES ASSUME NEW k \in Job, OneInput(k), loaded'[k].simulation # None
               PROVE  /\ loaded'[k].analysis # None =>
                           Dir(loaded[k].simulation)' = Dir(loaded[k].analysis)'
                      /\ loaded'[k].analysis = None /\ status'[k] = "running" =>
                           /\ AboutTo(k, "load_analysis")'
                           /\ Dir(loaded[k].simulation)' = Resolved(k, "analysis")'
  BY <1>2 DEF InputInv
<1> QED
  BY <1>1, <1>3, <1>4 DEF Dir, The

(* Whatever the jobs, however they overlap, share directories or die: what *)
(* an undisturbed run-case with JSON compares is its own, and what compare *)
(* compares when it was given one directory and nobody was beside it is of *)
(* one directory, also when it was led there by the link                   *)
(* (RunPipelineProperties.ComparisonIsOfOneRun).                           *)
THEOREM ComparedIsOfOneRun == Spec => []ComparisonIsOfOneRun
<1> DEFINE Inv == DiskInv /\ OwnInv /\ InputInv
<1>1. Init => Inv
  <2>1. ASSUME Init
        PROVE  OwnInv /\ InputInv
    BY <2>1 DEF Init, OwnInv, InputInv
  <2> QED
    BY <2>1, DiskInvariant
<1>2. Inv /\ [Next]_vars => Inv'
  <2>1. ASSUME Inv, [Next]_vars
        PROVE  DiskInv' /\ CoreInv /\ CoreInv'
    BY <2>1, DiskInvariant DEF DiskInv
  <2>2. ASSUME Inv, Next
        PROVE  OwnInv' /\ InputInv'
    <3>1. plan' = plan /\ \E j \in Job : Others(j) /\ Move(j)
      BY <2>1, <2>2, StepMoves DEF CoreInv
    <3> QED
      BY <2>1, <2>2, <3>1, OwnStep, InputStep
  <2>3. ASSUME Inv, UNCHANGED vars
        PROVE  OwnInv' /\ InputInv'
    <3>1. \A k : Dir(k)' = Dir(k) /\ The(k)' = The(k) /\ Steps(k)' = Steps(k)
      BY <2>3, PlanStays DEF vars
    <3>2. \A k : /\ Undisturbed(k)' = Undisturbed(k) /\ OneInput(k)' = OneInput(k)
                 /\ AboutTo(k, "load_analysis")' = AboutTo(k, "load_analysis")
                 /\ Passed(k)' = Passed(k)
                 /\ Resolved(k, "analysis")' = Resolved(k, "analysis")
      BY <2>3, <3>1 DEF vars, Undisturbed, OneInput, Apart, AboutTo, Passed, Resolved, InputDir
    <3>3. OwnInv'
      BY <2>3, <3>1, <3>2 DEF vars, OwnInv
    <3>4. InputInv'
      <4>1. loaded' = loaded /\ status' = status
        BY <2>3 DEF vars
      <4>2. \A k : /\ (Dir(loaded[k].simulation))' = Dir(loaded[k].simulation)
                   /\ (Dir(loaded[k].analysis))' = Dir(loaded[k].analysis)
        BY <2>3 DEF vars, Dir, The
      <4> QED
        BY <2>3, <3>2, <4>1, <4>2 DEF InputInv
    <3> QED
      BY <3>3, <3>4
  <2> QED
    BY <2>1, <2>2, <2>3
<1>3. Inv => ComparisonIsOfOneRun
  <2>1. SUFFICES ASSUME DiskInv, OwnInv, InputInv, NEW d \in RunId,
                        NEW f \in {"comparison_result", "comparison_csv"},
                        files[d][f] # None, files[d][f].whole
                 PROVE  LET j == files[d][f].by
                        IN  /\ The(j).kind = "run-case" /\ The(j).output.json /\ Undisturbed(j) =>
                                 files[d][f].of = {j}
                            /\ OneInput(j) => Cardinality({Dir(k) : k \in files[d][f].of}) = 1
    BY DEF ComparisonIsOfOneRun, OneInput
  <2> DEFINE j == files[d][f].by
             sim == loaded[j].simulation
             ana == loaded[j].analysis
  <2>2. f \in File /\ f \in Compared
    BY DEF File, ResultFile, Compared
  <2>3. files[d][f] \in Content
    BY <2>1, <2>2 DEF DiskInv, CoreInv, TypeInv
  <2>4. /\ j \in Job /\ files[d][f].of \subseteq Job
        /\ files[d][f].of = {sim, ana} /\ status[j] # "idle"
    <3>1. j \in Job /\ files[d][f].of \subseteq Job
      BY <2>3 DEF Content
    <3>2. Sourced(d, f, j)
      BY <2>1, <2>2, <3>1 DEF DiskInv, FileInv
    <3> QED
      BY <2>1, <2>2, <3>1, <3>2 DEF Sourced
  <2>5. sim \in Job /\ ana \in Job /\ sim # None /\ ana # None
    BY <2>4, NoneAssumption
  <2>6. ASSUME The(j).kind = "run-case", The(j).output.json, Undisturbed(j)
        PROVE  sim = j /\ ana = j
    BY <2>1, <2>4, <2>5, <2>6 DEF OwnInv, Side
  <2>7. ASSUME OneInput(j)
        PROVE  Cardinality({Dir(k) : k \in files[d][f].of}) = 1
    <3>1. Dir(sim) = Dir(ana)
      BY <2>1, <2>4, <2>5, <2>7 DEF InputInv
    <3>2. {Dir(k) : k \in files[d][f].of} = {Dir(sim)}
      BY <2>4, <3>1
    <3> QED
      BY <3>2, FS_Singleton
  <2> QED
    BY <2>4, <2>6, <2>7
<1> QED
  <2> HIDE DEF Inv
  <2> QED
    BY <1>1, <1>2, <1>3, PTL DEF Spec

-----------------------------------------------------------------------------
(* What the metadata tells                                                 *)

(* What a job has written stays its own while it moves on. *)
LEMMA OwnStaysOwn ==
  ASSUME DiskInv, plan' = plan, NEW j \in Job, Move(j), NEW f \in File
  PROVE  /\ ByItself(j, f) \/ Opens(j, f) \/ Closes(j, f) => ByItself(j, f)'
         /\ ~Opens(j, f) /\ ~Closes(j, f) => files'[Dir(j)][f] = files[Dir(j)][f]
<1> USE DEF CoreInv, DiskInv
<1>1. Dir(j)' = Dir(j) /\ Dir(j) \in RunId
  BY PlanStays, JobFacts DEF TypeInv
<1>2. files'[Dir(j)][f] = files[Dir(j)][f] \/ Opens(j, f) \/ Closes(j, f)
  BY <1>1, FileMoves
<1>3. Opens(j, f) => files'[Dir(j)][f] # None /\ files'[Dir(j)][f].by = j
  <2> DEFINE c == [by |-> j, whole |-> FALSE, names |-> {}, of |-> {}]
  <2>1. c.by = j
    OBVIOUS
  <2>2. Opens(j, f) => files'[Dir(j)][f] = c /\ c # None
    BY WrittenIsThere
  <2> HIDE DEF c
  <2> QED
    BY <2>1, <2>2
<1>4. Closes(j, f) => files'[Dir(j)][f] # None /\ files'[Dir(j)][f].by = j
  <2>1. Payload(j, f).by = j
    BY DEF Payload
  <2> QED
    BY <2>1, WrittenIsThere
<1> QED
  BY <1>1, <1>2, <1>3, <1>4 DEF ByItself

(* Everything that is collected is accounted for. *)
LEMMA AccountedStep ==
  ASSUME DiskInv, plan' = plan, CoreInv', NEW j \in Job, Move(j),
         \A b \in recorded[j] : Accounted(j, b),
         AboutTo(j, "run_metadata") => ByItself(j, "run_manifest"),
         NEW a \in recorded'[j]
  PROVE  Accounted(j, a)'
<1> USE DEF CoreInv, DiskInv
<1>1. Dir(j)' = Dir(j) /\ Inputs(j)' = Inputs(j)
  BY PlanStays DEF Inputs
<1>2. a[2] \in File
  BY DEF TypeInv, Artifact
<1>3. CASE a \in recorded[j]
  BY <1>1, <1>2, <1>3, OwnStaysOwn DEF Accounted
<1>4. CASE a \notin recorded[j]
  <2>1. \/ \E side \in Side : Loads(j, side) /\ a = <<InputDir(j, side), ResultOf(side)>>
        \/ \E f \in File : Closes(j, f) /\ a \in Records(j, f)
        \/ Skips(j) /\ a = <<Dir(j), "expected_wcrt_comparison">>
    BY <1>4, NewRecords
  <2>2. CASE \E side \in Side : Loads(j, side) /\ a = <<InputDir(j, side), ResultOf(side)>>
    BY <1>1, <2>2 DEF Accounted, Inputs
  <2>3. CASE Skips(j) /\ a = <<Dir(j), "expected_wcrt_comparison">>
    BY <1>1, <2>3 DEF Accounted
  <2>4. CASE \E f \in File : Closes(j, f) /\ a \in Records(j, f)
    <3>1. PICK f \in File : Closes(j, f) /\ a \in Records(j, f)
      BY <2>4
    <3>2. ByItself(j, f)'
      BY <3>1, OwnStaysOwn
    <3>3. CASE f = "run_metadata"
      <4>1. a \in Own(j, {"run_manifest", "run_metadata"})
        BY <3>1, <3>3 DEF Records
      <4>2. AboutTo(j, "run_metadata") /\ "run_manifest" \in File
        BY <3>1, <3>3 DEF Closes, Takes, AboutTo, File, MetadataFile
      <4>3. ByItself(j, "run_manifest")'
        BY <4>2, OwnStaysOwn
      <4> QED
        BY <1>1, <3>2, <3>3, <4>1, <4>3 DEF Accounted, Own
    <3>4. CASE f # "run_metadata"
      <4>1. f # "run_manifest" /\ f # "trace_csv" /\ a \in Own(j, {f})
        BY <3>1, <3>4 DEF Records
      <4>2. a[1] = Dir(j) /\ a[2] = f
        BY <4>1 DEF Own
      <4> QED
        BY <1>1, <3>2, <4>1, <4>2 DEF Accounted
    <3> QED
      BY <3>3, <3>4
  <2> QED
    BY <2>1, <2>2, <2>3, <2>4
<1> QED
  BY <1>3, <1>4

(* The manifest is written before its copy, and both before the index. *)
LEMMA BundleStep ==
  ASSUME DiskInv, plan' = plan, NEW j \in Job, Move(j), status[j] = "running",
         AboutTo(j, "run_metadata") => ByItself(j, "run_manifest"),
         AboutTo(j, "artifact_index") => Own(j, BundleFile) \subseteq recorded[j]
  PROVE  /\ status'[j] = "running" /\ AboutTo(j, "run_metadata")' => ByItself(j, "run_manifest")'
         /\ status'[j] = "running" /\ AboutTo(j, "artifact_index")' =>
              Own(j, BundleFile)' \subseteq recorded'[j]
<1> USE DEF CoreInv, DiskInv
<1>1. Own(j, BundleFile)' = Own(j, BundleFile)
  BY PlanStays DEF Own
<1>2. "run_manifest" \in File /\ "run_metadata" \in File
  BY DEF File, MetadataFile
<1>3. /\ <<"run_manifest", "run_metadata">> \in Origin
      /\ <<"run_metadata", "artifact_index">> \in Origin
  BY DEF Origin
<1>4. CASE \E f \in File : Opens(j, f)
  <2>1. /\ AboutTo(j, "run_metadata")' => AboutTo(j, "run_metadata")
        /\ AboutTo(j, "artifact_index")' => AboutTo(j, "artifact_index")
        /\ recorded'[j] = recorded[j]
    BY <1>4 DEF Opens, AboutTo, Kept
  <2> QED
    BY <1>1, <1>2, <2>1, OwnStaysOwn
<1>5. CASE SeesNoLink(j)
  BY <1>5, SeesNoLinkFacts DEF AboutTo
<1>6. ASSUME NEW x, Takes(j, x)
      PROVE  /\ AboutTo(j, "run_metadata")' => ByItself(j, "run_manifest")'
             /\ AboutTo(j, "artifact_index")' => Own(j, BundleFile)' \subseteq recorded'[j]
  <2>1. /\ AboutTo(j, "run_metadata")' => x = "run_manifest"
        /\ AboutTo(j, "artifact_index")' => x = "run_metadata"
    BY <1>3, <1>6, TakeFacts DEF AboutTo
  <2>2. /\ x = "run_manifest" => Closes(j, "run_manifest")
        /\ x = "run_metadata" => Closes(j, "run_metadata")
    BY <1>2, <1>6, TakesIs
  <2>3. x = "run_manifest" => ByItself(j, "run_manifest")'
    BY <1>2, <2>2, OwnStaysOwn
  <2>4. x = "run_metadata" => Own(j, BundleFile) \subseteq recorded'[j]
    BY <2>2 DEF Closes, Records, Own, BundleFile
  <2> QED
    BY <1>1, <2>1, <2>3, <2>4
<1>7. \/ status'[j] # "running" \/ SeesNoLink(j)
      \/ (\E f \in File : Opens(j, f)) \/ (\E x : Takes(j, x))
  BY DEF Move, Starts, Fails, Finishes, Dies, Stops, Passes, Makes, SeesLink, Unlinks, Relinks,
     Loads, Closes, Skips
<1> QED
  BY <1>4, <1>5, <1>6, <1>7

(* Once the index is written, what is left to do collects nothing more, and *)
(* rewrites the manifest as it was.                                         *)
LEMMA IndexedStays ==
  ASSUME DiskInv, plan' = plan, CoreInv', NEW j \in Job, Move(j), status[j] = "running", Indexed(j)
  PROVE  Indexed(j)'
<1> USE DEF CoreInv, DiskInv
<1>1. /\ Dir(j)' = Dir(j) /\ Own(j, BundleFile)' = Own(j, BundleFile)
      /\ Own(j, {"artifact_index"})' = Own(j, {"artifact_index"})
  BY PlanStays
<1>2. StepsIn(todo'[j]) \subseteq StepsIn(todo[j])
  BY MoveScript
<1> DEFINE Late == LayoutStep \cup BundleFile \cup {"trace_csv"}
<1>3. \A x : Takes(j, x) => x \in Late
  <2>1. ASSUME NEW x, Takes(j, x)
        PROVE  x \in StepsIn(todo[j])
    BY <2>1, TakeFacts
  <2> QED
    BY <2>1 DEF Indexed
<1>4. \A f \in File : Opens(j, f) \/ Closes(j, f) => f \in Late \cap StepsIn(todo[j])
  <2>1. ASSUME NEW f \in File, Opens(j, f) \/ Closes(j, f)
        PROVE  f \in StepsIn(todo[j])
    <3>1. Script(todo[j]) /\ todo[j] # <<>> /\ Head(todo[j]) = f
      BY <2>1 DEF ScriptInv, Opens, Closes, Takes
    <3> QED
      BY <3>1, ScriptTail
  <2> QED
    BY <2>1 DEF Indexed
<1>5. recorded'[j] = recorded[j]
  <2>1. CASE \E f \in File : Closes(j, f)
    <3>1. PICK f \in File : Closes(j, f)
      BY <2>1
    <3>2. f \in BundleFile \cup {"trace_csv"}
      <4>1. f \notin LayoutStep
        BY CaseAssumption DEF File, ResultFile, MetadataFile, Command, LayoutStep
      <4> QED
        BY <1>4, <3>1, <4>1
    <3>3. Records(j, f) \subseteq Own(j, BundleFile)
      BY <3>2 DEF Records, Own, BundleFile
    <3> QED
      BY <3>1, <3>3 DEF Closes, Indexed
  <2>2. ~Skips(j)
    BY <1>3 DEF Skips, LayoutStep, BundleFile
  <2>3. \A side \in Side : ~Loads(j, side)
    BY <1>3 DEF Loads, Loading, LayoutStep, BundleFile
  <2> QED
    BY <2>1, <2>2, <2>3 DEF Move, Starts, Fails, Finishes, Dies, Stops, Passes, Makes, SeesLink,
       SeesNoLink, Unlinks, Relinks, Opens, Kept
<1>6. Told(j)' = Told(j)
  BY <1>5 DEF Told, Says
<1>7. files'[Dir(j)]["artifact_index"] = files[Dir(j)]["artifact_index"]
  <2>1. "artifact_index" \in File
    BY DEF File, MetadataFile
  <2>2. "artifact_index" \notin Late
    BY DEF LayoutStep, BundleFile
  <2> QED
    BY <1>4, <2>1, <2>2, OwnStaysOwn
<1>8. ASSUME NEW f \in BundleFile, f \notin StepsIn(todo'[j])
      PROVE  files'[Dir(j)][f] = Told(j)
  <2>1. f \in File
    BY DEF BundleFile, File, MetadataFile
  <2>2. CASE f \notin StepsIn(todo[j])
    BY <1>4, <2>1, <2>2, OwnStaysOwn DEF Indexed
  <2>3. CASE f \in StepsIn(todo[j])
    <3>1. f \notin {"see_latest", "unlink", "expected_wcrt_comparison"}
      BY DEF BundleFile
    <3>2. Takes(j, f)
      BY <1>8, <2>3, <3>1, MoveDrops
    <3>3. Closes(j, f)
      BY <2>1, <3>1, <3>2, TakesIs
    <3>4. Payload(j, f) = Told(j)
      BY DEF Payload, Told, Says, BundleFile, MetadataFile
    <3> QED
      BY <2>1, <3>3, <3>4, WrittenIsThere
  <2> QED
    BY <2>2, <2>3
<1> QED
  BY <1>1, <1>2, <1>5, <1>6, <1>7, <1>8 DEF Indexed

(* Writing the index makes it say everything that was collected before it. *)
LEMMA IndexedComes ==
  ASSUME DiskInv, plan' = plan, CoreInv', NEW j \in Job, Move(j), status[j] = "running",
         AboutTo(j, "artifact_index") => Own(j, BundleFile) \subseteq recorded[j],
         "artifact_index" \notin Passed(j), "artifact_index" \in Passed(j)'
  PROVE  Indexed(j)'
<1> USE DEF CoreInv, DiskInv
<1> DEFINE idx == "artifact_index"
<1>1. /\ Dir(j)' = Dir(j) /\ Steps(j)' = Steps(j) /\ Own(j, BundleFile)' = Own(j, BundleFile)
      /\ Own(j, {idx})' = Own(j, {idx})
  BY PlanStays
<1>2. idx \in StepsIn(todo[j]) /\ idx \notin StepsIn(todo'[j])
  BY <1>1 DEF Passed
<1>3. idx \in File /\ idx \notin BundleFile /\ Dir(j) \in RunId
  BY JobFacts DEF File, MetadataFile, BundleFile, TypeInv
<1>4. Takes(j, idx)
  BY <1>2, MoveDrops
<1>5. Closes(j, idx) /\ AboutTo(j, idx)
  BY <1>3, <1>4, TakesIs DEF Takes, AboutTo
<1>6. StepsIn(todo'[j]) \subseteq LayoutStep \cup BundleFile \cup {"trace_csv"}
  <2>1. Script(todo'[j]) /\ \A y \in StepsIn(todo'[j]) : MayFollow(idx, y)
    BY <1>4, TakeFacts
  <2>2. StepsIn(todo'[j]) \subseteq Step
    BY <2>1 DEF Script, StepsIn
  <2> QED
    BY <2>1, <2>2, NeverAfter
<1>7. BundleFile \subseteq StepsIn(todo'[j])
  <2>1. <<idx, "run_manifest">> \in Pair /\ <<"run_manifest", "run_metadata">> \in Pair
    BY DEF Pair
  <2>2. todo'[j] # <<>> /\ Head(todo'[j]) = "run_manifest" /\ Script(todo'[j])
    BY <1>4, <2>1, TakeFacts
  <2>3. /\ StepsIn(todo'[j]) = {"run_manifest"} \cup StepsIn(Tail(todo'[j]))
        /\ Script(Tail(todo'[j]))
        /\ Tail(todo'[j]) # <<>> /\ Head(Tail(todo'[j])) = "run_metadata"
    BY <2>1, <2>2, ScriptTail
  <2>4. "run_metadata" \in StepsIn(Tail(todo'[j]))
    <3> DEFINE t == Tail(todo'[j])
    <3>1. Script(t) /\ t # <<>> /\ Head(t) = "run_metadata"
      BY <2>3
    <3> HIDE DEF t
    <3>2. StepsIn(t) = {Head(t)} \cup StepsIn(Tail(t))
      BY <3>1, ScriptTail
    <3> QED
      BY <3>1, <3>2 DEF t
  <2> QED
    BY <2>3, <2>4 DEF BundleFile
<1>8. recorded'[j] = recorded[j] \cup Own(j, {idx})
  BY <1>5 DEF Closes, Records
<1>9. <<Dir(j), idx>> \notin recorded[j]
  BY <1>2, <1>3 DEF RecordInv
<1>10. recorded[j] = recorded'[j] \ Own(j, {idx}) /\ <<Dir(j), idx>> \in recorded'[j]
  BY <1>8, <1>9 DEF Own
<1>11. files'[Dir(j)][idx] = Says(j, recorded'[j] \ Own(j, {idx}))
  <2>1. files'[Dir(j)][idx] = Payload(j, idx)
    BY <1>3, <1>5, WrittenIsThere
  <2>2. Payload(j, idx) = Says(j, recorded[j])
    BY DEF Payload, Says, MetadataFile
  <2> QED
    BY <1>10, <2>1, <2>2
<1> QED
  BY <1>1, <1>5, <1>6, <1>7, <1>8, <1>10, <1>11 DEF Indexed, Says

(* MetadataInv is kept. *)
LEMMA MetadataStep ==
  ASSUME DiskInv, MetadataInv, plan' = plan, CoreInv', NEW j \in Job, Others(j), Move(j)
  PROVE  MetadataInv'
<1> USE DEF CoreInv, DiskInv
<1>1. /\ \A k : Dir(k)' = Dir(k) /\ The(k)' = The(k) /\ Steps(k)' = Steps(k) /\ Inputs(k)' = Inputs(k)
      /\ \A k, fs : Own(k, fs)' = Own(k, fs)
  BY PlanStays DEF Inputs
<1>2. status[j] \in {"idle", "running"} /\ status'[j] # "idle"
  BY MoveScript
<1>3. ASSUME NEW k \in Job, Described(k)'
      PROVE  /\ status'[k] \in {"running", "ok"}
             /\ The(k).output.json /\ The(k).output.metadata /\ LastInItsDirectory(k)
  <2>1. \A m \in Job : status'[m] = "idle" => status[m] = "idle"
    BY <1>2 DEF Others
  <2>2. /\ status'[k] \in {"running", "ok"} /\ The(k).output.json /\ The(k).output.metadata
        /\ LastInItsDirectory(k)'
    BY <1>1, <1>3 DEF Described
  <2> QED
    BY <1>1, <2>1, <2>2 DEF LastInItsDirectory
<1>4. ASSUME NEW k \in Job, Described(k)'
      PROVE  /\ \A a \in recorded'[k] : Accounted(k, a)'
             /\ AboutTo(k, "run_metadata")' => ByItself(k, "run_manifest")'
             /\ AboutTo(k, "artifact_index")' => Own(k, BundleFile)' \subseteq recorded'[k]
             /\ "artifact_index" \in Passed(k)' => Indexed(k)'
  <2>1. CASE k # j
    <3>1. /\ status'[k] = status[k] /\ todo'[k] = todo[k] /\ recorded'[k] = recorded[k]
          /\ Described(k)
      BY <1>3, <1>4, <2>1 DEF Others, Described
    <3>2. Dir(j) # Dir(k)
      <4>1. SUFFICES ASSUME Dir(j) = Dir(k)
                     PROVE  FALSE
        OBVIOUS
      <4>2. j \in The(k).after
        BY <1>1, <1>2, <1>4, <2>1, <4>1 DEF Described, LastInItsDirectory
      <4>3. Ended(j)
        BY <3>1, <4>2 DEF ScriptInv, Described
      <4> QED
        BY <1>2, <4>3 DEF Ended
    <3>3. \A f \in File : files'[Dir(k)][f] = files[Dir(k)][f]
      <4>1. Dir(k) \in RunId
        BY JobFacts DEF TypeInv
      <4> QED
        BY <3>2, <4>1, FileMoves
    <3>4. \A f \in File : ByItself(k, f)' = ByItself(k, f)
      BY <1>1, <3>3 DEF ByItself
    <3>5. BundleFile \cup {"artifact_index"} \subseteq File
      BY DEF BundleFile, File, MetadataFile
    <3>6. \A a \in recorded[k] : Accounted(k, a)'
      <4>1. \A a \in recorded[k] : a[2] \in File /\ Accounted(k, a)
        BY <3>1 DEF MetadataInv, TypeInv, Artifact
      <4> QED
        BY <1>1, <3>4, <4>1 DEF Accounted
    <3>7. AboutTo(k, "run_metadata")' => ByItself(k, "run_manifest")'
      BY <3>1, <3>4, <3>5 DEF AboutTo, MetadataInv, BundleFile
    <3>8. AboutTo(k, "artifact_index")' => Own(k, BundleFile)' \subseteq recorded'[k]
      BY <1>1, <3>1 DEF AboutTo, MetadataInv
    <3>9. "artifact_index" \in Passed(k)' => Indexed(k)'
      <4>1. Passed(k)' = Passed(k) /\ Told(k)' = Told(k)
        BY <1>1, <3>1 DEF Passed, Told, Says
      <4>2. Indexed(k) => Indexed(k)'
        BY <1>1, <3>1, <3>3, <3>5, <4>1 DEF Indexed
      <4> QED
        BY <3>1, <4>1, <4>2 DEF MetadataInv
    <3> QED
      BY <3>1, <3>6, <3>7, <3>8, <3>9
  <2>2. CASE k = j /\ Starts(j)
    <3>1. recorded'[j] = {} /\ todo'[j] = Steps(j) /\ Passed(j)' = {}
      BY <1>1, <2>2 DEF Starts, Kept, ScriptInv, Passed
    <3>2. /\ <<"run_manifest", "run_metadata">> \in Origin
          /\ <<"run_metadata", "artifact_index">> \in Origin
      BY DEF Origin
    <3>3. ~AboutTo(j, "run_metadata")' /\ ~AboutTo(j, "artifact_index")'
      BY <3>1, <3>2, StepsFacts DEF AboutTo, TypeInv
    <3> QED
      BY <2>2, <3>1, <3>3
  <2>3. CASE k = j /\ ~Starts(j)
    <3>1. status[j] = "running"
      BY <1>2, <2>3 DEF Move, Fails, Finishes, Dies, Stops, Passes, Makes, SeesLink, SeesNoLink,
         Unlinks, Relinks, Loads, Opens, Closes, Skips, Takes
    <3>2. Described(j)
      BY <1>3, <1>4, <2>3, <3>1 DEF Described
    <3>3. /\ \A a \in recorded[j] : Accounted(j, a)
          /\ AboutTo(j, "run_metadata") => ByItself(j, "run_manifest")
          /\ AboutTo(j, "artifact_index") => Own(j, BundleFile) \subseteq recorded[j]
          /\ "artifact_index" \in Passed(j) => Indexed(j)
      BY <3>2 DEF MetadataInv
    <3>4. \A a \in recorded'[j] : Accounted(j, a)'
      BY <3>3, AccountedStep
    <3>5. /\ AboutTo(j, "run_metadata")' => ByItself(j, "run_manifest")'
          /\ AboutTo(j, "artifact_index")' => Own(j, BundleFile)' \subseteq recorded'[j]
      <4>1. status'[j] = "ok" => ~AboutTo(j, "run_metadata")' /\ ~AboutTo(j, "artifact_index")'
        BY MoveScript DEF AboutTo
      <4> QED
        BY <1>3, <1>4, <2>3, <3>1, <3>3, <4>1, BundleStep
    <3>6. "artifact_index" \in Passed(j)' => Indexed(j)'
      BY <3>1, <3>3, IndexedStays, IndexedComes
    <3> QED
      BY <2>3, <3>4, <3>5, <3>6
  <2> QED
    BY <2>1, <2>2, <2>3
<1> QED
  BY <1>4 DEF MetadataInv

(* Whatever the jobs: a job with metadata that ended well, in a directory  *)
(* nobody else was in since, leaves a manifest, its copy and an index that *)
(* are its own and name all it wrote before them, and nothing else but its *)
(* inputs and a left-over comparison with the expected worst cases         *)
(* (RunPipelineProperties.MetadataTellsTheRun).                            *)
THEOREM ManifestsTellTheRun == Spec => []MetadataTellsTheRun
<1> DEFINE Inv == DiskInv /\ MetadataInv
<1>1. Init => Inv
  <2>1. ASSUME Init
        PROVE  MetadataInv
    BY <2>1 DEF Init, MetadataInv, Described
  <2> QED
    BY <2>1, DiskInvariant
<1>2. Inv /\ [Next]_vars => Inv'
  <2>1. ASSUME Inv, [Next]_vars
        PROVE  DiskInv' /\ CoreInv /\ CoreInv'
    BY <2>1, DiskInvariant DEF DiskInv
  <2>2. ASSUME Inv, Next
        PROVE  MetadataInv'
    <3>1. plan' = plan /\ \E j \in Job : Others(j) /\ Move(j)
      BY <2>1, <2>2, StepMoves DEF CoreInv
    <3> QED
      BY <2>1, <2>2, <3>1, MetadataStep
  <2>3. ASSUME Inv, UNCHANGED vars
        PROVE  MetadataInv'
    <3>1. /\ \A k : /\ Dir(k)' = Dir(k) /\ The(k)' = The(k) /\ Steps(k)' = Steps(k)
                    /\ Inputs(k)' = Inputs(k)
          /\ \A k, fs : Own(k, fs)' = Own(k, fs)
      BY <2>3, PlanStays DEF vars, Inputs
    <3>2. \A k : /\ Described(k)' = Described(k) /\ Passed(k)' = Passed(k)
                 /\ AboutTo(k, "run_metadata")' = AboutTo(k, "run_metadata")
                 /\ AboutTo(k, "artifact_index")' = AboutTo(k, "artifact_index")
                 /\ ByItself(k, "run_manifest")' = ByItself(k, "run_manifest")
      BY <2>3, <3>1 DEF vars, Described, LastInItsDirectory, Passed, AboutTo, ByItself
    <3>3. \A k, a : Accounted(k, a)' = Accounted(k, a)
      BY <2>3, <3>1 DEF vars, Accounted, ByItself
    <3>4. \A k : Indexed(k)' = Indexed(k)
      BY <2>3, <3>1 DEF vars, Indexed, Told, Says
    <3> QED
      BY <2>3, <3>1, <3>2, <3>3, <3>4 DEF vars, MetadataInv
  <2> QED
    BY <2>1, <2>2, <2>3
<1>3. Inv => MetadataTellsTheRun
  <2>1. SUFFICES ASSUME DiskInv, MetadataInv, NEW j \in Job,
                        status[j] = "ok", The(j).output.json, The(j).output.metadata,
                        LastInItsDirectory(j)
                 PROVE  LET disk == files[Dir(j)]
                            written == {f \in File : disk[f] # None /\ disk[f].by = j} \ {"trace_csv"}
                            names == disk["run_manifest"].names
                        IN  /\ {"run_manifest", "run_metadata", "artifact_index"} \subseteq written
                            /\ disk["run_manifest"] = disk["run_metadata"]
                            /\ Own(j, written) \subseteq names
                            /\ disk["artifact_index"].names = names \ Own(j, {"artifact_index"})
                            /\ names \subseteq Inputs(j) \cup
                                 Own(j, written \cup {"expected_wcrt_comparison"})
    BY DEF MetadataTellsTheRun, Inputs, Side
  <2> DEFINE disk == files[Dir(j)]
             written == {f \in File : disk[f] # None /\ disk[f].by = j} \ {"trace_csv"}
             own == Own(j, {"artifact_index"})
             told == Says(j, recorded[j])
             less == Says(j, recorded[j] \ own)
  <2>2. /\ plan \in Plans /\ todo[j] = <<>> /\ StepsIn(todo[j]) = {} /\ j \notin open
        /\ Dir(j) \in RunId /\ recorded[j] \subseteq Artifact
    BY <2>1, JobFacts DEF DiskInv, CoreInv, TypeInv, ScriptInv, StepsIn
  <2>3. Described(j)
    BY <2>1 DEF Described
  <2>4. "artifact_index" \in Passed(j)
    BY <2>1, <2>2, StepsFacts DEF Passed
  <2>5. Indexed(j)
    BY <2>1, <2>3, <2>4 DEF MetadataInv
  <2>6. told.by = j /\ told.names = recorded[j] /\ less.by = j /\ less.names = recorded[j] \ own
    BY DEF Says
  <2>7. told \in Content /\ less \in Content
    <3>1. \A names \in SUBSET Artifact : Says(j, names) \in Content
      BY <2>1 DEF Says, Content
    <3> QED
      BY <2>2, <3>1
  <2>8. told # None /\ less # None
    BY <2>7, NoneAssumption
  <2>9. disk["run_manifest"] = told /\ disk["run_metadata"] = told
    BY <2>2, <2>5 DEF Indexed, BundleFile, Told
  <2>10. disk["artifact_index"] = less
    BY <2>5 DEF Indexed
  <2> HIDE DEF told, less, own
  <2>12. {"run_manifest", "run_metadata", "artifact_index"} \subseteq written
    <3>1. \A f \in {"run_manifest", "run_metadata", "artifact_index"} :
            f \in File /\ f # "trace_csv"
      BY DEF File, MetadataFile
    <3> QED
      BY <2>6, <2>8, <2>9, <2>10, <3>1
  <2>13. ASSUME NEW f \in written
         PROVE  <<Dir(j), f>> \in recorded[j]
    <3>1. f \in File /\ f # "trace_csv" /\ files[Dir(j)][f] # None /\ files[Dir(j)][f].by = j
      BY <2>13
    <3>2. CASE f \in BundleFile
      BY <2>5, <3>2 DEF Indexed, Own
    <3>3. CASE f \notin BundleFile
      <4>1. files[Dir(j)][f].whole
        <5> HIDE DEF written
        <5>1. ~files[Dir(j)][f].whole => status[j] = "crashed" \/ j \in open
          BY <2>1, <2>2, <3>1 DEF DiskInv, FileInv, Sourced
        <5> QED
          BY <2>1, <2>2, <5>1
      <4> QED
        BY <2>1, <2>2, <3>1, <3>3, <4>1 DEF DiskInv, FileInv, Sourced
    <3> QED
      BY <3>2, <3>3
  <2>14. ASSUME NEW a \in recorded[j]
         PROVE  a \in Inputs(j) \cup Own(j, written \cup {"expected_wcrt_comparison"})
    <3>1. Accounted(j, a)
      BY <2>1, <2>3 DEF MetadataInv
    <3>2. a[2] \in File /\ a = <<a[1], a[2]>>
      BY <2>2 DEF Artifact
    <3>3. ByItself(j, a[2]) /\ a[2] # "trace_csv" => a[2] \in written
      BY <3>2 DEF ByItself
    <3> HIDE DEF written
    <3> QED
      BY <3>1, <3>2, <3>3 DEF Accounted, Own
  <2>15. Own(j, written) \subseteq recorded[j]
    <3> HIDE DEF written
    <3> QED
      BY <2>13 DEF Own
  <2> HIDE DEF written
  <2>16. recorded[j] \subseteq Inputs(j) \cup Own(j, written \cup {"expected_wcrt_comparison"})
    BY <2>14
  <2>17. /\ disk["run_manifest"] = disk["run_metadata"]
         /\ disk["run_manifest"].names = recorded[j]
         /\ disk["artifact_index"].names = recorded[j] \ Own(j, {"artifact_index"})
    BY <2>6, <2>9, <2>10 DEF own
  <2> HIDE DEF disk
  <2> QED
    BY <2>12, <2>15, <2>16, <2>17 DEF written, disk
<1> QED
  <2> HIDE DEF Inv
  <2> QED
    BY <1>1, <1>2, <1>3, PTL DEF Spec
=============================================================================
