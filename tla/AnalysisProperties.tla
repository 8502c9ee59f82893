-------------------------- MODULE AnalysisProperties ---------------------------
(***************************************************************************)
(* The analysis against the simulator, on the same case.                   *)
(***************************************************************************)
EXTENDS SimulatorProperties, Analysis

(* A delivered frame f took no longer than the analysis allows its stream, *)
(* with the deadline the normalisation fills in.                           *)
InBound(f) ==
    Analysable(case) /\ ClassOf(f) \in Shaped /\ frames[f].deliveredAt # None =>
      (frames[f].deliveredAt - frames[f].releasedAt) * Scale(case)
        <= Wcrt(case, case.period, StreamOf(f))

AloneInClass(s) == \A t \in Stream \ {s} : case.class[t] = case.class[s] =>
                     ToSet(case.route[s]) \cap ToSet(case.route[t]) = {}

(* The first frame of a stream that shares its class with nobody on its    *)
(* links meets the bound of per_link_analysis_service.py on every path:    *)
(* one lower frame, and for class B what class A may send meanwhile.  The  *)
(* default configuration releases no other frame.                          *)
FirstFrameIsBounded ==
    \A f \in DOMAIN frames :
      f[2] = 0 /\ AloneInClass(StreamOf(f)) => InBound(f)

(* On every link the frames of a class take at most its idle share.        *)
WithinReservation(c) ==
    \A l \in Link :
      LET crossing == {s \in Stream : case.class[s] = c /\ Contains(case.route[s], l)}
          common   == ProductSet({case.period[s] : s \in crossing})
      IN MapThenSumSet(LAMBDA s : (Airtime(s, l) * common) \div case.period[s], crossing) * Whole(case, c)
           <= common * case.slopes[c].idle

(* "Compute analytical AVB WCRT bounds from the normalized case model"     *)
(* (analysis/engine.py): where the classes keep within their reservations  *)
(* no delivered frame exceeds the bound of its stream.                     *)
AnalysisBoundsSimulation ==
    (\A c \in Shaped : WithinReservation(c)) =>
      \A f \in DOMAIN frames : InBound(f)
=============================================================================
