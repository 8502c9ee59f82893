------------------------------- MODULE MCBatch -------------------------------
(***************************************************************************)
(* Two directories with the same name, two batch ids with the same slug,   *)
(* two batches.                                                            *)
(***************************************************************************)
EXTENDS BatchProperties, TLC

Ids == {"Nightly", "nightly"}
SameSlug == [b \in Ids |-> "nightly"]
SameName == [p \in 1 .. 2 |-> "case"]

Both == <<"case", "case">>
Second == <<"other", "case">>
BrokenNeighbour == <<"case", "broken">>

Of(id, t, m) == [id |-> id, tree |-> t, metadata |-> m]

(* The id is used again, or one that differs in case; a case is added or   *)
(* taken away; metadata is switched off.                                   *)
Twice == <<{Of("nightly", Both, TRUE), Of("nightly", Second, TRUE), Of("nightly", Both, FALSE)},
           {Of("nightly", Both, TRUE), Of("nightly", Second, FALSE),
            Of("Nightly", Both, FALSE), Of("Nightly", BrokenNeighbour, TRUE)}>>

Once == <<{Of("nightly", BrokenNeighbour, TRUE), Of("nightly", Both, TRUE)}>>
=============================================================================
