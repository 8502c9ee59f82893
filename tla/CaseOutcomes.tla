---------------------------- MODULE CaseOutcomes ----------------------------
(***************************************************************************)
(* What a batch promises, whatever directories, files and runs it uses:    *)
(* every case that is due gets one outcome of its own, in any order, which *)
(* no other case changes; a verdict is given only when every case has its  *)
(* outcome, and says whether all of them succeeded.                        *)
(***************************************************************************)
CONSTANT Case

VARIABLES due, outcome, verdict

vars == <<due, outcome, verdict>>

Init == /\ due = {}
        /\ outcome = [c \in Case |-> "pending"]
        /\ verdict = "none"

(* A batch begins, also where an earlier one was given up.                 *)
Begin == /\ due' \in SUBSET Case
         /\ outcome' = [c \in Case |-> "pending"]
         /\ verdict' = "none"

Decide(c) == /\ verdict = "none"
             /\ c \in due /\ outcome[c] = "pending"
             /\ \E o \in {"success", "failed"} :
                  outcome' = [outcome EXCEPT ![c] = o]
             /\ UNCHANGED <<due, verdict>>

GiveVerdict ==
  /\ verdict = "none"
  /\ \A c \in due : outcome[c] # "pending"
  /\ verdict' = IF \A c \in due : outcome[c] = "success" THEN "success"
                ELSE "partial_failure"
  /\ UNCHANGED <<due, outcome>>

Next == Begin \/ (\E c \in Case : Decide(c)) \/ GiveVerdict

Spec == Init /\ [][Next]_vars
=============================================================================
