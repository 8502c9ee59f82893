------------------------------ MODULE CbsPolicy ------------------------------
(***************************************************************************)
(* The transmission-selection and credit arithmetic of one egress port:    *)
(* simulation/policies/cbs.py, policies/transmission_selection.py,         *)
(* policies/fifo.py and the credit helpers of services/credit_service.py.  *)
(*                                                                         *)
(* Times and credits are integers: a case is modelled in a time unit in    *)
(* which its periods and serialization delays are whole, and in credit     *)
(* units in which its slopes are whole.                                    *)
(***************************************************************************)
EXTENDS Integers, Sequences

(* The three traffic classes and the queue definitions that normalization  *)
(* gives every case: both AVB classes are credit shaped.                   *)
TrafficClass == {"class_a", "class_b", "best_effort"}
Shaped == {"class_a", "class_b"}
Priority == [class_a |-> 2, class_b |-> 1, best_effort |-> 0]

(* No class is on the wire of an idle port. *)
NoClass == "none"

-----------------------------------------------------------------------------

(* Mutants, here and below: plausible mistakes in the definition that      *)
(* follows, each caught by a property (see PROJECT.json).                  *)
StrictlyPositiveCredit(credit) == credit > 0
AnyCredit(credit) == TRUE

(* A shaped queue may start a frame only with a non-negative credit. *)
CanTransmitWithCredit(credit) == credit >= 0

(* The credit of one queue after an interval in which it was transmitting, *)
(* waited behind a best-effort frame, or neither.                          *)
IntegrateCredit(credit, elapsed, slope, transmitting, blocked) ==
  LET recovered == credit + slope.idle * elapsed IN
  CASE transmitting                  -> credit - slope.send * elapsed
    [] ~transmitting /\ blocked      -> recovered
    [] ~transmitting /\ ~blocked /\ credit < 0
                                     -> IF recovered > 0 THEN 0 ELSE recovered
    [] OTHER                         -> credit

NeverNormalized(credit, pending, wire, c) == credit

(* A positive credit is lost by a class with no frame queued or on the wire. *)
NormalizeIdlePositiveCredit(credit, pending, wire, c) ==
  IF credit > 0 /\ pending[c] = <<>> /\ wire # c THEN 0 ELSE credit

BlockedByAnyClass(credit, elapsed, slopes, pending, wire) ==
  [c \in Shaped |->
     NormalizeIdlePositiveCredit(
       IntegrateCredit(credit[c], elapsed, slopes[c], wire = c,
                       wire \notin {NoClass, c} /\ pending[c] # <<>>),
       pending, wire, c)]

(* synchronize_port_credits: every credit of the port brought up to date,   *)
(* judging the whole interval by the queues and the wire as they are now.   *)
SynchronizedCredit(credit, elapsed, slopes, pending, wire) ==
  [c \in Shaped |->
     NormalizeIdlePositiveCredit(
       IntegrateCredit(credit[c], elapsed, slopes[c], wire = c,
                       wire = "best_effort" /\ pending[c] # <<>>),
       pending, wire, c)]

RecoverySignLost(credit, idleSlope) ==
  IF credit >= 0 THEN 0 ELSE credit \div idleSlope
RecoveryOneLate(credit, idleSlope) ==
  IF credit >= 0 THEN 0 ELSE 1 - (credit \div idleSlope)

(* Time units until a credit is back at zero (the quotient is exact on the *)
(* grid the model assumes; it is rounded up).                              *)
RecoveryDelay(credit, idleSlope) ==
  IF credit >= 0 THEN 0 ELSE -(credit \div idleSlope)

-----------------------------------------------------------------------------

(* Classes whose head frame may start now. *)
Eligible(pending, credit) ==
  {c \in TrafficClass : /\ pending[c] # <<>>
                        /\ c \in Shaped => CanTransmitWithCredit(credit[c])}

(* The queues are FIFO: frames join at the tail and leave from the head. *)
JoinedAtHead(pending, f) == <<f>> \o pending
Joined(pending, f) == Append(pending, f)

PeekedNotPopped(pending) == pending
Popped(pending) == Tail(pending)

(* build_scheduler_decision: the eligible class of highest priority; the    *)
(* frame is the head of its queue.                                          *)
IsCandidate(c, pending, credit) ==
  /\ c \in Eligible(pending, credit)
  /\ \A d \in Eligible(pending, credit) : Priority[d] <= Priority[c]

(* Shaped classes that wait for their credit to come back to zero. *)
Recovering(pending, credit) ==
  {c \in Shaped : pending[c] # <<>> /\ credit[c] < 0}

RecoversLast(c, pending, credit, slopes) ==
  LET delay(d) == RecoveryDelay(credit[d], slopes[d].idle) IN
  /\ c \in Recovering(pending, credit)
  /\ \A d \in Recovering(pending, credit) \ {c} :
       \/ delay(c) > delay(d)
       \/ delay(c) = delay(d) /\ Priority[c] > Priority[d]

(* The class whose credit is back first; the port's queues are visited by  *)
(* descending priority, so the higher class wins a tie.                    *)
RecoversFirst(c, pending, credit, slopes) ==
  LET delay(d) == RecoveryDelay(credit[d], slopes[d].idle) IN
  /\ c \in Recovering(pending, credit)
  /\ \A d \in Recovering(pending, credit) \ {c} :
       \/ delay(c) < delay(d)
       \/ delay(c) = delay(d) /\ Priority[c] > Priority[d]
=============================================================================
