--------------------------- MODULE StoreAndForward ---------------------------
(***************************************************************************)
(* What a simulation promises of frames, whatever events, markers, queues  *)
(* and credits it uses: every stream sends a frame a period; a frame       *)
(* crosses the links of its route one after the other; a link carries one  *)
(* frame at a time, whole, for as long as the frame takes, and is not free *)
(* while a best-effort frame waits for it; and of the frames of a class    *)
(* that wait for a link, the one that came first goes first, those of a    *)
(* stream in the order they were sent.                                     *)
(***************************************************************************)
EXTENDS Naturals, Sequences

CONSTANTS
  Stream, Link,
  Networks  \* what there is to simulate

VARIABLES
  net,      \* route, class, period and airtimes of the streams
  now,
  sent,     \* sent[s]: how many frames stream s has sent
  crossed,  \* crossed[f]: how many links frame f has crossed
  since,    \* since[f]: when frame f came to where it is
  wire      \* wire[l], for the links in use: the frame on it, and until when

vars == <<net, now, sent, crossed, since, wire>>

WaitsFor(f, l) ==
  /\ crossed[f] < Len(net.route[f[1]])
  /\ net.route[f[1]][crossed[f] + 1] = l
  /\ \A k \in DOMAIN wire : wire[k].frame # f

GoesBefore(f, g) ==
  net.class[f[1]] = net.class[g[1]] =>
    /\ since[f] <= since[g]
    /\ f[1] = g[1] => f[2] < g[2]

Init ==
  /\ net \in Networks
  /\ now = 0
  /\ sent = [s \in Stream |-> 0]
  /\ crossed = [f \in {} |-> 0]
  /\ since = [f \in {} |-> 0]
  /\ wire = [l \in {} |-> 0]

(* Time never passes the end of a transmission by, nor a free link that a   *)
(* best-effort frame waits for.  (The shaper may hold up the others.)      *)
TimePasses ==
  /\ now' >= now
  /\ \A l \in DOMAIN wire : now' <= wire[l].until
  /\ now' > now =>
       \A l \in Link \ DOMAIN wire, f \in DOMAIN crossed :
         WaitsFor(f, l) => net.class[f[1]] # "best_effort"

Send(s) ==
  LET f == <<s, sent[s]>> IN
  /\ now' = sent[s] * net.period[s]
  /\ sent' = [sent EXCEPT ![s] = @ + 1]
  /\ crossed' = [g \in DOMAIN crossed \cup {f} |-> IF g = f THEN 0 ELSE crossed[g]]
  /\ since' = [g \in DOMAIN crossed \cup {f} |-> IF g = f THEN now' ELSE since[g]]
  /\ UNCHANGED wire

Transmit(f, l) ==
  /\ l \notin DOMAIN wire /\ WaitsFor(f, l)
  /\ \A g \in DOMAIN crossed \ {f} : WaitsFor(g, l) => GoesBefore(f, g)
  /\ now' = now
  /\ wire' = [k \in DOMAIN wire \cup {l} |->
                IF k = l THEN [frame |-> f, until |-> now + net.airtime[f[1]][l]]
                ELSE wire[k]]
  /\ UNCHANGED <<sent, crossed, since>>

Cross(f, l) ==
  /\ l \in DOMAIN wire /\ wire[l].frame = f
  /\ now' = wire[l].until
  /\ wire' = [k \in DOMAIN wire \ {l} |-> wire[k]]
  /\ crossed' = [crossed EXCEPT ![f] = @ + 1]
  /\ since' = [since EXCEPT ![f] = now']
  /\ UNCHANGED sent

Wait == UNCHANGED <<sent, crossed, since, wire>>

Next ==
  /\ TimePasses /\ UNCHANGED net
  /\ \/ \E s \in Stream : Send(s)
     \/ \E f \in DOMAIN crossed, l \in Link : Transmit(f, l) \/ Cross(f, l)
     \/ Wait

Spec == Init /\ [][Next]_vars
==============================================================================
