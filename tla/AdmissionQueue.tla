--------------------------- MODULE AdmissionQueue ---------------------------
(***************************************************************************)
(* What the queue of a load balancer promises, whatever the strategies,    *)
(* locks and failures: an admitted request waits in order of arrival, is   *)
(* taken from the head, and is either settled for good or put back at the  *)
(* end.  It is never in two places and never settled twice.  LoadBalancer  *)
(* implements this specification with one server, Proxy with servers that  *)
(* work in parallel.                                                       *)
(***************************************************************************)
EXTENDS Naturals, Sequences

CONSTANTS
  Items,
  Limit,        \* 0 = unlimited
  OneAtATime    \* no item is taken while another is in service

VARIABLES waiting, inService, settled

qvars == <<waiting, inService, settled>>

Waiting == {waiting[i] : i \in 1 .. Len(waiting)}

QInit == waiting = <<>> /\ inService = {} /\ settled = {}

\* A new item joins the queue if there is room.
Admit(x) ==
  /\ x \notin Waiting \cup inService \cup settled
  /\ Limit > 0 => Len(waiting) < Limit
  /\ waiting' = Append(waiting, x)
  /\ UNCHANGED <<inService, settled>>

Take ==
  /\ waiting # <<>>
  /\ OneAtATime => inService = {}
  /\ inService' = inService \cup {Head(waiting)}
  /\ waiting' = Tail(waiting)
  /\ UNCHANGED settled

\* A failed attempt returns to the queue, which may be full by now.
PutBack(x) ==
  /\ x \in inService
  /\ inService' = inService \ {x}
  /\ waiting' = Append(waiting, x)
  /\ UNCHANGED settled

Settle(x) ==
  /\ x \in inService
  /\ inService' = inService \ {x}
  /\ settled' = settled \cup {x}
  /\ UNCHANGED waiting

QNext ==
  \/ \E x \in Items : Admit(x) \/ PutBack(x) \/ Settle(x)
  \/ Take

QSpec == QInit /\ [][QNext]_qvars

=============================================================================
