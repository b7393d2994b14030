------------------------------ MODULE MCProxy ------------------------------
(* Small instances of Proxy for TLC. *)
EXTENDS Proxy, TLC

CONSTANTS r1, r2, r3, s1, s2

\* One address: the second server object is the first one added again.
Addresses == [s \in Servers |-> "address"]

\* The requests are alike: they arrive in this order.  While there are two of
\* them, servers come and go, fail and recover; a stopped proxy is given no
\* server again.  With the third one the server stays as it is, or was removed
\* before it had a request, so that it is the queue that fills and drains.
Bounds ==
  /\ pc'[r2] # "idle" => pc[r1] # "idle"
  /\ pc'[r3] # "idle" => pc[r2] # "idle"
  /\ stopping' => known' = InitialServers
  /\ pc'[r3] # "idle" =>
       /\ known' = InitialServers
       /\ pool' = InitialServers \/ \A r \in Requests : fwd'[r] = "none"
       /\ \A s \in Servers : fails'[s] = 0
       /\ \A r \in Requests : fwd'[r] # "failed"
       /\ ~stopping' /\ ~crashed'

=============================================================================
