--------------------------- MODULE MCLoadBalancer ---------------------------
(* Small instances of LoadBalancer for TLC, and what a comment says of it. *)
EXTENDS LoadBalancer, TLC

CONSTANTS r1, r2, r3, p1, p2, k1

\* Every request has the same prompt: what one records is of use to the others.
OnePrompt == {k1}
SamePrompt == [r \in Requests |-> k1]

\* Requests that are not pushed differ in nothing but their names.
Symmetry == Permutations(Requests \ Pushed)

\* loadbalancer.go:922 "Backend unavailable": a failure of the local backend is
\* answered, it does not end the process that serves everyone else.
BackendFailureIsContained == procPc # "crashed"

=============================================================================
