------------------------------- MODULE MCMesh -------------------------------
(* Small instances of Mesh for TLC. *)
EXTENDS Mesh

CONSTANTS n1, n2, c1, c2

FourVisits == 1 .. 4
OneEach == [c \in Clients |-> IF c = c1 THEN n1 ELSE n2]

=============================================================================
