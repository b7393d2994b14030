------------------------------ MODULE MCTracer ------------------------------
(* Small instances of Tracer for TLC. *)
EXTENDS Tracer

\* With two nodes one forwards a request to the other, and there are two
\* commands; with one node, two requests and three commands.
SmallClusters ==
  {[listed |-> <<1, 2>>, commands |-> 2,
    arrivals |-> {<<"q1", 1, <<"forward", "flow", "forwarded">>>>,
                  <<"q2", 2, <<"received", "local", "completed">>>>}],
   [listed |-> <<1>>, commands |-> 3,
    arrivals |-> {<<"q1", 1, <<"received", "local", "completed">>>>,
                  <<"q2", 1, <<"received", "local", "completed">>>>}]}

=============================================================================
