------------------------------- MODULE MCTasks -------------------------------
(* A small instance of Tasks, and with it of SSHManager, for TLC. *)
EXTENDS Tasks, TLC

CONSTANTS p1, host, c1, probe, a, b, missing

\* A task in the background that waits for one in the foreground, one that waits
\* for a task that is missing, and a circle.
SomeDependencies ==
  {a :> {} @@ b :> {a}, a :> {} @@ b :> {missing}, a :> {b} @@ b :> {a}}

\* Heartbeats and other commands beside those of the tasks.
SomeCalls == TaskCalls \cup {probe}

AllAtHost == [x \in Calls |-> host]
AllOnHost == [p \in Provisioners |-> host]

=============================================================================
