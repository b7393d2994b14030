------------------------------- MODULE Tracer -------------------------------
(***************************************************************************)
(* Event tracing: the tracer of each load balancer (pkg/cluster/trace.go), *)
(* its endpoints, and 'gotoni cluster start-trace' and 'stop-trace'        *)
(* (cmd/cluster.go), which start and collect the traces of all nodes.      *)
(*                                                                         *)
(* A tracer's pointer to the session is guarded by sessionMu, the events   *)
(* of a session by eventsMu; Stop appends its closing event with the first *)
(* held and not the second.  A session is named for the command that       *)
(* started it; when it is stopped or replaced, only goroutines that have   *)
(* read the pointer before still know it, and what they add is never seen. *)
(* ReceiveRemoteEvents and GetTraceHeaders have no caller.                 *)
(***************************************************************************)
EXTENDS Integers, SequencesExt

CONSTANTS
  Nodes,
  Requests,     \* what a handler, or a turn of the processor, does for a request
  Clusters,     \* listed: the nodes, in the order in which they are listed;
                \* arrivals: what requests may come, where, and their ways;
                \* commands: the bound on the commands that are given
  MaxCommands,  \* the largest of these bounds
  None

\* The hooks of a handler, in the order in which it calls them: it serves the
\* request, forwards it, queues it or rejects it, the latter two also after a
\* forward that failed; then those of the processor's loop.  TraceForwardStart
\* records two events, of which "flow" is the second.
Ways ==
  {<<"received", "local", "completed">>,
   <<"received">>, <<"received", "completed">>,
   <<"received", "queueExit", "completed">>,
   <<"received", "forward", "flow", "forwarded">>,
   <<"received", "forward", "flow", "forwarded", "completed">>,
   <<"received", "forward", "flow", "forwarded", "queueExit", "completed">>,
   <<"local", "localEnd">>, <<"forward", "flow", "forwarded">>}

TracerAssumption ==
  /\ MaxCommands \in Nat
  /\ None \notin Requests
  /\ \A l \in Clusters :
       /\ l.listed \in Seq(Nodes) \ {<<>>} /\ IsInjective(l.listed)
       /\ l.arrivals \subseteq Requests \X Nodes \X Ways
       /\ l.commands \in 0 .. MaxCommands

ASSUME TracerAssumption

Commands == 1 .. MaxCommands

NoSession == 0

VARIABLES
  cluster,   \* the cluster, one of Clusters
  session,   \* t.session of each tracer
  active,    \* t.session.active
  events,    \* t.session.events
  eventsMu,  \* who holds t.session.eventsMu
  req,       \* the goroutines that do something for the requests
  cmd,       \* the commands
  file,      \* the trace a command saved for a node
  traced     \* the requests that have been traced from their beginning

vars == <<cluster, session, active, events, eventsMu, req, cmd, file, traced>>

\* node: where it is; hook: the one of its way that it calls; at: where
\* recordEvent is; s, buf: the session and the events it has read.
Goroutine == [node |-> None, way |-> <<>>, hook |-> 1, at |-> "new",
              s |-> NoSession, buf |-> <<>>]

\* left: the nodes still to be asked; ok: no error so far; buf, racing: the
\* events there were when Stop began, and those that were being recorded.
Command == [kind |-> None, left |-> <<>>, at |-> "new", ok |-> TRUE,
            buf |-> <<>>, racing |-> {}, covers |-> {}]

Init ==
  /\ cluster \in Clusters
  /\ session = [n \in Nodes |-> NoSession]
  /\ active = [n \in Nodes |-> FALSE]
  /\ events = [n \in Nodes |-> <<>>]
  /\ eventsMu = [n \in Nodes |-> None]
  /\ req = [r \in Requests |-> Goroutine]
  /\ cmd = [c \in Commands |-> Command]
  /\ file = [c \in Commands |-> [n \in Nodes |-> None]]
  /\ traced = {}

Began(n) == <<None, n, 1>>
Ended(n) == <<None, n, 2>>

\* Stop holds sessionMu on node n until it returns.
Stopper(n) ==
  {c \in Commands : cmd[c].at \in {"close", "copy"} /\ Head(cmd[c].left) = n}

Free(n) == Stopper(n) = {}

-----------------------------------------------------------------------------
(* Requests and the hooks they call *)

Running(c) == cmd[c].at \notin {"new", "done"}

Quiet == \A c \in Commands : ~Running(c)

\* The last command given is a start that reached every node.
Tracing ==
  /\ Quiet
  /\ \E c \in Commands :
       /\ cmd[c].at = "done" /\ cmd[c].kind = "start" /\ cmd[c].ok
       /\ \A d \in Commands : d > c => cmd[d].at = "new"

Receive(r, n, way) ==
  /\ req[r].at = "new" /\ <<r, n, way>> \in cluster.arrivals
  /\ req' = [req EXCEPT ![r].node = n, ![r].way = way, ![r].at = "look"]
  /\ traced' = IF Tracing THEN traced \cup {r} ELSE traced
  /\ UNCHANGED <<cluster, session, active, events, eventsMu, cmd, file>>

Here(r) == req[r].node

\* Its event of this hook.
Event(r) == <<r, Here(r), req[r].hook>>

\* The goroutine q past its hook.
Past(q) ==
  [q EXCEPT !.hook = @ + 1, !.s = NoSession, !.buf = <<>>,
            !.at = IF q.hook = Len(q.way) THEN "done" ELSE "look"]

\* IsActive, and the pointer that recordEvent reads: a hook that finds tracing
\* inactive at the first has the effect of one that does at the second, but
\* that TraceForwardStart records neither event.
ReadSession(r) ==
  /\ req[r].at = "look" /\ Free(Here(r))
  /\ LET s == session[Here(r)] IN
     \/ /\ s # NoSession
        /\ req' = [req EXCEPT ![r].at = "check", ![r].s = s]
     \/ s = NoSession /\ req' = [req EXCEPT ![r] = Past(@)]
     \/ /\ s = NoSession /\ req[r].way[req[r].hook] = "forward"
        /\ req' = [req EXCEPT ![r] = Past(Past(@))]
  /\ UNCHANGED <<cluster, session, active, events, eventsMu, cmd, file, traced>>

Current(r) == req[r].s = session[Here(r)]

\* The session it has read has been stopped or replaced.
Late(r) ==
  /\ req[r].at \in {"check", "lock", "append"} /\ ~Current(r)
  /\ req' = [req EXCEPT ![r] = Past(@)]
  /\ UNCHANGED <<cluster, session, active, events, eventsMu, cmd, file, traced>>

\* Mutant of CheckActive: only the pointer is looked at.
CheckActiveNever(r) ==
  /\ req[r].at = "check" /\ Current(r)
  /\ req' = [req EXCEPT ![r].at = "lock"]
  /\ UNCHANGED <<cluster, session, active, events, eventsMu, cmd, file, traced>>

CheckActive(r) ==
  /\ req[r].at = "check" /\ Current(r)
  /\ req' = [req EXCEPT ![r] =
       IF active[Here(r)] THEN [@ EXCEPT !.at = "lock"] ELSE Past(@)]
  /\ UNCHANGED <<cluster, session, active, events, eventsMu, cmd, file, traced>>

\* Mutant of LockEvents: the events are appended to without the mutex.
LockEventsNot(r) ==
  /\ req[r].at = "lock" /\ Current(r)
  /\ req' = [req EXCEPT ![r].at = "append", ![r].buf = events[Here(r)]]
  /\ UNCHANGED <<cluster, session, active, events, eventsMu, cmd, file, traced>>

LockEvents(r) ==
  /\ req[r].at = "lock" /\ Current(r) /\ eventsMu[Here(r)] = None
  /\ eventsMu' = [eventsMu EXCEPT ![Here(r)] = r]
  /\ req' = [req EXCEPT ![r].at = "append", ![r].buf = events[Here(r)]]
  /\ UNCHANGED <<cluster, session, active, events, cmd, file, traced>>

AppendEvent(r) ==
  /\ req[r].at = "append" /\ Current(r)
  /\ events' = [events EXCEPT ![Here(r)] = Append(req[r].buf, Event(r))]
  /\ eventsMu' = [eventsMu EXCEPT ![Here(r)] = None]
  /\ req' = [req EXCEPT ![r] = Past(@)]
  /\ UNCHANGED <<cluster, session, active, cmd, file, traced>>

-----------------------------------------------------------------------------
(* The commands *)

\* A stop should find the requests that are done and were traced from their
\* beginning, if no other command runs beside it.
Give(c, kind) ==
  /\ c <= cluster.commands
  /\ cmd[c].at = "new" /\ \A b \in Commands : b < c => cmd[b].at # "new"
  /\ LET whole == {r \in traced : req[r].at = "done"} IN
     cmd' = [b \in Commands |->
       IF b # c THEN [cmd[b] EXCEPT !.covers = IF Running(b) THEN {} ELSE @]
       ELSE [Command EXCEPT !.kind = kind, !.at = "ask",
               !.left = cluster.listed,
               !.covers = IF kind = "stop" /\ Quiet THEN whole ELSE {}]]
  /\ traced' = {}
  /\ UNCHANGED <<cluster, session, active, events, eventsMu, req, file>>

\* The command goes on to the next node.
Onward(c, ok) ==
  [cmd[c] EXCEPT !.left = Tail(@), !.ok = @ /\ ok, !.buf = <<>>, !.racing = {},
                 !.at = IF Len(cmd[c].left) > 1 THEN "ask" ELSE "done"]

\* Starting again drops the session there is with its events.
Start(c) ==
  /\ cmd[c].kind = "start" /\ cmd[c].at = "ask"
  /\ LET n == Head(cmd[c].left) IN
     /\ Free(n)
     /\ session' = [session EXCEPT ![n] = c]
     /\ active' = [active EXCEPT ![n] = TRUE]
     /\ events' = [events EXCEPT ![n] = <<Began(n)>>]
     /\ eventsMu' = [eventsMu EXCEPT ![n] = None]
     /\ \E answered \in BOOLEAN : cmd' = [cmd EXCEPT ![c] = Onward(c, answered)]
  /\ UNCHANGED <<cluster, req, file, traced>>

\* The node is not reached.
AskFails(c) ==
  /\ cmd[c].at = "ask"
  /\ cmd' = [cmd EXCEPT ![c] = Onward(c, FALSE)]
  /\ UNCHANGED <<cluster, session, active, events, eventsMu, req, file, traced>>

\* No session: the endpoint says so, which is no trace to save.
StopRefused(c) ==
  /\ cmd[c].kind = "stop" /\ cmd[c].at = "ask"
  /\ LET n == Head(cmd[c].left) IN Free(n) /\ session[n] = NoSession
  /\ cmd' = [cmd EXCEPT ![c] = Onward(c, FALSE)]
  /\ UNCHANGED <<cluster, session, active, events, eventsMu, req, file, traced>>

Stop(c) ==
  /\ cmd[c].kind = "stop" /\ cmd[c].at = "ask"
  /\ LET n == Head(cmd[c].left) IN
     /\ Free(n) /\ session[n] # NoSession
     /\ active' = [active EXCEPT ![n] = FALSE]
     /\ cmd' = [cmd EXCEPT ![c].at = "close", ![c].buf = events[n],
          ![c].racing = {Event(r) : r \in {q \in Requests :
             req[q].at \in {"lock", "append"} /\ Here(q) = n /\ Current(q)}}]
  /\ UNCHANGED <<cluster, session, events, eventsMu, req, file, traced>>

\* The closing event is appended without eventsMu.  If another has been appended
\* meanwhile, both were written to one place: either is left of them.
AppendClosing(c) ==
  /\ cmd[c].at = "close"
  /\ LET n == Head(cmd[c].left)
         k == Len(cmd[c].buf) + 1
     IN \/ events' = [events EXCEPT ![n] = Append(cmd[c].buf, Ended(n))]
        \/ /\ Len(events[n]) >= k
           /\ events' = [events EXCEPT ![n] = SubSeq(@, 1, k)]
  /\ cmd' = [cmd EXCEPT ![c].at = "copy"]
  /\ UNCHANGED <<cluster, session, active, eventsMu, req, file, traced>>

\* The answer is saved unless it gets lost.
CopyEvents(c) ==
  /\ cmd[c].at = "copy"
  /\ LET n == Head(cmd[c].left) IN
     /\ eventsMu[n] = None
     /\ session' = [session EXCEPT ![n] = NoSession]
     /\ events' = [events EXCEPT ![n] = <<>>]
     /\ \E answered \in BOOLEAN :
          /\ cmd' = [cmd EXCEPT ![c] = Onward(c, answered)]
          /\ file' =
               IF answered THEN [file EXCEPT ![c][n] = events[n]] ELSE file
  /\ UNCHANGED <<cluster, active, eventsMu, req, traced>>

Next ==
  \/ \E r \in Requests :
       \/ \E n \in Nodes, way \in Ways : Receive(r, n, way)
       \/ ReadSession(r) \/ CheckActive(r) \/ Late(r) \/ LockEvents(r)
       \/ AppendEvent(r)
  \/ \E c \in Commands :
       \/ \E kind \in {"start", "stop"} : Give(c, kind)
       \/ Start(c) \/ AskFails(c) \/ StopRefused(c)
       \/ Stop(c) \/ AppendClosing(c) \/ CopyEvents(c)

Spec == Init /\ [][Next]_vars

-----------------------------------------------------------------------------
(* Properties *)

Recorded == (Requests \cup {None}) \X Nodes \X Nat

Goroutines ==
  [node : Nodes \cup {None}, way : Ways \cup {<<>>}, hook : Nat,
   at : {"new", "look", "check", "lock", "append", "done"},
   s : Commands \cup {NoSession}, buf : Seq(Recorded)]

CommandStates ==
  [kind : {"start", "stop", None}, left : Seq(Nodes),
   at : {"new", "ask", "close", "copy", "done"}, ok : BOOLEAN,
   buf : Seq(Recorded), racing : SUBSET Recorded, covers : SUBSET Requests]

TypeOK ==
  /\ cluster \in Clusters
  /\ session \in [Nodes -> Commands \cup {NoSession}]
  /\ active \in [Nodes -> BOOLEAN]
  /\ events \in [Nodes -> Seq(Recorded)]
  /\ eventsMu \in [Nodes -> Requests \cup {None}]
  /\ req \in [Requests -> Goroutines]
  /\ cmd \in [Commands -> CommandStates]
  /\ file \in [Commands -> [Nodes -> Seq(Recorded) \cup {None}]]
  /\ traced \subseteq Requests
  /\ \A n \in Nodes : active[n] <=> session[n] # NoSession /\ Free(n)

\* The events of request r in f are those of these hooks, in order, nothing twice.
Has(f, r, n, hooks) ==
  LET own == {i \in DOMAIN f : f[i][1] = r}
  IN /\ {f[i] : i \in own} = {<<r, n, h>> : h \in hooks}
     /\ \A i, j \in own : i < j => f[i][3] < f[j][3]

HooksOf(r, n) == IF n = Here(r) THEN 1 .. Len(req[r].way) ELSE {}

\* f has all that node n records of request r.
Whole(r, n, f) == Has(f, r, n, HooksOf(r, n))

\* A request that came after every node had started its trace, and was done when
\* they were told to stop, is in the trace of its node with what was done for it,
\* from its arrival to its end, in order and nothing twice, and in no other trace.
WholeRequestsAreTraced ==
  /\ TypeOK
  /\ \A c \in Commands, n \in Nodes : file[c][n] # None =>
       \A r \in cmd[c].covers : Whole(r, n, file[c][n])

\* What had been recorded when Stop began is answered, in the order in which it
\* happened; what follows is the closing event and what was being recorded then.
AnswerIsTheSession ==
  [][\A c \in Commands, n \in Nodes :
       cmd[c].at = "copy" /\ file'[c][n] # file[c][n] =>
         /\ IsPrefix(cmd[c].buf, file'[c][n])
         /\ \A i \in Len(cmd[c].buf) + 1 .. Len(file'[c][n]) :
              file'[c][n][i] \in cmd[c].racing \cup {Ended(n)}]_vars

=============================================================================
