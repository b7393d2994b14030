---------------------------- MODULE TracerProofs ----------------------------
(***************************************************************************)
(* Theorems about Tracer, for any nodes, requests, their ways and commands. *)
(***************************************************************************)
EXTENDS Tracer, TLAPS

-----------------------------------------------------------------------------
(* The invariant *)

\* A request is in a hook.
Serving(r) == req[r].at \in {"look", "check", "lock", "append"}

\* It is in a hook of its way; it has read a session when it is past the first
\* step.
Placed ==
  \A r \in Requests :
    /\ req[r].at = "new" => req[r].hook = 1 /\ req[r].buf = <<>>
    /\ req[r].at # "new" => req[r].node \in Nodes /\ req[r].way \in Ways
    /\ req[r].at = "done" => req[r].hook = Len(req[r].way) + 1
    /\ Serving(r) => req[r].hook \in 1 .. Len(req[r].way)
    /\ req[r].at \in {"check", "lock", "append"} <=> req[r].s # NoSession

Asked(c) == {cmd[c].left[i] : i \in DOMAIN cmd[c].left}

\* What a command has still to do; one that has not been given has done nothing.
Commanded ==
  /\ \A c \in Commands :
       /\ Running(c) => cmd[c].left # <<>>
       /\ IsInjective(cmd[c].left)
       /\ cmd[c].at \in {"close", "copy"} => cmd[c].kind = "stop"
       /\ cmd[c].at = "new" => /\ cmd[c].covers = {}
                               /\ \A n \in Nodes : file[c][n] = None
  /\ \A n \in Nodes : \A c, d \in Stopper(n) : c = d

\* A session that somebody knows on a node was started there by a command that
\* will not start it again.
StartedOnce ==
  \A n \in Nodes, c \in Commands :
    (session[n] = c \/ \E r \in Requests : Serving(r) /\ Here(r) = n /\ req[r].s = c)
    => cmd[c].at # "new" /\ n \notin Asked(c)

\* It is appending to the session there is.
Appending(r) == req[r].at = "append" /\ Current(r)

\* eventsMu: who appends has read the events there are, unless Stop has added its.
Exclusive ==
  \A r \in Requests : Appending(r) =>
    /\ eventsMu[Here(r)] = r
    /\ Free(Here(r)) => req[r].buf = events[Here(r)]

\* f begins with all that c found and goes on with what it may add.
GoesOn(c, f) ==
  /\ Len(cmd[c].buf) <= Len(f)
  /\ \A i \in 1 .. Len(cmd[c].buf) : f[i] = cmd[c].buf[i]
  /\ \A i \in Len(cmd[c].buf) + 1 .. Len(f) :
       f[i] \in cmd[c].racing \cup {Ended(Head(cmd[c].left))}

\* While a command stops a node: the events, those read by who appends, and who
\* may append.
Stopping ==
  \A n \in Nodes : \A c \in Stopper(n) :
    /\ GoesOn(c, events[n])
    /\ \A r \in Requests :
         req[r].at \in {"lock", "append"} /\ Here(r) = n /\ Current(r) =>
           /\ Event(r) \in cmd[c].racing
           /\ req[r].at = "append" => GoesOn(c, req[r].buf)

AnswerInv == TypeOK /\ Placed /\ Commanded /\ StartedOnce /\ Exclusive /\ Stopping

-----------------------------------------------------------------------------
(* A request goes on *)

LEMMA WaysGo ==
  ASSUME NEW way \in Ways
  PROVE  /\ Len(way) \in Nat /\ 1 \in 1 .. Len(way)
         /\ \A i \in 1 .. Len(way) : way[i] = "forward" => i + 1 \in 1 .. Len(way)
  <1>1. CASE way = <<"received", "local", "completed">>
    BY <1>1
  <1>2. CASE way = <<"received">>
    BY <1>2
  <1>3. CASE way = <<"received", "completed">>
    BY <1>3
  <1>4. CASE way = <<"received", "queueExit", "completed">>
    BY <1>4
  <1>5. CASE way = <<"received", "forward", "flow", "forwarded">>
    BY <1>5
  <1>6. CASE way = <<"received", "forward", "flow", "forwarded", "completed">>
    BY <1>6
  <1>7. CASE way = <<"received", "forward", "flow", "forwarded", "queueExit",
                  "completed">>
    BY <1>7
  <1>8. CASE way = <<"local", "localEnd">>
    BY <1>8
  <1>9. CASE way = <<"forward", "flow", "forwarded">>
    BY <1>9
  <1> QED
    BY <1>1, <1>2, <1>3, <1>4, <1>5, <1>6, <1>7, <1>8, <1>9 DEF Ways

\* What q is when it has called its hook.
LEMMA Passes ==
  ASSUME NEW q \in Goroutines, q.way \in Ways, q.hook \in 1 .. Len(q.way)
  PROVE  /\ Past(q) \in Goroutines /\ Past(q).node = q.node
         /\ Past(q).way = q.way /\ Past(q).s = NoSession /\ Past(q).buf = <<>>
         /\ Past(q).hook = q.hook + 1
         /\ \/ Past(q).at = "look" /\ Past(q).hook \in 1 .. Len(q.way)
            \/ Past(q).at = "done" /\ Past(q).hook = Len(q.way) + 1
  <1> DEFINE at == IF q.hook = Len(q.way) THEN "done" ELSE "look"
  <1>1. Len(q.way) \in Nat /\ q.hook + 1 \in Nat
    BY WaysGo
  <1>2. <<>> \in Seq(Recorded) /\ NoSession \in Commands \cup {NoSession}
    OBVIOUS
  <1>3. at \in {"new", "look", "check", "lock", "append", "done"}
    OBVIOUS
  <1>4. Past(q) = [q EXCEPT !.hook = q.hook + 1, !.s = NoSession, !.buf = <<>>,
                            !.at = at]
    BY DEF Past, Goroutines
  <1> HIDE DEF at
  <1>5. /\ Past(q) \in Goroutines /\ Past(q).node = q.node
        /\ Past(q).way = q.way /\ Past(q).s = NoSession /\ Past(q).buf = <<>>
        /\ Past(q).hook = q.hook + 1 /\ Past(q).at = at
    BY <1>1, <1>2, <1>3, <1>4 DEF Goroutines
  <1> QED
    BY <1>1, <1>5 DEF at

\* q is at the beginning of a hook, or past the last.
Idle(q) ==
  /\ q \in Goroutines /\ q.node \in Nodes /\ q.way \in Ways
  /\ q.s = NoSession /\ q.buf = <<>>
  /\ \/ q.at = "look" /\ q.hook \in 1 .. Len(q.way)
     \/ q.at = "done" /\ q.hook = Len(q.way) + 1

LEMMA PastIsIdle ==
  ASSUME TypeOK, Placed, NEW r \in Requests, Serving(r)
  PROVE  /\ Idle(Past(req[r]))
         /\ req[r].way[req[r].hook] = "forward" => Idle(Past(Past(req[r])))
  <1>1. /\ req[r] \in Goroutines /\ req[r].node \in Nodes
        /\ req[r].way \in Ways /\ req[r].hook \in 1 .. Len(req[r].way)
    BY DEF TypeOK, Placed, Serving
  <1>2. Idle(Past(req[r]))
    BY <1>1, Passes DEF Idle
  <1>3. ASSUME req[r].way[req[r].hook] = "forward"
        PROVE  Idle(Past(Past(req[r])))
    <2>1. /\ Past(req[r]) \in Goroutines /\ Past(req[r]).node = req[r].node
          /\ Past(req[r]).way = req[r].way
          /\ Past(req[r]).hook \in 1 .. Len(req[r].way)
      BY <1>1, <1>3, Passes, WaysGo
    <2> QED
      BY <1>1, <2>1, Passes DEF Idle
  <1> QED
    BY <1>2, <1>3

\* r is in the same hook, with the session there is in its hands; it waits for
\* the lock only when it has seen the session active.
Further(r, q) ==
  /\ Serving(r) /\ q \in Goroutines
  /\ q.node = req[r].node /\ q.way = req[r].way /\ q.hook = req[r].hook
  /\ q.s = session[Here(r)] /\ q.s # NoSession /\ q.buf = req[r].buf
  /\ q.at = "check" \/ (q.at = "lock" /\ active[Here(r)])

\* The types of one node, one request and one command.
LEMMA Types ==
  ASSUME TypeOK
  PROVE  /\ \A n \in Nodes :
              /\ session[n] \in Commands \cup {NoSession} /\ active[n] \in BOOLEAN
              /\ events[n] \in Seq(Recorded)
              /\ active[n] <=> session[n] # NoSession /\ Free(n)
         /\ \A r \in Requests :
              /\ req[r] \in Goroutines
              /\ req[r].hook \in Nat /\ req[r].buf \in Seq(Recorded)
              /\ req[r].s \in Commands \cup {NoSession}
         /\ \A c \in Commands :
              /\ cmd[c] \in CommandStates
              /\ cmd[c].left \in Seq(Nodes) /\ cmd[c].buf \in Seq(Recorded)
              /\ cmd[c].racing \in SUBSET Recorded
              /\ cmd[c].covers \in SUBSET Requests
  BY DEF TypeOK, Goroutines, CommandStates

LEMMA HereIsANode ==
  ASSUME TypeOK, Placed, NEW r \in Requests, Serving(r)
  PROVE  Here(r) \in Nodes /\ Event(r) \in Recorded
  <1>1. req[r].node \in Nodes /\ req[r].hook \in Nat
    BY Types DEF Placed, Serving
  <1> QED
    BY <1>1 DEF Here, Event, Recorded

\* Whatever a request does without the events keeps the invariant.
LEMMA Moves ==
  ASSUME AnswerInv, NEW r \in Requests, NEW q, Idle(q) \/ Further(r, q),
         req' = [req EXCEPT ![r] = q], traced' \subseteq Requests,
         UNCHANGED <<cluster, session, active, events, eventsMu, cmd, file>>
  PROVE  AnswerInv'
  <1> USE DEF AnswerInv
  <1>1. q \in Goroutines
    BY DEF Idle, Further
  <1>2. /\ req'[r] = q
        /\ \A k \in Requests : k # r => req'[k] = req[k]
    BY DEF TypeOK
  <1>3. \A n \in Nodes : Stopper(n)' = Stopper(n) /\ (Free(n)' <=> Free(n))
    BY DEF Stopper, Free
  <1>4. \A k \in Requests : k # r =>
          /\ Serving(k)' = Serving(k) /\ Here(k)' = Here(k)
          /\ Event(k)' = Event(k) /\ Current(k)' = Current(k)
    BY <1>2 DEF Serving, Here, Event, Current
  <1>5. TypeOK'
    BY <1>1, <1>3 DEF TypeOK
  <1>6. Placed'
    BY <1>2 DEF Placed, Idle, Further, Serving
  <1>7. Commanded'
    BY <1>3 DEF Commanded, Running
  <1>8. StartedOnce'
    <2> SUFFICES ASSUME NEW n \in Nodes, NEW c \in Commands,
                        session[n] = c \/ \E k \in Requests :
                          Serving(k)' /\ Here(k)' = n /\ req'[k].s = c
                 PROVE  cmd[c].at # "new" /\ n \notin Asked(c)
      BY DEF StartedOnce, Asked
    <2>1. CASE session[n] = c
      BY <2>1 DEF StartedOnce
    <2>2. ASSUME NEW k \in Requests, Serving(k)', Here(k)' = n, req'[k].s = c
          PROVE  cmd[c].at # "new" /\ n \notin Asked(c)
      <3>1. CASE k # r
        BY <1>2, <1>4, <2>2, <3>1 DEF StartedOnce
      <3>2. CASE k = r /\ Idle(q)
        BY <1>2, <2>2, <3>2 DEF Idle, NoSession, Commands
      <3>3. CASE k = r /\ Further(r, q)
        BY <1>2, <2>2, <3>3 DEF Further, Here, StartedOnce
      <3> QED
        BY <3>1, <3>2, <3>3
    <2> QED
      BY <2>1, <2>2
  <1>9. Exclusive'
    <2> SUFFICES ASSUME NEW k \in Requests, Appending(k)'
                 PROVE  (/\ eventsMu[Here(k)] = k
                         /\ Free(Here(k)) => req[k].buf = events[Here(k)])'
      BY DEF Exclusive
    <2>1. k # r
      BY <1>2 DEF Appending, Idle, Further
    <2>2. Here(k)' = Here(k) /\ Appending(k) /\ req'[k] = req[k]
      BY <1>2, <1>4, <2>1 DEF Appending
    <2>3. Here(k) \in Nodes
      BY <2>2, HereIsANode DEF Appending, Serving
    <2> QED
      BY <1>3, <2>2, <2>3 DEF Exclusive
  <1>10. Stopping'
    <2> SUFFICES ASSUME NEW n \in Nodes, NEW c \in Stopper(n)
                 PROVE  /\ GoesOn(c, events[n])
                        /\ \A k \in Requests :
                             req'[k].at \in {"lock", "append"} /\ Here(k)' = n
                             /\ Current(k)' =>
                               /\ Event(k)' \in cmd[c].racing
                               /\ req'[k].at = "append" => GoesOn(c, req'[k].buf)
      BY <1>3 DEF Stopping, GoesOn
    <2>1. GoesOn(c, events[n])
      BY DEF Stopping
    <2>2. ASSUME NEW k \in Requests, req'[k].at \in {"lock", "append"},
                 Here(k)' = n, Current(k)'
          PROVE  /\ Event(k)' \in cmd[c].racing
                 /\ req'[k].at = "append" => GoesOn(c, req'[k].buf)
      <3>1. CASE k # r
        BY <1>2, <1>4, <2>2, <3>1 DEF Stopping
      <3>2. CASE k = r
        <4>1. Further(r, q) /\ active[Here(r)] /\ Here(r) = n
          BY <1>2, <2>2, <3>2 DEF Idle, Further, Here
        <4> QED
          BY <4>1, Types DEF Free
      <3> QED
        BY <3>1, <3>2
    <2> QED
      BY <2>1, <2>2
  <1> QED
    BY <1>5, <1>6, <1>7, <1>8, <1>9, <1>10

LEMMA ReceiveMoves ==
  ASSUME AnswerInv, NEW r \in Requests, NEW n \in Nodes, NEW way \in Ways,
         Receive(r, n, way)
  PROVE  AnswerInv'
  <1> DEFINE q == [req[r] EXCEPT !.node = n, !.way = way, !.at = "look"]
  <1>1. /\ TypeOK /\ Placed /\ req[r].at = "new" /\ req[r].s = NoSession
        /\ req[r].hook = 1 /\ req[r].buf = <<>>
    BY DEF AnswerInv, Receive, Placed
  <1>2. Idle(q)
    BY <1>1, Types, WaysGo DEF Idle, Goroutines
  <1>3. req' = [req EXCEPT ![r] = q]
    BY DEF Receive
  <1>4. /\ UNCHANGED <<cluster, session, active, events, eventsMu, cmd, file>>
        /\ traced' \subseteq Requests
    BY <1>1 DEF Receive, TypeOK
  <1> HIDE DEF q
  <1> QED
    BY <1>2, <1>3, <1>4, Moves

LEMMA ReadSessionMoves ==
  ASSUME AnswerInv, NEW r \in Requests, ReadSession(r)
  PROVE  AnswerInv'
  <1>1. TypeOK /\ Placed /\ Serving(r) /\ traced \subseteq Requests
    BY DEF AnswerInv, ReadSession, Serving, TypeOK
  <1>2. ASSUME NEW q, Idle(q) \/ Further(r, q), req' = [req EXCEPT ![r] = q]
        PROVE  AnswerInv'
    BY <1>1, <1>2, Moves DEF ReadSession
  <1>3. CASE session[Here(r)] # NoSession
    <2> DEFINE q == [req[r] EXCEPT !.at = "check", !.s = session[Here(r)]]
    <2>1. Here(r) \in Nodes
      BY <1>1, HereIsANode
    <2>2. session[Here(r)] \in Commands \cup {NoSession} /\ req[r] \in Goroutines
      BY <1>1, <2>1, Types
    <2>3. Further(r, q)
      <3>1. /\ q \in Goroutines /\ q.at = "check" /\ q.s = session[Here(r)]
            /\ q.node = req[r].node /\ q.way = req[r].way
            /\ q.hook = req[r].hook /\ q.buf = req[r].buf
        BY <2>2 DEF Goroutines
      <3> HIDE DEF q
      <3> QED
        BY <1>1, <1>3, <3>1 DEF Further
    <2>4. req' = [req EXCEPT ![r] = q]
      BY <1>3 DEF ReadSession
    <2> QED
      BY <1>2, <2>3, <2>4
  <1>4. CASE session[Here(r)] = NoSession
    <2>1. \/ req' = [req EXCEPT ![r] = Past(req[r])]
          \/ /\ req[r].way[req[r].hook] = "forward"
             /\ req' = [req EXCEPT ![r] = Past(Past(req[r]))]
      BY <1>1, <1>4 DEF ReadSession, TypeOK
    <2> QED
      BY <1>1, <1>2, <2>1, PastIsIdle
  <1> QED
    BY <1>3, <1>4

LEMMA LateMoves ==
  ASSUME AnswerInv, NEW r \in Requests, Late(r)
  PROVE  AnswerInv'
  <1>1. TypeOK /\ Placed /\ Serving(r) /\ traced \subseteq Requests
    BY DEF AnswerInv, Late, Serving, TypeOK
  <1>2. req' = [req EXCEPT ![r] = Past(req[r])]
    BY <1>1 DEF Late, TypeOK
  <1> QED
    BY <1>1, <1>2, PastIsIdle, Moves DEF Late

LEMMA CheckActiveMoves ==
  ASSUME AnswerInv, NEW r \in Requests, CheckActive(r)
  PROVE  AnswerInv'
  <1>1. TypeOK /\ Placed /\ Serving(r) /\ traced \subseteq Requests
    BY DEF AnswerInv, CheckActive, Serving, TypeOK
  <1>2. CASE active[Here(r)]
    <2> DEFINE q == [req[r] EXCEPT !.at = "lock"]
    <2>1. req[r] \in Goroutines /\ req[r].s = session[Here(r)]
          /\ req[r].s # NoSession
      BY <1>1, Types DEF CheckActive, Current, Placed
    <2>2. Further(r, q)
      BY <1>1, <1>2, <2>1 DEF Further, Goroutines
    <2>3. req' = [req EXCEPT ![r] = q]
      BY <1>1, <1>2 DEF CheckActive, TypeOK
    <2> HIDE DEF q
    <2> QED
      BY <1>1, <2>2, <2>3, Moves DEF CheckActive
  <1>3. CASE ~active[Here(r)]
    <2>1. req' = [req EXCEPT ![r] = Past(req[r])]
      BY <1>1, <1>3 DEF CheckActive, TypeOK
    <2> QED
      BY <1>1, <2>1, PastIsIdle, Moves DEF CheckActive
  <1> QED
    BY <1>2, <1>3

-----------------------------------------------------------------------------
(* A request locks and appends *)

\* Who is in a hook past its first step knows a session that is on this node.
LEMMA CurrentIsASession ==
  ASSUME TypeOK, Placed, NEW r \in Requests,
         req[r].at \in {"check", "lock", "append"}, Current(r)
  PROVE  Here(r) \in Nodes /\ session[Here(r)] # NoSession
  BY HereIsANode DEF Serving, Placed, Current

LEMMA LockEventsMoves ==
  ASSUME AnswerInv, NEW r \in Requests, LockEvents(r)
  PROVE  AnswerInv'
  <1> USE DEF AnswerInv
  <1> DEFINE n == Here(r)
             q == [req[r] EXCEPT !.at = "append", !.buf = events[n]]
  <1>0. /\ req[r].at = "lock" /\ Current(r) /\ eventsMu[n] = None /\ Serving(r)
        /\ eventsMu' = [eventsMu EXCEPT ![n] = r]
        /\ UNCHANGED <<cluster, session, active, events, cmd, file, traced>>
    BY DEF LockEvents, Serving
  <1>1. n \in Nodes /\ req[r] \in Goroutines /\ events[n] \in Seq(Recorded)
    BY <1>0, HereIsANode, Types
  <1>2. /\ q \in Goroutines /\ q.at = "append" /\ q.buf = events[n]
        /\ q.node = req[r].node /\ q.way = req[r].way
        /\ q.hook = req[r].hook /\ q.s = req[r].s
    BY <1>1 DEF Goroutines
  <1>3. req' = [req EXCEPT ![r] = q]
    BY DEF LockEvents
  <1>4. /\ req'[r] = q
        /\ \A k \in Requests : k # r => req'[k] = req[k]
    BY <1>3 DEF TypeOK
  <1> HIDE DEF q
  <1>5. \A m \in Nodes : Stopper(m)' = Stopper(m) /\ (Free(m)' <=> Free(m))
    BY <1>0 DEF Stopper, Free
  <1>6. \A k \in Requests :
          /\ Serving(k)' = Serving(k) /\ Here(k)' = Here(k)
          /\ Event(k)' = Event(k) /\ Current(k)' = Current(k)
    BY <1>0, <1>2, <1>4 DEF Serving, Here, Event, Current
  <1>7. eventsMu' \in [Nodes -> Requests \cup {None}]
    BY <1>0, <1>1 DEF TypeOK
  <1>8. TypeOK'
    BY <1>0, <1>2, <1>3, <1>5, <1>7 DEF TypeOK
  <1>9. Placed'
    BY <1>0, <1>2, <1>4 DEF Placed, Serving
  <1>10. Commanded'
    BY <1>0, <1>5 DEF Commanded, Running
  <1>11. StartedOnce'
    BY <1>0, <1>2, <1>4, <1>6 DEF StartedOnce, Asked
  <1>12. Exclusive'
    <2> SUFFICES ASSUME NEW k \in Requests, Appending(k)'
                 PROVE  (/\ eventsMu[Here(k)] = k
                         /\ Free(Here(k)) => req[k].buf = events[Here(k)])'
      BY DEF Exclusive
    <2>1. CASE k = r
      BY <1>0, <1>1, <1>2, <1>4, <1>6, <2>1 DEF TypeOK
    <2>2. CASE k # r
      <3>1. Appending(k) /\ req'[k] = req[k] /\ Here(k) \in Nodes
        BY <1>4, <1>6, <2>2, HereIsANode DEF Appending, Serving
      <3>2. eventsMu[Here(k)] = k /\ Here(k) # n
        BY <1>0, <3>1, TracerAssumption DEF Exclusive, TracerAssumption
      <3> QED
        BY <1>0, <1>1, <1>5, <1>6, <3>1, <3>2 DEF Exclusive, TypeOK
    <2> QED
      BY <2>1, <2>2
  <1>13. Stopping'
    <2> SUFFICES ASSUME NEW m \in Nodes, NEW c \in Stopper(m)
                 PROVE  (/\ GoesOn(c, events[m])
                         /\ \A k \in Requests :
                              req[k].at \in {"lock", "append"} /\ Here(k) = m
                              /\ Current(k) =>
                                /\ Event(k) \in cmd[c].racing
                                /\ req[k].at = "append" => GoesOn(c, req[k].buf))'
      BY <1>5 DEF Stopping
    <2>1. GoesOn(c, events[m]) /\ GoesOn(c, events[m])'
      BY <1>0 DEF Stopping, GoesOn
    <2>2. ASSUME NEW k \in Requests, req'[k].at \in {"lock", "append"},
                 Here(k)' = m, Current(k)'
          PROVE  (/\ Event(k) \in cmd[c].racing
                  /\ req[k].at = "append" => GoesOn(c, req[k].buf))'
      <3>1. CASE k # r
        BY <1>0, <1>4, <1>6, <2>2, <3>1 DEF Stopping, GoesOn
      <3>2. CASE k = r
        <4>1. m = n /\ Event(r) \in cmd[c].racing
          BY <1>0, <1>6, <2>2, <3>2 DEF Stopping
        <4> QED
          BY <1>0, <1>2, <1>4, <1>6, <2>1, <3>2, <4>1 DEF GoesOn
      <3> QED
        BY <3>1, <3>2
    <2> QED
      BY <2>1, <2>2
  <1> QED
    BY <1>8, <1>9, <1>10, <1>11, <1>12, <1>13

LEMMA GoesOnAppended ==
  ASSUME NEW c \in Commands, NEW f \in Seq(Recorded), NEW e \in cmd[c].racing,
         TypeOK, GoesOn(c, f)
  PROVE  GoesOn(c, Append(f, e))
  <1>1. Len(cmd[c].buf) \in Nat /\ Len(f) \in Nat
    BY Types
  <1>2. /\ Len(Append(f, e)) = Len(f) + 1
        /\ \A i \in 1 .. Len(f) : Append(f, e)[i] = f[i]
        /\ Append(f, e)[Len(f) + 1] = e
    OBVIOUS
  <1> QED
    BY <1>1, <1>2 DEF GoesOn

LEMMA AppendEventMoves ==
  ASSUME AnswerInv, NEW r \in Requests, AppendEvent(r)
  PROVE  AnswerInv'
  <1> USE DEF AnswerInv
  <1> DEFINE n == Here(r)
             q == Past(req[r])
             f == Append(req[r].buf, Event(r))
  <1>0. /\ req[r].at = "append" /\ Current(r) /\ Serving(r)
        /\ events' = [events EXCEPT ![n] = f]
        /\ eventsMu' = [eventsMu EXCEPT ![n] = None]
        /\ UNCHANGED <<cluster, session, active, cmd, file, traced>>
    BY DEF AppendEvent, Serving
  <1>1. /\ n \in Nodes /\ req[r] \in Goroutines /\ f \in Seq(Recorded)
        /\ Idle(q)
    BY <1>0, HereIsANode, Types, PastIsIdle
  <1>2. req' = [req EXCEPT ![r] = q]
    BY DEF AppendEvent, TypeOK
  <1>3. /\ req'[r] = q
        /\ \A k \in Requests : k # r => req'[k] = req[k]
    BY <1>2 DEF TypeOK
  <1> HIDE DEF q
  <1>4. \A m \in Nodes : Stopper(m)' = Stopper(m) /\ (Free(m)' <=> Free(m))
    BY <1>0 DEF Stopper, Free
  <1>5. \A k \in Requests : k # r =>
          /\ Serving(k)' = Serving(k) /\ Here(k)' = Here(k)
          /\ Event(k)' = Event(k) /\ Current(k)' = Current(k)
    BY <1>0, <1>3 DEF Serving, Here, Event, Current
  <1>6. \A k \in Requests : Appending(k) /\ k # r => Here(k) # n
    BY <1>0, TracerAssumption DEF Exclusive, Appending, TracerAssumption
  <1>7. TypeOK'
    <2>1. /\ events' \in [Nodes -> Seq(Recorded)]
          /\ eventsMu' \in [Nodes -> Requests \cup {None}]
      BY <1>0, <1>1 DEF TypeOK
    <2>2. req' \in [Requests -> Goroutines]
      BY <1>1, <1>2 DEF TypeOK, Idle
    <2> QED
      BY <1>0, <1>4, <2>1, <2>2 DEF TypeOK
  <1>8. Placed'
    BY <1>1, <1>3, <1>0 DEF Placed, Serving, Idle
  <1>9. Commanded'
    BY <1>0, <1>4 DEF Commanded, Running
  <1>10. StartedOnce'
    <2> SUFFICES ASSUME NEW m \in Nodes, NEW c \in Commands,
                        session[m] = c \/ \E k \in Requests :
                          Serving(k)' /\ Here(k)' = m /\ req'[k].s = c
                 PROVE  cmd[c].at # "new" /\ m \notin Asked(c)
      BY <1>0 DEF StartedOnce, Asked
    <2>1. \A k \in Requests : req'[k].s = c => k # r
      BY <1>1, <1>3 DEF Idle, NoSession, Commands
    <2> QED
      BY <1>3, <1>5, <2>1 DEF StartedOnce
  <1>11. Exclusive'
    <2> SUFFICES ASSUME NEW k \in Requests, Appending(k)'
                 PROVE  (/\ eventsMu[Here(k)] = k
                         /\ Free(Here(k)) => req[k].buf = events[Here(k)])'
      BY DEF Exclusive
    <2>1. k # r
      BY <1>1, <1>3 DEF Appending, Idle
    <2>2. Appending(k) /\ req'[k] = req[k] /\ Here(k) \in Nodes /\ Here(k) # n
      BY <1>3, <1>5, <1>6, <2>1, HereIsANode DEF Appending, Serving
    <2> QED
      BY <1>0, <1>1, <1>4, <1>5, <2>1, <2>2 DEF Exclusive, TypeOK
  <1>12. Stopping'
    <2> SUFFICES ASSUME NEW m \in Nodes, NEW c \in Stopper(m)
                 PROVE  (/\ GoesOn(c, events[m])
                         /\ \A k \in Requests :
                              req[k].at \in {"lock", "append"} /\ Here(k) = m
                              /\ Current(k) =>
                                /\ Event(k) \in cmd[c].racing
                                /\ req[k].at = "append" => GoesOn(c, req[k].buf))'
      BY <1>4 DEF Stopping
    <2>0. c \in Commands
      BY DEF Stopper
    <2>1. GoesOn(c, events'[m])
      <3>1. CASE m = n
        <4>1. /\ Event(r) \in cmd[c].racing /\ GoesOn(c, req[r].buf)
              /\ req[r].buf \in Seq(Recorded)
          BY <1>0, <3>1, Types DEF Stopping
        <4>2. GoesOn(c, f)
          BY <2>0, <4>1, GoesOnAppended
        <4> QED
          BY <1>0, <1>1, <3>1, <4>2 DEF TypeOK
      <3>2. CASE m # n
        BY <1>0, <1>1, <3>2 DEF Stopping, TypeOK
      <3> QED
        BY <3>1, <3>2
    <2>2. ASSUME NEW k \in Requests, req'[k].at \in {"lock", "append"},
                 Here(k)' = m, Current(k)'
          PROVE  (/\ Event(k) \in cmd[c].racing
                  /\ req[k].at = "append" => GoesOn(c, req[k].buf))'
      <3>1. k # r
        BY <1>1, <1>3, <2>2 DEF Idle
      <3> QED
        BY <1>0, <1>3, <1>5, <2>2, <3>1 DEF Stopping, GoesOn
    <2>3. GoesOn(c, events[m])'
      BY <1>0, <2>1 DEF GoesOn
    <2> QED
      BY <2>2, <2>3
  <1> QED
    BY <1>7, <1>8, <1>9, <1>10, <1>11, <1>12

-----------------------------------------------------------------------------
(* A command goes on *)

\* What is left of a command when it has asked a node.
LEMMA GoesOnward ==
  ASSUME TypeOK, Commanded, NEW c \in Commands, Running(c), NEW ok \in BOOLEAN,
         cmd' = [cmd EXCEPT ![c] = Onward(c, ok)]
  PROVE  /\ \A d \in Commands : d # c => cmd'[d] = cmd[d]
         /\ Head(cmd[c].left) \in Nodes /\ Head(cmd[c].left) \in Asked(c)
         /\ cmd' \in [Commands -> CommandStates]
         /\ cmd'[c].at \in {"ask", "done"} /\ cmd'[c].covers = cmd[c].covers
         /\ cmd'[c].kind = cmd[c].kind /\ cmd'[c].buf = <<>>
         /\ cmd'[c].at = "ask" => cmd'[c].left # <<>>
         /\ IsInjective(cmd'[c].left)
         /\ Asked(c)' \subseteq Asked(c) \ {Head(cmd[c].left)}
         /\ \A n \in Nodes : Stopper(n)' = Stopper(n) \ {c}
  <1> DEFINE l == cmd[c].left
             q == Onward(c, ok)
  <1>1. /\ cmd[c] \in CommandStates /\ l \in Seq(Nodes) /\ l # <<>>
        /\ IsInjective(l)
    BY Types DEF Commanded
  <1>2. /\ Len(l) \in Nat \ {0} /\ DOMAIN l = 1 .. Len(l)
        /\ Head(l) = l[1] /\ Head(l) \in Nodes
        /\ Tail(l) \in Seq(Nodes) /\ Len(Tail(l)) = Len(l) - 1
        /\ DOMAIN Tail(l) = 1 .. Len(l) - 1
        /\ Len(l) > 1 => Tail(l) # <<>>
        /\ \A i \in 1 .. Len(l) - 1 : Tail(l)[i] = l[i + 1]
    <2> HIDE DEF l
    <2>1. /\ Len(l) \in Nat \ {0} /\ DOMAIN l = 1 .. Len(l)
          /\ Head(l) = l[1] /\ Head(l) \in Nodes
          /\ Tail(l) \in Seq(Nodes) /\ Len(Tail(l)) = Len(l) - 1
      BY <1>1
    <2>2. \A i \in 1 .. Len(l) - 1 : Tail(l)[i] = l[i + 1]
      BY <1>1
    <2>3. DOMAIN Tail(l) = 1 .. Len(l) - 1
      BY <2>1
    <2>4. Len(l) > 1 => Tail(l) # <<>>
      <3>1. Len(<<>>) = 0 /\ (Len(l) > 1 => Len(Tail(l)) # 0)
        BY <2>1
      <3> QED
        BY <3>1
    <2> QED
      BY <2>1, <2>2, <2>3, <2>4
  <1>3. cmd'[c] = q /\ \A d \in Commands : d # c => cmd'[d] = cmd[d]
    BY DEF TypeOK
  <1>4. /\ q.left = Tail(l) /\ q.at = (IF Len(l) > 1 THEN "ask" ELSE "done")
        /\ q.covers = cmd[c].covers /\ q.kind = cmd[c].kind /\ q.buf = <<>>
        /\ q \in CommandStates
    <2> DEFINE at == IF Len(l) > 1 THEN "ask" ELSE "done"
    <2>1. /\ at \in {"new", "ask", "close", "copy", "done"}
          /\ <<>> \in Seq(Recorded) /\ {} \in SUBSET Recorded
          /\ (cmd[c].ok /\ ok) \in BOOLEAN
      OBVIOUS
    <2>2. q = [cmd[c] EXCEPT !.left = Tail(l), !.ok = cmd[c].ok /\ ok,
                             !.buf = <<>>, !.racing = {}, !.at = at]
      BY <1>1 DEF Onward, CommandStates
    <2> HIDE DEF at, q
    <2>3. /\ q.left = Tail(l) /\ q.at = at /\ q.covers = cmd[c].covers
          /\ q.kind = cmd[c].kind /\ q.buf = <<>> /\ q \in CommandStates
      BY <1>1, <1>2, <2>1, <2>2 DEF CommandStates
    <2> QED
      BY <2>3 DEF at
  <1> HIDE DEF q
  <1>5. cmd' \in [Commands -> CommandStates]
    BY <1>4 DEF TypeOK, q
  <1>6. IsInjective(Tail(l))
    <2> SUFFICES ASSUME NEW i \in 1 .. Len(l) - 1, NEW j \in 1 .. Len(l) - 1,
                        Tail(l)[i] = Tail(l)[j]
                 PROVE  i = j
      BY <1>2 DEF IsInjective
    <2>1. l[i + 1] = l[j + 1] /\ i + 1 \in DOMAIN l /\ j + 1 \in DOMAIN l
      BY <1>2
    <2>2. i + 1 = j + 1
      BY <1>1, <2>1 DEF IsInjective
    <2> QED
      BY <2>2
  <1>7. Asked(c)' \subseteq Asked(c) \ {Head(l)}
    <2>0. Asked(c)' = {Tail(l)[i] : i \in DOMAIN Tail(l)}
      BY <1>3, <1>4 DEF Asked
    <2> SUFFICES ASSUME NEW i \in DOMAIN Tail(l)
                 PROVE  Tail(l)[i] \in Asked(c) \ {Head(l)}
      BY <2>0
    <2>1. /\ Tail(l)[i] = l[i + 1] /\ i + 1 \in DOMAIN l /\ 1 \in DOMAIN l
          /\ i + 1 # 1
      BY <1>2
    <2>2. l[i + 1] # l[1]
      BY <1>1, <2>1 DEF IsInjective
    <2> QED
      BY <1>2, <2>1, <2>2 DEF Asked
  <1>8. Head(l) \in Asked(c)
    BY <1>2 DEF Asked
  <1>9. \A n \in Nodes : Stopper(n)' = Stopper(n) \ {c}
    BY <1>3, <1>4 DEF Stopper
  <1>10. q.at = "ask" => q.left # <<>>
    BY <1>2, <1>4
  <1>11. q.at \in {"ask", "done"}
    BY <1>4
  <1> QED
    BY <1>2, <1>3, <1>4, <1>5, <1>6, <1>7, <1>8, <1>9, <1>10, <1>11

\* A command that goes on without doing anything.
LEMMA PassesBy ==
  ASSUME AnswerInv, NEW c \in Commands, cmd[c].at = "ask", NEW ok \in BOOLEAN,
         cmd' = [cmd EXCEPT ![c] = Onward(c, ok)],
         UNCHANGED <<cluster, session, active, events, eventsMu, req, file, traced>>
  PROVE  AnswerInv'
  <1> USE DEF AnswerInv
  <1>1. /\ \A d \in Commands : d # c => cmd'[d] = cmd[d]
        /\ cmd' \in [Commands -> CommandStates]
        /\ cmd'[c].at \in {"ask", "done"} /\ cmd'[c].covers = cmd[c].covers
        /\ cmd'[c].kind = cmd[c].kind /\ cmd'[c].buf = <<>>
        /\ cmd'[c].at = "ask" => cmd'[c].left # <<>>
        /\ IsInjective(cmd'[c].left)
        /\ Asked(c)' \subseteq Asked(c)
        /\ \A n \in Nodes : Stopper(n)' = Stopper(n) \ {c}
    BY GoesOnward DEF Running
  <1>2. \A n \in Nodes : Stopper(n)' = Stopper(n) /\ (Free(n)' <=> Free(n))
    BY <1>1 DEF Stopper, Free
  <1>3. TypeOK'
    BY <1>1, <1>2 DEF TypeOK
  <1>4. Placed'
    BY DEF Placed, Serving
  <1>5. Commanded'
    BY <1>1, <1>2 DEF Commanded, Running
  <1>6. \A k \in Requests :
          /\ Serving(k)' = Serving(k) /\ Here(k)' = Here(k)
          /\ Event(k)' = Event(k) /\ Current(k)' = Current(k)
          /\ Appending(k)' = Appending(k)
    BY DEF Serving, Here, Event, Current, Appending
  <1>7. StartedOnce'
    <2>1. \A d \in Commands : /\ Asked(d)' \subseteq Asked(d)
                              /\ cmd[d].at # "new" => cmd'[d].at # "new"
      BY <1>1 DEF Asked
    <2> QED
      BY <1>6, <2>1 DEF StartedOnce
  <1>8. Exclusive'
    <2>1. \A k \in Requests : Appending(k) => Here(k) \in Nodes
      BY HereIsANode DEF Appending, Serving
    <2> QED
      BY <1>2, <1>6, <2>1 DEF Exclusive
  <1>9. Stopping'
    <2>1. \A n \in Nodes : \A d \in Stopper(n) : cmd'[d] = cmd[d]
      BY <1>1 DEF Stopper
    <2> QED
      BY <1>2, <1>6, <2>1 DEF Stopping, GoesOn
  <1> QED
    BY <1>3, <1>4, <1>5, <1>7, <1>8, <1>9

\* The session of a command is known to nobody before.
LEMMA StartMoves ==
  ASSUME AnswerInv, NEW c \in Commands, Start(c)
  PROVE  AnswerInv'
  <1> USE DEF AnswerInv
  <1> DEFINE n == Head(cmd[c].left)
  <1>0. /\ cmd[c].at = "ask" /\ Free(n)
        /\ session' = [session EXCEPT ![n] = c]
        /\ active' = [active EXCEPT ![n] = TRUE]
        /\ events' = [events EXCEPT ![n] = <<Began(n)>>]
        /\ eventsMu' = [eventsMu EXCEPT ![n] = None]
        /\ UNCHANGED <<cluster, req, file, traced>>
    BY DEF Start
  <1>1. PICK answered \in BOOLEAN : cmd' = [cmd EXCEPT ![c] = Onward(c, answered)]
    BY DEF Start
  <1>2. /\ \A d \in Commands : d # c => cmd'[d] = cmd[d]
        /\ n \in Nodes /\ n \in Asked(c)
        /\ cmd' \in [Commands -> CommandStates]
        /\ cmd'[c].at \in {"ask", "done"} /\ cmd'[c].covers = cmd[c].covers
        /\ cmd'[c].kind = cmd[c].kind /\ cmd'[c].buf = <<>>
        /\ cmd'[c].at = "ask" => cmd'[c].left # <<>>
        /\ IsInjective(cmd'[c].left)
        /\ Asked(c)' \subseteq Asked(c) \ {n}
        /\ \A m \in Nodes : Stopper(m)' = Stopper(m) \ {c}
    BY <1>0, <1>1, GoesOnward DEF Running
  <1>3. \A m \in Nodes : Stopper(m)' = Stopper(m) /\ (Free(m)' <=> Free(m))
    BY <1>0, <1>2 DEF Stopper, Free
  <1>4. TypeOK'
    <2>1. /\ session' \in [Nodes -> Commands \cup {NoSession}]
          /\ active' \in [Nodes -> BOOLEAN]
          /\ eventsMu' \in [Nodes -> Requests \cup {None}]
      BY <1>0 DEF TypeOK
    <2>2. events' \in [Nodes -> Seq(Recorded)]
      <3>1. Began(n) \in Recorded
        BY <1>2 DEF Began, Recorded
      <3>2. <<Began(n)>> \in Seq(Recorded)
        BY <3>1
      <3> QED
        BY <1>0, <3>2 DEF TypeOK
    <2>3. \A m \in Nodes : (active[m] <=> session[m] # NoSession /\ Free(m))'
      BY <1>0, <1>2, <1>3 DEF TypeOK, NoSession, Commands
    <2> QED
      BY <1>0, <1>2, <2>1, <2>2, <2>3 DEF TypeOK
  <1>5. Placed'
    BY <1>0 DEF Placed, Serving
  <1>6. Commanded'
    BY <1>0, <1>2, <1>3 DEF Commanded, Running
  <1>7. \A k \in Requests :
          /\ Serving(k)' = Serving(k) /\ Here(k)' = Here(k)
          /\ Event(k)' = Event(k)
    BY <1>0 DEF Serving, Here, Event
  <1>8. StartedOnce'
    <2> SUFFICES ASSUME NEW m \in Nodes, NEW d \in Commands,
                        session'[m] = d \/ \E k \in Requests :
                          Serving(k) /\ Here(k) = m /\ req[k].s = d
                 PROVE  cmd'[d].at # "new" /\ m \notin Asked(d)'
      BY <1>0, <1>7 DEF StartedOnce
    <2>1. CASE d = c /\ m = n
      BY <1>2, <2>1
    <2>2. CASE d # c \/ m # n
      <3>1. cmd[d].at # "new" /\ m \notin Asked(d)
        <4>1. session'[m] = d => session[m] = d
          BY <1>0, <1>2, <2>2 DEF TypeOK
        <4> QED
          BY <4>1 DEF StartedOnce
      <3> QED
        BY <1>2, <3>1 DEF Asked
    <2> QED
      BY <2>1, <2>2
  <1>9. \A k \in Requests :
          req[k].at \in {"lock", "append"} /\ Current(k)' =>
            Here(k) \in Nodes /\ Here(k) # n /\ Current(k)
    <2> SUFFICES ASSUME NEW k \in Requests, req[k].at \in {"lock", "append"},
                        Current(k)'
                 PROVE  Here(k) \in Nodes /\ Here(k) # n /\ Current(k)
      OBVIOUS
    <2>1. Serving(k) /\ Here(k) \in Nodes
      BY HereIsANode DEF Serving
    <2>2. Here(k) # n
      <3> SUFFICES ASSUME Here(k) = n PROVE FALSE
        OBVIOUS
      <3>1. req[k].s = c
        BY <1>0, <1>2, <1>7 DEF Current, TypeOK
      <3> QED
        BY <1>2, <2>1, <3>1 DEF StartedOnce
    <2> QED
      BY <1>0, <1>2, <1>7, <2>1, <2>2 DEF Current, TypeOK
  <1>10. Exclusive'
    <2> SUFFICES ASSUME NEW k \in Requests, Appending(k)'
                 PROVE  (/\ eventsMu[Here(k)] = k
                         /\ Free(Here(k)) => req[k].buf = events[Here(k)])'
      BY DEF Exclusive
    <2>1. Here(k) \in Nodes /\ Here(k) # n /\ Appending(k)
      BY <1>0, <1>9 DEF Appending
    <2> QED
      BY <1>0, <1>3, <1>7, <2>1 DEF Exclusive, TypeOK
  <1>11. Stopping'
    <2>1. \A m \in Nodes : \A d \in Stopper(m) :
            m # n /\ cmd'[d] = cmd[d] /\ events'[m] = events[m]
      BY <1>0, <1>2 DEF Stopper, Free, TypeOK
    <2>2. \A m \in Nodes : \A d \in Stopper(m) :
            /\ cmd'[d] = cmd[d]
            /\ GoesOn(d, events[m]) => GoesOn(d, events[m])'
            /\ \A k \in Requests :
                 GoesOn(d, req[k].buf) => GoesOn(d, req[k].buf)'
      BY <1>0, <2>1 DEF GoesOn
    <2> SUFFICES ASSUME NEW m \in Nodes, NEW d \in Stopper(m)
                 PROVE  (/\ GoesOn(d, events[m])
                         /\ \A k \in Requests :
                              req[k].at \in {"lock", "append"} /\ Here(k) = m
                              /\ Current(k) =>
                                /\ Event(k) \in cmd[d].racing
                                /\ req[k].at = "append" => GoesOn(d, req[k].buf))'
      BY <1>3 DEF Stopping
    <2>3. GoesOn(d, events[m])'
      BY <2>2 DEF Stopping
    <2>4. ASSUME NEW k \in Requests, req'[k].at \in {"lock", "append"},
                 Here(k)' = m, Current(k)'
          PROVE  (/\ Event(k) \in cmd[d].racing
                  /\ req[k].at = "append" => GoesOn(d, req[k].buf))'
      <3>1. req[k].at \in {"lock", "append"} /\ Here(k) = m /\ Current(k)
        BY <1>0, <1>7, <1>9, <2>4
      <3>2. /\ Event(k) \in cmd[d].racing
            /\ req[k].at = "append" => GoesOn(d, req[k].buf)
        BY <3>1 DEF Stopping
      <3> QED
        BY <1>0, <1>7, <2>2, <3>2
    <2> QED
      BY <2>3, <2>4
  <1> QED
    BY <1>4, <1>5, <1>6, <1>8, <1>10, <1>11

LEMMA StopMoves ==
  ASSUME AnswerInv, NEW c \in Commands, Stop(c)
  PROVE  AnswerInv'
  <1> USE DEF AnswerInv
  <1> DEFINE n == Head(cmd[c].left)
             racing == {Event(r) : r \in {q \in Requests :
                          /\ req[q].at \in {"lock", "append"}
                          /\ Here(q) = n /\ Current(q)}}
             q == [cmd[c] EXCEPT !.at = "close", !.buf = events[n],
                                 !.racing = racing]
  <1>0. /\ cmd[c].kind = "stop" /\ cmd[c].at = "ask" /\ Free(n)
        /\ session[n] # NoSession
        /\ active' = [active EXCEPT ![n] = FALSE]
        /\ UNCHANGED <<cluster, session, events, eventsMu, req, file, traced>>
    BY DEF Stop
  <1>1. cmd' = [cmd EXCEPT ![c] = q]
    BY DEF Stop
  <1>2. n \in Nodes /\ cmd[c] \in CommandStates /\ cmd[c].left # <<>>
    <2>1. cmd[c].left # <<>> /\ cmd[c].left \in Seq(Nodes) /\ cmd[c] \in CommandStates
      BY <1>0, Types DEF Commanded, Running
    <2> QED
      BY <2>1
  <1>3. racing \in SUBSET Recorded /\ events[n] \in Seq(Recorded)
    BY <1>2, HereIsANode, Types DEF Serving
  <1> HIDE DEF racing
  <1>4. /\ q \in CommandStates /\ q.at = "close" /\ q.buf = events[n]
        /\ q.racing = racing /\ q.kind = "stop" /\ q.left = cmd[c].left
        /\ q.covers = cmd[c].covers
    BY <1>0, <1>2, <1>3 DEF CommandStates
  <1> HIDE DEF q
  <1>5. cmd'[c] = q /\ \A d \in Commands : d # c => cmd'[d] = cmd[d]
    BY <1>1 DEF TypeOK
  <1>6. \A m \in Nodes : Stopper(m)' = IF m = n THEN {c} ELSE Stopper(m)
    BY <1>0, <1>4, <1>5 DEF Stopper, Free
  <1>7. TypeOK'
    <2>1. active' \in [Nodes -> BOOLEAN] /\ cmd' \in [Commands -> CommandStates]
      BY <1>0, <1>1, <1>4 DEF TypeOK
    <2>2. \A m \in Nodes : (active[m] <=> session[m] # NoSession /\ Free(m))'
      BY <1>0, <1>2, <1>6 DEF TypeOK, Free
    <2> QED
      BY <1>0, <2>1, <2>2 DEF TypeOK
  <1>8. Placed'
    BY <1>0 DEF Placed, Serving
  <1>9. Commanded'
    BY <1>0, <1>2, <1>4, <1>5, <1>6 DEF Commanded, Running
  <1>10. \A k \in Requests :
          /\ Serving(k)' = Serving(k) /\ Here(k)' = Here(k)
          /\ Event(k)' = Event(k) /\ Current(k)' = Current(k)
          /\ Appending(k)' = Appending(k)
    BY <1>0 DEF Serving, Here, Event, Current, Appending
  <1>11. StartedOnce'
    <2>1. \A d \in Commands : /\ Asked(d)' = Asked(d)
                              /\ cmd[d].at # "new" => cmd'[d].at # "new"
      BY <1>4, <1>5 DEF Asked
    <2> QED
      BY <1>0, <1>10, <2>1 DEF StartedOnce
  <1>12. Exclusive'
    <2>1. \A k \in Requests : Appending(k) => Here(k) \in Nodes
      BY HereIsANode DEF Appending, Serving
    <2>2. \A m \in Nodes : Free(m)' => Free(m)
      BY <1>6 DEF Free
    <2> QED
      BY <1>0, <1>10, <2>1, <2>2 DEF Exclusive
  <1>13. Stopping'
    <2> SUFFICES ASSUME NEW m \in Nodes, NEW d \in Stopper(m)'
                 PROVE  (/\ GoesOn(d, events[m])
                         /\ \A k \in Requests :
                              req[k].at \in {"lock", "append"} /\ Here(k) = m
                              /\ Current(k) =>
                                /\ Event(k) \in cmd[d].racing
                                /\ req[k].at = "append" => GoesOn(d, req[k].buf))'
      BY DEF Stopping
    <2>1. CASE m = n
      <3>1. d = c /\ cmd'[d].buf = events[m] /\ cmd'[d].racing = racing
        BY <1>4, <1>5, <1>6, <2>1
      <3>2. GoesOn(d, events[m])'
        BY <1>0, <1>3, <2>1, <3>1 DEF GoesOn
      <3>3. ASSUME NEW k \in Requests, req[k].at \in {"lock", "append"},
                   Here(k) = m, Current(k)
            PROVE  /\ Event(k) \in racing
                   /\ req[k].at = "append" => req[k].buf = events[m]
        BY <1>0, <2>1, <3>3 DEF racing, Exclusive, Appending
      <3>4. ASSUME NEW k \in Requests, req[k].buf = events[m]
            PROVE  GoesOn(d, req[k].buf)'
        BY <1>0, <3>2, <3>4 DEF GoesOn
      <3> QED
        BY <1>0, <1>10, <3>1, <3>2, <3>3, <3>4
    <2>2. CASE m # n
      <3>1. d \in Stopper(m) /\ d # c
        BY <1>0, <1>6, <2>2 DEF Stopper
      <3>2. cmd'[d] = cmd[d]
        BY <1>5, <3>1 DEF Stopper
      <3>3. /\ GoesOn(d, events[m])' <=> GoesOn(d, events[m])
            /\ \A k \in Requests : GoesOn(d, req[k].buf)' <=> GoesOn(d, req[k].buf)
        BY <1>0, <3>2 DEF GoesOn
      <3> QED
        BY <1>0, <1>10, <3>1, <3>2, <3>3 DEF Stopping
    <2> QED
      BY <2>1, <2>2
  <1> QED
    BY <1>7, <1>8, <1>9, <1>11, <1>12, <1>13

LEMMA AppendClosingMoves ==
  ASSUME AnswerInv, NEW c \in Commands, AppendClosing(c)
  PROVE  AnswerInv'
  <1> USE DEF AnswerInv
  <1> DEFINE n == Head(cmd[c].left)
             q == [cmd[c] EXCEPT !.at = "copy"]
             k == Len(cmd[c].buf) + 1
  <1>0. /\ cmd[c].at = "close"
        /\ cmd' = [cmd EXCEPT ![c] = q]
        /\ UNCHANGED <<cluster, session, active, eventsMu, req, file, traced>>
    BY DEF AppendClosing
  <1>1. PICK f : /\ events' = [events EXCEPT ![n] = f]
                 /\ \/ f = Append(cmd[c].buf, Ended(n))
                    \/ Len(events[n]) >= k /\ f = SubSeq(events[n], 1, k)
    <2>1. CASE events' = [events EXCEPT ![n] = Append(cmd[c].buf, Ended(n))]
      BY <2>1
    <2>2. CASE ~ events' = [events EXCEPT ![n] = Append(cmd[c].buf, Ended(n))]
      BY <2>2 DEF AppendClosing, TypeOK
    <2> QED
      BY <2>1, <2>2
  <1>2. n \in Nodes /\ cmd[c] \in CommandStates /\ cmd[c].left # <<>>
    <2>1. cmd[c].left # <<>> /\ cmd[c].left \in Seq(Nodes) /\ cmd[c] \in CommandStates
      BY <1>0, Types DEF Commanded, Running
    <2> QED
      BY <2>1
  <1>3. c \in Stopper(n) /\ GoesOn(c, events[n])
    BY <1>0, <1>2 DEF Stopper, Stopping
  <1>4. /\ q \in CommandStates /\ q.at = "copy" /\ q.buf = cmd[c].buf
        /\ q.racing = cmd[c].racing /\ q.kind = cmd[c].kind
        /\ q.left = cmd[c].left /\ q.covers = cmd[c].covers
    BY <1>2 DEF CommandStates
  <1> HIDE DEF q
  <1>5. cmd'[c] = q /\ \A d \in Commands : d # c => cmd'[d] = cmd[d]
    BY <1>0 DEF TypeOK
  <1>6. \A m \in Nodes : Stopper(m)' = Stopper(m) /\ (Free(m)' <=> Free(m))
    BY <1>0, <1>4, <1>5 DEF Stopper, Free
  <1>7. f \in Seq(Recorded) /\ GoesOn(c, f)
    <2>1. /\ cmd[c].buf \in Seq(Recorded) /\ events[n] \in Seq(Recorded)
          /\ Ended(n) \in Recorded
      BY <1>2, Types DEF Ended, Recorded
    <2>2. CASE f = Append(cmd[c].buf, Ended(n))
      <3>1. /\ Len(f) = Len(cmd[c].buf) + 1 /\ f \in Seq(Recorded)
            /\ \A i \in 1 .. Len(cmd[c].buf) : f[i] = cmd[c].buf[i]
            /\ f[Len(cmd[c].buf) + 1] = Ended(n)
        BY <2>1, <2>2
      <3> QED
        BY <2>1, <3>1 DEF GoesOn
    <2>3. CASE Len(events[n]) >= k /\ f = SubSeq(events[n], 1, k)
      <3>1. /\ Len(f) = k /\ f \in Seq(Recorded) /\ k \in Nat
            /\ \A i \in 1 .. k : f[i] = events[n][i]
        BY <2>1, <2>3
      <3> QED
        BY <1>3, <2>1, <2>3, <3>1 DEF GoesOn
    <2> QED
      BY <1>1, <2>2, <2>3
  <1>8. TypeOK'
    BY <1>0, <1>1, <1>4, <1>6, <1>7 DEF TypeOK
  <1>9. Placed'
    BY <1>0 DEF Placed, Serving
  <1>10. Commanded'
    BY <1>0, <1>4, <1>5, <1>6 DEF Commanded, Running
  <1>11. \A r \in Requests :
          /\ Serving(r)' = Serving(r) /\ Here(r)' = Here(r)
          /\ Event(r)' = Event(r) /\ Current(r)' = Current(r)
          /\ Appending(r)' = Appending(r)
    BY <1>0 DEF Serving, Here, Event, Current, Appending
  <1>12. StartedOnce'
    <2>1. \A d \in Commands : /\ Asked(d)' = Asked(d)
                              /\ cmd[d].at # "new" => cmd'[d].at # "new"
      BY <1>4, <1>5 DEF Asked
    <2> QED
      BY <1>0, <1>11, <2>1 DEF StartedOnce
  <1>13. Exclusive'
    <2>1. \A r \in Requests : Appending(r) => Here(r) \in Nodes
      BY HereIsANode DEF Appending, Serving
    <2>2. ~Free(n)
      BY <1>3 DEF Free
    <2> QED
      BY <1>0, <1>1, <1>6, <1>11, <2>1, <2>2 DEF Exclusive, TypeOK
  <1>14. Stopping'
    <2>1. \A d \in Commands : cmd'[d].buf = cmd[d].buf
            /\ cmd'[d].racing = cmd[d].racing /\ cmd'[d].left = cmd[d].left
      BY <1>4, <1>5
    <2>2. \A d \in Commands, r \in Requests :
            GoesOn(d, req[r].buf)' <=> GoesOn(d, req[r].buf)
      BY <1>0, <2>1 DEF GoesOn
    <2>3. ASSUME NEW m \in Nodes, NEW d \in Stopper(m)
          PROVE  GoesOn(d, events[m])'
      <3>1. GoesOn(d, events'[m])
        <4>1. CASE m = n
          BY <1>1, <1>3, <1>7, <2>3, <4>1 DEF Commanded, TypeOK
        <4>2. CASE m # n
          BY <1>1, <4>2 DEF Stopping, TypeOK
        <4> QED
          BY <4>1, <4>2
      <3> QED
        BY <2>1, <3>1 DEF GoesOn, Stopper
    <2> QED
      BY <1>0, <1>6, <1>11, <2>1, <2>2, <2>3 DEF Stopping, Stopper
  <1> QED
    BY <1>8, <1>9, <1>10, <1>12, <1>13, <1>14

LEMMA CopyEventsMoves ==
  ASSUME AnswerInv, NEW c \in Commands, CopyEvents(c)
  PROVE  AnswerInv'
  <1> USE DEF AnswerInv
  <1> DEFINE n == Head(cmd[c].left)
  <1>0. /\ cmd[c].at = "copy" /\ eventsMu[n] = None
        /\ session' = [session EXCEPT ![n] = NoSession]
        /\ events' = [events EXCEPT ![n] = <<>>]
        /\ UNCHANGED <<cluster, active, eventsMu, req, traced>>
    BY DEF CopyEvents
  <1>1. PICK answered \in BOOLEAN :
          /\ cmd' = [cmd EXCEPT ![c] = Onward(c, answered)]
          /\ file' = IF answered THEN [file EXCEPT ![c][n] = events[n]] ELSE file
    BY DEF CopyEvents
  <1>2. /\ \A d \in Commands : d # c => cmd'[d] = cmd[d]
        /\ n \in Nodes
        /\ cmd' \in [Commands -> CommandStates]
        /\ cmd'[c].at \in {"ask", "done"} /\ cmd'[c].covers = cmd[c].covers
        /\ cmd'[c].kind = cmd[c].kind /\ cmd'[c].buf = <<>>
        /\ cmd'[c].at = "ask" => cmd'[c].left # <<>>
        /\ IsInjective(cmd'[c].left)
        /\ Asked(c)' \subseteq Asked(c) \ {n}
        /\ \A m \in Nodes : Stopper(m)' = Stopper(m) \ {c}
    BY <1>0, <1>1, GoesOnward DEF Running
  <1>3. /\ c \in Stopper(n) /\ \A d \in Stopper(n) : d = c
        /\ \A m \in Nodes : m # n => c \notin Stopper(m)
    BY <1>0, <1>2 DEF Stopper, Commanded
  <1>4. \A m \in Nodes :
          /\ m = n => Stopper(m)' = {} /\ Free(m)'
          /\ m # n => Stopper(m)' = Stopper(m) /\ (Free(m)' <=> Free(m))
    <2>1. ASSUME NEW m \in Nodes, m = n PROVE Stopper(m)' = {}
      BY <1>2, <1>3, <2>1
    <2>2. ASSUME NEW m \in Nodes, m # n PROVE Stopper(m)' = Stopper(m)
      BY <1>2, <1>3, <2>2
    <2> QED
      BY <2>1, <2>2 DEF Free
  <1>5. TypeOK'
    <2>1. /\ session' \in [Nodes -> Commands \cup {NoSession}]
          /\ events' \in [Nodes -> Seq(Recorded)]
      <3>1. <<>> \in Seq(Recorded)
        OBVIOUS
      <3> QED
        BY <1>0, <3>1 DEF TypeOK
    <2>2. file' \in [Commands -> [Nodes -> Seq(Recorded) \cup {None}]]
      BY <1>1, <1>2 DEF TypeOK
    <2>3. ASSUME NEW m \in Nodes
          PROVE  (active[m] <=> session[m] # NoSession /\ Free(m))'
      <3>1. CASE m = n
        BY <1>0, <1>2, <1>3, <3>1 DEF TypeOK, Free
      <3>2. CASE m # n
        BY <1>0, <1>2, <1>4, <3>2 DEF TypeOK
      <3> QED
        BY <3>1, <3>2
    <2> QED
      BY <1>0, <1>2, <2>1, <2>2, <2>3 DEF TypeOK
  <1>6. Placed'
    BY <1>0 DEF Placed, Serving
  <1>7. Commanded'
    <2>1. \A d \in Commands, m \in Nodes : d # c => file'[d][m] = file[d][m]
      BY <1>1, <1>2 DEF TypeOK
    <2>2. \A m \in Nodes : \A d, e \in Stopper(m)' : d = e
      BY <1>2 DEF Commanded
    <2> QED
      BY <1>2, <2>1, <2>2 DEF Commanded, Running
  <1>8. \A k \in Requests :
          /\ Serving(k)' = Serving(k) /\ Here(k)' = Here(k)
          /\ Event(k)' = Event(k)
    BY <1>0 DEF Serving, Here, Event
  <1>9. StartedOnce'
    <2>1. \A d \in Commands : /\ Asked(d)' \subseteq Asked(d)
                              /\ cmd[d].at # "new" => cmd'[d].at # "new"
      BY <1>2 DEF Asked
    <2>2. \A m \in Nodes, d \in Commands : session'[m] = d => session[m] = d
      BY <1>0, <1>2 DEF TypeOK, NoSession, Commands
    <2> QED
      BY <1>0, <1>8, <2>1, <2>2 DEF StartedOnce
  <1>10. \A k \in Requests :
          req[k].at \in {"lock", "append"} /\ Current(k)' =>
            Here(k) \in Nodes /\ Here(k) # n /\ Current(k)
    <2> SUFFICES ASSUME NEW k \in Requests, req[k].at \in {"lock", "append"},
                        Current(k)'
                 PROVE  Here(k) \in Nodes /\ Here(k) # n /\ Current(k)
      OBVIOUS
    <2>1. Serving(k) /\ Here(k) \in Nodes /\ req[k].s # NoSession
      BY HereIsANode DEF Serving, Placed
    <2>2. Here(k) # n
      BY <1>0, <1>2, <1>8, <2>1 DEF Current, TypeOK
    <2> QED
      BY <1>0, <1>2, <1>8, <2>1, <2>2 DEF Current, TypeOK
  <1>11. Exclusive'
    <2> SUFFICES ASSUME NEW k \in Requests, Appending(k)'
                 PROVE  (/\ eventsMu[Here(k)] = k
                         /\ Free(Here(k)) => req[k].buf = events[Here(k)])'
      BY DEF Exclusive
    <2>1. Here(k) \in Nodes /\ Here(k) # n /\ Appending(k)
      BY <1>0, <1>10 DEF Appending
    <2> QED
      BY <1>0, <1>4, <1>8, <2>1 DEF Exclusive, TypeOK
  <1>12. Stopping'
    <2> SUFFICES ASSUME NEW m \in Nodes, NEW d \in Stopper(m)'
                 PROVE  (/\ GoesOn(d, events[m])
                         /\ \A k \in Requests :
                              req[k].at \in {"lock", "append"} /\ Here(k) = m
                              /\ Current(k) =>
                                /\ Event(k) \in cmd[d].racing
                                /\ req[k].at = "append" => GoesOn(d, req[k].buf))'
      BY DEF Stopping
    <2>1. /\ m # n /\ d \in Stopper(m) /\ d # c /\ cmd'[d] = cmd[d]
          /\ events'[m] = events[m]
      <3>1. m # n /\ d \in Stopper(m)
        BY <1>4
      <3>2. d # c /\ d \in Commands
        BY <1>3, <3>1 DEF Stopper
      <3> QED
        BY <1>0, <1>2, <3>1, <3>2 DEF TypeOK
    <2>2. /\ GoesOn(d, events[m])' <=> GoesOn(d, events[m])
          /\ \A k \in Requests : GoesOn(d, req[k].buf)' <=> GoesOn(d, req[k].buf)
      BY <1>0, <2>1 DEF GoesOn
    <2>3. \A k \in Requests :
            req'[k].at \in {"lock", "append"} /\ Here(k)' = m /\ Current(k)' =>
              req[k].at \in {"lock", "append"} /\ Here(k) = m /\ Current(k)
      BY <1>0, <1>8, <1>10
    <2> QED
      BY <1>0, <1>8, <2>1, <2>2, <2>3 DEF Stopping
  <1> QED
    BY <1>5, <1>6, <1>7, <1>9, <1>11, <1>12

LEMMA GiveMoves ==
  ASSUME AnswerInv, NEW c \in Commands, NEW kind \in {"start", "stop"},
         Give(c, kind)
  PROVE  AnswerInv'
  <1> USE DEF AnswerInv
  <1>0. /\ cmd[c].at = "new" /\ traced' = {}
        /\ UNCHANGED <<cluster, session, active, events, eventsMu, req, file>>
    BY DEF Give
  <1>1. /\ cluster.listed \in Seq(Nodes) \ {<<>>}
        /\ IsInjective(cluster.listed)
    BY TracerAssumption DEF TracerAssumption, TypeOK
  <1>2. \A d \in Commands : d # c =>
          /\ cmd'[d] \in CommandStates /\ cmd'[d].kind = cmd[d].kind
          /\ cmd'[d].left = cmd[d].left /\ cmd'[d].at = cmd[d].at
          /\ cmd'[d].buf = cmd[d].buf /\ cmd'[d].racing = cmd[d].racing
          /\ cmd'[d].covers = {} \/ cmd'[d].covers = cmd[d].covers
    BY Types DEF Give, CommandStates
  <1>3. /\ cmd'[c] \in CommandStates /\ cmd'[c].at = "ask"
        /\ cmd'[c].left = cluster.listed
    <2>1. PICK whole \in SUBSET Requests :
            cmd'[c] = [Command EXCEPT !.kind = kind, !.at = "ask",
                         !.left = cluster.listed, !.covers = whole]
      BY DEF Give, TypeOK
    <2>2. Command \in CommandStates
      BY DEF Command, CommandStates
    <2> QED
      BY <1>1, <2>1, <2>2 DEF CommandStates
  <1>4. \A m \in Nodes : Stopper(m)' = Stopper(m) /\ (Free(m)' <=> Free(m))
    BY <1>0, <1>2, <1>3 DEF Stopper, Free
  <1>5. TypeOK'
    <2>1. cmd' \in [Commands -> CommandStates]
      <3>1. cmd' = [d \in Commands |-> cmd'[d]]
        BY DEF Give
      <3> QED
        BY <1>2, <1>3, <3>1
    <2> QED
      BY <1>0, <1>4, <2>1 DEF TypeOK
  <1>6. Placed'
    BY <1>0 DEF Placed, Serving
  <1>7. Commanded'
    BY <1>0, <1>1, <1>2, <1>3, <1>4 DEF Commanded, Running
  <1>8. \A k \in Requests :
          /\ Serving(k)' = Serving(k) /\ Here(k)' = Here(k)
          /\ Event(k)' = Event(k) /\ Current(k)' = Current(k)
          /\ Appending(k)' = Appending(k)
    BY <1>0 DEF Serving, Here, Event, Current, Appending
  <1>9. StartedOnce'
    <2>1. \A d \in Commands : d # c => /\ Asked(d)' = Asked(d)
                                       /\ cmd'[d].at = cmd[d].at
      BY <1>2 DEF Asked
    <2> QED
      BY <1>0, <1>8, <2>1 DEF StartedOnce
  <1>10. Exclusive'
    <2>1. \A k \in Requests : Appending(k) => Here(k) \in Nodes
      BY HereIsANode DEF Appending, Serving
    <2> QED
      BY <1>0, <1>4, <1>8, <2>1 DEF Exclusive
  <1>11. Stopping'
    <2> SUFFICES ASSUME NEW m \in Nodes, NEW d \in Stopper(m)
                 PROVE  (/\ GoesOn(d, events[m])
                         /\ \A k \in Requests :
                              req[k].at \in {"lock", "append"} /\ Here(k) = m
                              /\ Current(k) =>
                                /\ Event(k) \in cmd[d].racing
                                /\ req[k].at = "append" => GoesOn(d, req[k].buf))'
      BY <1>4 DEF Stopping
    <2>1. /\ cmd'[d].buf = cmd[d].buf /\ cmd'[d].racing = cmd[d].racing
          /\ cmd'[d].left = cmd[d].left
      BY <1>0, <1>2 DEF Stopper
    <2>2. /\ GoesOn(d, events[m])' <=> GoesOn(d, events[m])
          /\ \A k \in Requests : GoesOn(d, req[k].buf)' <=> GoesOn(d, req[k].buf)
      BY <1>0, <2>1 DEF GoesOn
    <2> QED
      BY <1>0, <1>8, <2>1, <2>2 DEF Stopping
  <1> QED
    BY <1>5, <1>6, <1>7, <1>9, <1>10, <1>11

-----------------------------------------------------------------------------

LEMMA AnswerInvInit == Init => AnswerInv
  <1> SUFFICES ASSUME Init PROVE AnswerInv
    OBVIOUS
  <1>1. \A c \in Commands : cmd[c] = Command
    BY DEF Init
  <1>2. \A r \in Requests : req[r] = Goroutine
    BY DEF Init
  <1>3. \A n \in Nodes : Stopper(n) = {}
    BY <1>1 DEF Stopper, Command
  <1>4. TypeOK
    <2>1. Command \in CommandStates
      BY DEF Command, CommandStates
    <2>2. Goroutine \in Goroutines
      BY DEF Goroutine, Goroutines
    <2> QED
      BY <1>3, <2>1, <2>2 DEF Init, TypeOK
  <1>5. Placed
    BY <1>2 DEF Placed, Serving, Goroutine
  <1>6. Commanded
    BY <1>1, <1>3 DEF Init, Commanded, Running, Command, IsInjective
  <1>7. StartedOnce
    BY <1>2 DEF Init, StartedOnce, Serving, Goroutine, NoSession, Commands
  <1>8. Exclusive
    BY <1>2 DEF Exclusive, Appending, Goroutine
  <1>9. Stopping
    BY <1>3 DEF Stopping
  <1> QED
    BY <1>4, <1>5, <1>6, <1>7, <1>8, <1>9 DEF AnswerInv

LEMMA AnswerInvNext == AnswerInv /\ [Next]_vars => AnswerInv'
  <1> SUFFICES ASSUME AnswerInv, [Next]_vars PROVE AnswerInv'
    OBVIOUS
  <1>1. ASSUME NEW r \in Requests, NEW n \in Nodes, NEW way \in Ways,
               Receive(r, n, way)
        PROVE  AnswerInv'
    BY <1>1, ReceiveMoves
  <1>2. ASSUME NEW r \in Requests,
               \/ ReadSession(r) \/ CheckActive(r) \/ Late(r) \/ LockEvents(r)
               \/ AppendEvent(r)
        PROVE  AnswerInv'
    BY <1>2, ReadSessionMoves, CheckActiveMoves, LateMoves, LockEventsMoves,
       AppendEventMoves
  <1>3. ASSUME NEW c \in Commands, NEW kind \in {"start", "stop"}, Give(c, kind)
        PROVE  AnswerInv'
    BY <1>3, GiveMoves
  <1>4. ASSUME NEW c \in Commands, AskFails(c) \/ StopRefused(c)
        PROVE  AnswerInv'
    BY <1>4, PassesBy DEF AskFails, StopRefused
  <1>5. ASSUME NEW c \in Commands,
               Start(c) \/ Stop(c) \/ AppendClosing(c) \/ CopyEvents(c)
        PROVE  AnswerInv'
    BY <1>5, StartMoves, StopMoves, AppendClosingMoves, CopyEventsMoves
  <1>6. CASE UNCHANGED vars
    BY <1>6 DEF vars, AnswerInv, TypeOK, Placed, Commanded, StartedOnce, Exclusive,
       Stopping, Free, Stopper, Serving, Running, Asked, Here, Event, Current,
       Appending, GoesOn
  <1> QED
    BY <1>1, <1>2, <1>3, <1>4, <1>5, <1>6 DEF Next

\* What Stop answers is the session, in order: every event that had been recorded
\* when it began, then its own and those that were being recorded (Tracer.Stop,
\* recordEvent).
THEOREM Answers == Spec => AnswerIsTheSession
  <1>1. ASSUME AnswerInv, Next, NEW c \in Commands, NEW n \in Nodes,
               cmd[c].at = "copy", file'[c][n] # file[c][n]
        PROVE  /\ IsPrefix(cmd[c].buf, file'[c][n])
               /\ \A i \in Len(cmd[c].buf) + 1 .. Len(file'[c][n]) :
                    file'[c][n][i] \in cmd[c].racing \cup {Ended(n)}
    <2>1. PICK d \in Commands : CopyEvents(d)
      BY <1>1 DEF Next, Receive, ReadSession, CheckActive, Late, LockEvents,
         AppendEvent, Give, Start, AskFails, StopRefused, Stop, AppendClosing
    <2>2. /\ d = c /\ n = Head(cmd[c].left) /\ file'[c][n] = events[n]
      BY <1>1, <2>1 DEF CopyEvents, AnswerInv, TypeOK
    <2>3. GoesOn(c, events[n])
      BY <1>1, <2>2 DEF AnswerInv, Stopping, Stopper
    <2>4. /\ cmd[c].buf \in Seq(Recorded) /\ events[n] \in Seq(Recorded)
      BY <1>1, Types DEF AnswerInv
    <2>5. IsPrefix(cmd[c].buf, events[n])
      BY <2>3, <2>4 DEF GoesOn, IsPrefix
    <2> QED
      BY <2>2, <2>3, <2>5 DEF GoesOn
  <1>2. AnswerInv /\ [Next]_vars =>
          [\A c \in Commands, n \in Nodes :
             cmd[c].at = "copy" /\ file'[c][n] # file[c][n] =>
               /\ IsPrefix(cmd[c].buf, file'[c][n])
               /\ \A i \in Len(cmd[c].buf) + 1 .. Len(file'[c][n]) :
                    file'[c][n][i] \in cmd[c].racing \cup {Ended(n)}]_vars
    BY <1>1
  <1> QED
    BY <1>2, AnswerInvInit, AnswerInvNext, PTL DEF Spec, AnswerIsTheSession

-----------------------------------------------------------------------------
(* What becomes of a request that is traced from its beginning *)

\* The hooks that q has called at node n.
CalledBy(q, n) == IF n = q.node THEN 1 .. q.hook - 1 ELSE {}

Without(f, r) == \A i \in DOMAIN f : f[i][1] # r

\* Nobody has an event of a request that has not come.
NoneBefore ==
  \A r \in Requests : req[r].at = "new" =>
    /\ \A n \in Nodes : Without(events[n], r)
    /\ \A q \in Requests : Without(req[q].buf, r)
    /\ \A c \in Commands : Without(cmd[c].buf, r)

\* While no command runs, the sessions have what the traced requests have done.
TracedSoFar ==
  /\ traced # {} => Quiet
  /\ \A r \in traced :
       /\ req[r].at # "new"
       /\ req[r].s # NoSession => Current(r)
       /\ \A n \in Nodes :
            session[n] # NoSession => Has(events[n], r, n, CalledBy(req[r], n))

\* The command that is to collect them runs alone.  The sessions it has still to
\* stop have all of them, and so has what it found in the one it is stopping.
Collecting ==
  \A c \in Commands : \A r \in cmd[c].covers :
    /\ req[r].at = "done" /\ cmd[c].kind = "stop"
    /\ Running(c) =>
         /\ \A d \in Commands : Running(d) => d = c
         /\ \A n \in Nodes : Free(n) /\ session[n] # NoSession =>
                               Whole(r, n, events[n])
         /\ \A n \in Nodes : c \in Stopper(n) =>
              Whole(r, n, cmd[c].buf) /\ \A e \in cmd[c].racing : e[1] # r

TraceInv ==
  /\ AnswerInv /\ NoneBefore /\ TracedSoFar /\ Collecting
  /\ WholeRequestsAreTraced

-----------------------------------------------------------------------------
(* Events of a request in a sequence *)

LEMMA HasMeans ==
  ASSUME NEW f \in Seq(Recorded), NEW r \in Requests, NEW n \in Nodes,
         NEW hooks \in SUBSET Nat
  PROVE  Has(f, r, n, hooks) <=>
           /\ \A i \in 1 .. Len(f) : f[i][1] = r =>
                                       \E h \in hooks : f[i] = <<r, n, h>>
           /\ \A h \in hooks : \E i \in 1 .. Len(f) : f[i] = <<r, n, h>>
           /\ \A i, j \in 1 .. Len(f) : f[i][1] = r /\ f[j][1] = r /\ i < j =>
                                          f[i][3] < f[j][3]
  <1> DEFINE own == {i \in DOMAIN f : f[i][1] = r}
  <1>1. DOMAIN f = 1 .. Len(f)
    OBVIOUS
  <1>2. ASSUME {f[i] : i \in own} = {<<r, n, h>> : h \in hooks}
        PROVE  /\ \A i \in 1 .. Len(f) : f[i][1] = r =>
                                           \E h \in hooks : f[i] = <<r, n, h>>
               /\ \A h \in hooks : \E i \in 1 .. Len(f) : f[i] = <<r, n, h>>
    <2>1. ASSUME NEW i \in 1 .. Len(f), f[i][1] = r
          PROVE  \E h \in hooks : f[i] = <<r, n, h>>
      <3>1. f[i] \in {f[j] : j \in own}
        BY <1>1, <2>1
      <3> QED
        BY <1>2, <3>1
    <2>2. ASSUME NEW h \in hooks
          PROVE  \E i \in 1 .. Len(f) : f[i] = <<r, n, h>>
      <3>1. <<r, n, h>> \in {f[j] : j \in own}
        BY <1>2
      <3> QED
        BY <1>1, <3>1
    <2> QED
      BY <2>1, <2>2
  <1>3. ASSUME \A i \in 1 .. Len(f) : f[i][1] = r =>
                                        \E h \in hooks : f[i] = <<r, n, h>>,
               \A h \in hooks : \E i \in 1 .. Len(f) : f[i] = <<r, n, h>>
        PROVE  {f[i] : i \in own} = {<<r, n, h>> : h \in hooks}
    <2>1. ASSUME NEW i \in own PROVE f[i] \in {<<r, n, h>> : h \in hooks}
      BY <1>1, <1>3, <2>1
    <2>2. ASSUME NEW h \in hooks PROVE <<r, n, h>> \in {f[i] : i \in own}
      <3>1. PICK i \in 1 .. Len(f) : f[i] = <<r, n, h>>
        BY <1>3
      <3>2. f[i][1] = r
        BY <3>1
      <3> QED
        BY <1>1, <3>1, <3>2
    <2> QED
      BY <2>1, <2>2
  <1> QED
    BY <1>1, <1>2, <1>3 DEF Has

LEMMA HasNone ==
  ASSUME NEW f \in Seq(Recorded), NEW r \in Requests, NEW n \in Nodes, Without(f, r)
  PROVE  Has(f, r, n, {})
  BY HasMeans DEF Without

LEMMA WithoutAppended ==
  ASSUME NEW f \in Seq(Recorded), NEW e \in Recorded, NEW r, Without(f, r), e[1] # r
  PROVE  Without(Append(f, e), r)
  BY DEF Without

\* A longer sequence, with nothing more of the request.
LEMMA HasSame ==
  ASSUME NEW f \in Seq(Recorded), NEW g \in Seq(Recorded), NEW r \in Requests,
         NEW n \in Nodes, NEW hooks \in SUBSET Nat, Has(f, r, n, hooks),
         1 .. Len(f) \subseteq 1 .. Len(g),
         \A i \in 1 .. Len(f) : g[i] = f[i],
         \A i \in 1 .. Len(g) : g[i][1] = r => i \in 1 .. Len(f)
  PROVE  Has(g, r, n, hooks)
  <1>1. /\ \A i \in 1 .. Len(f) : f[i][1] = r =>
                                    \E k \in hooks : f[i] = <<r, n, k>>
        /\ \A k \in hooks : \E i \in 1 .. Len(f) : f[i] = <<r, n, k>>
        /\ \A i, j \in 1 .. Len(f) : f[i][1] = r /\ f[j][1] = r /\ i < j =>
                                       f[i][3] < f[j][3]
    BY HasMeans
  <1>2. \A i \in 1 .. Len(g) : g[i][1] = r => \E k \in hooks : g[i] = <<r, n, k>>
    BY <1>1
  <1>3. \A k \in hooks : \E i \in 1 .. Len(g) : g[i] = <<r, n, k>>
    <2> SUFFICES ASSUME NEW k \in hooks
                 PROVE  \E i \in 1 .. Len(g) : g[i] = <<r, n, k>>
      OBVIOUS
    <2>1. PICK i \in 1 .. Len(f) : f[i] = <<r, n, k>>
      BY <1>1
    <2> QED
      BY <2>1
  <1>4. ASSUME NEW i \in 1 .. Len(g), NEW j \in 1 .. Len(g),
               g[i][1] = r, g[j][1] = r, i < j
        PROVE  g[i][3] < g[j][3]
    BY <1>1, <1>4
  <1> QED
    BY <1>2, <1>3, <1>4, HasMeans

\* Another's event.
LEMMA HasOther ==
  ASSUME NEW f \in Seq(Recorded), NEW e \in Recorded, NEW r \in Requests,
         NEW n \in Nodes, NEW hooks \in SUBSET Nat, e[1] # r, Has(f, r, n, hooks)
  PROVE  Has(Append(f, e), r, n, hooks)
  <1> DEFINE g == Append(f, e)
  <1>1. /\ g \in Seq(Recorded) /\ Len(g) = Len(f) + 1 /\ Len(f) \in Nat
        /\ \A i \in 1 .. Len(f) : g[i] = f[i]
        /\ g[Len(f) + 1] = e
    OBVIOUS
  <1> HIDE DEF g
  <1>2. /\ \A i \in 1 .. Len(g) : g[i][1] = r => i \in 1 .. Len(f)
        /\ 1 .. Len(f) \subseteq 1 .. Len(g)
    BY <1>1
  <1>3. Has(g, r, n, hooks)
    BY <1>1, <1>2, HasSame
  <1> QED
    BY <1>3 DEF g

\* Its own next event.
LEMMA HasOwn ==
  ASSUME NEW f \in Seq(Recorded), NEW r \in Requests, NEW n \in Nodes,
         NEW hooks \in SUBSET Nat, NEW h \in Nat, Has(f, r, n, hooks),
         \A g \in hooks : g < h
  PROVE  Has(Append(f, <<r, n, h>>), r, n, hooks \cup {h})
  <1> DEFINE e == <<r, n, h>>
             g == Append(f, e)
             all == hooks \cup {h}
  <1>0. e \in Recorded /\ e[1] = r /\ e[3] = h
    BY DEF Recorded
  <1>1. /\ g \in Seq(Recorded) /\ Len(g) = Len(f) + 1 /\ Len(f) \in Nat
        /\ \A i \in 1 .. Len(f) : g[i] = f[i]
        /\ g[Len(f) + 1] = e
    BY <1>0
  <1> HIDE DEF g
  <1>2. /\ 1 .. Len(g) = (1 .. Len(f)) \cup {Len(f) + 1}
    BY <1>1
  <1>3. /\ \A i \in 1 .. Len(f) : f[i][1] = r =>
                                    \E k \in hooks : f[i] = <<r, n, k>>
        /\ \A k \in hooks : \E i \in 1 .. Len(f) : f[i] = <<r, n, k>>
        /\ \A i, j \in 1 .. Len(f) : f[i][1] = r /\ f[j][1] = r /\ i < j =>
                                       f[i][3] < f[j][3]
    BY HasMeans
  <1>4. \A i \in 1 .. Len(g) : g[i][1] = r => \E k \in all : g[i] = <<r, n, k>>
    BY <1>1, <1>2, <1>3
  <1>5. \A k \in all : \E i \in 1 .. Len(g) : g[i] = <<r, n, k>>
    BY <1>1, <1>2, <1>3
  <1>6. ASSUME NEW i \in 1 .. Len(g), NEW j \in 1 .. Len(g),
               g[i][1] = r, g[j][1] = r, i < j
        PROVE  g[i][3] < g[j][3]
    <2>1. i \in 1 .. Len(f) /\ g[i] = f[i]
      BY <1>1, <1>2, <1>6
    <2>2. CASE j \in 1 .. Len(f)
      BY <1>1, <1>3, <1>6, <2>1, <2>2
    <2>3. CASE j = Len(f) + 1
      <3>1. PICK k \in hooks : f[i] = <<r, n, k>>
        BY <1>3, <1>6, <2>1
      <3> QED
        BY <1>0, <1>1, <2>1, <2>3, <3>1
    <2> QED
      BY <1>2, <2>2, <2>3
  <1>7. all \in SUBSET Nat
    OBVIOUS
  <1> HIDE DEF all
  <1>8. Has(g, r, n, all)
    BY <1>1, <1>4, <1>5, <1>6, <1>7, HasMeans
  <1> QED
    BY <1>8 DEF g, all

\* What a stopped session ends with is of others.
LEMMA HasGoesOn ==
  ASSUME TypeOK, NEW c \in Commands, NEW f \in Seq(Recorded), NEW r \in Requests,
         NEW n \in Nodes, NEW hooks \in SUBSET Nat, GoesOn(c, f),
         Has(cmd[c].buf, r, n, hooks), \A e \in cmd[c].racing : e[1] # r
  PROVE  Has(f, r, n, hooks)
  <1> DEFINE b == cmd[c].buf
  <1>1. b \in Seq(Recorded) /\ Len(b) \in Nat /\ Len(f) \in Nat
    BY Types
  <1>2. Ended(Head(cmd[c].left))[1] # r
    BY TracerAssumption DEF Ended, TracerAssumption
  <1>3. /\ 1 .. Len(b) \subseteq 1 .. Len(f)
        /\ \A i \in 1 .. Len(b) : f[i] = b[i]
        /\ \A i \in 1 .. Len(f) : f[i][1] = r => i \in 1 .. Len(b)
    BY <1>1, <1>2 DEF GoesOn
  <1> HIDE DEF b
  <1>4. Has(b, r, n, hooks)
    BY DEF b
  <1> QED
    BY <1>1, <1>3, <1>4, HasSame

-----------------------------------------------------------------------------
(* What a request has called *)

\* A hook is added where the request is, after those it called before.
LEMMA CalledByPast ==
  ASSUME NEW q \in Goroutines, q.way \in Ways, q.hook \in 1 .. Len(q.way), NEW n
  PROVE  /\ n = q.node =>
              /\ CalledBy(Past(q), n) = CalledBy(q, n) \cup {q.hook}
              /\ \A h \in CalledBy(q, n) : h < q.hook
         /\ n # q.node => CalledBy(Past(q), n) = CalledBy(q, n)
  <1>1. /\ Past(q).node = q.node /\ Past(q).hook = q.hook + 1
        /\ q.hook \in Nat /\ q.hook >= 1
    BY Passes, WaysGo
  <1> QED
    BY <1>1 DEF CalledBy

LEMMA HooksAreNumbers ==
  ASSUME TypeOK, NEW k \in Requests, NEW n
  PROVE  HooksOf(k, n) \in SUBSET Nat /\ CalledBy(req[k], n) \in SUBSET Nat
  <1>1. req[k].hook \in Nat /\ Len(req[k].way) \in Nat
    BY Types, WaysGo DEF Goroutines
  <1> QED
    BY <1>1 DEF HooksOf, CalledBy

-----------------------------------------------------------------------------
(* What a step of a request does to others *)

Serves(r) ==
  ReadSession(r) \/ CheckActive(r) \/ Late(r) \/ LockEvents(r) \/ AppendEvent(r)

LEMMA OthersStay ==
  ASSUME AnswerInv, NEW r \in Requests, Serves(r)
  PROVE  /\ Serving(r) /\ req'[r].at \notin {"new"}
         /\ Here(r) \in Nodes
         /\ \A k \in Requests : k # r => req'[k] = req[k]
         /\ req'[r].buf \in {<<>>, req[r].buf, events[Here(r)]}
         /\ UNCHANGED <<cluster, session, active, cmd, file, traced>>
         /\ ~AppendEvent(r) => UNCHANGED events
  <1>1. /\ TypeOK /\ Placed /\ Serving(r) /\ Here(r) \in Nodes
        /\ req[r] \in Goroutines
    BY HereIsANode, Types DEF AnswerInv, Serves, ReadSession, CheckActive, Late,
       LockEvents, AppendEvent, Serving
  <1>2. UNCHANGED <<cluster, session, active, cmd, file, traced>>
    BY DEF Serves, ReadSession, CheckActive, Late, LockEvents, AppendEvent
  <1>3. ~AppendEvent(r) => UNCHANGED events
    BY DEF Serves, ReadSession, CheckActive, Late, LockEvents
  <1>4. \A k \in Requests : k # r => req'[k] = req[k]
    BY <1>1 DEF Serves, ReadSession, CheckActive, Late, LockEvents, AppendEvent, TypeOK
  <1>5. \/ Idle(req'[r])
        \/ req'[r] = [req[r] EXCEPT !.at = "check", !.s = session[Here(r)]]
        \/ req'[r] = [req[r] EXCEPT !.at = "lock"]
        \/ req'[r] = [req[r] EXCEPT !.at = "append", !.buf = events[Here(r)]]
    <2>1. \/ req'[r] = Past(req[r])
          \/ /\ req[r].way[req[r].hook] = "forward"
             /\ req'[r] = Past(Past(req[r]))
          \/ req'[r] = [req[r] EXCEPT !.at = "check", !.s = session[Here(r)]]
          \/ req'[r] = [req[r] EXCEPT !.at = "lock"]
          \/ req'[r] = [req[r] EXCEPT !.at = "append", !.buf = events[Here(r)]]
      BY <1>1 DEF Serves, ReadSession, CheckActive, Late, LockEvents, AppendEvent,
         TypeOK
    <2> QED
      BY <1>1, <2>1, PastIsIdle
  <1>6. /\ req'[r].at # "new"
        /\ req'[r].buf \in {<<>>, req[r].buf, events[Here(r)]}
    <2>1. CASE Idle(req'[r])
      BY <2>1 DEF Idle
    <2>2. CASE ~Idle(req'[r])
      BY <1>1, <1>5, <2>2 DEF Goroutines
    <2> QED
      BY <2>1, <2>2
  <1> QED
    BY <1>1, <1>2, <1>3, <1>4, <1>6

LEMMA NoneBeforeServes ==
  ASSUME AnswerInv, NoneBefore, NEW r \in Requests, Serves(r)
  PROVE  NoneBefore'
  <1> USE OthersStay DEF AnswerInv
  <1> SUFFICES ASSUME NEW k \in Requests, req'[k].at = "new"
               PROVE  /\ \A n \in Nodes : Without(events'[n], k)
                      /\ \A q \in Requests : Without(req'[q].buf, k)
                      /\ \A c \in Commands : Without(cmd'[c].buf, k)
    BY DEF NoneBefore, Without
  <1>1. /\ k # r /\ req[k].at = "new" /\ Here(r) \in Nodes
        /\ \A n \in Nodes : Without(events[n], k)
        /\ \A q \in Requests : Without(req[q].buf, k)
        /\ \A c \in Commands : Without(cmd[c].buf, k)
    BY DEF NoneBefore
  <1>2. ASSUME NEW q \in Requests PROVE Without(req'[q].buf, k)
    <2>1. Without(<<>>, k)
      BY DEF Without
    <2> QED
      BY <1>1, <2>1
  <1>3. ASSUME NEW n \in Nodes PROVE Without(events'[n], k)
    <2>1. CASE AppendEvent(r)
      <3>1. /\ req[r].buf \in Seq(Recorded) /\ Event(r) \in Recorded
            /\ Event(r)[1] # k
        BY <1>1, Types, HereIsANode DEF Event
      <3>2. Without(Append(req[r].buf, Event(r)), k)
        BY <1>1, <3>1, WithoutAppended
      <3> QED
        BY <1>1, <2>1, <3>2 DEF AppendEvent, TypeOK
    <2>2. CASE ~AppendEvent(r)
      BY <1>1, <2>2
    <2> QED
      BY <2>1, <2>2
  <1> QED
    BY <1>1, <1>2, <1>3

LEMMA NoneBeforeReceive ==
  ASSUME AnswerInv, NoneBefore, NEW r \in Requests, NEW n \in Nodes,
         NEW way \in Ways, Receive(r, n, way)
  PROVE  NoneBefore'
  <1>1. /\ req'[r].at = "look" /\ req'[r].buf = req[r].buf
        /\ \A k \in Requests : k # r => req'[k] = req[k]
        /\ UNCHANGED <<events, cmd>>
    BY Types DEF AnswerInv, Receive, TypeOK, Goroutines
  <1> QED
    BY <1>1 DEF NoneBefore, Without

\* The commands' steps.
CommandStep(c) ==
  \/ \E kind \in {"start", "stop"} : Give(c, kind)
  \/ Start(c) \/ AskFails(c) \/ StopRefused(c)
  \/ Stop(c) \/ AppendClosing(c) \/ CopyEvents(c)

\* What a command at a node has in its hands.
LEMMA AtNode ==
  ASSUME AnswerInv, NEW c \in Commands, Running(c)
  PROVE  /\ Head(cmd[c].left) \in Nodes /\ cmd[c] \in CommandStates
         /\ cmd[c].buf \in Seq(Recorded)
  <1>1. cmd[c].left # <<>> /\ cmd[c].left \in Seq(Nodes) /\ cmd[c] \in CommandStates
        /\ cmd[c].buf \in Seq(Recorded)
    BY Types DEF AnswerInv, Commanded
  <1> QED
    BY <1>1

\* The buffer of a command is empty, what it was, or the events of a node.
LEMMA CommandBuffers ==
  ASSUME AnswerInv, NEW c \in Commands, CommandStep(c)
  PROVE  /\ req' = req /\ cluster' = cluster
         /\ \A d \in Commands : d # c => cmd'[d].buf = cmd[d].buf
         /\ cmd'[c].buf \in {<<>>, cmd[c].buf} \cup {events[n] : n \in Nodes}
  <1> USE DEF AnswerInv
  <1>1. req' = req /\ cluster' = cluster
    BY DEF CommandStep, Give, Start, AskFails, StopRefused, Stop, AppendClosing,
       CopyEvents
  <1>2. ASSUME NEW kind \in {"start", "stop"}, Give(c, kind)
        PROVE  /\ \A d \in Commands : d # c => cmd'[d].buf = cmd[d].buf
               /\ cmd'[c].buf = <<>>
    <2>1. ASSUME NEW d \in Commands, d # c PROVE cmd'[d].buf = cmd[d].buf
      BY <1>2, <2>1, Types DEF Give, CommandStates
    <2>2. cmd'[c].buf = <<>>
      BY <1>2 DEF Give, Command
    <2> QED
      BY <2>1, <2>2
  <1>3. ASSUME NEW ok \in BOOLEAN, cmd' = [cmd EXCEPT ![c] = Onward(c, ok)],
               Running(c)
        PROVE  /\ \A d \in Commands : d # c => cmd'[d].buf = cmd[d].buf
               /\ cmd'[c].buf = <<>>
    BY <1>3, GoesOnward
  <1>4. CASE Start(c) \/ AskFails(c) \/ StopRefused(c) \/ CopyEvents(c)
    <2>1. Running(c) /\ \E ok \in BOOLEAN : cmd' = [cmd EXCEPT ![c] = Onward(c, ok)]
      BY <1>4 DEF Start, AskFails, StopRefused, CopyEvents, Running
    <2> QED
      BY <1>1, <1>3, <2>1
  <1>5. CASE Stop(c) \/ AppendClosing(c)
    <2>1. Running(c) /\ \A d \in Commands : d # c => cmd'[d] = cmd[d]
      BY <1>5 DEF Stop, AppendClosing, Running, TypeOK
    <2>2. cmd'[c].buf \in {cmd[c].buf} \cup {events[n] : n \in Nodes}
      BY <1>5, <2>1, AtNode DEF Stop, AppendClosing, TypeOK, CommandStates
    <2> QED
      BY <1>1, <2>1, <2>2
  <1> QED
    BY <1>1, <1>2, <1>4, <1>5 DEF CommandStep

LEMMA NoneBeforeCommands ==
  ASSUME AnswerInv, NoneBefore, NEW c \in Commands, CommandStep(c)
  PROVE  NoneBefore'
  <1> USE DEF AnswerInv
  <1> SUFFICES ASSUME NEW k \in Requests, req'[k].at = "new"
               PROVE  /\ \A n \in Nodes : Without(events'[n], k)
                      /\ \A q \in Requests : Without(req'[q].buf, k)
                      /\ \A d \in Commands : Without(cmd'[d].buf, k)
    BY DEF NoneBefore, Without
  <1>1. /\ req' = req
        /\ \A n \in Nodes : Without(events[n], k)
        /\ \A q \in Requests : Without(req[q].buf, k)
        /\ \A d \in Commands : Without(cmd[d].buf, k)
    BY CommandBuffers DEF NoneBefore
  <1>2. Without(<<>>, k)
    BY DEF Without
  <1>3. ASSUME NEW d \in Commands PROVE Without(cmd'[d].buf, k)
    <2>1. CASE d # c
      BY <1>1, <2>1, CommandBuffers
    <2>2. CASE d = c
      BY <1>1, <1>2, <2>2, CommandBuffers
    <2> QED
      BY <2>1, <2>2
  <1>4. None # k
    BY TracerAssumption DEF TracerAssumption
  <1>5. ASSUME NEW n \in Nodes PROVE Without(events'[n], k)
    <2>1. CASE Start(c)
      <3>1. Without(<<Began(Head(cmd[c].left))>>, k)
        BY <1>4 DEF Without, Began
      <3> QED
        BY <1>1, <2>1, <3>1 DEF Start, TypeOK
    <2>2. CASE AppendClosing(c)
      <3> DEFINE m == Head(cmd[c].left)
      <3>1. /\ m \in Nodes /\ cmd[c].buf \in Seq(Recorded) /\ Ended(m) \in Recorded
            /\ events[m] \in Seq(Recorded) /\ Ended(m)[1] # k
        BY <1>4, <2>2, AtNode, Types DEF AppendClosing, Running, Ended, Recorded
      <3>2. Without(Append(cmd[c].buf, Ended(m)), k)
        BY <1>1, <3>1, WithoutAppended
      <3>3. ASSUME Len(events[m]) >= Len(cmd[c].buf) + 1
            PROVE  Without(SubSeq(events[m], 1, Len(cmd[c].buf) + 1), k)
        <4>1. Without(events[m], k)
          BY <1>1, <3>1
        <4> QED
          BY <3>1, <3>3, <4>1 DEF Without
      <3> HIDE DEF m
      <3>4. \/ events'[n] = events[n]
            \/ events'[n] = Append(cmd[c].buf, Ended(m))
            \/ /\ Len(events[m]) >= Len(cmd[c].buf) + 1
               /\ events'[n] = SubSeq(events[m], 1, Len(cmd[c].buf) + 1)
        BY <2>2 DEF AppendClosing, TypeOK, m
      <3> QED
        BY <1>1, <3>2, <3>3, <3>4
    <2>3. CASE CopyEvents(c)
      BY <1>1, <1>2, <2>3 DEF CopyEvents, TypeOK
    <2>4. CASE \/ \E kind \in {"start", "stop"} : Give(c, kind)
               \/ AskFails(c) \/ StopRefused(c) \/ Stop(c)
      BY <1>1, <2>4 DEF Give, AskFails, StopRefused, Stop
    <2> QED
      BY <2>1, <2>2, <2>3, <2>4 DEF CommandStep
  <1> QED
    BY <1>1, <1>3, <1>5

-----------------------------------------------------------------------------
(* Traced requests: nothing is missed while no command runs *)

LEMMA TracedReceive ==
  ASSUME AnswerInv, NoneBefore, TracedSoFar, NEW r \in Requests,
         NEW node \in Nodes, NEW way \in Ways, Receive(r, node, way)
  PROVE  TracedSoFar'
  <1> USE DEF AnswerInv
  <1>1. /\ req[r].at = "new" /\ req[r].s = NoSession /\ req[r].hook = 1
        /\ UNCHANGED <<session, events, cmd>>
        /\ traced' = traced \/ (Tracing /\ traced' = traced \cup {r})
    BY DEF Receive, Placed
  <1>2. /\ req'[r] = [req[r] EXCEPT !.node = node, !.way = way, !.at = "look"]
        /\ \A k \in Requests : k # r => req'[k] = req[k]
    BY DEF Receive, TypeOK
  <1>3. req[r] \in Goroutines
    BY Types
  <1>4. req'[r].at = "look" /\ req'[r].s = NoSession /\ req'[r].hook = 1
    BY <1>1, <1>2, <1>3 DEF Goroutines
  <1>5. \A n \in Nodes : CalledBy(req'[r], n) = {}
    BY <1>4 DEF CalledBy
  <1>6. traced' # {} => Quiet'
    BY <1>1 DEF TracedSoFar, Tracing, Quiet, Running
  <1>7. ASSUME NEW k \in traced', k # r
        PROVE  (/\ req[k].at # "new"
                /\ req[k].s # NoSession => Current(k)
                /\ \A n \in Nodes :
                     session[n] # NoSession => Has(events[n], k, n, CalledBy(req[k], n)))'
    <2>1. k \in traced /\ req'[k] = req[k]
      BY <1>1, <1>2, <1>7 DEF TypeOK
    <2> QED
      BY <1>1, <2>1 DEF TracedSoFar, Current, Here
  <1>8. \A n \in Nodes : Has(events'[n], r, n, CalledBy(req'[r], n))
    BY <1>1, <1>5, HasNone, Types DEF NoneBefore
  <1> QED
    BY <1>4, <1>6, <1>7, <1>8 DEF TracedSoFar

LEMMA TracedCommands ==
  ASSUME AnswerInv, TracedSoFar, NEW c \in Commands, CommandStep(c)
  PROVE  TracedSoFar'
  <1>1. CASE \E kind \in {"start", "stop"} : Give(c, kind)
    BY <1>1 DEF Give, TracedSoFar
  <1>2. CASE \/ Start(c) \/ AskFails(c) \/ StopRefused(c)
             \/ Stop(c) \/ AppendClosing(c) \/ CopyEvents(c)
    <2>1. Running(c) /\ traced' = traced
      BY <1>2 DEF Start, AskFails, StopRefused, Stop, AppendClosing, CopyEvents, Running
    <2>2. traced' = {}
      BY <2>1 DEF TracedSoFar, Quiet
    <2> QED
      BY <2>2 DEF TracedSoFar
  <1> QED
    BY <1>1, <1>2 DEF CommandStep

LEMMA TracedServes ==
  ASSUME AnswerInv, TracedSoFar, NEW r \in Requests, Serves(r)
  PROVE  TracedSoFar'
  <1> USE DEF AnswerInv
  <1> DEFINE n == Here(r)
             q == req[r]
  <1>1. /\ Serving(r) /\ req'[r].at # "new" /\ n \in Nodes
        /\ \A k \in Requests : k # r => req'[k] = req[k]
        /\ UNCHANGED <<cluster, session, active, cmd, file, traced>>
        /\ ~AppendEvent(r) => UNCHANGED events
    BY OthersStay
  <1>2. /\ q \in Goroutines /\ q.way \in Ways /\ q.hook \in 1 .. Len(q.way)
        /\ q.hook \in Nat /\ n = q.node
    BY <1>1, Types DEF Placed, Serving, Here
  <1>3. SUFFICES ASSUME NEW k \in traced
                 PROVE  (/\ req[k].at # "new"
                         /\ req[k].s # NoSession => Current(k)
                         /\ \A m \in Nodes : session[m] # NoSession =>
                              Has(events[m], k, m, CalledBy(req[k], m)))'
    BY <1>1 DEF TracedSoFar, Quiet, Running
  <1>4. /\ k \in Requests /\ req[k].at # "new"
        /\ req[k].s # NoSession => Current(k)
        /\ \A m \in Nodes : session[m] # NoSession =>
             Has(events[m], k, m, CalledBy(req[k], m))
        /\ \A m \in Nodes : Free(m)
    BY DEF TracedSoFar, TypeOK, Quiet, Free, Stopper, Running
  <1>5. AppendEvent(r) =>
          /\ events' = [events EXCEPT ![n] = Append(events[n], Event(r))]
          /\ session[n] # NoSession /\ events[n] \in Seq(Recorded)
          /\ Event(r) \in Recorded /\ req'[r] = Past(q)
    <2> SUFFICES ASSUME AppendEvent(r)
                 PROVE  /\ events' = [events EXCEPT ![n] = Append(events[n], Event(r))]
                        /\ session[n] # NoSession /\ events[n] \in Seq(Recorded)
                        /\ Event(r) \in Recorded /\ req'[r] = Past(q)
      OBVIOUS
    <2>1. Appending(r) /\ session[n] # NoSession
      BY CurrentIsASession DEF AppendEvent, Appending
    <2>2. req[r].buf = events[n]
      BY <1>1, <1>4, <2>1 DEF Exclusive
    <2> QED
      BY <1>1, <2>1, <2>2, HereIsANode, Types DEF AppendEvent, TypeOK
  <1>6. CASE k # r
    <2>1. req'[k] = req[k] /\ (req'[k].s # NoSession => Current(k)')
      BY <1>1, <1>4, <1>6 DEF Current, Here
    <2>2. ASSUME NEW m \in Nodes, session[m] # NoSession
          PROVE  Has(events'[m], k, m, CalledBy(req[k], m))
      <3>1. CalledBy(req[k], m) \in SUBSET Nat /\ Event(r)[1] # k
        BY <1>4, <1>6, HooksAreNumbers DEF Event
      <3>2. Has(events[m], k, m, CalledBy(req[k], m))
        BY <1>4, <2>2
      <3>3. CASE AppendEvent(r) /\ m = n
        <4>1. Has(Append(events[n], Event(r)), k, n, CalledBy(req[k], n))
          BY <1>1, <1>4, <1>5, <3>1, <3>2, <3>3, HasOther
        <4> QED
          BY <1>5, <3>3, <4>1 DEF TypeOK
      <3>4. CASE ~(AppendEvent(r) /\ m = n)
        BY <1>1, <1>5, <3>2, <3>4 DEF TypeOK
      <3> QED
        BY <3>3, <3>4
    <2> QED
      BY <1>1, <1>4, <2>1, <2>2
  <1>7. CASE k = r
    <2>1. /\ q.at \in {"check", "lock", "append"} => Current(r)
          /\ ~Late(r) /\ (Current(r) /\ q.at = "check" => active[n])
      <3>1. q.at \in {"check", "lock", "append"} => Current(r)
        BY <1>1, <1>4, <1>7 DEF Placed
      <3>2. Current(r) /\ q.at = "check" => active[n]
        BY <1>1, <1>4, CurrentIsASession, Types
      <3> QED
        BY <3>1, <3>2 DEF Late
    <2>2. CASE AppendEvent(r)
      <3>1. /\ CalledBy(req'[r], n) = CalledBy(q, n) \cup {q.hook}
            /\ \A h \in CalledBy(q, n) : h < q.hook
            /\ \A m \in Nodes : m # n => CalledBy(req'[r], m) = CalledBy(q, m)
        BY <1>2, <1>5, <2>2, CalledByPast
      <3>2. CalledBy(q, n) \in SUBSET Nat
        BY HooksAreNumbers
      <3>3. Has(Append(events[n], <<r, n, q.hook>>), r, n, CalledBy(req'[r], n))
        <4>1. /\ Has(events[n], r, n, CalledBy(q, n)) /\ events[n] \in Seq(Recorded)
              /\ q.hook \in Nat /\ r \in Requests /\ n \in Nodes
          BY <1>1, <1>2, <1>4, <1>5, <1>7, <2>2
        <4> HIDE DEF q, n
        <4>2. Has(Append(events[n], <<r, n, q.hook>>), r, n,
                  CalledBy(q, n) \cup {q.hook})
          BY <3>1, <3>2, <4>1, HasOwn
        <4> QED
          BY <3>1, <4>2
      <3>4. req'[r].s = NoSession
        BY <1>2, <1>5, <2>2, Passes
      <3>5. ASSUME NEW m \in Nodes, session[m] # NoSession
            PROVE  Has(events'[m], r, m, CalledBy(req'[r], m))
        <4>1. CASE m = n
          BY <1>5, <2>2, <3>3, <4>1 DEF Event, TypeOK
        <4>2. CASE m # n
          BY <1>4, <1>5, <1>7, <2>2, <3>1, <3>5, <4>2 DEF TypeOK
        <4> QED
          BY <4>1, <4>2
      <3> QED
        BY <1>1, <1>7, <3>4, <3>5
    <2>3. CASE ReadSession(r) /\ session[n] = NoSession
      <3>1. \/ req'[r] = Past(q)
            \/ q.way[q.hook] = "forward" /\ req'[r] = Past(Past(q))
        BY <1>1, <2>3 DEF ReadSession, TypeOK
      <3>2. /\ Past(q) \in Goroutines /\ Past(q).node = q.node
            /\ Past(q).way = q.way /\ Past(q).hook = q.hook + 1
            /\ Past(q).s = NoSession
            /\ \A m \in Nodes : m # n => CalledBy(Past(q), m) = CalledBy(q, m)
        BY <1>2, Passes, CalledByPast
      <3>3. ASSUME q.way[q.hook] = "forward"
            PROVE  /\ Past(Past(q)).s = NoSession
                   /\ \A m \in Nodes : m # n =>
                        CalledBy(Past(Past(q)), m) = CalledBy(Past(q), m)
        <4>1. Past(q).hook \in 1 .. Len(q.way)
          BY <1>2, <3>2, <3>3, WaysGo
        <4> QED
          BY <1>2, <3>2, <4>1, Passes, CalledByPast
      <3>4. /\ req'[r].s = NoSession
            /\ \A m \in Nodes : m # n => CalledBy(req'[r], m) = CalledBy(q, m)
        BY <3>1, <3>2, <3>3
      <3>5. UNCHANGED events
        BY <2>3 DEF ReadSession
      <3> QED
        BY <1>1, <1>4, <1>7, <2>3, <3>4, <3>5
    <2>4. CASE \/ ReadSession(r) /\ session[n] # NoSession
               \/ CheckActive(r) \/ LockEvents(r)
      <3>1. \/ req'[r] = [q EXCEPT !.at = "check", !.s = session[n]]
            \/ Current(r) /\ req'[r] = [q EXCEPT !.at = "lock"]
            \/ Current(r) /\ req'[r] = [q EXCEPT !.at = "append", !.buf = events[n]]
        BY <1>1, <2>1, <2>4 DEF ReadSession, CheckActive, LockEvents, TypeOK
      <3>2. /\ req'[r].node = q.node /\ req'[r].hook = q.hook
            /\ req'[r].s = session[n]
        BY <1>2, <3>1 DEF Goroutines, Current
      <3>3. UNCHANGED events
        BY <2>4 DEF ReadSession, CheckActive, LockEvents
      <3>4. \A m \in Nodes : CalledBy(req'[r], m) = CalledBy(q, m)
        BY <3>2 DEF CalledBy
      <3>5. Current(r)'
        BY <1>1, <1>2, <3>2 DEF Current, Here
      <3> QED
        BY <1>1, <1>4, <1>7, <3>3, <3>4, <3>5
    <2> QED
      BY <2>1, <2>2, <2>3, <2>4 DEF Serves
  <1> QED
    BY <1>6, <1>7

-----------------------------------------------------------------------------
(* What is collected *)

CollectInv == Collecting /\ WholeRequestsAreTraced

LEMMA CollectReceive ==
  ASSUME AnswerInv, CollectInv, NEW r \in Requests, NEW node \in Nodes,
         NEW way \in Ways, Receive(r, node, way)
  PROVE  CollectInv'
  <1> USE DEF AnswerInv, CollectInv
  <1>1. /\ req[r].at = "new"
        /\ \A k \in Requests : k # r => req'[k] = req[k]
        /\ UNCHANGED <<session, events, cmd, file>>
    BY DEF Receive, TypeOK
  <1>2. \A c \in Commands : \A k \in cmd[c].covers :
          k \in Requests /\ req[k].at = "done" /\ req'[k] = req[k]
    BY <1>1, Types DEF Collecting
  <1>3. \A c \in Commands : \A k \in cmd[c].covers : \A n :
          HooksOf(k, n)' = HooksOf(k, n)
    BY <1>2 DEF HooksOf, Here
  <1>4. TypeOK'
    BY ReceiveMoves
  <1>5. Collecting'
    BY <1>1, <1>2, <1>3 DEF Collecting, Running, Free, Stopper, Whole
  <1> QED
    BY <1>1, <1>3, <1>4, <1>5 DEF WholeRequestsAreTraced, Whole

LEMMA CollectServes ==
  ASSUME AnswerInv, CollectInv, NEW r \in Requests, Serves(r)
  PROVE  CollectInv'
  <1> USE DEF AnswerInv, CollectInv
  <1>1. /\ Serving(r) /\ Here(r) \in Nodes
        /\ \A k \in Requests : k # r => req'[k] = req[k]
        /\ UNCHANGED <<session, cmd, file>>
        /\ ~AppendEvent(r) => UNCHANGED events
    BY OthersStay
  <1>2. \A c \in Commands : \A k \in cmd[c].covers :
          k \in Requests /\ req[k].at = "done" /\ req'[k] = req[k] /\ k # r
    BY <1>1, Types DEF Collecting, Serving
  <1>3. \A c \in Commands : \A k \in cmd[c].covers : \A n :
          HooksOf(k, n)' = HooksOf(k, n)
    BY <1>2 DEF HooksOf, Here
  <1>4. TypeOK'
    BY ReadSessionMoves, CheckActiveMoves, LateMoves, LockEventsMoves,
       AppendEventMoves DEF Serves
  <1>5. ASSUME NEW c \in Commands, NEW k \in cmd[c].covers, NEW n \in Nodes,
               Free(n), Whole(k, n, events[n])
        PROVE  Has(events'[n], k, n, HooksOf(k, n))
    <2>1. CASE AppendEvent(r) /\ n = Here(r)
      <3>1. Appending(r) /\ req[r].buf = events[n]
        BY <1>5, <2>1 DEF AppendEvent, Appending, Exclusive
      <3>2. /\ Event(r) \in Recorded /\ Event(r)[1] # k /\ k \in Requests
            /\ events[n] \in Seq(Recorded)
        BY <1>1, <1>2, HereIsANode, Types DEF Event
      <3>3. Has(Append(events[n], Event(r)), k, n, HooksOf(k, n))
        BY <1>5, <3>2, HooksAreNumbers, HasOther DEF Whole
      <3> QED
        BY <2>1, <3>1, <3>3 DEF AppendEvent, TypeOK
    <2>2. CASE ~(AppendEvent(r) /\ n = Here(r))
      BY <1>1, <1>5, <2>2 DEF AppendEvent, TypeOK, Whole
    <2> QED
      BY <2>1, <2>2
  <1>6. Collecting'
    BY <1>1, <1>2, <1>3, <1>5 DEF Collecting, Running, Free, Stopper, Whole
  <1> QED
    BY <1>1, <1>3, <1>4, <1>6 DEF WholeRequestsAreTraced, Whole

LEMMA CollectGive ==
  ASSUME AnswerInv, TracedSoFar, CollectInv, NEW c \in Commands,
         NEW kind \in {"start", "stop"}, Give(c, kind)
  PROVE  CollectInv'
  <1> USE DEF AnswerInv, CollectInv
  <1>0. /\ cmd[c].at = "new" /\ UNCHANGED <<session, events, req, file>>
    BY DEF Give
  <1>1. \A d \in Commands : d # c =>
          /\ cmd'[d].at = cmd[d].at /\ cmd'[d].kind = cmd[d].kind
          /\ cmd'[d].covers = IF Running(d) THEN {} ELSE cmd[d].covers
    BY Types DEF Give, CommandStates
  <1>2. /\ cmd'[c].at = "ask" /\ cmd'[c].kind = kind
        /\ cmd'[c].covers = IF kind = "stop" /\ Quiet
                            THEN {r \in traced : req[r].at = "done"} ELSE {}
    BY DEF Give, Command
  <1>3. TypeOK'
    BY GiveMoves
  <1>4. \A r, n : HooksOf(r, n)' = HooksOf(r, n)
    BY <1>0 DEF HooksOf, Here
  <1>5. \A d \in Commands : d # c => (Running(d)' <=> Running(d))
    BY <1>1 DEF Running
  <1>6. ASSUME NEW r \in cmd'[c].covers
        PROVE  /\ req[r].at = "done" /\ kind = "stop" /\ Quiet
               /\ \A n \in Nodes : session[n] # NoSession =>
                    Has(events[n], r, n, HooksOf(r, n))
    <2>1. kind = "stop" /\ Quiet /\ r \in traced /\ req[r].at = "done"
      BY <1>2, <1>6
    <2>2. req[r].way \in Ways /\ req[r].hook = Len(req[r].way) + 1
      BY <2>1 DEF Placed, TypeOK
    <2>3. \A n \in Nodes : CalledBy(req[r], n) = HooksOf(r, n)
      BY <2>2, WaysGo DEF CalledBy, HooksOf, Here
    <2> QED
      BY <2>1, <2>3 DEF TracedSoFar
  <1>7. Collecting'
    <2> SUFFICES ASSUME NEW d \in Commands, NEW r \in cmd'[d].covers
                 PROVE  (/\ req[r].at = "done" /\ cmd[d].kind = "stop"
                         /\ Running(d) =>
                              /\ \A e \in Commands : Running(e) => e = d
                              /\ \A n \in Nodes : Free(n) /\ session[n] # NoSession =>
                                                    Whole(r, n, events[n])
                              /\ \A n \in Nodes : d \in Stopper(n) =>
                                   /\ Whole(r, n, cmd[d].buf)
                                   /\ \A e \in cmd[d].racing : e[1] # r)'
      BY DEF Collecting
    <2>1. CASE d = c
      <3>1. \A n \in Nodes : c \notin Stopper(n)'
        BY <1>2 DEF Stopper
      <3>2. \A e \in Commands : Running(e)' => e = c
        BY <1>5, <1>6, <2>1 DEF Quiet
      <3> QED
        BY <1>0, <1>2, <1>4, <1>6, <2>1, <3>1, <3>2 DEF Whole
    <2>2. CASE d # c
      <3>1. ~Running(d) /\ r \in cmd[d].covers
        BY <1>1, <2>2
      <3> QED
        BY <1>0, <1>1, <1>5, <2>2, <3>1 DEF Collecting
    <2> QED
      BY <2>1, <2>2
  <1>8. \A d \in Commands, n \in Nodes : file'[d][n] # None =>
          \A r \in cmd'[d].covers : Whole(r, n, file[d][n])'
    <2> SUFFICES ASSUME NEW d \in Commands, NEW n \in Nodes, file[d][n] # None,
                        NEW r \in cmd'[d].covers
                 PROVE  Has(file[d][n], r, n, HooksOf(r, n))
      BY <1>0, <1>4 DEF Whole
    <2>1. d # c
      BY <1>0 DEF Commanded
    <2> QED
      BY <1>1, <2>1 DEF WholeRequestsAreTraced, Whole
  <1> QED
    BY <1>0, <1>3, <1>7, <1>8 DEF WholeRequestsAreTraced

\* A command at a node: only what it is to collect itself is at stake.
LEMMA CollectCommand ==
  ASSUME AnswerInv, CollectInv, NEW c \in Commands, Running(c),
         req' = req, TypeOK',
         \A d \in Commands : d # c => cmd'[d] = cmd[d] /\ file'[d] = file[d],
         cmd'[c].covers = cmd[c].covers, cmd'[c].kind = cmd[c].kind,
         ASSUME NEW r \in cmd[c].covers, Running(c)', NEW n \in Nodes
         PROVE  /\ Free(n)' /\ session'[n] # NoSession =>
                     Has(events'[n], r, n, HooksOf(r, n))
                /\ c \in Stopper(n)' =>
                     /\ Has(cmd'[c].buf, r, n, HooksOf(r, n))
                     /\ \A e \in cmd'[c].racing : e[1] # r,
         ASSUME NEW r \in cmd[c].covers, NEW n \in Nodes,
                file'[c][n] # file[c][n]
         PROVE  Has(file'[c][n], r, n, HooksOf(r, n))
  PROVE  CollectInv'
  <1> USE DEF CollectInv
  <1>1. \A r, n : HooksOf(r, n)' = HooksOf(r, n)
    BY DEF HooksOf, Here
  <1>2. Collecting'
    <2> SUFFICES ASSUME NEW d \in Commands, NEW r \in cmd'[d].covers
                 PROVE  (/\ req[r].at = "done" /\ cmd[d].kind = "stop"
                         /\ Running(d) =>
                              /\ \A e \in Commands : Running(e) => e = d
                              /\ \A n \in Nodes : Free(n) /\ session[n] # NoSession =>
                                                    Whole(r, n, events[n])
                              /\ \A n \in Nodes : d \in Stopper(n) =>
                                   /\ Whole(r, n, cmd[d].buf)
                                   /\ \A e \in cmd[d].racing : e[1] # r)'
      BY DEF Collecting
    <2>1. CASE d = c
      <3>1. req'[r].at = "done" /\ cmd'[d].kind = "stop"
        BY <2>1 DEF Collecting
      <3>2. \A e \in Commands : Running(e)' => e = c
        BY <2>1 DEF Collecting, Running
      <3> QED
        BY <1>1, <2>1, <3>1, <3>2 DEF Whole
    <2>2. CASE d # c
      <3>1. r \in cmd[d].covers /\ ~Running(d) /\ ~Running(d)'
        BY <2>2 DEF Collecting, Running
      <3> QED
        BY <2>2, <3>1 DEF Collecting
    <2> QED
      BY <2>1, <2>2
  <1>3. ASSUME NEW d \in Commands, NEW n \in Nodes, file'[d][n] # None,
               NEW r \in cmd'[d].covers
        PROVE  Whole(r, n, file[d][n])'
    <2>1. CASE file'[d][n] = file[d][n]
      BY <1>1, <1>3, <2>1 DEF WholeRequestsAreTraced, Whole
    <2>2. CASE file'[d][n] # file[d][n]
      BY <1>1, <1>3, <2>2 DEF Whole
    <2> QED
      BY <2>1, <2>2
  <1> QED
    BY <1>2, <1>3 DEF WholeRequestsAreTraced

LEMMA CollectOnward ==
  ASSUME AnswerInv, CollectInv, NEW c \in Commands,
         Start(c) \/ AskFails(c) \/ StopRefused(c) \/ CopyEvents(c)
  PROVE  CollectInv'
  <1> USE DEF AnswerInv, CollectInv
  <1> DEFINE n == Head(cmd[c].left)
  <1>0. /\ Running(c) /\ req' = req
        /\ \E ok \in BOOLEAN : cmd' = [cmd EXCEPT ![c] = Onward(c, ok)]
    BY DEF Start, AskFails, StopRefused, CopyEvents, Running
  <1>1. /\ \A d \in Commands : d # c => cmd'[d] = cmd[d]
        /\ n \in Nodes
        /\ cmd'[c].at \in {"ask", "done"} /\ cmd'[c].covers = cmd[c].covers
        /\ cmd'[c].kind = cmd[c].kind /\ cmd'[c].buf = <<>>
        /\ \A m \in Nodes : Stopper(m)' = Stopper(m) \ {c}
    BY <1>0, GoesOnward
  <1>2. TypeOK'
    BY StartMoves, CopyEventsMoves, PassesBy DEF AskFails, StopRefused
  <1>3. \A d \in Commands : d # c => file'[d] = file[d]
    BY <1>1 DEF Start, AskFails, StopRefused, CopyEvents, TypeOK
  <1>4. ASSUME NEW r \in cmd[c].covers
        PROVE  ~Start(c)
    BY <1>4 DEF Collecting, Start
  <1>5. ASSUME NEW r \in cmd[c].covers, NEW m \in Nodes,
               Free(m)', session'[m] # NoSession
        PROVE  Has(events'[m], r, m, HooksOf(r, m))
    <2>1. Free(m) /\ session[m] # NoSession /\ events'[m] = events[m]
      <3>1. CASE AskFails(c) \/ StopRefused(c)
        <4>1. c \notin Stopper(m)
          BY <3>1 DEF AskFails, StopRefused, Stopper
        <4> QED
          BY <1>1, <1>5, <3>1, <4>1 DEF AskFails, StopRefused, Free
      <3>2. CASE CopyEvents(c)
        <4>1. m # n
          BY <1>1, <1>5, <3>2 DEF CopyEvents, TypeOK
        <4>2. c \notin Stopper(m)
          BY <4>1 DEF Stopper
        <4> QED
          BY <1>1, <1>5, <3>2, <4>1, <4>2 DEF CopyEvents, Free, TypeOK
      <3> QED
        BY <1>4, <3>1, <3>2
    <2> QED
      BY <1>0, <2>1 DEF Collecting, Whole
  <1>6. ASSUME NEW r \in cmd[c].covers, NEW m \in Nodes,
               file'[c][m] # file[c][m]
        PROVE  Has(file'[c][m], r, m, HooksOf(r, m))
    <2>1. CopyEvents(c) /\ m = n /\ file'[c][m] = events[m]
      <3>1. CASE AskFails(c) \/ StopRefused(c)
        BY <1>6, <3>1 DEF AskFails, StopRefused
      <3>2. CASE CopyEvents(c)
        <4>1. /\ file \in [Commands -> [Nodes -> Seq(Recorded) \cup {None}]]
              /\ file' = file \/ file' = [file EXCEPT ![c][n] = events[n]]
          BY <3>2 DEF CopyEvents, TypeOK
        <4>2. file' = [file EXCEPT ![c][n] = events[n]]
          BY <1>6, <4>1
        <4>3. m = n /\ file'[c][m] = events[m]
          BY <1>1, <1>6, <4>1, <4>2
        <4> QED
          BY <3>2, <4>3
      <3> QED
        BY <1>4, <1>6, <3>1, <3>2
    <2>2. c \in Stopper(m)
      BY <2>1 DEF CopyEvents, Stopper
    <2>3. GoesOn(c, events[m])
      BY <2>2 DEF Stopping
    <2>4. /\ Has(cmd[c].buf, r, m, HooksOf(r, m))
          /\ \A e \in cmd[c].racing : e[1] # r
      BY <1>0, <2>2 DEF Collecting, Whole
    <2>5. r \in Requests /\ events[m] \in Seq(Recorded)
      BY Types
    <2>6. Has(events[m], r, m, HooksOf(r, m))
      BY <2>3, <2>4, <2>5, HooksAreNumbers, HasGoesOn
    <2> QED
      BY <2>1, <2>6
  <1>7. \A m \in Nodes : c \notin Stopper(m)'
    BY <1>1
  <1> QED
    BY <1>0, <1>1, <1>2, <1>3, <1>5, <1>6, <1>7, CollectCommand

LEMMA CollectStop ==
  ASSUME AnswerInv, CollectInv, NEW c \in Commands, Stop(c) \/ AppendClosing(c)
  PROVE  CollectInv'
  <1> USE DEF AnswerInv, CollectInv
  <1> DEFINE n == Head(cmd[c].left)
  <1>0. /\ Running(c) /\ req' = req /\ UNCHANGED <<session, file>>
        /\ \A d \in Commands : d # c => cmd'[d] = cmd[d]
    BY DEF Stop, AppendClosing, Running, TypeOK
  <1>1. /\ n \in Nodes /\ cmd[c] \in CommandStates
    BY <1>0, AtNode
  <1>2. TypeOK'
    BY StopMoves, AppendClosingMoves
  <1>3. /\ cmd'[c].covers = cmd[c].covers /\ cmd'[c].kind = cmd[c].kind
        /\ cmd'[c].left = cmd[c].left /\ cmd'[c].at \in {"close", "copy"}
    BY <1>1 DEF Stop, AppendClosing, TypeOK, CommandStates
  <1>4. \A m \in Nodes : /\ c \in Stopper(m)' <=> m = n
                         /\ Free(m)' => m # n /\ Free(m)
    BY <1>0, <1>3 DEF Stopper, Free
  <1>5. ASSUME NEW r \in cmd[c].covers, NEW m \in Nodes, Free(m)',
               session'[m] # NoSession
        PROVE  Has(events'[m], r, m, HooksOf(r, m))
    <2>1. events'[m] = events[m]
      BY <1>1, <1>4, <1>5 DEF Stop, AppendClosing, TypeOK
    <2> QED
      BY <1>0, <1>4, <1>5, <2>1 DEF Collecting, Whole
  <1>6. ASSUME NEW r \in cmd[c].covers, NEW m \in Nodes, c \in Stopper(m)'
        PROVE  /\ Has(cmd'[c].buf, r, m, HooksOf(r, m))
               /\ \A e \in cmd'[c].racing : e[1] # r
    <2>0. m = n
      BY <1>4, <1>6
    <2>1. CASE Stop(c)
      <3>1. /\ cmd'[c].buf = events[n]
            /\ cmd'[c].racing = {Event(k) : k \in {q \in Requests :
                 req[q].at \in {"lock", "append"} /\ Here(q) = n /\ Current(q)}}
        BY <1>1, <2>1 DEF Stop, TypeOK, CommandStates
      <3>2. /\ req[r].at = "done" /\ Has(events[n], r, n, HooksOf(r, n))
        BY <1>0, <1>1, <2>1 DEF Collecting, Whole, Stop
      <3>3. \A k \in Requests :
              req[k].at \in {"lock", "append"} => Event(k)[1] # r
        BY <3>2 DEF Event
      <3> QED
        BY <2>0, <3>1, <3>2, <3>3
    <2>2. CASE AppendClosing(c)
      <3>1. cmd'[c].buf = cmd[c].buf /\ cmd'[c].racing = cmd[c].racing
        BY <1>1, <2>2 DEF AppendClosing, TypeOK, CommandStates
      <3>2. c \in Stopper(n)
        BY <2>2 DEF AppendClosing, Stopper
      <3> QED
        BY <1>0, <1>1, <2>0, <3>1, <3>2 DEF Collecting, Whole
    <2> QED
      BY <2>1, <2>2
  <1> QED
    BY <1>0, <1>2, <1>3, <1>5, <1>6, CollectCommand

-----------------------------------------------------------------------------

LEMMA TraceInvInit == Init => TraceInv
  <1> SUFFICES ASSUME Init PROVE TraceInv
    OBVIOUS
  <1>1. AnswerInv
    BY AnswerInvInit
  <1>2. NoneBefore
    BY DEF Init, NoneBefore, Without, Goroutine, Command
  <1>3. TracedSoFar
    BY DEF Init, TracedSoFar
  <1>4. Collecting
    BY DEF Init, Collecting, Command
  <1>5. WholeRequestsAreTraced
    BY <1>1 DEF Init, WholeRequestsAreTraced, AnswerInv
  <1> QED
    BY <1>1, <1>2, <1>3, <1>4, <1>5 DEF TraceInv

LEMMA TraceInvNext == TraceInv /\ [Next]_vars => TraceInv'
  <1> SUFFICES ASSUME TraceInv, [Next]_vars PROVE TraceInv'
    OBVIOUS
  <1> USE DEF TraceInv
  <1>0. AnswerInv' /\ CollectInv
    BY AnswerInvNext DEF CollectInv
  <1>1. ASSUME NEW r \in Requests, NEW n \in Nodes, NEW way \in Ways,
               Receive(r, n, way)
        PROVE  NoneBefore' /\ TracedSoFar' /\ CollectInv'
    BY <1>0, <1>1, NoneBeforeReceive, TracedReceive, CollectReceive
  <1>2. ASSUME NEW r \in Requests, Serves(r)
        PROVE  NoneBefore' /\ TracedSoFar' /\ CollectInv'
    BY <1>0, <1>2, NoneBeforeServes, TracedServes, CollectServes
  <1>3. ASSUME NEW c \in Commands, CommandStep(c)
        PROVE  NoneBefore' /\ TracedSoFar' /\ CollectInv'
    <2>1. CollectInv'
      <3>1. CASE \E kind \in {"start", "stop"} : Give(c, kind)
        BY <1>0, <3>1, CollectGive
      <3>2. CASE Start(c) \/ AskFails(c) \/ StopRefused(c) \/ CopyEvents(c)
        BY <1>0, <3>2, CollectOnward
      <3>3. CASE Stop(c) \/ AppendClosing(c)
        BY <1>0, <3>3, CollectStop
      <3> QED
        BY <1>3, <3>1, <3>2, <3>3 DEF CommandStep
    <2> QED
      BY <1>3, <2>1, NoneBeforeCommands, TracedCommands
  <1>4. ASSUME UNCHANGED vars
        PROVE  NoneBefore' /\ TracedSoFar' /\ CollectInv'
    <2>1. NoneBefore'
      BY <1>4 DEF vars, NoneBefore, Without, Quiet, Running, Current, Here
    <2>2. TracedSoFar'
      BY <1>4 DEF vars, TracedSoFar, Quiet, Running, Current, Here, Free, Stopper
    <2>3. CollectInv'
      <3>1. Collecting'
        <4>1. /\ \A m \in Nodes : Stopper(m)' = Stopper(m)
              /\ \A k \in Requests, m \in Nodes : HooksOf(k, m)' = HooksOf(k, m)
          BY <1>4 DEF vars, Stopper, HooksOf, Here
        <4>2. /\ \A m \in Nodes : Free(m)' <=> Free(m)
              /\ \A d \in Commands : Running(d)' <=> Running(d)
          BY <1>4, <4>1 DEF vars, Free, Running
        <4>3. \A d \in Commands : cmd[d].covers \subseteq Requests
          BY <1>0, Types DEF CommandStates, AnswerInv
        <4> QED
          BY <1>0, <1>4, <4>1, <4>2, <4>3 DEF vars, CollectInv, Collecting, Whole
      <3>2. WholeRequestsAreTraced'
        BY <1>0, <1>4 DEF vars, WholeRequestsAreTraced, AnswerInv, Whole, HooksOf,
           Here
      <3> QED
        BY <3>1, <3>2 DEF CollectInv
    <2> QED
      BY <2>1, <2>2, <2>3
  <1> QED
    BY <1>0, <1>1, <1>2, <1>3, <1>4 DEF Next, Serves, CommandStep, CollectInv

\* What a stop saved of a request that was traced from its beginning is all of it,
\* in order and nothing twice, whatever other requests and commands did meanwhile.
THEOREM WholeRequests == Spec => []WholeRequestsAreTraced
  <1>1. TraceInv => WholeRequestsAreTraced
    BY DEF TraceInv
  <1> QED
    BY <1>1, TraceInvInit, TraceInvNext, PTL DEF Spec

=============================================================================
