----------------------------- MODULE TasksProofs -----------------------------
(***************************************************************************)
(* Theorems about SSHManager, for any calls, hosts and clients, and about  *)
(* Tasks, which calls it, for any provisioners, tasks, dependencies, hosts *)
(* and connections.                                                        *)
(***************************************************************************)
EXTENDS Tasks, TLAPS

-----------------------------------------------------------------------------
(* The SSH manager: its invariant *)

\* What scm.mu protects.  A client is at one host at most and has its goroutine;
\* its done channel is closed only by the holder of the lock, which takes it out
\* of the map before it does anything else.
Locked ==
  /\ dialing # NoHost => closing = {} /\ clients[dialing] = NoConn
  /\ half # NoConn => \E h \in closing : clients[h] = half
  /\ \A h \in closing : clients[h] # NoConn
  /\ \A g, h \in Hosts : clients[g] = clients[h] /\ clients[g] # NoConn => g = h
  /\ \A h \in Hosts : clients[h] # NoConn => loop[clients[h]] # "none"
  /\ \A h \in Hosts :
       clients[h] \notin {NoConn, half} => closes[clients[h]] = 0
  /\ \A c \in Conns : loop[c] = "none" => closes[c] = 0

Busy(c) == loop[c] \in {"taken", "session"}

\* A command is with one goroutine at most, whose caller has sent it and has not
\* got its result.
Serves ==
  /\ \A c \in Conns : Busy(c) => /\ pc[serving[c]] \in {"wait", "late"}
                                 /\ result[serving[c]] = "none"
  /\ \A c, d \in Conns : Busy(c) /\ Busy(d) /\ serving[c] = serving[d] => c = d
  /\ \A c \in Conns : /\ loop[c] = "taken" => runs[serving[c]] = 0
                      /\ loop[c] = "session" => runs[serving[c]] = 1
  /\ \A x \in Calls : /\ result[x] = "ok" => runs[x] = 1
                      /\ result[x] # "none" => pc[x] = "wait"

Inv == TypeOK /\ Locked /\ ClosedOnce /\ NoLeakedConnection
       /\ Serves /\ RunsAsReported

USE SSHAssumption DEF SSHAssumption

-----------------------------------------------------------------------------
(* The SSH manager: types *)

LEMMA TypeStep ==
  ASSUME Inv, Next PROVE TypeOK'
  <1>1. ASSUME NEW h \in Hosts, Connect(h) PROVE TypeOK'
    BY <1>1 DEF Inv, TypeOK, CallPcs, Returned, Connect, MuFree, muVars,
       loopVars, callVars
  <1>2. CASE DialFails
    BY <1>2 DEF Inv, TypeOK, CallPcs, Returned, DialFails, muVars, loopVars,
       callVars
  <1>3. ASSUME NEW c \in Conns, Dialed(c) PROVE TypeOK'
    BY <1>3 DEF Inv, TypeOK, CallPcs, Returned, Dialed, muVars, loopVars,
       callVars
  <1>4. ASSUME NEW h \in Hosts, Disconnect(h) PROVE TypeOK'
    BY <1>4 DEF Inv, TypeOK, CallPcs, Returned, Disconnect, MuFree, muVars,
       loopVars, callVars
  <1>5. CASE CloseAllConnections
    BY <1>5 DEF Inv, TypeOK, CallPcs, Returned, CloseAllConnections, MuFree,
       muVars, loopVars, callVars
  <1>6. ASSUME NEW h \in Hosts, CloseDone(h) PROVE TypeOK'
    BY <1>6 DEF Inv, TypeOK, Locked, CallPcs, Returned, CloseDone, muVars,
       loopVars, callVars
  <1>7. ASSUME NEW h \in Hosts, CloseClient(h) PROVE TypeOK'
    BY <1>7 DEF Inv, TypeOK, CallPcs, Returned, CloseClient, muVars, loopVars,
       callVars
  <1>8. ASSUME NEW c \in Conns, Break(c) PROVE TypeOK'
    BY <1>8 DEF Inv, TypeOK, CallPcs, Returned, Break, muVars, loopVars,
       callVars
  <1>9. ASSUME NEW x \in Calls, Call(x) PROVE TypeOK'
    BY <1>9 DEF Inv, TypeOK, CallPcs, Returned, Call, Goto, muVars, loopVars,
       callVars
  <1>10. ASSUME NEW x \in Calls, LookUp(x) PROVE TypeOK'
    BY <1>10 DEF Inv, TypeOK, CallPcs, Returned, LookUp, MuFree, Goto, muVars,
       loopVars, callVars
  <1>11. ASSUME NEW x \in Calls, Send(x) PROVE TypeOK'
    BY <1>11 DEF Inv, TypeOK, CallPcs, Returned, Send, Goto, muVars, loopVars,
       callVars
  <1>12. ASSUME NEW x \in Calls, GiveUpSending(x) PROVE TypeOK'
    BY <1>12 DEF Inv, TypeOK, CallPcs, Returned, GiveUpSending, Goto, muVars,
       loopVars, callVars
  <1>13. ASSUME NEW x \in Calls, Receive(x) PROVE TypeOK'
    BY <1>13 DEF Inv, TypeOK, CallPcs, Returned, Receive, Goto, muVars,
       loopVars, callVars
  <1>14. ASSUME NEW x \in Calls, GiveUpWaiting(x) PROVE TypeOK'
    BY <1>14 DEF Inv, TypeOK, CallPcs, Returned, GiveUpWaiting, Goto, muVars,
       loopVars, callVars
  <1>15. ASSUME NEW c \in Conns, Session(c) PROVE TypeOK'
    BY <1>15 DEF Inv, TypeOK, CallPcs, Returned, Session, muVars, loopVars,
       callVars
  <1>16. ASSUME NEW c \in Conns, SessionFails(c) PROVE TypeOK'
    BY <1>16 DEF Inv, TypeOK, CallPcs, Returned, SessionFails, Answer, muVars,
       loopVars, callVars
  <1>17. ASSUME NEW c \in Conns, CommandEnds(c) PROVE TypeOK'
    BY <1>17 DEF Inv, TypeOK, CallPcs, Returned, CommandEnds, Answer, muVars,
       loopVars, callVars
  <1>18. ASSUME NEW c \in Conns, Exit(c) PROVE TypeOK'
    BY <1>18 DEF Inv, TypeOK, CallPcs, Returned, Exit, muVars, loopVars,
       callVars
  <1> QED
    BY <1>1, <1>2, <1>3, <1>4, <1>5, <1>6, <1>7, <1>8, <1>9, <1>10, <1>11,
       <1>12, <1>13, <1>14, <1>15, <1>16, <1>17, <1>18
    DEF Next, ManagerStep, CallStep, LoopStep, Holder

-----------------------------------------------------------------------------
(* The SSH manager: the lock and the connections *)

LEMMA LockStep ==
  ASSUME Inv, Next PROVE Locked' /\ ClosedOnce' /\ NoLeakedConnection'
  <1>1. ASSUME NEW h \in Hosts, Connect(h)
        PROVE  Locked' /\ ClosedOnce' /\ NoLeakedConnection'
    BY <1>1 DEF Inv, TypeOK, Locked, ClosedOnce, NoLeakedConnection, Connect,
       MuFree, muVars, loopVars, callVars
  <1>2. CASE DialFails
    BY <1>2 DEF Inv, TypeOK, Locked, ClosedOnce, NoLeakedConnection,
       DialFails, muVars, loopVars, callVars
  <1>3. ASSUME NEW c \in Conns, Dialed(c)
        PROVE  Locked' /\ ClosedOnce' /\ NoLeakedConnection'
    BY <1>3 DEF Inv, TypeOK, Locked, ClosedOnce, NoLeakedConnection, Dialed,
       muVars, loopVars, callVars
  <1>4. ASSUME NEW h \in Hosts, Disconnect(h)
        PROVE  Locked' /\ ClosedOnce' /\ NoLeakedConnection'
    BY <1>4 DEF Inv, TypeOK, Locked, ClosedOnce, NoLeakedConnection,
       Disconnect, MuFree, muVars, loopVars, callVars
  <1>5. CASE CloseAllConnections
    BY <1>5 DEF Inv, TypeOK, Locked, ClosedOnce, NoLeakedConnection,
       CloseAllConnections, MuFree, muVars, loopVars, callVars
  <1>6. ASSUME NEW h \in Hosts, CloseDone(h)
        PROVE  Locked' /\ ClosedOnce' /\ NoLeakedConnection'
    BY <1>6 DEF Inv, TypeOK, Locked, ClosedOnce, NoLeakedConnection,
       CloseDone, muVars, loopVars, callVars
  <1>7. ASSUME NEW h \in Hosts, CloseClient(h)
        PROVE  Locked' /\ ClosedOnce' /\ NoLeakedConnection'
    BY <1>7 DEF Inv, TypeOK, Locked, ClosedOnce, NoLeakedConnection,
       CloseClient, muVars, loopVars, callVars
  <1>8. ASSUME NEW c \in Conns, Break(c)
        PROVE  Locked' /\ ClosedOnce' /\ NoLeakedConnection'
    BY <1>8 DEF Inv, TypeOK, Locked, ClosedOnce, NoLeakedConnection, Break,
       muVars, loopVars, callVars
  <1>9. ASSUME NEW x \in Calls, Call(x)
        PROVE  Locked' /\ ClosedOnce' /\ NoLeakedConnection'
    BY <1>9 DEF Inv, TypeOK, Locked, ClosedOnce, NoLeakedConnection, Call,
       Goto, muVars, loopVars, callVars
  <1>10. ASSUME NEW x \in Calls, LookUp(x)
         PROVE  Locked' /\ ClosedOnce' /\ NoLeakedConnection'
    BY <1>10 DEF Inv, TypeOK, Locked, ClosedOnce, NoLeakedConnection, LookUp,
       MuFree, Goto, muVars, loopVars, callVars
  <1>11. ASSUME NEW x \in Calls, Send(x)
         PROVE  Locked' /\ ClosedOnce' /\ NoLeakedConnection'
    BY <1>11 DEF Inv, TypeOK, Locked, ClosedOnce, NoLeakedConnection, Send,
       Goto, muVars, loopVars, callVars
  <1>12. ASSUME NEW x \in Calls, GiveUpSending(x)
         PROVE  Locked' /\ ClosedOnce' /\ NoLeakedConnection'
    BY <1>12 DEF Inv, TypeOK, Locked, ClosedOnce, NoLeakedConnection,
       GiveUpSending, Goto, muVars, loopVars, callVars
  <1>13. ASSUME NEW x \in Calls, Receive(x)
         PROVE  Locked' /\ ClosedOnce' /\ NoLeakedConnection'
    BY <1>13 DEF Inv, TypeOK, Locked, ClosedOnce, NoLeakedConnection, Receive,
       Goto, muVars, loopVars, callVars
  <1>14. ASSUME NEW x \in Calls, GiveUpWaiting(x)
         PROVE  Locked' /\ ClosedOnce' /\ NoLeakedConnection'
    BY <1>14 DEF Inv, TypeOK, Locked, ClosedOnce, NoLeakedConnection,
       GiveUpWaiting, Goto, muVars, loopVars, callVars
  <1>15. ASSUME NEW c \in Conns, Session(c)
         PROVE  Locked' /\ ClosedOnce' /\ NoLeakedConnection'
    BY <1>15 DEF Inv, TypeOK, Locked, ClosedOnce, NoLeakedConnection, Session,
       muVars, loopVars, callVars
  <1>16. ASSUME NEW c \in Conns, SessionFails(c)
         PROVE  Locked' /\ ClosedOnce' /\ NoLeakedConnection'
    BY <1>16 DEF Inv, TypeOK, Locked, ClosedOnce, NoLeakedConnection,
       SessionFails, Answer, muVars, loopVars, callVars
  <1>17. ASSUME NEW c \in Conns, CommandEnds(c)
         PROVE  Locked' /\ ClosedOnce' /\ NoLeakedConnection'
    BY <1>17 DEF Inv, TypeOK, Locked, ClosedOnce, NoLeakedConnection,
       CommandEnds, Answer, muVars, loopVars, callVars
  <1>18. ASSUME NEW c \in Conns, Exit(c)
         PROVE  Locked' /\ ClosedOnce' /\ NoLeakedConnection'
    BY <1>18 DEF Inv, TypeOK, Locked, ClosedOnce, NoLeakedConnection, Exit,
       muVars, loopVars, callVars
  <1> QED
    BY <1>1, <1>2, <1>3, <1>4, <1>5, <1>6, <1>7, <1>8, <1>9, <1>10, <1>11,
       <1>12, <1>13, <1>14, <1>15, <1>16, <1>17, <1>18
    DEF Next, ManagerStep, CallStep, LoopStep, Holder

-----------------------------------------------------------------------------
(* The SSH manager: calls and commands *)

LEMMA ServeStep ==
  ASSUME Inv, Next PROVE Serves' /\ RunsAsReported'
  <1>1. ASSUME NEW h \in Hosts, Connect(h) PROVE Serves' /\ RunsAsReported'
    BY <1>1 DEF Inv, TypeOK, Serves, Busy, RunsAsReported, Connect, MuFree,
       muVars, loopVars, callVars
  <1>2. CASE DialFails
    BY <1>2 DEF Inv, TypeOK, Serves, Busy, RunsAsReported, DialFails, muVars,
       loopVars, callVars
  <1>3. ASSUME NEW c \in Conns, Dialed(c) PROVE Serves' /\ RunsAsReported'
    BY <1>3 DEF Inv, TypeOK, Serves, Busy, RunsAsReported, Dialed, muVars,
       loopVars, callVars
  <1>4. ASSUME NEW h \in Hosts, Disconnect(h) PROVE Serves' /\ RunsAsReported'
    BY <1>4 DEF Inv, TypeOK, Serves, Busy, RunsAsReported, Disconnect, MuFree,
       muVars, loopVars, callVars
  <1>5. CASE CloseAllConnections
    BY <1>5 DEF Inv, TypeOK, Serves, Busy, RunsAsReported,
       CloseAllConnections, MuFree, muVars, loopVars, callVars
  <1>6. ASSUME NEW h \in Hosts, CloseDone(h) PROVE Serves' /\ RunsAsReported'
    BY <1>6 DEF Inv, TypeOK, Serves, Busy, RunsAsReported, CloseDone, muVars,
       loopVars, callVars
  <1>7. ASSUME NEW h \in Hosts, CloseClient(h) PROVE Serves' /\ RunsAsReported'
    BY <1>7 DEF Inv, TypeOK, Serves, Busy, RunsAsReported, CloseClient,
       muVars, loopVars, callVars
  <1>8. ASSUME NEW c \in Conns, Break(c) PROVE Serves' /\ RunsAsReported'
    BY <1>8 DEF Inv, TypeOK, Serves, Busy, RunsAsReported, Break, muVars,
       loopVars, callVars
  <1>9. ASSUME NEW x \in Calls, Call(x) PROVE Serves' /\ RunsAsReported'
    BY <1>9 DEF Inv, TypeOK, Serves, Busy, RunsAsReported, Call, Goto, muVars,
       loopVars, callVars
  <1>10. ASSUME NEW x \in Calls, LookUp(x) PROVE Serves' /\ RunsAsReported'
    BY <1>10 DEF Inv, TypeOK, Serves, Busy, RunsAsReported, LookUp, MuFree,
       Goto, muVars, loopVars, callVars
  <1>11. ASSUME NEW x \in Calls, Send(x) PROVE Serves' /\ RunsAsReported'
    BY <1>11 DEF Inv, TypeOK, Serves, Busy, RunsAsReported, Send, Goto,
       muVars, loopVars, callVars
  <1>12. ASSUME NEW x \in Calls, GiveUpSending(x)
         PROVE  Serves' /\ RunsAsReported'
    BY <1>12 DEF Inv, TypeOK, Serves, Busy, RunsAsReported, GiveUpSending,
       Goto, muVars, loopVars, callVars
  <1>13. ASSUME NEW x \in Calls, Receive(x) PROVE Serves' /\ RunsAsReported'
    BY <1>13 DEF Inv, TypeOK, Serves, Busy, RunsAsReported, Receive, Goto,
       muVars, loopVars, callVars
  <1>14. ASSUME NEW x \in Calls, GiveUpWaiting(x)
         PROVE  Serves' /\ RunsAsReported'
    BY <1>14 DEF Inv, TypeOK, Serves, Busy, RunsAsReported, GiveUpWaiting,
       Goto, muVars, loopVars, callVars
  <1>15. ASSUME NEW c \in Conns, Session(c) PROVE Serves' /\ RunsAsReported'
    BY <1>15 DEF Inv, TypeOK, Serves, Busy, RunsAsReported, Session, muVars,
       loopVars, callVars
  <1>16. ASSUME NEW c \in Conns, SessionFails(c)
         PROVE  Serves' /\ RunsAsReported'
    BY <1>16 DEF Inv, TypeOK, Serves, Busy, RunsAsReported, SessionFails,
       Answer, muVars, loopVars, callVars
  <1>17. ASSUME NEW c \in Conns, CommandEnds(c) PROVE Serves' /\ RunsAsReported'
    BY <1>17 DEF Inv, TypeOK, Serves, Busy, RunsAsReported, CommandEnds,
       Answer, muVars, loopVars, callVars
  <1>18. ASSUME NEW c \in Conns, Exit(c) PROVE Serves' /\ RunsAsReported'
    BY <1>18 DEF Inv, TypeOK, Serves, Busy, RunsAsReported, Exit, muVars,
       loopVars, callVars
  <1> QED
    BY <1>1, <1>2, <1>3, <1>4, <1>5, <1>6, <1>7, <1>8, <1>9, <1>10, <1>11,
       <1>12, <1>13, <1>14, <1>15, <1>16, <1>17, <1>18
    DEF Next, ManagerStep, CallStep, LoopStep, Holder

-----------------------------------------------------------------------------
(* The SSH manager: theorems *)

LEMMA InvInit == Init => Inv
  BY DEF Init, Inv, TypeOK, CallPcs, Locked, ClosedOnce, NoLeakedConnection,
     Serves, Busy, RunsAsReported

LEMMA InvNext == Inv /\ [Next]_sshVars => Inv'
  <1> SUFFICES ASSUME Inv, [Next]_sshVars PROVE Inv'
    OBVIOUS
  <1>1. CASE Next
    BY <1>1, TypeStep, LockStep, ServeStep DEF Inv
  <1>2. CASE UNCHANGED sshVars
    BY <1>2 DEF sshVars, muVars, loopVars, callVars, Inv, TypeOK, Locked,
       ClosedOnce, NoLeakedConnection, Serves, Busy, RunsAsReported
  <1> QED
    BY <1>1, <1>2

\* The invariant of the manager.
THEOREM Invariant == Spec => []Inv
  BY InvInit, InvNext, PTL DEF Spec

\* Every variable keeps its type; no call sends to a client it has not found.
THEOREM TypeCorrect == Spec => []TypeOK
  <1>1. Inv => TypeOK
    BY DEF Inv
  <1> QED
    BY Invariant, <1>1, PTL

\* No done channel is closed twice.
THEOREM NoDoubleClose == Spec => []ClosedOnce
  <1>1. Inv => ClosedOnce
    BY DEF Inv
  <1> QED
    BY Invariant, <1>1, PTL

\* Every open connection is one that CloseAllConnections would close.
THEOREM NoLeak == Spec => []NoLeakedConnection
  <1>1. Inv => NoLeakedConnection
    BY DEF Inv
  <1> QED
    BY Invariant, <1>1, PTL

\* What a call returns tells whether its command ran.
THEOREM Reports == Spec => []RunsAsReported
  <1>1. Inv => RunsAsReported
    BY DEF Inv
  <1> QED
    BY Invariant, <1>1, PTL

HIDE DEF SSHAssumption

-----------------------------------------------------------------------------
(* Tasks: the invariant *)

\* The commands of a task were given out once: none is out before its task began,
\* and a task begins only when what it depends on is completed.
Ordered ==
  \A p \in Provisioners, t \in TaskNames :
    /\ pc[Run(p, t)] # "idle" => /\ deps[p][t] \subseteq completed[p]
                                 /\ at[p] # "idle"
    /\ t \in completed[p] => pc[Run(p, t)] = "ok"

\* What is left of the tasks, and what this pass has still to visit.
Partitioned ==
  \A p \in Provisioners :
    /\ remaining[p] = TaskNames \ completed[p]
    /\ visit[p] \subseteq remaining[p]
    /\ at[p] \in {"kill", "run"} => /\ deps[p][task[p]] \subseteq completed[p]
                                    /\ task[p] \notin visit[p]
    /\ at[p] = "idle" => progress[p]
    /\ at[p] = "done" => remaining[p] = {}

\* A pass without progress has found every task it visited waiting.
Stuck ==
  \A p \in Provisioners :
    /\ at[p] = "pass" /\ ~progress[p] =>
         \A t \in remaining[p] \ visit[p] : ~Runnable(p, t)
    /\ at[p] = "circular" => \A t \in remaining[p] : ~Runnable(p, t)
    /\ at[p] \in {"kill", "run"} /\ ~progress[p] =>
         \A t \in remaining[p] \ visit[p] : t = task[p] \/ ~Runnable(p, t)

TInv == Inv /\ TasksTypeOK /\ Ordered /\ Partitioned /\ Stuck

USE TasksAssumption DEF TasksAssumption

-----------------------------------------------------------------------------
(* Tasks: the calls *)

\* What a task sees of the manager: its command is out once it was called, and a
\* result is final.
LEMMA CallsKeep ==
  ASSUME TypeOK, NEW x \in Calls,
         ManagerStep \/ \E y \in Calls \ {x} : Call(y)
  PROVE  /\ pc[x] = "idle" => pc'[x] = "idle"
         /\ pc[x] = "ok" => pc'[x] = "ok"
  <1>1. ASSUME NEW y \in Calls, CallStep(y)
        PROVE  /\ pc[x] = "idle" => pc'[x] = "idle"
               /\ pc[x] = "ok" => pc'[x] = "ok"
    BY <1>1 DEF TypeOK, CallStep, LookUp, Send, GiveUpSending, Receive,
       GiveUpWaiting, Goto
  <1>2. ASSUME NEW c \in Conns, LoopStep(c) \/ Break(c) PROVE UNCHANGED pc
    BY <1>2 DEF LoopStep, Break, Session, SessionFails, CommandEnds, Answer,
       Exit, callVars
  <1>3. CASE Holder
    BY <1>3 DEF Holder, DialFails, Dialed, CloseDone, CloseClient, callVars
  <1>4. CASE CloseAllConnections
    BY <1>4 DEF CloseAllConnections, callVars
  <1>5. ASSUME NEW h \in Hosts, Connect(h) \/ Disconnect(h) PROVE UNCHANGED pc
    BY <1>5 DEF Connect, Disconnect, callVars
  <1>6. ASSUME NEW y \in Calls \ {x}, Call(y) PROVE pc'[x] = pc[x]
    BY <1>6 DEF TypeOK, Call, Goto
  <1> QED
    BY <1>1, <1>2, <1>3, <1>4, <1>5, <1>6 DEF ManagerStep

LEMMA OtherCalls ==
  ASSUME NEW p \in Provisioners, NEW t \in TaskNames,
         NEW q \in Provisioners, NEW s \in TaskNames
  PROVE  /\ Run(p, t) \in TaskCalls
         /\ Run(p, t) = Run(q, s) => p = q /\ t = s
         /\ Run(p, t) # Kill(q, s)
         /\ s \in Background => Kill(q, s) \in TaskCalls
  BY DEF Run, Kill, TaskCalls

\* A step of a provisioner leaves the manager alone but for the start of a call.
LEMMA StepsCall ==
  ASSUME TasksTypeOK, TasksNext PROVE [Next]_sshVars
  <1>1. ASSUME NEW p \in Provisioners, Begin(p) PROVE UNCHANGED sshVars
    BY <1>1 DEF Begin
  <1>2. ASSUME NEW p \in Provisioners, NEW t \in TaskNames, Skip(p, t)
        PROVE  UNCHANGED sshVars
    BY <1>2 DEF Skip
  <1>3. ASSUME NEW p \in Provisioners, NEW t \in TaskNames, Execute(p, t)
        PROVE  \E x \in Calls : Call(x)
    BY <1>3, OtherCalls DEF Execute
  <1>4. ASSUME NEW p \in Provisioners, Start(p) PROVE \E x \in Calls : Call(x)
    BY <1>4, OtherCalls DEF Start, Move, TasksTypeOK
  <1>5. ASSUME NEW p \in Provisioners, Complete(p) \/ Fail(p) \/ PassEnds(p)
        PROVE  UNCHANGED sshVars
    BY <1>5 DEF Complete, Fail, PassEnds
  <1> QED
    BY <1>1, <1>2, <1>3, <1>4, <1>5 DEF TasksNext, ProvisionerStep, Next

-----------------------------------------------------------------------------
(* Tasks: the steps *)

LEMMA TInvBegin ==
  ASSUME TInv, NEW p \in Provisioners, Begin(p)
  PROVE  TasksTypeOK' /\ Ordered' /\ Partitioned' /\ Stuck'
  <1>0. TypeOK'
    BY InvNext DEF TInv, Begin, Inv
  <1> QED
    BY <1>0 DEF TInv, Begin, Move, TasksTypeOK, Ordered, Partitioned, Stuck,
       Runnable, sshVars, callVars

LEMMA TInvSkip ==
  ASSUME TInv, NEW p \in Provisioners, NEW u \in TaskNames, Skip(p, u)
  PROVE  TasksTypeOK' /\ Ordered' /\ Partitioned' /\ Stuck'
  <1>0. TypeOK'
    BY InvNext DEF TInv, Skip, Inv
  <1> QED
    BY <1>0 DEF TInv, Skip, TasksTypeOK, Ordered, Partitioned, Stuck,
       Runnable, sshVars, callVars

LEMMA TInvExecute ==
  ASSUME TInv, NEW p \in Provisioners, NEW u \in TaskNames, Execute(p, u)
  PROVE  TasksTypeOK' /\ Ordered' /\ Partitioned' /\ Stuck'
  <1>1. PICK x \in {Run(p, u), Kill(p, u)} :
          /\ x \in Calls /\ Call(x)
          /\ at'[p] = "run" \/ at'[p] = "kill"
          /\ at' = [at EXCEPT ![p] = at'[p]]
          /\ at[p] = "pass"
    BY OtherCalls DEF Execute, Move, TInv, TasksTypeOK
  <1>0. TypeOK'
    BY <1>1, InvNext DEF TInv, Inv, Next
  <1>2. /\ visit' = [visit EXCEPT ![p] = @ \ {u}]
        /\ task' = [task EXCEPT ![p] = u]
        /\ u \in visit[p] /\ Runnable(p, u)
        /\ UNCHANGED <<deps, remaining, progress, completed>>
    BY DEF Execute
  <1>3. \A q \in Provisioners, t \in TaskNames :
          q # p \/ t # u => pc'[Run(q, t)] = pc[Run(q, t)]
    BY <1>1, OtherCalls DEF Call, Goto, TInv, TasksTypeOK, TypeOK
  <1>4. pc'[Run(p, u)] = pc[Run(p, u)] \/
        (pc[Run(p, u)] = "idle" /\ pc'[Run(p, u)] = "lookup")
    BY <1>1, OtherCalls DEF Call, Goto, TInv, TasksTypeOK, TypeOK
  <1>5. TasksTypeOK'
    BY <1>0, <1>1, <1>2 DEF TInv, TasksTypeOK
  <1>6. Ordered'
    BY <1>1, <1>2, <1>3, <1>4 DEF TInv, TasksTypeOK, Ordered, Runnable
  <1>7. Partitioned'
    BY <1>1, <1>2 DEF TInv, TasksTypeOK, Partitioned, Runnable
  <1>8. Stuck'
    BY <1>1, <1>2 DEF TInv, TasksTypeOK, Partitioned, Stuck, Runnable
  <1> QED
    BY <1>5, <1>6, <1>7, <1>8

LEMMA TInvStart ==
  ASSUME TInv, NEW p \in Provisioners, Start(p)
  PROVE  TasksTypeOK' /\ Ordered' /\ Partitioned' /\ Stuck'
  <1>1. /\ at[p] = "kill" /\ at' = [at EXCEPT ![p] = "run"]
        /\ task[p] \in TaskNames /\ Call(Run(p, task[p]))
        /\ Run(p, task[p]) \in Calls
        /\ UNCHANGED <<deps, remaining, visit, progress, completed, task>>
    BY OtherCalls DEF Start, Move, TInv, TasksTypeOK
  <1>0. TypeOK'
    BY <1>1, InvNext DEF TInv, Inv, Next
  <1>2. \A q \in Provisioners, t \in TaskNames :
          q # p \/ t # task[p] => pc'[Run(q, t)] = pc[Run(q, t)]
    BY <1>1, OtherCalls DEF Call, Goto, TInv, TasksTypeOK, TypeOK
  <1>3. pc[Run(p, task[p])] = "idle"
    BY <1>1 DEF Call, Goto
  <1>4. TasksTypeOK'
    BY <1>0, <1>1 DEF TInv, TasksTypeOK
  <1>5. Ordered'
    BY <1>1, <1>2, <1>3 DEF TInv, TasksTypeOK, Ordered, Partitioned
  <1>6. Partitioned' /\ Stuck'
    BY <1>1 DEF TInv, TasksTypeOK, Partitioned, Stuck, Runnable
  <1> QED
    BY <1>4, <1>5, <1>6

LEMMA TInvComplete ==
  ASSUME TInv, NEW p \in Provisioners, Complete(p)
  PROVE  TasksTypeOK' /\ Ordered' /\ Partitioned' /\ Stuck'
  <1>0. TypeOK'
    BY InvNext DEF TInv, Complete, Inv
  <1>1. TasksTypeOK'
    BY <1>0 DEF TInv, Complete, Move, TasksTypeOK
  <1>2. Ordered'
    BY DEF TInv, Complete, Move, TasksTypeOK, Ordered, sshVars, callVars
  <1>3. Partitioned' /\ Stuck'
    BY DEF TInv, Complete, Move, TasksTypeOK, Partitioned, Stuck, Runnable
  <1> QED
    BY <1>1, <1>2, <1>3

LEMMA TInvEnds ==
  ASSUME TInv, NEW p \in Provisioners, Fail(p) \/ PassEnds(p)
  PROVE  TasksTypeOK' /\ Ordered' /\ Partitioned' /\ Stuck'
  <1>0. TypeOK'
    BY InvNext DEF TInv, Fail, PassEnds, Inv
  <1>1. TasksTypeOK'
    <2>1. CASE Fail(p)
      BY <1>0, <2>1 DEF TInv, Fail, Move, TasksTypeOK
    <2>2. CASE PassEnds(p)
      <3>1. /\ visit' \in [Provisioners -> SUBSET TaskNames]
            /\ progress' \in [Provisioners -> BOOLEAN]
        BY <2>2 DEF TInv, PassEnds, TasksTypeOK
      <3> QED
        BY <1>0, <2>2, <3>1 DEF TInv, PassEnds, Move, TasksTypeOK
    <2> QED
      BY <2>1, <2>2
  <1>2. Ordered'
    BY DEF TInv, Fail, PassEnds, Move, TasksTypeOK, Ordered, sshVars, callVars
  <1>3. Partitioned' /\ Stuck'
    BY DEF TInv, Fail, PassEnds, Move, TasksTypeOK, Partitioned, Stuck,
       Runnable
  <1> QED
    BY <1>1, <1>2, <1>3

\* The manager's own steps and the calls of others.
LEMMA TInvManager ==
  ASSUME TInv, ManagerStep \/ \E x \in Calls \ TaskCalls : Call(x),
         UNCHANGED taskVars
  PROVE  TasksTypeOK' /\ Ordered' /\ Partitioned' /\ Stuck'
  <1>0. TypeOK'
    BY InvNext DEF TInv, Inv, Next
  <1>1. \A p \in Provisioners, t \in TaskNames :
          /\ pc[Run(p, t)] = "idle" => pc'[Run(p, t)] = "idle"
          /\ pc[Run(p, t)] = "ok" => pc'[Run(p, t)] = "ok"
    <2> SUFFICES ASSUME NEW p \in Provisioners, NEW t \in TaskNames
                 PROVE  /\ pc[Run(p, t)] = "idle" => pc'[Run(p, t)] = "idle"
                        /\ pc[Run(p, t)] = "ok" => pc'[Run(p, t)] = "ok"
      OBVIOUS
    <2>1. Run(p, t) \in TaskCalls /\ Run(p, t) \in Calls
      BY OtherCalls
    <2>2. TypeOK
      BY DEF TInv, Inv
    <2> QED
      BY <2>1, <2>2, CallsKeep
  <1> QED
    BY <1>0, <1>1 DEF TInv, TasksTypeOK, Ordered, Partitioned, Stuck, Runnable,
       taskVars

-----------------------------------------------------------------------------
(* Tasks: theorems *)

LEMMA TInvInit == TasksInit => TInv
  <1> SUFFICES ASSUME TasksInit PROVE TInv
    OBVIOUS
  <1>1. Inv
    BY InvInit DEF TasksInit
  <1>2. \A p \in Provisioners, t \in TaskNames : pc[Run(p, t)] = "idle"
    BY OtherCalls DEF TasksInit, Init
  <1> QED
    BY <1>1, <1>2 DEF Inv, TInv, TasksInit, TasksTypeOK, Ordered, Partitioned,
       Stuck

LEMMA TInvNext == TInv /\ [TasksNext]_tasksVars => TInv'
  <1> SUFFICES ASSUME TInv, [TasksNext]_tasksVars PROVE TInv'
    OBVIOUS
  <1>1. CASE TasksNext
    <2>1. Inv'
      BY <1>1, StepsCall, InvNext DEF TInv
    <2> QED
      BY <1>1, <2>1, TInvBegin, TInvSkip, TInvExecute, TInvStart, TInvComplete,
         TInvEnds, TInvManager DEF TInv, TasksNext, ProvisionerStep
  <1>2. CASE UNCHANGED tasksVars
    <2>1. Inv'
      BY <1>2, InvNext DEF TInv, tasksVars
    <2> QED
      BY <1>2, <2>1 DEF Inv, TInv, TasksTypeOK, Ordered, Partitioned, Stuck,
         Runnable, tasksVars, taskVars, sshVars, callVars
  <1> QED
    BY <1>1, <1>2

\* The invariant of the manager together with its tasks.
THEOREM TasksInvariant == TasksSpec => []TInv
  BY TInvInit, TInvNext, PTL DEF TasksSpec

\* Every variable of manager and tasks keeps its type.
THEOREM TasksTypeCorrect == TasksSpec => []TasksTypeOK
  <1>1. TInv => TasksTypeOK
    BY DEF TInv
  <1> QED
    BY TasksInvariant, <1>1, PTL

\* No command of a task reaches the host before the tasks it depends on are done.
THEOREM DependenciesComeFirst == TasksSpec => []DependenciesFirst
  <1>1. TInv => DependenciesFirst
    <2> SUFFICES ASSUME TInv, NEW p \in Provisioners, NEW t \in TaskNames,
                        runs[Run(p, t)] > 0, NEW d \in deps[p][t]
                 PROVE  d \in TaskNames /\ pc[Run(p, d)] = "ok"
      BY DEF DependenciesFirst
    <2>1. Run(p, t) \in Calls
      BY OtherCalls
    <2>2. pc[Run(p, t)] # "idle"
      BY <2>1 DEF TInv, Inv, RunsAsReported
    <2>3. d \in completed[p]
      BY <2>2 DEF TInv, Ordered
    <2> QED
      BY <2>3 DEF TInv, TasksTypeOK, Ordered
  <1> QED
    BY TasksInvariant, <1>1, PTL

\* ExecuteTasks returns nil only if all was done, and complains of its input only
\* if no order would have got further.
THEOREM ReturnJustified == TasksSpec => []ReturnIsJustified
  <1>1. TInv => ReturnIsJustified
    <2> SUFFICES ASSUME TInv, NEW p \in Provisioners
                 PROVE  /\ at[p] = "done" =>
                             \A t \in TaskNames : pc[Run(p, t)] = "ok" /\
                                                  runs[Run(p, t)] = 1
                        /\ at[p] = "circular" =>
                             \A t \in remaining[p] : \E d \in deps[p][t] :
                               d \in remaining[p] \/ d \notin TaskNames
      BY DEF ReturnIsJustified
    <2>1. ASSUME at[p] = "done", NEW t \in TaskNames
          PROVE  pc[Run(p, t)] = "ok" /\ runs[Run(p, t)] = 1
      <3>1. Run(p, t) \in Calls
        BY OtherCalls
      <3>2. pc[Run(p, t)] = "ok"
        BY <2>1 DEF TInv, Partitioned, Ordered
      <3> QED
        BY <3>1, <3>2 DEF TInv, Inv, RunsAsReported
    <2>2. ASSUME at[p] = "circular", NEW t \in remaining[p]
          PROVE  \E d \in deps[p][t] : d \in remaining[p] \/ d \notin TaskNames
      BY <2>2 DEF TInv, Stuck, Partitioned, Runnable
    <2> QED
      BY <2>1, <2>2
  <1> QED
    BY TasksInvariant, <1>1, PTL

=============================================================================
