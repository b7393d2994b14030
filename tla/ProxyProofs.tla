---------------------------- MODULE ProxyProofs ----------------------------
(***************************************************************************)
(* The queue of the proxy loses no request, dispatches each at most once,  *)
(* stays within its limit and implements AdmissionQueue; no handler        *)
(* returns without an answer, no request is sent more than twice.          *)
(***************************************************************************)
EXTENDS Proxy, TLAPS

\* The handlers whose request the queue may know.
Enqueued == {"wait", "expired", "returned"}

\* A request that is not being routed has no forward; one that is has one.
Phases ==
  /\ \A r \in Requests : pc[r] \in {"idle", "unplaced"} => fwd[r] = "none"
  /\ \A r \in Requests : pc[r] = "forward" => fwd[r] # "none"

\* The queue holds a request once, after its handler enqueued it and before its
\* goroutine starts; the processor looks at its head.
Custody ==
  /\ \A i, j \in 1 .. Len(queue) : queue[i] = queue[j] => i = j
  /\ \A r \in Requests : InQueue(r) => pc[r] \in Enqueued /\ fwd[r] = "none"
  /\ procPc \in {"head", "chosen"} => queue # <<>> /\ Head(queue) = procReq

\* The first attempt is the handler's, the second and last the processor's.
Attempts ==
  \A r \in Requests :
    /\ pc[r] = "idle" => tries[r] = 0
    /\ tries[r] <= IF pc[r] \in Enqueued THEN 2 ELSE 1
    /\ fwd[r] = "none" => tries[r] <= 1
    /\ fwd[r] = "picked" => tries[r] <= IF pc[r] \in Enqueued THEN 1 ELSE 0

\* A forward that succeeded, or is about to, has written a header, unless the
\* handler had returned by then, which itself wrote one.
Answers ==
  \A r \in Requests :
    \/ response[r] # "none"
    \/ pc[r] # "returned" /\ fwd[r] \notin {"copying", "ok"}

Inv == TypeOK /\ Phases /\ Custody /\ NoLostWaiter /\ Attempts /\ Answers

-----------------------------------------------------------------------------
(* The two operations on the queue *)

LEMMA Appended ==
  ASSUME NEW q \in Seq(Requests), NEW x \in Requests,
         \A i \in 1 .. Len(q) : q[i] # x,
         \A i, j \in 1 .. Len(q) : q[i] = q[j] => i = j
  PROVE  LET a == Append(q, x)
         IN  /\ a \in Seq(Requests) /\ Len(a) = Len(q) + 1
             /\ q # <<>> => Head(a) = Head(q)
             /\ \A r \in Requests : (\E i \in 1 .. Len(a) : a[i] = r)
                                 <=> (\E i \in 1 .. Len(q) : q[i] = r) \/ r = x
             /\ \A i, j \in 1 .. Len(a) : a[i] = a[j] => i = j
  <1> DEFINE a == Append(q, x)
  <1>1. /\ a \in Seq(Requests) /\ Len(a) = Len(q) + 1 /\ Len(q) \in Nat
        /\ \A i \in 1 .. Len(a) : a[i] = IF i <= Len(q) THEN q[i] ELSE x
    OBVIOUS
  <1>2. q # <<>> => Head(a) = Head(q)
    OBVIOUS
  <1> HIDE DEF a
  <1>3. \A r \in Requests : (\E i \in 1 .. Len(a) : a[i] = r)
                          <=> (\E i \in 1 .. Len(q) : q[i] = r) \/ r = x
    BY <1>1
  <1>4. \A i, j \in 1 .. Len(a) : a[i] = a[j] => i = j
    BY <1>1
  <1> QED
    BY <1>1, <1>2, <1>3, <1>4 DEF a

LEMMA Popped ==
  ASSUME NEW q \in Seq(Requests), q # <<>>,
         \A i, j \in 1 .. Len(q) : q[i] = q[j] => i = j
  PROVE  LET t == Tail(q)
         IN  /\ t \in Seq(Requests) /\ Len(t) = Len(q) - 1
             /\ Head(q) \in Requests
             /\ \E i \in 1 .. Len(q) : q[i] = Head(q)
             /\ \A r \in Requests :
                  (\E i \in 1 .. Len(t) : t[i] = r)
                  <=> (\E i \in 1 .. Len(q) : q[i] = r) /\ r # Head(q)
             /\ \A i, j \in 1 .. Len(t) : t[i] = t[j] => i = j
  <1> DEFINE t == Tail(q)
  <1>1. /\ t \in Seq(Requests) /\ Len(q) \in Nat /\ Len(q) > 0
        /\ Len(t) = Len(q) - 1
        /\ Head(q) = q[1] /\ Head(q) \in Requests
        /\ \A i \in 1 .. Len(t) : t[i] = q[i + 1]
    OBVIOUS
  <1> HIDE DEF t
  <1>2. \A i, j \in 1 .. Len(t) : t[i] = t[j] => i = j
    BY <1>1
  <1>3. ASSUME NEW r \in Requests, NEW i \in 1 .. Len(t), t[i] = r
        PROVE  (\E j \in 1 .. Len(q) : q[j] = r) /\ r # Head(q)
    <2>1. i + 1 \in 1 .. Len(q) /\ q[i + 1] = r /\ i + 1 # 1
      BY <1>1, <1>3
    <2> QED
      BY <2>1, <1>1
  <1>4. ASSUME NEW r \in Requests, NEW i \in 1 .. Len(q), q[i] = r, r # Head(q)
        PROVE  \E j \in 1 .. Len(t) : t[j] = r
    <2>1. i - 1 \in 1 .. Len(t) /\ t[i - 1] = r
      BY <1>1, <1>4
    <2> QED
      BY <2>1
  <1> QED
    BY <1>1, <1>2, <1>3, <1>4 DEF t

\* What Enqueue and ProcPop do to the queue and the two requests they concern.
LEMMA EnqueueStep ==
  ASSUME Inv, NEW r \in Requests, Enqueue(r)
  PROVE  /\ \A x \in Requests : InQueue(x)' <=> InQueue(x) \/ x = r
         /\ \A i, j \in 1 .. Len(queue') : queue'[i] = queue'[j] => i = j
         /\ queue' \in Seq(Requests) /\ queue' = Append(queue, r)
         /\ queue # <<>> => Head(queue') = Head(queue)
         /\ queue' # <<>>
         /\ ~InQueue(r) /\ fwd[r] = "none"
  <1>1. ~InQueue(r) /\ fwd[r] = "none"
    BY DEF Inv, Custody, Phases, Enqueue, Goto, Enqueued
  <1>2. queue \in Seq(Requests) /\ queue' = Append(queue, r)
    BY DEF Inv, TypeOK, Enqueue
  <1>3. \A i, j \in 1 .. Len(queue) : queue[i] = queue[j] => i = j
    BY DEF Inv, Custody
  <1> QED
    BY <1>1, <1>2, <1>3, Appended DEF InQueue

LEMMA PopStep ==
  ASSUME Inv, ProcPop
  PROVE  /\ procReq \in Requests /\ queue # <<>> /\ procReq = Head(queue)
         /\ procServer \in Servers
         /\ InQueue(procReq) /\ pc[procReq] \in Enqueued /\ fwd[procReq] = "none"
         /\ queue' = Tail(queue) /\ queue' \in Seq(Requests)
         /\ \A x \in Requests : InQueue(x)' <=> InQueue(x) /\ x # procReq
         /\ \A i, j \in 1 .. Len(queue') : queue'[i] = queue'[j] => i = j
  <1>1. /\ procReq \in Requests /\ queue # <<>> /\ procReq = Head(queue)
        /\ procServer \in Servers /\ queue' = Tail(queue)
    BY DEF Inv, TypeOK, Custody, ProcPop, ProcGoto
  <1>2. queue \in Seq(Requests)
    BY DEF Inv, TypeOK
  <1>3. \A i, j \in 1 .. Len(queue) : queue[i] = queue[j] => i = j
    BY DEF Inv, Custody
  <1>4. InQueue(procReq)
    BY <1>1, <1>2, <1>3, Popped DEF InQueue
  <1>5. pc[procReq] \in Enqueued /\ fwd[procReq] = "none"
    BY <1>1, <1>4 DEF Inv, Custody
  <1> QED
    BY <1>1, <1>2, <1>3, <1>4, <1>5, Popped DEF InQueue

ArriveUnplaced(r) ==
  /\ pc[r] = "idle" /\ fwd[r] = "none" /\ tries[r] = 0
  /\ pc' = [pc EXCEPT ![r] = "unplaced"]
  /\ at' = [at EXCEPT ![r] = NoServer]
  /\ UNCHANGED <<fwd, tries, response, queue, procVars, poolVars, running,
                 healthVars, stopping, crashed>>

ArriveAt(r, s) ==
  /\ pc[r] = "idle" /\ fwd[r] = "none" /\ tries[r] = 0 /\ s \in Servers
  /\ pc' = [pc EXCEPT ![r] = "forward"]
  /\ fwd' = [fwd EXCEPT ![r] = "picked"]
  /\ at' = [at EXCEPT ![r] = s]
  /\ UNCHANGED <<tries, response, queue, procVars, poolVars, running,
                 healthVars, stopping, crashed>>

LEMMA ArriveStep ==
  ASSUME Inv, NEW r \in Requests, NEW s \in Servers \cup {NoServer}, Arrive(r,
        s)
  PROVE  ArriveUnplaced(r) \/ ArriveAt(r, s)
  <1>1. pc[r] = "idle"
    BY DEF Arrive, Goto
  <1>2. fwd[r] = "none" /\ tries[r] = 0
    BY <1>1 DEF Inv, Phases, Attempts
  <1>3. CASE s = NoServer
    BY <1>1, <1>2, <1>3 DEF Arrive, Goto, ArriveUnplaced
  <1>4. CASE s # NoServer
    BY <1>1, <1>2, <1>4 DEF Arrive, Goto, Fwd, ArriveAt
  <1> QED
    BY <1>3, <1>4

-----------------------------------------------------------------------------
(* The invariant is inductive: one lemma per part *)


LEMMA TypeStep ==
  ASSUME Inv, Next
  PROVE  TypeOK'
  <1>0. \A r \in Requests, s \in Servers \cup {NoServer} :
          Arrive(r, s) => ArriveUnplaced(r) \/ ArriveAt(r, s)
    BY ArriveStep
  <1> USE DEF Inv, TypeOK, HandlerPcs, UnderWay, FwdStates, ProcPcs, reqVars,
        procVars, poolVars, healthVars
  <1>1. ASSUME NEW r \in Requests, NEW s \in Servers \cup {NoServer},
        Arrive(r, s)
        PROVE  TypeOK'
    <2>1. CASE ArriveUnplaced(r)
      BY <2>1 DEF ArriveUnplaced
    <2>2. CASE ArriveAt(r, s)
      BY <2>2 DEF ArriveAt
    <2> QED
      BY <1>0, <1>1, <2>1, <2>2
  <1>2. ASSUME NEW r \in Requests, Forwarded(r) PROVE TypeOK'
    BY <1>2 DEF Forwarded, Goto, Fwd
  <1>3. ASSUME NEW r \in Requests, Unplaced(r) PROVE TypeOK'
    BY <1>3 DEF Unplaced, Goto, Fwd
  <1>4. ASSUME NEW r \in Requests, Enqueue(r) PROVE TypeOK'
    BY <1>4, EnqueueStep DEF Enqueue, Goto
  <1>5. ASSUME NEW r \in Requests, Reject(r) PROVE TypeOK'
    BY <1>5 DEF Reject, Goto, Written
  <1>6. ASSUME NEW r \in Requests, Wake(r) PROVE TypeOK'
    BY <1>6 DEF Wake, Goto, Written
  <1>7. ASSUME NEW r \in Requests, Expire(r) PROVE TypeOK'
    BY <1>7 DEF Expire, Goto, Fwd
  <1>8. ASSUME NEW r \in Requests, ExpireReturn(r) PROVE TypeOK'
    BY <1>8 DEF ExpireReturn, Goto, Written
  <1>9. ASSUME NEW r \in Requests, Track(r) PROVE TypeOK'
    BY <1>9 DEF Track, Goto, Fwd
  <1>10. ASSUME NEW r \in Requests, Answer(r) PROVE TypeOK'
    BY <1>10 DEF Answer, Goto, Fwd
  <1>11. ASSUME NEW r \in Requests, Fail(r) PROVE TypeOK'
    BY <1>11 DEF Fail, Goto, Fwd
  <1>12. ASSUME NEW r \in Requests, WriteHeader(r) PROVE TypeOK'
    BY <1>12 DEF WriteHeader, Fwd, Written
  <1>13. ASSUME NEW r \in Requests, Copied(r) PROVE TypeOK'
    BY <1>13 DEF Copied, Goto, Fwd
  <1>14. ASSUME NEW r \in Requests, LateWriteCrash(r) PROVE TypeOK'
    BY <1>14 DEF LateWriteCrash
  <1>15. CASE ProcTick
    BY <1>15 DEF ProcTick, ProcGoto
  <1>16. CASE ProcExit
    BY <1>16 DEF ProcExit, ProcGoto
  <1>17. CASE ProcEmpty
    BY <1>17 DEF ProcEmpty, ProcGoto
  <1>18. CASE ProcHead
    BY <1>18 DEF ProcHead, ProcGoto
  <1>19. CASE ProcPop
    BY <1>19, PopStep DEF ProcPop, ProcGoto
  <1>20. ASSUME NEW s \in Servers \cup {NoServer}, ProcSelect(s)
        PROVE  TypeOK'
    BY <1>20 DEF ProcSelect, ProcGoto, Choices, Candidates
  <1>21. ASSUME NEW s \in Servers, AddServer(s) \/ RemoveServer(s)
        PROVE  TypeOK'
    BY <1>21 DEF AddServer, RemoveServer
  <1>22. ASSUME NEW s \in Servers, NEW full \in CacheReadings, PollOk(s, full)
        PROVE  TypeOK'
    BY <1>22, ProxyAssumption DEF PollOk, ProxyAssumption
  <1>23. ASSUME NEW s \in Servers, PollFail(s) PROVE TypeOK'
    BY <1>23, ProxyAssumption DEF PollFail, ProxyAssumption
  <1>24. CASE Stop
    BY <1>24 DEF Stop
  <1> QED
    BY <1>1, <1>2, <1>3, <1>4, <1>5, <1>6, <1>7, <1>8, <1>9, <1>10, <1>11,
       <1>12, <1>13, <1>14, <1>15, <1>16, <1>17, <1>18, <1>19, <1>20, <1>21,
       <1>22, <1>23, <1>24
    DEF Next, HandlerStep, ForwardStep, Processor, Poller

LEMMA PhasesStep ==
  ASSUME Inv, Next
  PROVE  Phases'
  <1>0. \A r \in Requests, s \in Servers \cup {NoServer} :
          Arrive(r, s) => ArriveUnplaced(r) \/ ArriveAt(r, s)
    BY ArriveStep
  <1> USE DEF Inv, TypeOK, Phases, UnderWay, reqVars, procVars, poolVars,
        healthVars
  <1>1. ASSUME NEW r \in Requests, NEW s \in Servers \cup {NoServer},
        Arrive(r, s)
        PROVE  Phases'
    <2>1. CASE ArriveUnplaced(r)
      BY <2>1 DEF ArriveUnplaced
    <2>2. CASE ArriveAt(r, s)
      BY <2>2 DEF ArriveAt
    <2> QED
      BY <1>0, <1>1, <2>1, <2>2
  <1>2. ASSUME NEW r \in Requests, Forwarded(r) PROVE Phases'
    BY <1>2 DEF Forwarded, Goto, Fwd
  <1>3. ASSUME NEW r \in Requests, Unplaced(r) PROVE Phases'
    BY <1>3 DEF Unplaced, Goto, Fwd
  <1>4. ASSUME NEW r \in Requests, Enqueue(r) PROVE Phases'
    BY <1>4 DEF Enqueue, Goto, Fwd
  <1>5. ASSUME NEW r \in Requests, Reject(r) PROVE Phases'
    BY <1>5 DEF Reject, Goto, Fwd
  <1>6. ASSUME NEW r \in Requests, Wake(r) PROVE Phases'
    BY <1>6 DEF Wake, Goto, Fwd
  <1>7. ASSUME NEW r \in Requests, Expire(r) PROVE Phases'
    BY <1>7 DEF Expire, Goto, Fwd
  <1>8. ASSUME NEW r \in Requests, ExpireReturn(r) PROVE Phases'
    BY <1>8 DEF ExpireReturn, Goto, Fwd
  <1>9. ASSUME NEW r \in Requests, Track(r) PROVE Phases'
    BY <1>9 DEF Track, Goto, Fwd
  <1>10. ASSUME NEW r \in Requests, Answer(r) PROVE Phases'
    BY <1>10 DEF Answer, Goto, Fwd
  <1>11. ASSUME NEW r \in Requests, Fail(r) PROVE Phases'
    BY <1>11 DEF Fail, Goto, Fwd
  <1>12. ASSUME NEW r \in Requests, WriteHeader(r) PROVE Phases'
    BY <1>12 DEF WriteHeader, Goto, Fwd
  <1>13. ASSUME NEW r \in Requests, Copied(r) PROVE Phases'
    BY <1>13 DEF Copied, Goto, Fwd
  <1>14. ASSUME NEW r \in Requests, LateWriteCrash(r) PROVE Phases'
    BY <1>14 DEF LateWriteCrash
  <1>15. CASE ProcTick
    BY <1>15 DEF ProcTick, ProcGoto
  <1>16. CASE ProcExit
    BY <1>16 DEF ProcExit, ProcGoto
  <1>17. CASE ProcEmpty
    BY <1>17 DEF ProcEmpty, ProcGoto
  <1>18. CASE ProcHead
    BY <1>18 DEF ProcHead, ProcGoto
  <1>19. CASE ProcPop
    BY <1>19, PopStep DEF ProcPop, ProcGoto, Enqueued
  <1>20. ASSUME NEW s \in Servers \cup {NoServer}, ProcSelect(s)
        PROVE  Phases'
    BY <1>20 DEF ProcSelect, ProcGoto
  <1>21. ASSUME NEW s \in Servers, AddServer(s) \/ RemoveServer(s)
        PROVE  Phases'
    BY <1>21 DEF AddServer, RemoveServer
  <1>22. ASSUME NEW s \in Servers, NEW full \in CacheReadings, PollOk(s, full)
        PROVE  Phases'
    BY <1>22 DEF PollOk
  <1>23. ASSUME NEW s \in Servers, PollFail(s) PROVE Phases'
    BY <1>23 DEF PollFail
  <1>24. CASE Stop
    BY <1>24 DEF Stop
  <1> QED
    BY <1>1, <1>2, <1>3, <1>4, <1>5, <1>6, <1>7, <1>8, <1>9, <1>10, <1>11,
       <1>12, <1>13, <1>14, <1>15, <1>16, <1>17, <1>18, <1>19, <1>20, <1>21,
       <1>22, <1>23, <1>24
    DEF Next, HandlerStep, ForwardStep, Processor, Poller

LEMMA CustodyStep ==
  ASSUME Inv, Next
  PROVE  Custody'
  <1>0. \A r \in Requests, s \in Servers \cup {NoServer} :
          Arrive(r, s) => ArriveUnplaced(r) \/ ArriveAt(r, s)
    BY ArriveStep
  <1> USE DEF Inv, TypeOK, Phases, Custody, Enqueued, reqVars, procVars,
        poolVars, healthVars
  <1>1. ASSUME NEW r \in Requests, NEW s \in Servers \cup {NoServer},
        Arrive(r, s)
        PROVE  Custody'
    <2>1. CASE ArriveUnplaced(r)
      BY <2>1 DEF ArriveUnplaced, InQueue
    <2>2. CASE ArriveAt(r, s)
      BY <2>2 DEF ArriveAt, InQueue
    <2> QED
      BY <1>0, <1>1, <2>1, <2>2
  <1>2. ASSUME NEW r \in Requests, Forwarded(r) PROVE Custody'
    BY <1>2 DEF Forwarded, Goto, Fwd, InQueue
  <1>3. ASSUME NEW r \in Requests, Unplaced(r) PROVE Custody'
    BY <1>3 DEF Unplaced, Goto, Fwd, InQueue
  <1>4. ASSUME NEW r \in Requests, Enqueue(r) PROVE Custody'
    BY <1>4, EnqueueStep DEF Enqueue, Goto
  <1>5. ASSUME NEW r \in Requests, Reject(r) PROVE Custody'
    BY <1>5 DEF Reject, Goto, Fwd, InQueue
  <1>6. ASSUME NEW r \in Requests, Wake(r) PROVE Custody'
    BY <1>6 DEF Wake, Goto, Fwd, InQueue
  <1>7. ASSUME NEW r \in Requests, Expire(r) PROVE Custody'
    BY <1>7 DEF Expire, Goto, Fwd, InQueue
  <1>8. ASSUME NEW r \in Requests, ExpireReturn(r) PROVE Custody'
    BY <1>8 DEF ExpireReturn, Goto, Fwd, InQueue
  <1>9. ASSUME NEW r \in Requests, Track(r) PROVE Custody'
    BY <1>9 DEF Track, Goto, Fwd, InQueue
  <1>10. ASSUME NEW r \in Requests, Answer(r) PROVE Custody'
    BY <1>10 DEF Answer, Goto, Fwd, InQueue
  <1>11. ASSUME NEW r \in Requests, Fail(r) PROVE Custody'
    BY <1>11 DEF Fail, Goto, Fwd, InQueue
  <1>12. ASSUME NEW r \in Requests, WriteHeader(r) PROVE Custody'
    BY <1>12 DEF WriteHeader, Goto, Fwd, InQueue
  <1>13. ASSUME NEW r \in Requests, Copied(r) PROVE Custody'
    BY <1>13 DEF Copied, Goto, Fwd, InQueue
  <1>14. ASSUME NEW r \in Requests, LateWriteCrash(r) PROVE Custody'
    BY <1>14 DEF LateWriteCrash, InQueue
  <1>15. CASE ProcTick
    BY <1>15 DEF ProcTick, ProcGoto, InQueue
  <1>16. CASE ProcExit
    BY <1>16 DEF ProcExit, ProcGoto, InQueue
  <1>17. CASE ProcEmpty
    BY <1>17 DEF ProcEmpty, ProcGoto, InQueue
  <1>18. CASE ProcHead
    BY <1>18 DEF ProcHead, ProcGoto, InQueue
  <1>19. CASE ProcPop
    BY <1>19, PopStep DEF ProcPop, ProcGoto
  <1>20. ASSUME NEW s \in Servers \cup {NoServer}, ProcSelect(s)
        PROVE  Custody'
    BY <1>20 DEF ProcSelect, ProcGoto, InQueue
  <1>21. ASSUME NEW s \in Servers, AddServer(s) \/ RemoveServer(s)
        PROVE  Custody'
    BY <1>21 DEF AddServer, RemoveServer, InQueue
  <1>22. ASSUME NEW s \in Servers, NEW full \in CacheReadings, PollOk(s, full)
        PROVE  Custody'
    BY <1>22 DEF PollOk, InQueue
  <1>23. ASSUME NEW s \in Servers, PollFail(s) PROVE Custody'
    BY <1>23 DEF PollFail, InQueue
  <1>24. CASE Stop
    BY <1>24 DEF Stop, InQueue
  <1> QED
    BY <1>1, <1>2, <1>3, <1>4, <1>5, <1>6, <1>7, <1>8, <1>9, <1>10, <1>11,
       <1>12, <1>13, <1>14, <1>15, <1>16, <1>17, <1>18, <1>19, <1>20, <1>21,
       <1>22, <1>23, <1>24
    DEF Next, HandlerStep, ForwardStep, Processor, Poller

LEMMA WaiterStep ==
  ASSUME Inv, Next
  PROVE  NoLostWaiter'
  <1>0. \A r \in Requests, s \in Servers \cup {NoServer} :
          Arrive(r, s) => ArriveUnplaced(r) \/ ArriveAt(r, s)
    BY ArriveStep
  <1> USE DEF Inv, TypeOK, Phases, NoLostWaiter, Dispatched, Finished,
        UnderWay, reqVars, procVars, poolVars, healthVars
  <1>1. ASSUME NEW r \in Requests, NEW s \in Servers \cup {NoServer},
        Arrive(r, s)
        PROVE  NoLostWaiter'
    <2>1. CASE ArriveUnplaced(r)
      BY <2>1 DEF ArriveUnplaced, InQueue
    <2>2. CASE ArriveAt(r, s)
      BY <2>2 DEF ArriveAt, InQueue
    <2> QED
      BY <1>0, <1>1, <2>1, <2>2
  <1>2. ASSUME NEW r \in Requests, Forwarded(r) PROVE NoLostWaiter'
    BY <1>2 DEF Forwarded, Goto, Fwd, InQueue
  <1>3. ASSUME NEW r \in Requests, Unplaced(r) PROVE NoLostWaiter'
    BY <1>3 DEF Unplaced, Goto, Fwd, InQueue
  <1>4. ASSUME NEW r \in Requests, Enqueue(r) PROVE NoLostWaiter'
    BY <1>4, EnqueueStep DEF Enqueue, Goto
  <1>5. ASSUME NEW r \in Requests, Reject(r) PROVE NoLostWaiter'
    BY <1>5 DEF Reject, Goto, Fwd, InQueue
  <1>6. ASSUME NEW r \in Requests, Wake(r) PROVE NoLostWaiter'
    BY <1>6 DEF Wake, Goto, Fwd, InQueue
  <1>7. ASSUME NEW r \in Requests, Expire(r) PROVE NoLostWaiter'
    BY <1>7 DEF Expire, Goto, Fwd, InQueue
  <1>8. ASSUME NEW r \in Requests, ExpireReturn(r) PROVE NoLostWaiter'
    BY <1>8 DEF ExpireReturn, Goto, Fwd, InQueue
  <1>9. ASSUME NEW r \in Requests, Track(r) PROVE NoLostWaiter'
    BY <1>9 DEF Track, Goto, Fwd, InQueue
  <1>10. ASSUME NEW r \in Requests, Answer(r) PROVE NoLostWaiter'
    BY <1>10 DEF Answer, Goto, Fwd, InQueue
  <1>11. ASSUME NEW r \in Requests, Fail(r) PROVE NoLostWaiter'
    BY <1>11 DEF Fail, Goto, Fwd, InQueue
  <1>12. ASSUME NEW r \in Requests, WriteHeader(r) PROVE NoLostWaiter'
    BY <1>12 DEF WriteHeader, Goto, Fwd, InQueue
  <1>13. ASSUME NEW r \in Requests, Copied(r) PROVE NoLostWaiter'
    BY <1>13 DEF Copied, Goto, Fwd, InQueue
  <1>14. ASSUME NEW r \in Requests, LateWriteCrash(r) PROVE NoLostWaiter'
    BY <1>14 DEF LateWriteCrash, InQueue
  <1>15. CASE ProcTick
    BY <1>15 DEF ProcTick, ProcGoto, InQueue
  <1>16. CASE ProcExit
    BY <1>16 DEF ProcExit, ProcGoto, InQueue
  <1>17. CASE ProcEmpty
    BY <1>17 DEF ProcEmpty, ProcGoto, InQueue
  <1>18. CASE ProcHead
    BY <1>18 DEF ProcHead, ProcGoto, InQueue
  <1>19. CASE ProcPop
    BY <1>19, PopStep DEF ProcPop, ProcGoto, Enqueued
  <1>20. ASSUME NEW s \in Servers \cup {NoServer}, ProcSelect(s)
        PROVE  NoLostWaiter'
    BY <1>20 DEF ProcSelect, ProcGoto, InQueue
  <1>21. ASSUME NEW s \in Servers, AddServer(s) \/ RemoveServer(s)
        PROVE  NoLostWaiter'
    BY <1>21 DEF AddServer, RemoveServer, InQueue
  <1>22. ASSUME NEW s \in Servers, NEW full \in CacheReadings, PollOk(s, full)
        PROVE  NoLostWaiter'
    BY <1>22 DEF PollOk, InQueue
  <1>23. ASSUME NEW s \in Servers, PollFail(s) PROVE NoLostWaiter'
    BY <1>23 DEF PollFail, InQueue
  <1>24. CASE Stop
    BY <1>24 DEF Stop, InQueue
  <1> QED
    BY <1>1, <1>2, <1>3, <1>4, <1>5, <1>6, <1>7, <1>8, <1>9, <1>10, <1>11,
       <1>12, <1>13, <1>14, <1>15, <1>16, <1>17, <1>18, <1>19, <1>20, <1>21,
       <1>22, <1>23, <1>24
    DEF Next, HandlerStep, ForwardStep, Processor, Poller

LEMMA AttemptsStep ==
  ASSUME Inv, Next
  PROVE  Attempts'
  <1>0. \A r \in Requests, s \in Servers \cup {NoServer} :
          Arrive(r, s) => ArriveUnplaced(r) \/ ArriveAt(r, s)
    BY ArriveStep
  <1> USE DEF Inv, TypeOK, Phases, Attempts, Enqueued, reqVars, procVars,
        poolVars, healthVars
  <1>1. ASSUME NEW r \in Requests, NEW s \in Servers \cup {NoServer},
        Arrive(r, s)
        PROVE  Attempts'
    <2>1. CASE ArriveUnplaced(r)
      BY <2>1 DEF ArriveUnplaced
    <2>2. CASE ArriveAt(r, s)
      BY <2>2 DEF ArriveAt
    <2> QED
      BY <1>0, <1>1, <2>1, <2>2
  <1>2. ASSUME NEW r \in Requests, Forwarded(r) PROVE Attempts'
    BY <1>2 DEF Forwarded, Goto, Fwd
  <1>3. ASSUME NEW r \in Requests, Unplaced(r) PROVE Attempts'
    BY <1>3 DEF Unplaced, Goto, Fwd
  <1>4. ASSUME NEW r \in Requests, Enqueue(r) PROVE Attempts'
    BY <1>4 DEF Enqueue, Goto, Fwd
  <1>5. ASSUME NEW r \in Requests, Reject(r) PROVE Attempts'
    BY <1>5 DEF Reject, Goto, Fwd
  <1>6. ASSUME NEW r \in Requests, Wake(r) PROVE Attempts'
    BY <1>6 DEF Wake, Goto, Fwd
  <1>7. ASSUME NEW r \in Requests, Expire(r) PROVE Attempts'
    BY <1>7 DEF Expire, Goto, Fwd
  <1>8. ASSUME NEW r \in Requests, ExpireReturn(r) PROVE Attempts'
    BY <1>8 DEF ExpireReturn, Goto, Fwd
  <1>9. ASSUME NEW r \in Requests, Track(r) PROVE Attempts'
    BY <1>9 DEF Track, Goto, Fwd
  <1>10. ASSUME NEW r \in Requests, Answer(r) PROVE Attempts'
    BY <1>10 DEF Answer, Goto, Fwd
  <1>11. ASSUME NEW r \in Requests, Fail(r) PROVE Attempts'
    BY <1>11 DEF Fail, Goto, Fwd
  <1>12. ASSUME NEW r \in Requests, WriteHeader(r) PROVE Attempts'
    BY <1>12 DEF WriteHeader, Goto, Fwd
  <1>13. ASSUME NEW r \in Requests, Copied(r) PROVE Attempts'
    BY <1>13 DEF Copied, Goto, Fwd
  <1>14. ASSUME NEW r \in Requests, LateWriteCrash(r) PROVE Attempts'
    BY <1>14 DEF LateWriteCrash
  <1>15. CASE ProcTick
    BY <1>15 DEF ProcTick, ProcGoto
  <1>16. CASE ProcExit
    BY <1>16 DEF ProcExit, ProcGoto
  <1>17. CASE ProcEmpty
    BY <1>17 DEF ProcEmpty, ProcGoto
  <1>18. CASE ProcHead
    BY <1>18 DEF ProcHead, ProcGoto
  <1>19. CASE ProcPop
    BY <1>19, PopStep DEF ProcPop, ProcGoto
  <1>20. ASSUME NEW s \in Servers \cup {NoServer}, ProcSelect(s)
        PROVE  Attempts'
    BY <1>20 DEF ProcSelect, ProcGoto
  <1>21. ASSUME NEW s \in Servers, AddServer(s) \/ RemoveServer(s)
        PROVE  Attempts'
    BY <1>21 DEF AddServer, RemoveServer
  <1>22. ASSUME NEW s \in Servers, NEW full \in CacheReadings, PollOk(s, full)
        PROVE  Attempts'
    BY <1>22 DEF PollOk
  <1>23. ASSUME NEW s \in Servers, PollFail(s) PROVE Attempts'
    BY <1>23 DEF PollFail
  <1>24. CASE Stop
    BY <1>24 DEF Stop
  <1> QED
    BY <1>1, <1>2, <1>3, <1>4, <1>5, <1>6, <1>7, <1>8, <1>9, <1>10, <1>11,
       <1>12, <1>13, <1>14, <1>15, <1>16, <1>17, <1>18, <1>19, <1>20, <1>21,
       <1>22, <1>23, <1>24
    DEF Next, HandlerStep, ForwardStep, Processor, Poller

LEMMA AnswersStep ==
  ASSUME Inv, Next
  PROVE  Answers'
  <1>0. \A r \in Requests, s \in Servers \cup {NoServer} :
          Arrive(r, s) => ArriveUnplaced(r) \/ ArriveAt(r, s)
    BY ArriveStep
  <1> USE DEF Inv, TypeOK, Answers, Written, reqVars, procVars, poolVars,
        healthVars
  <1>1. ASSUME NEW r \in Requests, NEW s \in Servers \cup {NoServer},
        Arrive(r, s)
        PROVE  Answers'
    <2>1. CASE ArriveUnplaced(r)
      BY <2>1 DEF ArriveUnplaced
    <2>2. CASE ArriveAt(r, s)
      BY <2>2 DEF ArriveAt
    <2> QED
      BY <1>0, <1>1, <2>1, <2>2
  <1>2. ASSUME NEW r \in Requests, Forwarded(r) PROVE Answers'
    BY <1>2 DEF Forwarded, Goto, Fwd
  <1>3. ASSUME NEW r \in Requests, Unplaced(r) PROVE Answers'
    BY <1>3 DEF Unplaced, Goto, Fwd
  <1>4. ASSUME NEW r \in Requests, Enqueue(r) PROVE Answers'
    BY <1>4 DEF Enqueue, Goto, Fwd
  <1>5. ASSUME NEW r \in Requests, Reject(r) PROVE Answers'
    BY <1>5 DEF Reject, Goto, Fwd
  <1>6. ASSUME NEW r \in Requests, Wake(r) PROVE Answers'
    BY <1>6 DEF Wake, Goto, Fwd
  <1>7. ASSUME NEW r \in Requests, Expire(r) PROVE Answers'
    BY <1>7 DEF Expire, Goto, Fwd
  <1>8. ASSUME NEW r \in Requests, ExpireReturn(r) PROVE Answers'
    BY <1>8 DEF ExpireReturn, Goto, Fwd
  <1>9. ASSUME NEW r \in Requests, Track(r) PROVE Answers'
    BY <1>9 DEF Track, Goto, Fwd
  <1>10. ASSUME NEW r \in Requests, Answer(r) PROVE Answers'
    BY <1>10 DEF Answer, Goto, Fwd
  <1>11. ASSUME NEW r \in Requests, Fail(r) PROVE Answers'
    BY <1>11 DEF Fail, Goto, Fwd
  <1>12. ASSUME NEW r \in Requests, WriteHeader(r) PROVE Answers'
    BY <1>12 DEF WriteHeader, Goto, Fwd
  <1>13. ASSUME NEW r \in Requests, Copied(r) PROVE Answers'
    BY <1>13 DEF Copied, Goto, Fwd
  <1>14. ASSUME NEW r \in Requests, LateWriteCrash(r) PROVE Answers'
    BY <1>14 DEF LateWriteCrash
  <1>15. CASE ProcTick
    BY <1>15 DEF ProcTick, ProcGoto
  <1>16. CASE ProcExit
    BY <1>16 DEF ProcExit, ProcGoto
  <1>17. CASE ProcEmpty
    BY <1>17 DEF ProcEmpty, ProcGoto
  <1>18. CASE ProcHead
    BY <1>18 DEF ProcHead, ProcGoto
  <1>19. CASE ProcPop
    BY <1>19, PopStep DEF ProcPop, ProcGoto, Enqueued
  <1>20. ASSUME NEW s \in Servers \cup {NoServer}, ProcSelect(s)
        PROVE  Answers'
    BY <1>20 DEF ProcSelect, ProcGoto
  <1>21. ASSUME NEW s \in Servers, AddServer(s) \/ RemoveServer(s)
        PROVE  Answers'
    BY <1>21 DEF AddServer, RemoveServer
  <1>22. ASSUME NEW s \in Servers, NEW full \in CacheReadings, PollOk(s, full)
        PROVE  Answers'
    BY <1>22 DEF PollOk
  <1>23. ASSUME NEW s \in Servers, PollFail(s) PROVE Answers'
    BY <1>23 DEF PollFail
  <1>24. CASE Stop
    BY <1>24 DEF Stop
  <1> QED
    BY <1>1, <1>2, <1>3, <1>4, <1>5, <1>6, <1>7, <1>8, <1>9, <1>10, <1>11,
       <1>12, <1>13, <1>14, <1>15, <1>16, <1>17, <1>18, <1>19, <1>20, <1>21,
       <1>22, <1>23, <1>24
    DEF Next, HandlerStep, ForwardStep, Processor, Poller

-----------------------------------------------------------------------------
(* Theorems *)

LEMMA InvInit == Init => Inv
  <1> SUFFICES ASSUME Init PROVE Inv
    OBVIOUS
  <1> USE ProxyAssumption DEF ProxyAssumption, Init
  <1>1. TypeOK
    <2>1. /\ pc \in [Requests -> HandlerPcs]
          /\ fwd \in [Requests -> FwdStates]
          /\ at \in [Requests -> Servers \cup {NoServer}]
          /\ \A r \in Requests : fwd[r] \in {"picked",
                "sent"} => at[r] \in Servers
          /\ tries \in [Requests -> Nat]
          /\ response \in [Requests -> {"none", "server", "proxy"}]
      BY DEF HandlerPcs, FwdStates
    <2>2. queue \in Seq(Requests)
      OBVIOUS
    <2>3. /\ procPc \in ProcPcs
          /\ procReq \in Requests \cup {NoRequest}
          /\ procServer \in Servers \cup {NoServer}
          /\ procPc \in {"head", "chosen"} => procReq \in Requests
          /\ procPc = "chosen" => procServer \in Servers
      BY DEF ProcPcs
    <2>4. /\ pool \subseteq known /\ known \subseteq Servers
          /\ running \in [Servers -> SUBSET Requests]
      OBVIOUS
    <2>5. fails \in [Servers -> 0 .. UnhealthyThreshold]
      OBVIOUS
    <2>6. /\ healthy \in [Servers -> BOOLEAN]
          /\ cacheFull \in [Servers -> BOOLEAN]
      BY Zenon
    <2>7. stopping \in BOOLEAN /\ crashed \in BOOLEAN
      BY Zenon
    <2> QED
      BY <2>1, <2>2, <2>3, <2>4, <2>5, <2>6, <2>7 DEF TypeOK
  <1>2. Phases /\ Attempts /\ Answers
    BY DEF Phases, Attempts, Answers
  <1>3. Custody /\ NoLostWaiter
    BY DEF Custody, NoLostWaiter, InQueue
  <1> QED
    BY <1>1, <1>2, <1>3 DEF Inv

LEMMA InvNext == Inv /\ [Next]_vars => Inv'
  <1> SUFFICES ASSUME Inv, [Next]_vars PROVE Inv'
    OBVIOUS
  <1>1. CASE Next
    BY <1>1, TypeStep, PhasesStep, CustodyStep, WaiterStep, AttemptsStep,
       AnswersStep DEF Inv
  <1>2. CASE UNCHANGED vars
    <2> USE <1>2 DEF Inv, vars, reqVars, procVars, poolVars, healthVars
    <2>1. TypeOK'
      BY DEF TypeOK
    <2>2. Phases' /\ Attempts' /\ Answers'
      BY DEF Phases, Attempts, Answers
    <2>3. Custody' /\ NoLostWaiter'
      BY DEF Custody, NoLostWaiter, InQueue, Dispatched, Finished
    <2> QED
      BY <2>1, <2>2, <2>3
  <1> QED
    BY <1>1, <1>2

THEOREM Invariant == Spec => []Inv
  BY InvInit, InvNext, PTL DEF Spec

\* Types, and with them that no nil server is ever forwarded to.
THEOREM TypeCorrect == Spec => []TypeOK
  <1>1. Inv => TypeOK
    BY DEF Inv
  <1> QED
    BY Invariant, <1>1, PTL

\* A handler that waits for qr.done has its request in the queue, with a
\* goroutine, or finished.
THEOREM NoWaiterIsLost == Spec => []NoLostWaiter
  <1>1. Inv => NoLostWaiter
    BY DEF Inv
  <1> QED
    BY Invariant, <1>1, PTL

\* No handler returns without a status.
THEOREM EveryReturnAnswers == Spec => []NoSilentReturn
  <1>1. Inv => NoSilentReturn
    BY DEF Inv, Answers, NoSilentReturn
  <1> QED
    BY Invariant, <1>1, PTL

\* A request is sent once, and once more only from the queue.
THEOREM OneRetry == Spec => []AtMostOneRetry
  <1>1. Inv => AtMostOneRetry
    BY DEF Inv, Attempts, AtMostOneRetry, Enqueued
  <1> QED
    BY Invariant, <1>1, PTL

-----------------------------------------------------------------------------
(* The refinement *)

Service == {r \in Requests : Dispatched(r)}
Settled == {r \in Requests : Finished(r)}

\* Steps that move nothing between queue, goroutines and finished requests.
Frame == UNCHANGED <<queue, Service, Settled>>

LEMMA RefinesInit == Init => Q!QInit
  BY DEF Init, Q!QInit, Dispatched, Finished, UnderWay

\* A request leaves the goroutines by finishing, in Copied or Fail.
LEMMA ForwardRefines ==
  ASSUME Inv, NEW r \in Requests, ForwardStep(r)
  PROVE  Frame \/ Q!Settle(r)
  <1> USE DEF Inv, TypeOK, Frame, Service, Settled, Dispatched, Finished,
              UnderWay, Fwd
  <1>1. CASE Track(r)
    BY <1>1 DEF Track
  <1>2. CASE Answer(r)
    BY <1>2 DEF Answer
  <1>3. CASE WriteHeader(r)
    BY <1>3 DEF WriteHeader
  <1>4. CASE Fail(r) \/ Copied(r)
    <2>1. /\ UNCHANGED <<pc, queue>>
          /\ fwd[r] \in {"picked", "sent", "copying"}
          /\ fwd' = [fwd EXCEPT ![r] = "ok"] \/ fwd' = [fwd EXCEPT ![r] = "failed"]
      BY <1>4 DEF Fail, Copied
    <2>2. \A x \in Requests : x # r => fwd'[x] = fwd[x]
      BY <2>1
    <2>3. fwd'[r] \in {"ok", "failed"}
      BY <2>1
    <2>4. CASE pc[r] = "forward"
      BY <2>1, <2>2, <2>3, <2>4
    <2>5. CASE pc[r] # "forward"
      <3>1. Service' = Service \ {r} /\ r \in Service
        BY <2>1, <2>2, <2>3, <2>5
      <3>2. Settled' = Settled \cup {r}
        BY <2>1, <2>2, <2>3, <2>5
      <3> QED
        BY <2>1, <3>1, <3>2 DEF Q!Settle
    <2> QED
      BY <2>4, <2>5
  <1> QED
    BY <1>1, <1>2, <1>3, <1>4 DEF ForwardStep

LEMMA HandlerRefines ==
  ASSUME Inv, NEW r \in Requests, HandlerStep(r)
  PROVE  Frame \/ Q!Admit(r)
  <1>1. CASE Enqueue(r)
    <2>1. /\ ~InQueue(r) /\ fwd[r] = "none" /\ queue' = Append(queue, r)
      BY <1>1, EnqueueStep
    <2>2. /\ fwd' = fwd /\ pc[r] = "unplaced" /\ pc' = [pc EXCEPT ![r] = "wait"]
          /\ ~QueueFull
      BY <1>1 DEF Enqueue, Goto
    <2>3. Service' = Service /\ Settled' = Settled
      BY <2>1, <2>2
      DEF Inv, TypeOK, Service, Settled, Dispatched, Finished, UnderWay
    <2>4. r \notin Q!Waiting \cup Service \cup Settled
      BY <2>1 DEF Q!Waiting, InQueue, Service, Settled, Dispatched, Finished,
                  UnderWay
    <2>5. MaxQueueSize > 0 => Len(queue) < MaxQueueSize
      BY <2>2, ProxyAssumption DEF ProxyAssumption, QueueFull, Inv, TypeOK
    <2> QED
      BY <2>1, <2>3, <2>4, <2>5 DEF Q!Admit, Service, Settled
  <1>2. CASE ~Enqueue(r)
    <2> USE DEF Inv, TypeOK, Frame, Service, Settled, Dispatched, Finished,
                UnderWay, Goto, Fwd
    <2>1. CASE Forwarded(r) \/ Unplaced(r)
      BY <2>1 DEF Forwarded, Unplaced
    <2>2. CASE Reject(r)
      BY <2>2 DEF Reject
    <2>3. CASE Wake(r)
      BY <2>3 DEF Wake
    <2>4. CASE Expire(r) \/ ExpireReturn(r)
      BY <2>4 DEF Expire, ExpireReturn
    <2> QED
      BY <1>2, <2>1, <2>2, <2>3, <2>4 DEF HandlerStep
  <1> QED
    BY <1>1, <1>2

LEMMA PopRefines ==
  ASSUME Inv, ProcPop
  PROVE  Q!Take
  <1>1. /\ procReq \in Requests /\ queue # <<>> /\ procReq = Head(queue)
        /\ pc[procReq] \in Enqueued /\ fwd[procReq] = "none"
        /\ queue' = Tail(queue)
    BY PopStep
  <1>2. pc' = pc /\ fwd' = [fwd EXCEPT ![procReq] = "picked"]
    BY DEF ProcPop
  <1>3. Service' = Service \cup {procReq}
    BY <1>1, <1>2
    DEF Inv, TypeOK, Service, Dispatched, UnderWay, Enqueued
  <1>4. Settled' = Settled
    BY <1>1, <1>2 DEF Inv, TypeOK, Settled, Finished
  <1> QED
    BY <1>1, <1>3, <1>4 DEF Q!Take, Service, Settled

LEMMA RefinesNext ==
  ASSUME Inv, [Next]_vars
  PROVE  [Q!QNext]_(Q!qvars)
  <1>1. ASSUME NEW r \in Requests, NEW s \in Servers \cup {NoServer},
        Arrive(r, s)
        PROVE  Frame
    <2> USE DEF Inv, TypeOK, Frame, Service, Settled, Dispatched, Finished,
                UnderWay
    <2>1. CASE ArriveUnplaced(r)
      BY <2>1 DEF ArriveUnplaced
    <2>2. CASE ArriveAt(r, s)
      BY <2>2 DEF ArriveAt
    <2> QED
      BY <1>1, <2>1, <2>2, ArriveStep
  <1>2. ASSUME UNCHANGED <<reqVars, queue>> PROVE Frame
    BY <1>2 DEF reqVars, Frame, Service, Settled, Dispatched, Finished
  <1>3. ASSUME NEW r \in Requests, LateWriteCrash(r) PROVE Frame
    BY <1>2, <1>3 DEF LateWriteCrash
  <1>4. CASE Processor
    <2>1. CASE ProcPop
      BY <2>1, PopRefines DEF Q!QNext
    <2>2. CASE ~ProcPop
      <3>1. UNCHANGED <<reqVars, queue>>
        BY <1>4, <2>2 DEF Processor, ProcTick, ProcExit, ProcEmpty, ProcHead,
                          ProcSelect
      <3> QED
        BY <3>1, <1>2 DEF Frame, Q!qvars, Service, Settled
    <2> QED
      BY <2>1, <2>2
  <1>5. CASE \/ Poller \/ Stop \/ UNCHANGED vars
             \/ \E s \in Servers : AddServer(s) \/ RemoveServer(s)
    <2>1. UNCHANGED <<reqVars, queue>>
      BY <1>5 DEF Poller, PollOk, PollFail, Stop, AddServer, RemoveServer, vars
    <2> QED
      BY <2>1, <1>2 DEF Frame, Q!qvars, Service, Settled
  <1> QED
    BY <1>1, <1>3, <1>4, <1>5, HandlerRefines, ForwardRefines
    DEF Next, Frame, Service, Settled, Q!QNext, Q!qvars

\* The proxy's queue implements AdmissionQueue: first in first out, within its
\* limit, no request dispatched or finished twice.
THEOREM Refinement == Spec => ImplementsAdmissionQueue
  <1>1. Inv /\ [Next]_vars => [Q!QNext]_(Q!qvars)
    BY RefinesNext
  <1> QED
    BY RefinesInit, <1>1, Invariant, PTL DEF Spec, ImplementsAdmissionQueue,
       Q!QSpec

=============================================================================
