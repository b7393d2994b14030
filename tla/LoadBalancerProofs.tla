------------------------- MODULE LoadBalancerProofs -------------------------
(***************************************************************************)
(* Theorems about LoadBalancer, for every value of its constants: types,   *)
(* the custody of queued requests and the refinement of AdmissionQueue,    *)
(* answers, and what the operator reads of counters and running requests.  *)
(***************************************************************************)
EXTENDS LoadBalancer, FiniteSetTheorems, TLAPS

-----------------------------------------------------------------------------
(* Type correctness *)

\* The steps of the processor between popping a request and closing its
\* qr.done, and those in which it decides on the head with queueMu held.
Serving == {"forward", "requeue", "serve", "reply", "replying", "claimed",
            "copying", "finish", "crashed"}
Deciding == {"head", "selecting", "tryLocal"}

\* What TypeOK needs to be inductive: a variable that is empty at rest is not
\* empty where it is used.
Linked ==
  /\ \A r \in Requests : pc[r] = "forward" => target[r] \in Peers
  /\ procPc \in Serving \cup Deciding => procReq \in Requests
  /\ PopsItsHead
  /\ procPc \in Serving => procTarget \in Peers \cup {Self}
  /\ Admin \in writers => newStrategy \in Strategies

Typed == TypeOK /\ Linked

LEMMA TypeInit == Init => Typed
  <1> SUFFICES ASSUME Init PROVE Typed
    OBVIOUS
  <1> USE ConstAssumption DEF ConstAssumption, Init
  <1>1. /\ pc \in [Requests -> HandlerPcs]
        /\ target \in [Requests -> Peers \cup {NoPeer}]
        /\ response \in [Requests -> Responses]
        /\ gone \subseteq Requests /\ byPrompt \subseteq Requests
    BY DEF HandlerPcs, Codes, Responses
  <1>2. /\ queue \in Seq(Requests) /\ queueMu \in {"free", "held"}
        /\ done \subseteq Requests
        /\ procPc \in {"idle", "off"} /\ procPc \in ProcPcs
        /\ procReq \in Requests \cup {NoRequest}
        /\ procTarget \in Peers \cup {Self, NoPeer} /\ procCode \in Codes
    BY DEF ProcPcs, Codes
  <1>3. /\ readers \subseteq Requests \cup {Proc}
        /\ writers \subseteq Peers \cup {Admin}
        /\ running \subseteq Requests
        /\ cache \subseteq (Prompts \cup {UrlPath}) \X (Peers \cup {Self})
        /\ strategy \in Strategies /\ newStrategy \in Strategies \cup {"none"}
        /\ queueEnabled \in BOOLEAN /\ stopping \in BOOLEAN
    OBVIOUS
  <1>4. /\ metrics \in Metrics /\ peerStatus \in [Peers -> Status]
        /\ pollPc \in {"idle", "peers", "exited"} /\ polling \subseteq Peers
        /\ total \in [Counters -> Nat]
    BY DEF Metrics, Status, Counters
  <1>5. Linked
    BY <1>1, <1>2 DEF Linked, PopsItsHead, Serving, Deciding
  <1> QED
    BY <1>1, <1>2, <1>3, <1>4, <1>5 DEF Typed, TypeOK

LEMMA CountType ==
  ASSUME TypeOK, NEW S
  PROVE  Count(S) \in [Counters -> Nat]
  BY DEF Count, TypeOK

LEMMA HeaderType ==
  ASSUME TypeOK, NEW r \in Requests, NEW code \in Codes
  PROVE  WithHeader(r, code) \in [Requests -> Responses]
  BY DEF TypeOK, WithHeader, Codes, Responses

LEMMA BodyType ==
  ASSUME TypeOK, NEW r \in Requests
  PROVE  WithBody(r) \in [Requests -> Responses]
  <1>1. "2xx" \in Codes
    BY DEF Codes
  <1> QED
    BY <1>1, HeaderType DEF TypeOK, WithBody

LEMMA ClaimType ==
  ASSUME TypeOK, NEW r \in Requests
  PROVE  [response EXCEPT ![r].claimed = TRUE] \in [Requests -> Responses]
  BY DEF TypeOK, Responses

LEMMA KeyType ==
  ASSUME NEW r \in Requests
  PROVE  Key(r) \in Prompts \cup {UrlPath}
  BY ConstAssumption DEF ConstAssumption, Key

LEMMA StatusType ==
  ASSUME NEW old \in Status, NEW s \in PolledStatus(old)
  PROVE  s \in Status
  <1>1. CASE s = old
    BY <1>1
  <1>2. CASE s = [up |-> FALSE, total |-> 0]
    BY <1>2 DEF Status
  <1>3. CASE s \in {[up |-> TRUE, total |-> n] : n \in 0 .. (MaxLoad - 1)}
    <2>1. PICK n \in 0 .. (MaxLoad - 1) : s = [up |-> TRUE, total |-> n]
      BY <1>3
    <2>2. n \in Nat
      BY ConstAssumption DEF ConstAssumption
    <2> HIDE DEF Status
    <2>3. [up |-> TRUE, total |-> n] \in Status
      BY <2>2 DEF Status
    <2> QED
      BY <2>1, <2>3
  <1> QED
    BY <1>1, <1>2, <1>3 DEF PolledStatus

LEMMA TailType ==
  ASSUME TypeOK, queue # <<>>
  PROVE  Tail(queue) \in Seq(Requests)
  BY DEF TypeOK

\* What pollLocalMetrics stores is a metrics record: a set of running requests
\* has a natural number of members, and the backend runs BatchSize at most.
LEMMA MetricsType ==
  ASSUME TypeOK, PollLocal
  PROVE  metrics' \in Metrics
  <1> DEFINE n == Cardinality(running)
             lower == IF n < BatchSize THEN n ELSE BatchSize
             rest == IF n < BatchSize THEN 0 ELSE n - BatchSize
  <1>1. n \in Nat
    BY ConstAssumption, FS_Subset, FS_CardinalityType DEF ConstAssumption, TypeOK
  <1>2. lower \in Nat /\ rest \in Nat
    BY <1>1, ConstAssumption DEF ConstAssumption
  <1> HIDE DEF n, lower, rest
  <1>3. ASSUME NEW b \in BOOLEAN
        PROVE  [polled |-> TRUE, usable |-> ~b,
                running |-> lower, waiting |-> rest] \in Metrics
    BY <1>2 DEF Metrics
  <1>4. ASSUME NEW u \in {metrics.usable, FALSE}
        PROVE  [metrics EXCEPT !.polled = TRUE, !.usable = u] \in Metrics
    BY DEF TypeOK, Metrics
  <1> QED
    BY <1>3, <1>4 DEF PollLocal, lower, rest, n

LEMMA TypeNext == Typed /\ [Next]_vars => Typed'
  <1> SUFFICES ASSUME Typed, [Next]_vars PROVE Typed'
    OBVIOUS
  <1> USE ConstAssumption
      DEF ConstAssumption, TypeOK, respVars, procVars, queueVars, peerVars,
          pollVars, adminVars, treeVars
  <1>0. TypeOK /\ Linked
    BY DEF Typed
  <1>1. CASE UNCHANGED vars
    BY <1>0, <1>1 DEF vars, Typed, Linked, PopsItsHead
  <1>2. ASSUME NEW r \in Requests, AdmitLocally(r) PROVE Typed'
    <2>1. pc' \in [Requests -> HandlerPcs]
      BY <1>0, <1>2 DEF AdmitLocally, Goto, HandlerPcs
    <2>2. total' \in [Counters -> Nat]
      BY <1>0, <1>2, CountType DEF AdmitLocally
    <2>3. byPrompt' \subseteq Requests
      BY <1>0, <1>2 DEF AdmitLocally, KeyedNow
    <2>4. running' \subseteq Requests
      BY <1>0, <1>2 DEF AdmitLocally
    <2>5. TypeOK'
      BY <1>0, <1>2, <2>1, <2>2, <2>3, <2>4 DEF AdmitLocally
    <2>6. Linked'
      BY <1>0, <1>2 DEF AdmitLocally, Goto, Linked, PopsItsHead, Serving, Deciding
    <2> QED
      BY <2>5, <2>6 DEF Typed
  <1>3. ASSUME NEW r \in Requests, AtCapacity(r) PROVE Typed'
    <2>1. pc' \in [Requests -> HandlerPcs]
      BY <1>0, <1>3 DEF AtCapacity, QueueOrRefuse, Goto, HandlerPcs
    <2>2. total' \in [Counters -> Nat]
      BY <1>0, <1>3, CountType DEF AtCapacity
    <2>3. byPrompt' \subseteq Requests
      BY <1>0, <1>3 DEF AtCapacity, KeyedNow
    <2>4. TypeOK'
      BY <1>0, <1>3, <2>1, <2>2, <2>3 DEF AtCapacity
    <2>5. Linked'
      BY <1>0, <1>3 DEF AtCapacity, Goto, QueueOrRefuse, Linked, PopsItsHead, Serving, Deciding
    <2> QED
      BY <2>4, <2>5 DEF Typed
  <1>4. ASSUME NEW r \in Requests, Disconnect(r) PROVE Typed'
    <2>1. TypeOK'
      BY <1>0, <1>4 DEF Disconnect
    <2>2. Linked'
      BY <1>0, <1>4 DEF Disconnect, Linked, PopsItsHead, Serving, Deciding
    <2> QED
      BY <2>1, <2>2 DEF Typed
  <1>5. ASSUME NEW r \in Requests, NEW code \in {"2xx", "error"},
              LocalDone(r, code) PROVE Typed'
    <2>1. pc' \in [Requests -> HandlerPcs]
      BY <1>0, <1>5 DEF LocalDone, Goto, HandlerPcs
    <2>2. response' \in [Requests -> Responses]
      BY <1>0, <1>5, HeaderType DEF LocalDone, Codes
    <2>3. running' \subseteq Requests
      BY <1>0, <1>5 DEF LocalDone
    <2>4. cache' \subseteq (Prompts \cup {UrlPath}) \X (Peers \cup {Self})
      BY <1>0, <1>5, KeyType DEF LocalDone, Record, Linked
    <2>5. TypeOK'
      BY <1>0, <1>5, <2>1, <2>2, <2>3, <2>4 DEF LocalDone
    <2>6. Linked'
      BY <1>0, <1>5 DEF LocalDone, Goto, Linked, PopsItsHead, Serving, Deciding
    <2> QED
      BY <2>5, <2>6 DEF Typed
  <1>6. ASSUME NEW r \in Requests, NEW code \in {"2xx", "error"},
              ForwardOK(r, code) PROVE Typed'
    <2>1. pc' \in [Requests -> HandlerPcs]
      BY <1>0, <1>6 DEF ForwardOK, Goto, HandlerPcs
    <2>2. response' \in [Requests -> Responses]
      BY <1>0, <1>6, HeaderType DEF ForwardOK, Codes
    <2>3. total' \in [Counters -> Nat]
      BY <1>0, <1>6, CountType DEF ForwardOK
    <2>4. cache' \subseteq (Prompts \cup {UrlPath}) \X (Peers \cup {Self})
      BY <1>0, <1>6, KeyType DEF ForwardOK, Goto, Record, Linked
    <2>5. target' \in [Requests -> Peers \cup {NoPeer}]
      BY <1>0, <1>6 DEF ForwardOK
    <2>6. TypeOK'
      BY <1>0, <1>6, <2>1, <2>2, <2>3, <2>4, <2>5 DEF ForwardOK
    <2>7. Linked'
      BY <1>0, <1>6 DEF ForwardOK, Goto, Linked, PopsItsHead, Serving, Deciding
    <2> QED
      BY <2>6, <2>7 DEF Typed
  <1>7. ASSUME NEW r \in Requests, LocalBreak(r) PROVE Typed'
    <2>1. pc' \in [Requests -> HandlerPcs]
      BY <1>0, <1>7 DEF LocalBreak, Goto, HandlerPcs
    <2>2. response' \in [Requests -> Responses]
      BY <1>0, <1>7, HeaderType DEF LocalBreak, Codes
    <2>3. TypeOK'
      BY <1>0, <1>7, <2>1, <2>2 DEF LocalBreak
    <2>4. Linked'
      BY <1>0, <1>7 DEF LocalBreak, Goto, Linked, PopsItsHead, Serving, Deciding
    <2> QED
      BY <2>3, <2>4 DEF Typed
  <1>8. ASSUME NEW r \in Requests, SelectLock(r) PROVE Typed'
    <2>1. pc' \in [Requests -> HandlerPcs]
      BY <1>0, <1>8 DEF SelectLock, Goto, HandlerPcs
    <2>2. readers' \subseteq Requests \cup {Proc}
      BY <1>0, <1>8 DEF SelectLock
    <2>3. TypeOK'
      BY <1>0, <1>8, <2>1, <2>2 DEF SelectLock
    <2>4. Linked'
      BY <1>0, <1>8 DEF SelectLock, Goto, Linked, PopsItsHead, Serving, Deciding
    <2> QED
      BY <2>3, <2>4 DEF Typed
  <1>9. ASSUME NEW r \in Requests, NEW p \in Peers \cup {NoPeer},
              SelectPeer(r, p) PROVE Typed'
    <2>1. pc' \in [Requests -> HandlerPcs]
      BY <1>0, <1>9 DEF SelectPeer, QueueOrRefuse, Goto, HandlerPcs
    <2>2. target' \in [Requests -> Peers \cup {NoPeer}]
      BY <1>0, <1>9 DEF SelectPeer
    <2>3. readers' \subseteq Requests \cup {Proc}
      BY <1>0, <1>9 DEF SelectPeer
    <2>4. TypeOK'
      BY <1>0, <1>9, <2>1, <2>2, <2>3 DEF SelectPeer
    <2>5. Linked'
      BY <1>0, <1>9 DEF SelectPeer, Goto, QueueOrRefuse, Linked, PopsItsHead, Serving, Deciding
    <2> QED
      BY <2>4, <2>5 DEF Typed
  <1>10. ASSUME NEW r \in Requests, ForwardFail(r) PROVE Typed'
    <2>1. pc' \in [Requests -> HandlerPcs]
      BY <1>0, <1>10 DEF ForwardFail, QueueOrRefuse, Goto, HandlerPcs
    <2>2. target' \in [Requests -> Peers \cup {NoPeer}]
      BY <1>0, <1>10 DEF ForwardFail
    <2>3. TypeOK'
      BY <1>0, <1>10, <2>1, <2>2 DEF ForwardFail
    <2>4. Linked'
      BY <1>0, <1>10 DEF ForwardFail, Goto, QueueOrRefuse, Linked, PopsItsHead, Serving, Deciding
    <2> QED
      BY <2>3, <2>4 DEF Typed
  <1>11. ASSUME NEW r \in Requests, Enqueue(r) PROVE Typed'
    <2>1. pc' \in [Requests -> HandlerPcs]
      BY <1>0, <1>11 DEF Enqueue, Goto, HandlerPcs
    <2>2. queue' \in Seq(Requests)
      BY <1>0, <1>11 DEF Enqueue
    <2>3. TypeOK'
      BY <1>0, <1>11, <2>1, <2>2 DEF Enqueue
    <2>4. Linked'
      BY <1>0, <1>11 DEF Enqueue, Goto, Linked, PopsItsHead, Serving, Deciding
    <2> QED
      BY <2>3, <2>4 DEF Typed
  <1>12. ASSUME NEW r \in Requests, Reject(r) PROVE Typed'
    <2>1. pc' \in [Requests -> HandlerPcs]
      BY <1>0, <1>12 DEF Reject, Goto, HandlerPcs
    <2>2. total' \in [Counters -> Nat]
      BY <1>0, <1>12, CountType DEF Reject
    <2>3. response' \in [Requests -> Responses]
      BY <1>0, <1>12, HeaderType DEF Reject, Codes
    <2>4. TypeOK'
      BY <1>0, <1>12, <2>1, <2>2, <2>3 DEF Reject
    <2>5. Linked'
      BY <1>0, <1>12 DEF Reject, Goto, Linked, PopsItsHead, Serving, Deciding
    <2> QED
      BY <2>4, <2>5 DEF Typed
  <1>13. ASSUME NEW r \in Requests, Served(r) PROVE Typed'
    <2>1. pc' \in [Requests -> HandlerPcs]
      BY <1>0, <1>13 DEF Served, Goto, HandlerPcs
    <2>2. total' \in [Counters -> Nat]
      BY <1>0, <1>13, CountType DEF Served
    <2>3. TypeOK'
      BY <1>0, <1>13, <2>1, <2>2 DEF Served
    <2>4. Linked'
      BY <1>0, <1>13 DEF Served, Goto, Linked, PopsItsHead, Serving, Deciding
    <2> QED
      BY <2>3, <2>4 DEF Typed
  <1>14. ASSUME NEW r \in Requests, QueueTimeout(r) PROVE Typed'
    <2>1. TypeOK'
      BY <1>0, <1>14 DEF QueueTimeout, Goto, HandlerPcs
    <2>2. Linked'
      BY <1>0, <1>14 DEF QueueTimeout, Goto, Linked, PopsItsHead, Serving, Deciding
    <2> QED
      BY <2>1, <2>2 DEF Typed
  <1>15. ASSUME NEW r \in Requests, Cancelled(r) PROVE Typed'
    <2>1. TypeOK'
      BY <1>0, <1>15 DEF Cancelled, Goto, HandlerPcs
    <2>2. Linked'
      BY <1>0, <1>15 DEF Cancelled, Goto, Linked, PopsItsHead, Serving, Deciding
    <2> QED
      BY <2>1, <2>2 DEF Typed
  <1>16. ASSUME NEW r \in Requests, ExpireCheck(r) PROVE Typed'
    <2>1. TypeOK'
      BY <1>0, <1>16 DEF ExpireCheck, Goto, HandlerPcs
    <2>2. Linked'
      BY <1>0, <1>16 DEF ExpireCheck, Goto, Linked, PopsItsHead, Serving, Deciding
    <2> QED
      BY <2>1, <2>2 DEF Typed
  <1>16a. ASSUME NEW r \in Requests, ExpireClaim(r) PROVE Typed'
    <2>1. TypeOK'
      BY <1>0, <1>16a, ClaimType DEF ExpireClaim, Goto, HandlerPcs
    <2>2. Linked'
      BY <1>0, <1>16a DEF ExpireClaim, Goto, Linked, PopsItsHead, Serving, Deciding
    <2> QED
      BY <2>1, <2>2 DEF Typed
  <1>17. ASSUME NEW r \in Requests, ExpireWrite(r) PROVE Typed'
    <2>1. pc' \in [Requests -> HandlerPcs]
      BY <1>0, <1>17 DEF ExpireWrite, Goto, HandlerPcs
    <2>2. total' \in [Counters -> Nat]
      BY <1>0, <1>17, CountType DEF ExpireWrite
    <2>3. response' \in [Requests -> Responses]
      BY <1>0, <1>17, HeaderType, BodyType DEF ExpireWrite, Codes
    <2>4. TypeOK'
      BY <1>0, <1>17, <2>1, <2>2, <2>3 DEF ExpireWrite
    <2>5. Linked'
      BY <1>0, <1>17 DEF ExpireWrite, Goto, Linked, PopsItsHead, Serving, Deciding
    <2> QED
      BY <2>4, <2>5 DEF Typed
  <1>18. ASSUME ProcTick PROVE Typed'
    <2>1. TypeOK'
      BY <1>0, <1>18 DEF ProcTick, ProcPcs
    <2>2. Linked'
      BY <1>0, <1>18 DEF ProcTick, Linked, PopsItsHead, Serving, Deciding
    <2> QED
      BY <2>1, <2>2 DEF Typed
  <1>19. ASSUME ProcExit PROVE Typed'
    <2>1. TypeOK'
      BY <1>0, <1>19 DEF ProcExit, ProcPcs
    <2>2. Linked'
      BY <1>0, <1>19 DEF ProcExit, Linked, PopsItsHead, Serving, Deciding
    <2> QED
      BY <2>1, <2>2 DEF Typed
  <1>20. ASSUME ProcEmpty PROVE Typed'
    <2>1. TypeOK'
      BY <1>0, <1>20 DEF ProcEmpty, ProcPcs
    <2>2. Linked'
      BY <1>0, <1>20 DEF ProcEmpty, Linked, PopsItsHead, Serving, Deciding
    <2> QED
      BY <2>1, <2>2 DEF Typed
  <1>21. ASSUME ProcHead PROVE Typed'
    <2>1. procPc' \in ProcPcs
      BY <1>0, <1>21 DEF ProcHead, ProcPcs
    <2>2. procReq' \in Requests \cup {NoRequest}
      BY <1>0, <1>21 DEF ProcHead
    <2>3. queueMu' \in {"free", "held"}
      BY <1>0, <1>21 DEF ProcHead
    <2>4. byPrompt' \subseteq Requests
      BY <1>0, <1>21 DEF ProcHead, KeyedNow
    <2>5. TypeOK'
      BY <1>0, <1>21, <2>1, <2>2, <2>3, <2>4 DEF ProcHead
    <2>6. Linked'
      BY <1>0, <1>21 DEF ProcHead, Linked, PopsItsHead, Serving, Deciding
    <2> QED
      BY <2>5, <2>6 DEF Typed
  <1>22. ASSUME ProcSelectLock PROVE Typed'
    <2>1. procPc' \in ProcPcs
      BY <1>0, <1>22 DEF ProcSelectLock, ProcPcs
    <2>2. readers' \subseteq Requests \cup {Proc}
      BY <1>0, <1>22 DEF ProcSelectLock
    <2>3. TypeOK'
      BY <1>0, <1>22, <2>1, <2>2 DEF ProcSelectLock
    <2>4. Linked'
      BY <1>0, <1>22 DEF ProcSelectLock, Linked, PopsItsHead, Serving, Deciding
    <2> QED
      BY <2>3, <2>4 DEF Typed
  <1>23. ASSUME NEW p \in Peers \cup {NoPeer}, ProcSelectPeer(p) PROVE Typed'
    <2>1. procPc' \in ProcPcs
      BY <1>0, <1>23 DEF ProcSelectPeer, ProcPcs
    <2>2. procTarget' \in Peers \cup {Self, NoPeer}
      BY <1>0, <1>23 DEF ProcSelectPeer
    <2>3. queue' \in Seq(Requests)
      BY <1>0, <1>23, TailType DEF ProcSelectPeer, Linked, PopsItsHead, Deciding
    <2>4. queueMu' \in {"free", "held"}
      BY <1>0, <1>23 DEF ProcSelectPeer
    <2>5. readers' \subseteq Requests \cup {Proc}
      BY <1>0, <1>23 DEF ProcSelectPeer
    <2>6. TypeOK'
      BY <1>0, <1>23, <2>1, <2>2, <2>3, <2>4, <2>5 DEF ProcSelectPeer
    <2>7. Linked'
      BY <1>0, <1>23 DEF ProcSelectPeer, Linked, PopsItsHead, Serving, Deciding
    <2> QED
      BY <2>6, <2>7 DEF Typed
  <1>24. ASSUME ProcTryLocal PROVE Typed'
    <2>1. procPc' \in ProcPcs
      BY <1>0, <1>24 DEF ProcTryLocal, ProcPcs
    <2>2. procTarget' \in Peers \cup {Self, NoPeer}
      BY <1>0, <1>24 DEF ProcTryLocal
    <2>3. procReq' \in Requests \cup {NoRequest}
      BY <1>0, <1>24 DEF ProcTryLocal, Linked, Deciding
    <2>4. queue' \in Seq(Requests)
      BY <1>0, <1>24, TailType DEF ProcTryLocal, Linked, PopsItsHead, Deciding
    <2>5. queueMu' \in {"free", "held"}
      BY <1>0, <1>24 DEF ProcTryLocal
    <2>6. running' \subseteq Requests
      BY <1>0, <1>24 DEF ProcTryLocal, Linked, Deciding
    <2>7. TypeOK'
      BY <1>0, <1>24, <2>1, <2>2, <2>3, <2>4, <2>5, <2>6 DEF ProcTryLocal
    <2>8. Linked'
      BY <1>0, <1>24 DEF ProcTryLocal, Linked, PopsItsHead, Serving, Deciding
    <2> QED
      BY <2>7, <2>8 DEF Typed
  <1>25. ASSUME NEW code \in {"2xx", "error"}, ProcForwardOK(code) PROVE Typed'
    <2>1. procPc' \in ProcPcs
      BY <1>0, <1>25 DEF ProcForwardOK, ProcPcs
    <2>2. procCode' \in Codes
      BY <1>0, <1>25 DEF ProcForwardOK, Codes
    <2>3. TypeOK'
      BY <1>0, <1>25, <2>1, <2>2 DEF ProcForwardOK
    <2>4. Linked'
      BY <1>0, <1>25 DEF ProcForwardOK, Linked, PopsItsHead, Serving, Deciding
    <2> QED
      BY <2>3, <2>4 DEF Typed
  <1>26. ASSUME NEW code \in {"2xx", "error"}, ProcServe(code) PROVE Typed'
    <2>1. procPc' \in ProcPcs
      BY <1>0, <1>26 DEF ProcServe, ProcPcs
    <2>2. procCode' \in Codes
      BY <1>0, <1>26 DEF ProcServe, Codes
    <2>3. TypeOK'
      BY <1>0, <1>26, <2>1, <2>2 DEF ProcServe
    <2>4. Linked'
      BY <1>0, <1>26 DEF ProcServe, Linked, PopsItsHead, Serving, Deciding
    <2> QED
      BY <2>3, <2>4 DEF Typed
  <1>27. ASSUME ProcForwardFail PROVE Typed'
    <2>1. TypeOK'
      BY <1>0, <1>27 DEF ProcForwardFail, ProcPcs
    <2>2. Linked'
      BY <1>0, <1>27 DEF ProcForwardFail, Linked, PopsItsHead, Serving, Deciding
    <2> QED
      BY <2>1, <2>2 DEF Typed
  <1>28. ASSUME ProcRequeue PROVE Typed'
    <2>1. procPc' \in ProcPcs
      BY <1>0, <1>28 DEF ProcRequeue, ProcPcs
    <2>2. procTarget' \in Peers \cup {Self, NoPeer}
      BY <1>0, <1>28 DEF ProcRequeue
    <2>3. procReq' \in Requests \cup {NoRequest}
      BY <1>0, <1>28 DEF ProcRequeue
    <2>4. queue' \in Seq(Requests)
      BY <1>0, <1>28 DEF ProcRequeue, Linked, Serving
    <2>5. TypeOK'
      BY <1>0, <1>28, <2>1, <2>2, <2>3, <2>4 DEF ProcRequeue
    <2>6. Linked'
      BY <1>0, <1>28 DEF ProcRequeue, Linked, PopsItsHead, Serving, Deciding
    <2> QED
      BY <2>5, <2>6 DEF Typed
  <1>29. ASSUME ProcBreak PROVE Typed'
    <2>1. TypeOK'
      BY <1>0, <1>29 DEF ProcBreak, ProcPcs
    <2>2. Linked'
      BY <1>0, <1>29 DEF ProcBreak, Linked, PopsItsHead, Serving, Deciding
    <2> QED
      BY <2>1, <2>2 DEF Typed
  <1>30. ASSUME ProcReplyCheck PROVE Typed'
    <2>1. TypeOK'
      BY <1>0, <1>30 DEF ProcReplyCheck, ProcPcs
    <2>2. Linked'
      BY <1>0, <1>30 DEF ProcReplyCheck, Linked, PopsItsHead, Serving, Deciding
    <2> QED
      BY <2>1, <2>2 DEF Typed
  <1>30a. ASSUME ProcReplyClaim PROVE Typed'
    <2>1. response' \in [Requests -> Responses]
      BY <1>0, <1>30a, ClaimType DEF ProcReplyClaim, Linked, Serving
    <2>2. TypeOK'
      BY <1>0, <1>30a, <2>1 DEF ProcReplyClaim, ProcPcs
    <2>3. Linked'
      BY <1>0, <1>30a DEF ProcReplyClaim, Linked, PopsItsHead, Serving, Deciding
    <2> QED
      BY <2>2, <2>3 DEF Typed
  <1>31. ASSUME ProcReplyWrite PROVE Typed'
    <2>1. procPc' \in ProcPcs
      BY <1>0, <1>31 DEF ProcReplyWrite, ProcPcs
    <2>2. response' \in [Requests -> Responses]
      BY <1>0, <1>31, HeaderType, BodyType DEF ProcReplyWrite, Codes, Linked, Serving
    <2>3. TypeOK'
      BY <1>0, <1>31, <2>1, <2>2 DEF ProcReplyWrite
    <2>4. Linked'
      BY <1>0, <1>31 DEF ProcReplyWrite, Linked, PopsItsHead, Serving, Deciding
    <2> QED
      BY <2>3, <2>4 DEF Typed
  <1>32. ASSUME ProcFinish PROVE Typed'
    <2>1. procPc' \in ProcPcs
      BY <1>0, <1>32 DEF ProcFinish, ProcPcs
    <2>2. procTarget' \in Peers \cup {Self, NoPeer}
      BY <1>0, <1>32 DEF ProcFinish
    <2>3. procReq' \in Requests \cup {NoRequest}
      BY <1>0, <1>32 DEF ProcFinish
    <2>4. procCode' \in Codes
      BY <1>0, <1>32 DEF ProcFinish, Codes
    <2>5. running' \subseteq Requests
      BY <1>0, <1>32 DEF ProcFinish
    <2>6. cache' \subseteq (Prompts \cup {UrlPath}) \X (Peers \cup {Self})
      BY <1>0, <1>32, KeyType DEF ProcFinish, Record, Linked, Serving
    <2>7. done' \subseteq Requests
      BY <1>0, <1>32 DEF ProcFinish, Linked, Serving
    <2>8. TypeOK'
      BY <1>0, <1>32, <2>1, <2>2, <2>3, <2>4, <2>5, <2>6, <2>7 DEF ProcFinish
    <2>9. Linked'
      BY <1>0, <1>32 DEF ProcFinish, Linked, PopsItsHead, Serving, Deciding
    <2> QED
      BY <2>8, <2>9 DEF Typed
  <1>33. ASSUME PollLocal PROVE Typed'
    <2>1. metrics' \in Metrics
      BY <1>0, <1>33, MetricsType DEF PollLocal
    <2>2. pollPc' \in {"idle", "peers", "exited"} /\ polling' \subseteq Peers
      BY <1>0, <1>33 DEF PollLocal
    <2>3. TypeOK'
      BY <1>0, <1>33, <2>1, <2>2 DEF PollLocal
    <2>4. Linked'
      BY <1>0, <1>33 DEF PollLocal, Linked, PopsItsHead, Serving, Deciding
    <2> QED
      BY <2>3, <2>4 DEF Typed
  <1>34. ASSUME PollRoundDone PROVE Typed'
    <2>1. TypeOK'
      BY <1>0, <1>34 DEF PollRoundDone
    <2>2. Linked'
      BY <1>0, <1>34 DEF PollRoundDone, Linked, PopsItsHead, Serving, Deciding
    <2> QED
      BY <2>1, <2>2 DEF Typed
  <1>35. ASSUME PollExit PROVE Typed'
    <2>1. TypeOK'
      BY <1>0, <1>35 DEF PollExit
    <2>2. Linked'
      BY <1>0, <1>35 DEF PollExit, Linked, PopsItsHead, Serving, Deciding
    <2> QED
      BY <2>1, <2>2 DEF Typed
  <1>36. ASSUME NEW p \in Peers, PollPeerLock(p) PROVE Typed'
    <2>1. TypeOK'
      BY <1>0, <1>36 DEF PollPeerLock
    <2>2. Linked'
      BY <1>0, <1>36 DEF PollPeerLock, Linked, PopsItsHead, Serving, Deciding
    <2> QED
      BY <2>1, <2>2 DEF Typed
  <1>37. ASSUME NEW p \in Peers, NEW s \in PolledStatus(peerStatus[p]),
              PollPeerStore(p, s) PROVE Typed'
    <2>1. peerStatus' \in [Peers -> Status]
      BY <1>0, <1>37, StatusType DEF PollPeerStore
    <2>2. writers' \subseteq Peers \cup {Admin}
      BY <1>0, <1>37 DEF PollPeerStore
    <2>3. pollPc' \in {"idle", "peers", "exited"} /\ polling' \subseteq Peers
      BY <1>0, <1>37 DEF PollPeerStore
    <2>4. TypeOK'
      BY <1>0, <1>37, <2>1, <2>2, <2>3 DEF PollPeerStore
    <2>5. Linked'
      BY <1>0, <1>37 DEF PollPeerStore, Linked, PopsItsHead, Serving, Deciding
    <2> QED
      BY <2>4, <2>5 DEF Typed
  <1>38. ASSUME NEW s \in NewStrategies, SetStrategy(s) PROVE Typed'
    <2>1. strategy' \in Strategies /\ newStrategy' \in Strategies \cup {"none"}
      BY <1>0, <1>38 DEF SetStrategy, Linked, Strategies
    <2>2. writers' \subseteq Peers \cup {Admin}
      BY <1>0, <1>38 DEF SetStrategy
    <2>3. TypeOK'
      BY <1>0, <1>38, <2>1, <2>2 DEF SetStrategy
    <2>4. Linked'
      BY <1>0, <1>38 DEF SetStrategy, Linked, PopsItsHead, Serving, Deciding
    <2> QED
      BY <2>3, <2>4 DEF Typed
  <1>39. ASSUME StoreStrategy PROVE Typed'
    <2>1. strategy' \in Strategies /\ newStrategy' \in Strategies \cup {"none"}
      BY <1>0, <1>39 DEF StoreStrategy, Linked, Strategies
    <2>2. writers' \subseteq Peers \cup {Admin}
      BY <1>0, <1>39 DEF StoreStrategy
    <2>3. cache' \subseteq (Prompts \cup {UrlPath}) \X (Peers \cup {Self})
      BY <1>0, <1>39 DEF StoreStrategy
    <2>4. TypeOK'
      BY <1>0, <1>39, <2>1, <2>2, <2>3 DEF StoreStrategy
    <2>5. Linked'
      BY <1>0, <1>39 DEF StoreStrategy, Linked, PopsItsHead, Serving, Deciding
    <2> QED
      BY <2>4, <2>5 DEF Typed
  <1>40. ASSUME NEW b \in QueueSettings, SetQueueEnabled(b) PROVE Typed'
    <2>1. TypeOK'
      BY <1>0, <1>40 DEF SetQueueEnabled
    <2>2. Linked'
      BY <1>0, <1>40 DEF SetQueueEnabled, Linked, PopsItsHead, Serving, Deciding
    <2> QED
      BY <2>1, <2>2 DEF Typed
  <1>41. ASSUME ClearCache PROVE Typed'
    <2>1. TypeOK'
      BY <1>0, <1>41, KeyType DEF ClearCache, Record, Linked
    <2>2. Linked'
      BY <1>0, <1>41 DEF ClearCache, Linked, PopsItsHead, Serving, Deciding
    <2> QED
      BY <2>1, <2>2 DEF Typed
  <1>42. ASSUME Stop PROVE Typed'
    <2>1. TypeOK'
      BY <1>0, <1>42 DEF Stop
    <2>2. Linked'
      BY <1>0, <1>42 DEF Stop, Linked, PopsItsHead, Serving, Deciding
    <2> QED
      BY <2>1, <2>2 DEF Typed
  <1>50. ASSUME NEW r \in Requests, HandlerStep(r) PROVE Typed'
    BY <1>50, <1>5, <1>6, <1>7, <1>8, <1>9, <1>10, <1>11, <1>12, <1>13, <1>14,
       <1>15, <1>16, <1>16a, <1>17
    DEF HandlerStep
  <1>51. ASSUME Processor PROVE Typed'
    BY <1>51, <1>18, <1>19, <1>20, <1>21, <1>22, <1>23, <1>24, <1>25, <1>26, <1>27,
       <1>28, <1>29, <1>30, <1>30a, <1>31, <1>32
    DEF Processor
  <1>52. ASSUME Poller PROVE Typed'
    BY <1>52, <1>33, <1>34, <1>35, <1>36, <1>37 DEF Poller, PollPeer
  <1>53. ASSUME Operator PROVE Typed'
    BY <1>53, <1>38, <1>39, <1>40, <1>41, <1>42 DEF Operator
  <1> QED
    BY <1>1, <1>50, <1>51, <1>52, <1>53, <1>2, <1>3, <1>4 DEF Next, Arrive

\* Every variable keeps its type: no handler, processor or poller step stores
\* anything the Go types would not admit.
THEOREM TypeCorrect == Spec => []TypeOK
  <1>1. Typed => TypeOK
    BY DEF Typed
  <1> QED
    BY TypeInit, TypeNext, <1>1, PTL DEF Spec

-----------------------------------------------------------------------------
(* The queue neither loses nor duplicates a request, stays within one      *)
(* request of its limit, and implements AdmissionQueue.                    *)

\* A handler past its enqueue: the only ones whose request the queue knows.
Enqueued == {"wait", "expired", "writing", "claimed", "body", "returned"}

NoDuplicates == \A i, j \in 1 .. Len(queue) : queue[i] = queue[j] => i = j

\* A request the queue knows has been enqueued; the processor, when it serves a
\* request, owes the queue the place that request had.
Capacity ==
  MaxQueueSize > 0 =>
    Len(queue) <= MaxQueueSize + (IF procPc \in Serving THEN 0 ELSE 1)

Known(r) == InQueue(r) \/ Held(r) \/ r \in done

Custody ==
  /\ Typed
  /\ SingleCustody
  /\ \A r \in Requests : Known(r) => pc[r] \in Enqueued
  /\ NoLostWaiter
  /\ Capacity

-----------------------------------------------------------------------------
(* The two operations on the queue *)

LEMMA HeadInQueue ==
  ASSUME Typed, queue # <<>>
  PROVE  Head(queue) \in Requests /\ InQueue(Head(queue)) /\ Len(queue) > 0
  BY DEF Typed, TypeOK, InQueue

LEMMA Appended ==
  ASSUME Typed, NEW x \in Requests, ~InQueue(x), NoDuplicates,
         queue' = Append(queue, x)
  PROVE  /\ \A r \in Requests : InQueue(r)' <=> InQueue(r) \/ r = x
         /\ NoDuplicates'
         /\ Len(queue') = Len(queue) + 1
  <1>1. queue \in Seq(Requests)
    BY DEF Typed, TypeOK
  <1>2. /\ Len(queue') = Len(queue) + 1
        /\ \A i \in 1 .. Len(queue') :
             queue'[i] = IF i <= Len(queue) THEN queue[i] ELSE x
    BY <1>1
  <1>3. Len(queue) \in Nat
    BY <1>1
  <1>4. \A r \in Requests : InQueue(r)' <=> InQueue(r) \/ r = x
    BY <1>2, <1>3 DEF InQueue
  <1>5. NoDuplicates'
    BY <1>2, <1>3 DEF NoDuplicates, InQueue
  <1> QED
    BY <1>2, <1>4, <1>5

LEMMA Popped ==
  ASSUME Typed, queue # <<>>, NoDuplicates, queue' = Tail(queue)
  PROVE  /\ \A r \in Requests : InQueue(r)' <=> InQueue(r) /\ r # Head(queue)
         /\ NoDuplicates'
         /\ Len(queue') = Len(queue) - 1
  <1>1. queue \in Seq(Requests)
    BY DEF Typed, TypeOK
  <1>2. /\ Len(queue) \in Nat /\ Len(queue) > 0 /\ Head(queue) = queue[1]
        /\ Len(queue') = Len(queue) - 1
        /\ \A i \in 1 .. Len(queue') : queue'[i] = queue[i + 1]
    BY <1>1
  <1>3. NoDuplicates'
    BY <1>2 DEF NoDuplicates
  <1>4. ASSUME NEW r \in Requests, InQueue(r)'
        PROVE  InQueue(r) /\ r # Head(queue)
    <2>1. PICK i \in 1 .. Len(queue') : queue'[i] = r
      BY <1>4 DEF InQueue
    <2>2. i + 1 \in 1 .. Len(queue) /\ queue[i + 1] = r /\ i + 1 # 1
      BY <2>1, <1>2
    <2> QED
      BY <2>2, <1>2 DEF InQueue, NoDuplicates
  <1>5. ASSUME NEW r \in Requests, InQueue(r), r # Head(queue)
        PROVE  InQueue(r)'
    <2>1. PICK i \in 1 .. Len(queue) : queue[i] = r
      BY <1>5 DEF InQueue
    <2>2. i - 1 \in 1 .. Len(queue') /\ queue'[i - 1] = r
      BY <2>1, <1>2, <1>5
    <2> QED
      BY <2>2 DEF InQueue
  <1> QED
    BY <1>2, <1>3, <1>4, <1>5

-----------------------------------------------------------------------------
(* Every step leaves the queue and what is in service alone, or is one of  *)
(* the four operations on them                                             *)

\* A handler that is enqueued stays so, and none starts to wait.
Frame ==
  /\ UNCHANGED <<queue, done>>
  /\ \A r \in Requests : Held(r)' <=> Held(r)
  /\ (procPc \in Serving)' <=> procPc \in Serving
  /\ \A r \in Requests : /\ pc[r] \in Enqueued => pc'[r] \in Enqueued
                         /\ pc'[r] = "wait" => pc[r] = "wait"

\* The processor pops the head, which it found a place for.
PopHead ==
  /\ procPc \in Deciding /\ procPc' \in Serving
  /\ queue # <<>> /\ procReq = Head(queue) /\ procReq' = procReq
  /\ queue' = Tail(queue)
  /\ UNCHANGED <<pc, done>>

LEMMA HandlerFrame ==
  ASSUME Typed, NEW r \in Requests, Arrive(r) \/ HandlerStep(r) \/ Disconnect(r)
  PROVE  Frame \/ Enqueue(r)
  <1> USE DEF Typed, TypeOK, Frame, Held, Enqueued, Goto, procVars, queueVars
  <1>1. CASE AdmitLocally(r)
    BY <1>1 DEF AdmitLocally
  <1>2. CASE AtCapacity(r)
    BY <1>2 DEF AtCapacity, QueueOrRefuse
  <1>3. ASSUME NEW code, LocalDone(r, code) PROVE Frame
    BY <1>3 DEF LocalDone
  <1>4. ASSUME NEW code, ForwardOK(r, code) PROVE Frame
    BY <1>4 DEF ForwardOK
  <1>5. CASE LocalBreak(r)
    BY <1>5 DEF LocalBreak
  <1>6. CASE SelectLock(r)
    BY <1>6 DEF SelectLock
  <1>7. ASSUME NEW p, SelectPeer(r, p) PROVE Frame
    BY <1>7 DEF SelectPeer, QueueOrRefuse
  <1>8. CASE ForwardFail(r)
    BY <1>8 DEF ForwardFail, QueueOrRefuse
  <1>9. CASE Reject(r)
    BY <1>9 DEF Reject
  <1>10. CASE Served(r) \/ QueueTimeout(r) \/ Cancelled(r)
    BY <1>10 DEF Served, QueueTimeout, Cancelled
  <1>11. CASE ExpireCheck(r) \/ ExpireClaim(r)
    BY <1>11 DEF ExpireCheck, ExpireClaim
  <1>12. CASE ExpireWrite(r)
    BY <1>12 DEF ExpireWrite
  <1>13. CASE Disconnect(r)
    BY <1>13 DEF Disconnect
  <1> QED
    BY <1>1, <1>2, <1>3, <1>4, <1>5, <1>6, <1>7, <1>8, <1>9, <1>10, <1>11,
       <1>12, <1>13
    DEF Arrive, HandlerStep

LEMMA ProcessorFrame ==
  ASSUME Typed, Processor
  PROVE  Frame \/ PopHead \/ ProcRequeue \/ ProcFinish
  <1> USE DEF Typed, Linked, PopsItsHead, TypeOK, Frame, Held, Serving, Deciding
  <1>1. CASE ProcTick \/ ProcExit \/ ProcEmpty
    BY <1>1 DEF ProcTick, ProcExit, ProcEmpty, queueVars
  <1>2. CASE ProcHead
    BY <1>2 DEF ProcHead
  <1>3. CASE ProcSelectLock
    BY <1>3 DEF ProcSelectLock, queueVars
  <1>4. ASSUME NEW p, ProcSelectPeer(p) PROVE Frame \/ PopHead
    BY <1>4 DEF ProcSelectPeer, PopHead
  <1>5. CASE ProcTryLocal
    BY <1>5 DEF ProcTryLocal, PopHead
  <1>6. ASSUME NEW code, ProcForwardOK(code) \/ ProcServe(code) PROVE Frame
    BY <1>6 DEF ProcForwardOK, ProcServe, queueVars
  <1>7. CASE ProcForwardFail \/ ProcBreak
    BY <1>7 DEF ProcForwardFail, ProcBreak, queueVars
  <1>8. CASE ProcReplyCheck \/ ProcReplyClaim \/ ProcReplyWrite
    BY <1>8 DEF ProcReplyCheck, ProcReplyClaim, ProcReplyWrite, queueVars
  <1> QED
    BY <1>1, <1>2, <1>3, <1>4, <1>5, <1>6, <1>7, <1>8 DEF Processor

LEMMA OtherFrame ==
  ASSUME Poller \/ Operator \/ UNCHANGED vars
  PROVE  Frame
  <1> USE DEF Frame, Held, procVars, queueVars
  <1>1. CASE PollLocal \/ PollRoundDone \/ PollExit
    BY <1>1 DEF PollLocal, PollRoundDone, PollExit
  <1>2. ASSUME NEW p, PollPeer(p) PROVE Frame
    BY <1>2 DEF PollPeer, PollPeerLock, PollPeerStore
  <1>3. ASSUME NEW s, SetStrategy(s) PROVE Frame
    BY <1>3 DEF SetStrategy
  <1>4. ASSUME NEW b, SetQueueEnabled(b) PROVE Frame
    BY <1>4 DEF SetQueueEnabled
  <1>5. CASE StoreStrategy \/ ClearCache \/ Stop
    BY <1>5 DEF StoreStrategy, ClearCache, Stop
  <1>6. CASE UNCHANGED vars
    BY <1>6 DEF vars
  <1> QED
    BY <1>1, <1>2, <1>3, <1>4, <1>5, <1>6 DEF Poller, Operator

LEMMA QueueSteps ==
  ASSUME Typed, [Next]_vars
  PROVE  \/ Frame \/ PopHead \/ ProcRequeue \/ ProcFinish
         \/ \E r \in Requests : Enqueue(r)
  BY HandlerFrame, ProcessorFrame, OtherFrame DEF Next

-----------------------------------------------------------------------------
(* Custody is inductive *)

LEMMA CustodyInit == Init => Custody
  <1> SUFFICES ASSUME Init PROVE Custody
    OBVIOUS
  <1>1. Typed
    BY TypeInit
  <1>2. \A r \in Requests : ~Known(r) /\ pc[r] = "idle"
    BY ConstAssumption DEF ConstAssumption, Init, Known, InQueue, Held
  <1>3. Len(queue) = 0 /\ done = {}
    BY DEF Init
  <1>4. SingleCustody /\ NoLostWaiter
    BY <1>2, <1>3 DEF SingleCustody, NoLostWaiter, Known
  <1>5. Capacity
    BY <1>3, ConstAssumption DEF ConstAssumption, Capacity
  <1> QED
    BY <1>1, <1>2, <1>4, <1>5 DEF Custody

LEMMA FrameCustody ==
  ASSUME Custody, Typed', Frame
  PROVE  Custody'
  <1>1. \A r \in Requests : /\ InQueue(r)' <=> InQueue(r)
                            /\ Held(r)' <=> Held(r)
                            /\ r \in done' <=> r \in done
    BY DEF Frame, InQueue
  <1>2. SingleCustody'
    <2>1. \A r \in done' : ~InQueue(r)' /\ ~Held(r)'
      BY <1>1 DEF Frame, Custody, SingleCustody, Typed, TypeOK
    <2>2. NoDuplicates'
      BY DEF Frame, Custody, SingleCustody, NoDuplicates
    <2> QED
      BY <1>1, <2>1, <2>2 DEF Custody, SingleCustody, NoDuplicates
  <1>3. \A r \in Requests : Known(r)' => pc'[r] \in Enqueued
    BY <1>1 DEF Known, Custody, Frame
  <1>4. NoLostWaiter'
    BY <1>1 DEF NoLostWaiter, Custody, Frame
  <1>5. Capacity'
    BY DEF Frame, Custody, Capacity
  <1> QED
    BY <1>2, <1>3, <1>4, <1>5 DEF Custody

LEMMA EnqueueCustody ==
  ASSUME Custody, Typed', NEW r \in Requests, Enqueue(r)
  PROVE  Custody'
  <1>1. /\ pc[r] = "enqueue" /\ pc' = [pc EXCEPT ![r] = "wait"]
        /\ queue' = Append(queue, r) /\ ~QueueFull
        /\ UNCHANGED <<done, procPc, procReq>>
    BY DEF Enqueue, Goto, procVars
  <1>2. ~Known(r)
    BY <1>1 DEF Custody, Enqueued
  <1>3. /\ \A x \in Requests : InQueue(x)' <=> InQueue(x) \/ x = r
        /\ NoDuplicates'
        /\ Len(queue') = Len(queue) + 1
    BY <1>1, <1>2, Appended DEF Custody, SingleCustody, NoDuplicates, Known
  <1>4. \A x \in Requests : (Held(x)' <=> Held(x)) /\ (x \in done' <=> x \in done)
    BY <1>1 DEF Held
  <1>5. \A x \in Requests : pc'[x] = IF x = r THEN "wait" ELSE pc[x]
    BY <1>1 DEF Custody, Typed, TypeOK
  <1>6. SingleCustody'
    <2>1. \A x \in Requests : Held(x)' => ~InQueue(x)'
      BY <1>2, <1>3, <1>4 DEF Custody, SingleCustody, Known
    <2>2. \A x \in done' : ~InQueue(x)' /\ ~Held(x)'
      BY <1>1, <1>2, <1>3, <1>4 DEF Custody, SingleCustody, Known, Typed, TypeOK
    <2> QED
      BY <1>3, <2>1, <2>2 DEF SingleCustody, NoDuplicates
  <1>7. \A x \in Requests : Known(x)' => pc'[x] \in Enqueued
    BY <1>3, <1>4, <1>5 DEF Known, Custody, Enqueued
  <1>8. NoLostWaiter'
    BY <1>3, <1>4, <1>5 DEF NoLostWaiter, Custody
  <1>9. Capacity'
    BY <1>1, <1>3, ConstAssumption
    DEF ConstAssumption, Capacity, Custody, QueueFull, Typed, TypeOK
  <1> QED
    BY <1>6, <1>7, <1>8, <1>9 DEF Custody

LEMMA PopCustody ==
  ASSUME Custody, Typed', PopHead
  PROVE  Custody'
  <1> DEFINE h == Head(queue)
  <1>1. /\ queue # <<>> /\ queue' = Tail(queue)
        /\ procReq = h /\ procReq' = h
        /\ procPc \in Deciding /\ procPc' \in Serving
        /\ UNCHANGED <<pc, done>>
    BY DEF PopHead
  <1>2. h \in Requests /\ InQueue(h)
    BY <1>1, HeadInQueue DEF Custody
  <1>3. /\ \A x \in Requests : InQueue(x)' <=> InQueue(x) /\ x # h
        /\ NoDuplicates'
        /\ Len(queue') = Len(queue) - 1
    BY <1>1, Popped DEF Custody, SingleCustody, NoDuplicates
  <1>4. \A x \in Requests : ~Held(x) /\ (Held(x)' <=> x = h)
    BY <1>1 DEF Held, Deciding, Serving
  <1> HIDE DEF h
  <1>5. SingleCustody'
    <2>1. \A x \in Requests : Held(x)' => ~InQueue(x)'
      BY <1>3, <1>4
    <2>2. \A x \in done' : ~InQueue(x)' /\ ~Held(x)'
      BY <1>1, <1>2, <1>3, <1>4 DEF Custody, SingleCustody, Typed, TypeOK
    <2> QED
      BY <1>3, <2>1, <2>2 DEF SingleCustody, NoDuplicates
  <1>6. \A x \in Requests : Known(x)' => pc'[x] \in Enqueued
    BY <1>1, <1>2, <1>3, <1>4 DEF Known, Custody
  <1>7. NoLostWaiter'
    BY <1>1, <1>3, <1>4 DEF NoLostWaiter, Custody
  <1>8. Capacity'
    BY <1>1, <1>3, ConstAssumption
    DEF ConstAssumption, Capacity, Custody, Typed, TypeOK, Deciding, Serving
  <1> QED
    BY <1>5, <1>6, <1>7, <1>8 DEF Custody

LEMMA RequeueCustody ==
  ASSUME Custody, Typed', ProcRequeue
  PROVE  Custody'
  <1> DEFINE h == procReq
  <1>1. /\ procPc = "requeue" /\ procPc' = "loop" /\ procReq' = NoRequest
        /\ queue' = Append(queue, h)
        /\ UNCHANGED <<pc, done>>
    BY DEF ProcRequeue
  <1>2. h \in Requests /\ Held(h)
    BY <1>1 DEF Custody, Typed, Linked, Serving, Held
  <1>3. /\ \A x \in Requests : InQueue(x)' <=> InQueue(x) \/ x = h
        /\ NoDuplicates'
        /\ Len(queue') = Len(queue) + 1
    BY <1>1, <1>2, Appended DEF Custody, SingleCustody, NoDuplicates
  <1>4. \A x \in Requests : ~Held(x)' /\ (Held(x) => x = h)
    BY <1>1 DEF Held
  <1> HIDE DEF h
  <1>5. SingleCustody'
    <2>1. \A x \in Requests : Held(x)' => ~InQueue(x)'
      BY <1>4
    <2>2. \A x \in done' : ~InQueue(x)' /\ ~Held(x)'
      BY <1>1, <1>2, <1>3, <1>4 DEF Custody, SingleCustody, Typed, TypeOK
    <2> QED
      BY <1>3, <2>1, <2>2 DEF SingleCustody, NoDuplicates
  <1>6. \A x \in Requests : Known(x)' => pc'[x] \in Enqueued
    BY <1>1, <1>2, <1>3, <1>4 DEF Known, Custody
  <1>7. NoLostWaiter'
    BY <1>1, <1>3, <1>4 DEF NoLostWaiter, Custody
  <1>8. Capacity'
    BY <1>1, <1>3, ConstAssumption
    DEF ConstAssumption, Capacity, Custody, Typed, TypeOK, Serving
  <1> QED
    BY <1>5, <1>6, <1>7, <1>8 DEF Custody

LEMMA FinishCustody ==
  ASSUME Custody, Typed', ProcFinish
  PROVE  Custody'
  <1> DEFINE h == procReq
  <1>1. /\ procPc = "finish" /\ procPc' = "loop" /\ procReq' = NoRequest
        /\ done' = done \cup {h}
        /\ UNCHANGED <<pc, queue>>
    BY DEF ProcFinish
  <1>2. h \in Requests /\ Held(h)
    BY <1>1 DEF Custody, Typed, Linked, Serving, Held
  <1>3. \A x \in Requests : InQueue(x)' <=> InQueue(x)
    BY <1>1 DEF InQueue
  <1>4. \A x \in Requests : ~Held(x)' /\ (Held(x) => x = h)
    BY <1>1 DEF Held
  <1> HIDE DEF h
  <1>5. SingleCustody'
    <2>1. NoDuplicates'
      BY <1>1 DEF NoDuplicates, Custody, SingleCustody
    <2>2. \A x \in done' : ~InQueue(x)' /\ ~Held(x)'
      BY <1>1, <1>2, <1>3, <1>4 DEF Custody, SingleCustody, Typed, TypeOK
    <2> QED
      BY <1>4, <2>1, <2>2 DEF SingleCustody, NoDuplicates
  <1>6. \A x \in Requests : Known(x)' => pc'[x] \in Enqueued
    BY <1>1, <1>2, <1>3, <1>4 DEF Known, Custody
  <1>7. NoLostWaiter'
    BY <1>1, <1>3, <1>4 DEF NoLostWaiter, Custody
  <1>8. Capacity'
    BY <1>1, ConstAssumption
    DEF ConstAssumption, Capacity, Custody, Typed, TypeOK, Serving
  <1> QED
    BY <1>5, <1>6, <1>7, <1>8 DEF Custody

LEMMA CustodyNext == Custody /\ [Next]_vars => Custody'
  BY TypeNext, QueueSteps, FrameCustody, EnqueueCustody, PopCustody,
     RequeueCustody, FinishCustody
  DEF Custody

LEMMA CustodyInvariant == Spec => []Custody
  BY CustodyInit, CustodyNext, PTL DEF Spec

-----------------------------------------------------------------------------
(* What follows *)

\* A request is in one place at a time, whatever the number of requests and
\* however handlers, timeouts and the processor interleave: close(qr.done)
\* never runs twice.
THEOREM SingleCustodyHolds == Spec => []SingleCustody
  BY CustodyInvariant, PTL DEF Custody

\* A handler that waits on qr.done waits for a request that is still queued,
\* being processed, or completed.
THEOREM NoWaiterIsLost == Spec => []NoLostWaiter
  BY CustodyInvariant, PTL DEF Custody

\* The entry processQueuedRequests pops is the head it found a place for.
THEOREM PopsWhatItChose == Spec => []PopsItsHead
  <1>1. Custody => PopsItsHead
    BY DEF Custody, Typed, Linked
  <1> QED
    BY CustodyInvariant, <1>1, PTL

\* The queue exceeds max_queue_size by one request at most, the one a failed
\* forward puts back.
THEOREM QueueStaysBounded == Spec => []QueueBound
  <1>1. Custody => QueueBound
    BY ConstAssumption
    DEF ConstAssumption, Custody, Capacity, QueueBound, Typed, TypeOK
  <1> QED
    BY CustodyInvariant, <1>1, PTL

-----------------------------------------------------------------------------
(* The refinement *)

LEMMA RefinesInit == Init => Q!QInit
  <1> SUFFICES ASSUME Init PROVE Q!QInit
    OBVIOUS
  <1>1. {r \in Requests : Held(r)} = {}
    BY DEF Init, Held
  <1> QED
    BY <1>1 DEF Init, Q!QInit

LEMMA RefinesNext ==
  ASSUME Custody, Typed', [Next]_vars
  PROVE  [Q!QNext]_(Q!qvars)
  <1> DEFINE service == {r \in Requests : Held(r)}
  <1>0. Typed
    BY DEF Custody
  <1>1. CASE Frame
    <2>1. service' = service
      BY <1>1 DEF Frame
    <2> QED
      BY <1>1, <2>1 DEF Frame, Q!qvars
  <1>2. ASSUME NEW r \in Requests, Enqueue(r) PROVE Q!Admit(r)
    <2>1. /\ pc[r] = "enqueue" /\ queue' = Append(queue, r) /\ ~QueueFull
          /\ UNCHANGED <<done, procPc, procReq>>
      BY <1>2 DEF Enqueue, Goto, procVars
    <2>2. ~InQueue(r) /\ ~Held(r) /\ r \notin done
      BY <2>1 DEF Custody, Enqueued, Known
    <2>3. r \notin Q!Waiting
      BY <2>2 DEF Q!Waiting, InQueue
    <2>4. service' = service
      BY <2>1 DEF Held
    <2>5. MaxQueueSize > 0 => Len(queue) < MaxQueueSize
      BY <2>1, <1>0, ConstAssumption DEF ConstAssumption, QueueFull, Typed, TypeOK
    <2> QED
      BY <2>1, <2>2, <2>3, <2>4, <2>5 DEF Q!Admit
  <1>3. ASSUME PopHead PROVE Q!Take
    <2>1. service = {}
      BY <1>3 DEF PopHead, Held, Deciding
    <2>2. Head(queue) \in Requests
      BY <1>0, <1>3, HeadInQueue DEF PopHead
    <2>3. service' = {Head(queue)}
      BY <1>3, <2>2 DEF PopHead, Held, Serving
    <2> QED
      BY <1>3, <2>1, <2>3 DEF PopHead, Q!Take
  <1>4. ASSUME ProcRequeue PROVE Q!PutBack(procReq)
    <2>1. procReq \in service
      BY <1>0, <1>4 DEF ProcRequeue, Typed, Linked, Serving, Held
    <2>2. service' = service \ {procReq}
      BY <1>4 DEF ProcRequeue, Held
    <2> QED
      BY <1>4, <2>1, <2>2 DEF ProcRequeue, Q!PutBack
  <1>5. ASSUME ProcFinish PROVE Q!Settle(procReq)
    <2>1. procReq \in service
      BY <1>0, <1>5 DEF ProcFinish, Typed, Linked, Serving, Held
    <2>2. service' = service \ {procReq}
      BY <1>5 DEF ProcFinish, Held
    <2> QED
      BY <1>5, <2>1, <2>2 DEF ProcFinish, Q!Settle
  <1>6. procPc \in Serving => procReq \in Requests
    BY <1>0 DEF Typed, Linked
  <1> QED
    BY <1>0, <1>1, <1>2, <1>3, <1>4, <1>5, <1>6, QueueSteps
    DEF Q!QNext, ProcRequeue, ProcFinish, Serving

\* The queue of the load balancer implements AdmissionQueue: first in, first
\* out but for requests put back, one request in service, each settled once.
THEOREM Refinement == Spec => ImplementsAdmissionQueue
  <1>1. Custody /\ Custody' /\ [Next]_vars => [Q!QNext]_(Q!qvars)
    BY RefinesNext DEF Custody
  <1> QED
    BY RefinesInit, CustodyInvariant, <1>1, PTL
    DEF Spec, ImplementsAdmissionQueue, Q!QSpec

-----------------------------------------------------------------------------
(* Requests at their last hop *)

\* The processor skips the routing of a request at its last hop, so that it
\* serves such a request here or not at all.
StaysHere ==
  /\ \A r \in Pushed : pc[r] \notin {"select", "selecting", "forward"}
  /\ procReq \in Pushed =>
       /\ procPc \notin {"head", "selecting", "forward", "requeue"}
       /\ procPc \in Serving => procTarget = Self

LEMMA StaysHereInit == Init => StaysHere
  BY ConstAssumption DEF ConstAssumption, Init, StaysHere

LEMMA HandlerStaysHere ==
  ASSUME Typed, StaysHere, NEW r \in Requests,
         Arrive(r) \/ HandlerStep(r) \/ Disconnect(r)
  PROVE  StaysHere'
  <1> USE ConstAssumption
      DEF ConstAssumption, Typed, TypeOK, StaysHere, Goto, QueueOrRefuse, procVars
  <1>1. CASE Arrive(r) \/ Disconnect(r)
    BY <1>1 DEF Arrive, AdmitLocally, AtCapacity, Disconnect
  <1>2. ASSUME NEW code, LocalDone(r, code) \/ ForwardOK(r, code) PROVE StaysHere'
    BY <1>2 DEF LocalDone, ForwardOK
  <1>3. ASSUME NEW p, SelectPeer(r, p) PROVE StaysHere'
    BY <1>3 DEF SelectPeer
  <1>4. CASE LocalBreak(r) \/ SelectLock(r)
    BY <1>4 DEF LocalBreak, SelectLock
  <1>5. CASE ForwardFail(r) \/ Enqueue(r) \/ Reject(r)
    BY <1>5 DEF ForwardFail, Enqueue, Reject
  <1>6. CASE Served(r) \/ QueueTimeout(r) \/ Cancelled(r)
    BY <1>6 DEF Served, QueueTimeout, Cancelled
  <1>7. CASE ExpireCheck(r) \/ ExpireClaim(r) \/ ExpireWrite(r)
    BY <1>7 DEF ExpireCheck, ExpireClaim, ExpireWrite
  <1> QED
    BY <1>1, <1>2, <1>3, <1>4, <1>5, <1>6, <1>7 DEF HandlerStep

LEMMA ProcessorStaysHere ==
  ASSUME Typed, StaysHere, Processor
  PROVE  StaysHere'
  <1> USE ConstAssumption DEF ConstAssumption, Typed, StaysHere, Serving
  <1>1. CASE ProcTick \/ ProcExit \/ ProcEmpty
    BY <1>1 DEF ProcTick, ProcExit, ProcEmpty
  <1>2. CASE ProcHead \/ ProcSelectLock
    BY <1>2 DEF ProcHead, ProcSelectLock
  <1>3. ASSUME NEW p, ProcSelectPeer(p) PROVE StaysHere'
    BY <1>3 DEF ProcSelectPeer
  <1>4. CASE ProcTryLocal
    BY <1>4 DEF ProcTryLocal
  <1>5. ASSUME NEW code, ProcForwardOK(code) \/ ProcServe(code) PROVE StaysHere'
    BY <1>5 DEF ProcForwardOK, ProcServe
  <1>6. CASE ProcForwardFail \/ ProcBreak \/ ProcRequeue
    BY <1>6 DEF ProcForwardFail, ProcBreak, ProcRequeue
  <1>7. CASE ProcReplyCheck \/ ProcReplyClaim \/ ProcReplyWrite \/ ProcFinish
    BY <1>7 DEF ProcReplyCheck, ProcReplyClaim, ProcReplyWrite, ProcFinish
  <1> QED
    BY <1>1, <1>2, <1>3, <1>4, <1>5, <1>6, <1>7 DEF Processor

\* The poller and the operator touch neither handlers, nor the processor, nor
\* what has been answered.
LEMMA Elsewhere ==
  ASSUME Poller \/ Operator \/ UNCHANGED vars
  PROVE  UNCHANGED <<pc, response, procVars, done>>
  <1> USE DEF procVars, queueVars, respVars
  <1>1. CASE PollLocal \/ PollRoundDone \/ PollExit
    BY <1>1 DEF PollLocal, PollRoundDone, PollExit
  <1>2. ASSUME NEW p, PollPeer(p)
        PROVE UNCHANGED <<pc, response, procVars, done>>
    BY <1>2 DEF PollPeer, PollPeerLock, PollPeerStore
  <1>3. ASSUME NEW s, SetStrategy(s)
        PROVE UNCHANGED <<pc, response, procVars, done>>
    BY <1>3 DEF SetStrategy
  <1>4. ASSUME NEW b, SetQueueEnabled(b)
        PROVE UNCHANGED <<pc, response, procVars, done>>
    BY <1>4 DEF SetQueueEnabled
  <1>5. CASE StoreStrategy \/ ClearCache \/ Stop
    BY <1>5 DEF StoreStrategy, ClearCache, Stop
  <1>6. CASE UNCHANGED vars
    BY <1>6 DEF vars
  <1> QED
    BY <1>1, <1>2, <1>3, <1>4, <1>5, <1>6 DEF Poller, Operator

LEMMA StaysHereNext == Typed /\ StaysHere /\ [Next]_vars => StaysHere'
  <1> SUFFICES ASSUME Typed, StaysHere, [Next]_vars PROVE StaysHere'
    OBVIOUS
  <1>1. CASE Poller \/ Operator \/ UNCHANGED vars
    BY <1>1, Elsewhere DEF procVars, StaysHere
  <1> QED
    BY <1>1, HandlerStaysHere, ProcessorStaysHere DEF Next

\* A request that has made its hop is served on this node or rejected,
\* wherever the strategy in use would send it.
THEOREM PushedRequestsStayHere == Spec => []PushedStaysHere
  <1>1. Typed /\ StaysHere => PushedStaysHere
    BY ConstAssumption
    DEF ConstAssumption, StaysHere, PushedStaysHere, Held, Serving
  <1> QED
    BY <1>1, TypeInit, TypeNext, StaysHereInit, StaysHereNext, PTL DEF Spec

-----------------------------------------------------------------------------
(* No handler returns without an answer *)

Written(r) == response[r].headers > 0

\* The processor closes qr.done after somebody has written the answer, unless
\* its handler has claimed the header and writes it: that one waits no more.
AnswerWritten ==
  /\ \A r \in Requests : pc[r] = "returned" => Written(r)
  /\ \A r \in Requests : pc[r] \notin Enqueued => ~response[r].claimed
  /\ \A r \in Requests :
       pc[r] = "wait" /\ response[r].claimed =>
         Written(r) \/ (procPc = "claimed" /\ procReq = r)
  /\ \A r \in done : pc[r] = "wait" => Written(r)
  /\ procPc \in {"copying", "finish"} /\ pc[procReq] = "wait" => Written(procReq)

LEMMA HeaderWritten ==
  ASSUME Typed, NEW r \in Requests, NEW code, response' = WithHeader(r, code)
  PROVE  /\ Written(r)' /\ \A x \in Requests : Written(x) => Written(x)'
         /\ \A x \in Requests \ {r} : response'[x] = response[x]
  BY DEF Typed, TypeOK, Responses, WithHeader, Written

LEMMA BodyWritten ==
  ASSUME Typed, NEW r \in Requests, response' = WithBody(r)
  PROVE  /\ Written(r)' /\ \A x \in Requests : Written(x) => Written(x)'
         /\ \A x \in Requests \ {r} : response'[x] = response[x]
  <1>1. CASE response[r].headers = 0
    BY <1>1, HeaderWritten DEF WithBody
  <1>2. CASE response[r].headers # 0
    BY <1>2 DEF WithBody, Typed, TypeOK, Responses, Written
  <1> QED
    BY <1>1, <1>2

LEMMA AnswerInit == Init => AnswerWritten
  BY DEF Init, AnswerWritten, Enqueued

LEMMA HandlerAnswers ==
  ASSUME Custody, AnswerWritten, NEW r \in Requests,
         Arrive(r) \/ HandlerStep(r) \/ Disconnect(r)
  PROVE  AnswerWritten'
  <1> DEFINE Kept == /\ UNCHANGED <<done, procPc, procReq>>
                     /\ \A x \in Requests \ {r} :
                          pc'[x] = pc[x] /\ response'[x] = response[x]
                     /\ pc'[r] = "returned" => Written(r)'
                     /\ pc'[r] = "wait" => pc[r] \in {"wait", "enqueue"}
                     /\ pc'[r] \notin Enqueued => pc[r] \notin Enqueued
                     /\ pc'[r] \notin Enqueued \/ pc'[r] = "wait" =>
                          response'[r] = response[r]
  <1>0. /\ pc[r] = "enqueue" => ~Known(r) /\ Typed
        /\ done \subseteq Requests
    BY DEF Custody, Enqueued, Typed, TypeOK
  <1>1. ASSUME Kept PROVE AnswerWritten'
    <2>1. \A x \in Requests : Written(x)' \/ (x = r \/ (Written(x) <=> Written(x)'))
      BY <1>1 DEF Written
    <2>2. CASE pc'[r] = "wait" /\ pc[r] = "enqueue"
      <3>1. /\ ~response[r].claimed /\ response'[r] = response[r]
            /\ r \notin done
            /\ procPc \in {"copying", "finish"} => procReq # r
        BY <1>0, <1>1, <2>2 DEF AnswerWritten, Enqueued, Known, Held
      <3> QED
        BY <1>0, <1>1, <2>1, <2>2, <3>1
        DEF AnswerWritten, Typed, Linked, Serving, Enqueued, Written
    <2>3. CASE ~(pc'[r] = "wait" /\ pc[r] = "enqueue")
      <3>1. pc'[r] = "wait" => pc[r] = "wait" /\ response'[r] = response[r]
        BY <1>1, <2>3
      <3> QED
        BY <1>0, <1>1, <2>1, <3>1
        DEF AnswerWritten, Custody, Typed, Linked, Serving, Enqueued, Written
    <2> QED
      BY <2>2, <2>3
  <1>2. Kept
    <2> USE DEF Custody, Typed, TypeOK, Goto, QueueOrRefuse, procVars, queueVars,
                respVars, Enqueued
    <2>1. CASE Arrive(r) \/ Disconnect(r)
      BY <2>1 DEF Arrive, AdmitLocally, AtCapacity, Disconnect, AnswerWritten, Written
    <2>2. ASSUME NEW code, LocalDone(r, code) \/ ForwardOK(r, code) PROVE Kept
      BY <2>2, HeaderWritten DEF LocalDone, ForwardOK
    <2>3. ASSUME NEW p, SelectPeer(r, p) PROVE Kept
      BY <2>3 DEF SelectPeer
    <2>4. CASE LocalBreak(r) \/ Reject(r)
      BY <2>4, HeaderWritten DEF LocalBreak, Reject
    <2>4a. CASE ExpireWrite(r)
      BY <2>4a, HeaderWritten, BodyWritten DEF ExpireWrite
    <2>5. CASE SelectLock(r) \/ ForwardFail(r) \/ Enqueue(r)
      BY <2>5 DEF SelectLock, ForwardFail, Enqueue
    <2>6. CASE Served(r)
      BY <2>6 DEF Served, Written, AnswerWritten
    <2>7. CASE QueueTimeout(r) \/ Cancelled(r) \/ ExpireCheck(r)
      BY <2>7 DEF QueueTimeout, Cancelled, ExpireCheck
    <2>8. CASE ExpireClaim(r)
      BY <2>8 DEF ExpireClaim
    <2> QED
      BY <2>1, <2>2, <2>3, <2>4, <2>4a, <2>5, <2>6, <2>7, <2>8 DEF HandlerStep
  <1> QED
    BY <1>1, <1>2

LEMMA ProcessorAnswers ==
  ASSUME Custody, AnswerWritten, Processor
  PROVE  AnswerWritten'
  <1>0. /\ Typed /\ (procPc \in Serving => procReq \in Requests /\ Held(procReq))
        /\ (procPc \in Serving => pc[procReq] \in Enqueued)
    BY DEF Custody, Typed, Linked, Known, Held, Serving
  <1> USE DEF Linked, Serving, AnswerWritten, queueVars, respVars
  <1>1. CASE ProcTick \/ ProcExit \/ ProcEmpty \/ ProcHead \/ ProcSelectLock
    BY <1>1 DEF ProcTick, ProcExit, ProcEmpty, ProcHead, ProcSelectLock, Written
  <1>2. ASSUME NEW p, ProcSelectPeer(p) PROVE AnswerWritten'
    BY <1>2 DEF ProcSelectPeer, Written
  <1>3. CASE ProcTryLocal
    BY <1>3 DEF ProcTryLocal, Written
  <1>4. ASSUME NEW code, ProcForwardOK(code) \/ ProcServe(code)
        PROVE AnswerWritten'
    BY <1>4 DEF ProcForwardOK, ProcServe, Written
  <1>5. CASE ProcForwardFail \/ ProcBreak \/ ProcRequeue
    BY <1>5 DEF ProcForwardFail, ProcBreak, ProcRequeue, Written
  <1>6. CASE ProcReplyCheck
    BY <1>0, <1>6 DEF ProcReplyCheck, Written
  <1>6a. CASE ProcReplyClaim
    BY <1>0, <1>6a DEF ProcReplyClaim, Written, Typed, TypeOK, Responses
  <1>7. CASE ProcReplyWrite
    <2>1. CASE procPc = "claimed"
      <3>1. response' = WithHeader(procReq, procCode)
        BY <1>7, <2>1 DEF ProcReplyWrite
      <3> QED
        BY <1>0, <1>7, <2>1, <3>1, HeaderWritten DEF ProcReplyWrite, Typed, TypeOK
    <2>2. CASE procPc = "copying" /\ response' = WithBody(procReq)
      BY <1>0, <1>7, <2>2, BodyWritten DEF ProcReplyWrite, Typed, TypeOK
    <2>3. CASE procPc = "copying" /\ response' = response
      BY <1>7, <2>3 DEF ProcReplyWrite, Written
    <2> QED
      BY <1>7, <2>1, <2>2, <2>3 DEF ProcReplyWrite
  <1>8. CASE ProcFinish
    BY <1>0, <1>8 DEF ProcFinish, Written
  <1> QED
    BY <1>1, <1>2, <1>3, <1>4, <1>5, <1>6, <1>6a, <1>7, <1>8 DEF Processor

LEMMA AnswerNext == Custody /\ AnswerWritten /\ [Next]_vars => AnswerWritten'
  <1> SUFFICES ASSUME Custody, AnswerWritten, [Next]_vars PROVE AnswerWritten'
    OBVIOUS
  <1>1. CASE Poller \/ Operator \/ UNCHANGED vars
    BY <1>1, Elsewhere DEF procVars, AnswerWritten, Written
  <1> QED
    BY <1>1, HandlerAnswers, ProcessorAnswers DEF Next

\* Every handler that returns has had a status written for it, by itself or by
\* the processor, although the two test headerWritten without a lock.
THEOREM NobodyReturnsSilently == Spec => []NoSilentReturn
  <1>1. AnswerWritten => NoSilentReturn
    BY DEF AnswerWritten, NoSilentReturn, Written
  <1> QED
    BY <1>1, CustodyInvariant, AnswerInit, AnswerNext, PTL DEF Spec

-----------------------------------------------------------------------------
(* The aggregate counters *)

Routing == {r \in Requests : pc[r] \notin {"idle", "local", "returned"}}

\* What a step of a handler does to the sum: nothing, one request more that is
\* being routed, or one fewer and an outcome more.
Admitted(r) ==
  /\ r \notin Routing /\ Routing' = Routing /\ total' = Count({"handled", "local"})

Entered(r) ==
  /\ r \notin Routing /\ Routing' = Routing \cup {r} /\ total' = Count({"handled"})

Left(r) ==
  /\ r \in Routing /\ Routing' = Routing \ {r}
  /\ \E c \in {"forwarded", "queued", "rejected"} : total' = Count({c})

LEMMA HandlerCounts ==
  ASSUME TypeOK, NEW r \in Requests, Arrive(r) \/ HandlerStep(r) \/ Disconnect(r)
  PROVE  Admitted(r) \/ Entered(r) \/ Left(r) \/ UNCHANGED <<Routing, total>>
  <1> USE DEF TypeOK, Routing, Goto, respVars
  <1>1. CASE AdmitLocally(r)
    BY <1>1 DEF AdmitLocally, Admitted
  <1>2. CASE AtCapacity(r)
    BY <1>2 DEF AtCapacity, QueueOrRefuse, Entered
  <1>3. CASE Disconnect(r)
    BY <1>3 DEF Disconnect
  <1>4. ASSUME NEW code, LocalDone(r, code)
        PROVE  UNCHANGED <<Routing, total>>
    BY <1>4 DEF LocalDone
  <1>5. CASE LocalBreak(r) \/ SelectLock(r)
    BY <1>5 DEF LocalBreak, SelectLock
  <1>6. ASSUME NEW p, SelectPeer(r, p)
        PROVE  UNCHANGED <<Routing, total>>
    BY <1>6 DEF SelectPeer, QueueOrRefuse
  <1>7. ASSUME NEW code, ForwardOK(r, code) PROVE Left(r)
    BY <1>7 DEF ForwardOK, Left
  <1>8. CASE ForwardFail(r) \/ Enqueue(r)
    BY <1>8 DEF ForwardFail, Enqueue, QueueOrRefuse
  <1>9. CASE Reject(r) \/ Served(r) \/ ExpireWrite(r)
    BY <1>9 DEF Reject, Served, ExpireWrite, Left
  <1>10. CASE QueueTimeout(r) \/ Cancelled(r)
    BY <1>10 DEF QueueTimeout, Cancelled
  <1>11. CASE ExpireCheck(r) \/ ExpireClaim(r)
    BY <1>11 DEF ExpireCheck, ExpireClaim
  <1> QED
    BY <1>1, <1>2, <1>3, <1>4, <1>5, <1>6, <1>7, <1>8, <1>9, <1>10, <1>11
    DEF Arrive, HandlerStep

\* Nobody else routes a request or counts one.
LEMMA OthersCountNothing ==
  ASSUME Processor \/ Poller \/ Operator \/ UNCHANGED vars
  PROVE  UNCHANGED <<Routing, total>>
  <1> USE DEF Routing, respVars
  <1>1. CASE ProcTick \/ ProcExit \/ ProcEmpty \/ ProcHead \/ ProcSelectLock
    BY <1>1 DEF ProcTick, ProcExit, ProcEmpty, ProcHead, ProcSelectLock
  <1>2. ASSUME NEW p, ProcSelectPeer(p) PROVE UNCHANGED <<Routing, total>>
    BY <1>2 DEF ProcSelectPeer
  <1>3. ASSUME NEW code, ProcForwardOK(code) \/ ProcServe(code)
        PROVE  UNCHANGED <<Routing, total>>
    BY <1>3 DEF ProcForwardOK, ProcServe
  <1>4. CASE ProcTryLocal \/ ProcForwardFail \/ ProcRequeue \/ ProcBreak
    BY <1>4 DEF ProcTryLocal, ProcForwardFail, ProcRequeue, ProcBreak
  <1>5. CASE ProcReplyCheck \/ ProcReplyClaim \/ ProcReplyWrite \/ ProcFinish
    BY <1>5 DEF ProcReplyCheck, ProcReplyClaim, ProcReplyWrite, ProcFinish
  <1>6. CASE PollLocal \/ PollRoundDone \/ PollExit
    BY <1>6 DEF PollLocal, PollRoundDone, PollExit
  <1>7. ASSUME NEW p, PollPeer(p) PROVE UNCHANGED <<Routing, total>>
    BY <1>7 DEF PollPeer, PollPeerLock, PollPeerStore
  <1>8. ASSUME NEW s, SetStrategy(s) PROVE UNCHANGED <<Routing, total>>
    BY <1>8 DEF SetStrategy
  <1>9. ASSUME NEW b, SetQueueEnabled(b) PROVE UNCHANGED <<Routing, total>>
    BY <1>9 DEF SetQueueEnabled
  <1>10. CASE StoreStrategy \/ ClearCache \/ Stop
    BY <1>10 DEF StoreStrategy, ClearCache, Stop
  <1>11. CASE UNCHANGED vars
    BY <1>11 DEF vars
  <1> QED
    BY <1>1, <1>2, <1>3, <1>4, <1>5, <1>6, <1>7, <1>8, <1>9, <1>10, <1>11
    DEF Processor, Poller, Operator

LEMMA AccountingNext == TypeOK /\ Accounting /\ [Next]_vars => Accounting'
  <1> SUFFICES ASSUME TypeOK, Accounting, [Next]_vars PROVE Accounting'
    OBVIOUS
  <1> DEFINE n == Cardinality(Routing)
             Sum(t) == t["local"] + t["forwarded"] + t["queued"] + t["rejected"]
  <1>1. IsFiniteSet(Routing) /\ n \in Nat
    BY ConstAssumption, FS_Subset, FS_CardinalityType DEF ConstAssumption, Routing
  <1>2. /\ total \in [Counters -> Nat]
        /\ total["handled"] = Sum(total) + n
    BY DEF TypeOK, Accounting, Routing
  <1>3. Accounting' <=> total'["handled"] = Sum(total') + Cardinality(Routing')
    BY DEF Accounting, Routing
  <1>4. CASE UNCHANGED <<Routing, total>>
    BY <1>2, <1>3, <1>4
  <1>5. ASSUME NEW r \in Requests, Admitted(r) PROVE Accounting'
    BY <1>1, <1>2, <1>3, <1>5 DEF Admitted, Count, Counters
  <1>6. ASSUME NEW r \in Requests, Entered(r) PROVE Accounting'
    <2>1. Cardinality(Routing') = n + 1
      BY <1>1, <1>6, FS_AddElement DEF Entered
    <2> QED
      BY <1>1, <1>2, <1>3, <1>6, <2>1 DEF Entered, Count, Counters
  <1>7. ASSUME NEW r \in Requests, Left(r) PROVE Accounting'
    <2>1. Cardinality(Routing') = n - 1
      BY <1>1, <1>7, FS_RemoveElement DEF Left
    <2> QED
      BY <1>1, <1>2, <1>3, <1>7, <2>1 DEF Left, Count, Counters
  <1> QED
    BY <1>4, <1>5, <1>6, <1>7, HandlerCounts, OthersCountNothing DEF Next

\* The counters of /lb/status add up in every state: each request handled is in
\* one outcome or still being routed, whoever answers it in the end.
THEOREM CountersAddUp == Spec => []Accounting
  <1>1. Init => Accounting
    <2> SUFFICES ASSUME Init PROVE Accounting
      OBVIOUS
    <2>1. {r \in Requests : pc[r] \notin {"idle", "local", "returned"}} = {}
      BY DEF Init
    <2>2. \A c \in Counters : total[c] = 0
      BY DEF Init
    <2> QED
      BY <2>1, <2>2, FS_EmptySet DEF Accounting, Counters
  <1>2. Typed => TypeOK
    BY DEF Typed
  <1> QED
    BY <1>1, <1>2, TypeInit, TypeNext, AccountingNext, PTL DEF Spec

-----------------------------------------------------------------------------
(* The requests GORGO prices as running here *)

AtBackend == {r \in Requests : pc[r] = "local" \/ (Held(r) /\ procTarget = Self)}

BrokenOff == {r \in Requests : response[r].code = "broken"}

\* An answer breaks off in a handler that then ends, and whose request was
\* never queued; nobody writes to it again.
Breaks ==
  /\ \A r \in Requests :
       pc[r] \notin Enqueued => response[r].headers = 0 /\ r \notin BrokenOff
  /\ \A r \in BrokenOff : pc[r] = "returned" /\ ~Known(r)
  /\ procCode # "broken"

LEMMA NewlyKnown ==
  ASSUME Custody, [Next]_vars, NEW x \in Requests, Known(x)'
  PROVE  Known(x) \/ pc[x] = "enqueue"
  <1>0. Typed /\ NoDuplicates /\ \A y \in Requests : Held(y) => ~InQueue(y)
    BY DEF Custody, SingleCustody, NoDuplicates
  <1>1. CASE Frame
    BY <1>1 DEF Frame, Known, InQueue
  <1>2. CASE PopHead
    <2>1. procReq \in Requests /\ InQueue(procReq)
      BY <1>0, <1>2, HeadInQueue DEF PopHead
    <2>2. InQueue(x)' => InQueue(x)
      BY <1>0, <1>2, Popped DEF PopHead
    <2> QED
      BY <1>2, <2>1, <2>2 DEF PopHead, Known, Held
  <1>3. CASE ProcRequeue
    <2>1. procReq \in Requests /\ Held(procReq)
      BY <1>0, <1>3 DEF ProcRequeue, Typed, Linked, Serving, Held
    <2>2. InQueue(x)' => InQueue(x) \/ x = procReq
      BY <1>0, <1>3, <2>1, Appended DEF ProcRequeue
    <2> QED
      BY <1>3, <2>1, <2>2 DEF ProcRequeue, Known, Held
  <1>4. CASE ProcFinish
    <2>1. procReq \in Requests /\ Held(procReq)
      BY <1>0, <1>4 DEF ProcFinish, Typed, Linked, Serving, Held
    <2> QED
      BY <1>4, <2>1 DEF ProcFinish, Known, Held, InQueue
  <1>5. ASSUME NEW r \in Requests, Enqueue(r) PROVE Known(x) \/ pc[x] = "enqueue"
    <2>1. ~InQueue(r)
      BY <1>5 DEF Custody, Enqueue, Goto, Known, Enqueued
    <2>2. InQueue(x)' => InQueue(x) \/ x = r
      BY <1>0, <1>5, <2>1, Appended DEF Enqueue
    <2> QED
      BY <1>5, <2>2 DEF Enqueue, Goto, Known, Held, procVars
  <1> QED
    BY <1>0, <1>1, <1>2, <1>3, <1>4, <1>5, QueueSteps

LEMMA HeaderCode ==
  ASSUME Typed, NEW r \in Requests, NEW code,
         response' = WithHeader(r, code) \/ response' = WithBody(r)
  PROVE  /\ BrokenOff' \subseteq BrokenOff \cup {r}
         /\ code # "broken" => BrokenOff' \subseteq BrokenOff
         /\ r \notin BrokenOff => BrokenOff \subseteq BrokenOff'
         /\ \A x \in Requests \ {r} : response'[x] = response[x]
  <1>0. response \in [Requests -> Responses]
    BY DEF Typed, TypeOK
  <1>1. CASE response' = WithHeader(r, code)
    BY <1>0, <1>1 DEF WithHeader, BrokenOff
  <1>2. CASE response' = WithBody(r) /\ response[r].headers = 0
    BY <1>0, <1>2 DEF WithBody, WithHeader, BrokenOff
  <1>3. CASE response' = WithBody(r) /\ response[r].headers # 0
    BY <1>3 DEF WithBody, BrokenOff
  <1> QED
    BY <1>1, <1>2, <1>3

LEMMA BreaksNext == Custody /\ Breaks /\ [Next]_vars => Breaks'
  <1> SUFFICES ASSUME Custody, Breaks, [Next]_vars PROVE Breaks'
    OBVIOUS
  <1>0. Typed
    BY DEF Custody
  <1>1. ASSUME NEW r \in Requests, Arrive(r) \/ HandlerStep(r) \/ Disconnect(r)
        PROVE  Breaks'
    <2> DEFINE Kept ==
          /\ procCode' = procCode
          /\ \A x \in Requests \ {r} : pc'[x] = pc[x] /\ response'[x] = response[x]
          /\ pc'[r] \notin Enqueued => pc[r] \notin Enqueued /\ response'[r] = response[r]
          /\ BrokenOff' \subseteq BrokenOff \/ LocalBreak(r)
          /\ pc[r] = "returned" => pc'[r] = "returned"
    <2>1. Kept
      <3> USE <1>0 DEF Typed, TypeOK, Responses, Goto, QueueOrRefuse, procVars,
                       respVars, Enqueued
      <3>1. CASE Arrive(r) \/ Disconnect(r)
        BY <3>1 DEF Arrive, AdmitLocally, AtCapacity, Disconnect, BrokenOff
      <3>2. ASSUME NEW code \in {"2xx", "error"}, LocalDone(r, code) \/ ForwardOK(r, code)
            PROVE  Kept
        BY <3>2, HeaderCode DEF LocalDone, ForwardOK
      <3>3. ASSUME NEW p, SelectPeer(r, p) PROVE Kept
        BY <3>3 DEF SelectPeer, BrokenOff
      <3>4. CASE LocalBreak(r)
        BY <3>4, HeaderCode DEF LocalBreak
      <3>5. CASE Reject(r) \/ ExpireWrite(r)
        <4>1. response' = WithHeader(r, "error") \/ response' = WithBody(r)
          BY <3>5 DEF Reject, ExpireWrite
        <4>2. /\ BrokenOff' \subseteq BrokenOff
              /\ \A x \in Requests \ {r} : response'[x] = response[x]
          <5>1. "error" # "broken"
            OBVIOUS
          <5> HIDE DEF Typed
          <5> QED
            BY <1>0, <4>1, <5>1, HeaderCode
        <4> QED
          BY <3>5, <4>2 DEF Reject, ExpireWrite
      <3>6. CASE SelectLock(r) \/ ForwardFail(r) \/ Enqueue(r)
        BY <3>6 DEF SelectLock, ForwardFail, Enqueue, BrokenOff
      <3>7. CASE Served(r) \/ QueueTimeout(r) \/ Cancelled(r) \/ ExpireCheck(r)
        BY <3>7 DEF Served, QueueTimeout, Cancelled, ExpireCheck, BrokenOff
      <3>8. CASE ExpireClaim(r)
        BY <3>8 DEF ExpireClaim, BrokenOff
      <3> QED
        BY <1>1, <3>1, <3>2, <3>3, <3>4, <3>5, <3>6, <3>7, <3>8 DEF HandlerStep
    <2>2. CASE LocalBreak(r)
      <3>1. /\ pc[r] = "local" /\ pc'[r] = "returned" /\ ~Known(r)
            /\ BrokenOff' \subseteq BrokenOff \cup {r}
        BY <1>0, <2>2, HeaderCode
        DEF LocalBreak, Goto, Custody, Enqueued, Typed, TypeOK
      <3>2. \A x \in Requests : ~Known(x) /\ pc[x] # "enqueue" => ~Known(x)'
        BY NewlyKnown
      <3> QED
        BY <2>1, <3>1, <3>2 DEF Breaks, BrokenOff, Enqueued
    <2>3. CASE ~LocalBreak(r)
      <3>1. \A x \in BrokenOff : ~Known(x)'
        BY NewlyKnown DEF Breaks, BrokenOff
      <3> QED
        BY <2>1, <2>3, <3>1 DEF Breaks, BrokenOff
    <2> QED
      BY <2>2, <2>3
  <1>2. ASSUME UNCHANGED pc, procCode' # "broken",
               BrokenOff' \subseteq BrokenOff,
               \A x \in Requests : pc[x] \notin Enqueued => response'[x] = response[x]
        PROVE  Breaks'
    <2>1. \A x \in BrokenOff : ~Known(x)'
      BY NewlyKnown DEF Breaks, BrokenOff
    <2> QED
      BY <1>2, <2>1 DEF Breaks
  <1>3. CASE Processor
    <2>0. procPc \in Serving => procReq \in Requests /\ pc[procReq] \in Enqueued
      BY <1>0 DEF Custody, Typed, Linked, Known, Held, Serving
    <2> USE DEF respVars
    <2>1. CASE ProcTick \/ ProcExit \/ ProcEmpty \/ ProcHead \/ ProcSelectLock
      BY <1>2, <2>1 DEF ProcTick, ProcExit, ProcEmpty, ProcHead, ProcSelectLock,
         Breaks, BrokenOff
    <2>2. ASSUME NEW p, ProcSelectPeer(p) PROVE Breaks'
      BY <1>2, <2>2 DEF ProcSelectPeer, Breaks, BrokenOff
    <2>3. ASSUME NEW code \in {"2xx", "error"}, ProcForwardOK(code) \/ ProcServe(code)
          PROVE  Breaks'
      BY <1>2, <2>3 DEF ProcForwardOK, ProcServe, BrokenOff
    <2>4. CASE ProcTryLocal \/ ProcForwardFail \/ ProcBreak \/ ProcRequeue
      BY <1>2, <2>4 DEF ProcTryLocal, ProcForwardFail, ProcBreak, ProcRequeue,
         Breaks, BrokenOff
    <2>5. CASE ProcReplyCheck
      BY <1>2, <2>5 DEF ProcReplyCheck, Breaks, BrokenOff
    <2>6. CASE ProcReplyClaim
      BY <1>0, <1>2, <2>0, <2>6
      DEF ProcReplyClaim, Breaks, BrokenOff, Serving, Typed, TypeOK, Responses
    <2>7. CASE ProcReplyWrite
      <3>1. /\ procPc \in Serving /\ UNCHANGED <<pc, procCode>>
            /\ \/ response' = WithHeader(procReq, procCode)
               \/ response' = WithBody(procReq)
               \/ response' = response
        BY <2>7 DEF ProcReplyWrite, Serving
      <3>2. CASE response' = response
        BY <1>2, <3>1, <3>2 DEF Breaks, BrokenOff
      <3>3. CASE response' # response
        BY <1>0, <1>2, <2>0, <3>1, <3>3, HeaderCode DEF Breaks
      <3> QED
        BY <3>2, <3>3
    <2>8. CASE ProcFinish
      BY <1>2, <2>8 DEF ProcFinish, BrokenOff
    <2> QED
      BY <1>3, <2>1, <2>2, <2>3, <2>4, <2>5, <2>6, <2>7, <2>8 DEF Processor
  <1>4. CASE Poller \/ Operator \/ UNCHANGED vars
    BY <1>2, <1>4, Elsewhere DEF procVars, Breaks, BrokenOff
  <1> QED
    BY <1>1, <1>3, <1>4 DEF Next

\* runningRequests is what runs here, and what broke off.
Tracked ==
  /\ running = AtBackend \cup BrokenOff
  /\ procPc \in {"forward", "requeue"} => procTarget \in Peers

LEMMA HandlerTracks ==
  ASSUME Custody, Breaks, Tracked, NEW r \in Requests,
         Arrive(r) \/ HandlerStep(r) \/ Disconnect(r)
  PROVE  Tracked'
  <1> DEFINE Same == UNCHANGED <<procPc, procReq, procTarget>>
  <1>0. /\ pc \in [Requests -> HandlerPcs] /\ Typed
        /\ \A x \in Requests : Held(x) => pc[x] \in Enqueued
    BY DEF Custody, Typed, TypeOK, Known
  <1>1. ASSUME Same, running' = running, BrokenOff' = BrokenOff,
               \A x \in Requests : pc'[x] = "local" <=> pc[x] = "local"
        PROVE  Tracked'
    BY <1>1 DEF Tracked, AtBackend, Held
  <1>n. pc[r] # "returned" => r \notin BrokenOff
    BY DEF Breaks
  <1> USE DEF Goto, QueueOrRefuse, procVars, treeVars, respVars
  <1>2. CASE AdmitLocally(r)
    <2>1. /\ Same /\ running' = running \cup {r} /\ BrokenOff' = BrokenOff
          /\ pc' = [pc EXCEPT ![r] = "local"]
      BY <1>2 DEF AdmitLocally, BrokenOff
    <2>2. AtBackend' = AtBackend \cup {r}
      BY <1>0, <2>1 DEF AtBackend, Held
    <2> QED
      BY <2>1, <2>2 DEF Tracked
  <1>3. ASSUME NEW code \in {"2xx", "error"}, LocalDone(r, code) PROVE Tracked'
    <2>1. /\ Same /\ running' = running \ {r}
          /\ pc[r] = "local" /\ pc' = [pc EXCEPT ![r] = "returned"]
      BY <1>3 DEF LocalDone
    <2>2. ~Held(r) /\ r \notin BrokenOff
      BY <1>0, <1>n, <2>1 DEF Enqueued
    <2>3. AtBackend' = AtBackend \ {r}
      BY <1>0, <2>1, <2>2 DEF AtBackend, Held
    <2>4. BrokenOff' = BrokenOff
      BY <1>0, <1>3, <2>2, HeaderCode DEF LocalDone
    <2> QED
      BY <2>1, <2>2, <2>3, <2>4 DEF Tracked
  <1>4. CASE LocalBreak(r)
    <2>1. /\ Same /\ running' = running /\ pc[r] = "local"
          /\ pc' = [pc EXCEPT ![r] = "returned"]
          /\ response' = WithHeader(r, "broken")
      BY <1>4 DEF LocalBreak
    <2>2. ~Held(r) /\ response[r].headers = 0
      BY <1>0, <2>1 DEF Breaks, Enqueued
    <2>3. AtBackend' = AtBackend \ {r} /\ r \in AtBackend
      BY <1>0, <2>1, <2>2 DEF AtBackend, Held
    <2>4. BrokenOff' = BrokenOff \cup {r}
      BY <1>0, <2>1, <2>2 DEF BrokenOff, WithHeader, Typed, TypeOK
    <2> QED
      BY <2>1, <2>3, <2>4 DEF Tracked
  <1>5. CASE AtCapacity(r) \/ Disconnect(r)
    BY <1>0, <1>1, <1>5 DEF AtCapacity, Disconnect, BrokenOff
  <1>7. CASE SelectLock(r)
    BY <1>0, <1>1, <1>7 DEF SelectLock, BrokenOff
  <1>8. ASSUME NEW p, SelectPeer(r, p) PROVE Tracked'
    BY <1>0, <1>1, <1>8 DEF SelectPeer, BrokenOff
  <1>9. ASSUME NEW code \in {"2xx", "error"}, ForwardOK(r, code) PROVE Tracked'
    <2>1. BrokenOff' = BrokenOff
      BY <1>0, <1>n, <1>9, HeaderCode DEF ForwardOK
    <2> QED
      BY <1>0, <1>1, <1>9, <2>1 DEF ForwardOK
  <1>10. CASE ForwardFail(r) \/ Enqueue(r)
    BY <1>0, <1>1, <1>10 DEF ForwardFail, Enqueue, BrokenOff
  <1>11. CASE Served(r) \/ QueueTimeout(r) \/ Cancelled(r) \/ ExpireCheck(r)
    BY <1>0, <1>1, <1>11 DEF Served, QueueTimeout, Cancelled, ExpireCheck, BrokenOff
  <1>12. CASE ExpireClaim(r)
    <2>1. BrokenOff' = BrokenOff
      BY <1>0, <1>12 DEF ExpireClaim, BrokenOff, Typed, TypeOK, Responses
    <2> QED
      BY <1>0, <1>1, <1>12, <2>1 DEF ExpireClaim
  <1>13. CASE Reject(r) \/ ExpireWrite(r)
    <2>1. response' = WithHeader(r, "error") \/ response' = WithBody(r)
      BY <1>13 DEF Reject, ExpireWrite
    <2>2. pc[r] # "returned"
      BY <1>13 DEF Reject, ExpireWrite
    <2>3. BrokenOff' = BrokenOff
      BY <1>0, <1>n, <2>1, <2>2, HeaderCode
    <2> QED
      BY <1>0, <1>1, <1>13, <2>3 DEF Reject, ExpireWrite
  <1> QED
    BY <1>2, <1>3, <1>4, <1>5, <1>7, <1>8, <1>9, <1>10, <1>11, <1>12, <1>13
    DEF Arrive, HandlerStep

LEMMA ProcessorTracks ==
  ASSUME Custody, Breaks, Tracked, Processor
  PROVE  Tracked'
  <1>0. /\ Typed
        /\ \A x \in Requests : Held(x) => pc[x] \in Enqueued
    BY DEF Custody, Known
  <1>1. procPc \in Serving => procReq \in Requests
    BY <1>0 DEF Typed, Linked
  <1>2. Self \notin Peers /\ NoPeer # Self
    BY ConstAssumption DEF ConstAssumption
  <1>3. ASSUME UNCHANGED <<pc, running, response>>, AtBackend' = AtBackend,
               procPc' \in {"forward", "requeue"} => procTarget' \in Peers
        PROVE  Tracked'
    BY <1>3 DEF Tracked, BrokenOff
  <1> USE DEF treeVars, respVars
  <1>4. CASE ProcTick \/ ProcExit \/ ProcEmpty \/ ProcHead \/ ProcSelectLock
    BY <1>3, <1>4 DEF ProcTick, ProcExit, ProcEmpty, ProcHead, ProcSelectLock,
       AtBackend, Held
  <1>5. ASSUME NEW p \in Peers \cup {NoPeer}, ProcSelectPeer(p) PROVE Tracked'
    BY <1>2, <1>3, <1>5 DEF ProcSelectPeer, AtBackend, Held
  <1>6. CASE ProcTryLocal /\ HasCapacity
    <2>1. /\ procPc = "tryLocal" /\ procPc' = "serve" /\ procTarget' = Self
          /\ running' = running \cup {procReq} /\ UNCHANGED <<pc, response, procReq>>
      BY <1>6 DEF ProcTryLocal
    <2>2. procReq \in Requests
      BY <1>0, <2>1 DEF Typed, Linked, Deciding
    <2>3. AtBackend' = AtBackend \cup {procReq}
      BY <2>1, <2>2 DEF AtBackend, Held
    <2> QED
      BY <2>1, <2>3 DEF Tracked, BrokenOff
  <1>7. CASE ProcTryLocal /\ ~HasCapacity
    BY <1>3, <1>7 DEF ProcTryLocal, AtBackend, Held
  <1>8. ASSUME NEW code, ProcForwardOK(code) \/ ProcServe(code) PROVE Tracked'
    BY <1>3, <1>8 DEF ProcForwardOK, ProcServe, AtBackend, Held
  <1>9. CASE ProcForwardFail \/ ProcBreak
    BY <1>3, <1>9 DEF ProcForwardFail, ProcBreak, AtBackend, Held, Tracked
  <1>10. CASE ProcRequeue
    BY <1>2, <1>3, <1>10 DEF ProcRequeue, AtBackend, Held, Tracked
  <1>11. CASE ProcReplyCheck
    BY <1>3, <1>11 DEF ProcReplyCheck, AtBackend, Held
  <1>13. CASE ProcReplyClaim \/ ProcReplyWrite
    <2>1. procPc \in Serving /\ procReq \in Requests /\ procReq \notin BrokenOff
      BY <1>1, <1>13 DEF ProcReplyClaim, ProcReplyWrite, Serving, Breaks, Known, Held
    <2>2. BrokenOff' = BrokenOff
      <3>1. CASE response' = [response EXCEPT ![procReq].claimed = TRUE]
        BY <1>0, <2>1, <3>1 DEF BrokenOff, Typed, TypeOK, Responses
      <3>2. CASE response' = WithHeader(procReq, procCode)
                 \/ response' = WithBody(procReq)
        <4>1. /\ BrokenOff' \subseteq BrokenOff \cup {procReq}
              /\ procCode # "broken" => BrokenOff' \subseteq BrokenOff
              /\ BrokenOff \subseteq BrokenOff'
          BY <1>0, <2>1, <3>2, HeaderCode
        <4> QED
          BY <4>1 DEF Breaks
      <3>3. CASE response' = response
        BY <3>3 DEF BrokenOff
      <3> QED
        BY <1>13, <3>1, <3>2, <3>3 DEF ProcReplyClaim, ProcReplyWrite
    <2>3. /\ UNCHANGED <<pc, running>> /\ AtBackend' = AtBackend
          /\ procPc' \notin {"forward", "requeue"}
      BY <1>13 DEF ProcReplyClaim, ProcReplyWrite, AtBackend, Held
    <2> QED
      BY <2>2, <2>3 DEF Tracked
  <1>12. CASE ProcFinish
    <2>1. /\ procPc = "finish" /\ procPc' = "loop"
          /\ running' = running \ {procReq} /\ UNCHANGED <<pc, response>>
      BY <1>12 DEF ProcFinish
    <2>2. procReq \in Requests /\ Held(procReq) /\ pc[procReq] # "local"
      BY <1>0, <1>1, <2>1 DEF Held, Serving, Enqueued
    <2>3. AtBackend' = AtBackend \ {procReq}
      BY <2>1, <2>2 DEF AtBackend, Held
    <2>4. procReq \notin BrokenOff /\ BrokenOff' = BrokenOff
      BY <2>1, <2>2 DEF Breaks, Known, BrokenOff
    <2> QED
      BY <2>1, <2>3, <2>4 DEF Tracked
  <1> QED
    BY <1>4, <1>5, <1>6, <1>7, <1>8, <1>9, <1>10, <1>11, <1>12, <1>13 DEF Processor

LEMMA OthersTrack ==
  ASSUME Tracked, Poller \/ Operator \/ UNCHANGED vars
  PROVE  Tracked'
  <1>1. UNCHANGED <<pc, response, procPc, procReq, procTarget>>
    BY Elsewhere DEF procVars
  <1>2. UNCHANGED running
    <2> USE DEF treeVars
    <2>1. CASE PollLocal \/ PollRoundDone \/ PollExit
      BY <2>1 DEF PollLocal, PollRoundDone, PollExit
    <2>2. ASSUME NEW p, PollPeer(p) PROVE UNCHANGED running
      BY <2>2 DEF PollPeer, PollPeerLock, PollPeerStore
    <2>3. ASSUME NEW s, SetStrategy(s) PROVE UNCHANGED running
      BY <2>3 DEF SetStrategy
    <2>4. ASSUME NEW b, SetQueueEnabled(b) PROVE UNCHANGED running
      BY <2>4 DEF SetQueueEnabled
    <2>5. CASE StoreStrategy \/ ClearCache \/ Stop
      BY <2>5 DEF StoreStrategy, ClearCache, Stop
    <2>6. CASE UNCHANGED vars
      BY <2>6 DEF vars
    <2> QED
      BY <2>1, <2>2, <2>3, <2>4, <2>5, <2>6 DEF Poller, Operator
  <1> QED
    BY <1>1, <1>2 DEF Tracked, AtBackend, BrokenOff, Held

LEMMA TrackedInvariant == Spec => []Tracked
  <1>1. Init => Breaks /\ Tracked
    BY DEF Init, Breaks, Tracked, AtBackend, BrokenOff, Held, Enqueued
  <1>2. Custody /\ Breaks /\ Tracked /\ [Next]_vars => Tracked'
    BY HandlerTracks, ProcessorTracks, OthersTrack DEF Next
  <1> QED
    BY <1>1, <1>2, CustodyInvariant, BreaksNext, PTL DEF Spec

\* runningRequests is what runs here, for a handler or for the processor, and
\* what broke off in a handler, whatever clients leave, peers fail and answers
\* break: nothing is untracked before it ends, nothing else leaks.
THEOREM RunningIsExact == Spec => []RunningExact
  <1>1. Tracked => RunningExact
    BY DEF Tracked, RunningExact, AtBackend, BrokenOff
  <1> QED
    BY <1>1, TrackedInvariant, PTL

=============================================================================
