---------------------------- MODULE LoadBalancer ----------------------------
(***************************************************************************)
(* The load balancer that runs on every node of a cluster                  *)
(* (pkg/cluster/loadbalancer.go): the HTTP handler of each request, the    *)
(* local queue with its single processor goroutine, the routing strategies *)
(* and the two locks they share, queueMu and peersMu.  The metrics poller  *)
(* appears through what it writes; PeerHealth models it in full, Mesh what *)
(* crosses nodes, PromptTree the trees of the GORGO strategy.              *)
(*                                                                         *)
(* A request is handled by one goroutine, so requests name the goroutines  *)
(* too.  The steps of a goroutine are split where it takes or releases a   *)
(* lock, sends to a backend or waits for another goroutine.                *)
(***************************************************************************)
EXTENDS Integers, Sequences, FiniteSets

CONSTANTS
  Requests,             \* the requests clients send to this node
  Pushed,               \* those that arrive with X-LB-Hop >= MaxHops
  Prompts,              \* prompts, up to a shared prefix
  UrlPath,              \* the URL path, the same for every request
  PromptOf,             \* the prompt of each request, or UrlPath if it has none
  Peers,                \* the peer nodes in lb.peers
  Self,                 \* this node: the "nil peer" marker of the GORGO tree
  NoPeer,               \* Select returned nil
  NoRequest,            \* the processor holds no request
  Proc,                 \* the queue processor goroutine
  Admin,                \* the goroutine of a POST to /lb/config or /lb/policy
  InitialStrategy,      \* the strategy lb.Start runs with
  NewStrategies,        \* those the operator switches to at runtime
  QueueSettings,        \* the values of queue_enabled the operator uses
  MaxQueueSize,         \* 0 = unlimited
  RunningReqsThreshold, \* 0 = disabled
  UseIEQueueIndicator,
  MaxLoad,              \* MaxConcurrentRequests, or SGLang's own maximum
  BatchSize,            \* requests SGLang runs at once; the others wait there
  RequestTimeout,       \* of forwarded requests; the default is 0
  Faults                \* what may go wrong, see AllFaults

Strategies == {"least-loaded", "prefix-tree", "gorgo"}

\* A client disconnects; a peer breaks a connection or answers too late; an
\* answer of the local backend ends after its header; the node is stopped.
AllFaults == {"disconnect", "peerFailure", "truncation", "stop"}

ConstAssumption ==
  /\ IsFiniteSet(Requests) /\ Pushed \subseteq Requests
  /\ PromptOf \in [Requests -> Prompts \cup {UrlPath}] /\ UrlPath \notin Prompts
  /\ Self \notin Peers /\ NoPeer \notin Peers \cup {Self}
  /\ NoRequest \notin Requests /\ Proc \notin Requests
  /\ Admin \notin Peers
  /\ InitialStrategy \in Strategies /\ NewStrategies \subseteq Strategies
  /\ QueueSettings \subseteq BOOLEAN /\ QueueSettings # {}
  /\ MaxQueueSize \in Nat /\ RunningReqsThreshold \in Nat
  /\ UseIEQueueIndicator \in BOOLEAN
  /\ MaxLoad \in Nat /\ BatchSize \in Nat
  /\ RequestTimeout \in Nat /\ Faults \subseteq AllFaults

ASSUME ConstAssumption

VARIABLES
  pc,               \* where the handler goroutine of each request is
  target,           \* the peer its handler selected
  byPrompt,         \* requests routed by prompt: GORGO was in use
  gone,             \* requests whose client disconnected
  response,         \* what reached each http.ResponseWriter
  queue,            \* lb.queue
  queueMu,          \* "free", or "held" by the processor between two steps
  done,             \* requests whose qr.done channel is closed
  procPc,           \* where the queue processor is
  procReq,          \* the queued request it works on
  procTarget,       \* the node it sends that request to
  procCode,         \* the status code that node answered
  readers,          \* goroutines holding peersMu.RLock
  writers,          \* goroutines in peersMu.Lock
  running,          \* lb.runningRequests
  cache,            \* GORGO trees: the keys recorded for each node
  strategy,         \* lb.strategy
  newStrategy,      \* the strategy a SetStrategy call is about to store
  queueEnabled,     \* lb.config.QueueEnabled
  metrics,          \* lb.localMetrics
  peerStatus,       \* the AvailabilityStatus of each peer
  pollPc,           \* where the metrics poller is
  polling,          \* peers whose answer this round has not been stored
  total,            \* the aggregate counters
  stopping          \* lb.Stop was called: lb.ctx is cancelled

respVars  == <<byPrompt, response, total>>
procVars  == <<procPc, procReq, procTarget, procCode>>
queueVars == <<queue, queueMu, done>>
peerVars  == <<readers, writers, peerStatus>>
pollVars  == <<metrics, pollPc, polling>>
adminVars == <<strategy, newStrategy, queueEnabled, stopping>>
treeVars  == <<running, cache>>

vars == <<pc, target, gone, respVars, procVars, queueVars, peerVars,
          pollVars, adminVars, treeVars>>

-----------------------------------------------------------------------------
(* Types *)

HandlerPcs == {"idle", "local", "select", "selecting", "forward", "enqueue",
               "refused", "wait", "expired", "writing", "claimed", "body",
               "returned"}
ProcPcs == {"off", "idle", "loop", "head", "selecting", "tryLocal", "forward",
            "requeue", "serve", "reply", "replying", "claimed", "copying",
            "finish", "exited", "crashed"}
\* broken: a header of 2xx and a body that ends early.
Codes == {"none", "2xx", "error", "broken"}
\* claimed: headerWritten of the wrapper, set before net/http sees the header.
Responses == [claimed: BOOLEAN, headers: Nat, code: Codes]

\* usable: Healthy and GPUCacheUsage below its threshold.
Metrics == [polled: BOOLEAN, usable: BOOLEAN, running: Nat, waiting: Nat]
\* up: Available and Healthy; the load of a peer that is not up is never read.
Status == [up: BOOLEAN, total: Nat]
Counters == {"handled", "local", "forwarded", "queued", "rejected"}

TypeOK ==
  /\ pc \in [Requests -> HandlerPcs]
  /\ target \in [Requests -> Peers \cup {NoPeer}]
  /\ gone \subseteq Requests /\ byPrompt \subseteq Requests
  /\ response \in [Requests -> Responses]
  /\ queue \in Seq(Requests)
  /\ queueMu \in {"free", "held"}
  /\ done \subseteq Requests
  /\ procPc \in ProcPcs
  /\ procReq \in Requests \cup {NoRequest}
  /\ procTarget \in Peers \cup {Self, NoPeer}
  /\ procCode \in Codes
  /\ readers \subseteq Requests \cup {Proc}
  /\ writers \subseteq Peers \cup {Admin}
  /\ running \subseteq Requests
  /\ cache \subseteq (Prompts \cup {UrlPath}) \X (Peers \cup {Self})
  /\ strategy \in Strategies
  /\ newStrategy \in Strategies \cup {"none"}
  /\ queueEnabled \in BOOLEAN
  /\ metrics \in Metrics
  /\ peerStatus \in [Peers -> Status]
  /\ pollPc \in {"idle", "peers", "exited"}
  /\ polling \subseteq Peers
  /\ total \in [Counters -> Nat]
  /\ stopping \in BOOLEAN

-----------------------------------------------------------------------------
(* The state when ListenAndServe has called Start and serves its first     *)
(* request.  A queue that is disabled at that time has no processor.       *)

Init ==
  /\ pc = [r \in Requests |-> "idle"]
  /\ target = [r \in Requests |-> NoPeer]
  /\ gone = {} /\ byPrompt = {}
  /\ response = [r \in Requests |->
                   [claimed |-> FALSE, headers |-> 0, code |-> "none"]]
  /\ queue = <<>> /\ queueMu = "free" /\ done = {}
  /\ queueEnabled \in QueueSettings
  /\ procPc = IF queueEnabled THEN "idle" ELSE "off"
  /\ procReq = NoRequest /\ procTarget = NoPeer /\ procCode = "none"
  /\ readers = {} /\ writers = {}
  /\ running = {} /\ cache = {}
  /\ strategy = InitialStrategy /\ newStrategy = "none"
  /\ metrics = [polled |-> FALSE, usable |-> FALSE,
                running |-> 0, waiting |-> 0]
  /\ peerStatus = [p \in Peers |-> [up |-> TRUE, total |-> 0]]
  /\ pollPc = "idle" /\ polling = {}
  /\ total = [c \in Counters |-> 0]
  /\ stopping = FALSE

-----------------------------------------------------------------------------
(* Operators *)

Count(S) == [c \in Counters |-> IF c \in S THEN total[c] + 1 ELSE total[c]]

\* localHasCapacity
HasCapacity ==
  \/ ~metrics.polled
  \/ /\ metrics.usable
     /\ \/ /\ RunningReqsThreshold > 0
           /\ metrics.running < RunningReqsThreshold
        \/ /\ RunningReqsThreshold = 0 /\ UseIEQueueIndicator
           /\ metrics.waiting = 0
        \/ /\ RunningReqsThreshold = 0 /\ ~UseIEQueueIndicator
           /\ metrics.running + metrics.waiting < MaxLoad

Eligible == {p \in Peers : peerStatus[p].up}

\* LeastLoadedPolicy.Select; the order of lb.peers, a Go map, breaks ties.
LeastLoaded ==
  LET below == {p \in Eligible : peerStatus[p].total < MaxLoad}
  IN  {p \in below : \A q \in below :
                       peerStatus[p].total <= peerStatus[q].total}

\* requestPath: the prompt if GORGO was the strategy when it was computed.
Key(r) == IF r \in byPrompt THEN PromptOf[r] ELSE UrlPath

KeyedNow(r) == IF strategy = "gorgo" THEN byPrompt \cup {r} ELSE byPrompt \ {r}

Recorded(r) == {p \in Eligible : <<Key(r), p>> \in cache}

\* GORGOPolicy.Select compares the local cost with the cheapest peer's: the
\* peers recorded for the prompt if one is eligible, else every eligible peer.
\* Costs (latency, tokens, load) are abstracted: each answer is possible.
GorgoChoices(r) ==
  {NoPeer} \cup (IF Recorded(r) # {} THEN Recorded(r) ELSE Eligible)

OrNil(S) == IF S = {} THEN {NoPeer} ELSE S

\* The peers lb.strategy.Select may return for r.
Choices(r) ==
  CASE strategy = "least-loaded" -> OrNil(LeastLoaded)
    [] strategy = "prefix-tree"  -> OrNil(Recorded(r))
    [] strategy = "gorgo"        -> GorgoChoices(r)

\* peersMu.RLock: Go's RWMutex admits no reader while a writer waits.
CanRLock == writers = {}

\* calculateLocalCost locks queueMu, which the processor may hold.
CanPrice == strategy = "gorgo" => queueMu = "free"

\* Done() of r.Context(): the client left or ServeHTTP returned.
CtxDone(r) == r \in gone \/ pc[r] = "returned"

\* A WriteHeader that reaches net/http, which ignores all but the first.
WithHeader(r, code) ==
  [response EXCEPT ![r] = [claimed |-> TRUE, headers |-> @.headers + 1,
                           code |-> IF @.headers = 0 THEN code ELSE @.code]]

\* A Write of the body: net/http sends a header of 200 if there is none yet.
WithBody(r) ==
  IF response[r].headers = 0 THEN WithHeader(r, "2xx") ELSE response

\* C: the queue, if it is enabled.
QueueOrRefuse == IF queueEnabled THEN "enqueue" ELSE "refused"

QueueFull == MaxQueueSize > 0 /\ Len(queue) >= MaxQueueSize

Record(r, n) ==
  IF strategy = "gorgo" THEN cache \cup {<<Key(r), n>>} ELSE cache

\* A panic in the processor goroutine ends the process, with all the others.
Alive == procPc # "crashed"

Goto(r, from, to) == Alive /\ pc[r] = from /\ pc' = [pc EXCEPT ![r] = to]

-----------------------------------------------------------------------------
(* The handler of request r *)

\* A: process locally if we have capacity.
AdmitLocally(r) ==
  /\ HasCapacity
  /\ Goto(r, "idle", "local")
  /\ byPrompt' = KeyedNow(r)
  /\ total' = Count({"handled", "local"})
  /\ running' = running \cup {r}
  /\ UNCHANGED <<target, gone, response, procVars, queueVars, peerVars,
                 pollVars, adminVars, cache>>

\* Mutant of AtCapacity: the hop count of a pushed request is not looked at.
AtCapacityAnyHop(r) ==
  /\ ~HasCapacity
  /\ Goto(r, "idle", "select")
  /\ byPrompt' = KeyedNow(r)
  /\ total' = Count({"handled"})
  /\ UNCHANGED <<target, gone, response, procVars, queueVars, peerVars,
                 pollVars, adminVars, treeVars>>

\* B: forward only if MaxHops is not reached, C: otherwise queue.
AtCapacity(r) ==
  /\ ~HasCapacity
  /\ Goto(r, "idle", IF r \in Pushed THEN QueueOrRefuse ELSE "select")
  /\ byPrompt' = KeyedNow(r)
  /\ total' = Count({"handled"})
  /\ UNCHANGED <<target, gone, response, procVars, queueVars, peerVars,
                 pollVars, adminVars, treeVars>>

LocalDone(r, code) ==
  /\ r \in gone => code = "error"
  /\ Goto(r, "local", "returned")
  /\ response' = WithHeader(r, code)
  /\ running' = running \ {r}
  /\ cache' = IF code = "2xx" THEN Record(r, Self) ELSE cache
  /\ UNCHANGED <<target, gone, byPrompt, total, procVars, queueVars, peerVars,
                 pollVars, adminVars>>

\* The answer ends early, after its header: ReverseProxy panics with
\* ErrAbortHandler, which skips untrackRunningRequest, and net/http recovers.
LocalBreak(r) ==
  /\ "truncation" \in Faults \/ r \in gone
  /\ Goto(r, "local", "returned")
  /\ response' = WithHeader(r, "broken")
  /\ UNCHANGED <<target, gone, byPrompt, total, procVars, queueVars, peerVars,
                 pollVars, adminVars, treeVars>>

\* selectPeer: RLock, Select (which prices the queue under GORGO), RUnlock.
SelectLock(r) ==
  /\ CanRLock
  /\ Goto(r, "select", "selecting")
  /\ readers' = readers \cup {r}
  /\ UNCHANGED <<target, gone, respVars, procVars, queueVars, writers,
                 peerStatus, pollVars, adminVars, treeVars>>

SelectPeer(r, p) ==
  /\ CanPrice
  /\ p \in Choices(r)
  /\ Goto(r, "selecting", IF p = NoPeer THEN QueueOrRefuse ELSE "forward")
  /\ target' = [target EXCEPT ![r] = p]
  /\ readers' = readers \ {r}
  /\ UNCHANGED <<gone, respVars, procVars, queueVars, writers, peerStatus,
                 pollVars, adminVars, treeVars>>

\* context.WithTimeout(ctx, 0) returns a context that has expired already.
CanReachPeer == RequestTimeout > 0

\* forwardToTargetPeer got an HTTP answer, whatever its status code.
ForwardOK(r, code) ==
  /\ r \notin gone /\ CanReachPeer
  /\ Goto(r, "forward", "returned")
  /\ response' = WithHeader(r, code)
  /\ total' = Count({"forwarded"})
  /\ cache' = IF code = "2xx" THEN Record(r, target[r]) ELSE cache
  /\ target' = [target EXCEPT ![r] = NoPeer]
  /\ UNCHANGED <<gone, byPrompt, procVars, queueVars, peerVars, pollVars,
                 adminVars, running>>

\* httpClient.Do failed: the connection broke, the context is done.
ForwardFail(r) ==
  /\ "peerFailure" \in Faults \/ r \in gone \/ ~CanReachPeer
  /\ Goto(r, "forward", QueueOrRefuse)
  /\ target' = [target EXCEPT ![r] = NoPeer]
  /\ UNCHANGED <<gone, respVars, procVars, queueVars, peerVars,
                 pollVars, adminVars, treeVars>>

Enqueue(r) ==
  /\ queueMu = "free"
  /\ ~QueueFull
  /\ Goto(r, "enqueue", "wait")
  /\ queue' = Append(queue, r)
  /\ UNCHANGED <<target, gone, respVars, procVars, queueMu, done, peerVars,
                 pollVars, adminVars, treeVars>>

Reject(r) ==
  /\ \/ queueMu = "free" /\ QueueFull /\ Goto(r, "enqueue", "returned")
     \/ Goto(r, "refused", "returned")
  /\ response' = WithHeader(r, "error")
  /\ total' = Count({"rejected"})
  /\ UNCHANGED <<target, gone, byPrompt, procVars, queueVars, peerVars,
                 pollVars, adminVars, treeVars>>

\* The select of enqueueRequestWithTokens: qr.done, the timer, r.Context().
Served(r) ==
  /\ r \in done
  /\ Goto(r, "wait", "returned")
  /\ total' = Count({"queued"})
  /\ UNCHANGED <<target, gone, byPrompt, response, procVars, queueVars, peerVars,
                 pollVars, adminVars, treeVars>>

\* Mutant of QueueTimeout: no timer.
QueueTimeoutNever(r) == r # r

QueueTimeout(r) ==
  /\ Goto(r, "wait", "expired")
  /\ UNCHANGED <<target, gone, respVars, procVars, queueVars, peerVars,
                 pollVars, adminVars, treeVars>>

Cancelled(r) ==
  /\ r \in gone
  /\ Goto(r, "wait", "expired")
  /\ UNCHANGED <<target, gone, respVars, procVars, queueVars, peerVars,
                 pollVars, adminVars, treeVars>>

\* http.Error of a timed out or cancelled request: WriteHeader of the wrapper
\* tests headerWritten, sets it, and only then passes the status on, all with
\* no lock; the text that follows goes to net/http in any case.
ExpireCheck(r) ==
  /\ Goto(r, "expired", IF response[r].claimed THEN "body" ELSE "writing")
  /\ UNCHANGED <<target, gone, respVars, procVars, queueVars, peerVars,
                 pollVars, adminVars, treeVars>>

ExpireClaim(r) ==
  /\ Goto(r, "writing", "claimed")
  /\ response' = [response EXCEPT ![r].claimed = TRUE]
  /\ UNCHANGED <<target, gone, byPrompt, total, procVars, queueVars, peerVars,
                 pollVars, adminVars, treeVars>>

\* Mutant of ExpireWrite: a timeout counts as a rejection too.
ExpireWriteTwice(r) ==
  /\ \/ Goto(r, "claimed", "returned") /\ response' = WithHeader(r, "error")
     \/ Goto(r, "body", "returned") /\ response' = WithBody(r)
  /\ total' = Count({"queued", "rejected"})
  /\ UNCHANGED <<target, gone, byPrompt, procVars, queueVars, peerVars,
                 pollVars, adminVars, treeVars>>

ExpireWrite(r) ==
  /\ \/ Goto(r, "claimed", "returned") /\ response' = WithHeader(r, "error")
     \/ Goto(r, "body", "returned") /\ response' = WithBody(r)
  /\ total' = Count({"queued"})
  /\ UNCHANGED <<target, gone, byPrompt, procVars, queueVars, peerVars,
                 pollVars, adminVars, treeVars>>

\* The client closes its connection.  The handler sees r.Context() end only
\* where it waits for a backend, a peer or the processor.
Disconnect(r) ==
  /\ Alive /\ "disconnect" \in Faults
  /\ pc[r] \in {"local", "forward", "wait"}
  /\ r \notin gone
  /\ gone' = gone \cup {r}
  /\ UNCHANGED <<pc, target, respVars, procVars, queueVars, peerVars,
                 pollVars, adminVars, treeVars>>

-----------------------------------------------------------------------------
(* The queue processor: processQueue and processQueuedRequests *)

ProcTick ==
  /\ procPc = "idle"
  /\ procPc' = "loop"
  /\ UNCHANGED <<pc, target, gone, respVars, procReq, procTarget, procCode,
                 queueVars, peerVars, pollVars, adminVars, treeVars>>

ProcExit ==
  /\ stopping
  /\ procPc = "idle"
  /\ procPc' = "exited"
  /\ UNCHANGED <<pc, target, gone, respVars, procReq, procTarget, procCode,
                 queueVars, peerVars, pollVars, adminVars, treeVars>>

ProcEmpty ==
  /\ procPc = "loop" /\ queueMu = "free" /\ queue = <<>>
  /\ procPc' = "idle"
  /\ UNCHANGED <<pc, target, gone, respVars, procReq, procTarget, procCode,
                 queueVars, peerVars, pollVars, adminVars, treeVars>>

\* Takes queueMu and keeps it while it looks for a place for the head.
ProcHead ==
  /\ procPc = "loop" /\ queueMu = "free" /\ queue # <<>>
  /\ queueMu' = "held"
  /\ procReq' = Head(queue)
  /\ procPc' = IF Head(queue) \in Pushed THEN "tryLocal" ELSE "head"
  /\ byPrompt' = KeyedNow(Head(queue))
  /\ UNCHANGED <<pc, target, gone, response, total, procTarget, procCode,
                 queue, done, peerVars, pollVars, adminVars, treeVars>>

ProcSelectLock ==
  /\ procPc = "head" /\ CanRLock
  /\ readers' = readers \cup {Proc}
  /\ procPc' = "selecting"
  /\ UNCHANGED <<pc, target, gone, respVars, procReq, procTarget, procCode,
                 queueVars, writers, peerStatus, pollVars, adminVars,
                 treeVars>>

\* Mutant of ProcSelectPeer: the early return keeps the read lock.
ProcSelectPeerKeepsLock(p) ==
  /\ procPc = "selecting" /\ CanPrice
  /\ p \in Choices(procReq)
  /\ \/ /\ p = NoPeer
        /\ procPc' = "tryLocal"
        /\ UNCHANGED <<queue, queueMu, procTarget, readers>>
     \/ /\ p # NoPeer
        /\ readers' = readers \ {Proc}
        /\ queue' = Tail(queue)
        /\ queueMu' = "free"
        /\ procTarget' = p
        /\ procPc' = "forward"
  /\ UNCHANGED <<pc, target, gone, respVars, procReq, procCode, done,
                 writers, peerStatus, pollVars, adminVars, treeVars>>

ProcSelectPeer(p) ==
  /\ procPc = "selecting" /\ CanPrice
  /\ p \in Choices(procReq)
  /\ readers' = readers \ {Proc}
  /\ \/ /\ p = NoPeer
        /\ procPc' = "tryLocal"
        /\ UNCHANGED <<queue, queueMu, procTarget>>
     \/ /\ p # NoPeer
        /\ queue' = Tail(queue)
        /\ queueMu' = "free"
        /\ procTarget' = p
        /\ procPc' = "forward"
  /\ UNCHANGED <<pc, target, gone, respVars, procReq, procCode, done,
                 writers, peerStatus, pollVars, adminVars, treeVars>>

ProcTryLocal ==
  /\ procPc = "tryLocal"
  /\ queueMu' = "free"
  /\ \/ /\ HasCapacity
        /\ queue' = Tail(queue)
        /\ running' = running \cup {procReq}
        /\ procTarget' = Self
        /\ procPc' = "serve"
        /\ UNCHANGED procReq
     \/ /\ ~HasCapacity
        /\ procReq' = NoRequest
        /\ procPc' = "idle"
        /\ UNCHANGED <<queue, running, procTarget>>
  /\ UNCHANGED <<pc, target, gone, respVars, procCode, done, peerVars,
                 pollVars, adminVars, cache>>

\* forwardQueuedRequest sends with qr.r.Context(): once the handler has
\* returned or the client left, httpClient.Do fails.
ProcForwardOK(code) ==
  /\ procPc = "forward" /\ ~CtxDone(procReq) /\ CanReachPeer
  /\ procCode' = code
  /\ procPc' = "reply"
  /\ UNCHANGED <<pc, target, gone, respVars, procReq, procTarget, queueVars,
                 peerVars, pollVars, adminVars, treeVars>>

ProcForwardFail ==
  /\ procPc = "forward"
  /\ "peerFailure" \in Faults \/ CtxDone(procReq) \/ ~CanReachPeer
  /\ procPc' = "requeue"
  /\ UNCHANGED <<pc, target, gone, respVars, procReq, procTarget, procCode,
                 queueVars, peerVars, pollVars, adminVars, treeVars>>

\* Mutant of ProcRequeue: the request goes to the front.
ProcRequeueFirst ==
  /\ procPc = "requeue" /\ queueMu = "free"
  /\ queue' = <<procReq>> \o queue
  /\ procReq' = NoRequest
  /\ procTarget' = NoPeer
  /\ procPc' = "loop"
  /\ UNCHANGED <<pc, target, gone, respVars, procCode, queueMu, done,
                 peerVars, pollVars, adminVars, treeVars>>

\* Re-queues at the back, whatever the length of the queue.
ProcRequeue ==
  /\ procPc = "requeue" /\ queueMu = "free"
  /\ queue' = Append(queue, procReq)
  /\ procReq' = NoRequest
  /\ procTarget' = NoPeer
  /\ procPc' = "loop"
  /\ UNCHANGED <<pc, target, gone, respVars, procCode, queueMu, done,
                 peerVars, pollVars, adminVars, treeVars>>

ProcServe(code) ==
  /\ procPc = "serve"
  /\ CtxDone(procReq) => code = "error"
  /\ procCode' = code
  /\ procPc' = "reply"
  /\ UNCHANGED <<pc, target, gone, respVars, procReq, procTarget, queueVars,
                 peerVars, pollVars, adminVars, treeVars>>

\* The panic of LocalBreak, in a goroutine that nothing recovers.
ProcBreak ==
  /\ procPc = "serve"
  /\ "truncation" \in Faults \/ CtxDone(procReq)
  /\ procPc' = "crashed"
  /\ UNCHANGED <<pc, target, gone, respVars, procReq, procTarget, procCode,
                 queueVars, peerVars, pollVars, adminVars, treeVars>>

\* Mutant of ProcReplyCheck: the answer is not written.
ProcReplyNever ==
  /\ procPc = "reply"
  /\ procPc' = "finish"
  /\ UNCHANGED <<pc, target, gone, respVars, procReq, procTarget, procCode,
                 queueVars, peerVars, pollVars, adminVars, treeVars>>

\* WriteHeader on qr.w, which its handler may be writing too.
ProcReplyCheck ==
  /\ procPc = "reply"
  /\ procPc' = IF response[procReq].claimed THEN "copying" ELSE "replying"
  /\ UNCHANGED <<pc, target, gone, respVars, procReq, procTarget, procCode,
                 queueVars, peerVars, pollVars, adminVars, treeVars>>

ProcReplyClaim ==
  /\ procPc = "replying"
  /\ procPc' = "claimed"
  /\ response' = [response EXCEPT ![procReq].claimed = TRUE]
  /\ UNCHANGED <<pc, target, gone, byPrompt, total, procReq, procTarget, procCode,
                 queueVars, peerVars, pollVars, adminVars, treeVars>>

\* The status, if it was for the processor to write, and the body, which may
\* be empty.
ProcReplyWrite ==
  /\ \/ procPc = "claimed" /\ response' = WithHeader(procReq, procCode)
     \/ procPc = "copying" /\ response' \in {response, WithBody(procReq)}
  /\ procPc' = "finish"
  /\ UNCHANGED <<pc, target, gone, byPrompt, total, procReq, procTarget, procCode,
                 queueVars, peerVars, pollVars, adminVars, treeVars>>

\* Mutant of ProcFinish: no untrackRunningRequest.
ProcFinishTracked ==
  /\ procPc = "finish"
  /\ cache' = Record(procReq, procTarget)
  /\ done' = done \cup {procReq}
  /\ procReq' = NoRequest
  /\ procTarget' = NoPeer
  /\ procCode' = "none"
  /\ procPc' = "loop"
  /\ UNCHANGED <<pc, target, gone, respVars, queue, queueMu, peerVars,
                 pollVars, adminVars, running>>

\* Untracks, records the prompt for the node (no test of the status code) and
\* closes qr.done.
ProcFinish ==
  /\ procPc = "finish"
  /\ running' = running \ {procReq}
  /\ cache' = Record(procReq, procTarget)
  /\ done' = done \cup {procReq}
  /\ procReq' = NoRequest
  /\ procTarget' = NoPeer
  /\ procCode' = "none"
  /\ procPc' = "loop"
  /\ UNCHANGED <<pc, target, gone, respVars, queue, queueMu, peerVars,
                 pollVars, adminVars>>

-----------------------------------------------------------------------------
(* The metrics poller, as far as the request path sees it *)

\* pollLocalMetrics reads how many requests the local backend runs now.
\* After a failed poll the backend may or may not count as unhealthy.
PollLocal ==
  /\ Alive
  /\ pollPc = "idle"
  /\ pollPc' = "peers"
  /\ polling' = Peers
  /\ LET n == Cardinality(running)
     IN  \/ /\ ~stopping
            /\ \E cacheFull \in BOOLEAN :
                 metrics' = [polled |-> TRUE, usable |-> ~cacheFull,
                             running |-> IF n < BatchSize THEN n ELSE BatchSize,
                             waiting |-> IF n < BatchSize THEN 0
                                         ELSE n - BatchSize]
         \/ \E u \in {metrics.usable, FALSE} :
              metrics' = [metrics EXCEPT !.polled = TRUE, !.usable = u]
  /\ UNCHANGED <<pc, target, gone, respVars, procVars, queueVars, peerVars,
                 adminVars, treeVars>>

\* The answer of p, or its failure, has arrived: its goroutine locks peersMu.
PollPeerLock(p) ==
  /\ Alive
  /\ pollPc = "peers" /\ p \in polling /\ p \notin writers
  /\ writers' = writers \cup {p}
  /\ UNCHANGED <<pc, target, gone, respVars, procVars, queueVars, readers,
                 peerStatus, pollVars, adminVars, treeVars>>

\* What pollPeerMetrics and markPeerUnhealthy may store for a peer.
PolledStatus(old) ==
  {[up |-> TRUE, total |-> n] : n \in 0 .. (MaxLoad - 1)}
  \cup {old, [up |-> FALSE, total |-> 0]}

PollPeerStore(p, s) ==
  /\ Alive
  /\ p \in writers /\ readers = {}
  /\ s \in PolledStatus(peerStatus[p])
  /\ peerStatus' = [peerStatus EXCEPT ![p] = s]
  /\ writers' = writers \ {p}
  /\ polling' = polling \ {p}
  /\ UNCHANGED <<pc, target, gone, respVars, procVars, queueVars, readers,
                 metrics, pollPc, adminVars, treeVars>>

PollRoundDone ==
  /\ Alive
  /\ pollPc = "peers" /\ polling = {}
  /\ pollPc' = "idle"
  /\ UNCHANGED <<pc, target, gone, respVars, procVars, queueVars, peerVars,
                 metrics, polling, adminVars, treeVars>>

PollExit ==
  /\ Alive
  /\ pollPc = "idle" /\ stopping
  /\ pollPc' = "exited"
  /\ UNCHANGED <<pc, target, gone, respVars, procVars, queueVars, peerVars,
                 metrics, polling, adminVars, treeVars>>

-----------------------------------------------------------------------------
(* The operator *)

\* SetStrategy builds a policy with an empty tree, then takes peersMu.
SetStrategy(s) ==
  /\ Alive
  /\ newStrategy = "none"
  /\ newStrategy' = s
  /\ writers' = writers \cup {Admin}
  /\ UNCHANGED <<pc, target, gone, respVars, procVars, queueVars, readers,
                 peerStatus, pollVars, strategy, queueEnabled, stopping,
                 treeVars>>

StoreStrategy ==
  /\ Alive
  /\ Admin \in writers /\ readers = {}
  /\ strategy' = newStrategy
  /\ newStrategy' = "none"
  /\ cache' = {}
  /\ writers' = writers \ {Admin}
  /\ UNCHANGED <<pc, target, gone, respVars, procVars, queueVars, readers,
                 peerStatus, pollVars, queueEnabled, stopping, running>>

\* handleConfigEndpoint with queue_enabled.
SetQueueEnabled(b) ==
  /\ Alive
  /\ b # queueEnabled
  /\ queueEnabled' = b
  /\ UNCHANGED <<pc, target, gone, respVars, procVars, queueVars, peerVars,
                 pollVars, strategy, newStrategy, stopping, treeVars>>

\* handleCacheClearEndpoint: ClearCache of the strategy in use.
ClearCache ==
  /\ Alive
  /\ strategy # "least-loaded" /\ cache # {}
  /\ cache' = {}
  /\ UNCHANGED <<pc, target, gone, respVars, procVars, queueVars, peerVars,
                 pollVars, adminVars, running>>

\* Stop cancels lb.ctx and waits for the processor and the poller.
Stop ==
  /\ Alive /\ "stop" \in Faults /\ ~stopping
  /\ stopping' = TRUE
  /\ UNCHANGED <<pc, target, gone, respVars, procVars, queueVars, peerVars,
                 pollVars, strategy, newStrategy, queueEnabled, treeVars>>

-----------------------------------------------------------------------------

\* The goroutine of request r once net/http has started it.
HandlerStep(r) ==
  \/ \E code \in {"2xx", "error"} : LocalDone(r, code) \/ ForwardOK(r, code)
  \/ LocalBreak(r) \/ SelectLock(r)
  \/ \E p \in Peers \cup {NoPeer} : SelectPeer(r, p)
  \/ ForwardFail(r) \/ Enqueue(r) \/ Reject(r)
  \/ Served(r) \/ QueueTimeout(r) \/ Cancelled(r)
  \/ ExpireCheck(r) \/ ExpireClaim(r) \/ ExpireWrite(r)

Arrive(r) == AdmitLocally(r) \/ AtCapacity(r)

Processor ==
  \/ ProcTick \/ ProcExit \/ ProcEmpty \/ ProcHead \/ ProcSelectLock
  \/ \E p \in Peers \cup {NoPeer} : ProcSelectPeer(p)
  \/ ProcTryLocal
  \/ \E code \in {"2xx", "error"} : ProcForwardOK(code) \/ ProcServe(code)
  \/ ProcForwardFail \/ ProcRequeue \/ ProcBreak
  \/ ProcReplyCheck \/ ProcReplyClaim \/ ProcReplyWrite \/ ProcFinish

PollPeer(p) ==
  \/ PollPeerLock(p)
  \/ \E s \in PolledStatus(peerStatus[p]) : PollPeerStore(p, s)

Poller ==
  \/ PollLocal \/ PollRoundDone \/ PollExit
  \/ \E p \in Peers : PollPeer(p)

Operator ==
  \/ \E s \in NewStrategies : SetStrategy(s)
  \/ StoreStrategy
  \/ \E b \in QueueSettings : SetQueueEnabled(b)
  \/ ClearCache
  \/ Stop

Next ==
  \/ \E r \in Requests : Arrive(r) \/ HandlerStep(r) \/ Disconnect(r)
  \/ Processor
  \/ Poller
  \/ Operator

Spec == Init /\ [][Next]_vars

\* Go schedules every goroutine (WF) and its mutexes let no waiter starve (SF);
\* a writer of an RWMutex admits no further readers, so WF is enough for it.
\* The backends and peers answer or fail.  Nothing makes a client send or
\* leave, or the operator act.
Fairness ==
  /\ \A r \in Requests : SF_vars(HandlerStep(r))
  /\ SF_vars(Processor)
  /\ WF_vars(PollLocal \/ PollRoundDone)
  /\ \A p \in Peers : WF_vars(PollPeer(p))
  /\ WF_vars(StoreStrategy)

FairSpec == Spec /\ Fairness

-----------------------------------------------------------------------------
(* What the queue promises *)

InQueue(r) == \E i \in 1 .. Len(queue) : queue[i] = r

\* The processor has taken r off the queue and is not done with it.
Held(r) ==
  /\ procReq = r
  /\ procPc \in {"forward", "requeue", "serve", "reply", "replying", "claimed",
                "copying", "finish", "crashed"}

\* The queue, its processor and the qr.done channels implement the abstract
\* queue: first in first out but for the requests put back, one request in
\* service, none in two places, none completed twice (a second close(qr.done)
\* would panic).
Q == INSTANCE AdmissionQueue WITH
       Items <- Requests, Limit <- MaxQueueSize, OneAtATime <- TRUE,
       waiting <- queue,
       inService <- {r \in Requests : Held(r)}, settled <- done

ImplementsAdmissionQueue == Q!QSpec

\* enqueueRequestWithTokens bounds the queue by max_queue_size, but a failed
\* forward is re-queued without that test: with one processor the queue
\* exceeds its limit by one request at most.
QueueBound == MaxQueueSize > 0 => Len(queue) <= MaxQueueSize + 1

\* A request is in one place: once in the queue, or with the processor, or
\* finished.  Were it in two, close(qr.done) would run twice and panic.
SingleCustody ==
  /\ \A i, j \in 1 .. Len(queue) : queue[i] = queue[j] => i = j
  /\ \A r \in Requests : Held(r) => ~InQueue(r)
  /\ \A r \in done : ~InQueue(r) /\ ~Held(r)

\* A handler blocked on qr.done waits for something that can still happen:
\* its request is queued, or with the processor, or qr.done is closed.
NoLostWaiter ==
  \A r \in Requests : pc[r] = "wait" => InQueue(r) \/ Held(r) \/ r \in done

\* The processor pops queue[0] some steps after it chose the head; the entry
\* it pops is the one it found a place for.
PopsItsHead ==
  procPc \in {"head", "selecting", "tryLocal"} =>
    queueMu = "held" /\ queue # <<>> /\ Head(queue) = procReq

-----------------------------------------------------------------------------
(* What clients and operators may rely on *)

\* The aggregate counters of /lb/status: every request handled is in exactly
\* one of the four outcomes, or still being routed.
Accounting ==
  total["handled"] =
    total["local"] + total["forwarded"] + total["queued"] + total["rejected"]
    + Cardinality({r \in Requests : pc[r] \notin {"idle", "local", "returned"}})

\* runningRequests, which GORGO prices, holds the requests at the local
\* backend and no other, but for those whose answer broke off in a handler:
\* ErrAbortHandler skips untrackRunningRequest, and they stay for ever.
RunningExact ==
  running = {r \in Requests :
               \/ pc[r] = "local"
               \/ Held(r) /\ procTarget = Self
               \/ response[r].code = "broken"}

\* A handler never returns without having written a status: net/http would
\* answer 200 with an empty body, for a request that may not have been run.
NoSilentReturn ==
  \A r \in Requests : pc[r] = "returned" => response[r].headers > 0

\* A request that already made its hop is never sent to another node, from
\* the handler or from the queue.
PushedStaysHere ==
  \A r \in Pushed :
    /\ pc[r] \notin {"select", "selecting", "forward"}
    /\ ~(Held(r) /\ procTarget \in Peers)

\* Every request a handler has started on is answered, unless the process
\* dies: by the backend, by a peer, by a rejection or by a timeout.
EveryRequestAnswered ==
  \A r \in Requests :
    pc[r] # "idle" ~> pc[r] = "returned" \/ procPc = "crashed"

\* The metrics poller never hangs on the locks of the request path: health
\* data is refreshed again and again, or the poller has been stopped.
PollingContinues == []<>(pollPc # "peers" \/ procPc = "crashed")

=============================================================================
