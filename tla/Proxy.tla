------------------------------- MODULE Proxy -------------------------------
(***************************************************************************)
(* The centralized proxy in front of a pool of SGLang servers              *)
(* (pkg/proxy/proxy.go): the handler of each request, the global queue and *)
(* its processor, the goroutines the processor starts, the server pool and *)
(* the metrics poller.                                                     *)
(*                                                                         *)
(* forwardToServer runs in the handler of a request or, once the request   *)
(* has been queued, in a goroutine of its own; fwd is where it is, and it  *)
(* is the handler's as long as pc is "forward".  Steps are split where a   *)
(* lock is released or another process is waited for.                      *)
(*                                                                         *)
(* The measured latency of a server is part of its cost and may be         *)
(* anything, so any server with capacity may be the cheapest.              *)
(***************************************************************************)
EXTENDS Integers, Sequences, FiniteSets

CONSTANTS
  Requests,
  Servers,               \* SGLangServer objects: one added again is a new one
  AddressOf,             \* IP, port and so the ID of each
  InitialServers,        \* those the command line names
  NoServer,              \* selectServer returned nil
  NoRequest,             \* the processor holds no request
  QueueEnabled,
  MaxQueueSize,          \* 0 = unlimited
  CapacityGatingEnabled,
  MaxRunningPerServer,   \* 0 = unlimited
  UnhealthyThreshold,
  CacheReadings          \* whether polls find GPUCacheUsage at its threshold

ProxyAssumption ==
  /\ IsFiniteSet(Requests) /\ NoRequest \notin Requests
  /\ NoServer \notin Servers
  /\ InitialServers \subseteq Servers
  /\ \A s, t \in InitialServers : AddressOf[s] = AddressOf[t] => s = t
  /\ QueueEnabled \in BOOLEAN /\ CapacityGatingEnabled \in BOOLEAN
  /\ MaxQueueSize \in Nat /\ MaxRunningPerServer \in Nat
  /\ UnhealthyThreshold \in Nat \ {0}
  /\ CacheReadings \subseteq BOOLEAN

ASSUME ProxyAssumption

VARIABLES
  pc,         \* where the handler of each request is
  fwd,        \* where forwardToServer is for it; at the end, what it returned
  at,         \* the server it forwards to, until that has answered
  tries,      \* how often the request was sent to a server
  response,   \* who wrote the status the client sees
  queue,      \* p.queue
  procPc,     \* where the queue processor is
  procReq,    \* the queue head it looks at
  procServer, \* the server it selected for it
  pool,       \* p.servers
  known,      \* the objects that were ever in the pool
  running,    \* runningRequests of each server
  fails,      \* Metrics.ConsecutiveFails, up to the threshold
  healthy,    \* Metrics.Healthy
  cacheFull,  \* Metrics.GPUCacheUsage >= GPUCacheThreshold
  stopping,   \* p.ctx is cancelled
  crashed     \* a goroutine panicked: the process is gone

reqVars    == <<pc, fwd, at, tries, response>>
procVars   == <<procPc, procReq, procServer>>
poolVars   == <<pool, known>>
healthVars == <<fails, healthy, cacheFull>>

vars == <<reqVars, queue, procVars, poolVars, running, healthVars,
          stopping, crashed>>

-----------------------------------------------------------------------------
(* Types, and that no nil server is ever forwarded to *)

HandlerPcs == {"idle", "forward", "unplaced", "wait", "expired", "returned"}
UnderWay   == {"picked", "sent", "answered", "copying"}
FwdStates  == {"none", "ok", "failed"} \cup UnderWay
ProcPcs    == {"off", "idle", "loop", "head", "chosen", "exited"}

TypeOK ==
  /\ pc \in [Requests -> HandlerPcs]
  /\ fwd \in [Requests -> FwdStates]
  /\ at \in [Requests -> Servers \cup {NoServer}]
  /\ \A r \in Requests : fwd[r] \in {"picked", "sent"} => at[r] \in Servers
  /\ tries \in [Requests -> Nat]
  /\ response \in [Requests -> {"none", "server", "proxy"}]
  /\ queue \in Seq(Requests)
  /\ procPc \in ProcPcs
  /\ procReq \in Requests \cup {NoRequest}
  /\ procServer \in Servers \cup {NoServer}
  /\ procPc \in {"head", "chosen"} => procReq \in Requests
  /\ procPc = "chosen" => procServer \in Servers
  /\ pool \subseteq known /\ known \subseteq Servers
  /\ running \in [Servers -> SUBSET Requests]
  /\ fails \in [Servers -> 0 .. UnhealthyThreshold]
  /\ healthy \in [Servers -> BOOLEAN]
  /\ cacheFull \in [Servers -> BOOLEAN]
  /\ stopping \in BOOLEAN /\ crashed \in BOOLEAN

-----------------------------------------------------------------------------
(* The state when Start has returned *)

Init ==
  /\ pc = [r \in Requests |-> "idle"]
  /\ fwd = [r \in Requests |-> "none"]
  /\ at = [r \in Requests |-> NoServer]
  /\ tries = [r \in Requests |-> 0]
  /\ response = [r \in Requests |-> "none"]
  /\ queue = <<>>
  /\ procPc = IF QueueEnabled THEN "idle" ELSE "off"
  /\ procReq = NoRequest /\ procServer = NoServer
  /\ pool = InitialServers /\ known = InitialServers
  /\ running = [s \in Servers |-> {}]
  /\ fails = [s \in Servers |-> 0]
  /\ healthy = [s \in Servers |-> TRUE]
  /\ cacheFull = [s \in Servers |-> FALSE]
  /\ stopping = FALSE /\ crashed = FALSE

-----------------------------------------------------------------------------
(* Operators *)

\* The count includes what forwardToServer has tracked, not what has been
\* selected and is not tracked yet.
HasCapacity(s) ==
  /\ healthy[s] /\ ~cacheFull[s]
  /\ CapacityGatingEnabled /\ MaxRunningPerServer > 0 =>
       Cardinality(running[s]) < MaxRunningPerServer

Candidates == {s \in pool : HasCapacity(s)}

\* What selectServer may return.
Choices == IF Candidates = {} THEN {NoServer} ELSE Candidates

QueueFull == MaxQueueSize > 0 /\ Len(queue) >= MaxQueueSize

\* net/http sends the first status that is written while the handler runs.
Written(r, who) ==
  IF response[r] = "none" /\ pc[r] # "returned"
    THEN [response EXCEPT ![r] = who]
    ELSE response

Alive == ~crashed

Goto(r, from, to) == Alive /\ pc[r] = from /\ pc' = [pc EXCEPT ![r] = to]

Fwd(r, from, to) == Alive /\ fwd[r] = from /\ fwd' = [fwd EXCEPT ![r] = to]

-----------------------------------------------------------------------------
(* The handler *)

Arrive(r, s) ==
  /\ s \in Choices
  /\ at' = [at EXCEPT ![r] = s]
  /\ \/ s = NoServer /\ Goto(r, "idle", "unplaced") /\ UNCHANGED fwd
     \/ s # NoServer /\ Goto(r, "idle", "forward") /\ Fwd(r, "none", "picked")
  /\ UNCHANGED <<tries, response, queue, procVars, poolVars, running,
                 healthVars, stopping, crashed>>

Forwarded(r) ==
  /\ Goto(r, "forward", "returned") /\ Fwd(r, "ok", "none")
  /\ UNCHANGED <<at, tries, response, queue, procVars, poolVars, running,
                 healthVars, stopping, crashed>>

\* A forward that failed has written nothing to the client.
Unplaced(r) ==
  /\ Goto(r, "forward", "unplaced") /\ Fwd(r, "failed", "none")
  /\ UNCHANGED <<at, tries, response, queue, procVars, poolVars, running,
                 healthVars, stopping, crashed>>

Enqueue(r) ==
  /\ QueueEnabled /\ ~QueueFull
  /\ Goto(r, "unplaced", "wait")
  /\ queue' = Append(queue, r)
  /\ UNCHANGED <<fwd, at, tries, response, procVars, poolVars, running,
                 healthVars, stopping, crashed>>

Reject(r) ==
  /\ QueueEnabled => QueueFull
  /\ Goto(r, "unplaced", "returned")
  /\ response' = Written(r, "proxy")
  /\ UNCHANGED <<fwd, at, tries, queue, procVars, poolVars, running,
                 healthVars, stopping, crashed>>

\* Mutant of Wake: qr.err is not looked at.
WakeSilent(r) ==
  /\ fwd[r] \in {"ok", "failed"}
  /\ Goto(r, "wait", "returned")
  /\ UNCHANGED <<fwd, at, tries, response, queue, procVars, poolVars, running,
                 healthVars, stopping, crashed>>

\* qr.done is closed; qr.err is set if the forward failed.
Wake(r) ==
  /\ fwd[r] \in {"ok", "failed"}
  /\ Goto(r, "wait", "returned")
  /\ response' = IF fwd[r] = "failed" THEN Written(r, "proxy") ELSE response
  /\ UNCHANGED <<fwd, at, tries, queue, procVars, poolVars, running,
                 healthVars, stopping, crashed>>

\* The queue timer fires, or the client is gone: the request stays in the queue.
Expire(r) ==
  /\ Goto(r, "wait", "expired")
  /\ UNCHANGED <<fwd, at, tries, response, queue, procVars, poolVars, running,
                 healthVars, stopping, crashed>>

ExpireReturn(r) ==
  /\ Goto(r, "expired", "returned")
  /\ response' = Written(r, "proxy")
  /\ UNCHANGED <<fwd, at, tries, queue, procVars, poolVars, running,
                 healthVars, stopping, crashed>>

-----------------------------------------------------------------------------
(* forwardToServer, in the handler or in a goroutine of the processor *)

\* Tracks the request as running and sends it.
Track(r) ==
  /\ Fwd(r, "picked", "sent")
  /\ running' = [running EXCEPT ![at[r]] = @ \cup {r}]
  /\ tries' = [tries EXCEPT ![r] = @ + 1]
  /\ UNCHANGED <<pc, at, response, queue, procVars, poolVars, healthVars,
                 stopping, crashed>>

\* The server sent its header: the request counts as running no longer, though
\* its body is still to come.
Answer(r) ==
  /\ Fwd(r, "sent", "answered")
  /\ running' = [running EXCEPT ![at[r]] = @ \ {r}]
  /\ at' = [at EXCEPT ![r] = NoServer]
  /\ UNCHANGED <<pc, tries, response, queue, procVars, poolVars,
                 healthVars, stopping, crashed>>

\* Mutant of Fail: returns before the request is untracked.
FailTracked(r) ==
  /\ Fwd(r, "picked", "failed") \/ Fwd(r, "sent", "failed")
  /\ at' = [at EXCEPT ![r] = NoServer]
  /\ UNCHANGED <<pc, tries, response, queue, procVars, poolVars, running,
                 healthVars, stopping, crashed>>

\* No request could be made of the URL, or Do returned an error.
Fail(r) ==
  /\ Fwd(r, "picked", "failed") \/ Fwd(r, "sent", "failed")
  /\ running' = [running EXCEPT ![at[r]] = @ \ {r}]
  /\ at' = [at EXCEPT ![r] = NoServer]
  /\ UNCHANGED <<pc, tries, response, queue, procVars, poolVars,
                 healthVars, stopping, crashed>>

WriteHeader(r) ==
  /\ Fwd(r, "answered", "copying")
  /\ response' = Written(r, "server")
  /\ UNCHANGED <<pc, at, tries, queue, procVars, poolVars, running,
                 healthVars, stopping, crashed>>

\* io.Copy ends, with the body or with an error nobody looks at.
Copied(r) ==
  /\ Fwd(r, "copying", "ok")
  /\ UNCHANGED <<pc, at, tries, response, queue, procVars, poolVars, running,
                 healthVars, stopping, crashed>>

\* The goroutine uses the ResponseWriter of a handler that is writing to it too
\* or has returned: a concurrent map write or a nil writer inside net/http may
\* end the process.
LateWriteCrash(r) ==
  /\ Alive
  /\ fwd[r] \in {"answered", "copying"}
  /\ pc[r] \in {"expired", "returned"}
  /\ crashed' = TRUE
  /\ UNCHANGED <<reqVars, queue, procVars, poolVars, running, healthVars,
                 stopping>>

-----------------------------------------------------------------------------
(* The queue processor *)

ProcGoto(from, to) == Alive /\ procPc = from /\ procPc' = to

ProcTick ==
  /\ ProcGoto("idle", "loop")
  /\ UNCHANGED <<reqVars, queue, procReq, procServer, poolVars, running,
                 healthVars, stopping, crashed>>

ProcExit ==
  /\ stopping
  /\ ProcGoto("idle", "exited")
  /\ UNCHANGED <<reqVars, queue, procReq, procServer, poolVars, running,
                 healthVars, stopping, crashed>>

ProcEmpty ==
  /\ queue = <<>>
  /\ ProcGoto("loop", "idle")
  /\ UNCHANGED <<reqVars, queue, procReq, procServer, poolVars, running,
                 healthVars, stopping, crashed>>

ProcHead ==
  /\ queue # <<>>
  /\ ProcGoto("loop", "head")
  /\ procReq' = Head(queue)
  /\ UNCHANGED <<reqVars, queue, procServer, poolVars, running, healthVars,
                 stopping, crashed>>

\* Mutant of ProcSelect: a head without a server goes to the end of the queue.
ProcSelectSkip(s) ==
  /\ s \in Choices
  /\ procServer' = s
  /\ \/ /\ s = NoServer /\ ProcGoto("head", "idle") /\ procReq' = NoRequest
        /\ queue' = Append(Tail(queue), procReq)
     \/ s # NoServer /\ ProcGoto("head", "chosen") /\ UNCHANGED <<procReq, queue>>
  /\ UNCHANGED <<reqVars, poolVars, running, healthVars, stopping, crashed>>

\* With no server for the head, the whole queue waits for the next tick.
ProcSelect(s) ==
  /\ s \in Choices
  /\ procServer' = s
  /\ \/ s = NoServer /\ ProcGoto("head", "idle") /\ procReq' = NoRequest
     \/ s # NoServer /\ ProcGoto("head", "chosen") /\ UNCHANGED procReq
  /\ UNCHANGED <<reqVars, queue, poolVars, running, healthVars,
                 stopping, crashed>>

\* Removes the entry, if it is still the head, and starts a goroutine for it.
\* The processor goes on before that goroutine has tracked the request.
ProcPop ==
  /\ ProcGoto("chosen", "loop")
  /\ queue' = IF queue # <<>> /\ Head(queue) = procReq
                THEN Tail(queue) ELSE queue
  /\ fwd' = [fwd EXCEPT ![procReq] = "picked"]
  /\ at' = [at EXCEPT ![procReq] = procServer]
  /\ procReq' = NoRequest /\ procServer' = NoServer
  /\ UNCHANGED <<pc, tries, response, poolVars, running, healthVars,
                 stopping, crashed>>

-----------------------------------------------------------------------------
(* The server pool and the metrics poller *)

AddServer(s) ==
  /\ Alive /\ s \notin known
  /\ \A t \in pool : AddressOf[t] # AddressOf[s]
  /\ pool' = pool \cup {s} /\ known' = known \cup {s}
  /\ UNCHANGED <<reqVars, queue, procVars, running, healthVars,
                 stopping, crashed>>

RemoveServer(s) ==
  /\ Alive /\ s \in pool
  /\ pool' = pool \ {s}
  /\ UNCHANGED <<reqVars, queue, procVars, known, running, healthVars,
                 stopping, crashed>>

\* pollServerMetrics stores an answer.  A round polls every server at once and
\* waits for all, so the polls of one server never overlap; what the poll of a
\* removed server stores is never read again.  (After Stop only the round under
\* way still stores; the model lets polls go on.)
PollOk(s, full) ==
  /\ Alive /\ s \in pool
  /\ fails' = [fails EXCEPT ![s] = 0]
  /\ healthy' = [healthy EXCEPT ![s] = TRUE]
  /\ cacheFull' = [cacheFull EXCEPT ![s] = full]
  /\ UNCHANGED <<reqVars, queue, procVars, poolVars, running,
                 stopping, crashed>>

\* markServerUnhealthy.
PollFail(s) ==
  /\ Alive /\ s \in pool
  /\ LET n == IF fails[s] < UnhealthyThreshold THEN fails[s] + 1 ELSE fails[s]
     IN  /\ fails' = [fails EXCEPT ![s] = n]
         /\ healthy' = [healthy EXCEPT ![s] = @ /\ n < UnhealthyThreshold]
  /\ UNCHANGED <<reqVars, queue, procVars, poolVars, running, cacheFull,
                 stopping, crashed>>

\* Stop waits for processor, poller and prober, not for the forwards.
Stop ==
  /\ Alive /\ ~stopping
  /\ stopping' = TRUE
  /\ UNCHANGED <<reqVars, queue, procVars, poolVars, running, healthVars,
                 crashed>>

-----------------------------------------------------------------------------

HandlerStep(r) ==
  Forwarded(r) \/ Unplaced(r) \/ Enqueue(r) \/ Reject(r)
  \/ Wake(r) \/ Expire(r) \/ ExpireReturn(r)

ForwardStep(r) ==
  Track(r) \/ Answer(r) \/ Fail(r) \/ WriteHeader(r) \/ Copied(r)

Processor ==
  \/ ProcTick \/ ProcExit \/ ProcEmpty \/ ProcHead \/ ProcPop
  \/ \E s \in Servers \cup {NoServer} : ProcSelect(s)

Poller ==
  \E s \in Servers : PollFail(s) \/ \E full \in CacheReadings : PollOk(s, full)

Next ==
  \/ \E r \in Requests : \/ \E s \in Servers \cup {NoServer} : Arrive(r, s)
                         \/ HandlerStep(r) \/ ForwardStep(r)
                         \/ LateWriteCrash(r)
  \/ Processor
  \/ Poller
  \/ \E s \in Servers : AddServer(s) \/ RemoveServer(s)
  \/ Stop

Spec == Init /\ [][Next]_vars

\* Go schedules every goroutine; the timeout of the HTTP client ends every
\* forward, whatever the server does.  No step waits for another one's lock.
Fairness ==
  /\ \A r \in Requests : WF_vars(HandlerStep(r)) /\ WF_vars(ForwardStep(r))
  /\ WF_vars(Processor)

FairSpec == Spec /\ Fairness

-----------------------------------------------------------------------------
(* Properties *)

InQueue(r) == \E i \in 1 .. Len(queue) : queue[i] = r

\* The goroutine of the processor is at work on r; or has closed qr.done.
Dispatched(r) == pc[r] # "forward" /\ fwd[r] \in UnderWay
Finished(r)   == pc[r] # "forward" /\ fwd[r] \in {"ok", "failed"}

\* The proxy's queue is an AdmissionQueue whose items are served in parallel:
\* first in first out, never over its limit, no request dispatched twice from
\* it, no qr.done closed twice, although its processor lets go of the lock
\* between reading the head and removing it.
Q == INSTANCE AdmissionQueue WITH
       Items <- Requests, Limit <- MaxQueueSize, OneAtATime <- FALSE,
       waiting <- queue, inService <- {r \in Requests : Dispatched(r)},
       settled <- {r \in Requests : Finished(r)}

ImplementsAdmissionQueue == Q!QSpec

\* A handler that waits for qr.done has its request in the queue, with a
\* goroutine, or finished.
NoLostWaiter ==
  \A r \in Requests :
    pc[r] = "wait" => InQueue(r) \/ Dispatched(r) \/ Finished(r)

\* No handler returns without a status: the client would get 200 and an empty
\* body from net/http.
NoSilentReturn == \A r \in Requests : pc[r] = "returned" => response[r] # "none"

\* A prompt is sent to a server once, and once more only if its handler failed
\* to forward it and queued it.  A client that has the answer of a server causes
\* no further work.
AtMostOneRetry ==
  \A r \in Requests :
    tries[r] <= IF pc[r] \in {"wait", "expired", "returned"} THEN 2 ELSE 1

\* Taking a server out of the pool lets its requests end: from some time on
\* nothing is counted as running there.
RemovedServersDrain ==
  \A s \in Servers :
    [](s \in known \ pool => <>[](running[s] = {} \/ crashed))

=============================================================================
