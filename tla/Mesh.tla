-------------------------------- MODULE Mesh --------------------------------
(***************************************************************************)
(* Several load balancers that are each other's peers.  LoadBalancer       *)
(* models one node in full; here every node keeps its queue and its single *)
(* processor goroutine, and the subject is what crosses nodes: an HTTP     *)
(* exchange (a visit) whose handler or processor waits for a visit to      *)
(* another node, which carries X-LB-Hop + 1.                               *)
(***************************************************************************)
EXTENDS Naturals, SequencesExt

CONSTANTS
  Nodes,        \* the load balancers
  Visits,       \* numbers of HTTP exchanges, with clients or between nodes
  Clients,      \* the requests of clients; each is one visit to some node
  Home,         \* the node each client sends its request to
  Nobody,       \* no visit, no caller
  MaxHops, MaxQueueSize,
  MaxRuns       \* cap on the executions counted for a request

MeshAssumption ==
  /\ Visits \subseteq Nat /\ Visits \cap Clients = {}
  /\ Nobody \notin Visits \cup Clients \cup Nodes
  /\ Home \in [Clients -> Nodes]
  /\ MaxHops \in Nat /\ MaxQueueSize \in Nat \ {0} /\ MaxRuns \in Nat \ {0}

ASSUME MeshAssumption

VARIABLES
  state,    \* where the handler of each visit is
  node,     \* the node it runs on
  hop,      \* its X-LB-Hop
  caller,   \* the client, or the visit that was forwarded
  client,   \* the client whose request it carries
  child,    \* the visit its handler, or its processor, waits for
  queue,    \* lb.queue of each node
  proc,     \* the queued visit each processor works on
  done,     \* visits whose qr.done is closed
  runs,     \* how often a backend has begun to execute each client's request
  retried   \* client requests of which a node gave up on an exchange

\* What is settled when a visit begins.
origin == <<node, hop, caller, client>>

vars == <<state, origin, child, queue, proc, done, runs, retried>>

States == {"free", "arrived", "local", "forward", "enqueue", "wait", "ended"}

TypeOK ==
  /\ state \in [Visits -> States]
  /\ node \in [Visits -> Nodes \cup {Nobody}]
  /\ hop \in [Visits -> Nat]
  /\ caller \in [Visits -> Visits \cup Clients \cup {Nobody}]
  /\ client \in [Visits -> Clients \cup {Nobody}]
  /\ child \in [Visits -> Visits \cup {Nobody}]
  /\ queue \in [Nodes -> Seq(Visits)]
  /\ proc \in [Nodes -> Visits \cup {Nobody}]
  /\ done \subseteq Visits
  /\ runs \in [Clients -> 0 .. MaxRuns] /\ retried \subseteq Clients

Init ==
  /\ state = [v \in Visits |-> "free"]
  /\ node = [v \in Visits |-> Nobody] /\ hop = [v \in Visits |-> 0]
  /\ caller = [v \in Visits |-> Nobody] /\ client = [v \in Visits |-> Nobody]
  /\ child = [v \in Visits |-> Nobody]
  /\ queue = [n \in Nodes |-> <<>>] /\ proc = [n \in Nodes |-> Nobody]
  /\ done = {} /\ runs = [c \in Clients |-> 0] /\ retried = {}

-----------------------------------------------------------------------------

\* r.Context() of a visit is done: its caller no longer waits for it.
CtxDone(v) ==
  \/ state[v] = "ended"
  \/ caller[v] \in Visits /\ child[caller[v]] # v

\* Visits are numbered as they begin; a visit between nodes carries the request
\* of the visit that is forwarded.
Open(c, n, h, from, r) ==
  /\ state[c] = "free" /\ \A x \in Visits : x < c => state[x] # "free"
  /\ node' = [node EXCEPT ![c] = n]
  /\ hop' = [hop EXCEPT ![c] = h]
  /\ caller' = [caller EXCEPT ![c] = from]
  /\ client' = [client EXCEPT ![c] = r]

Execute(v) ==
  runs' = [runs EXCEPT ![client[v]] = IF @ < MaxRuns THEN @ + 1 ELSE @]

\* What a node may do next with a visit: its metrics, and with them capacity
\* and routing, are abstracted to a choice.
Goto(v, from, to) == state[v] = from /\ state' = [state EXCEPT ![v] = to]

-----------------------------------------------------------------------------
(* Handlers *)

Send(v, r) ==
  /\ \A x \in Visits : caller[x] # r
  /\ Open(v, Home[r], 0, r, r)
  /\ state' = [state EXCEPT ![v] = "arrived"]
  /\ UNCHANGED <<child, queue, proc, done, runs, retried>>

RunLocally(v) ==
  /\ Goto(v, "arrived", "local")
  /\ Execute(v)
  /\ UNCHANGED <<origin, child, queue, proc, done, retried>>

RunEnds(v) ==
  /\ Goto(v, "local", "ended")
  /\ UNCHANGED <<origin, child, queue, proc, done, runs, retried>>

\* Peers never include the node itself.
Forward(v, c, n) ==
  /\ state[v] = "arrived" /\ hop[v] < MaxHops /\ n # node[v]
  /\ Open(c, n, hop[v] + 1, v, client[v])
  /\ state' = [state EXCEPT ![v] = "forward", ![c] = "arrived"]
  /\ child' = [child EXCEPT ![v] = c]
  /\ UNCHANGED <<queue, proc, done, runs, retried>>

\* No peer is available, or the request may make no further hop.
KeepHere(v) ==
  /\ Goto(v, "arrived", "enqueue")
  /\ UNCHANGED <<origin, child, queue, proc, done, runs, retried>>

\* Mutant of ForwardAnswered: an answer does not stop the handler from queueing
\* the request.
ForwardAnsweredQueued(v) ==
  /\ child[v] # Nobody /\ state[child[v]] = "ended"
  /\ Goto(v, "forward", "enqueue")
  /\ child' = [child EXCEPT ![v] = Nobody]
  /\ UNCHANGED <<origin, queue, proc, done, runs, retried>>

\* Any answer of the peer is passed on, errors included.
ForwardAnswered(v) ==
  /\ child[v] # Nobody /\ state[child[v]] = "ended"
  /\ Goto(v, "forward", "ended")
  /\ child' = [child EXCEPT ![v] = Nobody]
  /\ UNCHANGED <<origin, queue, proc, done, runs, retried>>

\* request_timeout, a broken connection, or the end of r.Context().
ForwardGivenUp(v) ==
  /\ Goto(v, "forward", "enqueue")
  /\ child' = [child EXCEPT ![v] = Nobody]
  /\ retried' = retried \cup {client[v]}
  /\ UNCHANGED <<origin, queue, proc, done, runs>>

Enqueue(v) ==
  /\ Goto(v, "enqueue", "wait")
  /\ Len(queue[node[v]]) < MaxQueueSize
  /\ queue' = [queue EXCEPT ![node[v]] = Append(@, v)]
  /\ UNCHANGED <<origin, child, proc, done, runs, retried>>

Reject(v) ==
  /\ Goto(v, "enqueue", "ended")
  /\ Len(queue[node[v]]) >= MaxQueueSize
  /\ UNCHANGED <<origin, child, queue, proc, done, runs, retried>>

Served(v) ==
  /\ v \in done
  /\ Goto(v, "wait", "ended")
  /\ UNCHANGED <<origin, child, queue, proc, done, runs, retried>>

\* Mutant of GiveUpWaiting: requests of other nodes wait without a timer.
WaitForEver(v) ==
  /\ hop[v] = 0
  /\ Goto(v, "wait", "ended")
  /\ retried' = retried \cup {client[v]}
  /\ UNCHANGED <<origin, child, queue, proc, done, runs>>

\* queue_timeout or the end of r.Context(): the handler returns, which ends the
\* context of a forward that its processor has under way.
GiveUpWaiting(v) ==
  /\ Goto(v, "wait", "ended")
  /\ retried' = retried \cup {client[v]}
  /\ UNCHANGED <<origin, child, queue, proc, done, runs>>

-----------------------------------------------------------------------------
(* The processor of node n *)

\* Mutant of ProcForward: does not look at X-LB-Hop.
ProcForwardAnyHop(n, c, m) ==
  /\ proc[n] = Nobody /\ queue[n] # <<>> /\ m # n
  /\ LET v == Head(queue[n])
     IN  /\ ~CtxDone(v)
         /\ Open(c, m, hop[v] + 1, v, client[v])
         /\ state' = [state EXCEPT ![c] = "arrived"]
         /\ child' = [child EXCEPT ![v] = c]
         /\ proc' = [proc EXCEPT ![n] = v]
  /\ queue' = [queue EXCEPT ![n] = Tail(@)]
  /\ UNCHANGED <<done, runs, retried>>

ProcForward(n, c, m) ==
  /\ proc[n] = Nobody /\ queue[n] # <<>> /\ m # n
  /\ LET v == Head(queue[n])
     IN  /\ hop[v] < MaxHops /\ ~CtxDone(v)
         /\ Open(c, m, hop[v] + 1, v, client[v])
         /\ state' = [state EXCEPT ![c] = "arrived"]
         /\ child' = [child EXCEPT ![v] = c]
         /\ proc' = [proc EXCEPT ![n] = v]
  /\ queue' = [queue EXCEPT ![n] = Tail(@)]
  /\ UNCHANGED <<done, runs, retried>>

ProcServe(n) ==
  /\ proc[n] = Nobody /\ queue[n] # <<>>
  /\ proc' = [proc EXCEPT ![n] = Head(queue[n])]
  /\ queue' = [queue EXCEPT ![n] = Tail(@)]
  /\ Execute(Head(queue[n]))
  /\ UNCHANGED <<state, origin, child, done, retried>>

\* The peer, or the local backend, has answered.
ProcFinish(n) ==
  /\ proc[n] # Nobody
  /\ child[proc[n]] # Nobody => state[child[proc[n]]] = "ended"
  /\ done' = done \cup {proc[n]}
  /\ child' = [child EXCEPT ![proc[n]] = Nobody]
  /\ proc' = [proc EXCEPT ![n] = Nobody]
  /\ UNCHANGED <<state, origin, queue, runs, retried>>

\* With its context done a forward fails at once; the entry goes to the back.
ProcBounce(n) ==
  /\ proc[n] = Nobody /\ queue[n] # <<>>
  /\ hop[Head(queue[n])] < MaxHops /\ CtxDone(Head(queue[n]))
  /\ queue' = [queue EXCEPT ![n] = Append(Tail(@), Head(@))]
  /\ UNCHANGED <<state, origin, child, proc, done, runs, retried>>

\* The forward failed: back to the end of the queue.
ProcRequeue(n) ==
  /\ proc[n] # Nobody /\ child[proc[n]] # Nobody
  /\ queue' = [queue EXCEPT ![n] = Append(@, proc[n])]
  /\ child' = [child EXCEPT ![proc[n]] = Nobody]
  /\ proc' = [proc EXCEPT ![n] = Nobody]
  /\ retried' = retried \cup {client[proc[n]]}
  /\ UNCHANGED <<state, origin, done, runs>>

-----------------------------------------------------------------------------

Handler(v) ==
  \/ RunLocally(v) \/ RunEnds(v) \/ KeepHere(v)
  \/ \E c \in Visits, n \in Nodes : Forward(v, c, n)
  \/ ForwardAnswered(v) \/ ForwardGivenUp(v)
  \/ Enqueue(v) \/ Reject(v) \/ Served(v) \/ GiveUpWaiting(v)

Processor(n) ==
  \/ \E c \in Visits, m \in Nodes : ProcForward(n, c, m)
  \/ ProcServe(n) \/ ProcFinish(n)
  \/ ProcBounce(n) \/ ProcRequeue(n)

Next ==
  \/ \E v \in Visits : \/ Handler(v)
                       \/ \E r \in Clients : Send(v, r)
  \/ \E n \in Nodes : Processor(n)

Spec == Init /\ [][Next]_vars

\* What a handler does when nothing but the Go scheduler, a backend that ends a
\* run or queue_timeout is needed for it.
Advance(v) ==
  \/ RunLocally(v) \/ KeepHere(v) \/ RunEnds(v) \/ ForwardAnswered(v)
  \/ Enqueue(v) \/ Reject(v) \/ Served(v) \/ GiveUpWaiting(v)

\* Nothing is assumed of request_timeout: a handler or a processor may wait for
\* a peer as long as that peer takes.
Fairness ==
  /\ \A v \in Visits : WF_vars(Advance(v))
  /\ \A n \in Nodes : WF_vars(ProcFinish(n))

FairSpec == Spec /\ Fairness

-----------------------------------------------------------------------------
(* Properties *)

\* Whether a handler or a processor forwards it, a request makes MaxHops hops
\* at most, and each exchange is one hop further than the one that caused it.
HopsBounded ==
  \A v \in Visits : state[v] # "free" =>
    /\ hop[v] <= MaxHops
    /\ hop[v] = 0 <=> caller[v] \in Clients
    /\ caller[v] \in Visits => hop[v] = hop[caller[v]] + 1

\* The state is well formed, and a request runs on one backend, once, unless
\* some node gave up on it: only a timeout, a failure or a re-queue makes a
\* prompt run twice.
OneRunUnlessRetried ==
  /\ TypeOK
  /\ \A r \in Clients : runs[r] > 1 => r \in retried

\* A request that a node has taken is answered.
ClientsAnswered == \A v \in Visits : state[v] = "arrived" ~> state[v] = "ended"

=============================================================================
