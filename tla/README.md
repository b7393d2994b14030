# TLA+ models of gotoni

gotoni runs language-model servers (SGLang) on clusters of rented GPU machines.
On every machine it puts a load balancer (`pkg/cluster`) that serves a request
locally, forwards it to a peer, or queues it.  Beside it the repository has a
centralized proxy, a tracer, an SSH client manager, task execution, clients of
three cloud providers and a command line.  The load balancer is where threads,
locks, time-outs and other machines meet; it is modelled first and in depth, then
the proxy beside it, the SSH client manager and the execution of tasks, and then
what operators do from their own machines: renting and ending machines under
somebody's authority, putting processes on them and replacing those, and tracing
what they do.

## 1. Inventory

Paths are relative to `src/`.

| component | state | operations | depends on |
|---|---|---|---|
| request path and queue, `pkg/cluster/loadbalancer.go` | `queue` under `queueMu`, `qr.done`, each handler's position and `ResponseWriter`, `runningRequests`, counters | `Handler` (A local, B forward, C queue), `enqueueRequestWithTokens`, `processQueue`, `Start`, `Stop` | strategy, health view, tracer, local SGLang through a reverse proxy, peers over HTTP |
| strategies, same file | GORGO's two radix trees under `p.mu`; the prefix tree | `Select`, `Insert`, `InsertLocal`, `ClearCache`, `SetStrategy` | called under `peersMu`; GORGO reads `queue` and `runningRequests` |
| membership and health, same file and `sglang_metrics.go` | `lb.peers` under `peersMu`, `peer.Metrics`, `localMetrics`, downtime intervals | `AddPeerByIP`, POST/DELETE `/lb/peers`, polling rounds, `mark*Unhealthy`, `trackHealthTransition` | SGLang of every node |
| cluster of load balancers | `X-LB-Hop`, the contexts of nested HTTP exchanges | forwarding from handlers and from processors | every other node |
| tracer, `pkg/cluster/trace.go` (and its copy `pkg/trace/trace.go`) | one session, its events and remote events, two mutexes | `Start`, `Stop`, `recordEvent`, about 20 hooks, `ReceiveRemoteEvents` | called by the request path |
| proxy, `pkg/proxy/proxy.go` | server list, global queue, running requests per server, prefix tree, request metrics | `Handler`, `selectServer`, `forwardToServer`, queue processor, poller, latency prober | the SGLang servers |
| SSH manager, `pkg/remote/ssh.go` | map of connections; one goroutine and one unbuffered channel each | `ConnectToInstance`, `ExecuteCommandWithTimeout`, `DisconnectFromInstance` | SSH |
| tasks and clusters, `pkg/remote/client.go`, `pkg/cluster/cluster.go` | completed tasks, `connected` | `ExecuteTasks`, `RunTaskOnCluster`, `Connect`, `ExecuteOnCluster` | SSH manager |
| fleet, `cmd/launch.go`, `cmd/kill.go`, `cmd/firewall.go`, `pkg/remote/*_provider.go`, `pkg/db/db.go` | instances, keys, file systems and firewall rules of the cloud; key files, database rows and SSH config of each operator | `launch`, `kill`, `kill --all`, `EnsurePortOpen`, `firewall replace` | cloud APIs, SpiceDB |
| authority, `pkg/spicedb`, `cmd/admin.go`, `cmd/join.go`, `cmd/project.go` | relationships in SpiceDB; `identity.json` and `contacts.json` of each home | create an organization or a project, invite, join, set and remove roles, assign a resource; permission checks | SpiceDB, the transfer of a UUID between two machines |
| processes of a node, `cmd/lb.go`, `cmd/lb-deploy.go`, `cmd/cluster.go`, `cmd/build.go`, `cmd/proxy.go`, `pkg/cluster/build.go` | the binary, PID files and processes of each node, the port, the caches of SGLang and of the trees | `lb deploy`, `start`, `stop`, `remote-stop`, `cluster restart-lb`, `upload`, `flush-cache`, `lb clear-cache`, `lb policy`, `setup`, `build --deploy`, `proxy deploy`, `proxy stop` | SSH, scp, tmux, the node's shell |
| tokenizer, Loki, Docker, Python client | mostly none of their own | request/response, shell commands, flags | external services |

How the parts of one node meet: net/http runs a goroutine per request; one
processor goroutine owns the service of the queue; one poller goroutine starts
a goroutine per peer in each round.  Handlers and processor share `queueMu`
(queue) and `peersMu` (peers and strategy); GORGO takes `queueMu` while
`peersMu` is read-locked.  A handler that queued its request sleeps in a
`select` on `qr.done`, a timer and `r.Context()`, and the processor writes the
answer to that handler's `ResponseWriter`.

What is hard, and what makes each part correct:

- *Queue.*  A request must be in one place: in the queue, in the processor's
  hands or finished.  The processor works with `r` and `w` of a handler that
  may have returned.
- *Locks.*  Two locks, taken in both orders by different goroutines, one a
  reader-writer lock whose waiting writers stop new readers.
- *Answers.*  Two goroutines may write the same response; somebody must.
- *Nodes.*  Forwards nest across machines; each processor is sequential, so two
  of them can wait for each other.
- *Health.*  Answers of polls arrive after membership changes and after later
  events; a failure is counted before it is believed.
- *Trees.*  Radix-tree splits, and a reader that takes no lock.
- *Commands.*  A command goes on when its caller has given up, in a goroutine that
  others need; a connection may be closed or break at any point of it.
- *Processes.*  A process that was told to stop drains, keeps the port and answers;
  the script that is to replace it runs on when its connection is gone.
- *Authority.*  What was checked and what is done are separate calls to separate
  services; each may fail, be carried out unheard, or never be made.
- *Traces.*  Hooks that have read the session's pointer go on while the session is
  stopped or replaced; nodes start and stop one after the other.

`PROJECT.json` lists the hazards line by line with the properties that cover
them, or the reason why none does.

## 2. Modules

| module | models |
|---|---|
| `AdmissionQueue` | what either queue promises: FIFO but for requests put back, none in it or in service twice, none settled twice; one in service (load balancer) or many (proxy) |
| `LoadBalancer` | one node: handlers, processor, strategies' choices, both locks, poller as seen from requests, operator |
| `PeerHealth` | membership, polling rounds, failure counters, downtime record |
| `PromptTree` | GORGO's radix tree: insertion, look-up, an unlocked reader |
| `Mesh` | several nodes: nested HTTP exchanges, hop counts, processors that wait for each other |
| `Proxy` | the centralized proxy: handlers, queue, processor and its goroutines, server pool, health polls |
| `SSHManager` | SSH connections with their goroutines, and the calls that send commands through them |
| `Tasks` | `ExecuteTasks` and background tasks; extends `SSHManager`, whose calls are its commands |
| `Access` | identities, contacts, the relationships of an organization, permission checks, and the commands that change them |
| `Fleet` | instances, keys, file systems, firewall and local records under `launch`, `kill` and the firewall commands on three clouds; extends `Access` |
| `Deploy` | processes, binaries, PID files and caches of the nodes under the commands that install, replace, stop and flush, or change their policy |
| `Tracer` | the tracer of each node, its hooks and endpoints, and the commands that trace a whole cluster |
| `MCLoadBalancer`, `MCPeerHealth`, `MCPromptTree`, `MCMesh`, `MCProxy`, `MCTasks`, `MCFleet`, `MCDeploy`, `MCTracer` | small instances, and one claim the code does not keep |
| `LoadBalancerProofs`, `MeshProofs` (with those of `PeerHealth`), `ProxyProofs`, `TasksProofs` (with those of `SSHManager`), `FleetProofs`, `PromptTreeProofs`, `DeployProofs`, `TracerProofs` | theorems |

`LoadBalancer` and `Proxy` instantiate `AdmissionQueue` by refinement mappings.
`Tasks` adds provisioners to `SSHManager`: an action of a provisioner that sends a
command takes `Call` with it, and all other steps of the manager leave
provisioners alone.  `Fleet` lets the commands of `Access` run between the steps of
its own: the permission a kill asks for is the one the ledger gives at that moment.
`PeerHealth` refines what `LoadBalancer`'s poller writes, and `Mesh` abstracts
`LoadBalancer` to what other nodes see; those two relations are by construction
and are not checked.

A definition whose comment says *Mutant of X* stands before X and is X with a
mistake someone could make there.  Nothing refers to it: substituted for X it
breaks one of the properties, which shows that the property looks at X.

### LoadBalancer: state and actions against the code

Each request is one goroutine, `pc[r]` is its position: `idle` (not arrived),
`local` (in the local reverse proxy, A), `select`/`selecting` (around
`peersMu.RLock` in `selectPeer`, B), `forward` (in `httpClient.Do`), `enqueue`
(before `queueMu` in `enqueueRequestWithTokens`, C), `refused`, `wait` (in its
`select`), `expired` (its timer or context fired, before the test of
`headerWritten`), `writing` (found it unset), `claimed` (has set it, before the inner
`WriteHeader`) or `body` (found it set and has only its text to write), `returned`.
`procPc` does the same for `processQueuedRequests`: `head`, `selecting`, `tryLocal`
hold `queueMu`; `forward`, `serve`, `reply`, `replying`, `claimed`, `copying`,
`finish` hold only the request.

Steps are cut where a goroutine takes or gives up a lock that others wait for,
sends to another process or waits.  `queueMu` is "held" only between steps of
the processor, as no one else keeps it over another blocking operation.
`readers` and `writers` are `peersMu`: a goroutine in `writers` has called
`Lock`; it writes once there are no readers, and `CanRLock` lets no reader in
meanwhile, as Go's `RWMutex` does.  `CanPrice` is GORGO's second lock of `queueMu`.

`r \in gone` is a client that closed its connection; `CtxDone(r)` also holds
once the handler has returned, because net/http then cancels `r.Context()`; a
forward or local service of such a request fails.  `response[r].headers` counts
the `WriteHeader` calls that reach net/http, `response[r].claimed` is `headerWritten`,
which is set before; a body that is written first sends 200 by itself (`WithBody`).
`LocalBreak` and `ProcBreak` are
the panic of `httputil.ReverseProxy` (`http.ErrAbortHandler`) when a body cannot
be copied: net/http recovers it in a handler, nothing in the processor.

Abstracted: bodies and tokens (a prompt is a model value, costs are a choice
among the peers GORGO may return), the clock (a timer may fire at any time), the
status codes (2xx or not), SGLang (it answers at any time; the poller reads how
many requests it has).  `Faults` says what goes wrong in a run.

### PeerHealth, PromptTree, Mesh

In `PeerHealth` a node is a `*PeerNode`, allocated once; two may have the same
address.  `status[n] = "absent"` means that it is no key of `lb.peers`; `full`
is an answering peer without capacity.  `StoreAnswer` and `StoreFailure` do not
test membership, as the code does not.  `pending` counts the goroutines that
`markLocalUnhealthy` started to call `trackHealthTransition(false)`, which may
run late.  `ConsecutiveFails` saturates at the threshold, where it stops mattering.

In `PromptTree` a prompt is a short sequence; `tree` is the record of the maps
`children` (`kids`), `prefix` and `peers` (`marks`) over allocated nodes.
An insertion takes `p.mu` (`InsertLock`) and then writes: a split shortens
`lookup.prefix` (`Shorten`), hangs the new node into the parent (`Relink`), and the
leaf or the owner comes last (`InsertApply`).  The reader takes no lock, so each of its
accesses is a step: the child (`ReadTake`), its prefix (`ReadPrefix`), its owners
(`ReadPeers`), its prefix once more for the length (`ReadNext`); it goes on across
insertions, splits and `ClearCache`.  A Go string is an address and a length that are
written one after the other: `Texts` has what a reader may find while they are, also
characters behind the end of the old text.  `torn` is history: the reader has had a
node in hand while it was being shortened.  The writes of a map entry and of a slice
header that grows by one are steps of their own but not torn; that Go may instead end
the process for the concurrent use of a map is not modelled.  A loop over a prompt is a
recursive function over the number of its iterations: `Descent` is the insertion's,
whose last value is `Descend`, and `Walk` that of a look-up, whose last is `Match`.

In `Mesh` a visit is one HTTP exchange; `caller` and `child` link it to the
exchange it was forwarded from and to.  Capacity, strategy and metrics are a
free choice, so each handler may serve, forward or queue whenever its hop count
allows.  `retried` records the requests of which some node gave up on an exchange.

### Proxy

`pc[r]` is the handler of a request: `idle`, `forward` (in `forwardToServer`),
`unplaced` (no server, or the forward failed), `wait` (in the `select` of
`enqueueRequest`), `expired`, `returned`.  `fwd[r]` is where `forwardToServer`
is for it: in the handler as long as `pc[r] = "forward"`, else in the goroutine
the processor started, and its last value (`ok`, `failed`) is what that
goroutine left in `qr` before it closed `qr.done`.  `picked` lies between
`selectServer` and the registration in `runningRequests`; `answered` and
`copying` lie after the request was taken out of it again, when the header came.
`at[r]` is the server, an object of its own for each time an address is added.

No step of the proxy waits for a lock that is held across another one that
blocks, so locks are not modelled; steps are cut where a lock is given up and the
code goes on with what it read: selection and registration, and the processor's
`head`, `chosen` and `ProcPop`.  The processor does not wait for its goroutines.

Abstracted: costs, prefix matches and latencies (`Choices` is any server with
capacity), polled metrics but for health and cache use, per-request metrics.  A
handler whose time is up and a goroutine that answers for it use one
`ResponseWriter`: `Written` keeps the first status and nothing after the return,
`LateWriteCrash` is the other outcome, a panic inside net/http.

### SSHManager and Tasks

`pc[x]` is a call of `ExecuteCommandWithTimeout`: `lookup` (before `scm.mu.RLock`),
`send` and `wait` (in its two `select`s), and at the end what it returned:
`unknown`, `unsent`, `late`, `error` or `ok`.  `held[x]` is the client pointer it
keeps after it has given up the lock.  `loop[c]` is `run()` of one client:
`select`, `taken` (has a command, before `NewSession`), `session` (in
`CombinedOutput`), `exited`.  The channel is unbuffered, so `Send` moves caller
and goroutine in one step; the result channel has room for one, so `Answer` never
waits.  `runs[x]` counts how often a session for the command was opened.

`scm.mu` is held across a dial (`dialing`) and across the closing of one or all
connections (`closing`, `half`); other critical sections are single steps.
`CloseAllConnections` closes each client's `done` and then its connection, and the
goroutine may notice in between.  `Break` ends a connection without telling the
manager, whose map keeps it.

In `Tasks`, `at[p]` is one invocation of `ExecuteTasks`: `pass` (ranging over
`remaining`), `kill` and `run` (in a command of `task[p]`), and what it returned.
`visit[p]` is what the `range` has still to produce: any order, as Go promises
none.  Two tasks of one name are one task, as in the code's map.

Abstracted: commands and output, environment, working directory, key files, and
the host's tmux.  A systemd helper is a call like any other.

### Access and Fleet

An operator is a home directory with one command at a time; `adm[o]` is the
position of a command of `Access`, `proc[o]` that of a command of `Fleet`, and each
position lies between two calls to a file, a database, the cloud or SpiceDB.  A
command may be interrupted between any two.  A call to the cloud may fail, or be
carried out and lose its answer (`Post`, `LambdaTerminate`), or carried out in part:
Lambda may end some of the instances it was asked to end and answer without the others.
A relationship may fail to be written or deleted where the code drops the error
(`WriteResourceOwnership`, `DeleteResource`).  On Modal an instance may end and its local
row stay.

`ledger` is the set of relationships; the permissions (`DeleteResourceOk`, ...) are
those of `schema.zed`.  `inst[i]` is an instance as the cloud knows it, with what the
properties need to remember: who launched it (`by`), whose user that was (`owner`) and
who ended it (`killer`).  `reported`, `disowned` (the owner was not written, or a kill
was answered without the instance), `admins`, `alone`, `received` and `typed` (the UUIDs
given to `add-user` and `set-role` as they stand) are history.  `Resolutions` is what an
argument of `kill` may turn into: whatever `GetInstance` of the provider returns, and
any bearer of the name in a listing, which on Modal shows names of the operator's own
database.

Abstracted: environment overrides are folded into the identity; one organization;
fully consistent permission checks; a nickname without a contact stands for itself,
as in `ResolveContact`.  That the cloud refuses a key name it has is an assumption
about the cloud.  Prices, images, instance types and polling intervals are left out.

### Deploy

A process has a state (`loading`, `starting` before it has the port, `serving`,
`stopping` while it drains and keeps the port, `dead`), the way it was started
(`gotoni-lb` and `task` are the two tmux sessions, `nohup`, `hand`) and the requests
its tree remembers.  A command is a list of steps for each node (`Plan`); a step
that runs a script leaves the script on the node, where it goes on when the
command, or its connection, is gone.  `answerer` is the process that answered when
the command looked whether all is well.

`scene` is the cluster a behaviour begins with: provider, what runs on each node,
which commands are to come.  `orderly` is history: each command found the work of
the one before it done, with no process still starting, and no cleanup was cut off.
Two properties are about orderly use; out of it they fail for reasons listed in
section 3.

Abstracted: which peers and servers a process is told of, status commands, Docker
and image steps of `setup`; one port for load balancer and proxy of a node; a
process that is told to stop while it starts ends.  A request is recorded in the tree
after a good answer (by a handler) or after any (by the queue's processor, `sent`
requests of `InsertAfterAnswer`); `raced` has those that were under way while a
flush-cache was and those recorded badly after it had cleared the tree.  SGLang's own
evictions are left out.
`policy` tells whether there is a tree (`gorgo`) or none (`least-loaded`);
`prefix-tree`, which records a node before that node has answered, is left out.

### Tracer

`session[n]` and `active[n]` are what `sessionMu` guards; `eventsMu[n]` is the
request whose `recordEvent` is appending.  A member of `Requests` is what one goroutine
does for a request on one node: a handler, or a turn of the processor's loop.  `Ways`
lists the hooks these call, in the order of the code; an event is its request, its node
and the place of its hook on that way.  One hook is several steps: read the pointer,
look at `active`, lock, append.  `Stop` reads, appends its closing event without
`eventsMu`, and answers with what it copies.  `cluster` is the instance a behaviour
begins with: the listed nodes, what may arrive where, and the number of commands.
`start-trace` and `stop-trace` visit the nodes in order; a node may fail to answer.

What a peer does for a forwarded request is a request of its own, under an ID of its
own, and may come at any time: a forward may fail or be given up while the peer still
works on it, and a long answer arrives before the peer's handler returns.  So no order
between the hooks of two nodes is taken for granted; nor is one between the handler of a
queued request and the processor.

## 3. Runs

| run | states | bounds | shows |
|---|---|---|---|
| `LBQueue` | 1.0 M | 3 requests, 1 peer, queue of 1, peers break connections | counters exact; refinement of `AdmissionQueue`, which says that requests are neither lost nor doubled |
| `LBPushed` | 2.2 M | 2 requests, one pushed here, GORGO, operator acts, clients leave, local answers break off, stop | pushed requests stay; no silent return; `runningRequests` holds what runs here and what broke off |
| `LBLive` | 0.1 M | 2 requests, one pushed, fairness | every request answered; poller never hangs |
| `PeerHealth` | 0.2 M | 2 PeerNodes, 1 address, threshold 2, 2 late goroutines, fairness | health counters, removal, downtime record, exclusion and return |
| `PromptTree` | 0.4 M | 5 prompts up to length 3 over 2 letters, 2 owners, 3 insertions write by write, 1 reader | tree shape, stored pairs, matches, unlocked reads |
| `Mesh` | 0.2 M | 2 nodes, 2 clients, 4 exchanges, MaxHops 1, queue of 1, fairness | hop bounds, type and one execution, clients answered |
| `Proxy` | 0.4 M | 3 requests, queue of 2, limit 1 per server, threshold 1, fairness; one address removed and added again and failing servers with two of the requests | no silent return; refinement of `AdmissionQueue`; removed servers drain |
| `Tasks` | 0.07 M | 2 tasks, one in the background, 3 dependency lists, one call of another caller, 1 host, 1 connection, fairness | no leaked connection; calls report truly; dependencies first; justified return; goroutines end; `ExecuteTasks` returns |
| `Fleet` | 1.7 M | 2 operators, 3 clouds, 2 commands, at most 3 instances, 2 names, 2 ports, nothing or one instance each at first | type; reported instances keep their owner; only owner or administrator kills; only what was named is killed; ports are lost to races only; set-role replaces; a role only for a UUID somebody received, or typed |
| `Deploy` | 1.6 M | 1 node with every pair of commands over whatever runs there, or 2 nodes with the commands and requests named in `MCDeploy` | a success is the new process's; `lb stop` reaches the server; a flush leaves no stale entry |
| `Tracer` | 2.1 M | 2 nodes, one of which forwards a request to the other, 2 commands; 1 node, 2 requests, 3 commands | whole requests are traced; a stop answers its session |

Type correctness and custody of `LoadBalancer`, `Proxy`, `SSHManager` and `Tasks`
(`TypeOK`, `SingleCustody`, `NoLostWaiter`, `PopsItsHead`, `AtMostOneRetry`) are
theorems (section 4) and are not checked a second time.

Why these bounds are enough to meet the interesting cases.  *LBQueue*: with one
request in the processor's hands a second fills the queue and a third is
rejected, or arrives when the first is put back, so that the limit is exceeded.
`MaxLoad = 1` and `BatchSize = 1` make one request enough for "at capacity".
Requests that are not pushed differ in name only; they are declared symmetric,
and the refinement checked with them is a safety property.  *LBPushed*: the
pushed request and an ordinary one meet in queue, locks and tree, with a
`SetStrategy` waiting for the lock.  *PeerHealth*: two nodes at one address are
the least for a removed node to come back beside its successor; the threshold
is 2 so that one failure is not enough.  *PromptTree*: three insertions reach a
split, a split of a split, and an exact match at a split point.  *Mesh*: four
exchanges allow each processor to wait for a request queued behind the other;
that state is reachable (it was checked).  `MaxRuns` caps the execution counter
just above the value the property needs.  *Proxy*: one request under way at the
only server makes the other two queue, so that their order counts and the processor
may find another head than the one it read; the third is rejected if the server was
removed before.  The whole product of three requests, servers that come and go and
failing forwards is out of TLC's reach: `Bounds` (an action constraint) lets the third
request come only where no server was added, none was removed with a request and nothing
has failed, and makes the requests, which are alike, arrive in their order.  With two
requests all the rest happens, and `Refinement` is proved without any bound.  Two server
objects with one address are a server that is removed while it works and added again.
`CacheReadings` is `{FALSE}`, as a full cache closes a server just as failed polls do.  *Tasks*: two
tasks are enough for an order, a circle and a missing dependency; the call of
another caller takes the goroutine of the connection while a task wants it, and
the other way round.  One connection is one life of a client; a host that is
connected again would need a second one, for which the liveness check takes too
long.  The theorems of `TasksProofs` hold for any number.

*Fleet*: two commands of two operators are the least for a check and a change of
authority, a name that two machines bear, or two read-modify-writes of the
firewall; three clouds and both set-ups of SpiceDB are initial states.  Roles of the
organization are given to a nickname and to a UUID as it is typed.  *Deploy*:
two commands on one node are a replacement of what another command is still
replacing; PIDs are enough for every process they may start.  The commands that
work on a `Cluster` pair with each other and with a restart or a deployment.  Two
nodes are needed for caches (a tree on one names the other) and for a partial
deployment.  *Tracer*: two nodes give a trace that is started on one and not yet on
the other, with a request that both serve; three commands on one node give
a session that is replaced and stopped with two requests under way.

Deadlock checking is off where the system may stop: handlers end, a crash ends
the process, `Mesh` uses up its exchanges.

### Fairness

`LoadBalancer`: every handler, and the processor, is strongly fair, because
each of its steps is either one the Go scheduler runs once it is ready, or the
acquisition of a `sync.Mutex` or `RWMutex` other goroutines take again and again
(Go's mutexes hand over to a waiter that waits longer than a millisecond), or an
answer of a backend, a peer or a timer, which comes or fails.  The poller's
steps and the operator's second step are weakly fair: a waiting writer of an
`RWMutex` stops new readers.  Clients and the operator owe nothing.  Strong
fairness is of a whole goroutine: it does not promise that a request in service
succeeds, and a timer is one way among several for its handler to go on.

`PeerHealth`: the loop, the late goroutine and each poll are weakly fair; a
fetch ends by `metrics_timeout`.  Nothing is assumed of backends and operator.
`Mesh`: weak fairness of the handlers' own steps, of `queue_timeout`, of local
executions and of finishing what has been answered.  Nothing is assumed of
`request_timeout`, whose default is 0: the properties hold without it.

`Proxy`: weak fairness of each handler, of each forward and of the processor.
None waits for a lock another one keeps; the timeout of the HTTP client ends
every forward.  Nothing is assumed of polls, operator and `Stop`.

`SSHManager` and `Tasks`: weak fairness of each call, whose waits end by timers, of
the goroutines' own steps, of closing, and of provisioners; strong fairness of
`LookUp`, as an `RWMutex` lets waiting readers in before the next writer.  A
command ends for certain only when its connection is down.  Nothing is assumed of
dials; `TasksReturn` says what follows if every dial ends.

`Fleet`, `Deploy` and `Tracer` state safety properties only, and no fairness: an
operator, a cloud and a draining process owe nothing.

### A run that ends in a counterexample

It checks a sentence of the repository that the code contradicts.

- `LBCrash`: a queued request times out while the processor serves it locally;
  the cancelled context makes `ReverseProxy` panic in a goroutine that recovers
  nothing (loadbalancer.go:1531).

### Seen while modelling, without a run

Request path, health and proxy:

- `processQueuedRequests` holds `queueMu` when it calls `selectPeer`; under GORGO,
  the default, `calculateLocalCost` locks it again (loadbalancer.go:1498, 553).
  The first queued request below the hop limit stops the processor for good, with
  `queueMu` held and `peersMu` read-locked: handlers that need the queue or a
  strategy block without a timer, and so does the next write of the poller.  With
  `InitialStrategy = "gorgo"` `EveryRequestAnswered` fails under `FairSpec`, which
  is why `LBLive` runs least-loaded.
- The answer of a poll under way puts a removed peer back (sglang_metrics.go:187,
  372).  If the address was added again meanwhile, it is then a peer twice.
- `selectServer` counts the requests that `forwardToServer` has registered, so two
  handlers, or two turns of the processor's loop, put one request more on a server
  than `max_running_per_server` (proxy.go:57, 607).
- Two processors may wait for each other, each for a request queued behind the
  other; with `request_timeout` long only `queue_timeout` ends it.
- `QueueTimeMs` of the proxy's metrics "Will be set by queue processor" and never
  is; its prefix hit ratios match servers by ID where routing matches by pointer.
- `DefaultRequestTimeout = 0 // no timeout` (constants.go:45) reaches
  `context.WithTimeout`, where 0 has expired already: every forward fails, from
  handlers and from the queue (`CanReachPeer`).
- `findLocalPrefixMatch` says that its caller holds a lock (loadbalancer.go:423);
  the caller holds none (570), and Go may end the process for the concurrent use
  of a map.  If it does not, a reader that took a node before a split and reads its
  prefix after line 380 compares the prompt with the rest of the edge, as if the
  first half had matched: it claims a cached prefix that no prompt justifies, and GORGO
  prices the request too low.  `ReadIsSound` says that nothing else misleads it: not
  the order of its other reads among the writes, nor a cleared tree.
- `headerWritten` (loadbalancer.go:1230) is set before the header is sent.  A handler
  whose time is up between the two, in the processor's hands, skips its own 504 and
  writes its text: the client gets 200 with "Queue timeout", and the processor's status
  is dropped as superfluous.
- A prompt cached in full is priced as if nothing were cached, more than one that
  is cached but for its last character (loadbalancer.go:571), although the comment
  above says that "only unmatched tokens need prefill".
- The proxy takes a request out of `runningRequests` when its header arrives
  (proxy.go:747), although the map is meant for those "still processing" (112).
- A queued request whose handler has returned stays in the proxy's queue, is sent
  to a server, and its answer goes to a writer that net/http has taken back.
- Handlers that arrive while requests are queued at the proxy ask for a server
  first and may overtake the queue without end.
- Request IDs of the proxy are `UnixNano` stamps: two requests with equal stamps
  share an entry of `runningRequests`.  The model gives every request its own.
- A proxy that was stopped cannot be started again: its context stays cancelled.
- `ConnectToInstance` holds `scm.mu` over `ssh.Dial`, whose `Timeout` is for the TCP
  connection only (ssh.go:60, 351): a host that accepts and says nothing blocks
  every command on every other host, before any of their timers is set.
- A connection that broke stays in the map: each command on it fails, and
  `ConnectToInstance` refuses to replace it, "client already connected".
- A call that timed out says nothing of its command, which goes on; until it ends
  the next commands on that connection fail with "timeout sending command".
- "executes all tasks in order" (client.go:980): the order of independent tasks is
  that of a Go map, a different one each time.
- `RunTaskOnCluster` passes an empty map of completed tasks (cluster.go:403): a
  task with dependencies always fails there.
- `Cluster.Connect` sets `connected` even if no connection could be made
  (cluster.go:140).
- `Stop` (loadbalancer.go:1081) waits for the processor, whose inner loop does
  not test `lb.ctx`.  A request whose handler has returned fails each forward
  and is re-queued at once; with an eligible peer and a strategy that prefers it
  the loop neither pauses nor ends, and the graceful shutdown of `lb start` hangs.
- `PrefixTreePolicy`: nothing calls `Insert`, and `root` is never nil, so `Select`
  returns no peer: the policy never forwards.  Its `Insert` would make a split
  node its own child.
- With clients that leave or truncated local answers, `LocalBreak` leaves a
  request in `runningRequests` for good, as the panic skips line 1172; `RunningExact`
  says that exactly those stay.
- A request queued through the processor is recorded as cached whatever its
  status code (lines 1505, 1537); path A and B test it.  So a tree may name a server
  for a prompt it never had, also after a flush; `FlushLeavesNoStaleEntry` excepts these.
- `queue_enabled` switched on at runtime has no processor.
- The HTTP server's `WriteTimeout` of 30 s is below `queue_timeout`, 60 s.
- Downtime before the first successful poll is not recorded, and a late
  `trackHealthTransition(false)` can open an interval after the recovery.
- After a split the intermediate node has no owners, so a look-up that ends
  inside the old edge matches less than before; `MatchIsSound` states what
  remains true: prompts that extend a recorded one match all of it.

Fleet and authority:

- `EnsurePortOpen` reads the firewall's rules and replaces them all: of two
  concurrent callers one loses its rule (client.go:1152); `PortsLostOnlyToRaces`
  says that nothing else closes a port.
- `remote.GetInstance` asks for the permission to view before `launch` has written
  the owner (launch.go:312): for an operator whose role gives nothing more the SSH
  configuration is not updated, silently.
- A launch that fails after the cloud has created the instance leaves it running
  without an owner (lambda_provider.go:167), for an administrator to end.
- `kill` deletes the relationships of every instance it asked Lambda to end, without a
  look at those the answer names (kill.go:150): one that was not ended runs on without
  an owner.  `OwnedWhileRunning` excepts these and launches whose owner was not written.
- `add-user` and `set-role` take a UUID as it is typed (identity.go:115) and give it a
  role whether or not anybody has received it.
- An orgo answer is decoded without a look at its status (orgo_provider.go:243); a
  refused one is an instance whose ID is the empty string.
- A relationship is deleted for the user who kills, so the owner's own stays when an
  administrator ends the instance (authz.go:110).
- `set-role` drops the errors of three deletions (admin.go:216): a user may keep an
  older, higher role beside the new one.
- `ViewableResourceIDs` returns nil on an error of the look-up, which callers take
  for "no restriction" (authz.go:126).

Processes of the nodes:

- `restart-lb` waits 4 s; a predecessor that drains longer keeps the port, the new
  process ends, and the node is left without load balancer, reported as FAILED.
- `lb deploy` asks `/lb/status` afterwards, which a draining load balancer or a
  proxy answers as well: "LB running".  Where a script greps for `healthy`,
  `unhealthy` matches.
- `lb deploy`, `build --deploy` and `cluster setup` go on to start nodes whose upload
  failed, and ignore a cleanup whose connection was lost; the PID file may then name
  a dead process.
- The PID file is written before the port is bound (lb.go:377) and, as `os.Exit` and
  `log.Fatal` skip deferred calls, never removed.  `lb start` by hand beside a
  running load balancer overwrites it and ends.
- `remote-stop` says "was not running" of load balancers started by `nohup` or as
  tasks; the cleanup on Modal ends its own shell before its last line.
- `cluster setup` pulls the SGLang image and never runs it, and after a failed
  `Connect` the wait for healthy nodes lasts its whole 10 minutes.

Tracer:

- `Stop` appends the closing event without `eventsMu` (trace.go:129): it may be lost,
  and need not be the last; `AnswerIsTheSession` states what remains true.
- `LocalProcessStart` has no end on the direct path, and `QueueExit` no `QueueEnter`,
  as `TraceQueueEnter` has no caller.  The two events of one forward may go to
  different sessions.
- `stop-trace` writes an empty file for a node that answers with an error.

## 4. Proofs

TLAPS proves, for all values of the constants that satisfy `ConstAssumption`
(finitely many requests; peers, markers and goroutine names distinct; natural
limits), `HealthAssumption`, `MeshAssumption`, `ProxyAssumption`, `SSHAssumption`,
`TasksAssumption`, `TreeAssumption`, `AccessAssumption`, `FleetAssumption`,
`DeployAssumption` (nodes and PIDs are numbers, `None` is none of the names used,
what runs at first runs on a listed node) and `TracerAssumption` (the
list of nodes is not empty and names none twice), and all fault sets:

| theorem | statement |
|---|---|
| `TypeCorrect` | `Spec => []TypeOK` |
| `SingleCustodyHolds` | `Spec => []SingleCustody` |
| `NoWaiterIsLost` | `Spec => []NoLostWaiter` |
| `PopsWhatItChose` | `Spec => []PopsItsHead` |
| `QueueStaysBounded` | `Spec => []QueueBound` |
| `Refinement` | `Spec => ImplementsAdmissionQueue` |
| `CountersAddUp` | `Spec => []Accounting` |
| `RunningIsExact` | `Spec => []RunningExact` |
| `PushedRequestsStayHere` | `Spec => []PushedStaysHere` |
| `NobodyReturnsSilently` | `Spec => []NoSilentReturn` |
| `UnhealthyIsEarned` | `HealthSpec => []UnhealthyAfterThreshold` |
| `NoIntervalLeftOpen` | `HealthSpec => []OneOpenInterval` |
| `RemovalIsFinal` | `HealthSpec => RemovalOutlastsRound` |
| `HealthTypeCorrect` | `HealthSpec => []HealthTypeOK` |
| `WayIsBounded`, `RunsOnce` | `Mesh!Spec` implies `[]HopsBounded`, `[]OneRunUnlessRetried` |
| `ProxyProofs`: `TypeCorrect`, `NoWaiterIsLost`, `EveryReturnAnswers`, `OneRetry` | `Proxy!Spec` implies `[]TypeOK`, `[]NoLostWaiter`, `[]NoSilentReturn`, `[]AtMostOneRetry` |
| `ProxyProofs`: `Refinement` | `Proxy!Spec => ImplementsAdmissionQueue` |
| `TasksProofs`: `TypeCorrect`, `NoDoubleClose`, `NoLeak`, `Reports` | `SSHManager!Spec` implies `[]TypeOK`, `[]ClosedOnce`, `[]NoLeakedConnection`, `[]RunsAsReported` |
| `TasksProofs`: `TasksTypeCorrect`, `DependenciesComeFirst`, `ReturnJustified` | `TasksSpec` implies `[]TasksTypeOK`, `[]DependenciesFirst`, `[]ReturnIsJustified` |
| `FleetTypeCorrect`, `OwnersAreRecorded` | `Fleet!Spec` implies `[]TypeOK`, `[]OwnedWhileRunning` |
| `KillersArePermitted`, `KillsAreNamed`, `PortsAreLostToRaces`, `RolesAreReplaced` | `Fleet!Spec` implies `OnlyOwnerOrAdminKills`, `KillsOnlyNamed`, `PortsLostOnlyToRaces`, `RoleReplaced` |
| `PromptTreeProofs`: `TypeCorrect`, `StaysATree` | `PromptTree!Spec` implies `[]TypeOK`, `[]IsTree` |
| `StoresWhatWasRecorded` | `PromptTree!Spec => []StoresRecorded` |
| `MatchesAreSound`, `ReadsAreSound` | `PromptTree!Spec` implies `[]MatchIsSound`, `[]ReadIsSound` |
| `RolesFollowTransfer` | `Fleet!Spec => []RoleOnlyAfterTransfer` |
| `DeployTyped`, `Successes`, `Stops`, `Flushes` | `Deploy!Spec` implies `[]TypeOK`, `[]SuccessIsOfTheNew`, `[]StopFindsTheServer`, `[]FlushLeavesNoStaleEntry` |
| `Answers` | `Tracer!Spec => AnswerIsTheSession` |
| `WholeRequests` | `Tracer!Spec => []WholeRequestsAreTraced` |

*Types.*  `TypeOK` is not inductive: `target[r]` is a peer only while `r`
forwards, `procReq` a request only while the processor has one.  `Typed` adds
these links (`Linked`), among them `PopsItsHead`: a `Tail` needs a queue that is
not empty, and it is not because the processor keeps `queueMu` from looking at
the head to popping it.

*Custody.*  `SingleCustody` alone is not inductive either.  `Custody` adds: only
a request whose handler has passed its enqueue is known to the queue (else
`Enqueue` could double it), every waiter is known, and the queue is within its
limit, plus one unless the processor is serving: a popped request owns the place
it left.  The proof first shows that each step leaves queue and service alone
(`Frame`) or is one of four: `Enqueue`, the pop of the head, `ProcRequeue`,
`ProcFinish`; then one lemma per operation.  The refinement maps these four to
`Admit`, `Take`, `PutBack` and `Settle` and everything else to stuttering.

*Answers.*  `StaysHere`: a request at its last hop takes none of the routing
positions, neither its handler nor the processor's.  `AnswerWritten`: `qr.done`
is closed only after the processor found or wrote a header, so a handler that
wakes may return.

*Counters.*  `Accounting` compares a sum with the size of a set of handlers.  Each
step is one of four (`Admitted`, `Entered`, `Left`, or neither): it moves one
request into that set or out of it, and adds one on the side that pays for it.
`Tracked`: `runningRequests` is what a backend of this node works on together with the
requests whose body broke off while a handler copied it (`BrokenOff`).  It needs
`Breaks`: only a handler that has returned leaves a broken answer, and no later write
replaces it.

*Health.*  `Counted` says that a node without address has no count and no poll;
without it `AddPeer` could inherit failures.  The counter and the status then
move together, also for nodes that are not peers at the time.  `RemovalIsFinal` needs
of it only the types: that a poll stores its answer without a look at `lb.peers` can
put a node back, but a round that begins later does not ask it.

*Hops.*  `HopsBounded` relates the hop count of an exchange to that of its caller,
and is broken if the caller's count changed afterwards.  `HeldHaveBegun` excludes
it: callers, queued and served exchanges have begun, and only an exchange that has
not begun gets a new count.  `Opens` is that argument, used for clients, handlers
and processors alike.

*Runs.*  The model carries the client of each exchange (`client`), so that the proof
need not follow the callers.  `RunInv`: while a request is not in `retried`, it is
in one place at a time: of its exchanges one at most is still to serve it, and once
it has run, none is.

*Prompt trees.*  What a tree stores is a matter of words: the word of a node is what its
prefixes spell from the root.  The invariant says that there are words `W`, one per
node, that fit the edges (`Spells`), what was recorded (`Marked`: a node has the marks
of those its word was recorded for, and every recorded prompt is the word of a node) and
what every reader has matched (`ReaderInv`).  The tree alone would not do: a split
changes the prefix of a node under a reader, but neither its word nor the number of
characters the reader has matched.  `Careful` is what the separate reads add: a reader
that has the node in hand that is being shortened is torn, so whoever is not finds the
text its node has; `Splittable` and `Made` say what a split half made has changed.
`ClearCache` leaves a reader on the old tree, whose words are in `WalksOld`.  The
longest argument is completeness, that a walk passes every node whose word the prompt
starts with (`FirstMissed`, `ComesBy`, `LooksInto`); it is what the second half of
`MatchIsSound` needs, and finds every recorded prompt again. `InsertGrows` is the
insertion: it marks a node, adds a leaf, or splits an edge first. The provers cannot
instantiate the induction theorems of the library, so walks are reasoned about through
the least number for which a claim fails (`Least`, `UpTo`). `Numbered` says that the
nodes are `0 .. m` with `m` at most twice the insertions: so `Fresh` always finds an
address, and the bound on `Ids` cuts nothing off.

*Proxy.*  The invariant joins five parts.  `Phases` ties `fwd` to `pc`: a handler
that forwards has a forward, one that has not been queued has none.  `Custody`
says which requests are in the queue, that they are there once, and that what
the processor holds is still its head: only the processor removes entries, which
is why it may let go of the lock.  With it
`NoLostWaiter` is preserved.  `Attempts` counts a request at most once before it
is dispatched from the queue and once after; `Answers` says who must have
written the status by the time a handler may return.

*SSH manager.*  `Locked` says what `scm.mu` protects: a client is at one host at
most, and only what the holder of the lock is just closing has a closed `done`.
`Serves` says that a command is in one goroutine's hands at most, and that its
caller has sent it and got no result yet; from that follows that a command runs
once and that a result is that of its own command.

*Tasks.*  Each step of `Tasks` is a step of the manager, so the manager's invariant
carries over.  `Ordered`: a command is out only if the dependencies of its task are
completed, and completed tasks have the answer `ok`, which is final.
`Partitioned` keeps `remaining` the complement of `completed`.  `Stuck`: in a pass
without progress, what was visited waits for something; at the end of such a pass
everything that is left does.

*Access.*  `AdmOK` is what a command has found out by the time it uses it, e.g. that
whoever is given a role by an invitation has received the UUID.  `Solitude`: while a
`set-role` has no command beside it, the roles its user still has are those it has yet
to delete; `RolesAreReplaced` is its last step.  `RolesFollowTransfer` (`TransferInv`):
a contact is a UUID that was received, and so is the one an invitation gives its role
to; what `set-role` and `add-user` write besides was typed.  `UsersLeft` bounds the
model: an operator who needs a new UUID waits if all are drawn.

*Fleet.*  `FleetInv` says of each position of `launch` and `kill` what the command
knows there: the instance it has launched is its own and bears its name, the
argument it resolved led to the identifier it checks, the check passed when it asks
the cloud to terminate.  Permissions may be withdrawn in between, so what survives of
a check is that the user owned the instance or was an administrator once (`admins`).
Instances that are gone do not come back and keep their owner; the ledger's owner of
an instance is the cloud's, and only a kill that the cloud has answered strikes it out,
of an instance that has ended or is `disowned`.  The
proof goes by position: first what every step of another operator leaves alone, then
one lemma per step of `launch`, `kill`, and the firewall commands on each cloud.

*Deploy.*  A step of a command takes a step off its plan and a script takes a line
off itself, so what is asked of the plans must hold of whatever is left of them.
`Fits` says it for a command at a node: its plan starts a process only after the
step that cleans up, its script only after the line that ends the old ones, and it
looks for an answer last.  These are facts about sequences (`PlannedTail`,
`LineStep` and the other lemmas before the types); a script that was sent may
outlive the step that sent it, and an upload that fails cuts the plan short.
`orderly` then gives `Ordered`: one command at a time has anything left
(`OneAtATime`); where it is ready to start a process, every older one is dead or
stopping (`OldOnesEnded`); what answered it is what it has started (`Told`).  Of two
load balancers that may both write the PID file the one that loads was started by
hand (`Rivals`), and the file names each that starts or serves, or one that was
(`Filed`).  `Tame` gathers the steps that start no process; what is left are
`Launched`, `WritePidFile`, `ListenAndServe` and `Give`.

Neither crashes nor interruptions make a behaviour disorderly: the two theorems hold
with both.  `Flushes` needs no order at all.  `FlushInv`: a tree names a server
without the prompt only before a flush-cache is given or while one has still to clear
that tree (`Pending`), or for a request under way during a flush or recorded after a
bad answer since.  `Clear` empties the tree of
whoever holds the port, which is why `OnePort` is needed; `Flush` is sound because no
instance has been cleared while another is still to be flushed (`FlushSteps`), the
barrier in the code.  A flush or clear that failed leaves `failed`, and with it
`Pending`, for good.

*Tracer.*  `Answers` is about two mutexes of which the stop holds one.  `StartedOnce`: a
command starts a node once, so a pointer that was read before is either that of the
session there is or of one that does not come back; hence a late hook adds to no later
session.  `Exclusive`: who appends holds `eventsMu`, and has read the events there are
unless a stop has written beside it.  `Stopping`: while a command stops a node, its
events, and what each request under way has read of them, begin with all that the
command found and go on with what was being recorded then (`GoesOn`); a closing event
that overwrites another, or is overwritten, keeps that.

`WholeRequests` follows a request through the hooks that it calls (`CalledBy`).  Nobody has
an event of a request that has not come (`NoneBefore`).  While no command runs, each
session there is has exactly what the traced requests have done on its node
(`TracedSoFar`): they hold no pointer to another session, and `Exclusive` excludes that
an append drops events of others.  The stop that is given then runs alone, or it covers
nothing; the sessions still to be stopped, and what it has read of the one it is
stopping, have all of the requests it covers, none of which is recording (`Collecting`).
What it copies `GoesOn` from there, with events of others only.

Only model-checked: all liveness properties (TLAPS does not treat `ENABLED`), among
them `RemovedServersDrain`.

## 5. Not modelled, and what could follow

Left out for good: the tokenizer's foreign library, the log queries, Docker and the
SGLang container, the Python client, listing and status commands.  They keep no
state of their own that a model would add to, or are the interface of an external
service.  Read-only endpoints and the numeric settings of `/lb/config` are
constants of the model.  Of the proxy the prefix tree, measured costs, the latency
prober, request metrics and tuning are left out: any server with capacity may be
chosen.  What a liveness property of the fleet would say depends on operators.

What could follow: the proxy's prefix tree (as `PromptTree`) with its metrics.

## 6. How to run

    tlc -config MCLBQueue.cfg MCLoadBalancer      # and the other pairs of section 3
    tlapm FleetProofs.tla                         # and the other seven

A run takes up to about three minutes with two workers, the proofs about ten
minutes together.
