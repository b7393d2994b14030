------------------------------- MODULE Deploy -------------------------------
(***************************************************************************)
(* The processes on the nodes and the commands that replace them: gotoni   *)
(* lb deploy | remote-stop | start | stop | clear-cache | policy, cluster  *)
(* restart-lb | upload | flush-cache | setup, build --deploy, and proxy    *)
(* deploy | stop (cmd/lb.go, lb-deploy.go, cluster.go, build.go, proxy.go, *)
(* pkg/cluster/build.go).                                                  *)
(*                                                                         *)
(* A command is a process on an operator's machine.  For every node it has *)
(* steps to make, one of which may be to run a script there; a script goes *)
(* on when the connection it was sent over, or the command, is gone.       *)
(* Which peers and servers a process is started with is left out, and what *)
(* cluster setup does for Docker and the SGLang image.  Of the strategies  *)
(* there is one with a tree and one without; prefix-tree, which records a  *)
(* node before it answers, is left out.                                    *)
(***************************************************************************)
EXTENDS Integers, SequencesExt

CONSTANTS
  Nodes,        \* the running instances, numbered as they are listed
  Pids,         \* process IDs, given out in this order
  Requests,     \* requests that load balancers send to an SGLang server
  Kinds,        \* the commands, see Plan
  Scenes,       \* what there is at first, see below
  MaxCommands,
  None

Hows == {"gotoni-lb", "task", "nohup", "hand"}

Known == {"deploy", "restart", "upload", "build", "build start", "setup",
          "remote-stop", "flush", "clear-cache", "policy gorgo",
          "policy least-loaded", "proxy", "lb start", "lb stop", "proxy start",
          "proxy stop"}

\* A load balancer that runs at first has the number of its node.
DeployAssumption ==
  /\ Nodes \subseteq Nat /\ Pids \subseteq Nat /\ Kinds \subseteq Known
  /\ None \notin Pids
  /\ None \notin Known \cup Hows \cup {"partial", "noexec", "good", "lb", "proxy"}
  /\ MaxCommands \in Nat
  /\ \A s \in Scenes :
       /\ s.cloud \in {"ssh", "modal"} /\ s.most <= MaxCommands
       /\ DOMAIN s.runs \subseteq Nodes
       /\ \A n \in DOMAIN s.runs : s.runs[n] # None =>
            n \in Pids /\ s.runs[n] \in Hows
       /\ s.kinds \subseteq Kinds /\ s.requests \subseteq Requests

ASSUME DeployAssumption

Commands == 1 .. MaxCommands

VARIABLES
  scene,     \* the provider ("ssh" is Lambda or Orgo), what runs on the
             \* instances there are, which and how many commands are to come
  binary,    \* /home/ubuntu/gotoni: None, "partial", "noexec" or "good"
  proc,      \* the processes
  pidfile,   \* /tmp/gotoni-lb.pid and /tmp/gotoni-proxy.pid of each node
  cmd,       \* which command each is, None before it is given
  left,      \* the steps it has left on each node
  script,    \* what a node still runs on its behalf
  started,   \* the process it started on a node, if any
  answerer,  \* the process that answered when it looked whether all is well
  failed,    \* it met an error, or was interrupted
  orderly,   \* each command found the work of the last one done, and no
             \* cleanup was cut off
  kv,        \* the SGLang server of a node has the prompt in its KV cache
  request,   \* the requests
  raced      \* those that were under way while their server was flushed, or
             \* were recorded unserved in a tree that had been cleared

nodeVars == <<binary, proc, pidfile>>
commandVars == <<cmd, left, script, started, answerer, failed, orderly>>
cacheVars == <<kv, request, raced>>
vars == <<scene, nodeVars, commandVars, cacheVars>>

NoProcess == [st |-> "none", node |-> None, kind |-> None, how |-> None,
              policy |-> "gorgo", tree |-> {}]

Process(n, kind, how) ==
  [NoProcess EXCEPT !.st = "loading", !.node = n, !.kind = kind, !.how = how]

TypeOK ==
  /\ binary \in [Nodes -> {None, "partial", "noexec", "good"}]
  /\ proc \in [Pids -> [st : {"none", "loading", "starting", "serving",
                              "stopping", "dead"},
                        node : Nodes \cup {None}, kind : {"lb", "proxy", None},
                        how : Hows \cup {None},
                        policy : {"gorgo", "least-loaded"},
                        tree : SUBSET Requests]]
  /\ pidfile \in [Nodes -> [{"lb", "proxy"} -> Pids \cup {None}]]
  /\ cmd \in [Commands -> Kinds \cup {None}]
  /\ started \in [Commands -> [Nodes -> Pids \cup {None}]]
  /\ answerer \in [Commands -> [Nodes -> Pids \cup {None}]]
  /\ failed \in [Commands -> BOOLEAN] /\ orderly \in BOOLEAN
  /\ kv \in [Nodes -> BOOLEAN] /\ raced \subseteq Requests

Modal == scene.cloud = "modal"

Instances == DOMAIN scene.runs

Runs == {n \in Instances : scene.runs[n] # None}

Init ==
  /\ scene \in Scenes
  /\ binary = [n \in Nodes |-> "good"]
  /\ proc = [p \in Pids |->
       IF p \in Runs
       THEN [Process(p, "lb", scene.runs[p]) EXCEPT !.st = "serving"]
       ELSE NoProcess]
  /\ pidfile = [n \in Nodes |->
       [k \in {"lb", "proxy"} |-> IF k = "lb" /\ n \in Runs THEN n ELSE None]]
  /\ cmd = [c \in Commands |-> None]
  /\ left = [c \in Commands |-> [n \in Nodes |-> <<>>]]
  /\ script = left
  /\ started = [c \in Commands |-> [n \in Nodes |-> None]]
  /\ answerer = started
  /\ failed = [c \in Commands |-> FALSE]
  /\ orderly = TRUE
  /\ kv = [n \in Nodes |-> FALSE]
  /\ request = [r \in Requests |-> [st |-> "none", lb |-> None, node |-> None]]
  /\ raced = {}

-----------------------------------------------------------------------------
(* The processes *)

Alive(p) == proc[p].st \in {"loading", "starting", "serving", "stopping"}

Holds(p) == proc[p].st \in {"serving", "stopping"}

\* Load balancers and proxies listen on the same port by default.
Holders(n) == {p \in Pids : proc[p].node = n /\ Holds(p)}

PortHolder(n) ==
  IF Holders(n) = {} THEN None ELSE CHOOSE p \in Holders(n) : TRUE

On(n, kinds, hows) ==
  {p \in Pids :
     /\ proc[p].node = n /\ Alive(p)
     /\ proc[p].kind \in kinds /\ proc[p].how \in hows}

Killed(ps) ==
  [p \in Pids |-> IF p \in ps THEN [proc[p] EXCEPT !.st = "dead"] ELSE proc[p]]

\* SIGTERM: before the server listens there is no handler yet, or nothing that
\* lb.Stop would wait for; the channel of the handler is read once.
Terminated(ps) ==
  [p \in Pids |->
     IF p \in ps /\ proc[p].st \in {"loading", "starting"}
     THEN [proc[p] EXCEPT !.st = "dead"]
     ELSE IF p \in ps /\ proc[p].st = "serving"
     THEN [proc[p] EXCEPT !.st = "stopping"] ELSE proc[p]]

FreePid == {p \in Pids : /\ proc[p].st = "none"
                         /\ \A q \in Pids : proc[q].st = "none" => p <= q}

\* Mutant of WritePidFile: a file that is there is left alone.
WritePidFileOnce(p) ==
  /\ proc[p].st = "loading"
  /\ proc' = [proc EXCEPT ![p].st = "starting"]
  /\ pidfile' = [pidfile EXCEPT ![proc[p].node][proc[p].kind] =
                   IF @ = None THEN p ELSE @]

WritePidFile(p) ==
  /\ proc[p].st = "loading"
  /\ proc' = [proc EXCEPT ![p].st = "starting"]
  /\ pidfile' = [pidfile EXCEPT ![proc[p].node][proc[p].kind] = p]

\* log.Fatal if the port is taken, which runs no deferred call: the PID file
\* stays, as it does after os.Exit and after any signal.
ListenAndServe(p) ==
  /\ proc[p].st = "starting"
  /\ proc' = [proc EXCEPT ![p].st =
       IF Holders(proc[p].node) = {} THEN "serving" ELSE "dead"]
  /\ UNCHANGED pidfile

\* gotoni lb start, gotoni proxy start
LBStart(p) ==
  /\ proc[p].kind = "lb" /\ (WritePidFile(p) \/ ListenAndServe(p))
  /\ UNCHANGED <<binary, commandVars, cacheVars>>

ProxyStart(p) ==
  /\ proc[p].kind = "proxy" /\ (WritePidFile(p) \/ ListenAndServe(p))
  /\ UNCHANGED <<binary, commandVars, cacheVars>>

\* Stop has returned and the process exits.
Stopped(p) ==
  /\ proc[p].st = "stopping"
  /\ proc' = Killed({p})
  /\ UNCHANGED <<binary, pidfile, commandVars, cacheVars>>

Crash(p) ==
  /\ Alive(p)
  /\ proc' = Killed({p})
  /\ UNCHANGED <<binary, pidfile, commandVars, cacheVars>>

-----------------------------------------------------------------------------
(* Requests and what is cached where *)

Submit(r, p, n) ==
  /\ r \in scene.requests /\ request[r].st = "none"
  /\ n \in Instances /\ proc[p].st = "serving" /\ proc[p].kind = "lb"
  /\ request' = [request EXCEPT ![r] = [st |-> "sent", lb |-> p, node |-> n]]
  /\ UNCHANGED <<nodeVars, commandVars, kv, raced>>

Cached(r) ==
  /\ request[r].st = "sent"
  /\ kv' = [kv EXCEPT ![request[r].node] = TRUE]
  /\ request' = [request EXCEPT ![r].st = "cached"]
  /\ UNCHANGED <<nodeVars, commandVars, raced>>

\* flush-cache has cleared the tree at n, every time it was given.
ClearedAt(n) ==
  /\ \E c \in Commands : cmd[c] = "flush"
  /\ \A c \in Commands : cmd[c] = "flush" => left[c][n] = <<>>

\* The node is recorded in the tree, if there is one: by a handler after a good
\* answer, by the queue's processor after any, so also for a prompt that its
\* server has not seen.
InsertAfterAnswer(r) ==
  /\ request[r].st \in {"sent", "cached"} /\ Holds(request[r].lb)
  /\ LET lb == request[r].lb IN
     /\ proc' = [proc EXCEPT ![lb].tree =
          IF proc[lb].policy = "gorgo" THEN @ \cup {r} ELSE @]
     /\ raced' = IF request[r].st = "sent" /\ ClearedAt(proc[lb].node)
                 THEN raced \cup {r} ELSE raced
  /\ request' = [request EXCEPT ![r].st = "done"]
  /\ UNCHANGED <<binary, pidfile, commandVars, kv>>

UnderWay(n) ==
  {r \in Requests : request[r].node = n /\ request[r].st \in {"sent", "cached"}}

-----------------------------------------------------------------------------
(* The commands *)

\* The steps each command has to make on a node.  Modal has no SSH key for an
\* instance, and load balancers are not restarted there.
DeployPlan ==
  IF Modal THEN <<"connect">>
  ELSE <<"connect", "clean", "upload", "chmod", "start", "verify">>

RestartPlan == IF Modal THEN <<>> ELSE <<"connect", "script">>

UploadPlan == <<"connect", "clean", "upload", "chmod">>

ModalUploadPlan == <<"clean", "upload", "chmod">>

RemoteStopPlan == <<"connect", "script">>

FlushPlan == <<"flush", "clear">>

ClearCachePlan == <<"clear">>

PolicyPlan == <<"policy">>

ProxyPlan == <<"connect", "clean", "upload", "chmod", "start", "verify">>

ModalProxyPlan == <<"clean", "upload", "chmod", "start">>

\* DeployGotoniToCluster and DeployLBStrategyWithConfig, over the connections of
\* a Cluster.  A Modal sandbox gets none, and no file either.
DeployGotoni == IF Modal THEN <<"connect">>
                ELSE <<"connect", "clean", "upload", "chmod">>

DeployLBStrategy == IF Modal THEN <<>> ELSE <<"stop", "start">>

BuildPlan(startLB) ==
  DeployGotoni \o (IF startLB THEN DeployLBStrategy ELSE <<>>)

SetupPlan == DeployGotoni \o DeployLBStrategy

PolicyKinds == {"policy gorgo", "policy least-loaded"}

Plan(kind) ==
  CASE kind = "deploy"      -> DeployPlan
    [] kind = "restart"     -> RestartPlan
    [] kind = "upload"      -> IF Modal THEN ModalUploadPlan ELSE UploadPlan
    [] kind = "build"       -> BuildPlan(FALSE)
    [] kind = "build start" -> BuildPlan(TRUE)
    [] kind = "setup"       -> SetupPlan
    [] kind = "remote-stop" -> RemoteStopPlan
    [] kind = "flush"       -> FlushPlan
    [] kind = "clear-cache" -> ClearCachePlan
    [] kind \in PolicyKinds -> PolicyPlan
    [] kind = "proxy"       -> IF Modal THEN ModalProxyPlan ELSE ProxyPlan
    [] OTHER                -> <<"script">>

\* The commands that work on a Cluster.
OnCluster == {"build", "build start", "setup"}

OneNode == {"proxy", "lb start", "proxy start", "lb stop", "proxy stop"}

Quiet ==
  /\ \A c \in Commands, n \in Nodes : left[c][n] = <<>> /\ script[c][n] = <<>>
  /\ \A p \in Pids : proc[p].st \notin {"loading", "starting"}

Give(c, kind, n) ==
  /\ c <= scene.most /\ cmd[c] = None
  /\ \A b \in Commands : b < c => cmd[b] # None
  /\ kind \in scene.kinds /\ n \in Instances
  /\ cmd' = [cmd EXCEPT ![c] = kind]
  /\ left' = [left EXCEPT ![c] = [m \in Nodes |->
       IF m = n \/ (m \in Instances /\ kind \notin OneNode)
       THEN Plan(kind) ELSE <<>>]]
  /\ orderly' = (orderly /\ Quiet)
  /\ UNCHANGED <<nodeVars, script, started, answerer, failed, cacheVars>>

Interrupt(c) ==
  /\ \E n \in Nodes : left[c][n] # <<>>
  /\ left' = [left EXCEPT ![c] = [n \in Nodes |-> <<>>]]
  /\ failed' = [failed EXCEPT ![c] = TRUE]
  /\ UNCHANGED <<nodeVars, cmd, script, started, answerer, orderly, cacheVars>>

At(c, n, step) == left[c][n] # <<>> /\ Head(left[c][n]) = step

Through(c, n) == left' = [left EXCEPT ![c][n] = Tail(@)]

Drop(c, n) ==
  /\ left' = [left EXCEPT ![c][n] = <<>>]
  /\ failed' = [failed EXCEPT ![c] = TRUE]

\* wg.Wait: no node has this step still to make.
AllPast(c, step) == \A n \in Nodes : step \notin Range(left[c][n])

\* A loop over the nodes has come to this one.
Reached(c, n) == \A m \in Nodes : m < n => left[c][m] = <<>>

Connect(c, n) ==
  /\ At(c, n, "connect") /\ cmd[c] \notin OnCluster
  /\ \/ ~Modal /\ Through(c, n) /\ UNCHANGED failed
     \/ Drop(c, n)
  /\ UNCHANGED <<nodeVars, cmd, script, started, answerer, orderly, cacheVars>>

\* A node that is not connected takes no more commands, but scp goes ahead.
ClusterConnect(c, n) ==
  /\ At(c, n, "connect") /\ cmd[c] \in OnCluster
  /\ \/ ~Modal /\ Through(c, n) /\ UNCHANGED failed
     \/ /\ left' = [left EXCEPT ![c][n] =
               IF Modal THEN <<>> ELSE <<"upload", "chmod">>]
        /\ failed' = [failed EXCEPT ![c] = TRUE]
  /\ UNCHANGED <<nodeVars, cmd, script, started, answerer, orderly, cacheVars>>

\* The scripts.  Modal's are arguments of /bin/bash -c, and pgrep -f finds that
\* shell with the rest: it is terminated before it comes to rm.
DeployCleanup == <<"hup", "term lb", "rm">>

UploadCleanup == <<"hup task", "term lb", "rm">>

ModalUploadCleanup == <<"term any">>

ClusterCleanup == <<"hup task", "term lb", "rm">>

StopScript == <<"hup", "term lb">>

\* executeBackgroundCommand
TaskScript == <<"hup task", "task">>

ProxyCleanup == <<"hup", "kill", "fuser", "rm">>

ModalProxyCleanup == <<"term proxy">>

\* Mutant of RestartScript: the old load balancer is not told to stop.
RestartScriptNoTerm == <<"hup", "nohup", "health">>

RestartScript == <<"hup", "term lb", "nohup", "health">>

Cleanup(kind) ==
  CASE kind = "deploy" -> DeployCleanup
    [] kind = "upload" -> IF Modal THEN ModalUploadCleanup ELSE UploadCleanup
    [] kind = "proxy"  -> IF Modal THEN ModalProxyCleanup ELSE ProxyCleanup
    [] OTHER           -> ClusterCleanup

Script(kind, step) ==
  CASE step = "clean"    -> Cleanup(kind)
    [] step = "stop"     -> StopScript
    [] step = "start"    -> IF kind = "deploy" THEN <<"tmux">>
                            ELSE IF kind = "proxy" THEN <<"nohup">>
                            ELSE TaskScript
    [] step = "script"   -> IF kind = "restart" THEN RestartScript ELSE <<kind>>

Scripted == {"clean", "stop", "start", "script"}

\* ExecuteOnCluster, and the loop that starts load balancers: a step is taken by
\* one node after the other, once all of them are past the one before.
InTurn(c, n, before, step) ==
  /\ AllPast(c, before) /\ AllPast(c, "failed")
  /\ \A m \in Nodes : left[c][m] # <<>> => Head(left[c][m]) # "wait"
  /\ \A m \in Nodes : m < n => step \notin Range(left[c][m])

\* lb deploy connects everywhere, then uploads everywhere, then starts one load
\* balancer after the other.
MayRun(c, n, step) ==
  cmd[c] = "deploy" =>
    /\ step = "clean" => AllPast(c, "connect")
    /\ step = "start" => AllPast(c, "chmod") /\ Reached(c, n)

MayRunOnCluster(c, n, step) ==
  cmd[c] \in OnCluster =>
    CASE step = "clean" -> InTurn(c, n, "connect", "clean")
      [] step = "stop"  -> InTurn(c, n, "chmod", "stop")
      [] step = "start" -> InTurn(c, n, "stop", "start")

RunScript(c, n) ==
  \E step \in Scripted :
    /\ At(c, n, step) /\ MayRun(c, n, step) /\ MayRunOnCluster(c, n, step)
    /\ script' = [script EXCEPT ![c][n] = Script(cmd[c], step)]
    /\ left' = [left EXCEPT ![c][n] = <<"wait">> \o Tail(@)]
    /\ UNCHANGED <<nodeVars, cmd, started, answerer, failed, orderly,
                   cacheVars>>

ScriptEnds(c, n) ==
  /\ At(c, n, "wait") /\ script[c][n] = <<>>
  /\ Through(c, n)
  /\ UNCHANGED <<nodeVars, cmd, script, started, answerer, failed, orderly,
                 cacheVars>>

\* The script fails, the connection breaks, or the answer takes more than 30 s:
\* then the script may go on.  The result of a cleanup is not looked at, else the
\* node is given up.
ScriptLost(c, n) ==
  /\ At(c, n, "wait") /\ script[c][n] # <<>>
  /\ script' \in {script, [script EXCEPT ![c][n] = <<>>]}
  /\ script[c][n] = <<"error">> => script' # script
  /\ IF Len(left[c][n]) > 1 /\ left[c][n][2] \in {"upload", "start"}
     THEN Through(c, n) /\ orderly' = FALSE /\ UNCHANGED failed
     ELSE Drop(c, n) /\ UNCHANGED orderly
  /\ UNCHANGED <<nodeVars, cmd, started, answerer, cacheVars>>

\* scp, or Modal's file API.  lb deploy starts the node even if this failed.
Upload(c, n) ==
  /\ At(c, n, "upload") /\ cmd[c] \notin OnCluster
  /\ \/ /\ binary' = [binary EXCEPT ![n] =
             IF Modal THEN "noexec" ELSE "good"]
        /\ Through(c, n) /\ UNCHANGED failed
     \/ /\ binary' \in {binary, [binary EXCEPT ![n] = "partial"]}
        /\ IF cmd[c] = "deploy"
           THEN /\ left' = [left EXCEPT ![c][n] = Tail(Tail(@))]
                /\ UNCHANGED failed
           ELSE Drop(c, n)
  /\ UNCHANGED <<proc, pidfile, cmd, script, started, answerer, orderly,
                 cacheVars>>

\* The goroutines of DeployGotoniToCluster, which ExecuteOnCluster precedes.
UploadToCluster(c, n) ==
  /\ At(c, n, "upload") /\ cmd[c] \in OnCluster
  /\ AllPast(c, "connect") /\ AllPast(c, "clean") /\ AllPast(c, "wait")
  /\ \/ /\ binary' = [binary EXCEPT ![n] = "good"]
        /\ Through(c, n) /\ UNCHANGED failed
     \/ /\ binary' \in {binary, [binary EXCEPT ![n] = "partial"]}
        /\ left' = [left EXCEPT ![c][n] = <<"failed">> \o Tail(Tail(@))]
        /\ failed' = [failed EXCEPT ![c] = TRUE]
  /\ UNCHANGED <<proc, pidfile, cmd, script, started, answerer, orderly,
                 cacheVars>>

\* wg.Wait.  If no upload went through, build gives up; setup and a build of
\* which one did start load balancers on every node all the same.
UploadsEnd(c) ==
  LET failures == {n \in Nodes : At(c, n, "failed")} IN
  /\ failures # {} /\ AllPast(c, "upload") /\ AllPast(c, "chmod")
  /\ left' = [left EXCEPT ![c] = [n \in Nodes |->
       IF n \notin failures THEN left[c][n]
       ELSE IF cmd[c] # "setup" /\ failures = Instances THEN <<>>
       ELSE Tail(left[c][n])]]
  /\ UNCHANGED <<nodeVars, cmd, script, started, answerer, failed, orderly,
                 cacheVars>>

\* An error here ends the command on the node, on Modal it is a warning.
Chmod(c, n) ==
  /\ At(c, n, "chmod")
  /\ \/ /\ binary[n] # None
        /\ binary' = [binary EXCEPT ![n] = IF @ = "noexec" THEN "good" ELSE @]
        /\ Through(c, n) /\ UNCHANGED failed
     \/ /\ UNCHANGED binary
        /\ IF cmd[c] = "deploy" \/ cmd[c] \in OnCluster \/ Modal
           THEN Through(c, n) /\ UNCHANGED failed ELSE Drop(c, n)
  /\ UNCHANGED <<proc, pidfile, cmd, script, started, answerer, orderly,
                 cacheVars>>

\* GET /lb/status after a second, /proxy/status after two: whoever has the port
\* answers.
Verify(c, n) ==
  /\ At(c, n, "verify")
  /\ answerer' = [answerer EXCEPT ![c][n] = PortHolder(n)]
  /\ Through(c, n)
  /\ UNCHANGED <<nodeVars, cmd, script, started, failed, orderly, cacheVars>>

\* POST /flush_cache to an SGLang server; an error leaves the rest to do.
Flush(c, n) ==
  /\ At(c, n, "flush")
  /\ Through(c, n)
  /\ \/ /\ kv' = [kv EXCEPT ![n] = FALSE]
        /\ raced' = raced \cup UnderWay(n)
        /\ UNCHANGED failed
     \/ /\ failed' = [failed EXCEPT ![c] = TRUE]
        /\ UNCHANGED <<kv, raced>>
  /\ UNCHANGED <<nodeVars, cmd, script, started, answerer, orderly, request>>

\* Mutant of Clear: the trees are cleared while servers are still flushed.
ClearAtOnce(c, n) ==
  /\ At(c, n, "clear")
  /\ \/ /\ PortHolder(n) # None /\ proc[PortHolder(n)].kind = "lb"
        /\ proc' = [proc EXCEPT ![PortHolder(n)].tree = {}]
        /\ Through(c, n) /\ UNCHANGED failed
     \/ Drop(c, n) /\ UNCHANGED proc
  /\ UNCHANGED <<binary, pidfile, cmd, script, started, answerer, orderly,
                 cacheVars>>

\* POST /lb/cache/clear to whoever has the port: by flush-cache once every flush
\* is answered, by clear-cache to one after the other.
Clear(c, n) ==
  /\ At(c, n, "clear") /\ AllPast(c, "flush")
  /\ cmd[c] = "clear-cache" => Reached(c, n)
  /\ \/ /\ PortHolder(n) # None /\ proc[PortHolder(n)].kind = "lb"
        /\ proc' = [proc EXCEPT ![PortHolder(n)].tree = {}]
        /\ Through(c, n) /\ UNCHANGED failed
     \/ Drop(c, n) /\ UNCHANGED proc
  /\ UNCHANGED <<binary, pidfile, cmd, script, started, answerer, orderly,
                 cacheVars>>

\* GET /lb/policy?set= makes a new strategy, whose tree is empty, of the same
\* kind as the old one or not.
SetPolicy(c, n) ==
  /\ At(c, n, "policy") /\ Reached(c, n)
  /\ \/ /\ PortHolder(n) # None /\ proc[PortHolder(n)].kind = "lb"
        /\ proc' = [proc EXCEPT ![PortHolder(n)] = [@ EXCEPT
             !.tree = {},
             !.policy = IF cmd[c] = "policy gorgo" THEN "gorgo"
                        ELSE "least-loaded"]]
        /\ Through(c, n) /\ UNCHANGED failed
     \/ Drop(c, n) /\ UNCHANGED proc
  /\ UNCHANGED <<binary, pidfile, cmd, script, started, answerer, orderly,
                 cacheVars>>

CommandStep(c, n) ==
  \/ ClusterConnect(c, n) \/ UploadToCluster(c, n)
  \/ Connect(c, n) \/ RunScript(c, n) \/ ScriptEnds(c, n) \/ ScriptLost(c, n)
  \/ Upload(c, n) \/ Chmod(c, n) \/ Verify(c, n) \/ Flush(c, n) \/ Clear(c, n)
  \/ SetPolicy(c, n)

-----------------------------------------------------------------------------
(* What the scripts do on the nodes *)

Ran(c, n) == script' = [script EXCEPT ![c][n] = Tail(@)]

Line(c, n, line) == script[c][n] # <<>> /\ Head(script[c][n]) = line

\* Ending a tmux session hangs up what runs in it, which handles no SIGHUP.
KillSession(c, n) ==
  \E l \in {"hup", "hup task", "remote-stop"} :
    /\ Line(c, n, l) /\ Ran(c, n)
    /\ proc' = Killed(On(n, {"lb"},
         CASE l = "hup"         -> {"gotoni-lb", "task"}
           [] l = "hup task"    -> {"task"}
           [] l = "remote-stop" -> {"gotoni-lb"}))
    /\ UNCHANGED <<binary, pidfile, started, answerer>>

\* pgrep -f and kill
Terminate(c, n) ==
  \E l \in {"term lb", "term proxy", "term any"} :
    /\ Line(c, n, l) /\ Ran(c, n)
    /\ proc' = Terminated(On(n,
         CASE l = "term lb"    -> {"lb"}
           [] l = "term proxy" -> {"proxy"}
           [] l = "term any"   -> {"lb", "proxy"}, Hows))
    /\ UNCHANGED <<binary, pidfile, started, answerer>>

\* pgrep -f gotoni and kill -9; fuser -k on the port.
KillHard(c, n) ==
  /\ \/ Line(c, n, "kill") /\ proc' = Killed(On(n, {"lb", "proxy"}, Hows))
     \/ Line(c, n, "fuser") /\ proc' = Killed(Holders(n))
  /\ Ran(c, n)
  /\ UNCHANGED <<binary, pidfile, started, answerer>>

RemoveBinary(c, n) ==
  /\ Line(c, n, "rm") /\ Ran(c, n)
  /\ binary' = [binary EXCEPT ![n] = None]
  /\ UNCHANGED <<proc, pidfile, started, answerer>>

\* A process is started if the binary can be executed.
Spawn(c, n, kind, how) ==
  IF binary[n] = "good"
  THEN \E p \in FreePid :
         /\ proc' = [proc EXCEPT ![p] = Process(n, kind, how)]
         /\ started' = [started EXCEPT ![c][n] = p]
  ELSE UNCHANGED <<proc, started>>

\* nohup gotoni lb start, after a look for the binary; nohup gotoni proxy start;
\* gotoni lb start or proxy start by hand.
StartProcess(c, n) ==
  \/ /\ Line(c, n, "nohup") /\ cmd[c] = "restart" /\ binary[n] = None
     /\ script' = [script EXCEPT ![c][n] = <<>>]
     /\ UNCHANGED <<nodeVars, started, answerer>>
  \/ /\ \/ /\ Line(c, n, "nohup") /\ cmd[c] = "restart" /\ binary[n] # None
           /\ Spawn(c, n, "lb", "nohup")
        \/ /\ Line(c, n, "nohup") /\ cmd[c] = "proxy"
           /\ Spawn(c, n, "proxy", "nohup")
        \/ Line(c, n, "lb start") /\ Spawn(c, n, "lb", "hand")
        \/ Line(c, n, "proxy start") /\ Spawn(c, n, "proxy", "hand")
     /\ Ran(c, n)
     /\ UNCHANGED <<binary, pidfile, answerer>>

\* tmux new-session fails if the session is still there; lb deploy, if it waits
\* for the answer, then gives the node up (ScriptLost).
StartSession(c, n) ==
  /\ Line(c, n, "tmux") \/ Line(c, n, "task")
  /\ LET how == IF Line(c, n, "tmux") THEN "gotoni-lb" ELSE "task" IN
     \/ /\ On(n, {"lb"}, {how}) = {}
        /\ Spawn(c, n, "lb", how) /\ Ran(c, n)
     \/ /\ On(n, {"lb"}, {how}) # {} /\ UNCHANGED <<proc, started>>
        /\ IF how = "gotoni-lb" /\ At(c, n, "wait")
           THEN script' = [script EXCEPT ![c][n] = <<"error">>]
           ELSE Ran(c, n)
  /\ UNCHANGED <<binary, pidfile, answerer>>

\* curl /lb/health | grep healthy: a load balancer that serves says "healthy" or
\* "unhealthy", one that stops or a proxy says something else.
CheckHealth(c, n) ==
  /\ Line(c, n, "health") /\ Ran(c, n)
  /\ LET p == PortHolder(n) IN
     answerer' = [answerer EXCEPT ![c][n] =
       IF p # None /\ proc[p].kind = "lb" /\ proc[p].st = "serving"
       THEN p ELSE None]
  /\ UNCHANGED <<nodeVars, started>>

\* gotoni lb stop, gotoni proxy stop
StopByPidFile(c, n) ==
  \E k \in {"lb", "proxy"} :
    /\ Line(c, n, IF k = "lb" THEN "lb stop" ELSE "proxy stop") /\ Ran(c, n)
    /\ proc' = Terminated({pidfile[n][k]} \ {None})
    /\ UNCHANGED <<binary, pidfile, started, answerer>>

ScriptStep(c, n) ==
  /\ \/ KillSession(c, n) \/ Terminate(c, n) \/ KillHard(c, n)
     \/ RemoveBinary(c, n) \/ StartProcess(c, n) \/ StartSession(c, n)
     \/ CheckHealth(c, n) \/ StopByPidFile(c, n)
  /\ UNCHANGED <<cmd, left, failed, orderly, cacheVars>>

Next ==
  /\ \/ \E p \in Pids :
          LBStart(p) \/ ProxyStart(p) \/ Stopped(p) \/ Crash(p)
     \/ \E r \in Requests, p \in Pids, n \in Nodes : Submit(r, p, n)
     \/ \E r \in Requests : Cached(r) \/ InsertAfterAnswer(r)
     \/ \E c \in Commands, kind \in Kinds, n \in Nodes : Give(c, kind, n)
     \/ \E c \in Commands : Interrupt(c) \/ UploadsEnd(c)
     \/ \E c \in Commands, n \in Nodes : CommandStep(c, n) \/ ScriptStep(c, n)
  /\ UNCHANGED scene

Spec == Init /\ [][Next]_vars

-----------------------------------------------------------------------------
(* Properties *)

\* A node restarted with success is served by the process that was started, not
\* by one the script was to replace; so is a node a proxy was deployed to.
SuccessIsOfTheNew ==
  /\ TypeOK
  /\ orderly => \A c \in Commands, n \in Nodes :
       cmd[c] \in {"restart", "proxy"} /\ answerer[c][n] # None =>
         answerer[c][n] = started[c][n]

\* 'lb stop' finds the load balancer that serves: the PID file names it, unless
\* somebody has started another one by hand, which could not get the port.
StopFindsTheServer ==
  orderly => \A p \in Pids :
    proc[p].st = "serving" /\ proc[p].kind = "lb" =>
      LET q == pidfile[proc[p].node]["lb"] IN
      q = p \/ (q # None /\ proc[q].how = "hand")

FlushedAll(c) ==
  cmd[c] = "flush" /\ ~failed[c] /\ \A n \in Nodes : left[c][n] = <<>>

\* After flush-cache has gone through, a tree names a node only if its server
\* has the prompt, or for a request that was under way while it was flushed, or
\* one answered badly from the queue after that tree was cleared: nothing that
\* was in a tree before the flush, right or wrong, is left.
FlushLeavesNoStaleEntry ==
  (/\ \E c \in Commands : FlushedAll(c)
   /\ \A c \in Commands : cmd[c] = "flush" => FlushedAll(c)) =>
    \A p \in Pids : proc[p].st = "serving" =>
      \A r \in proc[p].tree : kv[request[r].node] \/ r \in raced

=============================================================================
