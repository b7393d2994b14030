----------------------------- MODULE SSHManager -----------------------------
(***************************************************************************)
(* The SSH client manager (pkg/remote/ssh.go): a map of connections, each  *)
(* with one goroutine that takes commands from an unbuffered channel and   *)
(* runs them one after the other, and calls of ExecuteCommandWithTimeout   *)
(* with a timer on either side of that channel.                            *)
(*                                                                         *)
(* scm.mu is held over a dial and over closing, and only there for longer  *)
(* than a step: it is free if nothing is dialing and nothing is closing.   *)
(***************************************************************************)
EXTENDS Naturals, FiniteSets

CONSTANTS
  Calls,     \* of ExecuteCommandWithTimeout
  Hosts,     \* instanceIP
  Target,    \* the host each call is for
  Conns,     \* SSHClient objects
  NoHost, NoConn, NoCall

SSHAssumption ==
  /\ Target \in [Calls -> Hosts]
  /\ NoHost \notin Hosts /\ NoConn \notin Conns /\ NoCall \notin Calls

ASSUME SSHAssumption

VARIABLES
  clients,  \* scm.clients
  dialing,  \* the host ConnectToInstance is dialing
  closing,  \* the hosts the holder of scm.mu has still to disconnect
  half,     \* the client whose done it has closed, but not its connection
  loop,     \* where run() of each client is
  serving,  \* the call whose command it has taken
  open,     \* clients whose SSH connection is up
  closes,   \* how often done of each client was closed
  pc,       \* where each call is; at the end, what it returned
  held,     \* the client it looked up, until it has sent
  result,   \* what is in its result channel, as long as it may be read
  runs      \* how often its command was started on the host

muVars   == <<clients, dialing, closing, half>>
loopVars == <<loop, serving>>
callVars == <<pc, held, result, runs>>

sshVars == <<muVars, loopVars, open, closes, callVars>>

-----------------------------------------------------------------------------

\* "unknown": no client; "unsent" and "late": the first or second timer fired.
Returned == {"ok", "error", "unknown", "unsent", "late"}
CallPcs  == {"idle", "lookup", "send", "wait"} \cup Returned

TypeOK ==
  /\ clients \in [Hosts -> Conns \cup {NoConn}]
  /\ dialing \in Hosts \cup {NoHost}
  /\ closing \subseteq Hosts
  /\ half \in Conns \cup {NoConn}
  /\ loop \in [Conns -> {"none", "select", "taken", "session", "exited"}]
  /\ serving \in [Conns -> Calls \cup {NoCall}]
  /\ \A c \in Conns : loop[c] \in {"taken", "session"} => serving[c] \in Calls
  /\ open \subseteq Conns
  /\ closes \in [Conns -> Nat]
  /\ pc \in [Calls -> CallPcs]
  /\ held \in [Calls -> Conns \cup {NoConn}]
  /\ \A x \in Calls : pc[x] = "send" => held[x] \in Conns
  /\ result \in [Calls -> {"none", "ok", "error"}]
  /\ runs \in [Calls -> Nat]

Init ==
  /\ clients = [h \in Hosts |-> NoConn]
  /\ dialing = NoHost /\ closing = {} /\ half = NoConn
  /\ loop = [c \in Conns |-> "none"]
  /\ serving = [c \in Conns |-> NoCall]
  /\ open = {}
  /\ closes = [c \in Conns |-> 0]
  /\ pc = [x \in Calls |-> "idle"]
  /\ held = [x \in Calls |-> NoConn]
  /\ result = [x \in Calls |-> "none"]
  /\ runs = [x \in Calls |-> 0]

-----------------------------------------------------------------------------
(* Connections *)

MuFree == dialing = NoHost /\ closing = {}

Connect(h) ==
  /\ MuFree /\ clients[h] = NoConn
  /\ dialing' = h
  /\ UNCHANGED <<clients, closing, half, loopVars, open, closes, callVars>>

DialFails ==
  /\ dialing # NoHost
  /\ dialing' = NoHost
  /\ UNCHANGED <<clients, closing, half, loopVars, open, closes, callVars>>

\* A new client is put in the map and its goroutine started.
Dialed(c) ==
  /\ dialing # NoHost /\ loop[c] = "none"
  /\ open' = open \cup {c}
  /\ loop' = [loop EXCEPT ![c] = "select"]
  /\ clients' = [clients EXCEPT ![dialing] = c]
  /\ dialing' = NoHost
  /\ UNCHANGED <<closing, half, serving, closes, callVars>>

Disconnect(h) ==
  /\ MuFree /\ clients[h] # NoConn
  /\ closing' = {h}
  /\ UNCHANGED <<clients, dialing, half, loopVars, open, closes, callVars>>

CloseAllConnections ==
  /\ MuFree
  /\ closing' = {h \in Hosts : clients[h] # NoConn}
  /\ UNCHANGED <<clients, dialing, half, loopVars, open, closes, callVars>>

CloseDone(h) ==
  /\ h \in closing /\ half = NoConn
  /\ closes' = [closes EXCEPT ![clients[h]] = @ + 1]
  /\ half' = clients[h]
  /\ UNCHANGED <<clients, dialing, closing, loopVars, open, callVars>>

\* Mutant of CloseClient: the connection is left to the goroutine to close.
CloseClientOpen(h) ==
  /\ h \in closing /\ half # NoConn /\ clients[h] = half
  /\ clients' = [clients EXCEPT ![h] = NoConn]
  /\ closing' = closing \ {h}
  /\ half' = NoConn
  /\ UNCHANGED <<dialing, loopVars, open, closes, callVars>>

CloseClient(h) ==
  /\ h \in closing /\ half # NoConn /\ clients[h] = half
  /\ open' = open \ {half}
  /\ clients' = [clients EXCEPT ![h] = NoConn]
  /\ closing' = closing \ {h}
  /\ half' = NoConn
  /\ UNCHANGED <<dialing, loopVars, closes, callVars>>

\* The network or the host ends a connection; the manager does not notice.
Break(c) ==
  /\ c \in open
  /\ open' = open \ {c}
  /\ UNCHANGED <<muVars, loopVars, closes, callVars>>

-----------------------------------------------------------------------------
(* ExecuteCommandWithTimeout *)

Goto(x, from, to) == pc[x] = from /\ pc' = [pc EXCEPT ![x] = to]

Call(x) ==
  /\ Goto(x, "idle", "lookup")
  /\ UNCHANGED <<muVars, loopVars, open, closes, held, result, runs>>

LookUp(x) ==
  LET c == clients[Target[x]]
  IN  /\ MuFree
      /\ \/ c = NoConn /\ Goto(x, "lookup", "unknown")
         \/ c # NoConn /\ Goto(x, "lookup", "send")
      /\ held' = [held EXCEPT ![x] = c]
      /\ UNCHANGED <<muVars, loopVars, open, closes, result, runs>>

\* Sender and receiver meet: the channel holds nothing.
Send(x) ==
  /\ Goto(x, "send", "wait")
  /\ loop[held[x]] = "select"
  /\ loop' = [loop EXCEPT ![held[x]] = "taken"]
  /\ serving' = [serving EXCEPT ![held[x]] = x]
  /\ held' = [held EXCEPT ![x] = NoConn]
  /\ UNCHANGED <<muVars, open, closes, result, runs>>

\* Mutant of GiveUpSending: one timer for both selects.
GiveUpSendingSent(x) ==
  /\ Goto(x, "send", "unsent") \/ Goto(x, "wait", "unsent")
  /\ held' = [held EXCEPT ![x] = NoConn]
  /\ UNCHANGED <<muVars, loopVars, open, closes, result, runs>>

GiveUpSending(x) ==
  /\ Goto(x, "send", "unsent")
  /\ held' = [held EXCEPT ![x] = NoConn]
  /\ UNCHANGED <<muVars, loopVars, open, closes, result, runs>>

Receive(x) ==
  /\ result[x] # "none"
  /\ Goto(x, "wait", result[x])
  /\ result' = [result EXCEPT ![x] = "none"]
  /\ UNCHANGED <<muVars, loopVars, open, closes, held, runs>>

\* The command goes on.
GiveUpWaiting(x) ==
  /\ Goto(x, "wait", "late")
  /\ result' = [result EXCEPT ![x] = "none"]
  /\ UNCHANGED <<muVars, loopVars, open, closes, held, runs>>

-----------------------------------------------------------------------------
(* run and executeCommand, of one client *)

Session(c) ==
  /\ loop[c] = "taken" /\ c \in open
  /\ loop' = [loop EXCEPT ![c] = "session"]
  /\ runs' = [runs EXCEPT ![serving[c]] = @ + 1]
  /\ UNCHANGED <<muVars, serving, open, closes, pc, held, result>>

\* Puts the result of its command in the channel, which has room for it whether
\* or not anybody will read it, and waits for another command.
Answer(c, value) ==
  /\ result' = [result EXCEPT ![serving[c]] =
                  IF pc[serving[c]] = "wait" THEN value ELSE @]
  /\ loop' = [loop EXCEPT ![c] = "select"]
  /\ serving' = [serving EXCEPT ![c] = NoCall]
  /\ UNCHANGED <<muVars, open, closes, pc, held, runs>>

SessionFails(c) == loop[c] = "taken" /\ Answer(c, "error")

\* Mutant of CommandEnds: a result channel without room, so that somebody has to
\* wait for the result.
CommandEndsMet(c) ==
  /\ loop[c] = "session"
  /\ pc[serving[c]] = "wait"
  /\ Answer(c, "error") \/ (c \in open /\ Answer(c, "ok"))

\* The output is complete only if the connection is up until then.
CommandEnds(c) ==
  /\ loop[c] = "session"
  /\ Answer(c, "error") \/ (c \in open /\ Answer(c, "ok"))

\* run returns, which closes the connection too.
Exit(c) ==
  /\ loop[c] = "select" /\ closes[c] > 0
  /\ loop' = [loop EXCEPT ![c] = "exited"]
  /\ open' = open \ {c}
  /\ UNCHANGED <<muVars, serving, closes, callVars>>

-----------------------------------------------------------------------------

CallStep(x) ==
  LookUp(x) \/ Send(x) \/ GiveUpSending(x) \/ Receive(x) \/ GiveUpWaiting(x)

LoopStep(c) == Session(c) \/ SessionFails(c) \/ CommandEnds(c) \/ Exit(c)

Holder ==
  \/ DialFails \/ \E c \in Conns : Dialed(c)
  \/ \E h \in Hosts : CloseDone(h) \/ CloseClient(h)

\* Everything but the start of calls, which is its users' affair.
ManagerStep ==
  \/ \E x \in Calls : CallStep(x)
  \/ \E c \in Conns : LoopStep(c) \/ Break(c)
  \/ Holder
  \/ \E h \in Hosts : Connect(h) \/ Disconnect(h)
  \/ CloseAllConnections

Next == ManagerStep \/ \E x \in Calls : Call(x)

Spec == Init /\ [][Next]_sshVars

\* Timers end every wait of a call.  A command may run for ever, unless its
\* connection is down.  Of a dial nothing is assumed: the time limit given to
\* ssh.Dial is one for the TCP connection, not for the handshake.
\* A reader of scm.mu gets it before the next writer.
ManagerFairness ==
  /\ \A x \in Calls : SF_sshVars(LookUp(x)) /\ WF_sshVars(CallStep(x))
  /\ \A c \in Conns : /\ WF_sshVars(Session(c) \/ SessionFails(c) \/ Exit(c))
                      /\ WF_sshVars(c \notin open /\ CommandEnds(c))
  /\ WF_sshVars(\E h \in Hosts : CloseDone(h) \/ CloseClient(h))

FairSpec == Spec /\ ManagerFairness

-----------------------------------------------------------------------------
(* Properties *)

\* No done channel is closed twice, which would end the program.
ClosedOnce == \A c \in Conns : closes[c] <= 1

\* Every open connection is in the map, where CloseAllConnections finds it.
NoLeakedConnection == \A c \in open : \E h \in Hosts : clients[h] = c

\* A call that says it succeeded ran its command once; one that did not send it
\* never ran it and never will; no command runs twice.
RunsAsReported ==
  \A x \in Calls :
    /\ runs[x] <= 1
    /\ pc[x] = "ok" => runs[x] = 1
    /\ pc[x] \in {"idle", "lookup", "send", "unknown", "unsent"} => runs[x] = 0

\* A client that was disconnected ends its goroutine, although it may be in the
\* middle of a command nobody waits for any more.
GoroutinesEnd ==
  \A c \in Conns : closes[c] > 0 ~> loop[c] = "exited"

=============================================================================
