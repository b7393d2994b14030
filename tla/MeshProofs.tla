----------------------------- MODULE MeshProofs -----------------------------
(***************************************************************************)
(* Theorems about Mesh, for any number of nodes, clients and exchanges: the *)
(* hop counter that handlers and processors of different nodes pass on     *)
(* bounds the way of a request, and a request that no node gave up on runs *)
(* on one backend, once.  And about PeerHealth, the view of its peers that *)
(* each of these nodes keeps.                                              *)
(***************************************************************************)
EXTENDS Mesh, PeerHealth, TLAPS

\* The types the argument uses.
HopTypes ==
  /\ state \in [Visits -> States]
  /\ hop \in [Visits -> Nat]
  /\ caller \in [Visits -> Visits \cup Clients \cup {Nobody}]
  /\ queue \in [Nodes -> Seq(Visits)]
  /\ proc \in [Nodes -> Visits \cup {Nobody}]

\* A visit a node holds, and one that has caused another, has begun: no hop
\* counter changes once somebody depends on it.
HeldHaveBegun ==
  /\ \A n \in Nodes : \A i \in 1 .. Len(queue[n]) : state[queue[n][i]] # "free"
  /\ \A n \in Nodes : proc[n] \in Visits => state[proc[n]] # "free"
  /\ \A v \in Visits :
       state[v] # "free" /\ caller[v] \in Visits => state[caller[v]] # "free"

HopInv == HopTypes /\ HeldHaveBegun /\ HopsBounded

LEMMA HopInvInit == Init => HopInv
  <1> SUFFICES ASSUME Init PROVE HopInv
    OBVIOUS
  <1>1. HopTypes
    BY DEF Init, HopTypes, States
  <1>2. HeldHaveBegun
    BY MeshAssumption DEF Init, HeldHaveBegun, MeshAssumption
  <1>3. HopsBounded
    BY DEF Init, HopsBounded
  <1> QED
    BY <1>1, <1>2, <1>3 DEF HopInv

\* A visit that only changes from one begun state to another disturbs nothing.
LEMMA Moves ==
  ASSUME HopInv, NEW v \in Visits, NEW from \in States \ {"free"},
         NEW to \in States \ {"free"}, Goto(v, from, to),
         UNCHANGED <<hop, caller, proc>>
  PROVE  /\ HopsBounded'
         /\ queue' = queue => HopInv'
         /\ state' \in [Visits -> States]
         /\ \A x \in Visits : state[x] # "free" <=> state'[x] # "free"
  <1>1. state' \in [Visits -> States]
    BY DEF HopInv, HopTypes, Goto
  <1>2. \A x \in Visits : state[x] # "free" <=> state'[x] # "free"
    BY DEF HopInv, HopTypes, Goto
  <1>3. HopsBounded'
    BY <1>2 DEF HopInv, HopTypes, HopsBounded
  <1>4. ASSUME queue' = queue PROVE HopInv'
    <2>1. HopTypes'
      BY <1>1, <1>4 DEF HopInv, HopTypes
    <2>2. \A n \in Nodes : \A i \in 1 .. Len(queue[n]) : queue[n][i] \in Visits
      BY DEF HopInv, HopTypes
    <2>3. HeldHaveBegun'
      BY <1>2, <1>4, <2>2 DEF HopInv, HopTypes, HeldHaveBegun
    <2> QED
      BY <1>3, <2>1, <2>3 DEF HopInv
  <1> QED
    BY <1>1, <1>2, <1>3, <1>4

\* A visit that begins, with nobody depending on it, one hop behind a visit
\* that has begun, or with a client.
LEMMA Opens ==
  ASSUME HopInv, NEW c \in Visits, NEW n, NEW h \in 0 .. MaxHops,
         NEW from \in Visits \cup Clients, NEW r, Open(c, n, h, from, r),
         from \in Clients => h = 0,
         from \in Visits => state[from] # "free" /\ h = hop[from] + 1,
         state' \in [Visits -> States], state'[c] = "arrived",
         \A x \in Visits \ {c} : state[x] # "free" <=> state'[x] # "free"
  PROVE  /\ HopsBounded'
         /\ hop' \in [Visits -> Nat]
         /\ caller' \in [Visits -> Visits \cup Clients \cup {Nobody}]
         /\ \A v \in Visits : state'[v] # "free" /\ caller'[v] \in Visits
              => state'[caller'[v]] # "free"
         /\ \A x \in Visits : state[x] # "free" => state'[x] # "free"
  <1> USE MeshAssumption DEF MeshAssumption
  <1>1. state[c] = "free"
    BY DEF Open
  <1>2. /\ hop' = [hop EXCEPT ![c] = h] /\ caller' = [caller EXCEPT ![c] = from]
        /\ hop \in [Visits -> Nat] /\ h \in Nat
        /\ caller \in [Visits -> Visits \cup Clients \cup {Nobody}]
    BY DEF Open, HopInv, HopTypes
  <1>3. /\ hop' \in [Visits -> Nat]
        /\ caller' \in [Visits -> Visits \cup Clients \cup {Nobody}]
    BY <1>2
  <1>4. \A x \in Visits : state[x] # "free" => state'[x] # "free" /\ x # c
    BY <1>1
  <1>5. \A v \in Visits \ {c} : hop'[v] = hop[v] /\ caller'[v] = caller[v]
    BY <1>2
  <1>6. hop'[c] = h /\ caller'[c] = from
    BY <1>2
  <1>7. ASSUME NEW v \in Visits, state'[v] # "free"
        PROVE  /\ hop'[v] <= MaxHops
               /\ hop'[v] = 0 <=> caller'[v] \in Clients
               /\ caller'[v] \in Visits =>
                    hop'[v] = hop'[caller'[v]] + 1 /\ state'[caller'[v]] # "free"
    <2>1. CASE v = c
      <3>1. from \in Visits => hop'[from] = hop[from] /\ state'[from] # "free"
        BY <1>4, <1>5
      <3>2. from \in Visits => hop[from] \in Nat
        BY <1>2
      <3> QED
        BY <1>6, <2>1, <3>1, <3>2
    <2>2. CASE v # c
      <3>1. state[v] # "free"
        BY <1>7, <2>2
      <3>2. /\ hop[v] <= MaxHops
            /\ hop[v] = 0 <=> caller[v] \in Clients
            /\ caller[v] \in Visits =>
                 hop[v] = hop[caller[v]] + 1 /\ state[caller[v]] # "free"
        BY <3>1 DEF HopInv, HopsBounded, HeldHaveBegun
      <3> QED
        BY <1>4, <1>5, <2>2, <3>2
    <2> QED
      BY <2>1, <2>2
  <1> QED
    BY <1>3, <1>4, <1>7 DEF HopsBounded

\* The handlers of the visits.
LEMMA HandlerStep ==
  ASSUME HopInv, NEW v \in Visits, Handler(v)
  PROVE  HopInv'
  <1>1. CASE \/ RunLocally(v) \/ RunEnds(v) \/ KeepHere(v) \/ ForwardAnswered(v)
             \/ ForwardGivenUp(v) \/ Reject(v) \/ Served(v) \/ GiveUpWaiting(v)
    <2>1. PICK from \in States \ {"free"}, to \in States \ {"free"} :
            Goto(v, from, to)
      BY <1>1 DEF RunLocally, RunEnds, KeepHere, ForwardAnswered, ForwardGivenUp,
                  Reject, Served, GiveUpWaiting, States
    <2>2. UNCHANGED <<hop, caller, proc, queue>>
      BY <1>1 DEF RunLocally, RunEnds, KeepHere, ForwardAnswered, ForwardGivenUp,
                  Reject, Served, GiveUpWaiting, origin
    <2> QED
      BY <2>1, <2>2, Moves
  <1>2. CASE Enqueue(v)
    <2>1. /\ Goto(v, "enqueue", "wait") /\ state[v] # "free"
          /\ UNCHANGED <<hop, caller, proc>>
          /\ queue' = [queue EXCEPT ![node[v]] = Append(@, v)]
      BY <1>2 DEF Enqueue, Goto, origin
    <2>2. /\ HopsBounded' /\ state' \in [Visits -> States]
          /\ \A x \in Visits : state[x] # "free" <=> state'[x] # "free"
      BY <2>1, Moves DEF States
    <2>3. queue' \in [Nodes -> Seq(Visits)]
      <3>1. queue \in [Nodes -> Seq(Visits)]
        BY DEF HopInv, HopTypes
      <3>2. \A q \in Seq(Visits) : Append(q, v) \in Seq(Visits)
        OBVIOUS
      <3>3. \A n \in Nodes : queue'[n] \in {queue[n], Append(queue[n], v)}
        BY <2>1, <3>1
      <3>4. queue' = [n \in Nodes |-> queue'[n]]
        BY <2>1, <3>1
      <3> QED
        BY <3>1, <3>2, <3>3, <3>4
    <2>4. ASSUME NEW n \in Nodes, NEW i \in 1 .. Len(queue'[n])
          PROVE  state'[queue'[n][i]] # "free"
      <3>1. queue[n] \in Seq(Visits)
        BY DEF HopInv, HopTypes
      <3>2. queue'[n] \in {queue[n], Append(queue[n], v)}
        BY <2>1 DEF HopInv, HopTypes
      <3>3. queue'[n][i] = v \/ (i \in 1 .. Len(queue[n]) /\ queue'[n][i] = queue[n][i])
        BY <3>1, <3>2
      <3>4. queue'[n][i] \in Visits /\ state[queue'[n][i]] # "free"
        BY <2>1, <3>1, <3>3 DEF HopInv, HeldHaveBegun
      <3> QED
        BY <2>2, <3>4
    <2>5. HopTypes'
      BY <2>1, <2>2, <2>3 DEF HopInv, HopTypes
    <2>6. HeldHaveBegun'
      BY <2>1, <2>2, <2>4 DEF HopInv, HopTypes, HeldHaveBegun
    <2> QED
      BY <2>2, <2>5, <2>6 DEF HopInv
  <1>3. ASSUME NEW c \in Visits, NEW n \in Nodes, Forward(v, c, n) PROVE HopInv'
    <2>1. /\ state[v] = "arrived" /\ state[c] = "free"
          /\ Open(c, n, hop[v] + 1, v, client[v]) /\ UNCHANGED <<queue, proc>>
          /\ hop[v] + 1 \in 0 .. MaxHops
      BY <1>3, MeshAssumption DEF MeshAssumption, Forward, Open, HopInv, HopTypes
    <2>2. /\ state' \in [Visits -> States] /\ state'[c] = "arrived"
          /\ \A x \in Visits \ {c} : state[x] # "free" <=> state'[x] # "free"
      BY <1>3, <2>1 DEF Forward, HopInv, HopTypes, States
    <2>3. v \notin Clients
      BY MeshAssumption DEF MeshAssumption
    <2>4. /\ HopsBounded' /\ hop' \in [Visits -> Nat]
          /\ caller' \in [Visits -> Visits \cup Clients \cup {Nobody}]
          /\ \A x \in Visits : state'[x] # "free" /\ caller'[x] \in Visits
               => state'[caller'[x]] # "free"
          /\ \A x \in Visits : state[x] # "free" => state'[x] # "free"
      BY <2>1, <2>2, <2>3, Opens
    <2>5. HopTypes'
      BY <2>1, <2>2, <2>4 DEF HopInv, HopTypes
    <2>6. \A m \in Nodes : \A i \in 1 .. Len(queue[m]) : queue[m][i] \in Visits
      BY DEF HopInv, HopTypes
    <2>7. HeldHaveBegun'
      BY <2>1, <2>4, <2>6 DEF HopInv, HeldHaveBegun
    <2> QED
      BY <2>4, <2>5, <2>7 DEF HopInv
  <1> QED
    BY <1>1, <1>2, <1>3 DEF Handler

LEMMA SendStep ==
  ASSUME HopInv, NEW v \in Visits, NEW r \in Clients, Send(v, r)
  PROVE  HopInv'
  <1>1. Open(v, Home[r], 0, r, r) /\ UNCHANGED <<queue, proc>> /\ r \notin Visits
    BY MeshAssumption DEF MeshAssumption, Send
  <1>2. /\ state' \in [Visits -> States] /\ state'[v] = "arrived"
        /\ \A x \in Visits \ {v} : state[x] # "free" <=> state'[x] # "free"
    BY DEF Send, HopInv, HopTypes, States
  <1>3. 0 \in 0 .. MaxHops
    BY MeshAssumption DEF MeshAssumption
  <1>4. /\ HopsBounded' /\ hop' \in [Visits -> Nat]
        /\ caller' \in [Visits -> Visits \cup Clients \cup {Nobody}]
        /\ \A x \in Visits : state'[x] # "free" /\ caller'[x] \in Visits
             => state'[caller'[x]] # "free"
        /\ \A x \in Visits : state[x] # "free" => state'[x] # "free"
    BY <1>1, <1>2, <1>3, Opens
  <1>5. HopTypes'
    BY <1>1, <1>2, <1>4 DEF HopInv, HopTypes
  <1>6. \A m \in Nodes : \A i \in 1 .. Len(queue[m]) : queue[m][i] \in Visits
    BY DEF HopInv, HopTypes
  <1>7. HeldHaveBegun'
    BY <1>1, <1>4, <1>6 DEF HopInv, HeldHaveBegun
  <1> QED
    BY <1>4, <1>5, <1>7 DEF HopInv

\* The processors: what they take from the head, and what they put back.
LEMMA ProcessorStep ==
  ASSUME HopInv, NEW n \in Nodes, Processor(n)
  PROVE  HopInv'
  <1> DEFINE v == Head(queue[n])
  <1>1. queue[n] \in Seq(Visits) /\ proc[n] \in Visits \cup {Nobody}
    BY DEF HopInv, HopTypes
  <1>2. \A m \in Nodes : \A i \in 1 .. Len(queue[m]) :
          queue[m][i] \in Visits /\ state[queue[m][i]] # "free"
    BY DEF HopInv, HopTypes, HeldHaveBegun
  <1>3. ASSUME queue[n] # <<>>
        PROVE  /\ v \in Visits /\ state[v] # "free"
               /\ Tail(queue[n]) \in Seq(Visits)
               /\ \A i \in 1 .. Len(Tail(queue[n])) :
                    /\ i + 1 \in 1 .. Len(queue[n])
                    /\ Tail(queue[n])[i] = queue[n][i + 1]
    BY <1>1, <1>2, <1>3
  <1>4. ASSUME UNCHANGED <<state, hop, caller>>, HopTypes',
               \A i \in 1 .. Len(queue'[n]) : state[queue'[n][i]] # "free",
               \A m \in Nodes \ {n} : queue'[m] = queue[m],
               \A m \in Nodes : proc'[m] \in Visits => state[proc'[m]] # "free"
        PROVE  HopInv'
    <2>1. HopsBounded'
      BY <1>4 DEF HopInv, HopsBounded
    <2>2. HeldHaveBegun'
      BY <1>2, <1>4 DEF HopInv, HeldHaveBegun
    <2> QED
      BY <1>4, <2>1, <2>2 DEF HopInv
  <1>5. CASE ProcServe(n)
    <2>1. /\ queue[n] # <<>> /\ UNCHANGED <<state, hop, caller>>
          /\ proc' = [proc EXCEPT ![n] = v]
          /\ queue' = [queue EXCEPT ![n] = Tail(@)]
      BY <1>5 DEF ProcServe, origin
    <2>2. HopTypes'
      BY <1>3, <2>1 DEF HopInv, HopTypes
    <2>3. \A m \in Nodes : proc'[m] \in Visits => state[proc'[m]] # "free"
      BY <1>3, <2>1 DEF HopInv, HopTypes, HeldHaveBegun
    <2>4. queue'[n] = Tail(queue[n]) /\ \A m \in Nodes \ {n} : queue'[m] = queue[m]
      BY <2>1 DEF HopInv, HopTypes
    <2> QED
      BY <1>2, <1>3, <1>4, <2>1, <2>2, <2>3, <2>4
  <1>6. CASE ProcFinish(n)
    <2>1. /\ UNCHANGED <<state, hop, caller, queue>>
          /\ proc' = [proc EXCEPT ![n] = Nobody]
      BY <1>6 DEF ProcFinish, origin
    <2>2. HopTypes'
      BY <2>1 DEF HopInv, HopTypes
    <2>3. \A m \in Nodes : proc'[m] \in Visits => state[proc'[m]] # "free"
      BY <2>1, MeshAssumption DEF MeshAssumption, HopInv, HopTypes, HeldHaveBegun
    <2> QED
      BY <1>2, <1>4, <2>1, <2>2, <2>3
  <1>7. CASE ProcBounce(n)
    <2>1. /\ queue[n] # <<>> /\ UNCHANGED <<state, hop, caller, proc>>
          /\ queue' = [queue EXCEPT ![n] = Append(Tail(@), Head(@))]
      BY <1>7 DEF ProcBounce, origin
    <2>2. /\ queue'[n] = Append(Tail(queue[n]), v)
          /\ \A m \in Nodes \ {n} : queue'[m] = queue[m]
      BY <2>1 DEF HopInv, HopTypes
    <2>3. HopTypes'
      BY <1>3, <2>1 DEF HopInv, HopTypes
    <2>4. \A i \in 1 .. Len(queue'[n]) : state[queue'[n][i]] # "free"
      BY <1>2, <1>3, <2>1, <2>2
    <2>5. \A m \in Nodes : proc'[m] \in Visits => state[proc'[m]] # "free"
      BY <2>1 DEF HopInv, HeldHaveBegun
    <2> QED
      BY <1>4, <2>1, <2>2, <2>3, <2>4, <2>5
  <1>8. CASE ProcRequeue(n)
    <2>1. /\ proc[n] \in Visits /\ UNCHANGED <<state, hop, caller>>
          /\ queue' = [queue EXCEPT ![n] = Append(@, proc[n])]
          /\ proc' = [proc EXCEPT ![n] = Nobody]
      BY <1>1, <1>8 DEF ProcRequeue, origin
    <2>2. /\ queue'[n] = Append(queue[n], proc[n])
          /\ \A m \in Nodes \ {n} : queue'[m] = queue[m]
      BY <2>1 DEF HopInv, HopTypes
    <2>3. HopTypes'
      BY <1>1, <2>1 DEF HopInv, HopTypes
    <2>4. state[proc[n]] # "free"
      BY <2>1 DEF HopInv, HeldHaveBegun
    <2>5. \A i \in 1 .. Len(queue'[n]) : state[queue'[n][i]] # "free"
      BY <1>1, <1>2, <2>1, <2>2, <2>4
    <2>6. \A m \in Nodes : proc'[m] \in Visits => state[proc'[m]] # "free"
      BY <2>1, MeshAssumption DEF MeshAssumption, HopInv, HopTypes, HeldHaveBegun
    <2> QED
      BY <1>4, <2>1, <2>2, <2>3, <2>5, <2>6
  <1>9. ASSUME NEW c \in Visits, NEW m \in Nodes, ProcForward(n, c, m)
        PROVE  HopInv'
    <2>1. /\ queue[n] # <<>> /\ hop[v] < MaxHops
          /\ Open(c, m, hop[v] + 1, v, client[v])
          /\ state' = [state EXCEPT ![c] = "arrived"]
          /\ proc' = [proc EXCEPT ![n] = v]
          /\ queue' = [queue EXCEPT ![n] = Tail(@)]
      BY <1>9 DEF ProcForward
    <2>2. v \in Visits /\ state[v] # "free" /\ v \notin Clients
      BY <1>3, <2>1, MeshAssumption DEF MeshAssumption
    <2>3. hop[v] + 1 \in 0 .. MaxHops
      <3>1. \A x \in Visits : hop[x] < MaxHops => hop[x] + 1 \in 0 .. MaxHops
        BY MeshAssumption DEF MeshAssumption, HopInv, HopTypes
      <3> QED
        BY <2>1, <2>2, <3>1
    <2>4. /\ state' \in [Visits -> States] /\ state'[c] = "arrived"
          /\ \A x \in Visits \ {c} : state[x] # "free" <=> state'[x] # "free"
      BY <2>1 DEF HopInv, HopTypes, States
    <2>5. /\ HopsBounded' /\ hop' \in [Visits -> Nat]
          /\ caller' \in [Visits -> Visits \cup Clients \cup {Nobody}]
          /\ \A x \in Visits : state'[x] # "free" /\ caller'[x] \in Visits
               => state'[caller'[x]] # "free"
          /\ \A x \in Visits : state[x] # "free" => state'[x] # "free"
      BY <2>1, <2>2, <2>3, <2>4, Opens
    <2>6. HopTypes'
      BY <1>3, <2>1, <2>2, <2>4, <2>5 DEF HopInv, HopTypes
    <2>7. queue'[n] = Tail(queue[n]) /\ \A k \in Nodes \ {n} : queue'[k] = queue[k]
      BY <2>1 DEF HopInv, HopTypes
    <2>8. \A k \in Nodes : \A i \in 1 .. Len(queue'[k]) : state'[queue'[k][i]] # "free"
      BY <1>2, <1>3, <2>1, <2>5, <2>7
    <2>9. \A k \in Nodes : proc'[k] \in Visits => state'[proc'[k]] # "free"
      BY <2>1, <2>2, <2>5 DEF HopInv, HopTypes, HeldHaveBegun
    <2> QED
      BY <2>5, <2>6, <2>8, <2>9 DEF HopInv, HeldHaveBegun
  <1> QED
    BY <1>5, <1>6, <1>7, <1>8, <1>9 DEF Processor

\* No request makes more than MaxHops hops, whoever forwards it and however
\* often it is queued again on the way: X-LB-Hop ends every circle of nodes.
THEOREM WayIsBounded == Spec => []HopsBounded
  <1>1. Init => HopInv
    BY HopInvInit
  <1>2. HopInv /\ [Next]_vars => HopInv'
    <2> SUFFICES ASSUME HopInv, [Next]_vars PROVE HopInv'
      OBVIOUS
    <2>1. CASE UNCHANGED vars
      BY <2>1 DEF vars, origin, HopInv, HopTypes, HeldHaveBegun, HopsBounded
    <2> QED
      BY <2>1, HandlerStep, SendStep, ProcessorStep DEF Next
  <1>3. HopInv => HopsBounded
    BY DEF HopInv
  <1> QED
    BY <1>1, <1>2, <1>3, PTL DEF Spec

-----------------------------------------------------------------------------
(* A request has one bearer at a time *)

Elems(q) == {q[i] : i \in 1 .. Len(q)}

InQueue(n) == Elems(queue[n])

NoRepeat(q) == \A i, j \in 1 .. Len(q) : q[i] = q[j] => i = j

\* Who has handed a visit over to the node it is queued at, and waits or has
\* given up; the processor has what it took off its own queue.
Parked(v, n) == node[v] = n /\ state[v] \in {"wait", "ended"}

Custody ==
  /\ \A v \in Visits : state[v] # "free" => node[v] \in Nodes
  /\ \A n \in Nodes : NoRepeat(queue[n])
  /\ \A n \in Nodes : \A v \in InQueue(n) : Parked(v, n)
  /\ \A n \in Nodes : proc[n] \in Visits =>
       Parked(proc[n], n) /\ proc[n] \notin InQueue(n)

\* A visit that has begun carries the request of a client that has sent it.
Carries ==
  /\ \A v \in Visits : state[v] = "free" => caller[v] = Nobody
  /\ \A v \in Visits : state[v] # "free" =>
       client[v] \in Clients /\ \E x \in Visits : caller[x] = client[v]
  /\ \A r \in Clients : runs[r] > 0 => \E x \in Visits : caller[x] = r

\* The request of v may still be brought to a backend from here.
Pending(v) ==
  \/ state[v] \in {"arrived", "enqueue"}
  \/ \E n \in Nodes : v \in InQueue(n)

Bearers(r) == {v \in Visits : Pending(v) /\ client[v] = r}

\* A request no exchange of which was given up has run once and is nowhere
\* pending, or has not run and is pending in one place at most.
OneBearer ==
  \A r \in Clients \ retried :
    /\ runs[r] <= 1
    /\ \A u, v \in Bearers(r) : runs[r] = 0 /\ u = v

RunInv == TypeOK /\ Custody /\ Carries /\ OneBearer

LEMMA AppendElems ==
  ASSUME NEW q \in Seq(Visits), NEW v \in Visits
  PROVE  /\ Append(q, v) \in Seq(Visits)
         /\ Elems(Append(q, v)) = Elems(q) \cup {v}
         /\ NoRepeat(q) /\ v \notin Elems(q) => NoRepeat(Append(q, v))
  <1>1. /\ Len(Append(q, v)) = Len(q) + 1 /\ Append(q, v)[Len(q) + 1] = v
        /\ \A i \in 1 .. Len(q) : Append(q, v)[i] = q[i]
        /\ Len(q) \in Nat
    OBVIOUS
  <1>2. \A i \in 1 .. Len(q) + 1 : i \in 1 .. Len(q) \/ i = Len(q) + 1
    BY <1>1
  <1>3. 1 .. Len(q) \subseteq 1 .. Len(q) + 1 /\ Len(q) + 1 \in 1 .. Len(q) + 1
    BY <1>1
  <1>4. Elems(Append(q, v)) = Elems(q) \cup {v}
    BY <1>1, <1>2, <1>3 DEF Elems
  <1>5. NoRepeat(q) /\ v \notin Elems(q) => NoRepeat(Append(q, v))
    BY <1>1, <1>2 DEF NoRepeat, Elems
  <1> QED
    BY <1>4, <1>5

LEMMA TailElems ==
  ASSUME NEW q \in Seq(Visits), q # <<>>
  PROVE  /\ Head(q) \in Visits /\ Tail(q) \in Seq(Visits)
         /\ Elems(q) = Elems(Tail(q)) \cup {Head(q)}
         /\ NoRepeat(q) => NoRepeat(Tail(q)) /\ Head(q) \notin Elems(Tail(q))
  <1>1. /\ Len(q) \in Nat \ {0} /\ Len(Tail(q)) = Len(q) - 1 /\ Head(q) = q[1]
        /\ \A i \in 1 .. Len(Tail(q)) : Tail(q)[i] = q[i + 1]
        /\ Head(q) \in Visits /\ Tail(q) \in Seq(Visits)
    OBVIOUS
  <1>2. \A i \in 1 .. Len(q) : i = 1 \/ i - 1 \in 1 .. Len(Tail(q))
    BY <1>1
  <1>3. \A i \in 1 .. Len(Tail(q)) : i + 1 \in 1 .. Len(q) /\ i + 1 # 1
    BY <1>1
  <1>4. Elems(q) = Elems(Tail(q)) \cup {Head(q)}
    <2>1. \A i \in 1 .. Len(q) : q[i] \in Elems(Tail(q)) \cup {Head(q)}
      <3> SUFFICES ASSUME NEW i \in 1 .. Len(q), i # 1
                   PROVE  q[i] \in Elems(Tail(q))
        BY <1>1
      <3>1. i - 1 \in 1 .. Len(Tail(q)) /\ Tail(q)[i - 1] = q[i]
        BY <1>1, <1>2
      <3> QED
        BY <3>1 DEF Elems
    <2>2. \A x \in Elems(Tail(q)) \cup {Head(q)} : x \in Elems(q)
      BY <1>1, <1>3 DEF Elems
    <2> QED
      BY <2>1, <2>2 DEF Elems
  <1>5. NoRepeat(q) => NoRepeat(Tail(q)) /\ Head(q) \notin Elems(Tail(q))
    BY <1>1, <1>3 DEF NoRepeat, Elems
  <1> QED
    BY <1>1, <1>4, <1>5

\* A pending request that is dropped, or of which a node gives up an exchange,
\* gives the others no new bearer.
LEMMA Fewer ==
  ASSUME OneBearer, runs' = runs, retried \subseteq retried',
         \A r \in Clients \ retried' : Bearers(r)' \subseteq Bearers(r)
  PROVE  OneBearer'
  BY DEF OneBearer

\* The bearer passes the request on to c.
LEMMA PassedOn ==
  ASSUME OneBearer, UNCHANGED <<runs, retried>>,
         NEW v \in Visits, NEW c \in Visits, Pending(v),
         \A r \in Clients : Bearers(r)' \subseteq
           (Bearers(r) \ {v}) \cup (IF client[v] = r THEN {c} ELSE {})
  PROVE  OneBearer'
  <1> SUFFICES ASSUME NEW r \in Clients \ retried,
                      NEW u \in Bearers(r)', NEW w \in Bearers(r)'
               PROVE  runs[r] = 0 /\ u = w
    BY DEF OneBearer
  <1>1. CASE client[v] = r
    <2>1. v \in Bearers(r) /\ \A x \in Bearers(r) : x = v /\ runs[r] = 0
      BY <1>1 DEF Bearers, OneBearer
    <2> QED
      BY <1>1, <2>1
  <1>2. CASE client[v] # r
    BY <1>2 DEF OneBearer
  <1> QED
    BY <1>1, <1>2

\* The bearer is executed, and nobody bears the request any more.
LEMMA Executed ==
  ASSUME TypeOK, OneBearer, retried' = retried, NEW v \in Visits,
         Pending(v), client[v] \in Clients, Execute(v),
         \A r \in Clients : Bearers(r)' \subseteq Bearers(r) \ {v}
  PROVE  OneBearer' /\ runs' \in [Clients -> 0 .. MaxRuns]
  <1>1. /\ runs \in [Clients -> 0 .. MaxRuns] /\ MaxRuns \in Nat \ {0}
    BY MeshAssumption DEF MeshAssumption, TypeOK
  <1>2. /\ runs' \in [Clients -> 0 .. MaxRuns]
        /\ \A r \in Clients \ {client[v]} : runs'[r] = runs[r]
        /\ runs[client[v]] = 0 => runs'[client[v]] = 1
    <2>1. \A k \in 0 .. MaxRuns :
            (IF k < MaxRuns THEN k + 1 ELSE k) \in 0 .. MaxRuns
      BY <1>1
    <2>2. runs[client[v]] \in 0 .. MaxRuns
      BY <1>1
    <2>3. 0 < MaxRuns
      BY <1>1
    <2> QED
      BY <1>1, <2>1, <2>2, <2>3 DEF Execute
  <1>3. ASSUME NEW r \in Clients \ retried
        PROVE  runs'[r] <= 1 /\ \A u, w \in Bearers(r)' : runs'[r] = 0 /\ u = w
    <2>1. CASE client[v] = r
      <3>1. v \in Bearers(r) /\ \A x \in Bearers(r) : x = v /\ runs[r] = 0
        BY <2>1 DEF Bearers, OneBearer
      <3>2. Bearers(r)' = {} /\ runs'[r] = 1
        BY <1>2, <2>1, <3>1
      <3> QED
        BY <3>2
    <2>2. CASE client[v] # r
      BY <1>2, <2>2 DEF OneBearer
    <2> QED
      BY <2>1, <2>2
  <1> QED
    BY <1>2, <1>3 DEF OneBearer

LEMMA RunInvInit == Init => RunInv
  <1> SUFFICES ASSUME Init PROVE RunInv
    OBVIOUS
  <1> USE MeshAssumption DEF MeshAssumption
  <1>1. TypeOK
    BY DEF Init, TypeOK, States
  <1>2. \A n \in Nodes : queue[n] = <<>> /\ InQueue(n) = {} /\ proc[n] = Nobody
    BY DEF Init, InQueue, Elems
  <1>3. Custody
    BY <1>2 DEF Init, Custody, NoRepeat
  <1>4. Carries
    BY DEF Init, Carries
  <1>5. OneBearer
    BY <1>2 DEF Init, OneBearer, Bearers, Pending
  <1> QED
    BY <1>1, <1>3, <1>4, <1>5 DEF RunInv

\* A handler that moves on by itself: to the queue only if it was about to, or
\* if an exchange of the request was given up.
LEMMA MovesOn ==
  ASSUME RunInv, NEW v \in Visits, NEW from \in States \ {"free"},
         NEW to \in States \ {"free", "arrived"}, Goto(v, from, to),
         from = "wait" => to = "ended",  from # "ended",
         UNCHANGED <<origin, proc, queue>>, retried \subseteq retried',
         to = "enqueue" => from = "arrived" \/ client[v] \in retried'
  PROVE  /\ state' \in [Visits -> States]
         /\ Custody'
         /\ runs' = runs => Carries' /\ OneBearer'
         /\ from = "arrived" /\ to = "local" => 
              /\ Pending(v)
              /\ \A r \in Clients : Bearers(r)' \subseteq Bearers(r) \ {v}
  <1>1. /\ state \in [Visits -> States] /\ state[v] = from
        /\ state' = [state EXCEPT ![v] = to]
    BY DEF RunInv, TypeOK, Goto
  <1>2. /\ state' \in [Visits -> States] /\ state'[v] = to
        /\ \A x \in Visits \ {v} : state'[x] = state[x]
        /\ \A x \in Visits : state'[x] # "free" <=> state[x] # "free"
    BY <1>1
  <1>3. \A x, n : Parked(x, n) /\ x \in Visits => Parked(x, n)'
    BY <1>1, <1>2 DEF Parked, origin
  <1>4. /\ \A n \in Nodes : InQueue(n)' = InQueue(n)
        /\ \A n \in Nodes : InQueue(n) \subseteq Visits
    BY DEF InQueue, Elems, RunInv, TypeOK
  <1>5. Custody'
    BY <1>2, <1>3, <1>4 DEF RunInv, Custody, origin
  <1>6. ASSUME runs' = runs PROVE Carries'
    BY <1>2, <1>6 DEF RunInv, Carries, origin
  <1>7. ASSUME NEW x \in Visits, Pending(x)'
        PROVE  Pending(x) \/ (x = v /\ to = "enqueue" /\ client[v] \in retried')
    BY <1>1, <1>2, <1>4, <1>7 DEF Pending
  <1>8. client' = client
    BY DEF origin
  <1>9. \A r \in Clients \ retried' : Bearers(r)' \subseteq Bearers(r)
    BY <1>7, <1>8 DEF Bearers
  <1>10. ASSUME runs' = runs PROVE OneBearer'
    BY <1>9, <1>10, Fewer DEF RunInv
  <1>11. ASSUME from = "arrived", to = "local"
         PROVE  /\ Pending(v)
                /\ \A r \in Clients : Bearers(r)' \subseteq Bearers(r) \ {v}
    <2>1. \A n \in Nodes : v \notin InQueue(n)
      BY <1>1, <1>11 DEF RunInv, Custody, Parked
    <2>2. ~Pending(v)'
      BY <1>2, <1>4, <1>11, <2>1 DEF Pending
    <2> QED
      BY <1>1, <1>7, <1>8, <1>11, <2>2 DEF Bearers, Pending
  <1> QED
    BY <1>2, <1>5, <1>6, <1>10, <1>11

\* A visit that begins: with its client, or with the request of a visit that
\* has begun.
LEMMA Begins ==
  ASSUME RunInv, NEW c \in Visits, NEW n \in Nodes, NEW h \in Nat,
         NEW from \in Visits \cup Clients, NEW r \in Clients,
         Open(c, n, h, from, r), from = r \/ \E x \in Visits : caller[x] = r,
         runs' = runs,
         state' \in [Visits -> States], state'[c] = "arrived",
         \A x \in Visits \ {c} : state[x] # "free" <=> state'[x] # "free"
  PROVE  /\ node' \in [Visits -> Nodes \cup {Nobody}] /\ hop' \in [Visits -> Nat]
         /\ caller' \in [Visits -> Visits \cup Clients \cup {Nobody}]
         /\ client' \in [Visits -> Clients \cup {Nobody}]
         /\ state[c] = "free" /\ client'[c] = r
         /\ \A x \in Visits \ {c} : node'[x] = node[x] /\ client'[x] = client[x]
         /\ \A x \in Visits : state'[x] # "free" => node'[x] \in Nodes
         /\ Carries'
  <1>1. /\ node' = [node EXCEPT ![c] = n] /\ hop' = [hop EXCEPT ![c] = h]
        /\ caller' = [caller EXCEPT ![c] = from]
        /\ client' = [client EXCEPT ![c] = r]
        /\ state[c] = "free" /\ c \notin Clients
    BY MeshAssumption DEF MeshAssumption, Open
  <1>2. /\ node' \in [Visits -> Nodes \cup {Nobody}] /\ hop' \in [Visits -> Nat]
        /\ caller' \in [Visits -> Visits \cup Clients \cup {Nobody}]
        /\ client' \in [Visits -> Clients \cup {Nobody}]
        /\ node'[c] = n /\ client'[c] = r /\ caller'[c] = from
        /\ \A x \in Visits \ {c} : /\ node'[x] = node[x]
                                    /\ client'[x] = client[x]
                                    /\ caller'[x] = caller[x]
    BY <1>1 DEF RunInv, TypeOK
  <1>3. \A x \in Visits : state'[x] # "free" => node'[x] \in Nodes
    BY <1>2 DEF RunInv, Custody
  <1>4. ASSUME NEW q \in Clients, NEW x \in Visits, caller[x] = q
        PROVE  \E y \in Visits : caller'[y] = q
    <2>1. x # c
      BY <1>1, <1>4, MeshAssumption DEF MeshAssumption, RunInv, Carries
    <2> QED
      BY <1>2, <1>4, <2>1
  <1>5. \E y \in Visits : caller'[y] = r
    BY <1>2, <1>4
  <1>6. \A x \in Visits : state'[x] = "free" => state[x] = "free" /\ x # c
    OBVIOUS
  <1>7. \A x \in Visits : state'[x] = "free" => caller'[x] = Nobody
    BY <1>2, <1>6 DEF RunInv, Carries
  <1>8. \A x \in Visits : state'[x] # "free" =>
          client'[x] \in Clients /\ \E y \in Visits : caller'[y] = client'[x]
    BY <1>2, <1>4, <1>5 DEF RunInv, Carries
  <1>9. \A q \in Clients : runs'[q] > 0 => \E y \in Visits : caller'[y] = q
    BY <1>4 DEF RunInv, Carries
  <1> QED
    BY <1>1, <1>2, <1>3, <1>7, <1>8, <1>9 DEF Carries

LEMMA RunHandlerStep ==
  ASSUME RunInv, NEW v \in Visits, Handler(v)
  PROVE  RunInv'
  <1>1. CASE \/ RunEnds(v) \/ KeepHere(v) \/ ForwardAnswered(v)
             \/ ForwardGivenUp(v) \/ Reject(v) \/ Served(v) \/ GiveUpWaiting(v)
    <2>1. PICK from \in States \ {"free"}, to \in States \ {"free", "arrived"} :
            /\ Goto(v, from, to) /\ from # "ended"
            /\ from = "wait" => to = "ended"
            /\ to = "enqueue" => from = "arrived" \/ client[v] \in retried'
      BY <1>1 DEF RunEnds, KeepHere, ForwardAnswered, ForwardGivenUp,
                  Reject, Served, GiveUpWaiting, States
    <2>2. /\ UNCHANGED <<origin, proc, queue, done, runs>>
          /\ child' \in {child, [child EXCEPT ![v] = Nobody]}
          /\ retried' \in {retried, retried \cup {client[v]}}
      BY <1>1 DEF RunEnds, KeepHere, ForwardAnswered, ForwardGivenUp,
                  Reject, Served, GiveUpWaiting
    <2>3. state' \in [Visits -> States] /\ Custody' /\ Carries' /\ OneBearer'
      BY <2>1, <2>2, MovesOn
    <2>4. state[v] # "free" /\ client[v] \in Clients
      BY <2>1 DEF Goto, RunInv, Carries
    <2>5. TypeOK'
      BY <2>2, <2>3, <2>4 DEF RunInv, TypeOK, origin
    <2> QED
      BY <2>3, <2>5 DEF RunInv
  <1>2. CASE RunLocally(v)
    <2>1. /\ Goto(v, "arrived", "local") /\ Execute(v)
          /\ UNCHANGED <<origin, child, queue, proc, done, retried>>
      BY <1>2 DEF RunLocally
    <2>2. /\ state' \in [Visits -> States] /\ Custody' /\ Pending(v)
          /\ \A r \in Clients : Bearers(r)' \subseteq Bearers(r) \ {v}
      BY <2>1, MovesOn DEF States
    <2>3. client[v] \in Clients /\ \E x \in Visits : caller[x] = client[v]
      BY <2>1 DEF Goto, RunInv, Carries
    <2>4. OneBearer' /\ runs' \in [Clients -> 0 .. MaxRuns]
      BY <2>1, <2>2, <2>3, Executed DEF RunInv
    <2>5. TypeOK'
      BY <2>1, <2>2, <2>4 DEF RunInv, TypeOK, origin
    <2>6. \A x \in Visits : state'[x] # "free" <=> state[x] # "free"
      BY <2>1 DEF Goto, RunInv, TypeOK
    <2>7. \A r \in Clients : runs'[r] > 0 => r = client[v] \/ runs[r] > 0
      BY <2>1 DEF Execute, RunInv, TypeOK
    <2>8. Carries'
      BY <2>1, <2>3, <2>6, <2>7 DEF RunInv, Carries, origin
    <2> QED
      BY <2>2, <2>4, <2>5, <2>8 DEF RunInv
  <1>3. CASE Enqueue(v)
    <2>0. PICK n : n = node[v]
      OBVIOUS
    <2>1. /\ state[v] = "enqueue" /\ state' = [state EXCEPT ![v] = "wait"]
          /\ queue' = [queue EXCEPT ![n] = Append(@, v)]
          /\ UNCHANGED <<origin, child, proc, done, runs, retried>>
      BY <1>3, <2>0 DEF Enqueue, Goto
    <2>2. n \in Nodes /\ queue[n] \in Seq(Visits) /\ state \in [Visits -> States]
      BY <2>0, <2>1 DEF RunInv, Custody, TypeOK
    <2>3. \A m \in Nodes : v \notin InQueue(m) /\ proc[m] # v
      BY <2>1 DEF RunInv, Custody, Parked
    <2>4. /\ queue'[n] = Append(queue[n], v)
          /\ \A m \in Nodes \ {n} : queue'[m] = queue[m]
      BY <2>1, <2>2 DEF RunInv, TypeOK
    <2>5. /\ queue'[n] \in Seq(Visits) /\ NoRepeat(queue'[n])
          /\ InQueue(n)' = InQueue(n) \cup {v}
          /\ \A m \in Nodes \ {n} : InQueue(m)' = InQueue(m)
      BY <2>2, <2>3, <2>4, AppendElems DEF InQueue, RunInv, Custody
    <2>6. /\ state' \in [Visits -> States] /\ state'[v] = "wait"
          /\ \A x \in Visits \ {v} : state'[x] = state[x]
      BY <2>1, <2>2 DEF States
    <2>7. TypeOK'
      BY <2>1, <2>2, <2>4, <2>5, <2>6 DEF RunInv, TypeOK, origin
    <2>8. \A m \in Nodes : InQueue(m) \subseteq Visits
      BY DEF InQueue, Elems, RunInv, TypeOK
    <2>9. \A x \in Visits, m \in Nodes : Parked(x, m) => Parked(x, m)' /\ x # v
      BY <2>1, <2>6 DEF Parked, origin
    <2>10. Parked(v, n)'
      BY <2>0, <2>1, <2>6 DEF Parked, origin
    <2>11. Custody'
      <3>1. \A x \in Visits : state'[x] # "free" => node'[x] \in Nodes
        BY <2>1, <2>2, <2>6 DEF RunInv, Custody, origin
      <3>2. \A m \in Nodes : NoRepeat(queue'[m])
        BY <2>4, <2>5 DEF RunInv, Custody
      <3>3. \A m \in Nodes : \A x \in InQueue(m)' : Parked(x, m)'
        BY <2>5, <2>8, <2>9, <2>10 DEF RunInv, Custody
      <3>4. \A m \in Nodes : proc'[m] \in Visits =>
              Parked(proc[m], m)' /\ proc'[m] \notin InQueue(m)'
        BY <2>1, <2>3, <2>5, <2>9 DEF RunInv, Custody
      <3> QED
        BY <2>1, <3>1, <3>2, <3>3, <3>4 DEF Custody
    <2>12. Carries'
      BY <2>1, <2>6 DEF RunInv, Carries, origin
    <2>13. \A x \in Visits : Pending(x)' => Pending(x)
      BY <2>1, <2>5, <2>6 DEF Pending
    <2>14. \A r \in Clients \ retried' : Bearers(r)' \subseteq Bearers(r)
      BY <2>1, <2>13 DEF Bearers, origin
    <2>15. OneBearer'
      BY <2>1, <2>14, Fewer DEF RunInv
    <2> QED
      BY <2>7, <2>11, <2>12, <2>15 DEF RunInv
  <1>4. ASSUME NEW c \in Visits, NEW n \in Nodes, Forward(v, c, n)
        PROVE  RunInv'
    <2>1. /\ state[v] = "arrived" /\ state[c] = "free"
          /\ Open(c, n, hop[v] + 1, v, client[v])
          /\ state' = [state EXCEPT ![v] = "forward", ![c] = "arrived"]
          /\ child' = [child EXCEPT ![v] = c]
          /\ UNCHANGED <<queue, proc, done, runs, retried>>
          /\ hop[v] + 1 \in Nat
      BY <1>4 DEF Forward, Open, RunInv, TypeOK
    <2>2. client[v] \in Clients /\ \E x \in Visits : caller[x] = client[v]
      BY <2>1 DEF RunInv, Carries
    <2>3. /\ state' \in [Visits -> States] /\ state'[c] = "arrived"
          /\ state'[v] = "forward" /\ v # c
          /\ \A x \in Visits \ {v, c} : state'[x] = state[x]
      BY <2>1 DEF RunInv, TypeOK, States
    <2>4. \A x \in Visits \ {c} : state[x] # "free" <=> state'[x] # "free"
      BY <2>1, <2>3
    <2>5. /\ node' \in [Visits -> Nodes \cup {Nobody}] /\ hop' \in [Visits -> Nat]
          /\ caller' \in [Visits -> Visits \cup Clients \cup {Nobody}]
          /\ client' \in [Visits -> Clients \cup {Nobody}]
          /\ client'[c] = client[v]
          /\ \A x \in Visits \ {c} : node'[x] = node[x] /\ client'[x] = client[x]
          /\ \A x \in Visits : state'[x] # "free" => node'[x] \in Nodes
          /\ Carries'
      BY <2>1, <2>2, <2>3, <2>4, Begins
    <2>6. TypeOK'
      BY <2>1, <2>3, <2>5 DEF RunInv, TypeOK
    <2>7. /\ \A m \in Nodes : InQueue(m)' = InQueue(m)
          /\ \A m \in Nodes : InQueue(m) \subseteq Visits
      BY <2>1 DEF InQueue, Elems, RunInv, TypeOK
    <2>8. \A x \in Visits, m \in Nodes :
            Parked(x, m) => Parked(x, m)' /\ x \notin {v, c}
      BY <2>1, <2>3, <2>5 DEF Parked
    <2>9. Custody'
      BY <2>1, <2>5, <2>7, <2>8 DEF RunInv, Custody
    <2>10. \A x \in Visits : Pending(x)' => x # v /\ (Pending(x) \/ x = c)
      BY <2>3, <2>7, <2>8 DEF Pending, RunInv, Custody
    <2>11. Pending(v)
      BY <2>1 DEF Pending
    <2>12. \A r \in Clients : Bearers(r)' \subseteq
             (Bearers(r) \ {v}) \cup (IF client[v] = r THEN {c} ELSE {})
      BY <2>5, <2>10 DEF Bearers
    <2>13. OneBearer'
      BY <2>1, <2>11, <2>12, PassedOn DEF RunInv
    <2> QED
      BY <2>5, <2>6, <2>9, <2>13 DEF RunInv
  <1> QED
    BY <1>1, <1>2, <1>3, <1>4 DEF Handler

LEMMA RunSendStep ==
  ASSUME RunInv, NEW v \in Visits, NEW r \in Clients, Send(v, r)
  PROVE  RunInv'
  <1>1. /\ Open(v, Home[r], 0, r, r) /\ \A x \in Visits : caller[x] # r
        /\ state' = [state EXCEPT ![v] = "arrived"] /\ state[v] = "free"
        /\ UNCHANGED <<child, queue, proc, done, runs, retried>>
        /\ Home[r] \in Nodes
    BY MeshAssumption DEF MeshAssumption, Send, Open
  <1>2. /\ state' \in [Visits -> States] /\ state'[v] = "arrived"
        /\ \A x \in Visits \ {v} : state'[x] = state[x]
    BY <1>1 DEF RunInv, TypeOK, States
  <1>3. /\ node' \in [Visits -> Nodes \cup {Nobody}] /\ hop' \in [Visits -> Nat]
        /\ caller' \in [Visits -> Visits \cup Clients \cup {Nobody}]
        /\ client' \in [Visits -> Clients \cup {Nobody}]
        /\ client'[v] = r
        /\ \A x \in Visits \ {v} : node'[x] = node[x] /\ client'[x] = client[x]
        /\ \A x \in Visits : state'[x] # "free" => node'[x] \in Nodes
        /\ Carries'
    BY <1>1, <1>2, Begins
  <1>4. TypeOK'
    BY <1>1, <1>2, <1>3 DEF RunInv, TypeOK
  <1>5. /\ \A m \in Nodes : InQueue(m)' = InQueue(m)
        /\ \A m \in Nodes : InQueue(m) \subseteq Visits
    BY <1>1 DEF InQueue, Elems, RunInv, TypeOK
  <1>6. \A x \in Visits, m \in Nodes : Parked(x, m) => Parked(x, m)' /\ x # v
    BY <1>1, <1>2, <1>3 DEF Parked
  <1>7. Custody'
    BY <1>1, <1>3, <1>5, <1>6 DEF RunInv, Custody
  <1>8. \A x \in Visits : Pending(x)' => Pending(x) \/ x = v
    BY <1>2, <1>5 DEF Pending
  <1>9. \A x \in Visits : Pending(x) => state[x] # "free"
    BY <1>5 DEF Pending, RunInv, Custody, Parked
  <1>10. Bearers(r) = {} /\ ~(runs[r] > 0)
    BY <1>1, <1>9 DEF Bearers, RunInv, Carries
  <1>11. runs[r] = 0
    BY <1>10, MeshAssumption DEF MeshAssumption, RunInv, TypeOK
  <1>12. \A q \in Clients : Bearers(q)' \subseteq
            Bearers(q) \cup (IF q = r THEN {v} ELSE {})
    BY <1>3, <1>8 DEF Bearers
  <1>13. OneBearer'
    BY <1>1, <1>10, <1>11, <1>12 DEF RunInv, OneBearer
  <1> QED
    BY <1>3, <1>4, <1>7, <1>13 DEF RunInv

\* The processor of n: the others' queues are not touched, and what it takes is
\* the head of its own.
LEMMA RunProcessorStep ==
  ASSUME RunInv, NEW n \in Nodes, Processor(n)
  PROVE  RunInv'
  <1>0. PICK v : v = Head(queue[n])
    OBVIOUS
  <1>1. /\ queue[n] \in Seq(Visits) /\ proc[n] \in Visits \cup {Nobody}
        /\ NoRepeat(queue[n]) /\ Nobody \notin Visits
        /\ state \in [Visits -> States]
    BY MeshAssumption DEF MeshAssumption, RunInv, TypeOK, Custody
  <1>2. \A m \in Nodes : InQueue(m) \subseteq Visits
    BY DEF InQueue, Elems, RunInv, TypeOK
  <1>3. ASSUME queue[n] # <<>>
        PROVE  /\ v \in Visits /\ Tail(queue[n]) \in Seq(Visits)
               /\ InQueue(n) = Elems(Tail(queue[n])) \cup {v}
               /\ NoRepeat(Tail(queue[n])) /\ v \notin Elems(Tail(queue[n]))
               /\ Parked(v, n) /\ state[v] # "free"
               /\ client[v] \in Clients /\ \E x \in Visits : caller[x] = client[v]
               /\ \A m \in Nodes \ {n} : v \notin InQueue(m)
               /\ Pending(v)
    <2>1. /\ v \in Visits /\ Tail(queue[n]) \in Seq(Visits)
          /\ InQueue(n) = Elems(Tail(queue[n])) \cup {v}
          /\ NoRepeat(Tail(queue[n])) /\ v \notin Elems(Tail(queue[n]))
      BY <1>0, <1>1, <1>3, TailElems DEF InQueue
    <2>2. Parked(v, n) /\ state[v] # "free"
      BY <2>1 DEF RunInv, Custody, Parked
    <2>3. \A m \in Nodes \ {n} : v \notin InQueue(m)
      BY <2>2 DEF RunInv, Custody, Parked
    <2> QED
      BY <2>1, <2>2, <2>3 DEF RunInv, Carries, Pending
  \* A step that leaves the visits as they are.
  <1>4. ASSUME UNCHANGED <<state, origin>>,
               child' \in [Visits -> Visits \cup {Nobody}],
               queue' = [queue EXCEPT ![n] = queue'[n]],
               queue'[n] \in Seq(Visits), NoRepeat(queue'[n]),
               InQueue(n)' \subseteq (InQueue(n) \cup {proc[n]}) \ {Nobody},
               proc' = [proc EXCEPT ![n] = proc'[n]],
               proc'[n] \in InQueue(n) \cup {Nobody, proc[n]},
               proc'[n] \notin InQueue(n)',
               done' \subseteq Visits,
               runs' \in [Clients -> 0 .. MaxRuns], retried' \subseteq Clients
        PROVE  TypeOK' /\ Custody'
    <2>1. /\ \A m \in Nodes \ {n} : queue'[m] = queue[m] /\ InQueue(m)' = InQueue(m)
          /\ \A m \in Nodes \ {n} : proc'[m] = proc[m]
      BY <1>4 DEF RunInv, TypeOK, InQueue
    <2>2. TypeOK'
      <3>1. queue \in [Nodes -> Seq(Visits)] /\ queue' \in [Nodes -> Seq(Visits)]
        BY <1>4 DEF RunInv, TypeOK
      <3>2. proc'[n] \in Visits \cup {Nobody}
        BY <1>1, <1>2, <1>4
      <3>3. proc' \in [Nodes -> Visits \cup {Nobody}]
        BY <1>4, <3>2 DEF RunInv, TypeOK
      <3> QED
        BY <1>4, <3>1, <3>3 DEF RunInv, TypeOK, origin
    <2>3. \A x, m : Parked(x, m) => Parked(x, m)'
      BY <1>4 DEF Parked, origin
    <2>4. \A x \in (InQueue(n) \cup {proc[n]}) \ {Nobody} : Parked(x, n)
      BY <1>1 DEF RunInv, Custody
    <2>5. \A m \in Nodes : \A x \in InQueue(m)' : Parked(x, m)'
      BY <1>4, <2>1, <2>3, <2>4 DEF RunInv, Custody
    <2>6. \A m \in Nodes : NoRepeat(queue'[m])
      BY <1>4, <2>1 DEF RunInv, Custody
    <2>7. \A m \in Nodes : proc'[m] \in Visits =>
            Parked(proc'[m], m) /\ proc'[m] \notin InQueue(m)'
      BY <1>1, <1>4, <2>1, <2>4 DEF RunInv, Custody
    <2>8. \A m \in Nodes : proc'[m] \in Visits => Parked(proc[m], m)'
      BY <1>4, <2>7 DEF Parked, origin
    <2>9. \A x \in Visits : state'[x] # "free" => node'[x] \in Nodes
      BY <1>4 DEF RunInv, Custody, origin
    <2> QED
      BY <2>2, <2>5, <2>6, <2>7, <2>8, <2>9 DEF Custody
  <1>5. ASSUME UNCHANGED <<state, origin>>, NEW w,
               \A m \in Nodes \ {n} : InQueue(m)' = InQueue(m),
               InQueue(n)' \subseteq InQueue(n) \cup {w}
        PROVE  \A x \in Visits : Pending(x)' => Pending(x) \/ x = w
    BY <1>5 DEF Pending
  <1>6. CASE ProcServe(n)
    <2>1. /\ queue[n] # <<>> /\ Execute(v)
          /\ proc' = [proc EXCEPT ![n] = v]
          /\ queue' = [queue EXCEPT ![n] = Tail(@)]
          /\ UNCHANGED <<state, origin, child, done, retried>>
      BY <1>0, <1>6 DEF ProcServe
    <2>2. /\ queue'[n] = Tail(queue[n]) /\ proc'[n] = v
          /\ \A m \in Nodes \ {n} : queue'[m] = queue[m]
      BY <2>1 DEF RunInv, TypeOK
    <2>3. /\ InQueue(n)' = InQueue(n) \ {v} /\ v \in InQueue(n)
          /\ \A m \in Nodes \ {n} : InQueue(m)' = InQueue(m)
      BY <1>3, <2>1, <2>2 DEF InQueue
    <2>4. \A x \in Visits : Pending(x)' => Pending(x) /\ x # v
      BY <1>3, <2>1, <2>3 DEF Pending, Parked
    <2>5. \A r \in Clients : Bearers(r)' \subseteq Bearers(r) \ {v}
      BY <2>1, <2>4 DEF Bearers, origin
    <2>6. OneBearer' /\ runs' \in [Clients -> 0 .. MaxRuns]
      BY <1>3, <2>1, <2>5, Executed DEF RunInv
    <2>7. TypeOK' /\ Custody'
      <3>1. /\ child' \in [Visits -> Visits \cup {Nobody}]
            /\ done' \subseteq Visits /\ retried' \subseteq Clients
            /\ queue \in [Nodes -> Seq(Visits)]
            /\ proc \in [Nodes -> Visits \cup {Nobody}]
        BY <2>1 DEF RunInv, TypeOK
      <3>2. /\ queue' = [queue EXCEPT ![n] = queue'[n]]
            /\ proc' = [proc EXCEPT ![n] = proc'[n]]
        BY <2>1, <2>2
      <3>3. /\ queue'[n] \in Seq(Visits) /\ NoRepeat(queue'[n])
            /\ InQueue(n)' \subseteq (InQueue(n) \cup {proc[n]}) \ {Nobody}
            /\ proc'[n] \in InQueue(n) \cup {Nobody, proc[n]}
            /\ proc'[n] \notin InQueue(n)'
        BY <1>1, <1>2, <1>3, <2>1, <2>2, <2>3
      <3> QED
        BY <1>4, <2>1, <2>6, <3>1, <3>2, <3>3
    <2>8. \A r \in Clients : runs'[r] > 0 => r = client[v] \/ runs[r] > 0
      BY <2>1 DEF Execute, RunInv, TypeOK
    <2>9. Carries'
      BY <1>3, <2>1, <2>8 DEF RunInv, Carries, origin
    <2> QED
      BY <2>6, <2>7, <2>9 DEF RunInv
  <1>7. CASE ProcFinish(n)
    <2>1. /\ proc[n] \in Visits /\ proc' = [proc EXCEPT ![n] = Nobody]
          /\ done' = done \cup {proc[n]}
          /\ child' = [child EXCEPT ![proc[n]] = Nobody]
          /\ UNCHANGED <<state, origin, queue, runs, retried>>
      BY <1>1, <1>7 DEF ProcFinish
    <2>2. proc'[n] = Nobody /\ \A m \in Nodes : InQueue(m)' = InQueue(m)
      BY <2>1 DEF RunInv, TypeOK, InQueue
    <2>3. TypeOK' /\ Custody'
      BY <1>1, <1>2, <1>4, <2>1, <2>2 DEF RunInv, TypeOK
    <2>4. Carries'
      BY <2>1 DEF RunInv, Carries, origin
    <2>5. \A x \in Visits : Pending(x)' => Pending(x)
      BY <2>1, <2>2 DEF Pending
    <2>6. OneBearer'
      BY <2>1, <2>5, Fewer DEF RunInv, Bearers, origin
    <2> QED
      BY <2>3, <2>4, <2>6 DEF RunInv
  <1>8. CASE ProcBounce(n)
    <2>1. /\ queue[n] # <<>> /\ UNCHANGED <<state, origin>>
          /\ queue' = [queue EXCEPT ![n] = Append(Tail(queue[n]), v)]
          /\ UNCHANGED <<child, proc, done, runs, retried>>
      BY <1>0, <1>8 DEF ProcBounce
    <2>2. /\ queue'[n] = Append(Tail(queue[n]), v)
          /\ \A m \in Nodes \ {n} : queue'[m] = queue[m]
      BY <2>1 DEF RunInv, TypeOK
    <2>3. /\ queue'[n] \in Seq(Visits) /\ NoRepeat(queue'[n])
          /\ InQueue(n)' = InQueue(n)
          /\ \A m \in Nodes \ {n} : InQueue(m)' = InQueue(m)
      BY <1>3, <2>1, <2>2, AppendElems DEF InQueue
    <2>4. TypeOK' /\ Custody'
      <3>1. proc[n] \notin InQueue(n)
        BY <1>1, <1>2 DEF RunInv, Custody
      <3>2. /\ child' \in [Visits -> Visits \cup {Nobody}]
            /\ done' \subseteq Visits /\ retried' \subseteq Clients
            /\ runs' \in [Clients -> 0 .. MaxRuns]
            /\ proc \in [Nodes -> Visits \cup {Nobody}]
        BY <2>1 DEF RunInv, TypeOK
      <3>3. /\ queue' = [queue EXCEPT ![n] = queue'[n]]
            /\ proc' = [proc EXCEPT ![n] = proc'[n]]
        BY <2>1, <2>2, <3>2
      <3>4. /\ InQueue(n)' \subseteq (InQueue(n) \cup {proc[n]}) \ {Nobody}
            /\ proc'[n] \in InQueue(n) \cup {Nobody, proc[n]}
            /\ proc'[n] \notin InQueue(n)'
        BY <1>1, <1>2, <2>1, <2>3, <3>1
      <3> QED
        BY <1>4, <2>1, <2>3, <3>2, <3>3, <3>4
    <2>5. Carries'
      BY <2>1 DEF RunInv, Carries, origin
    <2>6. \A x \in Visits : Pending(x)' => Pending(x)
      BY <2>1, <2>3 DEF Pending
    <2>7. OneBearer'
      BY <2>1, <2>6, Fewer DEF RunInv, Bearers, origin
    <2> QED
      BY <2>4, <2>5, <2>7 DEF RunInv
  <1>9. CASE ProcRequeue(n)
    <2>0. PICK w : w = proc[n]
      OBVIOUS
    <2>1. /\ w \in Visits /\ UNCHANGED <<state, origin, done, runs>>
          /\ queue' = [queue EXCEPT ![n] = Append(queue[n], w)]
          /\ child' = [child EXCEPT ![w] = Nobody]
          /\ proc' = [proc EXCEPT ![n] = Nobody]
          /\ retried' = retried \cup {client[w]}
      BY <1>1, <1>9, <2>0 DEF ProcRequeue
    <2>2. /\ Parked(w, n) /\ state[w] # "free" /\ w \notin InQueue(n)
          /\ client[w] \in Clients
      BY <2>0, <2>1 DEF RunInv, Custody, Parked, Carries
    <2>3. /\ queue'[n] = Append(queue[n], w) /\ proc'[n] = Nobody
          /\ \A m \in Nodes \ {n} : queue'[m] = queue[m]
      BY <2>1 DEF RunInv, TypeOK
    <2>4. /\ queue'[n] \in Seq(Visits) /\ NoRepeat(queue'[n])
          /\ InQueue(n)' = InQueue(n) \cup {w}
          /\ \A m \in Nodes \ {n} : InQueue(m)' = InQueue(m)
      BY <1>1, <2>1, <2>2, <2>3, AppendElems DEF InQueue
    <2>5. TypeOK' /\ Custody'
      BY <1>1, <1>2, <1>4, <2>0, <2>1, <2>2, <2>3, <2>4 DEF RunInv, TypeOK
    <2>6. Carries'
      BY <2>1 DEF RunInv, Carries, origin
    <2>7. \A x \in Visits : Pending(x)' => Pending(x) \/ x = w
      BY <1>5, <2>1, <2>4
    <2>8. \A r \in Clients \ retried' : Bearers(r)' \subseteq Bearers(r)
      BY <2>1, <2>7 DEF Bearers, origin
    <2>9. OneBearer'
      BY <2>1, <2>8, Fewer DEF RunInv
    <2> QED
      BY <2>5, <2>6, <2>9 DEF RunInv
  <1>10. ASSUME NEW c \in Visits, NEW m \in Nodes, ProcForward(n, c, m)
         PROVE  RunInv'
    <2>1. /\ queue[n] # <<>> /\ Open(c, m, hop[v] + 1, v, client[v])
          /\ state[c] = "free" /\ state' = [state EXCEPT ![c] = "arrived"]
          /\ child' = [child EXCEPT ![v] = c]
          /\ proc' = [proc EXCEPT ![n] = v]
          /\ queue' = [queue EXCEPT ![n] = Tail(@)]
          /\ UNCHANGED <<done, runs, retried>>
      BY <1>0, <1>10 DEF ProcForward, Open
    <2>2. v \in Visits /\ v # c /\ hop[v] + 1 \in Nat
      <3>1. hop \in [Visits -> Nat]
        BY DEF RunInv, TypeOK
      <3> QED
        BY <1>3, <2>1, <3>1
    <2>3. /\ state' \in [Visits -> States] /\ state'[c] = "arrived"
          /\ \A x \in Visits \ {c} : state'[x] = state[x]
      BY <1>1, <2>1 DEF States
    <2>4. /\ node' \in [Visits -> Nodes \cup {Nobody}] /\ hop' \in [Visits -> Nat]
          /\ caller' \in [Visits -> Visits \cup Clients \cup {Nobody}]
          /\ client' \in [Visits -> Clients \cup {Nobody}]
          /\ client'[c] = client[v]
          /\ \A x \in Visits \ {c} : node'[x] = node[x] /\ client'[x] = client[x]
          /\ \A x \in Visits : state'[x] # "free" => node'[x] \in Nodes
          /\ Carries'
      BY <1>3, <2>1, <2>2, <2>3, Begins
    <2>5. /\ queue'[n] = Tail(queue[n]) /\ proc'[n] = v
          /\ \A k \in Nodes \ {n} : queue'[k] = queue[k] /\ proc'[k] = proc[k]
      BY <2>1 DEF RunInv, TypeOK
    <2>6. /\ InQueue(n)' = InQueue(n) \ {v} /\ v \in InQueue(n)
          /\ \A k \in Nodes \ {n} : InQueue(k)' = InQueue(k)
      BY <1>3, <2>1, <2>5 DEF InQueue
    <2>7. TypeOK'
      BY <1>3, <2>1, <2>2, <2>3, <2>4, <2>5 DEF RunInv, TypeOK
    <2>8. \A x \in Visits, k \in Nodes : Parked(x, k) => Parked(x, k)' /\ x # c
      BY <2>1, <2>3, <2>4 DEF Parked
    <2>9. Custody'
      <3>1. \A k \in Nodes : NoRepeat(queue'[k])
        BY <1>3, <2>1, <2>5 DEF RunInv, Custody
      <3>2. \A k \in Nodes : \A x \in InQueue(k)' : Parked(x, k)'
        BY <1>2, <2>6, <2>8 DEF RunInv, Custody
      <3>3. \A k \in Nodes : proc'[k] \in Visits =>
              Parked(proc'[k], k) /\ proc'[k] \notin InQueue(k)'
        BY <1>3, <2>1, <2>5, <2>6 DEF RunInv, Custody
      <3>4. \A k \in Nodes : proc'[k] \in Visits => Parked(proc[k], k)'
        BY <2>3, <2>4, <2>8, <3>3 DEF Parked
      <3> QED
        BY <2>4, <3>1, <3>2, <3>3, <3>4 DEF Custody
    <2>10. \A x \in Visits : Pending(x)' => x # v /\ (Pending(x) \/ x = c)
      <3>1. state'[v] \in {"wait", "ended"} /\ \A k \in Nodes : v \notin InQueue(k)'
        BY <1>3, <2>1, <2>2, <2>3, <2>6 DEF Parked
      <3>2. \A k \in Nodes : InQueue(k)' \subseteq InQueue(k)
        BY <2>6
      <3> QED
        BY <2>3, <3>1, <3>2 DEF Pending
    <2>11. \A r \in Clients : Bearers(r)' \subseteq
             (Bearers(r) \ {v}) \cup (IF client[v] = r THEN {c} ELSE {})
      BY <2>4, <2>10 DEF Bearers
    <2>12. OneBearer'
      BY <1>3, <2>1, <2>11, PassedOn DEF RunInv
    <2> QED
      BY <2>4, <2>7, <2>9, <2>12 DEF RunInv
  <1> QED
    BY <1>6, <1>7, <1>8, <1>9, <1>10 DEF Processor

\* A request is executed once, on one backend, whatever way it takes through the
\* cluster, unless a node gave up on an exchange of it: for any number of nodes
\* and clients, any queue size and any MaxHops.
THEOREM RunsOnce == Spec => []OneRunUnlessRetried
  <1>1. Init => RunInv
    BY RunInvInit
  <1>2. RunInv /\ [Next]_vars => RunInv'
    <2> SUFFICES ASSUME RunInv, [Next]_vars PROVE RunInv'
      OBVIOUS
    <2>1. CASE UNCHANGED vars
      BY <2>1 DEF vars, origin, RunInv, TypeOK, Custody, Parked, InQueue, Carries,
                  OneBearer, Bearers, Pending
    <2> QED
      BY <2>1, RunHandlerStep, RunSendStep, RunProcessorStep DEF Next
  <1>3. RunInv => OneRunUnlessRetried
    <2> SUFFICES ASSUME RunInv, NEW r \in Clients \ retried PROVE ~(runs[r] > 1)
      BY DEF RunInv, OneRunUnlessRetried
    <2> QED
      BY DEF RunInv, OneBearer, TypeOK
  <1> QED
    BY <1>1, <1>2, <1>3, PTL DEF Spec

-----------------------------------------------------------------------------
(* PeerHealth: what membership, health counters and the downtime record have *)
(* in common in every interleaving of operator, poller and goroutines        *)

\* The parts of HealthTypeOK the arguments below use, with the fact that a poll is
\* only made of an allocated node, so that AddPeer finds its counter at zero.
Counted ==
  /\ address \in [PeerNodes -> Addresses \cup {NoAddress}]
  /\ status \in [PeerNodes -> Statuses \cup {"absent"}]
  /\ fails \in [PeerNodes -> 0 .. UnhealthyThreshold]
  /\ poll \in [PeerNodes -> {"none", "asking"} \cup Answers]
  /\ \A n \in PeerNodes : address[n] = NoAddress =>
       status[n] = "absent" /\ fails[n] = 0 /\ poll[n] = "none"

LEMMA CountedInit ==
  HealthInit => Counted /\ UnhealthyAfterThreshold /\ OneOpenInterval
  BY HealthAssumption
  DEF HealthAssumption, HealthInit, Counted, UnhealthyAfterThreshold, Members,
      OneOpenInterval

\* An answer and a failure both store a status that fits the counter, whether
\* or not the node is still a peer.
LEMMA CountedNext ==
  ASSUME Counted, UnhealthyAfterThreshold, [HealthNext]_healthVars
  PROVE  Counted' /\ UnhealthyAfterThreshold'
  <1> USE HealthAssumption
      DEF HealthAssumption, Counted, UnhealthyAfterThreshold, Members, Inc,
          Statuses, Answers, nodeVars, trackVars
  <1>1. ASSUME NEW n \in PeerNodes, NEW a \in Addresses, AddPeer(n, a)
        PROVE  Counted' /\ UnhealthyAfterThreshold'
    BY <1>1 DEF AddPeer
  <1>2. ASSUME NEW n \in PeerNodes, RemovePeer(n)
        PROVE  Counted' /\ UnhealthyAfterThreshold'
    BY <1>2 DEF RemovePeer
  <1>3. ASSUME NEW n \in PeerNodes, NEW a \in Answers, Answer(n, a)
        PROVE  Counted' /\ UnhealthyAfterThreshold'
    BY <1>3 DEF Answer
  <1>4. ASSUME NEW n \in PeerNodes, StoreAnswer(n)
        PROVE  Counted' /\ UnhealthyAfterThreshold'
    BY <1>4 DEF StoreAnswer
  <1>5. ASSUME NEW n \in PeerNodes, StoreFailure(n)
        PROVE  Counted' /\ UnhealthyAfterThreshold'
    BY <1>5 DEF StoreFailure
  <1>6. CASE Loop
    <2>1. CASE PollLocalOk \/ TrackRecovery \/ RoundDone
      BY <2>1 DEF PollLocalOk, TrackRecovery, RoundDone
    <2>2. CASE PollLocalFail
      BY <2>2 DEF PollLocalFail
    <2>3. CASE Snapshot
      BY <2>3 DEF Snapshot
    <2> QED
      BY <1>6, <2>1, <2>2, <2>3 DEF Loop
  <1>7. CASE TrackFailure \/ LocalFlips
    BY <1>7 DEF TrackFailure, LocalFlips
  <1>9. ASSUME NEW a \in Addresses, PeerFlips(a)
        PROVE  Counted' /\ UnhealthyAfterThreshold'
    BY <1>9 DEF PeerFlips
  <1>8. CASE UNCHANGED healthVars
    BY <1>8 DEF healthVars
  <1> QED
    BY <1>1, <1>2, <1>3, <1>4, <1>5, <1>6, <1>7, <1>8, <1>9 DEF HealthNext, Poll

\* A peer is marked unhealthy exactly when its last UnhealthyThreshold polls
\* failed, for any number of nodes and any threshold.
THEOREM UnhealthyIsEarned == HealthSpec => []UnhealthyAfterThreshold
  <1>1. HealthInit => Counted /\ UnhealthyAfterThreshold
    BY CountedInit
  <1>2. Counted /\ UnhealthyAfterThreshold /\ [HealthNext]_healthVars
        => Counted' /\ UnhealthyAfterThreshold'
    BY CountedNext
  <1> QED
    BY <1>1, <1>2, PTL DEF HealthSpec

-----------------------------------------------------------------------------

\* The rest of the state: what the poller knows of the local backend, where it
\* is in its round, and the downtime record.
RestOK ==
  /\ alive \subseteq Addresses /\ localUp \in BOOLEAN
  /\ local \in [polled: BOOLEAN, healthy: BOOLEAN, fails: 0 .. UnhealthyThreshold]
  /\ pollPc \in {"idle", "transition", "snapshot", "round"}
  /\ pending \in 0 .. MaxPending
  /\ lastHealthy \in BOOLEAN /\ earlierOpen \in BOOLEAN
  /\ lastInterval \in {"none", "open", "closed"}

LEMMA RestNext ==
  ASSUME RestOK, [HealthNext]_healthVars
  PROVE  RestOK'
  <1> USE HealthAssumption DEF HealthAssumption, RestOK
  <1>1. ASSUME NEW n \in PeerNodes, NEW a \in Addresses, AddPeer(n, a) PROVE RestOK'
    BY <1>1 DEF AddPeer, trackVars
  <1>2. ASSUME NEW n \in PeerNodes, Poll(n) \/ RemovePeer(n) PROVE RestOK'
    BY <1>2 DEF Poll, Answer, StoreAnswer, StoreFailure, RemovePeer, trackVars
  <1>3. CASE PollLocalOk
    BY <1>3 DEF PollLocalOk, trackVars
  <1>4. CASE PollLocalFail
    BY <1>4 DEF PollLocalFail, Inc, trackVars
  <1>5. CASE TrackRecovery \/ TrackFailure
    <2>1. ASSUME NEW h \in BOOLEAN, Track(h)
          PROVE  /\ lastHealthy' \in BOOLEAN /\ earlierOpen' \in BOOLEAN
                 /\ lastInterval' \in {"none", "open", "closed"}
      BY <2>1, Zenon DEF Track
    <2>2. CASE TrackRecovery
      BY <2>1, <2>2 DEF TrackRecovery
    <2>3. CASE TrackFailure
      <3>1. Track(FALSE) /\ pending' = pending - 1 /\ pending > 0
        BY <2>3 DEF TrackFailure
      <3>2. UNCHANGED <<alive, local, localUp, pollPc>>
        BY <2>3 DEF TrackFailure
      <3>3. pending' \in 0 .. MaxPending
        BY <3>1
      <3> QED
        BY <2>1, <3>1, <3>2, <3>3
    <2> QED
      BY <1>5, <2>2, <2>3
  <1>6. CASE Snapshot \/ RoundDone \/ LocalFlips
    BY <1>6 DEF Snapshot, RoundDone, LocalFlips, trackVars
  <1>7. ASSUME NEW a \in Addresses, PeerFlips(a) PROVE RestOK'
    BY <1>7 DEF PeerFlips, trackVars
  <1>8. CASE UNCHANGED healthVars
    BY <1>8 DEF healthVars, trackVars
  <1> QED
    BY <1>1, <1>2, <1>3, <1>4, <1>5, <1>6, <1>7, <1>8 DEF HealthNext, Loop

\* Every variable of membership, poller and record keeps its type: no counter
\* leaves its range and no poll is made of an address nobody gave.
THEOREM HealthTypeCorrect == HealthSpec => []HealthTypeOK
  <1> DEFINE Inv == Counted /\ UnhealthyAfterThreshold /\ RestOK
  <1>1. HealthInit => Inv
    <2>1. HealthInit => alive \subseteq Addresses /\ localUp \in BOOLEAN
      BY DEF HealthInit
    <2>2. ASSUME HealthInit
          PROVE  local \in [polled: BOOLEAN, healthy: BOOLEAN,
                            fails: 0 .. UnhealthyThreshold]
      BY <2>2, HealthAssumption DEF HealthInit, HealthAssumption
    <2>3. ASSUME HealthInit
          PROVE  /\ pollPc = "idle" /\ pending = 0 /\ lastInterval = "none"
                 /\ lastHealthy = TRUE /\ earlierOpen = FALSE
      BY <2>3 DEF HealthInit
    <2>4. 0 \in 0 .. MaxPending
      BY HealthAssumption DEF HealthAssumption
    <2> QED
      BY CountedInit, <2>1, <2>2, <2>3, <2>4 DEF RestOK
  <1>2. Inv /\ [HealthNext]_healthVars => Inv'
    BY CountedNext, RestNext
  <1>3. Inv => HealthTypeOK
    BY DEF Counted, RestOK, HealthTypeOK
  <1> QED
    BY <1>1, <1>2, <1>3, PTL DEF HealthSpec

-----------------------------------------------------------------------------

LEMMA TrackKeepsOneOpen ==
  ASSUME OneOpenInterval, lastHealthy \in BOOLEAN, NEW h \in BOOLEAN, Track(h)
  PROVE  OneOpenInterval' /\ lastHealthy' \in BOOLEAN
  BY DEF OneOpenInterval, Track

\* trackHealthTransition may run for a failure after the recovery that followed
\* it: even so no interval is left open behind another one.
THEOREM NoIntervalLeftOpen == HealthSpec => []OneOpenInterval
  <1> DEFINE Inv == OneOpenInterval /\ lastHealthy \in BOOLEAN
  <1>1. HealthInit => Inv
    BY DEF HealthInit, OneOpenInterval
  <1>2. Inv /\ [HealthNext]_healthVars => Inv'
    <2> SUFFICES ASSUME Inv, [HealthNext]_healthVars PROVE Inv'
      OBVIOUS
    <2>1. CASE TrackRecovery \/ TrackFailure
      BY <2>1, TrackKeepsOneOpen DEF TrackRecovery, TrackFailure
    <2>2. ASSUME UNCHANGED trackVars PROVE Inv'
      BY <2>2 DEF trackVars, OneOpenInterval
    <2>3. ASSUME PollLocalOk \/ PollLocalFail \/ Snapshot \/ RoundDone \/ LocalFlips
          PROVE  UNCHANGED trackVars
      BY <2>3 DEF PollLocalOk, PollLocalFail, Snapshot, RoundDone, LocalFlips
    <2>4. ASSUME NEW n \in PeerNodes, Poll(n) \/ RemovePeer(n) PROVE UNCHANGED trackVars
      BY <2>4 DEF Poll, Answer, StoreAnswer, StoreFailure, RemovePeer
    <2>5. ASSUME NEW n \in PeerNodes, NEW a \in Addresses, AddPeer(n, a)
          PROVE  UNCHANGED trackVars
      BY <2>5 DEF AddPeer
    <2>6. ASSUME UNCHANGED healthVars PROVE UNCHANGED trackVars
      BY <2>6 DEF healthVars
    <2>7. ASSUME NEW a \in Addresses, PeerFlips(a) PROVE UNCHANGED trackVars
      BY <2>7 DEF PeerFlips
    <2> HIDE DEF Inv
    <2> QED
      BY <2>1, <2>2, <2>3, <2>4, <2>5, <2>6, <2>7 DEF HealthNext, Loop
  <1>3. Inv => OneOpenInterval
    OBVIOUS
  <1> QED
    BY <1>1, <1>2, <1>3, PTL DEF HealthSpec

-----------------------------------------------------------------------------

\* A node that was removed is asked again by no later round, and nothing but an
\* answer that was under way puts it back (pollAllPeers, handlePeersEndpoint).
THEOREM RemovalIsFinal == HealthSpec => RemovalOutlastsRound
  <1>1. ASSUME Counted, HealthNext, NEW n \in PeerNodes,
               address[n] # NoAddress, n \notin Members, poll[n] = "none"
        PROVE  status'[n] = "absent" /\ poll'[n] = "none"
    <2> DEFINE Stays == status'[n] = "absent" /\ poll'[n] = "none"
    <2>0. /\ address[n] # NoAddress /\ status[n] = "absent" /\ poll[n] = "none"
          /\ n \notin Members
          /\ status \in [PeerNodes -> Statuses \cup {"absent"}]
          /\ poll \in [PeerNodes -> {"none", "asking"} \cup Answers]
      BY <1>1 DEF Counted, Members
    <2>1. ASSUME NEW m \in PeerNodes, NEW a \in Addresses, AddPeer(m, a)
          PROVE  Stays
      BY <2>0, <2>1 DEF AddPeer
    <2>2. ASSUME NEW m \in PeerNodes, RemovePeer(m) PROVE Stays
      BY <2>0, <2>2 DEF RemovePeer
    <2>3. ASSUME NEW m \in PeerNodes, Poll(m) PROVE Stays
      BY <2>0, <2>3 DEF Poll, Answer, StoreAnswer, StoreFailure
    <2>4. CASE Snapshot
      BY <2>0, <2>4 DEF Snapshot
    <2>5. CASE \/ PollLocalOk \/ PollLocalFail \/ TrackRecovery \/ RoundDone
               \/ TrackFailure \/ LocalFlips \/ \E a \in Addresses : PeerFlips(a)
      BY <2>0, <2>5 DEF PollLocalOk, PollLocalFail, TrackRecovery, RoundDone,
         TrackFailure, LocalFlips, PeerFlips, nodeVars
    <2> QED
      BY <1>1, <2>1, <2>2, <2>3, <2>4, <2>5 DEF HealthNext, Loop
  <1>2. Counted /\ [HealthNext]_healthVars =>
          [\A n \in PeerNodes :
             address[n] # NoAddress /\ n \notin Members /\ poll[n] = "none"
             => status'[n] = "absent" /\ poll'[n] = "none"]_healthVars
    BY <1>1
  <1>3. HealthInit => Counted /\ UnhealthyAfterThreshold
    BY CountedInit
  <1>4. Counted /\ UnhealthyAfterThreshold /\ [HealthNext]_healthVars
        => Counted' /\ UnhealthyAfterThreshold'
    BY CountedNext
  <1> QED
    BY <1>2, <1>3, <1>4, PTL DEF HealthSpec, RemovalOutlastsRound

=============================================================================
