----------------------------- MODULE PeerHealth -----------------------------
(***************************************************************************)
(* The membership and health view of one load balancer: lb.peers, changed  *)
(* by the operator (/lb/peers) and by the metrics poller                   *)
(* (pkg/cluster/sglang_metrics.go), the health of the local backend and    *)
(* the downtime record.  Each round of the poller polls the local backend, *)
(* then every peer it finds in lb.peers, concurrently, and waits for all.  *)
(***************************************************************************)
EXTENDS Naturals

CONSTANTS
  PeerNodes,          \* the *PeerNode values, each allocated once
  Addresses,          \* ip:port pairs
  NoAddress,          \* a PeerNode that has not been allocated
  UnhealthyThreshold, \* consecutive failures before a node is unhealthy
  MaxPending          \* bound on the goroutines started by markLocalUnhealthy

HealthAssumption ==
  /\ NoAddress \notin Addresses
  /\ UnhealthyThreshold \in Nat \ {0} /\ MaxPending \in Nat

ASSUME HealthAssumption

VARIABLES
  address,      \* peer.Instance.IP and peer.Port of each PeerNode
  status,       \* lb.peers: the status of each node, "absent" if not a key
  fails,        \* peer.Metrics.ConsecutiveFails
  poll,         \* the poll goroutine of each node and the answer it got
  alive,        \* the backends that answer
  local,        \* lb.localMetrics
  localUp,      \* the local backend answers
  pollPc,       \* where pollMetricsLoop is
  pending,      \* goroutines that will call trackHealthTransition(false)
  lastHealthy,  \* lb.lastHealthyState
  lastInterval, \* the last of lb.downtimeIntervals
  earlierOpen   \* an interval before the last has no end

nodeVars  == <<address, status, fails, poll>>
trackVars == <<lastHealthy, lastInterval, earlierOpen>>
healthVars == <<nodeVars, alive, local, localUp, pollPc, pending, trackVars>>

Statuses == {"available", "full", "unhealthy"}
Answers == {"ok", "full", "failed"}

HealthTypeOK ==
  /\ address \in [PeerNodes -> Addresses \cup {NoAddress}]
  /\ status \in [PeerNodes -> Statuses \cup {"absent"}]
  /\ fails \in [PeerNodes -> 0 .. UnhealthyThreshold]
  /\ poll \in [PeerNodes -> {"none", "asking"} \cup Answers]
  /\ alive \subseteq Addresses /\ localUp \in BOOLEAN
  /\ local \in [polled: BOOLEAN, healthy: BOOLEAN, fails: 0 .. UnhealthyThreshold]
  /\ pollPc \in {"idle", "transition", "snapshot", "round"}
  /\ pending \in 0 .. MaxPending
  /\ lastHealthy \in BOOLEAN /\ earlierOpen \in BOOLEAN
  /\ lastInterval \in {"none", "open", "closed"}

HealthInit ==
  /\ address = [n \in PeerNodes |-> NoAddress]
  /\ status = [n \in PeerNodes |-> "absent"]
  /\ fails = [n \in PeerNodes |-> 0]
  /\ poll = [n \in PeerNodes |-> "none"]
  /\ alive \in SUBSET Addresses /\ localUp \in BOOLEAN
  /\ local = [polled |-> FALSE, healthy |-> FALSE, fails |-> 0]
  /\ pollPc = "idle" /\ pending = 0
  /\ lastHealthy = TRUE /\ lastInterval = "none" /\ earlierOpen = FALSE

\* The keys of lb.peers.
Members == {n \in PeerNodes : status[n] # "absent"}

\* The counters are only compared with the threshold, where they saturate.
Inc(k) == IF k < UnhealthyThreshold THEN k + 1 ELSE k

-----------------------------------------------------------------------------
(* The operator *)

\* AddPeerByIP and POST /lb/peers: a new PeerNode, unless one has this address.
AddPeer(n, a) ==
  /\ address[n] = NoAddress
  /\ \A m \in Members : address[m] # a
  /\ address' = [address EXCEPT ![n] = a]
  /\ status' = [status EXCEPT ![n] = "available"]
  /\ UNCHANGED <<fails, poll, alive, local, localUp, pollPc, pending, trackVars>>

\* DELETE /lb/peers: one node with this address, which the poller may hold.
RemovePeer(n) ==
  /\ n \in Members
  /\ status' = [status EXCEPT ![n] = "absent"]
  /\ UNCHANGED <<address, fails, poll, alive, local, localUp, pollPc, pending,
                 trackVars>>

-----------------------------------------------------------------------------
(* The local backend *)

PollLocalOk ==
  /\ pollPc = "idle" /\ localUp
  /\ local' = [polled |-> TRUE, healthy |-> TRUE, fails |-> 0]
  /\ pollPc' = IF local.healthy THEN "snapshot" ELSE "transition"
  /\ UNCHANGED <<nodeVars, alive, localUp, pending, trackVars>>

\* markLocalUnhealthy; it holds localMetricsMu, so it leaves the downtime
\* record to a goroutine of its own.
PollLocalFail ==
  /\ pollPc = "idle" /\ ~localUp
  /\ LET n == Inc(local.fails)
         down == n >= UnhealthyThreshold
     IN  /\ local.healthy /\ down => pending < MaxPending
         /\ local' = [polled |-> TRUE, healthy |-> local.healthy /\ ~down, fails |-> n]
         /\ pending' = IF local.healthy /\ down THEN pending + 1 ELSE pending
  /\ pollPc' = "snapshot"
  /\ UNCHANGED <<nodeVars, alive, localUp, trackVars>>

\* Mutant of Track: does not compare with lastHealthyState.
TrackAlways(healthy) ==
  /\ lastHealthy' = healthy
  /\ lastInterval' = IF healthy THEN "closed" ELSE "open"
  /\ earlierOpen' = (earlierOpen \/ (~healthy /\ lastInterval = "open"))

\* trackHealthTransition
Track(healthy) ==
  /\ lastHealthy' = healthy
  /\ lastInterval' = CASE lastHealthy /\ ~healthy -> "open"
                       [] ~lastHealthy /\ healthy /\ lastInterval = "open" -> "closed"
                       [] OTHER -> lastInterval
  /\ earlierOpen' = (earlierOpen \/ (lastHealthy /\ ~healthy /\ lastInterval = "open"))

\* Called by pollLocalMetrics itself when the backend has recovered.
TrackRecovery ==
  /\ pollPc = "transition"
  /\ Track(TRUE)
  /\ pollPc' = "snapshot"
  /\ UNCHANGED <<nodeVars, alive, local, localUp, pending>>

TrackFailure ==
  /\ pending > 0
  /\ Track(FALSE)
  /\ pending' = pending - 1
  /\ UNCHANGED <<nodeVars, alive, local, localUp, pollPc>>

-----------------------------------------------------------------------------
(* The peers *)

\* Mutants of Snapshot: every node ever added is polled, or only those that
\* are available.
SnapshotAll ==
  /\ pollPc = "snapshot"
  /\ poll' = [n \in PeerNodes |-> IF address[n] # NoAddress THEN "asking" ELSE "none"]
  /\ pollPc' = "round"
  /\ UNCHANGED <<address, status, fails, alive, local, localUp, pending, trackVars>>

SnapshotAvailable ==
  /\ pollPc = "snapshot"
  /\ poll' = [n \in PeerNodes |-> IF status[n] = "available" THEN "asking" ELSE "none"]
  /\ pollPc' = "round"
  /\ UNCHANGED <<address, status, fails, alive, local, localUp, pending, trackVars>>

\* pollAllPeers copies the keys of lb.peers and starts a goroutine for each.
Snapshot ==
  /\ pollPc = "snapshot"
  /\ poll' = [n \in PeerNodes |-> IF n \in Members THEN "asking" ELSE "none"]
  /\ pollPc' = "round"
  /\ UNCHANGED <<address, status, fails, alive, local, localUp, pending, trackVars>>

\* fetchSGLangMetrics: an answer, at or below capacity, or an error.
Answer(n, a) ==
  /\ poll[n] = "asking"
  /\ a = "failed" <=> address[n] \notin alive
  /\ poll' = [poll EXCEPT ![n] = a]
  /\ UNCHANGED <<address, status, fails, alive, local, localUp, pollPc, pending,
                 trackVars>>

\* Mutant of StoreAnswer: ConsecutiveFails is kept.
StoreAnswerKeepsFails(n) ==
  /\ poll[n] \in {"ok", "full"}
  /\ status' = [status EXCEPT ![n] = IF poll[n] = "ok" THEN "available" ELSE "full"]
  /\ poll' = [poll EXCEPT ![n] = "none"]
  /\ UNCHANGED <<address, fails, alive, local, localUp, pollPc, pending, trackVars>>

\* Neither pollPeerMetrics nor markPeerUnhealthy looks whether the node is
\* still a key of lb.peers.
StoreAnswer(n) ==
  /\ poll[n] \in {"ok", "full"}
  /\ fails' = [fails EXCEPT ![n] = 0]
  /\ status' = [status EXCEPT ![n] = IF poll[n] = "ok" THEN "available" ELSE "full"]
  /\ poll' = [poll EXCEPT ![n] = "none"]
  /\ UNCHANGED <<address, alive, local, localUp, pollPc, pending, trackVars>>

StoreFailure(n) ==
  /\ poll[n] = "failed"
  /\ fails' = [fails EXCEPT ![n] = Inc(@)]
  /\ status' = IF Inc(fails[n]) >= UnhealthyThreshold
                 THEN [status EXCEPT ![n] = "unhealthy"] ELSE status
  /\ poll' = [poll EXCEPT ![n] = "none"]
  /\ UNCHANGED <<address, alive, local, localUp, pollPc, pending, trackVars>>

RoundDone ==
  /\ pollPc = "round" /\ \A n \in PeerNodes : poll[n] = "none"
  /\ pollPc' = "idle"
  /\ UNCHANGED <<nodeVars, alive, local, localUp, pending, trackVars>>

-----------------------------------------------------------------------------
(* Backends come and go *)

PeerFlips(a) ==
  /\ alive' = IF a \in alive THEN alive \ {a} ELSE alive \cup {a}
  /\ UNCHANGED <<nodeVars, local, localUp, pollPc, pending, trackVars>>

LocalFlips ==
  /\ localUp' = ~localUp
  /\ UNCHANGED <<nodeVars, alive, local, pollPc, pending, trackVars>>

-----------------------------------------------------------------------------

Loop == PollLocalOk \/ PollLocalFail \/ TrackRecovery \/ Snapshot \/ RoundDone

Poll(n) == (\E a \in Answers : Answer(n, a)) \/ StoreAnswer(n) \/ StoreFailure(n)

HealthNext ==
  \/ Loop
  \/ TrackFailure
  \/ \E n \in PeerNodes : Poll(n) \/ RemovePeer(n) \/ \E a \in Addresses : AddPeer(n, a)
  \/ \E a \in Addresses : PeerFlips(a)
  \/ LocalFlips

HealthSpec == HealthInit /\ [][HealthNext]_healthVars

\* Go runs the loop and its goroutines, and every fetch ends: it has a timeout.
HealthFairness ==
  /\ WF_healthVars(Loop) /\ WF_healthVars(TrackFailure)
  /\ \A n \in PeerNodes : WF_healthVars(Poll(n))

HealthFairSpec == HealthSpec /\ HealthFairness

-----------------------------------------------------------------------------
(* Properties *)

\* A peer is unhealthy exactly after UnhealthyThreshold failures in a row, also
\* when it was removed and polled meanwhile.
UnhealthyAfterThreshold ==
  \A n \in Members : status[n] = "unhealthy" <=> fails[n] >= UnhealthyThreshold

\* A node that left lb.peers can only come back through a poll that was under
\* way when it left: no later round asks it.
RemovalOutlastsRound ==
  [][ \A n \in PeerNodes :
        address[n] # NoAddress /\ n \notin Members /\ poll[n] = "none"
        => status'[n] = "absent" /\ poll'[n] = "none" ]_healthVars

\* Whatever the order in which the poller and the goroutines it starts reach
\* the downtime record: an interval is open exactly while the record says
\* unhealthy, and it is the last one.
OneOpenInterval ==
  /\ ~earlierOpen
  /\ lastInterval = "open" <=> ~lastHealthy

\* A peer whose backend stays dead is taken out of the routing for good, and
\* one that answers again comes back.
DeadPeerExcluded ==
  \A n \in PeerNodes :
    <>[](n \in Members /\ address[n] \notin alive) => <>[](status[n] = "unhealthy")
RecoveredPeerReturns ==
  \A n \in PeerNodes :
    <>[](n \in Members /\ address[n] \in alive) => <>[](status[n] # "unhealthy")

=============================================================================
