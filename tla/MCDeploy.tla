------------------------------ MODULE MCDeploy ------------------------------
(* A small instance of Deploy for TLC. *)
EXTENDS Deploy

AtOne(c, h, kinds, most) ==
  [cloud |-> c, runs |-> 1 :> h, kinds |-> kinds, most |-> most,
   requests |-> {}]

OnCaches == {"flush", "clear-cache"} \cup PolicyKinds

\* One node, whatever runs there, and two commands of any kind but those
\* about caches and those that work on a Cluster.
OneNodeScenes ==
  LET kinds == Kinds \ (OnCaches \cup OnCluster) IN
  {AtOne("ssh", h, kinds, 2) : h \in {None} \cup Hows} \cup
  {AtOne("modal", h, kinds, 2) : h \in {None, "hand"}}

\* Those: twice, or with a restart or a deployment; and once on two nodes.
ClusterScenes ==
  {AtOne("ssh", h, OnCluster \cup {"restart", "deploy"}, 2) :
     h \in {"task", "hand"}} \cup
  {AtOne("modal", "hand", OnCluster, 1)} \cup
  {[cloud |-> "ssh", runs |-> (1 :> "task") @@ (2 :> None), kinds |-> OnCluster,
    most |-> 1, requests |-> {}]}

\* Two nodes: with load balancers and a request, two commands about caches;
\* or one deployment over whatever runs there.
TwoNodeScenes ==
  {[cloud |-> "ssh", runs |-> [n \in Nodes |-> "gotoni-lb"], most |-> 2,
    kinds |-> OnCaches \cup {"lb stop"}, requests |-> Requests],
   [cloud |-> "ssh", runs |-> (1 :> "nohup") @@ (2 :> None), most |-> 1,
    kinds |-> {"deploy"}, requests |-> Requests]}

SomeScenes == OneNodeScenes \cup ClusterScenes \cup TwoNodeScenes

=============================================================================
