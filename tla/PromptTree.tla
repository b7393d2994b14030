----------------------------- MODULE PromptTree -----------------------------
(***************************************************************************)
(* The radix trees in which GORGO records where prompts are cached         *)
(* (pkg/cluster/loadbalancer.go): one for the peers, one for this node.    *)
(* Writers and findPrefixMatches hold the policy's mutex p.mu; the walk of *)
(* findLocalPrefixMatch holds nothing, so it is taken read by read, and a  *)
(* split write by write: it shortens the text of a node before it hangs    *)
(* the new node above it.                                                  *)
(***************************************************************************)
EXTENDS Naturals, SequencesExt

CONSTANTS
  Chars,      \* characters
  Prompts,    \* the prompts recorded and looked up, sequences of Chars
  Owners,     \* the nodes a prompt is recorded for
  Here,       \* this node, the nil peer of the local tree
  Readers,    \* goroutines in findLocalPrefixMatch
  Ids,        \* addresses of tree nodes: 1 .. some bound
  Nil,        \* the nil tree node
  MaxInserts  \* bound on the insertions

Root == 0

TreeAssumption ==
  /\ Prompts \subseteq Seq(Chars) /\ <<>> \notin Prompts
  /\ MaxInserts \in Nat /\ Ids = 1 .. 2 * MaxInserts /\ Nil \notin Ids \cup {Root}
  /\ Here \in Owners

ASSUME TreeAssumption

VARIABLES
  tree,      \* the nodes reachable from p.root or p.localRoot
  mu,        \* p.mu: the insertion its holder is about to make, if any
  cut,       \* how far its split is: "no", "short" (lookup.prefix is written),
             \* "linked" (the new node hangs in the tree)
  recorded,  \* what was inserted since the last ClearCache
  inserts,   \* how many insertions there have been
  reader,    \* the local variables of findLocalPrefixMatch
  known      \* what was recorded at some time since the reader started

vars == <<tree, mu, cut, recorded, inserts, reader, known>>

Empty == [kids   |-> [n \in {Root} |-> [c \in Chars |-> Nil]],
          prefix |-> [n \in {Root} |-> <<>>],
          marks  |-> [n \in {Root} |-> {}]]

NodesOf(t) == DOMAIN t.prefix

-----------------------------------------------------------------------------
(* The algorithms *)

\* sharedPrefixLength
Shared(s, u) ==
  CHOOSE k \in 0 .. Len(s) :
    /\ IsPrefix(SubSeq(s, 1, k), u)
    /\ k < Len(s) => ~IsPrefix(SubSeq(s, 1, k + 1), u)

From(s, i) == SubSeq(s, i + 1, Len(s))

\* The edge a walk that has matched i characters of q at node n takes next.
Kid(t, q, at) == IF at.i < Len(q) THEN t.kids[at.node][q[at.i + 1]] ELSE Nil

Overlap(t, q, at) == Shared(From(q, at.i), t.prefix[Kid(t, q, at)])

Top == [node |-> Root, i |-> 0]

\* One iteration of insertIntoGORGOTree: to the end of the edge, if it is whole.
Follow(t, q, at) ==
  LET kid == Kid(t, q, at)
  IN  IF kid # Nil /\ Overlap(t, q, at) = Len(t.prefix[kid])
      THEN [node |-> kid, i |-> at.i + Len(t.prefix[kid])] ELSE at

\* Where its loop is after k iterations, and where it stops following edges.
Descent(t, q) ==
  LET go[k \in 0 .. Len(q)] ==
        IF k = 0 THEN Top ELSE Follow(t, q, go[k - 1])
  IN  go

Descend(t, q) == Descent(t, q)[Len(q)]

Fresh(t) == CHOOSE n \in Ids \ NodesOf(t) : \A m \in Ids \ NodesOf(t) : n <= m

\* A new node n below parent; it replaces the edge it starts like.
Attach(t, parent, n, text, owners) ==
  [kids   |-> [m \in NodesOf(t) \cup {n} |->
                 IF m = n THEN [c \in Chars |-> Nil]
                 ELSE IF m = parent THEN [t.kids[m] EXCEPT ![text[1]] = n]
                 ELSE t.kids[m]],
   prefix |-> [m \in NodesOf(t) \cup {n} |-> IF m = n THEN text ELSE t.prefix[m]],
   marks  |-> [m \in NodesOf(t) \cup {n} |-> IF m = n THEN owners ELSE t.marks[m]]]

\* Mutants of Split: the old node becomes a child of itself (as in
\* PrefixTreePolicy.Insert), and the new node inherits its marks.
SplitLoops(t, q, at, k) ==
  LET kid == Kid(t, q, at)
      above == Attach(t, at.node, Fresh(t), SubSeq(t.prefix[kid], 1, k), {})
      rest == From(t.prefix[kid], k)
  IN  [above EXCEPT !.prefix[kid] = rest, !.kids[kid][rest[1]] = kid]

SplitInherits(t, q, at, k) ==
  LET kid == Kid(t, q, at)
      new == Fresh(t)
      above == Attach(t, at.node, new, SubSeq(t.prefix[kid], 1, k), t.marks[kid])
      rest == From(t.prefix[kid], k)
  IN  [above EXCEPT !.prefix[kid] = rest, !.kids[new][rest[1]] = kid]

\* The edge at.node -> kid is cut after k characters.
Split(t, q, at, k) ==
  LET kid == Kid(t, q, at)
      new == Fresh(t)
      above == Attach(t, at.node, new, SubSeq(t.prefix[kid], 1, k), {})
      rest == From(t.prefix[kid], k)
  IN  [above EXCEPT !.prefix[kid] = rest, !.kids[new][rest[1]] = kid]

\* The insertion of q leaves an edge in the middle, and must split it first.
Splits(t, q) == Kid(t, q, Descend(t, q)) # Nil

\* The rest of insertIntoGORGOTree, once no edge is left to split.
Insert(t, q, o) ==
  LET at == Descend(t, q)
  IN  IF at.i = Len(q) THEN [t EXCEPT !.marks[at.node] = @ \cup {o}]
      ELSE Attach(t, at.node, Fresh(t), From(q, at.i), {o})

\* Mutant of Visit: a partial match counts as the whole edge.
VisitWhole(t, q, at, o) ==
  LET kid == Kid(t, q, at)
      i == at.i + Overlap(t, q, at)
  IN  [node |-> kid, i |-> i,
       matched |-> IF o \in t.marks[kid] THEN at.i + Len(t.prefix[kid])
                   ELSE at.matched,
       going |-> Overlap(t, q, at) = Len(t.prefix[kid]) /\ i < Len(q)]

\* One iteration of findPrefixMatches for one owner.
Visit(t, q, at, o) ==
  LET kid == Kid(t, q, at)
      i == at.i + Overlap(t, q, at)
  IN  [node |-> kid, i |-> i,
       matched |-> IF o \in t.marks[kid] THEN i ELSE at.matched,
       going |-> Overlap(t, q, at) = Len(t.prefix[kid]) /\ i < Len(q)]

Start == [node |-> Root, i |-> 0, matched |-> 0, going |-> TRUE]

Advance(t, q, at, o) ==
  IF at.going /\ Kid(t, q, at) # Nil THEN Visit(t, q, at, o) ELSE at

Walk(t, q, o) ==
  LET go[k \in 0 .. Len(q)] ==
        IF k = 0 THEN Start ELSE Advance(t, q, go[k - 1], o)
  IN  go

Match(t, q, o) == Walk(t, q, o)[Len(q)].matched

-----------------------------------------------------------------------------
(* The policy *)

\* Where a reader is: at step "take" it has matched i characters and is done with
\* node (currentNode); then node is the one it took (lookup), of which it reads the
\* text, the peers and the length of the text again. torn: a split shortened a node
\* that the reader had in hand, or that it took from where the node hung before.
At(q) == [q |-> q, step |-> "take", node |-> Root, i |-> 0, shared |-> 0,
          matched |-> 0, torn |-> FALSE, old |-> {}]

Idle == At(<<>>)

Reading(r) == reader[r].q # <<>>

InHand == {"read", "peers", "next"}

\* The tree reader r walks: the current one, unless it was cleared meanwhile.
Seen(r) == IF reader[r].old = {} THEN tree ELSE CHOOSE t \in reader[r].old : TRUE

\* The node that an insertion of q splits, and after how many characters.
CutNode(q) == Kid(tree, q, Descend(tree, q))

CutAt(q) == Overlap(tree, q, Descend(tree, q))

Cutting(n) == cut = "short" /\ \E x \in mu : n = CutNode(x[1])

\* The texts a reader may find in the node it has in hand. While that is being
\* shortened by k characters it may find the old text, the new one, or the address
\* of one with the length of the other.
Torn(p, k) == {p, From(p, k), SubSeq(p, 1, Len(p) - k)}
                \cup {From(p, k) \o g : g \in [1 .. k -> Chars]}

Texts(r) ==
  LET n == reader[r].node
      p == Seen(r).prefix[n]
  IN  IF reader[r].old = {} /\ Cutting(n)
      THEN UNION {Torn(p, CutAt(x[1])) : x \in mu} ELSE {p}

IsNodes(t) ==
  /\ Root \in NodesOf(t) /\ NodesOf(t) \subseteq Ids \cup {Root}
  /\ t \in [kids   : [NodesOf(t) -> [Chars -> NodesOf(t) \cup {Nil}]],
           prefix : [NodesOf(t) -> Seq(Chars)],
           marks  : [NodesOf(t) -> SUBSET Owners]]

IsReader(x, t) ==
  /\ x \in [q : Prompts \cup {<<>>}, step : InHand \cup {"take", "done"},
            node : NodesOf(t), i : Nat, shared : Nat, matched : Nat,
            torn : BOOLEAN, old : {x.old}]
  /\ x.i <= Len(x.q)
  /\ x.old # {} => IsNodes(t) /\ x.old = {t}

TypeOK ==
  /\ IsNodes(tree)
  /\ mu = {} \/ \E x \in Prompts \X Owners : mu = {x}
  /\ cut \in {"no", "short", "linked"} /\ (mu = {} => cut = "no")
  /\ recorded \subseteq Prompts \X Owners /\ inserts \in 0 .. MaxInserts
  /\ DOMAIN reader = Readers
  /\ \A r \in Readers : IsReader(reader[r], Seen(r))
  /\ known \in [Readers -> SUBSET (Prompts \X Owners)]

Init ==
  /\ tree = Empty /\ mu = {} /\ cut = "no" /\ recorded = {} /\ inserts = 0
  /\ reader = [r \in Readers |-> Idle]
  /\ known = [r \in Readers |-> {}]

\* Insert and InsertLocal take p.mu, then change the tree.
InsertLock(q, o) ==
  /\ mu = {} /\ inserts < MaxInserts
  /\ mu' = {<<q, o>>}
  /\ UNCHANGED <<tree, cut, recorded, inserts, reader, known>>

\* lookup.prefix = oldRemainingPart: the node still hangs where it did.
Shorten ==
  /\ cut = "no"
  /\ \E x \in mu :
       /\ Splits(tree, x[1])
       /\ reader' = [r \in Readers |->
            IF /\ reader[r].step \in InHand /\ reader[r].old = {}
               /\ reader[r].node = CutNode(x[1])
            THEN [reader[r] EXCEPT !.torn = TRUE] ELSE reader[r]]
  /\ cut' = "short"
  /\ UNCHANGED <<tree, mu, recorded, inserts, known>>

\* currentNode.children[currentChar] = newNode
Relink ==
  /\ cut = "short"
  /\ \E x \in mu : tree' = Split(tree, x[1], Descend(tree, x[1]), CutAt(x[1]))
  /\ cut' = "linked"
  /\ UNCHANGED <<mu, recorded, inserts, reader, known>>

InsertApply ==
  /\ cut # "short"
  /\ \E x \in mu : ~Splits(tree, x[1]) /\ tree' = Insert(tree, x[1], x[2])
  /\ recorded' = recorded \cup mu
  /\ known' = [r \in Readers |-> IF Reading(r) THEN known[r] \cup mu ELSE {}]
  /\ inserts' = inserts + 1
  /\ mu' = {} /\ cut' = "no"
  /\ UNCHANGED reader

\* A new root; a reader under way goes on in the tree it started in.
ClearCache ==
  /\ mu = {} /\ recorded # {}
  /\ tree' = Empty /\ recorded' = {}
  /\ reader' = [r \in Readers |->
                  IF Reading(r) THEN [reader[r] EXCEPT !.old = {Seen(r)}]
                  ELSE reader[r]]
  /\ UNCHANGED <<mu, cut, inserts, known>>

ReadStart(r, q) ==
  /\ ~Reading(r)
  /\ reader' = [reader EXCEPT ![r] = At(q)]
  /\ known' = [known EXCEPT ![r] = recorded]
  /\ UNCHANGED <<tree, mu, cut, recorded, inserts>>

\* The iteration of reader r goes on to its next access, and x is what it keeps.
Reads(r, from, x) ==
  /\ Reading(r) /\ reader[r].step = from
  /\ reader' = [reader EXCEPT ![r] = x]
  /\ UNCHANGED <<tree, mu, cut, recorded, inserts, known>>

\* lookup := currentNode.children[currentChar]
ReadTake(r) ==
  LET kid == Kid(Seen(r), reader[r].q, reader[r])
      torn == reader[r].old = {} /\ Cutting(kid)
  IN  /\ kid # Nil
      /\ Reads(r, "take", [reader[r] EXCEPT !.step = "read", !.node = kid,
                                            !.torn = @ \/ torn])

\* Mutant of ReadPrefix: the edge counts as matched to its end.
ReadPrefixWhole(r) ==
  \E p \in Texts(r) :
    Reads(r, "read", [reader[r] EXCEPT !.step = "peers", !.shared = Len(p),
                                       !.i = @ + Len(p)])

\* sharedLen := sharedPrefixLength(remainingText, lookup.prefix)
ReadPrefix(r) ==
  \E p \in Texts(r) :
    LET k == Shared(From(reader[r].q, reader[r].i), p)
    IN  Reads(r, "read", [reader[r] EXCEPT !.step = "peers", !.shared = k,
                                           !.i = @ + k])

\* for _, peer := range lookup.peers
ReadPeers(r) ==
  Reads(r, "peers", [reader[r] EXCEPT !.step = "next",
    !.matched = IF Here \in Seen(r).marks[reader[r].node] THEN reader[r].i ELSE @])

\* if sharedLen < len(lookup.prefix), the text as it is now
ReadNext(r) ==
  \E p \in Texts(r) :
    Reads(r, "next", [reader[r] EXCEPT !.step =
                        IF reader[r].shared < Len(p) THEN "done" ELSE "take"])

ReadDone(r) ==
  /\ Reading(r)
  /\ \/ reader[r].step = "done"
     \/ reader[r].step = "take" /\ Kid(Seen(r), reader[r].q, reader[r]) = Nil
  /\ reader' = [reader EXCEPT ![r] = Idle]
  /\ known' = [known EXCEPT ![r] = {}]
  /\ UNCHANGED <<tree, mu, cut, recorded, inserts>>

Next ==
  \/ \E q \in Prompts : \/ \E o \in Owners : InsertLock(q, o)
                        \/ \E r \in Readers : ReadStart(r, q)
  \/ Shorten \/ Relink \/ InsertApply \/ ClearCache
  \/ \E r \in Readers : \/ ReadTake(r) \/ ReadPrefix(r) \/ ReadPeers(r)
                        \/ ReadNext(r) \/ ReadDone(r)

Spec == Init /\ [][Next]_vars

-----------------------------------------------------------------------------
(* Properties *)

\* The tree is one: edges are not empty and start with the character they are
\* filed under, each node but the root hangs in one place and none is lost.
IsTree ==
  LET edges == {e \in NodesOf(tree) \X Chars : tree.kids[e[1]][e[2]] # Nil}
      end(e) == tree.kids[e[1]][e[2]]
  IN  /\ TypeOK
      /\ \A e \in edges : IsPrefix(<<e[2]>>, tree.prefix[end(e)])
      /\ \A e, f \in edges : end(e) = end(f) => e = f
      /\ {end(e) : e \in edges} = NodesOf(tree) \ {Root}

\* The tree is a set of recorded pairs: no split loses, moves or invents one.
StoresRecorded ==
  \A q \in Prompts, o \in Owners :
    LET at == Descend(tree, q)
    IN  <<q, o>> \in recorded <=> at.i = Len(q) /\ o \in tree.marks[at.node]

\* A match is never longer than what the owner has of the prompt, and a prompt
\* that extends a recorded one matches all of that one.
MatchIsSound ==
  \A q \in Prompts, o \in Owners :
    LET m == Match(tree, q, o)
        own == {p \in Prompts : <<p, o>> \in recorded}
    IN  /\ m > 0 => \E p \in own : Shared(p, q) = m
        /\ \A p \in own : IsPrefix(p, q) => m >= Len(p)

\* The unlocked walk of findLocalPrefixMatch claims what some recorded prompt
\* shares with its own, and no more, whatever is inserted, split and cleared under
\* its feet: only a node that is shortened in its hands (torn) can mislead it.
ReadIsSound ==
  \A r \in Readers :
    Reading(r) /\ ~reader[r].torn /\ reader[r].matched > 0 =>
      \E p \in known[r] :
        p[2] = Here /\ Shared(p[1], reader[r].q) = reader[r].matched

=============================================================================
