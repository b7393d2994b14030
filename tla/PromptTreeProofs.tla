-------------------------- MODULE PromptTreeProofs --------------------------
(***************************************************************************)
(* Theorems about PromptTree, for any prompts, owners and readers: the tree*)
(* stays one under insertions and splits and stores exactly the prompts    *)
(* that were recorded, and what its two look-ups return is true of them,   *)
(* whatever is inserted while one of them walks.                           *)
(***************************************************************************)
EXTENDS PromptTree, TLAPS, WellFoundedInduction

-----------------------------------------------------------------------------
(* Induction and recursion *)

\* The provers cannot instantiate the induction theorems of the library: the
\* arguments by induction below go through sets of numbers.
LEMMA Least ==
  ASSUME NEW T, T \subseteq Nat, T # {}
  PROVE  \E x \in T : \A y \in T : x <= y
  <1>1. IsWellFoundedOn(OpToRel(<, Nat), Nat)
    BY NatLessThanWellFounded, Zenon
  <1>2. PICK x \in T : \A y \in T : ~(<<y, x>> \in OpToRel(<, Nat))
    BY <1>1, WFMin, Zenon
  <1>3. ASSUME NEW y \in T, y < x PROVE FALSE
    <2>1. <<y, x>> \in Nat \X Nat /\ <<y, x>>[1] < <<y, x>>[2]
      BY <1>3
    <2> QED
      BY <1>2, <2>1, Zenon DEF OpToRel
  <1> QED
    BY <1>3

LEMMA UpTo ==
  ASSUME NEW m \in Nat, NEW T, 0 \in T,
         \A k \in 0 .. m : k \in T /\ k < m => k + 1 \in T
  PROVE  0 .. m \subseteq T
  <1> DEFINE Out == (0 .. m) \ T
  <1> SUFFICES ASSUME Out # {} PROVE FALSE
    OBVIOUS
  <1>1. Out \subseteq Nat
    OBVIOUS
  <1>2. PICK x \in Out : \A y \in Out : x <= y
    <2> HIDE DEF Out
    <2> QED
      BY <1>1, Least
  <1>3. x # 0 /\ x - 1 \in 0 .. m /\ x - 1 < m /\ x - 1 \in T
    BY <1>2
  <1> QED
    BY <1>2, <1>3

\* The first k values of f applied over and over to a.
Steps(S, f, a, k) ==
  {g \in [0 .. k -> S] : g[0] = a /\ \A j \in 1 .. k : g[j] = f[g[j - 1]]}

LEMMA Iterates ==
  ASSUME NEW S, NEW f \in [S -> S], NEW a \in S, NEW m \in Nat
  PROVE  Steps(S, f, a, m) # {}
  <1> DEFINE T == {k \in 0 .. m : Steps(S, f, a, k) # {}}
  <1>1. 0 \in T
    <2>1. [k \in 0 .. 0 |-> a] \in Steps(S, f, a, 0)
      BY DEF Steps
    <2> QED
      BY <2>1
  <1>2. ASSUME NEW k \in 0 .. m, k \in T, k < m PROVE k + 1 \in T
    <2>1. PICK g \in Steps(S, f, a, k) : TRUE
      BY <1>2
    <2> DEFINE h == [j \in 0 .. k + 1 |-> IF j = k + 1 THEN f[g[k]] ELSE g[j]]
    <2>2. g \in [0 .. k -> S] /\ g[0] = a /\ \A j \in 1 .. k : g[j] = f[g[j - 1]]
      BY DEF Steps
    <2>3. h \in [0 .. k + 1 -> S]
      BY <2>2
    <2>4. h[0] = a /\ \A j \in 1 .. k + 1 : h[j] = f[h[j - 1]]
      BY <2>2
    <2> HIDE DEF h
    <2>5. h \in Steps(S, f, a, k + 1) /\ k + 1 \in 0 .. m
      BY <1>2, <2>3, <2>4 DEF Steps
    <2> QED
      BY <2>5
  <1>3. m \in T
    <2> HIDE DEF T
    <2> QED
      BY <1>1, <1>2, UpTo
  <1> QED
    BY <1>3

\* Descent and Walk are defined, as their steps stay in S.
LEMMA DescentIs ==
  ASSUME NEW t, NEW q \in Seq(Chars), NEW S, Top \in S,
         \A at \in S : Follow(t, q, at) \in S
  PROVE  /\ Descent(t, q) \in [0 .. Len(q) -> S]
         /\ Descent(t, q)[0] = Top
         /\ \A k \in 1 .. Len(q) :
              Descent(t, q)[k] = Follow(t, q, Descent(t, q)[k - 1])
  <1> DEFINE D(g) == [k \in 0 .. Len(q) |->
                        IF k = 0 THEN Top ELSE Follow(t, q, g[k - 1])]
             d == Descent(t, q)
  <1>0. Len(q) \in Nat
    OBVIOUS
  <1>1. PICK f \in [S -> S] : \A at \in S : f[at] = Follow(t, q, at)
    <2>1. [at \in S |-> Follow(t, q, at)] \in [S -> S]
      OBVIOUS
    <2> QED
      BY <2>1
  <1>2. PICK g \in [0 .. Len(q) -> S] :
          g[0] = Top /\ \A k \in 1 .. Len(q) : g[k] = f[g[k - 1]]
    <2>1. Steps(S, f, Top, Len(q)) # {}
      BY <1>0, Iterates
    <2> QED
      BY <2>1 DEF Steps
  <1>3. \A k \in 1 .. Len(q) : g[k] = Follow(t, q, g[k - 1])
    BY <1>1, <1>2
  <1>4. g = D(g)
    BY <1>1, <1>2, <1>3
  <1>5. d = D(d)
    BY <1>4, Zenon DEF Descent
  <1> HIDE DEF d
  <1>6. d[0] = Top /\ \A k \in 1 .. Len(q) : d[k] = Follow(t, q, d[k - 1])
    BY <1>0, <1>5
  <1> DEFINE T == {k \in 0 .. Len(q) : d[k] \in S}
  <1>7. 0 .. Len(q) \subseteq T
    <2>1. 0 \in T
      BY <1>1, <1>6
    <2>2. ASSUME NEW k \in 0 .. Len(q), k \in T, k < Len(q) PROVE k + 1 \in T
      <3>1. k + 1 \in 1 .. Len(q) /\ (k + 1) - 1 = k
        BY <1>1, <2>2
      <3> QED
        BY <1>6, <2>2, <3>1
    <2> HIDE DEF T
    <2> QED
      BY <1>0, <2>1, <2>2, UpTo
  <1>8. d \in [0 .. Len(q) -> S]
    BY <1>5, <1>7
  <1> QED
    BY <1>6, <1>8 DEF d

LEMMA WalkIs ==
  ASSUME NEW t, NEW o, NEW q \in Seq(Chars), NEW S, Start \in S,
         \A at \in S : Advance(t, q, at, o) \in S
  PROVE  /\ Walk(t, q, o) \in [0 .. Len(q) -> S]
         /\ Walk(t, q, o)[0] = Start
         /\ \A k \in 1 .. Len(q) :
              Walk(t, q, o)[k] = Advance(t, q, Walk(t, q, o)[k - 1], o)
  <1> DEFINE D(g) == [k \in 0 .. Len(q) |->
                        IF k = 0 THEN Start ELSE Advance(t, q, g[k - 1], o)]
             d == Walk(t, q, o)
  <1>0. Len(q) \in Nat
    OBVIOUS
  <1>1. PICK f \in [S -> S] : \A at \in S : f[at] = Advance(t, q, at, o)
    <2>1. [at \in S |-> Advance(t, q, at, o)] \in [S -> S]
      OBVIOUS
    <2> QED
      BY <2>1
  <1>2. PICK g \in [0 .. Len(q) -> S] :
          g[0] = Start /\ \A k \in 1 .. Len(q) : g[k] = f[g[k - 1]]
    <2>1. Steps(S, f, Start, Len(q)) # {}
      BY <1>0, Iterates
    <2> QED
      BY <2>1 DEF Steps
  <1>3. \A k \in 1 .. Len(q) : g[k] = Advance(t, q, g[k - 1], o)
    BY <1>1, <1>2
  <1>4. g = D(g)
    BY <1>1, <1>2, <1>3
  <1>5. d = D(d)
    BY <1>4, Zenon DEF Walk
  <1> HIDE DEF d
  <1>6. d[0] = Start /\ \A k \in 1 .. Len(q) : d[k] = Advance(t, q, d[k - 1], o)
    BY <1>0, <1>5
  <1> DEFINE T == {k \in 0 .. Len(q) : d[k] \in S}
  <1>7. 0 .. Len(q) \subseteq T
    <2>1. 0 \in T
      BY <1>1, <1>6
    <2>2. ASSUME NEW k \in 0 .. Len(q), k \in T, k < Len(q) PROVE k + 1 \in T
      <3>1. k + 1 \in 1 .. Len(q) /\ (k + 1) - 1 = k
        BY <1>1, <2>2
      <3> QED
        BY <1>6, <2>2, <3>1
    <2> HIDE DEF T
    <2> QED
      BY <1>0, <2>1, <2>2, UpTo
  <1>8. d \in [0 .. Len(q) -> S]
    BY <1>5, <1>7
  <1> QED
    BY <1>6, <1>8 DEF d

-----------------------------------------------------------------------------
(* Sequences of characters *)

LEMMA FromFacts ==
  ASSUME NEW s \in Seq(Chars), NEW i \in 0 .. Len(s)
  PROVE  /\ From(s, i) \in Seq(Chars) /\ Len(From(s, i)) = Len(s) - i
         /\ \A j \in 1 .. Len(s) - i : From(s, i)[j] = s[i + j]
  BY DEF From

LEMMA HeadFacts ==
  ASSUME NEW s \in Seq(Chars), NEW i \in 0 .. Len(s)
  PROVE  /\ SubSeq(s, 1, i) \in Seq(Chars) /\ Len(SubSeq(s, 1, i)) = i
         /\ \A j \in 1 .. i : SubSeq(s, 1, i)[j] = s[j]
  OBVIOUS

\* s and u agree on their first k characters.
Agree(s, u, k) ==
  k <= Len(s) /\ k <= Len(u) /\ \A j \in 1 .. k : s[j] = u[j]

\* They agree on k, and no further.
Parts(s, u, k) ==
  Agree(s, u, k) /\ (k < Len(s) /\ k < Len(u) => s[k + 1] # u[k + 1])

\* w is v followed by p.
Joins(v, p, w) ==
  /\ Len(w) = Len(v) + Len(p)
  /\ \A j \in 1 .. Len(v) : w[j] = v[j]
  /\ \A j \in 1 .. Len(p) : w[Len(v) + j] = p[j]

LEMMA HeadAgrees ==
  ASSUME NEW s \in Seq(Chars), NEW u \in Seq(Chars), NEW k \in 0 .. Len(s)
  PROVE  IsPrefix(SubSeq(s, 1, k), u) <=> Agree(s, u, k)
  BY HeadFacts DEF IsPrefix, Agree

LEMMA SharedFacts ==
  ASSUME NEW s \in Seq(Chars), NEW u \in Seq(Chars)
  PROVE  Shared(s, u) \in 0 .. Len(s) /\ Parts(s, u, Shared(s, u))
  <1> DEFINE Stop == {k \in 0 .. Len(s) : k < Len(s) => ~Agree(s, u, k + 1)}
             n == Len(s)
  <1>1. n \in Nat /\ Len(u) \in Nat /\ n \in Stop /\ Stop \subseteq Nat
    OBVIOUS
  <1>2. PICK k \in Stop : \A j \in Stop : k <= j
    <2> HIDE DEF Stop
    <2> QED
      BY <1>1, Least
  <1>3. Agree(s, u, k)
    <2>1. CASE k = 0
      BY <1>1, <2>1 DEF Agree
    <2>2. CASE k # 0
      <3>1. k - 1 \in 0 .. n /\ k - 1 < n /\ (k - 1) + 1 = k
        BY <1>1, <2>2
      <3>2. k - 1 \notin Stop
        BY <1>1, <1>2, <3>1
      <3> QED
        BY <3>1, <3>2
    <2> QED
      BY <2>1, <2>2
  <1>4. /\ IsPrefix(SubSeq(s, 1, k), u)
        /\ k < n => ~IsPrefix(SubSeq(s, 1, k + 1), u)
    BY <1>1, <1>2, <1>3, HeadAgrees
  <1>5. /\ Shared(s, u) \in 0 .. n /\ IsPrefix(SubSeq(s, 1, Shared(s, u)), u)
        /\ Shared(s, u) < n => ~IsPrefix(SubSeq(s, 1, Shared(s, u) + 1), u)
    BY <1>4, Zenon DEF Shared
  <1> HIDE DEF Stop
  <1>6. /\ Agree(s, u, Shared(s, u))
        /\ Shared(s, u) < n => ~Agree(s, u, Shared(s, u) + 1)
    BY <1>1, <1>5, HeadAgrees
  <1>7. Shared(s, u) < n /\ Shared(s, u) < Len(u) =>
          s[Shared(s, u) + 1] # u[Shared(s, u) + 1]
    BY <1>1, <1>5, <1>6 DEF Agree
  <1> QED
    BY <1>5, <1>6, <1>7 DEF Parts

LEMMA SharedIs ==
  ASSUME NEW s \in Seq(Chars), NEW u \in Seq(Chars), NEW k \in Nat,
         Parts(s, u, k)
  PROVE  Shared(s, u) = k
  <1>1. Shared(s, u) \in Nat /\ Parts(s, u, Shared(s, u)) /\ Len(s) \in Nat
    BY SharedFacts
  <1>2. ASSUME NEW i \in Nat, NEW j \in Nat, Parts(s, u, i), Parts(s, u, j), i < j
        PROVE  FALSE
    BY <1>2 DEF Parts, Agree
  <1> QED
    BY <1>1, <1>2

LEMMA SharedIsMost ==
  ASSUME NEW s \in Seq(Chars), NEW u \in Seq(Chars), NEW k \in Nat,
         Agree(s, u, k)
  PROVE  Shared(s, u) >= k
  <1>1. Shared(s, u) \in Nat /\ Parts(s, u, Shared(s, u))
    BY SharedFacts
  <1> QED
    BY <1>1 DEF Parts, Agree

-----------------------------------------------------------------------------
(* The words of a tree *)

\* W gives each node of t the characters on the way to it.
Edge(t, W, n, c) ==
  LET kid == t.kids[n][c]
  IN  kid # Nil => /\ t.prefix[kid] # <<>> /\ t.prefix[kid][1] = c
                   /\ Joins(W[n], t.prefix[kid], W[kid])

Spells(t, W) ==
  /\ W \in [NodesOf(t) -> Seq(Chars)] /\ W[Root] = <<>>
  /\ \A n \in NodesOf(t), c \in Chars : Edge(t, W, n, c)
  /\ \A m \in NodesOf(t) \ {Root} :
       \E n \in NodesOf(t), c \in Chars : t.kids[n][c] = m

\* The marks of t are those of the pairs in R.
Marked(t, W, R) ==
  /\ \A n \in NodesOf(t) : \A o \in t.marks[n] : <<W[n], o>> \in R
  /\ \A x \in R : \E n \in NodesOf(t) : W[n] = x[1] /\ x[2] \in t.marks[n]

\* A walk for q has come to the end of the edge to at.node.
Reaches(t, W, q, at) ==
  /\ at.node \in NodesOf(t) /\ at.i = Len(W[at.node])
  /\ Agree(W[at.node], q, at.i)

LEMMA NilIsNoNode ==
  ASSUME NEW t, IsNodes(t)
  PROVE  /\ Nil \notin NodesOf(t)
         /\ \A n \in NodesOf(t), c \in Chars :
              t.kids[n][c] # Nil => t.kids[n][c] \in NodesOf(t)
  BY TreeAssumption DEF TreeAssumption, IsNodes

\* What the next edge and the characters on it are to such a walk.
NextEdge(t, W, q, at) ==
  LET kid == Kid(t, q, at)
      p == t.prefix[kid]
      k == Overlap(t, q, at)
  IN  /\ at.i \in Nat /\ at.i < Len(q) /\ q[at.i + 1] \in Chars
      /\ kid = t.kids[at.node][q[at.i + 1]] /\ kid \in NodesOf(t) \ {Root}
      /\ p \in Seq(Chars) /\ Len(p) \in Nat \ {0} /\ p[1] = q[at.i + 1]
      /\ W[kid] \in Seq(Chars) /\ Len(W[kid]) = at.i + Len(p)
      /\ Joins(W[at.node], p, W[kid])
      /\ k \in 1 .. Len(p) /\ at.i + k <= Len(q)
      /\ Agree(W[kid], q, at.i + k)
      /\ k < Len(p) /\ at.i + k < Len(q) => p[k + 1] # q[at.i + k + 1]
      /\ Parts(W[kid], q, at.i + k)

\* A text p on the way to the word w, i characters of which agree with q.
OnEdge(w, p, q, i) ==
  /\ w \in Seq(Chars) /\ p \in Seq(Chars) /\ i \in Nat
  /\ Len(w) = i + Len(p) /\ Agree(w, q, i)
  /\ \A j \in 1 .. Len(p) : w[i + j] = p[j]

\* As much of p as q goes on with is what w and q share.
LEMMA EdgeShares ==
  ASSUME NEW w, NEW p, NEW q \in Seq(Chars), NEW i, OnEdge(w, p, q, i),
         NEW k, k = Shared(From(q, i), p)
  PROVE  /\ k \in 0 .. Len(p) /\ i + k <= Len(q)
         /\ Agree(w, q, i + k) /\ Parts(w, q, i + k)
         /\ k < Len(p) /\ i + k < Len(q) => p[k + 1] # q[i + k + 1]
  <1>0. PICK rest : rest = From(q, i)
    OBVIOUS
  <1>1. /\ w \in Seq(Chars) /\ p \in Seq(Chars) /\ i \in Nat /\ Len(p) \in Nat
        /\ Len(w) = i + Len(p) /\ \A j \in 1 .. Len(p) : w[i + j] = p[j]
        /\ Len(q) \in Nat /\ i <= Len(q) /\ \A j \in 1 .. i : w[j] = q[j]
    BY DEF OnEdge, Agree
  <1>2. /\ rest \in Seq(Chars) /\ Len(rest) = Len(q) - i
        /\ \A j \in 1 .. Len(q) - i : rest[j] = q[i + j]
    <2>1. i \in 0 .. Len(q)
      BY <1>1
    <2> QED
      BY <1>0, <2>1, FromFacts
  <1>3. k \in 0 .. Len(rest) /\ Parts(rest, p, k)
    BY <1>0, <1>1, <1>2, SharedFacts
  <1>4. k \in 0 .. Len(p) /\ i + k <= Len(q) /\ k \in Nat
    <2>1. k <= Len(rest) /\ k <= Len(p) /\ k \in Nat
      BY <1>2, <1>3 DEF Parts, Agree
    <2> QED
      BY <1>1, <1>2, <2>1
  <1>5. Agree(w, q, i + k)
    <2>1. \A j \in 1 .. k : p[j] = q[i + j]
      BY <1>1, <1>2, <1>3, <1>4 DEF Parts, Agree
    <2>2. ASSUME NEW j \in 1 .. i + k PROVE w[j] = q[j]
      <3>1. CASE j <= i
        BY <1>1, <1>4, <3>1
      <3>2. CASE j > i
        <4>1. j - i \in 1 .. k /\ i + (j - i) = j /\ j - i \in 1 .. Len(p)
          BY <1>1, <1>4, <3>2
        <4> QED
          BY <1>1, <2>1, <4>1
      <3> QED
        BY <1>1, <1>4, <3>1, <3>2
    <2> QED
      BY <1>1, <1>4, <2>2 DEF Agree
  <1>6. k < Len(p) /\ i + k < Len(q) => p[k + 1] # q[i + k + 1]
    <2> SUFFICES ASSUME k < Len(p), i + k < Len(q) PROVE p[k + 1] # q[i + k + 1]
      OBVIOUS
    <2>1. k + 1 \in 1 .. Len(q) - i /\ i + (k + 1) = i + k + 1
      BY <1>1, <1>4
    <2>2. k < Len(rest)
      BY <1>1, <1>2, <1>4
    <2>3. rest[k + 1] # p[k + 1] /\ rest[k + 1] = q[i + k + 1]
      BY <1>2, <1>3, <2>1, <2>2 DEF Parts
    <2> QED
      BY <2>3
  <1>7. Parts(w, q, i + k)
    <2> SUFFICES ASSUME i + k < Len(w), i + k < Len(q)
                 PROVE  w[i + k + 1] # q[i + k + 1]
      BY <1>5 DEF Parts
    <2>1. k + 1 \in 1 .. Len(p) /\ k < Len(p) /\ i + (k + 1) = i + k + 1
      BY <1>1, <1>4
    <2> QED
      BY <1>1, <1>6, <2>1
  <1> QED
    BY <1>4, <1>5, <1>6, <1>7

LEMMA EdgeAhead ==
  ASSUME NEW t, IsNodes(t), NEW W, Spells(t, W), NEW q \in Seq(Chars),
         NEW at, Reaches(t, W, q, at), Kid(t, q, at) # Nil
  PROVE  NextEdge(t, W, q, at)
  <1>0. PICK n, i, kid, p, rest, k :
             /\ n = at.node /\ i = at.i /\ kid = Kid(t, q, at) /\ p = t.prefix[kid]
             /\ rest = From(q, i) /\ k = Overlap(t, q, at)
    OBVIOUS
  <1>1. /\ n \in NodesOf(t) /\ W[n] \in Seq(Chars) /\ i = Len(W[n]) /\ i \in Nat
        /\ Len(q) \in Nat /\ Agree(W[n], q, i)
    BY <1>0 DEF Reaches, Spells
  <1>2. i < Len(q) /\ kid = t.kids[n][q[i + 1]] /\ q[i + 1] \in Chars /\ kid # Nil
    BY <1>0, <1>1 DEF Kid
  <1>3. /\ kid \in NodesOf(t) /\ p \in Seq(Chars) /\ W[kid] \in Seq(Chars)
    BY <1>0, <1>1, <1>2, NilIsNoNode DEF IsNodes, Spells
  <1>4. p # <<>> /\ p[1] = q[i + 1] /\ Joins(W[n], p, W[kid])
    <2>1. Edge(t, W, n, q[i + 1])
      BY <1>1, <1>2 DEF Spells
    <2> QED
      BY <1>0, <1>2, <2>1 DEF Edge
  <1>5. /\ Len(p) \in Nat \ {0} /\ Len(W[kid]) = i + Len(p)
        /\ \A j \in 1 .. i : W[kid][j] = W[n][j]
        /\ \A j \in 1 .. Len(p) : W[kid][i + j] = p[j]
    BY <1>1, <1>3, <1>4 DEF Joins
  <1>6. kid # Root
    BY <1>1, <1>5 DEF Spells
  <1>7. OnEdge(W[kid], p, q, i)
    <2>1. Agree(W[kid], q, i)
      BY <1>1, <1>5 DEF Agree
    <2> QED
      BY <1>1, <1>3, <1>5, <2>1 DEF OnEdge
  <1>8. k = Shared(rest, p)
    BY <1>0 DEF Overlap
  <1>9. /\ k \in 0 .. Len(p) /\ i + k <= Len(q)
        /\ Agree(W[kid], q, i + k) /\ Parts(W[kid], q, i + k)
        /\ k < Len(p) /\ i + k < Len(q) => p[k + 1] # q[i + k + 1]
    BY <1>0, <1>7, <1>8, EdgeShares
  <1>10. k # 0
    <2>1. 0 < Len(p) /\ i + 0 < Len(q) /\ 0 + 1 = 1 /\ i + 0 + 1 = i + 1
      BY <1>1, <1>2, <1>5
    <2> QED
      BY <1>4, <1>9, <2>1
  <1>11. k \in 1 .. Len(p)
    BY <1>5, <1>9, <1>10
  <1> QED
    BY <1>0, <1>1, <1>2, <1>3, <1>4, <1>5, <1>6, <1>9, <1>11 DEF NextEdge

-----------------------------------------------------------------------------
(* Where insertIntoGORGOTree arrives *)

Places(t) == [node : NodesOf(t), i : Nat]

LEMMA FollowFacts ==
  ASSUME NEW t, IsNodes(t), NEW W, Spells(t, W), NEW q \in Seq(Chars),
         NEW at \in Places(t), Reaches(t, W, q, at)
  PROVE  /\ Follow(t, q, at) \in Places(t) /\ Reaches(t, W, q, Follow(t, q, at))
         /\ Follow(t, q, at) = at \/ Follow(t, q, at).i > at.i
  <1>0. PICK kid, p : kid = Kid(t, q, at) /\ p = t.prefix[kid]
    OBVIOUS
  <1>1. CASE kid # Nil /\ Overlap(t, q, at) = Len(p)
    <2>1. NextEdge(t, W, q, at)
      BY <1>0, <1>1, EdgeAhead
    <2>2. /\ at.i \in Nat /\ kid \in NodesOf(t) /\ Len(p) \in Nat \ {0}
          /\ Len(W[kid]) = at.i + Len(p) /\ Agree(W[kid], q, at.i + Len(p))
      BY <1>0, <1>1, <2>1 DEF NextEdge
    <2>3. Follow(t, q, at) = [node |-> kid, i |-> at.i + Len(p)]
      BY <1>0, <1>1 DEF Follow
    <2> QED
      BY <2>2, <2>3 DEF Places, Reaches
  <1>2. CASE ~(kid # Nil /\ Overlap(t, q, at) = Len(p))
    BY <1>0, <1>2 DEF Follow
  <1> QED
    BY <1>1, <1>2

LEMMA TopReaches ==
  ASSUME NEW t, IsNodes(t), NEW W, Spells(t, W), NEW q \in Seq(Chars)
  PROVE  Top \in Places(t) /\ Reaches(t, W, q, Top)
  BY DEF Top, IsNodes, Spells, Reaches, Places, Agree

\* The positions of a walk that hold on.
Ways(t, W, q) == {at \in Places(t) : Reaches(t, W, q, at)}

LEMMA DescentFacts ==
  ASSUME NEW t, IsNodes(t), NEW W, Spells(t, W), NEW q \in Seq(Chars)
  PROVE  /\ Descent(t, q) \in [0 .. Len(q) -> Ways(t, W, q)]
         /\ Descent(t, q)[0] = Top
         /\ \A k \in 1 .. Len(q) :
              Descent(t, q)[k] = Follow(t, q, Descent(t, q)[k - 1])
  <1>1. Top \in Ways(t, W, q)
    BY TopReaches DEF Ways
  <1>2. \A at \in Ways(t, W, q) : Follow(t, q, at) \in Ways(t, W, q)
    BY FollowFacts DEF Ways
  <1> QED
    BY <1>1, <1>2, DescentIs

\* It has stopped where no edge is left, or only a part of one fits.
LEMMA DescendStops ==
  ASSUME NEW t, IsNodes(t), NEW W, Spells(t, W), NEW q \in Seq(Chars),
         NEW at, at = Descend(t, q)
  PROVE  /\ at \in Places(t) /\ Reaches(t, W, q, at) /\ at.i <= Len(q)
         /\ at.i = Len(q) => Kid(t, q, at) = Nil
         /\ Kid(t, q, at) # Nil =>
              Overlap(t, q, at) # Len(t.prefix[Kid(t, q, at)])
  <1> DEFINE Stuck(x) == Follow(t, q, x) = x
             T == {k \in 0 .. Len(q) : Descent(t, q)[k].i >= k
                                       \/ Stuck(Descent(t, q)[k])}
  <1>0. PICK d : d = Descent(t, q)
    OBVIOUS
  <1>1. /\ d \in [0 .. Len(q) -> Ways(t, W, q)] /\ d[0] = Top
        /\ \A k \in 1 .. Len(q) : d[k] = Follow(t, q, d[k - 1])
    BY <1>0, DescentFacts
  <1>2. Len(q) \in Nat
    OBVIOUS
  <1>3. 0 \in T
    BY <1>0, <1>1, <1>2 DEF Top
  <1>4. ASSUME NEW k \in 0 .. Len(q), k \in T, k < Len(q) PROVE k + 1 \in T
    <2>1. /\ k + 1 \in 0 .. Len(q) /\ k \in 0 .. Len(q)
          /\ d[k + 1] = Follow(t, q, d[k]) /\ d[k] \in Ways(t, W, q)
      <3>1. k + 1 \in 1 .. Len(q) /\ (k + 1) - 1 = k
        BY <1>2, <1>4
      <3> QED
        BY <1>1, <1>2, <3>1
    <2>2. CASE Stuck(d[k])
      BY <1>0, <2>1, <2>2
    <2>3. CASE d[k].i >= k /\ ~Stuck(d[k])
      <3>1. d[k + 1].i > d[k].i /\ d[k].i \in Nat
        BY <2>1, <2>3, FollowFacts DEF Ways, Places
      <3>2. d[k + 1].i \in Nat
        BY <1>1, <2>1 DEF Ways, Places
      <3> QED
        BY <1>0, <2>1, <2>3, <3>1, <3>2
    <2> QED
      BY <1>0, <1>4, <2>2, <2>3
  <1>5. Len(q) \in T
    <2> HIDE DEF T
    <2>1. 0 .. Len(q) \subseteq T
      BY <1>2, <1>3, <1>4, UpTo
    <2> QED
      BY <1>2, <2>1
  <1>6. /\ at = d[Len(q)] /\ at \in Places(t) /\ Reaches(t, W, q, at)
        /\ at.i \in Nat
    BY <1>0, <1>1, <1>2 DEF Descend, Ways, Places
  <1>7. at.i <= Len(q)
    BY <1>6 DEF Reaches, Agree
  <1>8. at.i = Len(q) => Kid(t, q, at) = Nil
    BY <1>2 DEF Kid
  <1>9. ASSUME Kid(t, q, at) # Nil,
               Overlap(t, q, at) = Len(t.prefix[Kid(t, q, at)])
        PROVE  FALSE
    <2>1. NextEdge(t, W, q, at)
      BY <1>6, <1>9, EdgeAhead
    <2>2. Len(t.prefix[Kid(t, q, at)]) \in Nat \ {0} /\ at.i < Len(q)
      BY <2>1 DEF NextEdge
    <2>3. Follow(t, q, at).i = at.i + Len(t.prefix[Kid(t, q, at)])
      BY <1>9 DEF Follow
    <2> QED
      BY <1>0, <1>2, <1>5, <1>6, <2>2, <2>3
  <1> QED
    BY <1>6, <1>7, <1>8, <1>9

\* An edge whose characters are those of q is taken to its end.
LEMMA FitsWholly ==
  ASSUME NEW t, IsNodes(t), NEW W, Spells(t, W), NEW q \in Seq(Chars),
         NEW at, Reaches(t, W, q, at), NEW m \in NodesOf(t), NEW c \in Chars,
         t.kids[at.node][c] = m, Agree(W[m], q, Len(W[m]))
  PROVE  /\ Kid(t, q, at) = m /\ Overlap(t, q, at) = Len(t.prefix[m])
         /\ Len(t.prefix[m]) \in Nat \ {0} /\ at.i \in Nat
         /\ Len(W[m]) = at.i + Len(t.prefix[m]) /\ Len(W[m]) <= Len(q)
  <1>0. PICK n, i, p : n = at.node /\ i = at.i /\ p = t.prefix[m]
    OBVIOUS
  <1>1. /\ n \in NodesOf(t) /\ W[n] \in Seq(Chars) /\ i = Len(W[n]) /\ i \in Nat
        /\ W[m] \in Seq(Chars) /\ p \in Seq(Chars)
    BY <1>0 DEF Reaches, Spells, IsNodes
  <1>2. m # Nil
    BY NilIsNoNode
  <1>3. p # <<>> /\ p[1] = c /\ Joins(W[n], p, W[m])
    <2>1. Edge(t, W, n, c)
      BY <1>1 DEF Spells
    <2> QED
      BY <1>0, <1>2, <2>1 DEF Edge
  <1>4. /\ Len(p) \in Nat \ {0} /\ Len(W[m]) = i + Len(p)
        /\ \A j \in 1 .. Len(p) : W[m][i + j] = p[j]
    BY <1>1, <1>3 DEF Joins
  <1>5. /\ i + Len(p) <= Len(q) /\ Len(q) \in Nat
        /\ \A j \in 1 .. i + Len(p) : W[m][j] = q[j]
    BY <1>4 DEF Agree
  <1>6. i < Len(q) /\ q[i + 1] = c
    <2>1. i + 1 \in 1 .. i + Len(p) /\ 1 \in 1 .. Len(p) /\ i < Len(q)
      BY <1>1, <1>4, <1>5
    <2> QED
      BY <1>3, <1>4, <1>5, <2>1
  <1>7. Kid(t, q, at) = m
    BY <1>0, <1>6 DEF Kid
  <1>8. NextEdge(t, W, q, at)
    BY <1>2, <1>7, EdgeAhead
  <1>9. PICK k : k = Overlap(t, q, at)
    OBVIOUS
  <1>10. /\ k \in 1 .. Len(p) /\ i + k <= Len(q)
         /\ k < Len(p) /\ i + k < Len(q) => p[k + 1] # q[i + k + 1]
    BY <1>0, <1>7, <1>8, <1>9 DEF NextEdge
  <1>11. k = Len(p)
    <2> SUFFICES ASSUME k < Len(p) PROVE FALSE
      BY <1>4, <1>10
    <2>0. k \in Nat /\ i \in Nat /\ Len(p) \in Nat
      BY <1>1, <1>4, <1>10
    <2>1. /\ k + 1 \in 1 .. Len(p) /\ i + (k + 1) = i + k + 1
          /\ i + k + 1 \in 1 .. i + Len(p)
      BY <2>0
    <2>2. p[k + 1] = q[i + k + 1]
      BY <1>4, <1>5, <2>1
    <2>3. i + k < Len(q)
      BY <1>5, <2>0
    <2> QED
      BY <1>10, <2>2, <2>3
  <1> QED
    BY <1>0, <1>1, <1>4, <1>5, <1>7, <1>9, <1>11

\* A node at the end of an edge all characters of which fit q.
Fits(t, W, q, p, m) ==
  LET at == [node |-> p, i |-> Len(W[p])]
  IN  /\ Reaches(t, W, q, at) /\ Kid(t, q, at) = m /\ m # Nil
      /\ Overlap(t, q, at) = Len(t.prefix[m])
      /\ Len(W[m]) = Len(W[p]) + Len(t.prefix[m])
      /\ Len(W[p]) \in Nat /\ Len(W[m]) \in Nat
      /\ Len(W[p]) < Len(W[m]) /\ Len(W[m]) <= Len(q)

\* A set with all nodes whose word q starts with, but for the root and some M,
\* lacks one below a node that it has.
LEMMA FirstMissed ==
  ASSUME NEW t, IsNodes(t), NEW W, Spells(t, W), NEW q \in Seq(Chars),
         NEW M, M \subseteq NodesOf(t) \ {Root}, M # {},
         \A m \in M : Agree(W[m], q, Len(W[m]))
  PROVE  \E m \in M, p \in NodesOf(t) \ M :
           Agree(W[p], q, Len(W[p])) /\ Fits(t, W, q, p, m)
  <1> DEFINE Far == {Len(W[m]) : m \in M}
  <1>1. \A m \in NodesOf(t) : W[m] \in Seq(Chars) /\ Len(W[m]) \in Nat
    BY DEF Spells
  <1>2. Len(q) \in Nat
    OBVIOUS
  <1>3. PICK m \in M : \A x \in M : Len(W[m]) <= Len(W[x])
    <2>1. Far # {} /\ Far \subseteq Nat
      BY <1>1
    <2>2. PICK l \in Far : \A x \in Far : l <= x
      <3> HIDE DEF Far
      <3> QED
        BY <2>1, Least
    <2> QED
      BY <2>2
  <1>4. m \in NodesOf(t) \ {Root} /\ Agree(W[m], q, Len(W[m]))
    BY <1>3
  <1>6. PICK p \in NodesOf(t), c \in Chars : t.kids[p][c] = m
    BY <1>4 DEF Spells
  <1>7. Edge(t, W, p, c) /\ m # Nil
    BY <1>4, NilIsNoNode DEF Spells
  <1>8. /\ Joins(W[p], t.prefix[m], W[m]) /\ t.prefix[m] # <<>>
        /\ t.prefix[m] \in Seq(Chars)
    BY <1>4, <1>6, <1>7 DEF Edge, IsNodes
  <1>l. PICK lp, lm : lp = Len(W[p]) /\ lm = Len(W[m])
    OBVIOUS
  <1>9. lp \in Nat /\ lm \in Nat /\ lp < lm /\ lm <= Len(q) /\ Agree(W[p], q, lp)
    <2>1. Len(t.prefix[m]) \in Nat \ {0} /\ lm = lp + Len(t.prefix[m])
      BY <1>8, <1>l DEF Joins
    <2>2. lp \in Nat /\ lm \in Nat /\ lm <= Len(q)
      BY <1>1, <1>4, <1>l DEF Agree
    <2>3. lp < lm /\ lp <= Len(q)
      BY <1>2, <2>1, <2>2
    <2>4. \A j \in 1 .. lp : W[p][j] = q[j]
      <3>1. \A j \in 1 .. lp : j \in 1 .. lm
        BY <2>2, <2>3
      <3> QED
        BY <1>4, <1>8, <1>l, <3>1 DEF Agree, Joins
    <2> QED
      BY <1>l, <2>2, <2>3, <2>4 DEF Agree
  <1>10. p \notin M
    <2>1. ~(lm <= lp)
      BY <1>9
    <2> QED
      BY <1>3, <1>l, <2>1
  <1>12. PICK at : at = [node |-> p, i |-> lp]
    OBVIOUS
  <1>13. Reaches(t, W, q, at) /\ at.node = p /\ at.i = lp
    BY <1>6, <1>9, <1>12, <1>l DEF Reaches
  <1>14. /\ Kid(t, q, at) = m /\ Overlap(t, q, at) = Len(t.prefix[m])
         /\ lm = lp + Len(t.prefix[m])
    <2>1. t.kids[at.node][c] = m
      BY <1>6, <1>13
    <2>2. lm = at.i + Len(t.prefix[m])
      BY <1>8, <1>13, <1>l DEF Joins
    <2> QED
      BY <1>4, <1>13, <2>1, <2>2, FitsWholly
  <1>15. Fits(t, W, q, p, m)
    BY <1>7, <1>9, <1>12, <1>13, <1>14, <1>l DEF Fits
  <1> QED
    BY <1>6, <1>9, <1>10, <1>15, <1>l

\* A walk for q comes by every node whose word q starts with.
LEMMA ComesBy ==
  ASSUME NEW t, IsNodes(t), NEW W, Spells(t, W), NEW q \in Seq(Chars),
         NEW n \in NodesOf(t), Agree(W[n], q, Len(W[n]))
  PROVE  \E k \in 0 .. Len(W[n]) :
           k <= Len(q) /\ Descent(t, q)[k] = [node |-> n, i |-> Len(W[n])]
  <1> DEFINE Met(m) == \E k \in 0 .. Len(W[m]) : k <= Len(q) /\
               Descent(t, q)[k] = [node |-> m, i |-> Len(W[m])]
             Missed == {m \in NodesOf(t) : Agree(W[m], q, Len(W[m])) /\ ~Met(m)}
  <1>1. Len(q) \in Nat
    OBVIOUS
  <1>2. Met(Root)
    <2>1. Descent(t, q)[0] = Top /\ W[Root] = <<>>
      BY DescentFacts DEF Spells
    <2>2. Descent(t, q)[0] = [node |-> Root, i |-> Len(W[Root])]
      BY <2>1 DEF Top
    <2>3. 0 \in 0 .. Len(W[Root])
      BY <2>1
    <2> QED
      BY <1>1, <2>2, <2>3
  <1> SUFFICES ASSUME Missed # {} PROVE FALSE
    OBVIOUS
  <1>3. Missed \subseteq NodesOf(t) \ {Root}
    BY <1>2
  <1>4. \A m \in Missed : Agree(W[m], q, Len(W[m])) /\ ~Met(m)
    OBVIOUS
  <1>5. \A m \in NodesOf(t) \ Missed : Agree(W[m], q, Len(W[m])) => Met(m)
    OBVIOUS
  <1> HIDE DEF Met, Missed
  <1>6. PICK m \in Missed, p \in NodesOf(t) \ Missed :
          Agree(W[p], q, Len(W[p])) /\ Fits(t, W, q, p, m)
    BY <1>3, <1>4, FirstMissed
  <1>7. PICK lp, lm, at : /\ lp = Len(W[p]) /\ lm = Len(W[m])
                          /\ at = [node |-> p, i |-> lp]
    OBVIOUS
  <1>8. /\ lp \in Nat /\ lm \in Nat /\ lp < lm /\ lm <= Len(q)
        /\ Kid(t, q, at) = m /\ m # Nil /\ lm = lp + Len(t.prefix[m])
        /\ Overlap(t, q, at) = Len(t.prefix[m])
    BY <1>6, <1>7 DEF Fits
  <1>9. PICK k \in 0 .. lp : Descent(t, q)[k] = at
    BY <1>5, <1>6, <1>7 DEF Met
  <1>10. Follow(t, q, at) = [node |-> m, i |-> lm]
    BY <1>7, <1>8 DEF Follow
  <1>11. /\ k + 1 \in 1 .. Len(q) /\ (k + 1) - 1 = k
         /\ k + 1 \in 0 .. lm /\ k + 1 <= Len(q)
    BY <1>1, <1>8
  <1>12. Descent(t, q)[k + 1] = [node |-> m, i |-> lm]
    BY <1>9, <1>10, <1>11, DescentFacts
  <1>13. Met(m)
    BY <1>7, <1>11, <1>12 DEF Met
  <1> QED
    BY <1>4, <1>6, <1>13

\* The walk for the word of a node ends at that node.
LEMMA DescendsTo ==
  ASSUME NEW t, IsNodes(t), NEW W, Spells(t, W), NEW n \in NodesOf(t)
  PROVE  Descend(t, W[n]) = [node |-> n, i |-> Len(W[n])]
  <1>0. PICK q, l, at, d : /\ q = W[n] /\ l = Len(q) /\ d = Descent(t, q)
                           /\ at = [node |-> n, i |-> l]
    OBVIOUS
  <1>1. q \in Seq(Chars) /\ l \in Nat /\ Agree(W[n], q, Len(W[n]))
    BY <1>0 DEF Spells, Agree
  <1>2. PICK k \in 0 .. l : d[k] = at
    BY <1>0, <1>1, ComesBy
  <1>3. Follow(t, q, at) = at
    BY <1>0, <1>1 DEF Follow, Kid
  <1> DEFINE T == {j \in 0 .. l : j >= k => d[j] = at}
  <1>4. 0 \in T
    BY <1>1, <1>2
  <1>5. ASSUME NEW j \in 0 .. l, j \in T, j < l PROVE j + 1 \in T
    <2>1. j + 1 \in 1 .. l /\ (j + 1) - 1 = j /\ j + 1 \in 0 .. l
      BY <1>1, <1>5
    <2>2. d[j + 1] = Follow(t, q, d[j])
      BY <1>0, <1>1, <2>1, DescentFacts
    <2>3. j + 1 >= k => j + 1 = k \/ j >= k
      BY <1>1, <1>2
    <2>4. j + 1 >= k => d[j + 1] = at
      BY <1>2, <1>3, <1>5, <2>2, <2>3
    <2> QED
      BY <2>1, <2>4
  <1>6. l \in T
    <2> HIDE DEF T
    <2>1. 0 .. l \subseteq T
      BY <1>1, <1>4, <1>5, UpTo
    <2> QED
      BY <1>1, <2>1
  <1> QED
    BY <1>0, <1>1, <1>2, <1>6 DEF Descend

LEMMA WordsDiffer ==
  ASSUME NEW t, IsNodes(t), NEW W, Spells(t, W),
         NEW n \in NodesOf(t), NEW m \in NodesOf(t), W[n] = W[m]
  PROVE  n = m
  <1>1. [node |-> n, i |-> Len(W[n])] = [node |-> m, i |-> Len(W[m])]
    BY DescendsTo
  <1> QED
    BY <1>1

\* So every node hangs in one place.
LEMMA OneParent ==
  ASSUME NEW t, IsNodes(t), NEW W, Spells(t, W),
         NEW n \in NodesOf(t), NEW c \in Chars,
         NEW m \in NodesOf(t), NEW d \in Chars,
         t.kids[n][c] # Nil, t.kids[n][c] = t.kids[m][d]
  PROVE  n = m /\ c = d
  <1>0. PICK kid, p : kid = t.kids[n][c] /\ p = t.prefix[kid]
    OBVIOUS
  <1>1. /\ p[1] = c /\ Joins(W[n], p, W[kid])
        /\ p[1] = d /\ Joins(W[m], p, W[kid])
    <2>1. Edge(t, W, n, c) /\ Edge(t, W, m, d)
      BY DEF Spells
    <2> QED
      BY <1>0, <2>1 DEF Edge
  <1>2. /\ W[n] \in Seq(Chars) /\ W[m] \in Seq(Chars) /\ p \in Seq(Chars)
    BY <1>0, NilIsNoNode DEF Spells, IsNodes
  <1>3. /\ Len(W[n]) \in Nat /\ Len(W[m]) \in Nat /\ Len(p) \in Nat
        /\ Len(W[n]) + Len(p) = Len(W[m]) + Len(p)
    BY <1>1, <1>2 DEF Joins
  <1>4. Len(W[n]) = Len(W[m])
    BY <1>3
  <1>5. \A j \in 1 .. Len(W[n]) : W[n][j] = W[m][j]
    BY <1>1, <1>4 DEF Joins
  <1>6. W[n] = W[m]
    BY <1>2, <1>4, <1>5
  <1> QED
    BY <1>1, <1>6, WordsDiffer

-----------------------------------------------------------------------------
(* Insertion *)

\* u is t with a new node n below parent.
Attached(t, parent, n, text, owners, u) ==
  /\ IsNodes(u) /\ NodesOf(u) = NodesOf(t) \cup {n}
  /\ u.prefix[n] = text /\ u.marks[n] = owners
  /\ \A m \in NodesOf(t) : u.prefix[m] = t.prefix[m] /\ u.marks[m] = t.marks[m]
  /\ \A c \in Chars : u.kids[n][c] = Nil
  /\ \A m \in NodesOf(t), c \in Chars :
       u.kids[m][c] = IF m = parent /\ c = text[1] THEN n ELSE t.kids[m][c]

LEMMA AttachFacts ==
  ASSUME NEW t, IsNodes(t), NEW parent \in NodesOf(t), NEW n \in Ids \ NodesOf(t),
         NEW text \in Seq(Chars), text # <<>>, NEW owners \in SUBSET Owners
  PROVE  Attached(t, parent, n, text, owners, Attach(t, parent, n, text, owners))
  <1>0. PICK N, M : N = NodesOf(t) /\ M = N \cup {n}
    OBVIOUS
  <1>1. /\ Root \in N /\ N \subseteq Ids \cup {Root} /\ n \in Ids /\ n \notin N
        /\ t.kids \in [N -> [Chars -> N \cup {Nil}]]
        /\ t.prefix \in [N -> Seq(Chars)] /\ t.marks \in [N -> SUBSET Owners]
    BY <1>0 DEF IsNodes
  <1>2. text[1] \in Chars
    OBVIOUS
  <1>3. PICK kids, prefix, marks :
          /\ kids = [m \in M |-> IF m = n THEN [c \in Chars |-> Nil]
                       ELSE IF m = parent THEN [t.kids[m] EXCEPT ![text[1]] = n]
                       ELSE t.kids[m]]
          /\ prefix = [m \in M |-> IF m = n THEN text ELSE t.prefix[m]]
          /\ marks = [m \in M |-> IF m = n THEN owners ELSE t.marks[m]]
    OBVIOUS
  <1>4. kids \in [M -> [Chars -> M \cup {Nil}]]
    <2>1. ASSUME NEW m \in N PROVE t.kids[m] \in [Chars -> M \cup {Nil}]
      BY <1>0, <1>1
    <2>2. [t.kids[parent] EXCEPT ![text[1]] = n] \in [Chars -> M \cup {Nil}]
      BY <1>0, <2>1
    <2>3. [c \in Chars |-> Nil] \in [Chars -> M \cup {Nil}]
      OBVIOUS
    <2>4. ASSUME NEW m \in M PROVE kids[m] \in [Chars -> M \cup {Nil}]
      BY <1>0, <1>3, <2>1, <2>2, <2>3
    <2> QED
      BY <1>3, <2>4
  <1>5. prefix \in [M -> Seq(Chars)] /\ marks \in [M -> SUBSET Owners]
    BY <1>0, <1>1, <1>3
  <1>6. ASSUME NEW m \in N, NEW c \in Chars
        PROVE  kids[m][c] = IF m = parent /\ c = text[1] THEN n ELSE t.kids[m][c]
    <2>1. m # n /\ t.kids[m] \in [Chars -> N \cup {Nil}]
      BY <1>1
    <2> QED
      BY <1>0, <1>3, <2>1
  <1>7. \A c \in Chars : kids[n][c] = Nil
    BY <1>0, <1>3
  <1>8. /\ prefix[n] = text /\ marks[n] = owners
        /\ \A m \in N : prefix[m] = t.prefix[m] /\ marks[m] = t.marks[m]
    BY <1>0, <1>1, <1>3
  <1>9. PICK u : u = Attach(t, parent, n, text, owners)
    OBVIOUS
  <1>10. u = [kids |-> kids, prefix |-> prefix, marks |-> marks]
    BY <1>0, <1>3, <1>9 DEF Attach
  <1>11. NodesOf(u) = M /\ u.kids = kids /\ u.prefix = prefix /\ u.marks = marks
    BY <1>5, <1>10 DEF NodesOf
  <1>12. IsNodes(u)
    BY <1>0, <1>1, <1>4, <1>5, <1>10, <1>11 DEF IsNodes
  <1> QED
    BY <1>0, <1>6, <1>7, <1>8, <1>9, <1>11, <1>12 DEF Attached

\* V is W with a word for the new node n.
Gives(t, W, n, word, V) ==
  /\ V \in [NodesOf(t) \cup {n} -> Seq(Chars)] /\ V[n] = word
  /\ \A m \in NodesOf(t) : V[m] = W[m]

LEMMA Given ==
  ASSUME NEW t, NEW W, W \in [NodesOf(t) -> Seq(Chars)],
         NEW n, n \notin NodesOf(t), NEW word \in Seq(Chars)
  PROVE  \E V : Gives(t, W, n, word, V)
  <1> DEFINE V == [m \in NodesOf(t) \cup {n} |-> IF m = n THEN word ELSE W[m]]
  <1>1. Gives(t, W, n, word, V)
    BY DEF Gives
  <1> QED
    BY <1>1

\* Where no edge was.
LEMMA AttachSpells ==
  ASSUME NEW t, IsNodes(t), NEW W, Spells(t, W), NEW parent \in NodesOf(t),
         NEW n \in Ids \ NodesOf(t), NEW text \in Seq(Chars), text # <<>>,
         NEW owners, NEW u, Attached(t, parent, n, text, owners, u),
         t.kids[parent][text[1]] = Nil,
         NEW word \in Seq(Chars), Joins(W[parent], text, word),
         NEW V, Gives(t, W, n, word, V)
  PROVE  Spells(u, V)
  <1>1. /\ V \in [NodesOf(u) -> Seq(Chars)] /\ V[n] = word
        /\ \A m \in NodesOf(t) : V[m] = W[m]
    BY DEF Attached, Gives
  <1>2. V[Root] = <<>>
    BY <1>1 DEF Spells, IsNodes
  <1>3. ASSUME NEW m \in NodesOf(u), NEW c \in Chars PROVE Edge(u, V, m, c)
    <2>1. CASE m = n
      BY <2>1 DEF Attached, Edge
    <2>2. CASE m = parent /\ c = text[1]
      <3>1. u.kids[m][c] = n /\ u.prefix[n] = text
        BY <2>2 DEF Attached
      <3> QED
        BY <1>1, <2>2, <3>1 DEF Edge
    <2>3. CASE m # n /\ ~(m = parent /\ c = text[1])
      <3>1. m \in NodesOf(t) /\ Edge(t, W, m, c)
        BY <2>3 DEF Attached, Spells
      <3>2. u.kids[m][c] = t.kids[m][c]
        BY <2>3, <3>1 DEF Attached
      <3>3. t.kids[m][c] # Nil => t.kids[m][c] \in NodesOf(t)
        BY <3>1, NilIsNoNode
      <3>4. t.kids[m][c] # Nil => u.prefix[t.kids[m][c]] = t.prefix[t.kids[m][c]]
        BY <3>3 DEF Attached
      <3> QED
        BY <1>1, <3>1, <3>2, <3>3, <3>4 DEF Edge
    <2> QED
      BY <2>1, <2>2, <2>3
  <1>4. ASSUME NEW m \in NodesOf(u) \ {Root}
        PROVE  \E x \in NodesOf(u), c \in Chars : u.kids[x][c] = m
    <2>1. CASE m = n
      <3>1. text[1] \in Chars
        OBVIOUS
      <3> QED
        BY <2>1, <3>1 DEF Attached
    <2>2. CASE m # n
      <3>1. m \in NodesOf(t) \ {Root}
        BY <2>2 DEF Attached
      <3>2. PICK x \in NodesOf(t), c \in Chars : t.kids[x][c] = m
        BY <3>1 DEF Spells
      <3>3. m # Nil
        BY <3>1, NilIsNoNode
      <3>4. x \in NodesOf(u) /\ u.kids[x][c] = m
        BY <3>2, <3>3 DEF Attached
      <3> QED
        BY <3>4
    <2> QED
      BY <2>1, <2>2
  <1> QED
    BY <1>1, <1>2, <1>3, <1>4 DEF Spells

\* s is t with the edge to kid cut after k characters, at a new node n.
Cut(t, parent, kid, k, n, s) ==
  LET p == t.prefix[kid]
  IN  /\ IsNodes(s) /\ NodesOf(s) = NodesOf(t) \cup {n}
      /\ s.prefix[n] = SubSeq(p, 1, k) /\ s.prefix[kid] = From(p, k)
      /\ \A m \in NodesOf(t) \ {kid} : s.prefix[m] = t.prefix[m]
      /\ s.marks[n] = {} /\ \A m \in NodesOf(t) : s.marks[m] = t.marks[m]
      /\ \A c \in Chars : s.kids[n][c] = IF c = p[k + 1] THEN kid ELSE Nil
      /\ \A m \in NodesOf(t), c \in Chars :
           s.kids[m][c] = IF m = parent /\ c = p[1] THEN n ELSE t.kids[m][c]

LEMMA SplitFacts ==
  ASSUME NEW t, IsNodes(t), NEW q, NEW at, at.node \in NodesOf(t),
         NEW kid \in NodesOf(t), kid = Kid(t, q, at), NEW n \in Ids \ NodesOf(t),
         n = Fresh(t), NEW k \in Nat \ {0}, k < Len(t.prefix[kid])
  PROVE  Cut(t, at.node, kid, k, n, Split(t, q, at, k))
  <1>0. PICK N, M, p, head, rest, x : /\ N = NodesOf(t) /\ M = N \cup {n}
          /\ p = t.prefix[kid] /\ head = SubSeq(p, 1, k) /\ rest = From(p, k)
          /\ x = at.node
    OBVIOUS
  <1>1. p \in Seq(Chars) /\ Len(p) \in Nat
    BY <1>0 DEF IsNodes
  <1>2. /\ k \in 0 .. Len(p) /\ 1 \in 1 .. k /\ 1 \in 1 .. Len(p) - k
    BY <1>0, <1>1
  <1>3. /\ head \in Seq(Chars) /\ Len(head) = k /\ head[1] = p[1]
        /\ rest \in Seq(Chars) /\ Len(rest) = Len(p) - k /\ rest[1] = p[k + 1]
    <2>1. /\ head \in Seq(Chars) /\ Len(head) = k
          /\ \A j \in 1 .. k : head[j] = p[j]
      BY <1>0, <1>1, <1>2, HeadFacts
    <2>2. /\ rest \in Seq(Chars) /\ Len(rest) = Len(p) - k
          /\ \A j \in 1 .. Len(p) - k : rest[j] = p[k + j]
      BY <1>0, <1>1, <1>2, FromFacts
    <2> QED
      BY <1>2, <2>1, <2>2
  <1>4. head # <<>> /\ rest # <<>> /\ rest[1] \in Chars
    BY <1>1, <1>2, <1>3
  <1>5. PICK above : above = Attach(t, x, n, head, {})
    OBVIOUS
  <1>6. Attached(t, x, n, head, {}, above)
    BY <1>0, <1>3, <1>4, <1>5, AttachFacts
  <1>7. /\ NodesOf(above) = M /\ kid \in M /\ n \in M /\ kid # n
        /\ above = [kids |-> above.kids, prefix |-> above.prefix, marks |-> above.marks]
        /\ Root \in M /\ M \subseteq Ids \cup {Root}
        /\ above.kids \in [M -> [Chars -> M \cup {Nil}]]
        /\ above.prefix \in [M -> Seq(Chars)] /\ above.marks \in [M -> SUBSET Owners]
    BY <1>0, <1>6 DEF Attached, IsNodes
  <1>8. PICK kids, prefix : /\ kids = [above.kids EXCEPT ![n][rest[1]] = kid]
                            /\ prefix = [above.prefix EXCEPT ![kid] = rest]
    OBVIOUS
  <1>9. PICK s : s = Split(t, q, at, k)
    OBVIOUS
  <1>10. s = [above EXCEPT !.prefix[kid] = rest, !.kids[n][rest[1]] = kid]
    BY <1>0, <1>5, <1>9 DEF Split
  <1>11. s = [kids |-> kids, prefix |-> prefix, marks |-> above.marks]
    BY <1>7, <1>8, <1>10
  <1>12. /\ kids \in [M -> [Chars -> M \cup {Nil}]] /\ prefix \in [M -> Seq(Chars)]
    <2>1. [above.kids[n] EXCEPT ![rest[1]] = kid] \in [Chars -> M \cup {Nil}]
      BY <1>7
    <2>2. kids \in [M -> [Chars -> M \cup {Nil}]]
      BY <1>7, <1>8, <2>1
    <2> QED
      BY <1>3, <1>7, <1>8, <2>2
  <1>13. NodesOf(s) = M /\ s.kids = kids /\ s.prefix = prefix /\ s.marks = above.marks
    BY <1>11, <1>12 DEF NodesOf
  <1>14. IsNodes(s)
    BY <1>7, <1>11, <1>12, <1>13 DEF IsNodes
  <1>15. /\ prefix[n] = head /\ prefix[kid] = rest
         /\ \A m \in N \ {kid} : prefix[m] = t.prefix[m]
    <2>1. \A m \in M \ {kid} : prefix[m] = above.prefix[m]
      BY <1>7, <1>8
    <2>2. prefix[kid] = rest
      BY <1>7, <1>8
    <2> QED
      BY <1>0, <1>6, <1>7, <2>1, <2>2 DEF Attached
  <1>16. \A c \in Chars : kids[n][c] = IF c = p[k + 1] THEN kid ELSE Nil
    <2>1. kids[n] = [above.kids[n] EXCEPT ![rest[1]] = kid]
      BY <1>7, <1>8
    <2>2. above.kids[n] \in [Chars -> M \cup {Nil}]
      BY <1>7
    <2> QED
      BY <1>3, <1>6, <2>1, <2>2 DEF Attached
  <1>17. \A m \in N, c \in Chars :
           kids[m][c] = IF m = x /\ c = p[1] THEN n ELSE t.kids[m][c]
    <2>1. \A m \in N : m # n /\ m \in M
      BY <1>0
    <2>2. \A m \in N : kids[m] = above.kids[m]
      BY <1>7, <1>8, <2>1
    <2> QED
      BY <1>0, <1>3, <1>6, <2>2 DEF Attached
  <1>18. s.marks[n] = {} /\ \A m \in N : s.marks[m] = t.marks[m]
    BY <1>0, <1>6, <1>13 DEF Attached
  <1> QED
    BY <1>0, <1>9, <1>13, <1>14, <1>15, <1>16, <1>17, <1>18 DEF Cut

\* The new node has the first part of the word of kid.
LEMMA SplitSpells ==
  ASSUME NEW t, IsNodes(t), NEW W, Spells(t, W), NEW parent \in NodesOf(t),
         NEW kid \in NodesOf(t), NEW c \in Chars, t.kids[parent][c] = kid,
         NEW n \in Ids \ NodesOf(t), NEW k \in Nat \ {0}, k < Len(t.prefix[kid]),
         NEW s, Cut(t, parent, kid, k, n, s), NEW word \in Seq(Chars),
         Len(word) = Len(W[parent]) + k, Agree(word, W[kid], Len(word)),
         NEW V, Gives(t, W, n, word, V)
  PROVE  Spells(s, V)
  <1>0. PICK p, l, head, rest :
          /\ p = t.prefix[kid] /\ l = Len(W[parent])
          /\ head = SubSeq(p, 1, k) /\ rest = From(p, k)
    OBVIOUS
  <1>1. /\ V \in [NodesOf(s) -> Seq(Chars)] /\ V[n] = word
        /\ \A m \in NodesOf(t) : V[m] = W[m]
    BY DEF Cut, Gives
  <1>2. V[Root] = <<>>
    BY <1>1 DEF Spells, IsNodes
  <1>3. /\ p \in Seq(Chars) /\ Len(p) \in Nat /\ l \in Nat /\ kid # Nil
        /\ W[parent] \in Seq(Chars) /\ W[kid] \in Seq(Chars)
    <2>1. p \in Seq(Chars) /\ kid # Nil
      BY <1>0, NilIsNoNode DEF IsNodes
    <2>2. W[parent] \in Seq(Chars) /\ W[kid] \in Seq(Chars)
      BY DEF Spells
    <2>3. Len(p) \in Nat /\ l \in Nat
      BY <1>0, <2>1, <2>2
    <2> QED
      BY <2>1, <2>2, <2>3
  <1>4. /\ p[1] = c /\ Len(W[kid]) = l + Len(p)
        /\ \A j \in 1 .. l : W[kid][j] = W[parent][j]
        /\ \A j \in 1 .. Len(p) : W[kid][l + j] = p[j]
    <2>1. Edge(t, W, parent, c)
      BY DEF Spells
    <2> QED
      BY <1>0, <1>3, <2>1 DEF Edge, Joins
  <1>5. k < Len(p) /\ k \in 0 .. Len(p)
    BY <1>0, <1>3
  <1>6. /\ s.prefix[n] = head /\ Len(head) = k
        /\ \A j \in 1 .. k : head[j] = p[j]
        /\ s.prefix[kid] = rest /\ Len(rest) = Len(p) - k
        /\ \A j \in 1 .. Len(p) - k : rest[j] = p[k + j]
    <2>1. s.prefix[n] = head /\ s.prefix[kid] = rest
      BY <1>0 DEF Cut
    <2>2. Len(head) = k /\ \A j \in 1 .. k : head[j] = p[j]
      BY <1>0, <1>3, <1>5, HeadFacts
    <2>3. Len(rest) = Len(p) - k /\ \A j \in 1 .. Len(p) - k : rest[j] = p[k + j]
      BY <1>0, <1>3, <1>5, FromFacts
    <2> QED
      BY <2>1, <2>2, <2>3
  <1>7. \A j \in 1 .. l + k : word[j] = W[kid][j]
    BY <1>0 DEF Agree
  <1>8. Joins(W[parent], s.prefix[n], word)
    <2>1. \A j \in 1 .. l : j \in 1 .. l + k
      BY <1>3
    <2>2. \A j \in 1 .. k : l + j \in 1 .. l + k /\ j \in 1 .. Len(p)
      BY <1>3, <1>5
    <2>3. \A j \in 1 .. l : word[j] = W[parent][j]
      BY <1>4, <1>7, <2>1
    <2>4. ASSUME NEW j \in 1 .. k PROVE word[l + j] = head[j]
      <3>1. word[l + j] = W[kid][l + j]
        BY <1>7, <2>2
      <3>2. W[kid][l + j] = p[j]
        BY <1>4, <2>2
      <3> QED
        BY <1>6, <3>1, <3>2
    <2> QED
      BY <1>0, <1>6, <2>3, <2>4 DEF Joins
  <1>9. Joins(word, s.prefix[kid], W[kid])
    <2>1. Len(W[kid]) = (l + k) + (Len(p) - k)
      BY <1>3, <1>4
    <2>2. ASSUME NEW j \in 1 .. Len(p) - k
          PROVE  W[kid][(l + k) + j] = p[k + j]
      <3>1. k + j \in 1 .. Len(p) /\ l + (k + j) = (l + k) + j
        BY <1>3, <1>5
      <3> QED
        BY <1>4, <3>1
    <2>3. \A j \in 1 .. l + k : W[kid][j] = word[j]
      BY <1>7
    <2>4. Len(word) = l + k /\ Len(s.prefix[kid]) = Len(p) - k
      BY <1>0, <1>6
    <2>5. \A j \in 1 .. Len(p) - k : W[kid][(l + k) + j] = s.prefix[kid][j]
      BY <1>6, <2>2
    <2> QED
      BY <2>1, <2>3, <2>4, <2>5 DEF Joins
  <1>10. s.prefix[n] # <<>> /\ s.prefix[n][1] = c
    <2>1. 1 \in 1 .. k /\ head[1] = c
      BY <1>4, <1>6
    <2>2. head # <<>>
      BY <1>6
    <2> QED
      BY <1>6, <2>1, <2>2
  <1>11. s.prefix[kid] # <<>> /\ s.prefix[kid][1] = p[k + 1] /\ p[k + 1] \in Chars
    <2>1. 1 \in 1 .. Len(p) - k /\ k + 1 \in 1 .. Len(p)
      BY <1>3, <1>5
    <2> QED
      BY <1>3, <1>6, <2>1
  <1>12. ASSUME NEW m \in NodesOf(s), NEW d \in Chars PROVE Edge(s, V, m, d)
    <2>1. CASE m = n
      <3>1. s.kids[n][d] # Nil => d = p[k + 1] /\ s.kids[n][d] = kid
        BY <1>0 DEF Cut
      <3> QED
        BY <1>1, <1>9, <1>11, <2>1, <3>1 DEF Edge
    <2>2. CASE m = parent /\ d = c
      <3>1. s.kids[m][d] = n
        BY <1>0, <1>4, <2>2 DEF Cut
      <3> QED
        BY <1>1, <1>8, <1>10, <2>2, <3>1 DEF Edge
    <2>3. CASE m # n /\ ~(m = parent /\ d = c)
      <3>1. m \in NodesOf(t) /\ Edge(t, W, m, d)
        BY <2>3 DEF Cut, Spells
      <3>2. s.kids[m][d] = t.kids[m][d]
        BY <1>0, <1>4, <2>3, <3>1 DEF Cut
      <3>3. t.kids[m][d] # Nil => t.kids[m][d] \in NodesOf(t) \ {kid}
        BY <2>3, <3>1, NilIsNoNode, OneParent
      <3>4. t.kids[m][d] # Nil => s.prefix[t.kids[m][d]] = t.prefix[t.kids[m][d]]
        BY <3>3 DEF Cut
      <3> QED
        BY <1>1, <3>1, <3>2, <3>3, <3>4 DEF Edge
    <2> QED
      BY <2>1, <2>2, <2>3
  <1>13. ASSUME NEW m \in NodesOf(s) \ {Root}
         PROVE  \E x \in NodesOf(s), d \in Chars : s.kids[x][d] = m
    <2>1. CASE m = n
      BY <1>0, <1>4, <2>1 DEF Cut
    <2>2. CASE m = kid
      BY <1>0, <1>11, <2>2 DEF Cut
    <2>3. CASE m # n /\ m # kid
      <3>1. m \in NodesOf(t) \ {Root}
        BY <2>3 DEF Cut
      <3>2. PICK x \in NodesOf(t), d \in Chars : t.kids[x][d] = m
        BY <3>1 DEF Spells
      <3>3. ~(x = parent /\ d = c)
        BY <2>3, <3>2
      <3>4. x \in NodesOf(s) /\ s.kids[x][d] = m
        BY <1>0, <1>4, <3>2, <3>3 DEF Cut
      <3> QED
        BY <3>4
    <2> QED
      BY <2>1, <2>2, <2>3
  <1> QED
    BY <1>1, <1>2, <1>12, <1>13 DEF Spells

\* u is t with more nodes, the marks of which are those of R.
Grown(t, W, R, u) ==
  /\ IsNodes(u) /\ NodesOf(t) \subseteq NodesOf(u)
  /\ \A n \in NodesOf(t) : u.prefix[n] = t.prefix[n]
  /\ \E V : /\ Spells(u, V) /\ Marked(u, V, R)
            /\ \A n \in NodesOf(t) : V[n] = W[n]

LEMMA FreshIsNext ==
  ASSUME NEW t, NEW m \in Nat, NodesOf(t) = 0 .. m, m + 1 <= 2 * MaxInserts
  PROVE  Fresh(t) = m + 1 /\ Fresh(t) \in Ids \ NodesOf(t)
  <1>0. PICK b : b = 2 * MaxInserts
    OBVIOUS
  <1>1. b \in Nat /\ Ids = 1 .. b /\ m + 1 <= b
    BY <1>0, TreeAssumption DEF TreeAssumption
  <1>2. m + 1 \in Ids \ NodesOf(t) /\ \A x \in Ids \ NodesOf(t) : m + 1 <= x
    BY <1>1
  <1>3. /\ Fresh(t) \in Ids \ NodesOf(t)
        /\ \A x \in Ids \ NodesOf(t) : Fresh(t) <= x
    BY <1>2, Zenon DEF Fresh
  <1>4. Fresh(t) \in Nat
    BY <1>1, <1>3
  <1> QED
    BY <1>2, <1>3, <1>4

\* t is a tree with words W that records the pairs of R.
Records(t, W, R) == IsNodes(t) /\ Spells(t, W) /\ Marked(t, W, R)

\* The prompt of node n is recorded for one more owner.
WithMark(t, n, o) == [t EXCEPT !.marks[n] = t.marks[n] \cup {o}]

LEMMA AddsMark ==
  ASSUME NEW t, NEW W, NEW R, Records(t, W, R),
         NEW n, n \in NodesOf(t), NEW o, o \in Owners
  PROVE  /\ Grown(t, W, R \cup {<<W[n], o>>}, WithMark(t, n, o))
         /\ NodesOf(WithMark(t, n, o)) = NodesOf(t)
  <1>h. IsNodes(t) /\ Spells(t, W) /\ Marked(t, W, R)
    BY DEF Records
  <1>u. PICK u : u = WithMark(t, n, o)
    OBVIOUS
  <1>0. PICK N, marks : /\ N = NodesOf(t)
                        /\ marks = [t.marks EXCEPT ![n] = t.marks[n] \cup {o}]
    OBVIOUS
  <1>1. /\ t = [kids |-> t.kids, prefix |-> t.prefix, marks |-> t.marks]
        /\ t.kids \in [N -> [Chars -> N \cup {Nil}]]
        /\ t.prefix \in [N -> Seq(Chars)] /\ t.marks \in [N -> SUBSET Owners]
    BY <1>0, <1>h DEF IsNodes
  <1>2. u = [kids |-> t.kids, prefix |-> t.prefix, marks |-> marks]
    BY <1>0, <1>1, <1>u DEF WithMark
  <1>3. /\ NodesOf(u) = N /\ u.kids = t.kids /\ u.prefix = t.prefix
        /\ u.marks = marks
    BY <1>0, <1>2 DEF NodesOf
  <1>4. /\ marks \in [N -> SUBSET Owners] /\ marks[n] = t.marks[n] \cup {o}
        /\ \A m \in N \ {n} : marks[m] = t.marks[m]
    BY <1>0, <1>1
  <1>5. IsNodes(u)
    BY <1>0, <1>h, <1>1, <1>2, <1>3, <1>4 DEF IsNodes
  <1>6. Spells(u, W)
    <2>1. \A m \in N, c \in Chars : Edge(t, W, m, c) => Edge(u, W, m, c)
      BY <1>3 DEF Edge
    <2>2. W \in [N -> Seq(Chars)] /\ W[Root] = <<>>
      BY <1>0, <1>h DEF Spells
    <2>3. \A m \in N, c \in Chars : Edge(u, W, m, c)
      BY <1>0, <1>h, <2>1 DEF Spells
    <2>4. \A m \in N \ {Root} : \E x \in N, c \in Chars : u.kids[x][c] = m
      <3>1. \A m \in NodesOf(t) \ {Root} :
              \E x \in NodesOf(t), c \in Chars : t.kids[x][c] = m
        BY <1>h, Zenon DEF Spells
      <3> QED
        BY <1>0, <1>3, <3>1
    <2> QED
      BY <1>3, <2>2, <2>3, <2>4, Zenon DEF Spells
  <1>7. Marked(u, W, R \cup {<<W[n], o>>})
    <2>1. ASSUME NEW m \in N, NEW x \in marks[m]
          PROVE  <<W[m], x>> \in R \cup {<<W[n], o>>}
      BY <1>0, <1>h, <1>4, <2>1 DEF Marked
    <2>2. ASSUME NEW x \in R \cup {<<W[n], o>>}
          PROVE  \E m \in N : W[m] = x[1] /\ x[2] \in marks[m]
      <3>1. CASE x = <<W[n], o>>
        BY <1>0, <1>4, <3>1
      <3>2. CASE x \in R
        <4>1. PICK m \in N : W[m] = x[1] /\ x[2] \in t.marks[m]
          BY <1>0, <1>h, <3>2 DEF Marked
        <4>2. t.marks[m] \subseteq marks[m]
          BY <1>4
        <4> QED
          BY <4>1, <4>2
      <3> QED
        BY <3>1, <3>2
    <2> QED
      BY <1>3, <2>1, <2>2 DEF Marked
  <1>8. \A m \in N : u.prefix[m] = t.prefix[m]
    BY <1>3
  <1> QED
    BY <1>0, <1>u, <1>3, <1>5, <1>6, <1>7, <1>8 DEF Grown

\* A walk for q comes to a node without an edge for the rest of q.
Ends(t, W, q, at) ==
  /\ q \in Seq(Chars) /\ Reaches(t, W, q, at) /\ at.i < Len(q)
  /\ t.kids[at.node][q[at.i + 1]] = Nil

\* The rest becomes a leaf below this node.
WithLeaf(t, n, q, at, o) == Attach(t, at.node, n, From(q, at.i), {o})

Leafed(t, W, R, q, o, n, u) ==
  Grown(t, W, R \cup {<<q, o>>}, u) /\ NodesOf(u) = NodesOf(t) \cup {n}

LEMMA AddsLeaf ==
  ASSUME NEW t, NEW W, NEW R, Records(t, W, R), NEW q, NEW at,
         Ends(t, W, q, at), NEW n, n \in Ids, n \notin NodesOf(t),
         NEW o, o \in Owners
  PROVE  Leafed(t, W, R, q, o, n, WithLeaf(t, n, q, at, o))
  <1>h. /\ IsNodes(t) /\ Spells(t, W) /\ Marked(t, W, R)
        /\ q \in Seq(Chars) /\ Reaches(t, W, q, at) /\ at.i < Len(q)
        /\ t.kids[at.node][q[at.i + 1]] = Nil
    BY DEF Records, Ends
  <1>u. PICK u : u = WithLeaf(t, n, q, at, o)
    OBVIOUS
  <1>0. PICK parent, i, text :
          parent = at.node /\ i = at.i /\ text = From(q, i)
    OBVIOUS
  <1>v. PICK V : Gives(t, W, n, q, V)
    BY <1>h, Given DEF Spells
  <1>1. /\ parent \in NodesOf(t) /\ W[parent] \in Seq(Chars)
        /\ i = Len(W[parent]) /\ Agree(W[parent], q, i)
    BY <1>0, <1>h DEF Reaches, Spells
  <1>2. i \in Nat /\ Len(q) \in Nat /\ i < Len(q) /\ i \in 0 .. Len(q)
    BY <1>0, <1>1, <1>h
  <1>3. /\ text \in Seq(Chars) /\ Len(text) = Len(q) - i
        /\ \A j \in 1 .. Len(q) - i : text[j] = q[i + j]
    BY <1>0, <1>2, <1>h, FromFacts
  <1>4. text # <<>> /\ text[1] = q[i + 1]
    <2>1. 1 \in 1 .. Len(q) - i
      BY <1>2
    <2> QED
      BY <1>3, <2>1
  <1>5. Joins(W[parent], text, q)
    <2>1. Len(q) = i + Len(text)
      BY <1>2, <1>3
    <2>2. \A j \in 1 .. i : q[j] = W[parent][j]
      BY <1>1 DEF Agree
    <2> QED
      BY <1>1, <1>3, <2>1, <2>2 DEF Joins
  <1>6. Attached(t, parent, n, text, {o}, u)
    <2>1. {o} \in SUBSET Owners
      OBVIOUS
    <2> QED
      BY <1>0, <1>h, <1>u, <1>1, <1>3, <1>4, <2>1, AttachFacts DEF WithLeaf
  <1>7. Spells(u, V)
    <2>1. t.kids[parent][text[1]] = Nil
      BY <1>0, <1>h, <1>4
    <2> QED
      BY <1>h, <1>1, <1>v, <1>3, <1>4, <1>5, <1>6, <2>1, AttachSpells, Zenon
  <1>8. /\ NodesOf(u) = NodesOf(t) \cup {n} /\ V[n] = q /\ u.marks[n] = {o}
        /\ \A m \in NodesOf(t) : V[m] = W[m] /\ u.marks[m] = t.marks[m]
    BY <1>v, <1>6 DEF Attached, Gives
  <1>9. Marked(u, V, R \cup {<<q, o>>})
    <2>1. ASSUME NEW m \in NodesOf(u), NEW x \in u.marks[m]
          PROVE  <<V[m], x>> \in R \cup {<<q, o>>}
      BY <1>h, <1>8, <2>1 DEF Marked
    <2>2. ASSUME NEW x \in R \cup {<<q, o>>}
          PROVE  \E m \in NodesOf(u) : V[m] = x[1] /\ x[2] \in u.marks[m]
      <3>1. CASE x = <<q, o>>
        BY <1>8, <3>1
      <3>2. CASE x \in R
        <4>1. PICK m \in NodesOf(t) : W[m] = x[1] /\ x[2] \in t.marks[m]
          BY <1>h, <3>2 DEF Marked
        <4> QED
          BY <1>8, <4>1
      <3> QED
        BY <2>2, <3>1, <3>2
    <2> QED
      BY <2>1, <2>2 DEF Marked
  <1>10. IsNodes(u) /\ \A m \in NodesOf(t) : u.prefix[m] = t.prefix[m]
    BY <1>6 DEF Attached
  <1> QED
    BY <1>u, <1>7, <1>8, <1>9, <1>10 DEF Grown, Leafed

\* A walk for q leaves the edge after at in the middle.
Leaves(t, W, q, at) ==
  /\ q \in Seq(Chars) /\ Reaches(t, W, q, at) /\ Kid(t, q, at) # Nil
  /\ Overlap(t, q, at) # Len(t.prefix[Kid(t, q, at)])

\* s is t with this edge cut there, at a new node n.
Halved(t, W, R, q, at, n, s) ==
  /\ IsNodes(s) /\ NodesOf(s) = NodesOf(t) \cup {n}
  /\ \A m \in NodesOf(t) \ {Kid(t, q, at)} : s.prefix[m] = t.prefix[m]
  /\ \E V : /\ Spells(s, V) /\ Marked(s, V, R)
            /\ \A m \in NodesOf(t) : V[m] = W[m]

LEMMA SplitGrows ==
  ASSUME NEW t, NEW W, NEW R, Records(t, W, R), NEW q, NEW at,
         Leaves(t, W, q, at), NEW n, n = Fresh(t), n \in Ids, n \notin NodesOf(t)
  PROVE  Halved(t, W, R, q, at, n, Split(t, q, at, Overlap(t, q, at)))
  <1>a. PICK kid, k, s : /\ kid = Kid(t, q, at) /\ k = Overlap(t, q, at)
                         /\ s = Split(t, q, at, k)
    OBVIOUS
  <1>h. /\ IsNodes(t) /\ Spells(t, W) /\ Marked(t, W, R)
        /\ q \in Seq(Chars) /\ Reaches(t, W, q, at) /\ kid # Nil
        /\ k # Len(t.prefix[kid])
    BY <1>a DEF Records, Leaves
  <1>0. PICK parent, i, p, l, c :
          /\ parent = at.node /\ i = at.i /\ p = t.prefix[kid] /\ l = i + k
          /\ c = q[i + 1]
    OBVIOUS
  <1>1. NextEdge(t, W, q, at)
    BY <1>a, <1>h, EdgeAhead
  <1>2. /\ i \in Nat /\ c \in Chars /\ t.kids[parent][c] = kid
        /\ kid \in NodesOf(t) \ {Root} /\ Len(p) \in Nat \ {0}
        /\ k \in 1 .. Len(p) /\ l <= Len(q) /\ Agree(W[kid], q, l)
        /\ k < Len(p) /\ l < Len(q) => p[k + 1] # q[l + 1]
    BY <1>a, <1>0, <1>1 DEF NextEdge
  <1>3. /\ k \in Nat \ {0} /\ k < Len(p) /\ l \in Nat /\ Len(q) \in Nat
        /\ l \in 0 .. Len(q)
    BY <1>0, <1>h, <1>2
  <1>4. parent \in NodesOf(t) /\ i = Len(W[parent])
    BY <1>0, <1>h DEF Reaches
  <1>5. Cut(t, parent, kid, k, n, s)
    BY <1>a, <1>0, <1>h, <1>2, <1>3, <1>4, SplitFacts
  <1>6. PICK word : word = SubSeq(q, 1, l)
    OBVIOUS
  <1>7. word \in Seq(Chars) /\ Len(word) = l /\ \A j \in 1 .. l : word[j] = q[j]
    BY <1>3, <1>6, <1>h, HeadFacts
  <1>8. Agree(word, W[kid], Len(word))
    BY <1>2, <1>7 DEF Agree
  <1>9. PICK V : Gives(t, W, n, word, V)
    BY <1>h, <1>7, Given DEF Spells
  <1>10. Spells(s, V)
    <2>1. kid \in NodesOf(t) /\ k < Len(t.prefix[kid]) /\ c \in Chars
      BY <1>0, <1>2, <1>3
    <2>2. k \in Nat \ {0} /\ word \in Seq(Chars) /\ Len(word) = Len(W[parent]) + k
      BY <1>0, <1>3, <1>4, <1>7
    <2>3. t.kids[parent][c] = kid /\ parent \in NodesOf(t) /\ n \in Ids \ NodesOf(t)
      BY <1>2, <1>4
    <2> QED
      BY <1>h, <1>5, <1>8, <1>9, <2>1, <2>2, <2>3, SplitSpells, Zenon
  <1>11. Marked(s, V, R)
    <2>1. /\ NodesOf(s) = NodesOf(t) \cup {n} /\ s.marks[n] = {}
          /\ \A m \in NodesOf(t) : s.marks[m] = t.marks[m] /\ V[m] = W[m]
      BY <1>5, <1>9 DEF Cut, Gives
    <2> QED
      BY <1>h, <2>1 DEF Marked
  <1>12. /\ IsNodes(s) /\ NodesOf(s) = NodesOf(t) \cup {n}
         /\ \A m \in NodesOf(t) \ {kid} : s.prefix[m] = t.prefix[m]
    BY <1>5 DEF Cut
  <1>13. \A m \in NodesOf(t) : V[m] = W[m]
    BY <1>9 DEF Gives
  <1> QED
    BY <1>a, <1>10, <1>11, <1>12, <1>13 DEF Halved

\* A walk that has matched all of q is at a node with q as its word.
LEMMA WholeWord ==
  ASSUME NEW t, NEW W, Spells(t, W), NEW q \in Seq(Chars), NEW at,
         Reaches(t, W, q, at), at.i = Len(q)
  PROVE  W[at.node] = q
  <1>1. PICK w : w = W[at.node]
    OBVIOUS
  <1>2. w \in Seq(Chars) /\ at.i = Len(w) /\ Agree(w, q, at.i)
    BY <1>1 DEF Reaches, Spells
  <1>3. w \in Seq(Chars) /\ Len(w) = Len(q) /\ \A j \in 1 .. Len(q) : w[j] = q[j]
    BY <1>2 DEF Agree
  <1>4. w = q
    BY <1>3
  <1> QED
    BY <1>1, <1>4

\* Insert records a prompt for an owner and keeps the words of all nodes.
LEMMA InsertGrows ==
  ASSUME NEW t, NEW W, NEW R, Records(t, W, R),
         NEW q \in Seq(Chars), NEW o \in Owners, ~Splits(t, q),
         NEW m \in Nat, NodesOf(t) = 0 .. m, m + 1 <= 2 * MaxInserts
  PROVE  /\ Grown(t, W, R \cup {<<q, o>>}, Insert(t, q, o))
         /\ \E l \in m .. m + 1 : NodesOf(Insert(t, q, o)) = 0 .. l
  <1>0. PICK at, n, i, u : /\ at = Descend(t, q) /\ n = Fresh(t) /\ i = at.i
                           /\ u = Insert(t, q, o)
    OBVIOUS
  <1>h. IsNodes(t) /\ Spells(t, W) /\ Kid(t, q, at) = Nil
    BY <1>0 DEF Records, Splits
  <1>1. /\ Reaches(t, W, q, at) /\ at.node \in NodesOf(t) /\ i \in Nat
        /\ Len(q) \in Nat /\ i <= Len(q)
    BY <1>0, <1>h, DescendStops DEF Places, Reaches
  <1>2. n = m + 1 /\ n \in Ids /\ n \notin NodesOf(t)
    BY <1>0, FreshIsNext
  <1>3. CASE i = Len(q)
    <2>1. u = WithMark(t, at.node, o)
      BY <1>0, <1>3 DEF Insert, WithMark
    <2>2. W[at.node] = q
      BY <1>0, <1>h, <1>1, <1>3, WholeWord
    <2>3. /\ Grown(t, W, R \cup {<<W[at.node], o>>}, u)
          /\ NodesOf(u) = NodesOf(t)
      BY <1>1, <2>1, AddsMark, Zenon
    <2>4. Grown(t, W, R \cup {<<q, o>>}, u)
      BY <2>2, <2>3
    <2>5. m \in m .. m + 1
      OBVIOUS
    <2> QED
      BY <1>0, <2>3, <2>4, <2>5
  <1>4. CASE i # Len(q)
    <2>1. u = WithLeaf(t, n, q, at, o)
      BY <1>0, <1>4 DEF Insert, WithLeaf
    <2>2. Ends(t, W, q, at)
      BY <1>0, <1>h, <1>1, <1>4 DEF Ends, Kid
    <2>3. /\ Grown(t, W, R \cup {<<q, o>>}, u)
          /\ NodesOf(u) = NodesOf(t) \cup {n}
      <3>1. n \in Ids /\ n \notin NodesOf(t)
        BY <1>2
      <3>2. Leafed(t, W, R, q, o, n, u)
        BY <2>1, <2>2, <3>1, AddsLeaf, Zenon
      <3> QED
        BY <3>2 DEF Leafed
    <2>4. NodesOf(u) = 0 .. m + 1 /\ m + 1 \in m .. m + 1
      BY <1>2, <2>3
    <2> QED
      BY <1>0, <2>3, <2>4
  <1> QED
    BY <1>3, <1>4

\* Where an insertion must split: the edge and how much of it stays above.
Splitting(t, q, kid, k) ==
  /\ kid \in NodesOf(t) /\ k \in Nat \ {0} /\ k < Len(t.prefix[kid])
  /\ t.prefix[kid] \in Seq(Chars)

LEMMA SplitsThere ==
  ASSUME NEW t, NEW W, NEW R, Records(t, W, R), NEW q \in Seq(Chars), Splits(t, q),
         NEW at, at = Descend(t, q)
  PROVE  /\ Leaves(t, W, q, at)
         /\ Splitting(t, q, Kid(t, q, at), Overlap(t, q, at))
  <1>1. IsNodes(t) /\ Spells(t, W) /\ Kid(t, q, at) # Nil
    BY DEF Records, Splits
  <1>2. /\ Reaches(t, W, q, at)
        /\ Overlap(t, q, at) # Len(t.prefix[Kid(t, q, at)])
    BY <1>1, DescendStops
  <1>3. NextEdge(t, W, q, at)
    BY <1>1, <1>2, EdgeAhead
  <1>4. Leaves(t, W, q, at)
    BY <1>1, <1>2 DEF Leaves
  <1>5. PICK kid, p, k : /\ kid = Kid(t, q, at) /\ p = t.prefix[kid]
                         /\ k = Overlap(t, q, at)
    OBVIOUS
  <1>6. /\ kid \in NodesOf(t) /\ p \in Seq(Chars) /\ Len(p) \in Nat
        /\ k \in 1 .. Len(p) /\ k # Len(p)
    BY <1>2, <1>3, <1>5 DEF NextEdge
  <1>7. k \in Nat \ {0} /\ k < Len(p)
    BY <1>6
  <1> QED
    BY <1>4, <1>5, <1>6, <1>7 DEF Splitting

-----------------------------------------------------------------------------
(* The look-ups *)

Positions(t) ==
  [node : NodesOf(t), i : Nat, matched : Nat, going : BOOLEAN]

\* Where a look-up of q for owner o can be, that knows of the pairs in K.
Walks(t, W, q, at, K, o) ==
  /\ at \in Positions(t) /\ Agree(W[at.node], q, at.i)
  /\ at.going => at.i = Len(W[at.node])
  /\ at.matched <= at.i
  /\ at.matched > 0 => \E p \in K : p[2] = o /\ Shared(p[1], q) = at.matched

\* They are what the tree has, and maybe more.
Knows(t, W, K, o) ==
  \A n \in NodesOf(t) : o \in t.marks[n] => <<W[n], o>> \in K

LEMMA StartWalks ==
  ASSUME NEW t, IsNodes(t), NEW W, Spells(t, W), NEW q \in Seq(Chars),
         NEW K, NEW o
  PROVE  Walks(t, W, q, Start, K, o)
  <1>1. Start \in Positions(t) /\ Root \in NodesOf(t)
    BY DEF Start, Positions, IsNodes
  <1>2. Agree(<<>>, q, 0) /\ Len(<<>>) = 0
    BY DEF Agree
  <1> QED
    BY <1>1, <1>2 DEF Walks, Start, Spells

\* One step of a look-up, to the next node.
LEMMA VisitWalks ==
  ASSUME NEW t, IsNodes(t), NEW W, Spells(t, W), NEW q \in Seq(Chars),
         NEW K, NEW o, Knows(t, W, K, o), NEW at, Walks(t, W, q, at, K, o),
         at.going, Kid(t, q, at) # Nil
  PROVE  /\ Walks(t, W, q, Visit(t, q, at, o), K, o)
         /\ Visit(t, q, at, o).matched >= at.matched
  <1>0. PICK kid, i, p, k, m :
          /\ kid = Kid(t, q, at) /\ i = at.i + k /\ p = t.prefix[kid]
          /\ k = Overlap(t, q, at)
          /\ m = IF o \in t.marks[kid] THEN i ELSE at.matched
    OBVIOUS
  <1>1. PICK v : v = Visit(t, q, at, o)
    OBVIOUS
  <1>2. v = [node |-> kid, i |-> i, matched |-> m,
             going |-> k = Len(p) /\ i < Len(q)]
    BY <1>0, <1>1 DEF Visit
  <1>3. /\ at.node \in NodesOf(t) /\ at.i \in Nat /\ at.matched \in Nat
        /\ at.matched <= at.i /\ at.i = Len(W[at.node])
        /\ Agree(W[at.node], q, at.i)
    BY DEF Walks, Positions
  <1>4. NextEdge(t, W, q, at)
    BY <1>3, EdgeAhead DEF Reaches
  <1>5. /\ kid \in NodesOf(t) /\ W[kid] \in Seq(Chars) /\ Len(p) \in Nat
        /\ Len(W[kid]) = at.i + Len(p) /\ k \in 1 .. Len(p)
        /\ Agree(W[kid], q, i) /\ Parts(W[kid], q, i)
    BY <1>0, <1>4 DEF NextEdge
  <1>6. i \in Nat /\ i > at.i
    BY <1>0, <1>3, <1>5
  <1>7. m \in Nat /\ m <= i /\ m >= at.matched
    BY <1>0, <1>3, <1>6
  <1>8. v \in Positions(t)
    BY <1>2, <1>5, <1>6, <1>7 DEF Positions
  <1>9. m > 0 => \E x \in K : x[2] = o /\ Shared(x[1], q) = m
    <2>1. CASE o \in t.marks[kid]
      <3>1. Shared(W[kid], q) = i
        BY <1>5, <1>6, SharedIs
      <3>2. <<W[kid], o>> \in K
        BY <1>5, <2>1 DEF Knows
      <3> QED
        BY <1>0, <2>1, <3>1, <3>2
    <2>2. CASE o \notin t.marks[kid]
      BY <1>0, <2>2 DEF Walks
    <2> QED
      BY <2>1, <2>2
  <1>10. v.going => v.i = Len(W[v.node])
    BY <1>0, <1>2, <1>5
  <1> QED
    BY <1>1, <1>2, <1>5, <1>7, <1>8, <1>9, <1>10 DEF Walks

\* The positions of a look-up of q for o.
Looks(t, W, q, K, o) == {at \in Positions(t) : Walks(t, W, q, at, K, o)}

LEMMA AdvanceFacts ==
  ASSUME NEW t, IsNodes(t), NEW W, Spells(t, W), NEW q \in Seq(Chars),
         NEW K, NEW o, Knows(t, W, K, o), NEW at \in Looks(t, W, q, K, o)
  PROVE  /\ Advance(t, q, at, o) \in Looks(t, W, q, K, o)
         /\ Advance(t, q, at, o).matched >= at.matched
  <1>1. Walks(t, W, q, at, K, o) /\ at.matched \in Nat
    BY DEF Looks, Positions
  <1>2. CASE at.going /\ Kid(t, q, at) # Nil
    <2>1. Advance(t, q, at, o) = Visit(t, q, at, o)
      BY <1>2 DEF Advance
    <2> QED
      BY <1>1, <1>2, <2>1, VisitWalks DEF Looks, Walks
  <1>3. CASE ~(at.going /\ Kid(t, q, at) # Nil)
    <2>1. Advance(t, q, at, o) = at
      BY <1>3 DEF Advance
    <2> QED
      BY <1>1, <2>1
  <1> QED
    BY <1>2, <1>3

LEMMA WalkFacts ==
  ASSUME NEW t, IsNodes(t), NEW W, Spells(t, W), NEW q \in Seq(Chars),
         NEW K, NEW o, Knows(t, W, K, o)
  PROVE  /\ Walk(t, q, o) \in [0 .. Len(q) -> Looks(t, W, q, K, o)]
         /\ Walk(t, q, o)[0] = Start
         /\ \A k \in 1 .. Len(q) :
              Walk(t, q, o)[k] = Advance(t, q, Walk(t, q, o)[k - 1], o)
  <1>1. Start \in Looks(t, W, q, K, o)
    <2>1. Walks(t, W, q, Start, K, o)
      BY StartWalks
    <2> QED
      BY <2>1 DEF Looks, Walks
  <1>2. \A at \in Looks(t, W, q, K, o) :
          Advance(t, q, at, o) \in Looks(t, W, q, K, o)
    BY AdvanceFacts
  <1> QED
    BY <1>1, <1>2, WalkIs

\* What a look-up has matched it keeps.
LEMMA MatchAtLeast ==
  ASSUME NEW t, IsNodes(t), NEW W, Spells(t, W), NEW q \in Seq(Chars),
         NEW K, NEW o, Knows(t, W, K, o), NEW k \in 0 .. Len(q)
  PROVE  Match(t, q, o) >= Walk(t, q, o)[k].matched
  <1>0. PICK l, d, v : l = Len(q) /\ d = Walk(t, q, o) /\ v = d[k].matched
    OBVIOUS
  <1>1. /\ l \in Nat /\ k \in 0 .. l
        /\ d \in [0 .. l -> Looks(t, W, q, K, o)]
        /\ \A j \in 1 .. l : d[j] = Advance(t, q, d[j - 1], o)
    BY <1>0, WalkFacts
  <1>2. \A j \in 0 .. l : d[j].matched \in Nat /\ v \in Nat
    BY <1>0, <1>1 DEF Looks, Positions
  <1> DEFINE T == {j \in 0 .. l : j >= k => d[j].matched >= v}
  <1>3. 0 \in T
    BY <1>0, <1>1, <1>2
  <1>4. ASSUME NEW j \in 0 .. l, j \in T, j < l PROVE j + 1 \in T
    <2>1. j + 1 \in 1 .. l /\ (j + 1) - 1 = j /\ j + 1 \in 0 .. l
      BY <1>1, <1>4
    <2>2. d[j + 1] = Advance(t, q, d[j], o) /\ d[j] \in Looks(t, W, q, K, o)
      BY <1>1, <1>4, <2>1
    <2>3. d[j + 1].matched >= d[j].matched
      BY <2>2, AdvanceFacts
    <2>4. j + 1 >= k => j + 1 = k \/ j >= k
      BY <1>1
    <2>5. j + 1 >= k => d[j + 1].matched >= v
      BY <1>0, <1>2, <1>4, <2>1, <2>3, <2>4
    <2> QED
      BY <2>1, <2>5
  <1>5. l \in T
    <2> HIDE DEF T
    <2>1. 0 .. l \subseteq T
      BY <1>1, <1>3, <1>4, UpTo
    <2> QED
      BY <1>1, <2>1
  <1> QED
    BY <1>0, <1>1, <1>5 DEF Match

\* A look-up of q has come to node n, with the match of the owner of a mark.
Met(t, W, q, o, n, at) ==
  /\ at.node = n /\ at.i = Len(W[n]) /\ ((n = Root \/ at.i < Len(q)) => at.going)
  /\ n # Root /\ o \in t.marks[n] => at.matched = at.i

\* As an insertion, it comes by every node whose word q starts with.
LEMMA LooksInto ==
  ASSUME NEW t, IsNodes(t), NEW W, Spells(t, W), NEW q \in Seq(Chars),
         NEW K, NEW o, Knows(t, W, K, o),
         NEW n \in NodesOf(t), Agree(W[n], q, Len(W[n]))
  PROVE  \E k \in 0 .. Len(W[n]) :
           k <= Len(q) /\ Met(t, W, q, o, n, Walk(t, q, o)[k])
  <1> DEFINE Visited(m) == \E k \in 0 .. Len(W[m]) :
               k <= Len(q) /\ Met(t, W, q, o, m, Walk(t, q, o)[k])
             Missed == {m \in NodesOf(t) :
                          Agree(W[m], q, Len(W[m])) /\ ~Visited(m)}
  <1>1. Len(q) \in Nat
    OBVIOUS
  <1>2. Visited(Root)
    <2>1. Walk(t, q, o)[0] = Start /\ W[Root] = <<>> /\ Len(W[Root]) = 0
      BY WalkFacts DEF Spells
    <2>2. Met(t, W, q, o, Root, Start)
      BY <2>1 DEF Start, Met
    <2>3. 0 \in 0 .. Len(W[Root])
      BY <2>1
    <2> QED
      BY <1>1, <2>1, <2>2, <2>3
  <1> SUFFICES ASSUME Missed # {} PROVE FALSE
    OBVIOUS
  <1>3. Missed \subseteq NodesOf(t) \ {Root}
    BY <1>2
  <1>4. \A m \in Missed : Agree(W[m], q, Len(W[m])) /\ ~Visited(m)
    OBVIOUS
  <1>5. \A m \in NodesOf(t) \ Missed : Agree(W[m], q, Len(W[m])) => Visited(m)
    OBVIOUS
  <1> HIDE DEF Visited, Missed
  <1>6. PICK m \in Missed, p \in NodesOf(t) \ Missed :
          Agree(W[p], q, Len(W[p])) /\ Fits(t, W, q, p, m)
    BY <1>3, <1>4, FirstMissed
  <1>7. PICK lp, lm, here : /\ lp = Len(W[p]) /\ lm = Len(W[m])
                            /\ here = [node |-> p, i |-> lp]
    OBVIOUS
  <1>8. /\ lp \in Nat /\ lm \in Nat /\ lp < lm /\ lm <= Len(q) /\ m # Nil
        /\ Kid(t, q, here) = m /\ lm = lp + Len(t.prefix[m])
        /\ Overlap(t, q, here) = Len(t.prefix[m])
    BY <1>6, <1>7 DEF Fits
  <1>9. PICK k \in 0 .. lp : Met(t, W, q, o, p, Walk(t, q, o)[k])
    BY <1>5, <1>6, <1>7 DEF Visited
  <1>10. PICK at : at = Walk(t, q, o)[k]
    OBVIOUS
  <1>11. at.node = p /\ at.i = lp /\ at.going
    <2>1. lp < Len(q)
      BY <1>1, <1>8
    <2> QED
      BY <1>7, <1>9, <1>10, <2>1 DEF Met
  <1>12. Kid(t, q, at) = m /\ Overlap(t, q, at) = Len(t.prefix[m])
    BY <1>7, <1>8, <1>11 DEF Kid, Overlap
  <1>13. Met(t, W, q, o, m, Advance(t, q, at, o))
    <2>1. m # Root
      BY <1>3
    <2>2. Advance(t, q, at, o) =
            [node |-> m, i |-> lm,
             matched |-> IF o \in t.marks[m] THEN lm ELSE at.matched,
             going |-> lm < Len(q)]
      BY <1>8, <1>11, <1>12 DEF Advance, Visit
    <2>3. PICK a, g, v : /\ a = Advance(t, q, at, o) /\ g = (lm < Len(q))
                         /\ v = IF o \in t.marks[m] THEN lm ELSE at.matched
      OBVIOUS
    <2>4. a = [node |-> m, i |-> lm, matched |-> v, going |-> g]
      BY <2>2, <2>3
    <2>5. a.node = m /\ a.i = lm /\ a.matched = v /\ a.going = g
      BY <2>4
    <2>6. lm < Len(q) => a.going
      BY <2>3, <2>5, Zenon
    <2>7. o \in t.marks[m] => a.matched = a.i
      BY <2>3, <2>5
    <2> QED
      BY <1>7, <2>1, <2>3, <2>5, <2>6, <2>7 DEF Met
  <1>14. /\ k + 1 \in 1 .. Len(q) /\ (k + 1) - 1 = k
         /\ k + 1 \in 0 .. lm /\ k + 1 <= Len(q)
    BY <1>1, <1>8
  <1>15. Walk(t, q, o)[k + 1] = Advance(t, q, at, o)
    BY <1>10, <1>14, WalkFacts
  <1>16. Visited(m)
    BY <1>7, <1>13, <1>14, <1>15 DEF Visited
  <1> QED
    BY <1>4, <1>6, <1>16

\* The match of a look-up is that of a pair it knows of, and the whole of every
\* prompt of the owner that its own starts with.
LEMMA MatchFacts ==
  ASSUME NEW t, NEW W, NEW R, Records(t, W, R), NEW q \in Seq(Chars), NEW o
  PROVE  /\ Match(t, q, o) > 0 =>
              \E x \in R : x[2] = o /\ Shared(x[1], q) = Match(t, q, o)
         /\ \A x \in R : x[1] # <<>> /\ x[2] = o /\ Agree(x[1], q, Len(x[1])) =>
              Match(t, q, o) >= Len(x[1])
  <1>1. IsNodes(t) /\ Spells(t, W) /\ Marked(t, W, R)
    BY DEF Records
  <1>2. Knows(t, W, R, o)
    BY <1>1 DEF Knows, Marked
  <1>3. Len(q) \in Nat
    OBVIOUS
  <1>4. Walks(t, W, q, Walk(t, q, o)[Len(q)], R, o)
    <2>1. Walk(t, q, o) \in [0 .. Len(q) -> Looks(t, W, q, R, o)]
      BY <1>1, <1>2, WalkFacts
    <2> QED
      BY <1>3, <2>1 DEF Looks
  <1>5. ASSUME NEW x \in R, x[1] # <<>>, x[2] = o, Agree(x[1], q, Len(x[1]))
        PROVE  Match(t, q, o) >= Len(x[1])
    <2>1. PICK n \in NodesOf(t) : W[n] = x[1] /\ o \in t.marks[n]
      BY <1>1, <1>5 DEF Marked
    <2>2. n # Root
      BY <1>1, <1>5, <2>1 DEF Spells
    <2>3. PICK k \in 0 .. Len(W[n]) :
            k <= Len(q) /\ Met(t, W, q, o, n, Walk(t, q, o)[k])
      <3>1. Agree(W[n], q, Len(W[n]))
        BY <1>5, <2>1
      <3> QED
        BY <1>1, <1>2, <3>1, LooksInto
    <2>4. k \in 0 .. Len(q)
      <3>1. Len(W[n]) \in Nat
        BY <1>1 DEF Spells
      <3> QED
        BY <1>3, <2>3, <3>1
    <2>5. Walk(t, q, o)[k].matched = Len(x[1])
      BY <2>1, <2>2, <2>3 DEF Met
    <2> QED
      BY <1>1, <1>2, <2>4, <2>5, MatchAtLeast
  <1> QED
    BY <1>4, <1>5 DEF Match, Walks

-----------------------------------------------------------------------------
(* The policy *)

\* What reader x, that knows of K, has of the tree t with words W: where it stands,
\* and that what it has matched is right unless a node was shortened in its hands.
Holds(x, K, t, W) ==
  /\ x.matched > 0 => \E p \in K : p[2] = Here /\ Shared(p[1], x.q) = x.matched
  /\ x.step = "take" => x.i = Len(W[x.node]) /\ Agree(W[x.node], x.q, x.i)
  /\ x.step = "read" => OnEdge(W[x.node], t.prefix[x.node], x.q, x.i)
  /\ x.step \in {"peers", "next"} =>
       /\ Parts(W[x.node], x.q, x.i)
       /\ x.shared < Len(t.prefix[x.node]) \/ x.i = Len(W[x.node])

\* It walks s with words U: the tree t, or one that was cleared meanwhile.
Follows(x, K, t, W, s, U) ==
  /\ IsReader(x, s) /\ IsNodes(s) /\ Spells(s, U) /\ Knows(s, U, K, Here)
  /\ x.old = {} => s = t /\ U = W
  /\ ~x.torn => Holds(x, K, s, U)

Active(x, K, t, W, R) ==
  /\ x.q \in Prompts /\ K \subseteq Prompts \X Owners /\ R \subseteq K
  /\ \E s, U : Follows(x, K, t, W, s, U)

ReaderInv(x, K, t, W, R) == (x = Idle /\ K = {}) \/ Active(x, K, t, W, R)

\* The tree has words that fit what is recorded and what the readers do.
HasWords ==
  \E W : /\ Records(tree, W, recorded)
         /\ \A r \in Readers : ReaderInv(reader[r], known[r], tree, W, recorded)

\* A reader that has the node in hand that is being shortened is torn.
Harms(x) == x.step \in InHand /\ x.old = {} /\ Cutting(x.node)

Careful == \A r \in Readers : Harms(reader[r]) => reader[r].torn

\* There is an edge to split when its text has been written.
Splittable == cut = "short" => \A z \in mu : Splits(tree, z[1])

\* Each insertion makes up to two nodes, in the order of their numbers.
Made == IF cut = "linked" THEN 2 * inserts + 1 ELSE 2 * inserts

Numbered == \E m \in 0 .. Made : NodesOf(tree) = 0 .. m

Bounded ==
  /\ inserts \in 0 .. MaxInserts /\ recorded \subseteq Prompts \X Owners
  /\ \/ mu = {}
     \/ inserts < MaxInserts /\ \E x \in Prompts \X Owners : mu = {x}
  /\ cut \in {"no", "short", "linked"} /\ (mu = {} => cut = "no")
  /\ DOMAIN reader = Readers /\ known \in [Readers -> SUBSET (Prompts \X Owners)]

TreeInv == HasWords /\ Careful /\ Splittable /\ Numbered /\ Bounded

LEMMA EmptyRecords ==
  /\ Records(Empty, [n \in {Root} |-> <<>>], {}) /\ NodesOf(Empty) = 0 .. 0
  <1>1. NodesOf(Empty) = {Root} /\ 0 .. 0 = {Root}
    BY DEF NodesOf, Empty, Root
  <1>2. IsNodes(Empty)
    <2>1. [c \in Chars |-> Nil] \in [Chars -> {Root} \cup {Nil}]
      OBVIOUS
    <2>2. Empty.kids \in [{Root} -> [Chars -> {Root} \cup {Nil}]]
      BY <2>1 DEF Empty
    <2>3. /\ Empty.prefix \in [{Root} -> Seq(Chars)]
          /\ Empty.marks \in [{Root} -> SUBSET Owners]
      BY DEF Empty
    <2>4. Empty = [kids |-> Empty.kids, prefix |-> Empty.prefix,
                   marks |-> Empty.marks]
      BY DEF Empty
    <2> QED
      BY <1>1, <2>2, <2>3, <2>4 DEF IsNodes
  <1>3. \A c \in Chars : Empty.kids[Root][c] = Nil
    BY DEF Empty
  <1>4. Spells(Empty, [n \in {Root} |-> <<>>])
    BY <1>1, <1>3 DEF Spells, Edge
  <1>5. Marked(Empty, [n \in {Root} |-> <<>>], {})
    BY <1>1 DEF Marked, Empty
  <1> QED
    BY <1>1, <1>2, <1>4, <1>5 DEF Records

LEMMA InitTreeInv == Init => TreeInv
  <1> SUFFICES ASSUME Init PROVE TreeInv
    OBVIOUS
  <1>1. MaxInserts \in Nat
    BY TreeAssumption DEF TreeAssumption
  <1>2. Bounded
    <2>1. known \in [Readers -> SUBSET (Prompts \X Owners)]
      BY DEF Init
    <2>2. DOMAIN reader = Readers
      BY DEF Init
    <2>3. inserts \in 0 .. MaxInserts
      BY <1>1 DEF Init
    <2>4. recorded = {} /\ mu = {} /\ cut = "no"
      BY DEF Init
    <2> QED
      BY <2>1, <2>2, <2>3, <2>4 DEF Bounded
  <1>3. Numbered
    <2>1. Made = 2 * 0 /\ 0 \in 0 .. 2 * 0
      BY DEF Init, Made
    <2> QED
      BY <2>1, EmptyRecords DEF Init, Numbered
  <1>4. \A r \in Readers : reader[r] = Idle /\ known[r] = {}
    BY DEF Init
  <1>5. HasWords
    BY <1>4, EmptyRecords DEF Init, HasWords, ReaderInv
  <1>6. Careful /\ Splittable
    BY DEF Init, Careful, Harms, Cutting, Splittable
  <1> QED
    BY <1>2, <1>3, <1>5, <1>6 DEF TreeInv

LEMMA ReaderCases ==
  ASSUME NEW x, NEW K, NEW t, NEW W, NEW R
  PROVE  /\ ReaderInv(x, K, t, W, R) =>
              IF x.q # <<>> THEN Active(x, K, t, W, R) ELSE x = Idle /\ K = {}
         /\ Active(x, K, t, W, R) => x.q \in Seq(Chars) /\ x.q # <<>>
  <1>1. Idle.q = <<>>
    BY DEF Idle, At
  <1>2. \A q \in Prompts : q \in Seq(Chars) /\ q # <<>>
    BY TreeAssumption DEF TreeAssumption
  <1>3. x = Idle /\ K = {} => x.q = <<>>
    BY <1>1
  <1>4. Active(x, K, t, W, R) => x.q \in Seq(Chars) /\ x.q # <<>>
    BY <1>2 DEF Active
  <1> QED
    BY <1>3, <1>4 DEF ReaderInv

\* The tree the reader walks.
SeenBy(x, t) == IF x.old = {} THEN t ELSE CHOOSE u \in x.old : TRUE

LEMMA FollowsSeen ==
  ASSUME NEW x, NEW K, NEW t, NEW W, NEW s, NEW U, Follows(x, K, t, W, s, U)
  PROVE  s = SeenBy(x, t)
  <1>1. CASE x.old = {}
    BY <1>1 DEF Follows, SeenBy
  <1>2. CASE x.old # {}
    <2>1. x.old = {s}
      BY <1>2 DEF Follows, IsReader
    <2> QED
      BY <2>1 DEF SeenBy
  <1> QED
    BY <1>1, <1>2

\* A reader goes on while the tree grows, if the node in its hands stays as it is.
LEMMA ReaderGrows ==
  ASSUME NEW x, NEW K, NEW t, NEW W, NEW R, Active(x, K, t, W, R),
         NEW u, NEW V, NEW S, Records(u, V, S), NodesOf(t) \subseteq NodesOf(u),
         NEW L, L \subseteq Prompts \X Owners, K \subseteq L, S \subseteq L,
         \A n \in NodesOf(t) : V[n] = W[n],
         x.step \in InHand /\ x.old = {} /\ ~x.torn =>
           u.prefix[x.node] = t.prefix[x.node]
  PROVE  Active(x, L, u, V, S)
  <1>1. PICK s, U : Follows(x, K, t, W, s, U)
    BY DEF Active
  <1>2. CASE x.old = {}
    <2>1. /\ s = t /\ U = W /\ x.node \in NodesOf(t) /\ IsNodes(u) /\ Spells(u, V)
          /\ V[x.node] = W[x.node]
      BY <1>1, <1>2 DEF Follows, IsReader, Records
    <2>2. IsReader(x, u)
      BY <1>1, <1>2, <2>1 DEF Follows, IsReader
    <2>3. Knows(u, V, L, Here)
      BY DEF Knows, Records, Marked
    <2>4. ASSUME ~x.torn PROVE Holds(x, L, u, V)
      <3>1. Holds(x, K, t, W)
        BY <1>1, <2>1, <2>4 DEF Follows
      <3>2. x.step \in InHand => u.prefix[x.node] = t.prefix[x.node]
        BY <1>2, <2>4
      <3>3. x.matched > 0 => \E p \in L : p[2] = Here /\ Shared(p[1], x.q) = x.matched
        BY <3>1 DEF Holds
      <3> QED
        BY <2>1, <3>1, <3>2, <3>3 DEF Holds, InHand
    <2>5. Follows(x, L, u, V, u, V)
      BY <2>1, <2>2, <2>3, <2>4 DEF Follows
    <2> QED
      BY <2>5 DEF Active
  <1>3. CASE x.old # {}
    <2>1. Knows(s, U, L, Here)
      BY <1>1 DEF Follows, Knows
    <2>2. ~x.torn => Holds(x, L, s, U)
      BY <1>1 DEF Follows, Holds
    <2>3. Follows(x, L, u, V, s, U)
      BY <1>1, <1>3, <2>1, <2>2 DEF Follows
    <2> QED
      BY <2>3 DEF Active
  <1> QED
    BY <1>2, <1>3

\* It keeps its tree when that is cleared.
LEMMA ReaderCleared ==
  ASSUME NEW x, NEW K, NEW t, NEW W, NEW R, Active(x, K, t, W, R), NEW u, NEW V
  PROVE  Active([x EXCEPT !.old = {SeenBy(x, t)}], K, u, V, {})
  <1>1. PICK s, U : Follows(x, K, t, W, s, U)
    BY DEF Active
  <1>2. s = SeenBy(x, t)
    BY <1>1, FollowsSeen
  <1>3. PICK y : y = [x EXCEPT !.old = {s}]
    OBVIOUS
  <1>4. /\ y.q = x.q /\ y.step = x.step /\ y.node = x.node /\ y.i = x.i
        /\ y.shared = x.shared /\ y.matched = x.matched /\ y.torn = x.torn
        /\ y.old = {s} /\ IsReader(y, s)
    BY <1>1, <1>3 DEF Follows, IsReader
  <1>5. Holds(x, K, s, U) => Holds(y, K, s, U)
    BY <1>4 DEF Holds
  <1>6. Follows(y, K, u, V, s, U)
    BY <1>1, <1>4, <1>5 DEF Follows
  <1> QED
    BY <1>2, <1>3, <1>4, <1>6 DEF Active

\* Nothing is claimed of a torn one.
LEMMA ReaderTorn ==
  ASSUME NEW x, NEW K, NEW t, NEW W, NEW R, Active(x, K, t, W, R)
  PROVE  Active([x EXCEPT !.torn = TRUE], K, t, W, R)
  <1>1. PICK s, U : Follows(x, K, t, W, s, U)
    BY DEF Active
  <1>2. PICK y : y = [x EXCEPT !.torn = TRUE]
    OBVIOUS
  <1>3. y.q = x.q /\ y.old = x.old /\ y.torn /\ IsReader(y, s)
    BY <1>1, <1>2 DEF Follows, IsReader
  <1>4. Follows(y, K, t, W, s, U)
    BY <1>1, <1>3 DEF Follows
  <1> QED
    BY <1>2, <1>3, <1>4 DEF Active

\* One access of a reader: y is x after it.
LEMMA ReaderMoves ==
  ASSUME NEW x, NEW K, NEW t, NEW W, NEW R, Active(x, K, t, W, R), NEW y,
         y.q = x.q, y.old = x.old,
         \A s, U : Follows(x, K, t, W, s, U) =>
                     IsReader(y, s) /\ (~y.torn => Holds(y, K, s, U))
  PROVE  Active(y, K, t, W, R)
  <1>1. PICK s, U : Follows(x, K, t, W, s, U)
    BY DEF Active
  <1>2. Follows(y, K, t, W, s, U)
    BY <1>1 DEF Follows
  <1> QED
    BY <1>2 DEF Active

\* lookup := currentNode.children[currentChar]
LEMMA ReaderTakes ==
  ASSUME NEW x, NEW K, NEW t, NEW W, NEW R, Active(x, K, t, W, R), x.step = "take",
         NEW kid, kid = Kid(SeenBy(x, t), x.q, x), kid # Nil, NEW b \in BOOLEAN,
         NEW y, y = [x EXCEPT !.step = "read", !.node = kid, !.torn = x.torn \/ b]
  PROVE  Active(y, K, t, W, R)
  <1>q. x.q \in Seq(Chars)
    BY ReaderCases
  <1>1. ASSUME NEW s, NEW U, Follows(x, K, t, W, s, U)
        PROVE  /\ y.q = x.q /\ y.old = x.old /\ IsReader(y, s)
               /\ ~y.torn => Holds(y, K, s, U)
    <2>0. kid = Kid(s, x.q, x)
      BY <1>1, FollowsSeen
    <2>1. /\ IsNodes(s) /\ Spells(s, U) /\ IsReader(x, s)
      BY <1>1 DEF Follows
    <2>2. kid \in NodesOf(s)
      <3>1. x.i \in Nat /\ Len(x.q) \in Nat /\ x.node \in NodesOf(s)
        BY <1>q, <2>1 DEF IsReader
      <3>2. x.i < Len(x.q) /\ kid = s.kids[x.node][x.q[x.i + 1]]
        BY <2>0 DEF Kid
      <3>3. x.q[x.i + 1] \in Chars
        BY <1>q, <3>1, <3>2
      <3> QED
        BY <2>1, <3>1, <3>2, <3>3, NilIsNoNode
    <2>3. /\ y.q = x.q /\ y.step = "read" /\ y.node = kid /\ y.i = x.i
          /\ y.matched = x.matched /\ y.torn = (x.torn \/ b) /\ y.old = x.old
          /\ IsReader(y, s)
      BY <2>1, <2>2 DEF IsReader, InHand
    <2>4. ASSUME ~y.torn PROVE Holds(y, K, s, U)
      <3>1. Holds(x, K, s, U)
        BY <1>1, <2>3, <2>4 DEF Follows
      <3>2. Reaches(s, U, x.q, x)
        BY <2>1, <3>1 DEF Holds, Reaches, IsReader
      <3>3. NextEdge(s, U, x.q, x)
        BY <1>q, <2>0, <2>1, <3>2, EdgeAhead
      <3>4. PICK p, v, i : p = s.prefix[kid] /\ v = U[x.node] /\ i = x.i
        OBVIOUS
      <3>5. /\ p \in Seq(Chars) /\ i \in Nat /\ U[kid] \in Seq(Chars)
            /\ Len(U[kid]) = i + Len(p) /\ Joins(v, p, U[kid])
            /\ i = Len(v) /\ Agree(v, x.q, i)
        BY <2>0, <3>2, <3>3, <3>4 DEF NextEdge, Reaches
      <3>6. Agree(U[kid], x.q, i) /\ \A j \in 1 .. Len(p) : U[kid][i + j] = p[j]
        BY <3>5 DEF Joins, Agree
      <3>7. OnEdge(U[kid], p, x.q, i)
        BY <3>5, <3>6 DEF OnEdge
      <3> QED
        BY <2>3, <3>1, <3>4, <3>7 DEF Holds
    <2> QED
      BY <2>3, <2>4
  <1>2. y.q = x.q /\ y.old = x.old
    BY <1>1 DEF Active
  <1> QED
    BY <1>1, <1>2, ReaderMoves

\* sharedLen := sharedPrefixLength(remainingText, lookup.prefix), of a text p
LEMMA ReaderShares ==
  ASSUME NEW x, NEW K, NEW t, NEW W, NEW R, Active(x, K, t, W, R), x.step = "read",
         NEW p \in Seq(Chars), ~x.torn => p = SeenBy(x, t).prefix[x.node],
         NEW k, k = Shared(From(x.q, x.i), p),
         NEW y, y = [x EXCEPT !.step = "peers", !.shared = k, !.i = x.i + k]
  PROVE  Active(y, K, t, W, R)
  <1>q. x.q \in Seq(Chars)
    BY ReaderCases
  <1>1. ASSUME NEW s, NEW U, Follows(x, K, t, W, s, U)
        PROVE  /\ y.q = x.q /\ y.old = x.old /\ IsReader(y, s)
               /\ ~y.torn => Holds(y, K, s, U)
    <2>0. s = SeenBy(x, t)
      BY <1>1, FollowsSeen
    <2>1. /\ IsNodes(s) /\ Spells(s, U) /\ IsReader(x, s)
      BY <1>1 DEF Follows
    <2>2. k \in Nat /\ x.i + k \in Nat /\ x.i + k <= Len(x.q)
      <3>1. x.i \in 0 .. Len(x.q) /\ Len(x.q) \in Nat
        BY <1>q, <2>1 DEF IsReader
      <3>2. From(x.q, x.i) \in Seq(Chars) /\ Len(From(x.q, x.i)) = Len(x.q) - x.i
        BY <1>q, <3>1, FromFacts
      <3>3. k \in 0 .. Len(x.q) - x.i
        BY <3>2, SharedFacts
      <3> QED
        BY <3>1, <3>3
    <2>3. /\ y.q = x.q /\ y.step = "peers" /\ y.node = x.node /\ y.i = x.i + k
          /\ y.shared = k /\ y.matched = x.matched /\ y.torn = x.torn
          /\ y.old = x.old /\ IsReader(y, s)
      BY <2>1, <2>2 DEF IsReader, InHand
    <2>4. ASSUME ~y.torn PROVE Holds(y, K, s, U)
      <3>1. Holds(x, K, s, U) /\ p = s.prefix[x.node]
        BY <1>1, <2>0, <2>3, <2>4 DEF Follows
      <3>2. OnEdge(U[x.node], p, x.q, x.i)
        BY <3>1 DEF Holds
      <3>3. k \in 0 .. Len(p) /\ Parts(U[x.node], x.q, x.i + k)
        BY <1>q, <3>2, EdgeShares
      <3>4. Len(U[x.node]) = x.i + Len(p) /\ Len(p) \in Nat
        BY <3>2 DEF OnEdge
      <3>5. k < Len(p) \/ x.i + k = Len(U[x.node])
        BY <3>3, <3>4
      <3> QED
        BY <2>3, <3>1, <3>3, <3>5 DEF Holds
    <2> QED
      BY <2>3, <2>4
  <1>2. y.q = x.q /\ y.old = x.old
    BY <1>1 DEF Active
  <1> QED
    BY <1>1, <1>2, ReaderMoves

\* for _, peer := range lookup.peers
LEMMA ReaderMarks ==
  ASSUME NEW x, NEW K, NEW t, NEW W, NEW R, Active(x, K, t, W, R), x.step = "peers",
         NEW m, m = IF Here \in SeenBy(x, t).marks[x.node] THEN x.i ELSE x.matched,
         NEW y, y = [x EXCEPT !.step = "next", !.matched = m]
  PROVE  Active(y, K, t, W, R)
  <1>q. x.q \in Seq(Chars)
    BY ReaderCases
  <1>1. ASSUME NEW s, NEW U, Follows(x, K, t, W, s, U)
        PROVE  /\ y.q = x.q /\ y.old = x.old /\ IsReader(y, s)
               /\ ~y.torn => Holds(y, K, s, U)
    <2>0. s = SeenBy(x, t)
      BY <1>1, FollowsSeen
    <2>1. /\ IsNodes(s) /\ Spells(s, U) /\ Knows(s, U, K, Here) /\ IsReader(x, s)
      BY <1>1 DEF Follows
    <2>2. x.i \in Nat /\ m \in Nat /\ x.node \in NodesOf(s)
      BY <2>1 DEF IsReader
    <2>3. /\ y.q = x.q /\ y.step = "next" /\ y.node = x.node /\ y.i = x.i
          /\ y.shared = x.shared /\ y.matched = m /\ y.torn = x.torn
          /\ y.old = x.old /\ IsReader(y, s)
      BY <2>1, <2>2 DEF IsReader, InHand
    <2>4. ASSUME ~y.torn PROVE Holds(y, K, s, U)
      <3>1. Holds(x, K, s, U)
        BY <1>1, <2>3, <2>4 DEF Follows
      <3>2. /\ Parts(U[x.node], x.q, x.i)
            /\ x.shared < Len(s.prefix[x.node]) \/ x.i = Len(U[x.node])
        BY <3>1 DEF Holds
      <3>3. m > 0 => \E z \in K : z[2] = Here /\ Shared(z[1], x.q) = m
        <4>1. CASE Here \in s.marks[x.node]
          <5>1. U[x.node] \in Seq(Chars)
            BY <2>1, <2>2 DEF Spells
          <5>2. Shared(U[x.node], x.q) = x.i
            BY <1>q, <2>2, <3>2, <5>1, SharedIs
          <5>3. <<U[x.node], Here>> \in K
            BY <2>1, <2>2, <4>1 DEF Knows
          <5> QED
            BY <2>0, <4>1, <5>2, <5>3
        <4>2. CASE Here \notin s.marks[x.node]
          BY <2>0, <3>1, <4>2 DEF Holds
        <4> QED
          BY <4>1, <4>2
      <3> QED
        BY <2>3, <3>2, <3>3 DEF Holds
    <2> QED
      BY <2>3, <2>4
  <1>2. y.q = x.q /\ y.old = x.old
    BY <1>1 DEF Active
  <1> QED
    BY <1>1, <1>2, ReaderMoves

\* if sharedLen < len(lookup.prefix), of a text p
LEMMA ReaderGoesOn ==
  ASSUME NEW x, NEW K, NEW t, NEW W, NEW R, Active(x, K, t, W, R), x.step = "next",
         NEW p, ~x.torn => p = SeenBy(x, t).prefix[x.node],
         NEW y, y = [x EXCEPT !.step = IF x.shared < Len(p) THEN "done" ELSE "take"]
  PROVE  Active(y, K, t, W, R)
  <1>1. ASSUME NEW s, NEW U, Follows(x, K, t, W, s, U)
        PROVE  /\ y.q = x.q /\ y.old = x.old /\ IsReader(y, s)
               /\ ~y.torn => Holds(y, K, s, U)
    <2>0. s = SeenBy(x, t)
      BY <1>1, FollowsSeen
    <2>1. /\ IsNodes(s) /\ Spells(s, U) /\ IsReader(x, s)
      BY <1>1 DEF Follows
    <2>2. PICK to \in {"done", "take"} :
            to = IF x.shared < Len(p) THEN "done" ELSE "take"
      OBVIOUS
    <2>3. /\ y.q = x.q /\ y.step = to /\ y.node = x.node /\ y.i = x.i
          /\ y.matched = x.matched /\ y.torn = x.torn
          /\ y.old = x.old /\ IsReader(y, s)
      BY <2>1, <2>2 DEF IsReader
    <2>4. ASSUME ~y.torn PROVE Holds(y, K, s, U)
      <3>1. Holds(x, K, s, U) /\ p = s.prefix[x.node]
        BY <1>1, <2>0, <2>3, <2>4 DEF Follows
      <3>2. /\ Parts(U[x.node], x.q, x.i)
            /\ x.shared < Len(p) \/ x.i = Len(U[x.node])
        BY <3>1 DEF Holds
      <3>3. to = "take" => x.i = Len(U[x.node]) /\ Agree(U[x.node], x.q, x.i)
        BY <2>2, <3>2 DEF Parts
      <3> QED
        BY <2>3, <3>1, <3>3 DEF Holds
    <2> QED
      BY <2>3, <2>4
  <1>2. y.q = x.q /\ y.old = x.old
    BY <1>1 DEF Active
  <1> QED
    BY <1>1, <1>2, ReaderMoves

LEMMA ReaderStarts ==
  ASSUME NEW t, NEW W, NEW R, Records(t, W, R), R \subseteq Prompts \X Owners,
         NEW q \in Prompts
  PROVE  Active(At(q), R, t, W, R)
  <1>0. PICK x : x = At(q)
    OBVIOUS
  <1>1. q \in Seq(Chars) /\ IsNodes(t) /\ Spells(t, W)
    BY TreeAssumption DEF TreeAssumption, Records
  <1>2. /\ x.q = q /\ x.step = "take" /\ x.node = Root /\ x.i = 0 /\ x.matched = 0
        /\ x.torn = FALSE /\ x.old = {}
    BY <1>0 DEF At
  <1>3. IsReader(x, t)
    BY <1>0, <1>1 DEF At, IsReader, IsNodes
  <1>4. Agree(<<>>, q, 0) /\ Len(<<>>) = 0
    BY <1>1 DEF Agree
  <1>5. Holds(x, R, t, W)
    BY <1>1, <1>2, <1>4 DEF Holds, Spells
  <1>6. Knows(t, W, R, Here)
    BY DEF Knows, Records, Marked
  <1>7. Follows(x, R, t, W, t, W)
    BY <1>1, <1>2, <1>3, <1>5, <1>6 DEF Follows
  <1> QED
    BY <1>0, <1>2, <1>7 DEF Active

-----------------------------------------------------------------------------
(* The steps *)

\* Active readers are those that are reading.
LEMMA Readings ==
  ASSUME NEW W, \A r \in Readers : ReaderInv(reader[r], known[r], tree, W, recorded)
  PROVE  \A r \in Readers :
           IF Reading(r) THEN Active(reader[r], known[r], tree, W, recorded)
           ELSE reader[r] = Idle /\ known[r] = {}
  BY ReaderCases DEF Reading

\* No idle one has a node in hand.
LEMMA IdleHarms == Idle.step = "take" /\ Idle.step \notin InHand /\ ~Harms(Idle)
  BY DEF Harms, Idle, At, InHand

\* The words of the tree, as the readers see them.
LEMMA SomeWords ==
  ASSUME TreeInv
  PROVE  \E W : /\ Records(tree, W, recorded)
                /\ \A r \in Readers :
                     ReaderInv(reader[r], known[r], tree, W, recorded)
  BY DEF TreeInv, HasWords

LEMMA InsertLockStep ==
  ASSUME TreeInv, NEW q \in Prompts, NEW o \in Owners, InsertLock(q, o)
  PROVE  TreeInv'
  <1>1. HasWords'
    BY DEF TreeInv, HasWords, InsertLock
  <1>2. Numbered'
    BY DEF TreeInv, Numbered, Made, InsertLock
  <1>3. cut = "no" /\ cut' = "no"
    BY DEF TreeInv, Bounded, InsertLock
  <1>4. Careful' /\ Splittable'
    BY <1>3 DEF Careful, Harms, Cutting, Splittable
  <1>5. Bounded'
    <2>1. <<q, o>> \in Prompts \X Owners /\ mu' = {<<q, o>>} /\ inserts < MaxInserts
      BY DEF InsertLock
    <2>2. cut' \in {"no", "short", "linked"} /\ (mu' = {} => cut' = "no")
      BY <1>3
    <2> QED
      BY <2>1, <2>2 DEF TreeInv, Bounded, InsertLock
  <1> QED
    BY <1>1, <1>2, <1>4, <1>5 DEF TreeInv

\* What the holder of p.mu is about to insert.
LEMMA Inserting ==
  ASSUME TreeInv, NEW z \in mu
  PROVE  /\ z \in Prompts \X Owners /\ mu = {z} /\ z[1] \in Seq(Chars)
         /\ z = <<z[1], z[2]>> /\ z[2] \in Owners
         /\ inserts \in Nat /\ MaxInserts \in Nat /\ inserts < MaxInserts
  <1>1. PICK x \in Prompts \X Owners : mu = {x} /\ inserts < MaxInserts
    BY DEF TreeInv, Bounded
  <1>2. inserts \in Nat /\ MaxInserts \in Nat
    BY TreeAssumption DEF TreeAssumption, TreeInv, Bounded
  <1> QED
    BY <1>1, <1>2, TreeAssumption DEF TreeAssumption

LEMMA ShortenStep == TreeInv /\ Shorten => TreeInv'
  <1> SUFFICES ASSUME TreeInv, Shorten PROVE TreeInv'
    OBVIOUS
  <1>1. PICK z \in mu :
          Splits(tree, z[1]) /\ reader' = [r \in Readers |->
            IF /\ reader[r].step \in InHand /\ reader[r].old = {}
               /\ reader[r].node = CutNode(z[1])
            THEN [reader[r] EXCEPT !.torn = TRUE] ELSE reader[r]]
    BY DEF Shorten
  <1>2. /\ cut = "no" /\ cut' = "short" /\ tree' = tree /\ mu' = mu /\ mu = {z}
        /\ recorded' = recorded /\ inserts' = inserts /\ known' = known
    BY <1>1, Inserting DEF Shorten
  <1>3. PICK W : /\ Records(tree, W, recorded)
                 /\ \A r \in Readers :
                      ReaderInv(reader[r], known[r], tree, W, recorded)
    BY SomeWords
  <1>4. ASSUME NEW r \in Readers
        PROVE  /\ ReaderInv(reader'[r], known[r], tree, W, recorded)
               /\ Harms(reader[r])' => reader'[r].torn
    <2>1. CASE /\ reader[r].step \in InHand /\ reader[r].old = {}
               /\ reader[r].node = CutNode(z[1])
      <3>1. reader'[r] = [reader[r] EXCEPT !.torn = TRUE]
        BY <1>1, <2>1
      <3>2. reader[r] # Idle
        BY <2>1, IdleHarms
      <3>3. Active(reader[r], known[r], tree, W, recorded)
        BY <1>3, <3>2 DEF ReaderInv
      <3>4. Active(reader'[r], known[r], tree, W, recorded)
        BY <3>1, <3>3, ReaderTorn
      <3>5. reader'[r].torn
        <4>1. PICK s, U : Follows(reader[r], known[r], tree, W, s, U)
          BY <3>3 DEF Active
        <4> QED
          BY <3>1, <4>1 DEF Follows, IsReader
      <3> QED
        BY <3>4, <3>5 DEF ReaderInv
    <2>2. CASE ~(/\ reader[r].step \in InHand /\ reader[r].old = {}
                 /\ reader[r].node = CutNode(z[1]))
      <3>1. reader'[r] = reader[r]
        BY <1>1, <2>2
      <3>2. ~Harms(reader[r])'
        <4> SUFFICES ASSUME Harms(reader[r])' PROVE FALSE
          OBVIOUS
        <4>1. /\ reader'[r].step \in InHand /\ reader'[r].old = {}
              /\ \E x \in mu' : reader'[r].node = Kid(tree', x[1], Descend(tree', x[1]))
          BY DEF Harms, Cutting, CutNode
        <4> QED
          BY <1>2, <2>2, <3>1, <4>1 DEF CutNode
      <3> QED
        BY <1>3, <3>1, <3>2
    <2> QED
      BY <2>1, <2>2
  <1>5. HasWords'
    BY <1>2, <1>3, <1>4 DEF HasWords
  <1>6. Careful' /\ Splittable'
    <2>1. Splits(tree', z[1])
      BY <1>1, <1>2
    <2> QED
      BY <1>2, <1>4, <2>1 DEF Careful, Splittable
  <1>7. Numbered'
    BY <1>2 DEF TreeInv, Numbered, Made
  <1>8. Bounded'
    BY <1>1, <1>2 DEF TreeInv, Bounded
  <1> QED
    BY <1>5, <1>6, <1>7, <1>8 DEF TreeInv

LEMMA RelinkStep == TreeInv /\ Relink => TreeInv'
  <1> SUFFICES ASSUME TreeInv, Relink PROVE TreeInv'
    OBVIOUS
  <1>1. PICK z \in mu :
          tree' = Split(tree, z[1], Descend(tree, z[1]), CutAt(z[1]))
    BY DEF Relink
  <1>2. /\ cut = "short" /\ cut' = "linked" /\ mu' = mu /\ mu = {z}
        /\ recorded' = recorded /\ inserts' = inserts /\ known' = known
        /\ reader' = reader /\ inserts \in Nat /\ MaxInserts \in Nat
        /\ inserts < MaxInserts /\ z[1] \in Seq(Chars)
    BY <1>1, Inserting DEF Relink
  <1>3. PICK W : /\ Records(tree, W, recorded)
                 /\ \A r \in Readers :
                      ReaderInv(reader[r], known[r], tree, W, recorded)
    BY SomeWords
  <1>4. PICK m \in 0 .. 2 * inserts : NodesOf(tree) = 0 .. m
    BY <1>2 DEF TreeInv, Numbered, Made
  <1>5. PICK q, at, n, kid : /\ q = z[1] /\ at = Descend(tree, q) /\ n = Fresh(tree)
                             /\ kid = Kid(tree, q, at)
    OBVIOUS
  <1>6. n = m + 1 /\ n \in Ids /\ n \notin NodesOf(tree)
    <2>1. m \in Nat /\ m + 1 <= 2 * MaxInserts
      BY <1>2, <1>4
    <2> QED
      BY <1>4, <1>5, <2>1, FreshIsNext
  <1>7. Halved(tree, W, recorded, q, at, n, tree')
    <2>1. Leaves(tree, W, q, at)
      BY <1>2, <1>3, <1>5, SplitsThere DEF Splittable, TreeInv
    <2> QED
      BY <1>1, <1>3, <1>5, <1>6, <2>1, SplitGrows DEF CutAt
  <1>8. PICK V : /\ Records(tree', V, recorded)
                 /\ \A x \in NodesOf(tree) : V[x] = W[x]
    BY <1>7 DEF Halved, Records
  <1>9. /\ NodesOf(tree') = NodesOf(tree) \cup {n}
        /\ \A x \in NodesOf(tree) \ {kid} : tree'.prefix[x] = tree.prefix[x]
    BY <1>5, <1>7 DEF Halved
  <1>10. ASSUME NEW r \in Readers
         PROVE  ReaderInv(reader[r], known[r], tree', V, recorded)
    <2>1. CASE Active(reader[r], known[r], tree, W, recorded)
      <3>1. known[r] \subseteq Prompts \X Owners /\ recorded \subseteq known[r]
        BY <2>1 DEF Active
      <3>2. ASSUME reader[r].step \in InHand, reader[r].old = {}, ~reader[r].torn
            PROVE  tree'.prefix[reader[r].node] = tree.prefix[reader[r].node]
        <4>1. ~Cutting(reader[r].node)
          BY <3>2 DEF TreeInv, Careful, Harms
        <4>2. reader[r].node # kid
          BY <1>1, <1>2, <1>5, <4>1 DEF Cutting, CutNode
        <4>3. reader[r].node \in NodesOf(tree)
          BY <2>1, <3>2 DEF Active, Follows, IsReader
        <4> QED
          BY <1>9, <4>2, <4>3
      <3>3. Active(reader[r], known[r], tree', V, recorded)
        BY <1>8, <1>9, <2>1, <3>1, <3>2, ReaderGrows
      <3> QED
        BY <3>3 DEF ReaderInv
    <2>2. CASE ~Active(reader[r], known[r], tree, W, recorded)
      BY <1>3, <2>2 DEF ReaderInv
    <2> QED
      BY <2>1, <2>2
  <1>11. HasWords'
    BY <1>2, <1>8, <1>10 DEF HasWords
  <1>12. Careful' /\ Splittable'
    BY <1>2 DEF Careful, Harms, Cutting, Splittable
  <1>13. Numbered'
    <2>1. NodesOf(tree') = 0 .. m + 1 /\ m + 1 \in 0 .. 2 * inserts + 1
      BY <1>2, <1>4, <1>6, <1>9
    <2> QED
      BY <1>2, <2>1 DEF Numbered, Made
  <1>14. Bounded'
    BY <1>1, <1>2 DEF TreeInv, Bounded
  <1> QED
    BY <1>11, <1>12, <1>13, <1>14 DEF TreeInv

LEMMA InsertApplyStep == TreeInv /\ InsertApply => TreeInv'
  <1> SUFFICES ASSUME TreeInv, InsertApply PROVE TreeInv'
    OBVIOUS
  <1>1. PICK z \in mu : ~Splits(tree, z[1]) /\ tree' = Insert(tree, z[1], z[2])
    BY DEF InsertApply
  <1>2. PICK q, o : /\ z = <<q, o>> /\ q \in Seq(Chars) /\ o \in Owners
                    /\ z \in Prompts \X Owners /\ mu = {z} /\ z[1] = q /\ z[2] = o
    BY <1>1, Inserting
  <1>3. /\ recorded' = recorded \cup {z} /\ cut # "short" /\ cut' = "no"
        /\ known' = [r \in Readers |-> IF Reading(r) THEN known[r] \cup {z} ELSE {}]
        /\ inserts' = inserts + 1 /\ mu' = {} /\ reader' = reader
    BY <1>2 DEF InsertApply
  <1>4. PICK W : /\ Records(tree, W, recorded)
                 /\ \A r \in Readers :
                      ReaderInv(reader[r], known[r], tree, W, recorded)
    BY SomeWords
  <1>5. PICK m \in 0 .. Made : NodesOf(tree) = 0 .. m
    BY DEF TreeInv, Numbered
  <1>6. inserts \in Nat /\ MaxInserts \in Nat /\ inserts < MaxInserts
    BY <1>1, Inserting
  <1>7. m \in Nat /\ m + 1 <= 2 * MaxInserts /\ m + 1 <= 2 * inserts'
    BY <1>3, <1>5, <1>6 DEF Made
  <1>8. /\ Grown(tree, W, recorded', tree')
        /\ \E l \in m .. m + 1 : NodesOf(tree') = 0 .. l
    BY <1>1, <1>2, <1>3, <1>4, <1>5, <1>7, InsertGrows
  <1>9. PICK V : /\ NodesOf(tree) \subseteq NodesOf(tree')
                 /\ Records(tree', V, recorded')
                 /\ \A n \in NodesOf(tree) :
                      V[n] = W[n] /\ tree'.prefix[n] = tree.prefix[n]
    BY <1>8 DEF Grown, Records
  <1>10. ASSUME NEW r \in Readers
         PROVE  ReaderInv(reader'[r], known'[r], tree', V, recorded')
    <2>1. CASE Reading(r)
      <3>1. Active(reader[r], known[r], tree, W, recorded)
        BY <1>4, <2>1, Readings
      <3>2. known'[r] = known[r] \cup {z}
        BY <1>3, <2>1
      <3>3. /\ known'[r] \subseteq Prompts \X Owners /\ known[r] \subseteq known'[r]
            /\ recorded' \subseteq known'[r]
        BY <1>2, <1>3, <3>1, <3>2 DEF Active
      <3>4. ASSUME reader[r].step \in InHand, reader[r].old = {}
            PROVE  tree'.prefix[reader[r].node] = tree.prefix[reader[r].node]
        <4>1. reader[r].node \in NodesOf(tree)
          BY <3>1, <3>4 DEF Active, Follows, IsReader
        <4> QED
          BY <1>9, <4>1
      <3>5. Active(reader[r], known'[r], tree', V, recorded')
        BY <1>9, <3>1, <3>3, <3>4, ReaderGrows
      <3> QED
        BY <1>3, <3>5 DEF ReaderInv
    <2>2. CASE ~Reading(r)
      <3>1. reader'[r] = Idle /\ known'[r] = {}
        BY <1>3, <1>4, <2>2, Readings
      <3> QED
        BY <3>1 DEF ReaderInv
    <2> QED
      BY <2>1, <2>2
  <1>11. HasWords'
    BY <1>9, <1>10 DEF HasWords
  <1>12. Careful' /\ Splittable'
    BY <1>3 DEF Careful, Harms, Cutting, Splittable
  <1>13. Numbered'
    <2>1. PICK l \in m .. m + 1 : NodesOf(tree') = 0 .. l
      BY <1>8
    <2>2. l \in 0 .. 2 * inserts'
      BY <1>3, <1>6, <1>7, <2>1
    <2> QED
      BY <1>3, <2>1, <2>2 DEF Numbered, Made
  <1>14. Bounded'
    <2>1. known' \in [Readers -> SUBSET (Prompts \X Owners)]
      <3>1. known \in [Readers -> SUBSET (Prompts \X Owners)]
        BY DEF TreeInv, Bounded
      <3> QED
        BY <1>2, <1>3, <3>1
    <2>2. inserts' \in 0 .. MaxInserts
      BY <1>3, <1>6
    <2>3. recorded' \subseteq Prompts \X Owners /\ DOMAIN reader' = Readers
      BY <1>2, <1>3 DEF TreeInv, Bounded
    <2> QED
      BY <1>3, <2>1, <2>2, <2>3 DEF Bounded
  <1> QED
    BY <1>11, <1>12, <1>13, <1>14 DEF TreeInv

LEMMA ClearCacheStep == TreeInv /\ ClearCache => TreeInv'
  <1> SUFFICES ASSUME TreeInv, ClearCache PROVE TreeInv'
    OBVIOUS
  <1>1. /\ tree' = Empty /\ recorded' = {} /\ mu' = mu /\ inserts' = inserts
        /\ known' = known /\ mu = {} /\ cut' = cut
        /\ reader' = [r \in Readers |->
             IF Reading(r) THEN [reader[r] EXCEPT !.old = {Seen(r)}] ELSE reader[r]]
    BY DEF ClearCache
  <1>2. PICK W : /\ Records(tree, W, recorded)
                 /\ \A r \in Readers :
                      ReaderInv(reader[r], known[r], tree, W, recorded)
    BY DEF TreeInv, HasWords
  <1>3. PICK V : V = [n \in {Root} |-> <<>>]
    OBVIOUS
  <1>4. Records(tree', V, recorded') /\ NodesOf(tree') = 0 .. 0
    BY <1>1, <1>3, EmptyRecords
  <1>5. ASSUME NEW r \in Readers
        PROVE  ReaderInv(reader'[r], known'[r], tree', V, recorded')
    <2>1. CASE Reading(r)
      <3>1. Active(reader[r], known[r], tree, W, recorded)
        BY <1>2, <2>1, Readings
      <3>2. reader'[r] = [reader[r] EXCEPT !.old = {SeenBy(reader[r], tree)}]
        BY <1>1, <2>1 DEF Seen, SeenBy
      <3>3. Active(reader'[r], known[r], tree', V, {})
        BY <3>1, <3>2, ReaderCleared
      <3> QED
        BY <1>1, <3>3 DEF ReaderInv
    <2>2. CASE ~Reading(r)
      <3>1. reader'[r] = Idle /\ known'[r] = {}
        BY <1>1, <1>2, <2>2, Readings
      <3> QED
        BY <3>1 DEF ReaderInv
    <2> QED
      BY <2>1, <2>2
  <1>6. HasWords'
    BY <1>4, <1>5 DEF HasWords
  <1>7. Numbered'
    <2>1. inserts' \in Nat
      BY <1>1 DEF TreeInv, Bounded
    <2>2. PICK n \in Nat : n = inserts'
      BY <2>1
    <2>3. 0 \in 0 .. 2 * n /\ 0 \in 0 .. 2 * n + 1
      OBVIOUS
    <2> QED
      BY <1>4, <2>2, <2>3 DEF Numbered, Made
  <1>8. Bounded'
    BY <1>1 DEF TreeInv, Bounded
  <1>9. Careful' /\ Splittable'
    <2>1. cut' = "no"
      BY <1>1 DEF TreeInv, Bounded
    <2> QED
      BY <2>1 DEF Careful, Harms, Cutting, Splittable
  <1> QED
    BY <1>6, <1>7, <1>8, <1>9 DEF TreeInv

\* A step of one reader changes nothing else.
LEMMA OneReaderStep ==
  ASSUME TreeInv, UNCHANGED <<tree, mu, cut, recorded, inserts>>, NEW r \in Readers,
         NEW x, reader' = [reader EXCEPT ![r] = x],
         NEW K \in SUBSET (Prompts \X Owners), known' = [known EXCEPT ![r] = K],
         Harms(x) => x.torn,
         \A W : /\ Records(tree, W, recorded)
                /\ ReaderInv(reader[r], known[r], tree, W, recorded)
                => ReaderInv(x, K, tree, W, recorded)
  PROVE  TreeInv'
  <1>1. /\ DOMAIN reader = Readers
        /\ known \in [Readers -> SUBSET (Prompts \X Owners)]
    BY DEF TreeInv, Bounded
  <1>2. /\ reader'[r] = x /\ known'[r] = K /\ DOMAIN reader' = Readers
        /\ known' \in [Readers -> SUBSET (Prompts \X Owners)]
        /\ \A y \in Readers \ {r} : reader'[y] = reader[y] /\ known'[y] = known[y]
    BY <1>1
  <1>3. PICK W : /\ Records(tree, W, recorded)
                 /\ \A y \in Readers :
                      ReaderInv(reader[y], known[y], tree, W, recorded)
    BY SomeWords
  <1>4. ASSUME NEW y \in Readers
        PROVE  ReaderInv(reader'[y], known'[y], tree', W, recorded')
    <2>1. CASE y = r
      BY <1>2, <1>3, <2>1
    <2>2. CASE y # r
      BY <1>2, <1>3, <2>2
    <2> QED
      BY <2>1, <2>2
  <1>5. HasWords'
    BY <1>3, <1>4 DEF HasWords
  <1>6. Numbered' /\ Splittable'
    BY DEF TreeInv, Numbered, Made, Splittable
  <1>7. Bounded'
    BY <1>2 DEF TreeInv, Bounded
  <1>8. Careful'
    <2>1. \A n : Cutting(n)' = Cutting(n)
      BY DEF Cutting, CutNode
    <2>2. ASSUME NEW y \in Readers, Harms(reader[y])' PROVE reader'[y].torn
      <3>1. CASE y = r
        BY <1>2, <2>1, <2>2, <3>1 DEF Harms
      <3>2. CASE y # r
        BY <1>2, <2>1, <2>2, <3>2 DEF Harms, TreeInv, Careful
      <3> QED
        BY <3>1, <3>2
    <2> QED
      BY <2>2 DEF Careful
  <1> QED
    BY <1>5, <1>6, <1>7, <1>8 DEF TreeInv

LEMMA ReadStartStep ==
  ASSUME TreeInv, NEW r \in Readers, NEW q \in Prompts, ReadStart(r, q)
  PROVE  TreeInv'
  <1>0. PICK x : x = At(q)
    OBVIOUS
  <1>1. /\ UNCHANGED <<tree, mu, cut, recorded, inserts>>
        /\ reader' = [reader EXCEPT ![r] = x]
        /\ known' = [known EXCEPT ![r] = recorded]
    BY <1>0 DEF ReadStart
  <1>2. recorded \in SUBSET (Prompts \X Owners)
    BY DEF TreeInv, Bounded
  <1>3. ASSUME NEW W, Records(tree, W, recorded)
        PROVE  ReaderInv(x, recorded, tree, W, recorded)
    BY <1>0, <1>2, <1>3, ReaderStarts DEF ReaderInv
  <1>4. ~Harms(x)
    BY <1>0 DEF Harms, At, InHand
  <1> QED
    BY <1>1, <1>2, <1>3, <1>4, OneReaderStep

\* A step of a reader that is reading.
LEMMA OneAccessStep ==
  ASSUME TreeInv, NEW r \in Readers, NEW from, NEW x, Reads(r, from, x),
         Harms(x) => x.torn,
         \A W, K : /\ Records(tree, W, recorded)
                   /\ Active(reader[r], K, tree, W, recorded)
                   => Active(x, K, tree, W, recorded)
  PROVE  TreeInv'
  <1>1. /\ UNCHANGED <<tree, mu, cut, recorded, inserts>> /\ known' = known
        /\ Reading(r) /\ reader' = [reader EXCEPT ![r] = x]
    BY DEF Reads
  <1>2. /\ known' = [known EXCEPT ![r] = known[r]]
        /\ known[r] \in SUBSET (Prompts \X Owners)
    BY <1>1 DEF TreeInv, Bounded
  <1>3. ASSUME NEW W, Records(tree, W, recorded),
               ReaderInv(reader[r], known[r], tree, W, recorded)
        PROVE  ReaderInv(x, known[r], tree, W, recorded)
    <2>1. Active(reader[r], known[r], tree, W, recorded)
      BY <1>1, <1>3, ReaderCases DEF Reading
    <2> QED
      BY <1>3, <2>1 DEF ReaderInv
  <1> QED
    BY <1>1, <1>2, <1>3, OneReaderStep

\* What a reader that has a node in hand finds there.
LEMMA Found ==
  ASSUME TreeInv, NEW r \in Readers, Reading(r), reader[r].step \in InHand
  PROVE  /\ \A p \in Texts(r) : p \in Seq(Chars)
         /\ ~reader[r].torn => Texts(r) = {SeenBy(reader[r], tree).prefix[reader[r].node]}
  <1>1. PICK W : /\ Records(tree, W, recorded)
                 /\ \A y \in Readers :
                      ReaderInv(reader[y], known[y], tree, W, recorded)
    BY SomeWords
  <1>2. PICK s, U : Follows(reader[r], known[r], tree, W, s, U)
    BY <1>1, Readings DEF Active
  <1>3. PICK n, p : n = reader[r].node /\ p = s.prefix[n]
    OBVIOUS
  <1>4. s = SeenBy(reader[r], tree) /\ Seen(r) = s
    BY <1>2, FollowsSeen DEF Seen, SeenBy
  <1>5. p \in Seq(Chars)
    BY <1>2, <1>3 DEF Follows, IsReader, IsNodes
  <1>6. CASE reader[r].old = {} /\ Cutting(n)
    <2>1. Texts(r) = UNION {Torn(p, CutAt(x[1])) : x \in mu}
      BY <1>3, <1>4, <1>6 DEF Texts
    <2>2. reader[r].torn
      BY <1>3, <1>6 DEF TreeInv, Careful, Harms
    <2>3. ASSUME NEW x \in mu PROVE Torn(p, CutAt(x[1])) \subseteq Seq(Chars)
      <3>1. mu = {x} /\ x[1] \in Seq(Chars)
        BY Inserting
      <3>2. cut = "short" /\ n = CutNode(x[1])
        BY <1>6, <3>1 DEF Cutting
      <3>3. Splits(tree, x[1])
        BY <3>2 DEF TreeInv, Splittable
      <3>4. PICK k : k = CutAt(x[1])
        OBVIOUS
      <3>5. s = tree
        BY <1>2, <1>6 DEF Follows
      <3>6. k \in Nat /\ k < Len(p)
        BY <1>1, <1>3, <3>1, <3>2, <3>3, <3>4, <3>5, SplitsThere
        DEF Splitting, CutNode, CutAt
      <3>7. k \in 0 .. Len(p) /\ Len(p) - k \in 0 .. Len(p)
        BY <1>5, <3>6
      <3>8. From(p, k) \in Seq(Chars) /\ SubSeq(p, 1, Len(p) - k) \in Seq(Chars)
        BY <1>5, <3>7, FromFacts, HeadFacts
      <3>9. ASSUME NEW g \in [1 .. k -> Chars] PROVE From(p, k) \o g \in Seq(Chars)
        <4>1. g \in Seq(Chars)
          BY <3>6
        <4> QED
          BY <3>8, <4>1
      <3> QED
        BY <1>5, <3>4, <3>8, <3>9 DEF Torn
    <2> QED
      BY <2>1, <2>2, <2>3
  <1>7. CASE ~(reader[r].old = {} /\ Cutting(n))
    BY <1>3, <1>4, <1>5, <1>7 DEF Texts
  <1> QED
    BY <1>6, <1>7

LEMMA ReadTakeStep ==
  ASSUME TreeInv, NEW r \in Readers, ReadTake(r)
  PROVE  TreeInv'
  <1>1. PICK x, kid, torn :
          /\ x = reader[r] /\ kid = Kid(SeenBy(x, tree), x.q, x)
          /\ torn = (x.old = {} /\ Cutting(kid)) /\ torn \in BOOLEAN
    OBVIOUS
  <1>2. PICK y : y = [x EXCEPT !.step = "read", !.node = kid, !.torn = x.torn \/ torn]
    OBVIOUS
  <1>3. kid # Nil /\ Reads(r, "take", y)
    BY <1>1, <1>2 DEF ReadTake, Seen, SeenBy
  <1>4. x.step = "take"
    BY <1>1, <1>3 DEF Reads
  <1>5. ASSUME NEW W, NEW K, Active(x, K, tree, W, recorded)
        PROVE  Active(y, K, tree, W, recorded)
    BY <1>1, <1>2, <1>3, <1>4, <1>5, ReaderTakes
  <1>6. Harms(y) => y.torn
    <2>1. PICK W : ReaderInv(x, known[r], tree, W, recorded)
      BY <1>1, SomeWords
    <2>2. Active(x, known[r], tree, W, recorded)
      BY <1>1, <1>3, <2>1, ReaderCases DEF Reads, Reading
    <2>3. y.node = kid /\ y.old = x.old /\ y.torn = (x.torn \/ torn)
      BY <1>2, <2>2 DEF Active, Follows, IsReader
    <2> QED
      BY <1>1, <2>3 DEF Harms
  <1> QED
    BY <1>1, <1>3, <1>5, <1>6, OneAccessStep

\* A reader that keeps its node in hand is as torn as before.
LEMMA StillCareful ==
  ASSUME TreeInv, NEW r \in Readers, NEW y, reader[r].step \in InHand,
         y.node = reader[r].node, y.old = reader[r].old, y.torn = reader[r].torn
  PROVE  Harms(y) => y.torn
  BY DEF TreeInv, Careful, Harms

LEMMA ReadPrefixStep ==
  ASSUME TreeInv, NEW r \in Readers, ReadPrefix(r)
  PROVE  TreeInv'
  <1>1. PICK p, x, k :
          /\ p \in Texts(r) /\ x = reader[r] /\ k = Shared(From(x.q, x.i), p)
          /\ Reads(r, "read", [x EXCEPT !.step = "peers", !.shared = k, !.i = x.i + k])
    BY DEF ReadPrefix
  <1>2. PICK y : y = [x EXCEPT !.step = "peers", !.shared = k, !.i = x.i + k]
    OBVIOUS
  <1>3. Reads(r, "read", y) /\ Reading(r) /\ x.step = "read" /\ x.step \in InHand
    BY <1>1, <1>2 DEF Reads, InHand
  <1>4. p \in Seq(Chars) /\ (~x.torn => p = SeenBy(x, tree).prefix[x.node])
    BY <1>1, <1>3, Found
  <1>5. ASSUME NEW W, NEW K, Active(x, K, tree, W, recorded)
        PROVE  Active(y, K, tree, W, recorded)
    BY <1>1, <1>2, <1>3, <1>4, <1>5, ReaderShares
  <1>6. Harms(y) => y.torn
    <2>1. PICK W : ReaderInv(x, known[r], tree, W, recorded)
      BY <1>1, SomeWords
    <2>2. Active(x, known[r], tree, W, recorded)
      BY <1>1, <1>3, <2>1, ReaderCases DEF Reading
    <2>3. y.node = x.node /\ y.old = x.old /\ y.torn = x.torn
      BY <1>2, <2>2 DEF Active, Follows, IsReader
    <2> QED
      BY <1>1, <1>3, <2>3, StillCareful
  <1> QED
    BY <1>1, <1>3, <1>5, <1>6, OneAccessStep

LEMMA ReadPeersStep ==
  ASSUME TreeInv, NEW r \in Readers, ReadPeers(r)
  PROVE  TreeInv'
  <1>1. PICK x, m, y :
          /\ x = reader[r] /\ y = [x EXCEPT !.step = "next", !.matched = m]
          /\ m = IF Here \in SeenBy(x, tree).marks[x.node] THEN x.i ELSE x.matched
    OBVIOUS
  <1>2. Reads(r, "peers", y)
    BY <1>1 DEF ReadPeers, Seen, SeenBy
  <1>3. Reading(r) /\ x.step = "peers" /\ x.step \in InHand
    BY <1>1, <1>2 DEF Reads, InHand
  <1>4. ASSUME NEW W, NEW K, Active(x, K, tree, W, recorded)
        PROVE  Active(y, K, tree, W, recorded)
    BY <1>1, <1>3, <1>4, ReaderMarks
  <1>5. Harms(y) => y.torn
    <2>1. PICK W : ReaderInv(x, known[r], tree, W, recorded)
      BY <1>1, SomeWords
    <2>2. Active(x, known[r], tree, W, recorded)
      BY <1>1, <1>3, <2>1, ReaderCases DEF Reading
    <2>3. y.node = x.node /\ y.old = x.old /\ y.torn = x.torn
      BY <1>1, <2>2 DEF Active, Follows, IsReader
    <2> QED
      BY <1>1, <1>3, <2>3, StillCareful
  <1> QED
    BY <1>1, <1>2, <1>4, <1>5, OneAccessStep

LEMMA ReadNextStep ==
  ASSUME TreeInv, NEW r \in Readers, ReadNext(r)
  PROVE  TreeInv'
  <1>1. PICK p, x, y :
          /\ p \in Texts(r) /\ x = reader[r] /\ Reads(r, "next", y)
          /\ y = [x EXCEPT !.step = IF x.shared < Len(p) THEN "done" ELSE "take"]
    BY DEF ReadNext
  <1>2. Reading(r) /\ x.step = "next" /\ x.step \in InHand
    BY <1>1 DEF Reads, InHand
  <1>3. ~x.torn => p = SeenBy(x, tree).prefix[x.node]
    BY <1>1, <1>2, Found
  <1>4. ASSUME NEW W, NEW K, Active(x, K, tree, W, recorded)
        PROVE  Active(y, K, tree, W, recorded)
    BY <1>1, <1>2, <1>3, <1>4, ReaderGoesOn
  <1>5. ~Harms(y)
    <2>1. PICK W : ReaderInv(x, known[r], tree, W, recorded)
      BY <1>1, SomeWords
    <2>2. Active(x, known[r], tree, W, recorded)
      BY <1>1, <1>2, <2>1, ReaderCases DEF Reading
    <2>3. y.step \in {"done", "take"}
      BY <1>1, <2>2 DEF Active, Follows, IsReader
    <2> QED
      BY <2>3 DEF Harms, InHand
  <1> QED
    BY <1>1, <1>4, <1>5, OneAccessStep

LEMMA ReadDoneStep ==
  ASSUME TreeInv, NEW r \in Readers, ReadDone(r)
  PROVE  TreeInv'
  <1>1. /\ UNCHANGED <<tree, mu, cut, recorded, inserts>>
        /\ reader' = [reader EXCEPT ![r] = Idle]
        /\ known' = [known EXCEPT ![r] = {}]
    BY DEF ReadDone
  <1>2. {} \in SUBSET (Prompts \X Owners)
    OBVIOUS
  <1>3. \A W : ReaderInv(Idle, {}, tree, W, recorded)
    BY DEF ReaderInv
  <1> QED
    BY <1>1, <1>2, <1>3, IdleHarms, OneReaderStep

LEMMA StepTreeInv == TreeInv /\ [Next]_vars => TreeInv'
  <1> SUFFICES ASSUME TreeInv, [Next]_vars PROVE TreeInv'
    OBVIOUS
  <1>1. ASSUME NEW q \in Prompts, NEW o \in Owners, InsertLock(q, o)
        PROVE  TreeInv'
    BY <1>1, InsertLockStep
  <1>2. ASSUME NEW q \in Prompts, NEW r \in Readers, ReadStart(r, q)
        PROVE  TreeInv'
    BY <1>2, ReadStartStep
  <1>3. ASSUME Shorten \/ Relink \/ InsertApply \/ ClearCache PROVE TreeInv'
    BY <1>3, ShortenStep, RelinkStep, InsertApplyStep, ClearCacheStep
  <1>4. ASSUME NEW r \in Readers,
               ReadTake(r) \/ ReadPrefix(r) \/ ReadPeers(r) \/ ReadNext(r)
        PROVE  TreeInv'
    BY <1>4, ReadTakeStep, ReadPrefixStep, ReadPeersStep, ReadNextStep
  <1>5. ASSUME NEW r \in Readers, ReadDone(r) PROVE TreeInv'
    BY <1>5, ReadDoneStep
  <1>6. CASE UNCHANGED vars
    BY <1>6 DEF vars, TreeInv, HasWords, Careful, Splittable, Numbered, Bounded, Harms,
                Cutting, CutNode, Made
  <1> QED
    BY <1>1, <1>2, <1>3, <1>4, <1>5, <1>6 DEF Next

\* The nodes always have words that fit what is recorded and what each reader
\* has matched so far: the invariant the theorems follow from.
THEOREM TreeInvariant == Spec => []TreeInv
  BY InitTreeInv, StepTreeInv, PTL DEF Spec

-----------------------------------------------------------------------------
(* What follows *)

LEMMA TypesFromInv == TreeInv => TypeOK
  <1> SUFFICES ASSUME TreeInv PROVE TypeOK
    OBVIOUS
  <1>1. PICK W : /\ Records(tree, W, recorded)
                 /\ \A r \in Readers :
                      ReaderInv(reader[r], known[r], tree, W, recorded)
    BY DEF TreeInv, HasWords
  <1>2. IsNodes(tree)
    BY <1>1 DEF Records
  <1>3. ASSUME NEW r \in Readers PROVE IsReader(reader[r], Seen(r))
    <2>1. CASE Reading(r)
      <3>1. PICK s, U : Follows(reader[r], known[r], tree, W, s, U)
        BY <1>1, <2>1, Readings DEF Active
      <3>2. Seen(r) = s
        BY <3>1, FollowsSeen DEF Seen, SeenBy
      <3> QED
        BY <3>1, <3>2 DEF Follows
    <2>2. CASE ~Reading(r)
      <3>1. reader[r] = Idle
        BY <1>1, <2>2, Readings
      <3>2. Seen(r) = tree
        BY <3>1 DEF Seen, Idle, At
      <3>3. Root \in NodesOf(tree) /\ Len(<<>>) = 0
        BY <1>2 DEF IsNodes
      <3>4. IsReader(Idle, tree)
        BY <1>2, <3>3 DEF IsReader, Idle, At
      <3> QED
        BY <3>1, <3>2, <3>4
    <2> QED
      BY <2>1, <2>2
  <1>4. mu = {} \/ \E x \in Prompts \X Owners : mu = {x}
    BY DEF TreeInv, Bounded
  <1> QED
    BY <1>2, <1>3, <1>4 DEF TypeOK, TreeInv, Bounded

\* Every variable keeps its type: insertions give nodes their numbers, edges
\* and marks within bounds, and a reader is at a node of the tree it walks.
THEOREM TypeCorrect == Spec => []TypeOK
  BY TreeInvariant, TypesFromInv, PTL

LEMMA TreeFromWords ==
  ASSUME TypeOK, NEW W, Records(tree, W, recorded)
  PROVE  IsTree
  <1> DEFINE edges == {e \in NodesOf(tree) \X Chars : tree.kids[e[1]][e[2]] # Nil}
             end(e) == tree.kids[e[1]][e[2]]
  <1>1. IsNodes(tree) /\ Spells(tree, W)
    BY DEF Records
  <1>2. ASSUME NEW e \in edges
        PROVE  IsPrefix(<<e[2]>>, tree.prefix[end(e)]) /\ end(e) \in NodesOf(tree) \ {Root}
    <2>1. PICK n \in NodesOf(tree), c \in Chars : e = <<n, c>>
      OBVIOUS
    <2>2. PICK kid, p : kid = tree.kids[n][c] /\ p = tree.prefix[kid]
      OBVIOUS
    <2>3. kid \in NodesOf(tree) /\ p \in Seq(Chars)
      BY <1>1, <2>1, <2>2, NilIsNoNode DEF IsNodes
    <2>4. p # <<>> /\ p[1] = c /\ Joins(W[n], p, W[kid])
      <3>1. Edge(tree, W, n, c) /\ kid # Nil
        BY <1>1, <2>1, <2>2 DEF Spells
      <3> QED
        BY <2>2, <3>1 DEF Edge
    <2>5. kid # Root
      <3>1. Len(p) \in Nat \ {0}
        BY <2>3, <2>4
      <3>2. W[n] \in Seq(Chars) /\ Len(W[n]) \in Nat
        BY <1>1 DEF Spells
      <3>3. Len(W[kid]) # 0
        BY <2>4, <3>1, <3>2 DEF Joins
      <3> QED
        BY <1>1, <3>3 DEF Spells
    <2>6. IsPrefix(<<c>>, p)
      BY <2>3, <2>4 DEF IsPrefix
    <2> QED
      BY <2>1, <2>2, <2>3, <2>5, <2>6
  <1>3. ASSUME NEW e \in edges, NEW f \in edges, end(e) = end(f) PROVE e = f
    <2>1. PICK n \in NodesOf(tree), c \in Chars : e = <<n, c>>
      OBVIOUS
    <2>2. PICK m \in NodesOf(tree), d \in Chars : f = <<m, d>>
      OBVIOUS
    <2>3. tree.kids[n][c] # Nil /\ tree.kids[n][c] = tree.kids[m][d]
      BY <1>3, <2>1, <2>2
    <2>4. n = m /\ c = d
      BY <1>1, <2>3, OneParent
    <2> QED
      BY <2>1, <2>2, <2>4
  <1>4. ASSUME NEW m \in NodesOf(tree) \ {Root} PROVE \E e \in edges : end(e) = m
    <2>1. PICK n \in NodesOf(tree), c \in Chars : tree.kids[n][c] = m
      BY <1>1 DEF Spells
    <2>2. m # Nil
      BY <1>1, NilIsNoNode
    <2>3. <<n, c>> \in edges /\ end(<<n, c>>) = m
      BY <2>1, <2>2
    <2> QED
      BY <2>3
  <1>5. {end(e) : e \in edges} = NodesOf(tree) \ {Root}
    <2>1. \A e \in edges : end(e) \in NodesOf(tree) \ {Root}
      BY <1>2
    <2> HIDE DEF edges, end
    <2> QED
      BY <1>4, <2>1
  <1> QED
    BY <1>2, <1>3, <1>5 DEF IsTree

\* No insertion breaks the tree: an edge that is split is filed under its first
\* character, and every node but the root hangs in one place.
THEOREM StaysATree == Spec => []IsTree
  <1>1. TreeInv => IsTree
    BY TypesFromInv, TreeFromWords DEF TreeInv, HasWords
  <1> QED
    BY <1>1, TreeInvariant, PTL

LEMMA StoredWords ==
  ASSUME NEW W, Records(tree, W, recorded), NEW q \in Prompts, NEW o \in Owners,
         NEW at, at = Descend(tree, q)
  PROVE  <<q, o>> \in recorded <=> at.i = Len(q) /\ o \in tree.marks[at.node]
  <1>1. q \in Seq(Chars) /\ IsNodes(tree) /\ Spells(tree, W)
    BY TreeAssumption DEF TreeAssumption, Records
  <1>2. ASSUME <<q, o>> \in recorded
        PROVE  at.i = Len(q) /\ o \in tree.marks[at.node]
    <2>1. PICK n \in NodesOf(tree) : W[n] = q /\ o \in tree.marks[n]
      BY <1>2 DEF Records, Marked
    <2>2. Descend(tree, W[n]) = [node |-> n, i |-> Len(W[n])]
      BY <1>1, DescendsTo
    <2> QED
      BY <2>1, <2>2
  <1>3. ASSUME at.i = Len(q), o \in tree.marks[at.node]
        PROVE  <<q, o>> \in recorded
    <2>1. Reaches(tree, W, q, at)
      BY <1>1, DescendStops
    <2>2. W[at.node] = q
      BY <1>1, <1>3, <2>1, WholeWord
    <2>3. at.node \in NodesOf(tree)
      BY <2>1 DEF Reaches
    <2> QED
      BY <1>3, <2>2, <2>3 DEF Records, Marked
  <1> QED
    BY <1>2, <1>3

\* The tree is a set: a prompt is found whole with an owner's mark exactly if it
\* was recorded for this owner since the last clearing.
THEOREM StoresWhatWasRecorded == Spec => []StoresRecorded
  <1>1. TreeInv => StoresRecorded
    BY StoredWords DEF TreeInv, HasWords, StoresRecorded
  <1> QED
    BY <1>1, TreeInvariant, PTL

LEMMA SoundWords ==
  ASSUME NEW W, Records(tree, W, recorded), recorded \subseteq Prompts \X Owners,
         NEW q \in Prompts, NEW o \in Owners, NEW m, m = Match(tree, q, o),
         NEW own, own = {p \in Prompts : <<p, o>> \in recorded}
  PROVE  /\ m > 0 => \E p \in own : Shared(p, q) = m
         /\ \A p \in own : IsPrefix(p, q) => m >= Len(p)
  <1>1. \A p \in Prompts : p \in Seq(Chars) /\ p # <<>>
    BY TreeAssumption DEF TreeAssumption
  <1>2. /\ m > 0 => \E x \in recorded : x[2] = o /\ Shared(x[1], q) = m
        /\ \A x \in recorded :
             x[1] # <<>> /\ x[2] = o /\ Agree(x[1], q, Len(x[1])) => m >= Len(x[1])
    BY <1>1, MatchFacts
  <1>3. ASSUME NEW x \in recorded, x[2] = o PROVE x[1] \in own /\ x = <<x[1], o>>
    BY <1>3
  <1>4. ASSUME NEW p \in own, IsPrefix(p, q) PROVE m >= Len(p)
    <2>1. p \in Seq(Chars) /\ p # <<>> /\ q \in Seq(Chars) /\ <<p, o>> \in recorded
      BY <1>1
    <2>2. Agree(p, q, Len(p))
      BY <1>4, <2>1 DEF IsPrefix, Agree
    <2> QED
      BY <1>2, <2>1, <2>2
  <1> QED
    BY <1>2, <1>3, <1>4

\* What the router is told of a peer is true of the tree: a match is what some
\* prompt recorded for the peer shares with this one, and a recorded prompt that
\* this one goes on from is matched whole.
THEOREM MatchesAreSound == Spec => []MatchIsSound
  <1>1. ASSUME TreeInv PROVE MatchIsSound
    <2>1. PICK W : Records(tree, W, recorded)
      BY <1>1 DEF TreeInv, HasWords
    <2>2. recorded \subseteq Prompts \X Owners
      BY <1>1 DEF TreeInv, Bounded
    <2> QED
      BY <2>1, <2>2, SoundWords DEF MatchIsSound
  <1> QED
    BY <1>1, TreeInvariant, PTL

\* The walk without the lock returns what some prompt recorded for this node while
\* it walked shares with its own, in whatever order its reads fall among the writes
\* of insertions and splits and also if the tree is cleared, unless a split shortens
\* a node it has in hand.
THEOREM ReadsAreSound == Spec => []ReadIsSound
  <1>1. ASSUME TreeInv PROVE ReadIsSound
    <2>1. PICK W : \A r \in Readers :
                     ReaderInv(reader[r], known[r], tree, W, recorded)
      BY <1>1, SomeWords
    <2>2. ASSUME NEW r \in Readers, Reading(r), ~reader[r].torn, reader[r].matched > 0
          PROVE  \E p \in known[r] :
                   p[2] = Here /\ Shared(p[1], reader[r].q) = reader[r].matched
      <3>1. PICK s, U : Follows(reader[r], known[r], tree, W, s, U)
        BY <2>1, <2>2, Readings DEF Active
      <3> QED
        BY <2>2, <3>1 DEF Follows, Holds
    <2> QED
      BY <2>2 DEF ReadIsSound
  <1> QED
    BY <1>1, TreeInvariant, PTL

=============================================================================
