---------------------------- MODULE ConfTreeProofs ----------------------------
(***************************************************************************)
(* Proofs about the configuration tree: whatever is loaded and set, the    *)
(* lists of conf.c form a forest of the nodes that are allocated, what     *)
(* ConfSet set is what a reader finds, what was made final stays, and the  *)
(* names that were accepted are unique.                                    *)
(***************************************************************************)
EXTENDS ConfTree, SequenceTheorems, FiniteSetTheorems, WellFoundedInduction, TLAPS

-----------------------------------------------------------------------------
(***************************************************************************)
(* Counting.                                                               *)
(***************************************************************************)
\* A set of naturals that is not empty has a least element.
LEMMA LeastNatural ==
  ASSUME NEW T \in SUBSET Nat, T # {}
  PROVE  \E m \in T : \A n \in T : m <= n
<1> DEFINE R == OpToRel(<, Nat)
<1>1. \E x \in T : \A y \in T : ~(<<y, x>> \in R)
  <2>1. IsWellFoundedOn(R, Nat)
    BY NatLessThanWellFounded
  <2> HIDE DEF R
  <2> QED
    BY <2>1, WFMin
<1>2. \A x, y \in Nat : <<y, x>> \in R <=> y < x
  BY DEF OpToRel
<1>3. PICK x \in T : \A y \in T : ~(<<y, x>> \in R)
  BY <1>1
<1> HIDE DEF R
<1>4. \A y \in T : y \in Nat /\ x \in Nat /\ ~(y < x)
  BY <1>2, <1>3
<1>5. \A y \in T : x <= y
  BY <1>4
<1> QED
  BY <1>5

\* What holds of 0 and of every successor up to n holds up to n.
LEMMA UpTo ==
  ASSUME NEW n \in Nat, NEW T, 0 \in T, \A i \in 0..n : i \in T /\ i < n => i + 1 \in T
  PROVE  0..n \subseteq T
<1> DEFINE S == {i \in 0..n : i \notin T}
<1>1. ASSUME S # {}
      PROVE  FALSE
  <2>1. S \in SUBSET Nat
    OBVIOUS
  <2>2. PICK m \in S : \A i \in S : m <= i
    BY <1>1, <2>1, LeastNatural
  <2>3. m \in 1..n /\ m - 1 \in 0..n /\ m - 1 \notin S
    BY <2>2
  <2> QED
    BY <2>2, <2>3
<1> QED
  BY <1>1

-----------------------------------------------------------------------------
(***************************************************************************)
(* Looking up, for any memory t.                                           *)
(***************************************************************************)
Heads(t) == \A n \in DOMAIN t : t[n].head \in Seq(DOMAIN t)
Addresses(t) == DOMAIN t \subseteq 1..MaxNodes

LookupIn(t, n, name) ==
  LET at == SelectInSeq(t[n].head, LAMBDA c : t[c].name = name)
  IN  IF at = 0 THEN NoNode ELSE t[n].head[at]

\* The child at place k of n is the first one with that name.
FirstChild(t, n, name, k) ==
  /\ k \in 1..Len(t[n].head) /\ t[t[n].head[k]].name = name
  /\ \A j \in 1..Len(t[n].head) : j < k => t[t[n].head[j]].name # name

NoChild(t, n, name) == \A j \in 1..Len(t[n].head) : t[t[n].head[j]].name # name

LEMMA NotNull == \A t : Addresses(t) => NoNode \notin DOMAIN t
BY NullAssumption DEF Addresses

\* The place SelectInSeq yields.
LEMMA FirstPlace ==
  ASSUME NEW n \in Nat, NEW I \in SUBSET (1..n), I # {}
  PROVE  Min(I) \in I /\ \A j \in I : Min(I) <= j
<1>1. \E m \in I : \A j \in I : m <= j
  <2>1. I \in SUBSET Nat
    OBVIOUS
  <2> QED
    BY <2>1, LeastNatural
<1> QED
  BY <1>1 DEF Min

LEMMA LookupIs ==
  ASSUME NEW t, Heads(t), Addresses(t), NEW n \in DOMAIN t, NEW name
  PROVE  \/ LookupIn(t, n, name) = NoNode /\ NoChild(t, n, name)
         \/ \E k \in 1..Len(t[n].head) :
              /\ LookupIn(t, n, name) = t[n].head[k] /\ FirstChild(t, n, name, k)
              /\ t[n].head[k] \in DOMAIN t
<1> DEFINE s == t[n].head
           I == {i \in 1..Len(s) : t[s[i]].name = name}
           at == SelectInSeq(s, LAMBDA c : t[c].name = name)
<1>1. s \in Seq(DOMAIN t) /\ Len(s) \in Nat /\ \A i \in 1..Len(s) : s[i] \in DOMAIN t
  BY LenProperties, ElementOfSeq DEF Heads
<1>2. at = IF I # {} THEN Min(I) ELSE 0
  BY DEF SelectInSeq
<1>3. LookupIn(t, n, name) = IF at = 0 THEN NoNode ELSE s[at]
  BY DEF LookupIn
<1>4. CASE I = {}
  <2>1. NoChild(t, n, name)
    BY <1>4 DEF NoChild
  <2>2. LookupIn(t, n, name) = NoNode
    <3> HIDE DEF I, at, s
    <3> QED
      BY <1>2, <1>3, <1>4
  <2> QED
    BY <2>1, <2>2
<1>5. CASE I # {}
  <2>1. Min(I) \in I /\ \A j \in I : Min(I) <= j
    <3>1. I \in SUBSET (1..Len(s))
      OBVIOUS
    <3> HIDE DEF I, at, s
    <3> QED
      BY <1>1, <1>5, <3>1, FirstPlace
  <2>2. at = Min(I)
    <3> HIDE DEF I, at, s
    <3> QED
      BY <1>2, <1>5
  <2>3. at \in I /\ \A j \in I : at <= j
    <3> HIDE DEF I, at, s
    <3> QED
      BY <2>1, <2>2
  <2>4. at \in 1..Len(s) /\ t[s[at]].name = name
    <3> HIDE DEF at
    <3> QED
      BY <2>3
  <2>5. \A j \in 1..Len(s) : j < at => t[s[j]].name # name
    <3> HIDE DEF at
    <3>1. SUFFICES ASSUME NEW j \in 1..Len(s), j < at, t[s[j]].name = name PROVE FALSE
      OBVIOUS
    <3>2. j \in I
      BY <3>1
    <3> QED
      BY <1>1, <2>3, <2>4, <3>1, <3>2
  <2>6. at # 0
    <3> HIDE DEF at
    <3> QED
      BY <2>4, <1>1
  <2> HIDE DEF at, I
  <2>7. FirstChild(t, n, name, at) /\ LookupIn(t, n, name) = s[at]
    BY <1>3, <2>4, <2>5, <2>6 DEF FirstChild
  <2> QED
    BY <1>1, <2>4, <2>7
<1> QED
  BY <1>4, <1>5

\* The first child determines the result.
LEMMA LookupFinds ==
  ASSUME NEW t, Heads(t), Addresses(t), NEW n \in DOMAIN t, NEW name
  PROVE  /\ NoChild(t, n, name) => LookupIn(t, n, name) = NoNode
         /\ \A k : FirstChild(t, n, name, k) => LookupIn(t, n, name) = t[n].head[k]
<1>1. t[n].head \in Seq(DOMAIN t) /\ Len(t[n].head) \in Nat
  BY LenProperties DEF Heads
<1>2. NoChild(t, n, name) => LookupIn(t, n, name) = NoNode
  BY LookupIs DEF NoChild, FirstChild
<1>3. ASSUME NEW k, FirstChild(t, n, name, k)
      PROVE  LookupIn(t, n, name) = t[n].head[k]
  <2>1. ~NoChild(t, n, name)
    BY <1>3 DEF NoChild, FirstChild
  <2>2. PICK i \in 1..Len(t[n].head) : LookupIn(t, n, name) = t[n].head[i] /\ FirstChild(t, n, name, i)
    BY <2>1, LookupIs
  <2>3. ~(i < k) /\ ~(k < i) /\ i \in Nat /\ k \in Nat
    BY <1>1, <1>3, <2>2 DEF FirstChild
  <2>4. i = k
    BY <2>3
  <2> QED
    BY <2>2, <2>4
<1> QED
  BY <1>2, <1>3

-----------------------------------------------------------------------------
(***************************************************************************)
(* Paths, for any memory t and root r.                                     *)
(***************************************************************************)
Step(t, above, name) == IF above = NoNode THEN NoNode ELSE LookupIn(t, above, name)

WalkIn(t, r, path) ==
  LET w[i \in 0..Len(path)] ==
        IF i = 0 THEN r
        ELSE LET above == w[i - 1]
             IN  IF above = NoNode THEN NoNode ELSE LookupIn(t, above, path[i])
  IN  w

NodeAt(t, r, path) == WalkIn(t, r, path)[Len(path)]

\* w is the walk along a path as far as m.
Walks(w, t, r, path, m) ==
  w[0] = r /\ \A i \in 1..m : w[i] = Step(t, w[i - 1], path[i])

LEMMA WalkExists ==
  ASSUME NEW t, NEW r, NEW path, NEW n \in Nat
  PROVE  \E w : w = [i \in 0..n |-> w[i]] /\ Walks(w, t, r, path, n)
<1> DEFINE T == {m \in 0..n : \E w : w = [i \in 0..m |-> w[i]] /\ Walks(w, t, r, path, m)}
<1>1. 0 \in T
  <2> DEFINE w == [i \in 0..0 |-> r]
  <2>1. w = [i \in 0..0 |-> w[i]] /\ w[0] = r
    OBVIOUS
  <2> HIDE DEF w
  <2>2. Walks(w, t, r, path, 0)
    BY <2>1 DEF Walks
  <2> QED
    BY <2>1, <2>2
<1>2. ASSUME NEW m \in 0..n, m \in T, m < n
      PROVE  m + 1 \in T
  <2>1. PICK w : w = [i \in 0..m |-> w[i]] /\ Walks(w, t, r, path, m)
    BY <1>2
  <2> DEFINE x == Step(t, w[m], path[m + 1])
             v == [i \in 0..(m + 1) |-> IF i = m + 1 THEN x ELSE w[i]]
  <2> HIDE DEF x
  <2>2. v = [i \in 0..(m + 1) |-> v[i]] /\ v[m + 1] = x /\ \A i \in 0..m : v[i] = w[i]
    BY <1>2
  <2> HIDE DEF v
  <2>3. ASSUME NEW i \in 1..(m + 1)
        PROVE  v[i] = Step(t, v[i - 1], path[i])
    <3>1. CASE i = m + 1
      <4>0. i - 1 = m /\ m \in 0..m
        BY <3>1
      <4>1. v[i - 1] = w[m] /\ v[i] = x /\ path[i] = path[m + 1]
        BY <2>2, <3>1, <4>0
      <4> QED
        BY <4>1 DEF x
    <3>2. CASE i # m + 1
      <4>1. i \in 1..m /\ i - 1 \in 0..m /\ i \in 0..m
        BY <1>2, <3>2
      <4> QED
        BY <2>1, <2>2, <4>1 DEF Walks
    <3> QED
      BY <3>1, <3>2
  <2>4. v[0] = r
    BY <1>2, <2>1, <2>2 DEF Walks
  <2>5. Walks(v, t, r, path, m + 1)
    BY <2>3, <2>4 DEF Walks
  <2> QED
    BY <1>2, <2>2, <2>5
<1>3. 0..n \subseteq T
  <2> HIDE DEF T
  <2> QED
    BY <1>1, <1>2, UpTo
<1>4. n \in T
  <2> HIDE DEF T
  <2> QED
    BY <1>3
<1> QED
  BY <1>4

LEMMA WalkUnique ==
  ASSUME NEW t, NEW r, NEW path, NEW n \in Nat, NEW v, NEW w,
         Walks(v, t, r, path, n), Walks(w, t, r, path, n)
  PROVE  \A i \in 0..n : v[i] = w[i]
<1> DEFINE T == {i \in 0..n : v[i] = w[i]}
<1>1. 0 \in T
  BY DEF Walks
<1>2. ASSUME NEW i \in 0..n, i \in T, i < n
      PROVE  i + 1 \in T
  <2>1. i + 1 \in 1..n /\ (i + 1) - 1 = i
    BY <1>2
  <2>2. v[i + 1] = Step(t, v[i], path[i + 1]) /\ w[i + 1] = Step(t, w[i], path[i + 1])
    BY <2>1 DEF Walks
  <2> QED
    BY <1>2, <2>1, <2>2
<1>3. 0..n \subseteq T
  <2> HIDE DEF T
  <2> QED
    BY <1>1, <1>2, UpTo
<1> QED
  BY <1>3

LEMMA WalkIs ==
  ASSUME NEW t, NEW r, NEW path, Len(path) \in Nat
  PROVE  Walks(WalkIn(t, r, path), t, r, path, Len(path)) /\ Len(path) \in Nat
<1> DEFINE n == Len(path)
           F == CHOOSE w : w = [i \in 0..n |->
                  IF i = 0 THEN r
                  ELSE IF w[i - 1] = NoNode THEN NoNode ELSE LookupIn(t, w[i - 1], path[i])]
<1>1. n \in Nat
  BY LenProperties
<1>2. PICK w : w = [i \in 0..n |-> w[i]] /\ Walks(w, t, r, path, n)
  BY <1>1, WalkExists
<1>3. w = [i \in 0..n |->
             IF i = 0 THEN r
             ELSE IF w[i - 1] = NoNode THEN NoNode ELSE LookupIn(t, w[i - 1], path[i])]
  BY <1>1, <1>2 DEF Walks, Step
<1>4. F = [i \in 0..n |->
             IF i = 0 THEN r
             ELSE IF F[i - 1] = NoNode THEN NoNode ELSE LookupIn(t, F[i - 1], path[i])]
  BY <1>3
<1>5. WalkIn(t, r, path) = F
  BY DEF WalkIn
<1> HIDE DEF F
<1>6. Walks(F, t, r, path, n)
  BY <1>1, <1>4 DEF Walks, Step
<1> QED
  BY <1>1, <1>5, <1>6

\* Whatever satisfies the recursion is the walk.
LEMMA WalkBy ==
  ASSUME NEW t, NEW r, NEW path, Len(path) \in Nat, NEW w, Walks(w, t, r, path, Len(path))
  PROVE  \A i \in 0..Len(path) : WalkIn(t, r, path)[i] = w[i]
BY WalkIs, WalkUnique

\* A walk stays in the memory, and does not come back from NULL.
LEMMA WalkTyped ==
  ASSUME NEW t, Heads(t), Addresses(t), NEW r \in DOMAIN t \cup {NoNode}, NEW path, Len(path) \in Nat
  PROVE  \A i \in 0..Len(path) :
           /\ WalkIn(t, r, path)[i] \in DOMAIN t \cup {NoNode}
           /\ \A j \in 0..i : WalkIn(t, r, path)[i] # NoNode => WalkIn(t, r, path)[j] # NoNode
<1> DEFINE w == WalkIn(t, r, path)
           n == Len(path)
           T == {i \in 0..n : w[i] \in DOMAIN t \cup {NoNode} /\ \A j \in 0..i : w[i] # NoNode => w[j] # NoNode}
<1>1. n \in Nat /\ w[0] = r /\ \A i \in 1..n : w[i] = Step(t, w[i - 1], path[i])
  BY WalkIs DEF Walks
<1> HIDE DEF w, n
<1>2. 0 \in T
  BY <1>1
<1>3. ASSUME NEW i \in 0..n, i \in T, i < n
      PROVE  i + 1 \in T
  <2>1. i + 1 \in 0..n /\ w[i + 1] = Step(t, w[i], path[i + 1])
    <3>1. i + 1 \in 1..n /\ (i + 1) - 1 = i
      BY <1>1, <1>3
    <3> QED
      BY <1>1, <3>1
  <2>2. w[i + 1] # NoNode => w[i] # NoNode
    BY <2>1 DEF Step
  <2>3. w[i + 1] \in DOMAIN t \cup {NoNode}
    <3>1. CASE w[i] = NoNode
      BY <2>1, <3>1 DEF Step
    <3>2. CASE w[i] # NoNode
      <4>1. w[i] \in DOMAIN t /\ w[i + 1] = LookupIn(t, w[i], path[i + 1])
        BY <1>3, <2>1, <3>2 DEF Step
      <4> QED
        BY <4>1, LookupIs
    <3> QED
      BY <3>1, <3>2
  <2>4. ASSUME NEW j \in 0..(i + 1), w[i + 1] # NoNode
        PROVE  w[j] # NoNode
    <3>1. j = i + 1 \/ j \in 0..i
      BY <1>1, <1>3
    <3> QED
      BY <1>3, <2>2, <2>4, <3>1
  <2> QED
    BY <2>1, <2>3, <2>4
<1>4. 0..n \subseteq T
  <2> HIDE DEF T
  <2> QED
    BY <1>1, <1>2, <1>3, UpTo
<1> QED
  BY <1>4 DEF w, n

LEMMA NodeAtTyped ==
  ASSUME NEW t, Heads(t), Addresses(t), NEW r \in DOMAIN t \cup {NoNode}, NEW path, Len(path) \in Nat
  PROVE  /\ NodeAt(t, r, path) \in DOMAIN t \cup {NoNode}
         /\ NodeAt(t, r, path) # NoNode =>
              \A j \in 0..Len(path) : WalkIn(t, r, path)[j] \in DOMAIN t /\ WalkIn(t, r, path)[j] # NoNode
         /\ r = NoNode => NodeAt(t, r, path) = NoNode
<1>1. Len(path) \in Nat /\ Len(path) \in 0..Len(path)
  BY LenProperties
<1>2. /\ WalkIn(t, r, path)[Len(path)] \in DOMAIN t \cup {NoNode}
      /\ \A j \in 0..Len(path) : WalkIn(t, r, path)[Len(path)] # NoNode => WalkIn(t, r, path)[j] # NoNode
      /\ \A j \in 0..Len(path) : WalkIn(t, r, path)[j] \in DOMAIN t \cup {NoNode}
  BY <1>1, WalkTyped
<1>3. WalkIn(t, r, path)[0] = r /\ 0 \in 0..Len(path)
  BY <1>1, WalkIs DEF Walks
<1>4. NodeAt(t, r, path) = WalkIn(t, r, path)[Len(path)]
  BY DEF NodeAt
<1> QED
  BY <1>2, <1>3, <1>4

\* The model's operators are these.
LEMMA WalkNow ==
  /\ \A n, name : ConfNodeLookupChild(n, name) = LookupIn(tree, n, name)
  /\ \A path : Walk(path) = WalkIn(tree, root, path)
  /\ \A path : ConfGetNode(path) = NodeAt(tree, root, path)
<1>1. \A n, name : ConfNodeLookupChild(n, name) = LookupIn(tree, n, name)
  BY DEF ConfNodeLookupChild, LookupIn
<1>2. \A path : Walk(path) = WalkIn(tree, root, path)
  BY DEF Walk, WalkIn, ConfNodeLookupChild, LookupIn
<1>3. \A path : ConfGetNode(path) = NodeAt(tree, root, path)
  BY <1>2 DEF ConfGetNode, NodeAt
<1> QED
  BY <1>1, <1>2, <1>3

LEMMA WalkNext ==
  /\ \A n, name : ConfNodeLookupChild(n, name)' = LookupIn(tree', n, name)
  /\ \A path : ConfGetNode(path)' = NodeAt(tree', root', path)
<1>1. ASSUME NEW n, NEW name
      PROVE  ConfNodeLookupChild(n, name)' = LookupIn(tree', n, name)
  <2>1. SelectInSeq(tree[n].head, LAMBDA c : tree[c].name = name)' = SelectInSeq(tree'[n].head, LAMBDA c : tree'[c].name = name)
    BY DEF SelectInSeq
  <2> QED
  BY <2>1 DEF ConfNodeLookupChild, LookupIn
<1>2. ASSUME NEW path
      PROVE  Walk(path)' = WalkIn(tree', root', path)
  BY <1>1 DEF Walk, WalkIn
<1>3. ASSUME NEW path
      PROVE  ConfGetNode(path)' = NodeAt(tree', root', path)
  BY <1>2 DEF ConfGetNode, NodeAt
<1> QED
  BY <1>1, <1>3

-----------------------------------------------------------------------------
(***************************************************************************)
(* What is below a node.                                                   *)
(***************************************************************************)
Kids(t, m) == Range(t[m].head)

LEMMA KidsAre ==
  ASSUME NEW t, Heads(t), NEW m \in DOMAIN t
  PROVE  /\ t[m].head \in Seq(DOMAIN t) /\ Len(t[m].head) \in Nat
         /\ \A c : c \in Kids(t, m) <=> \E i \in 1..Len(t[m].head) : c = t[m].head[i]
         /\ Kids(t, m) \subseteq DOMAIN t
<1>1. t[m].head \in Seq(DOMAIN t) /\ Len(t[m].head) \in Nat /\ DOMAIN t[m].head = 1..Len(t[m].head)
  BY LenProperties DEF Heads
<1>2. \A i \in 1..Len(t[m].head) : t[m].head[i] \in DOMAIN t
  BY <1>1, ElementOfSeq
<1> QED
  BY <1>1, <1>2 DEF Kids, Range

\* A set that has with every node the nodes in its list.
Closed(t, S) == \A m \in S \cap DOMAIN t : Kids(t, m) \subseteq S

Grow(t, S) == S \cup UNION {Range(t[m].head) : m \in S \cap DOMAIN t}

LEMMA GrowIs ==
  ASSUME NEW t, NEW S
  PROVE  /\ S \subseteq Grow(t, S)
         /\ Closed(t, S) <=> Grow(t, S) = S
         /\ \A U : Closed(t, U) /\ S \subseteq U => Grow(t, S) \subseteq U
<1>1. \A x : x \in Grow(t, S) <=> x \in S \/ \E m \in S \cap DOMAIN t : x \in Kids(t, m)
  BY DEF Grow, Kids
<1> QED
  BY <1>1 DEF Closed

BelowIn(t, n) ==
  LET b[k \in 0..Cardinality(DOMAIN t)] ==
        IF k = 0 THEN {n}
        ELSE LET above == b[k - 1]
             IN  above \cup UNION {Range(t[m].head) : m \in above \cap DOMAIN t}
  IN  b[Cardinality(DOMAIN t)]

Grows(b, t, n, k) == b[0] = {n} /\ \A i \in 1..k : b[i] = Grow(t, b[i - 1])

LEMMA GrowsExists ==
  ASSUME NEW t, NEW n, NEW N \in Nat
  PROVE  \E b : b = [i \in 0..N |-> b[i]] /\ Grows(b, t, n, N)
<1> DEFINE T == {m \in 0..N : \E b : b = [i \in 0..m |-> b[i]] /\ Grows(b, t, n, m)}
<1>1. 0 \in T
  <2> DEFINE b == [i \in 0..0 |-> {n}]
  <2>1. b = [i \in 0..0 |-> b[i]] /\ b[0] = {n}
    OBVIOUS
  <2> HIDE DEF b
  <2>2. Grows(b, t, n, 0)
    BY <2>1 DEF Grows
  <2> QED
    BY <2>1, <2>2
<1>2. ASSUME NEW m \in 0..N, m \in T, m < N
      PROVE  m + 1 \in T
  <2>1. PICK b : b = [i \in 0..m |-> b[i]] /\ Grows(b, t, n, m)
    BY <1>2
  <2> DEFINE x == Grow(t, b[m])
             v == [i \in 0..(m + 1) |-> IF i = m + 1 THEN x ELSE b[i]]
  <2> HIDE DEF x
  <2>2. v = [i \in 0..(m + 1) |-> v[i]] /\ v[m + 1] = x /\ \A i \in 0..m : v[i] = b[i]
    BY <1>2
  <2> HIDE DEF v
  <2>3. ASSUME NEW i \in 1..(m + 1)
        PROVE  v[i] = Grow(t, v[i - 1])
    <3>1. CASE i = m + 1
      <4>1. i - 1 = m /\ m \in 0..m
        BY <3>1
      <4>2. v[i - 1] = b[m] /\ v[i] = x
        BY <2>2, <3>1, <4>1
      <4> QED
        BY <4>2 DEF x
    <3>2. CASE i # m + 1
      <4>1. i \in 1..m /\ i - 1 \in 0..m /\ i \in 0..m
        BY <1>2, <3>2
      <4> QED
        BY <2>1, <2>2, <4>1 DEF Grows
    <3> QED
      BY <3>1, <3>2
  <2>4. v[0] = {n}
    <3>1. 0 \in 0..m /\ b[0] = {n}
      BY <1>2, <2>1 DEF Grows
    <3> QED
      BY <2>2, <3>1
  <2>5. Grows(v, t, n, m + 1)
    BY <2>3, <2>4 DEF Grows
  <2> QED
    BY <1>2, <2>2, <2>5
<1>3. 0..N \subseteq T
  <2> HIDE DEF T
  <2> QED
    BY <1>1, <1>2, UpTo
<1>4. N \in T
  <2> HIDE DEF T
  <2> QED
    BY <1>3
<1> QED
  BY <1>4

LEMMA BelowGrows ==
  ASSUME NEW t, NEW n, Cardinality(DOMAIN t) \in Nat
  PROVE  \E b : Grows(b, t, n, Cardinality(DOMAIN t)) /\ BelowIn(t, n) = b[Cardinality(DOMAIN t)]
<1> DEFINE N == Cardinality(DOMAIN t)
           F == CHOOSE b : b = [k \in 0..N |->
                  IF k = 0 THEN {n}
                  ELSE b[k - 1] \cup UNION {Range(t[m].head) : m \in b[k - 1] \cap DOMAIN t}]
<1>2. PICK b : b = [i \in 0..N |-> b[i]] /\ Grows(b, t, n, N)
  BY GrowsExists
<1>3. b = [k \in 0..N |->
             IF k = 0 THEN {n}
             ELSE b[k - 1] \cup UNION {Range(t[m].head) : m \in b[k - 1] \cap DOMAIN t}]
  <2>1. \A k \in 0..N : b[k] =
          IF k = 0 THEN {n} ELSE b[k - 1] \cup UNION {Range(t[m].head) : m \in b[k - 1] \cap DOMAIN t}
    <3> TAKE k \in 0..N
    <3>1. CASE k = 0
      BY <1>2, <3>1 DEF Grows
    <3>2. CASE k # 0
      <4>1. k \in 1..N
        BY <3>2
      <4>2. b[k] = Grow(t, b[k - 1])
        BY <1>2, <4>1 DEF Grows
      <4> QED
        BY <3>2, <4>2 DEF Grow
    <3> QED
      BY <3>1, <3>2
  <2> DEFINE G(k) == IF k = 0 THEN {n}
                     ELSE b[k - 1] \cup UNION {Range(t[m].head) : m \in b[k - 1] \cap DOMAIN t}
  <2>2. \A k \in 0..N : b[k] = G(k)
    BY <2>1
  <2> HIDE DEF G
  <2>3. b = [k \in 0..N |-> G(k)]
    BY <1>2, <2>2
  <2> QED
    BY <2>3 DEF G
<1>4. F = [k \in 0..N |->
             IF k = 0 THEN {n}
             ELSE F[k - 1] \cup UNION {Range(t[m].head) : m \in F[k - 1] \cap DOMAIN t}]
  BY <1>3
<1>5. BelowIn(t, n) = F[N]
  BY DEF BelowIn
<1> HIDE DEF F
<1>6. Grows(F, t, n, N)
  BY <1>4 DEF Grows, Grow
<1> QED
  BY <1>5, <1>6

\* Below n is the least set that has n and with every node the nodes in its
\* list: a set that still grows has one node more with every step, and there
\* are no more steps than nodes.
LEMMA BelowIs ==
  ASSUME NEW t, Heads(t), Addresses(t), NEW n \in DOMAIN t
  PROVE  /\ n \in BelowIn(t, n) /\ BelowIn(t, n) \subseteq DOMAIN t
         /\ Closed(t, BelowIn(t, n))
         /\ \A S : n \in S /\ Closed(t, S) => BelowIn(t, n) \subseteq S
<1> DEFINE N == Cardinality(DOMAIN t)
<1>1. IsFiniteSet(DOMAIN t) /\ N \in Nat
  <2>1. IsFiniteSet(1..MaxNodes)
    BY BoundsAssumption, FS_Interval
  <2> QED
    BY <2>1, FS_Subset, FS_CardinalityType DEF Addresses
<1>2. PICK b : Grows(b, t, n, N) /\ BelowIn(t, n) = b[N]
  BY <1>1, BelowGrows
<1> HIDE DEF N
<1>3. b[0] = {n} /\ \A i \in 0..N : i < N => b[i + 1] = Grow(t, b[i])
  <2>1. \A i \in 0..N : i < N => i + 1 \in 1..N /\ (i + 1) - 1 = i
    BY <1>1
  <2> QED
    BY <1>2, <2>1 DEF Grows
<1>4. \A S : n \in S /\ Closed(t, S) => \A i \in 0..N : b[i] \subseteq S
  <2> SUFFICES ASSUME NEW S, n \in S, Closed(t, S) PROVE \A i \in 0..N : b[i] \subseteq S
    OBVIOUS
  <2> DEFINE T == {i \in 0..N : b[i] \subseteq S}
  <2>1. 0 \in T
    BY <1>1, <1>3
  <2>2. ASSUME NEW i \in 0..N, i \in T, i < N
        PROVE  i + 1 \in T
    <3>1. b[i + 1] = Grow(t, b[i]) /\ b[i] \subseteq S /\ i + 1 \in 0..N
      BY <1>1, <1>3, <2>2
    <3> QED
      BY <3>1, GrowIs
  <2>3. 0..N \subseteq T
    <3> HIDE DEF T
    <3> QED
      BY <1>1, <2>1, <2>2, UpTo
  <2> QED
    BY <2>3
<1>5. \A i \in 0..N : b[i] \subseteq DOMAIN t
  <2>1. Closed(t, DOMAIN t)
    BY KidsAre DEF Closed
  <2> QED
    BY <1>4, <2>1
<1>6. \A i \in 0..N : n \in b[i] /\ (Closed(t, b[i]) \/ Cardinality(b[i]) >= i + 1)
  <2> DEFINE T == {i \in 0..N : n \in b[i] /\ (Closed(t, b[i]) \/ Cardinality(b[i]) >= i + 1)}
  <2>1. 0 \in T
    <3>1. Cardinality({n}) = 1
      BY FS_Singleton
    <3> QED
      BY <1>1, <1>3, <3>1
  <2>2. ASSUME NEW i \in 0..N, i \in T, i < N
        PROVE  i + 1 \in T
    <3>1. i + 1 \in 0..N /\ b[i + 1] = Grow(t, b[i]) /\ b[i] \subseteq b[i + 1] /\ n \in b[i + 1]
      <4>1. i + 1 \in 0..N /\ b[i + 1] = Grow(t, b[i]) /\ n \in b[i]
        BY <1>1, <1>3, <2>2
      <4>2. b[i] \subseteq Grow(t, b[i])
        BY GrowIs
      <4> QED
        BY <4>1, <4>2
    <3>2. CASE Closed(t, b[i])
      BY <3>1, <3>2, GrowIs
    <3>3. CASE ~Closed(t, b[i])
      <4>1. Cardinality(b[i]) >= i + 1 /\ b[i + 1] # b[i]
        BY <2>2, <3>1, <3>3, GrowIs
      <4>2. IsFiniteSet(b[i]) /\ IsFiniteSet(b[i + 1])
        BY <1>1, <1>5, <3>1, FS_Subset
      <4>3. /\ Cardinality(b[i]) \in Nat /\ Cardinality(b[i + 1]) \in Nat
            /\ Cardinality(b[i]) <= Cardinality(b[i + 1])
            /\ Cardinality(b[i]) # Cardinality(b[i + 1])
        BY <3>1, <4>1, <4>2, FS_Subset, FS_CardinalityType
      <4>4. Cardinality(b[i + 1]) >= (i + 1) + 1
        BY <4>1, <4>3
      <4> QED
        BY <3>1, <4>4
    <3> QED
      BY <3>2, <3>3
  <2>3. 0..N \subseteq T
    <3> HIDE DEF T
    <3> QED
      BY <1>1, <2>1, <2>2, UpTo
  <2> QED
    BY <2>3
<1>7. Closed(t, b[N])
  <2>1. N \in 0..N
    BY <1>1
  <2>2. Cardinality(b[N]) <= N
    BY <1>1, <1>5, <2>1, FS_Subset DEF N
  <2>3. Cardinality(b[N]) \in Nat
    BY <1>1, <1>5, <2>1, FS_Subset, FS_CardinalityType
  <2> QED
    BY <1>1, <1>6, <2>1, <2>2, <2>3
<1> QED
  <2>1. N \in 0..N
    BY <1>1
  <2> QED
    BY <1>2, <1>4, <1>5, <1>6, <1>7, <2>1

LEMMA BelowNow ==
  /\ \A n : Below(n) = BelowIn(tree, n)
  /\ \A t, n : ConfNodeFree(t, n) = [x \in DOMAIN t \ BelowIn(tree, n) |-> t[x]]
<1>1. \A n : Below(n) = BelowIn(tree, n)
  BY DEF Below, BelowIn, Live
<1> QED
  BY <1>1 DEF ConfNodeFree, Restrict

-----------------------------------------------------------------------------
(***************************************************************************)
(* Forests: memory t with the roots R.                                     *)
(***************************************************************************)
Shape(t) == Heads(t) /\ Addresses(t)

\* Nothing but what the roots reach is allocated.
Reached(t, R) == \A S : R \subseteq S /\ Closed(t, S) => DOMAIN t \subseteq S

Forest(t, R) ==
  /\ R \subseteq DOMAIN t
  /\ \A n \in DOMAIN t : Kids(t, n) \cap R = {} /\ IsInjective(t[n].head)
  /\ \A m, n \in DOMAIN t : m # n => Kids(t, m) \cap Kids(t, n) = {}
  /\ Reached(t, R)
  /\ \A n \in DOMAIN t : t[n].parent # NoNode =>
       t[n].parent \in DOMAIN t /\ n \in Kids(t, t[n].parent)

\* From t to u only values change.
Same(t, u) ==
  /\ DOMAIN u = DOMAIN t
  /\ \A n \in DOMAIN t : u[n].name = t[n].name /\ u[n].head = t[n].head /\ u[n].parent = t[n].parent

LEMMA ForestSame ==
  ASSUME NEW t, NEW u, NEW R, Shape(t), Forest(t, R), Same(t, u)
  PROVE  Shape(u) /\ Forest(u, R)
<1>1. Shape(u)
  BY DEF Shape, Heads, Addresses, Same
<1>2. \A n \in DOMAIN t : Kids(u, n) = Kids(t, n)
  BY DEF Same, Kids
<1>3. Reached(u, R)
  BY <1>2 DEF Forest, Reached, Closed, Same
<1> QED
  BY <1>1, <1>2, <1>3 DEF Forest, Same

\* From t to u the chain of new nodes a to b is appended to the list of n.
Extends(t, u, n, a, b) ==
  /\ n \in DOMAIN t /\ a \in Nat /\ b \in Nat /\ a <= b
  /\ \A m \in DOMAIN t : m \notin a..b
  /\ DOMAIN u = DOMAIN t \cup (a..b)
  /\ \A m \in DOMAIN t :
       /\ u[m].name = t[m].name /\ u[m].parent = t[m].parent
       /\ u[m].head = IF m = n THEN Append(t[n].head, a) ELSE t[m].head
  /\ \A i \in a..b :
       /\ u[i].head = IF i = b THEN <<>> ELSE <<i + 1>>
       /\ u[i].parent \in {NoNode, IF i = a THEN n ELSE i - 1}

LEMMA ExtendsKids ==
  ASSUME NEW t, NEW u, NEW n, NEW a, NEW b, Shape(t), b <= MaxNodes, a >= 1, Extends(t, u, n, a, b)
  PROVE  /\ Shape(u)
         /\ Kids(u, n) = Kids(t, n) \cup {a}
         /\ \A m \in DOMAIN t : m # n => Kids(u, m) = Kids(t, m)
         /\ \A i \in a..b : Kids(u, i) = IF i = b THEN {} ELSE {i + 1}
<1>1. Addresses(u)
  <2>1. \A i \in a..b : i \in 1..MaxNodes
    BY BoundsAssumption DEF Extends
  <2> QED
    BY <2>1 DEF Addresses, Shape, Extends
<1>2. \A m \in DOMAIN t : t[m].head \in Seq(DOMAIN u)
  <2>1. DOMAIN t \subseteq DOMAIN u
    BY DEF Extends
  <2> SUFFICES ASSUME NEW m \in DOMAIN t PROVE t[m].head \in Seq(DOMAIN u)
    OBVIOUS
  <2>2. t[m].head \in Seq(DOMAIN t)
    BY DEF Shape, Heads
  <2> QED
    BY <2>1, <2>2
<1>3. a \in DOMAIN u /\ \A i \in a..b : i # b => i + 1 \in DOMAIN u
  BY DEF Extends
<1>4. Heads(u)
  <2> SUFFICES ASSUME NEW m \in DOMAIN u PROVE u[m].head \in Seq(DOMAIN u)
    BY DEF Heads
  <2>1. CASE m \in DOMAIN t /\ m # n
    BY <1>2, <2>1 DEF Extends
  <2>2. CASE m = n
    <3>1. u[m].head = Append(t[n].head, a) /\ t[n].head \in Seq(DOMAIN u)
      BY <1>2, <2>2 DEF Extends
    <3> QED
      BY <1>3, <3>1, AppendProperties
  <2>3. CASE m \in a..b /\ m = b
    <3>1. u[m].head = <<>>
      BY <2>3 DEF Extends
    <3> QED
      BY <3>1
  <2>4. CASE m \in a..b /\ m # b
    <3>1. u[m].head = <<m + 1>> /\ m + 1 \in DOMAIN u
      BY <1>3, <2>4 DEF Extends
    <3> QED
      BY <3>1
  <2> QED
    BY <2>1, <2>2, <2>3, <2>4 DEF Extends
<1>5. Kids(u, n) = Kids(t, n) \cup {a}
  <2> DEFINE s == t[n].head
  <2>1. u[n].head = Append(s, a) /\ n \in DOMAIN t /\ n \in DOMAIN u /\ s \in Seq(DOMAIN u)
    BY <1>2 DEF Extends
  <2> HIDE DEF s
  <2>2. /\ Len(s) \in Nat /\ Len(Append(s, a)) = Len(s) + 1
        /\ \A i \in 1..Len(s) : Append(s, a)[i] = s[i]
        /\ Append(s, a)[Len(s) + 1] = a
    BY <1>3, <2>1, AppendProperties, LenProperties
  <2>3. \A c : c \in Kids(u, n) <=> \E i \in 1..Len(Append(s, a)) : c = Append(s, a)[i]
    <3>1. n \in DOMAIN u /\ u[n].head = Append(s, a)
      BY <2>1
    <3>2. \A c : c \in Kids(u, n) <=> \E i \in 1..Len(u[n].head) : c = u[n].head[i]
      <4>1. n \in DOMAIN u
        BY <2>1
      <4> QED
        BY <1>4, <4>1, KidsAre
    <3> QED
      BY <3>1, <3>2
  <2>4. \A c : c \in Kids(t, n) <=> \E i \in 1..Len(s) : c = s[i]
    BY <2>1, KidsAre DEF Shape, s
  <2>5. ASSUME NEW c \in Kids(u, n)
        PROVE  c \in Kids(t, n) \cup {a}
    <3>1. PICK i \in 1..(Len(s) + 1) : c = Append(s, a)[i]
      BY <2>2, <2>3
    <3>2. i \in 1..Len(s) \/ i = Len(s) + 1
      BY <2>2
    <3> QED
      BY <2>2, <2>4, <3>1, <3>2
  <2>6. ASSUME NEW c \in Kids(t, n)
        PROVE  c \in Kids(u, n)
    <3>1. PICK i \in 1..Len(s) : c = s[i]
      BY <2>4
    <3>2. i \in 1..Len(Append(s, a)) /\ c = Append(s, a)[i]
      BY <2>2, <3>1
    <3> QED
      BY <2>3, <3>2
  <2>7. a \in Kids(u, n)
    <3>1. Len(s) + 1 \in 1..Len(Append(s, a))
      BY <2>2
    <3> QED
      BY <2>2, <2>3, <3>1
  <2> QED
    BY <2>5, <2>6, <2>7
<1>6. \A m \in DOMAIN t : m # n => Kids(u, m) = Kids(t, m)
  BY DEF Extends, Kids
<1>7. \A i \in a..b : Kids(u, i) = IF i = b THEN {} ELSE {i + 1}
  <2> SUFFICES ASSUME NEW i \in a..b PROVE Kids(u, i) = IF i = b THEN {} ELSE {i + 1}
    OBVIOUS
  <2>1. CASE i = b
    <3>1. u[i].head = <<>>
      BY <2>1 DEF Extends
    <3> QED
      BY <2>1, <3>1 DEF Kids, Range
  <2>2. CASE i # b
    <3>1. u[i].head = <<i + 1>>
      BY <2>2 DEF Extends
    <3> QED
      BY <2>2, <3>1 DEF Kids, Range
  <2> QED
    BY <2>1, <2>2
<1> QED
  BY <1>1, <1>4, <1>5, <1>6, <1>7 DEF Shape

LEMMA ForestExtends ==
  ASSUME NEW t, NEW u, NEW n, NEW a, NEW b, NEW R, Shape(t), Forest(t, R),
         b <= MaxNodes, a >= 1, Extends(t, u, n, a, b)
  PROVE  Shape(u) /\ Forest(u, R)
<1>1. /\ Shape(u)
      /\ Kids(u, n) = Kids(t, n) \cup {a}
      /\ \A m \in DOMAIN t : m # n => Kids(u, m) = Kids(t, m)
      /\ \A i \in a..b : Kids(u, i) = IF i = b THEN {} ELSE {i + 1}
  BY ExtendsKids
<1>2. /\ n \in DOMAIN t /\ a \in Nat /\ b \in Nat /\ a <= b
      /\ \A m \in DOMAIN t : m \notin a..b
      /\ DOMAIN u = DOMAIN t \cup (a..b)
  BY DEF Extends
<1>3. \A m \in DOMAIN t : Kids(t, m) \subseteq DOMAIN t
  BY KidsAre DEF Shape
<1>4. R \subseteq DOMAIN u
  BY <1>2 DEF Forest
<1>5. \A m \in DOMAIN u : Kids(u, m) \cap R = {}
  <2>1. R \subseteq DOMAIN t /\ \A m \in DOMAIN t : Kids(t, m) \cap R = {}
    BY DEF Forest
  <2>2. a \notin R /\ \A i \in a..b : i # b => i + 1 \notin R
    BY <1>2, <2>1
  <2> QED
    BY <1>1, <1>2, <2>1, <2>2
<1>6. \A m \in DOMAIN u : IsInjective(u[m].head)
  <2> SUFFICES ASSUME NEW m \in DOMAIN u PROVE IsInjective(u[m].head)
    OBVIOUS
  <2>1. CASE m \in DOMAIN t /\ m # n
    BY <2>1 DEF Extends, Forest
  <2>2. CASE m = n
    <3> DEFINE s == t[n].head
    <3>1. u[m].head = Append(s, a) /\ IsInjective(s) /\ s \in Seq(DOMAIN t)
      BY <2>2 DEF Extends, Forest, Shape, Heads
    <3>2. a \notin Kids(t, n)
      BY <1>2, <1>3
    <3>3. Len(s) \in Nat /\ \A i \in 1..Len(s) : s[i] # a
      BY <1>2, <3>2, KidsAre DEF Shape
    <3> HIDE DEF s
    <3>4. DOMAIN s = 1..Len(s)
      BY <3>1, LenProperties
    <3>5. /\ DOMAIN Append(s, a) = 1..(Len(s) + 1)
          /\ \A i \in 1..Len(s) : Append(s, a)[i] = s[i]
          /\ Append(s, a)[Len(s) + 1] = a
      <4>1. s \in Seq(DOMAIN t \cup {a}) /\ a \in DOMAIN t \cup {a}
        BY <3>1
      <4> QED
        BY <4>1, AppendProperties, LenProperties
    <3>6. ASSUME NEW i \in 1..(Len(s) + 1), NEW j \in 1..(Len(s) + 1), Append(s, a)[i] = Append(s, a)[j]
          PROVE  i = j
      <4>1. i \in 1..Len(s) \/ i = Len(s) + 1
        BY <3>3
      <4>2. j \in 1..Len(s) \/ j = Len(s) + 1
        BY <3>3
      <4> QED
        BY <3>1, <3>3, <3>4, <3>5, <3>6, <4>1, <4>2 DEF IsInjective
    <3> QED
      BY <3>1, <3>5, <3>6 DEF IsInjective
  <2>3. CASE m \in a..b
    <3>1. u[m].head = <<>> \/ u[m].head = <<m + 1>>
      BY <2>3 DEF Extends
    <3> QED
      BY <3>1 DEF IsInjective
  <2> QED
    BY <1>2, <2>1, <2>2, <2>3
<1>7. \A l, m \in DOMAIN u : l # m => Kids(u, l) \cap Kids(u, m) = {}
  <2> SUFFICES ASSUME NEW l \in DOMAIN u, NEW m \in DOMAIN u, l # m, NEW c, c \in Kids(u, l), c \in Kids(u, m)
               PROVE  FALSE
    OBVIOUS
  <2>1. \A x, y \in DOMAIN t : x # y => Kids(t, x) \cap Kids(t, y) = {}
    BY DEF Forest
  <2>2. CASE c \in DOMAIN t
    <3>1. c # a /\ \A i \in a..b : i # b => c # i + 1
      BY <1>2, <2>2
    <3>2. l \in DOMAIN t /\ m \in DOMAIN t /\ c \in Kids(t, l) /\ c \in Kids(t, m)
      BY <1>1, <1>2, <3>1
    <3> QED
      BY <2>1, <3>2
  <2>3. CASE c \notin DOMAIN t
    <3>1. \A x \in DOMAIN t : c \in Kids(u, x) => x = n /\ c = a
      BY <1>1, <1>3, <2>3
    <3>2. \A i \in a..b : c \in Kids(u, i) => c = i + 1 /\ c # a
      BY <1>1, <1>2
    <3>3. l \in a..b /\ m \in a..b /\ c = l + 1 /\ c = m + 1
      BY <1>2, <3>1, <3>2
    <3> QED
      BY <1>2, <3>3
  <2> QED
    BY <2>2, <2>3
<1>8. Reached(u, R)
  <2> SUFFICES ASSUME NEW S, R \subseteq S, Closed(u, S) PROVE DOMAIN u \subseteq S
    BY DEF Reached
  <2>1. Closed(t, S)
    BY <1>1, <1>2 DEF Closed
  <2>2. DOMAIN t \subseteq S
    BY <2>1 DEF Forest, Reached
  <2>3. a \in S
    BY <1>1, <1>2, <2>2 DEF Closed
  <2>4. \A i \in a..b : i # b /\ i \in S => i + 1 \in S
    BY <1>1, <1>2 DEF Closed
  <2> DEFINE N == b - a
             T == {k \in 0..N : a + k \in S}
  <2>5. N \in Nat /\ 0 \in T
    BY <1>2, <2>3
  <2>6. ASSUME NEW k \in 0..N, k \in T, k < N
        PROVE  k + 1 \in T
    <3>1. a + k \in a..b /\ a + k # b /\ a + k \in S /\ (a + k) + 1 = a + (k + 1) /\ k + 1 \in 0..N
      BY <1>2, <2>6
    <3> QED
      BY <2>4, <3>1
  <2>7. 0..N \subseteq T
    <3> HIDE DEF T, N
    <3> QED
      BY <2>5, <2>6, UpTo
  <2>8. ASSUME NEW i \in a..b
        PROVE  i \in S
    <3>1. i - a \in 0..N /\ a + (i - a) = i
      BY <1>2
    <3> QED
      BY <2>7, <3>1
  <2> QED
    BY <1>2, <2>2, <2>8
<1>9. ASSUME NEW m \in DOMAIN u, u[m].parent # NoNode
      PROVE  u[m].parent \in DOMAIN u /\ m \in Kids(u, u[m].parent)
  <2>1. CASE m \in DOMAIN t
    <3>1. u[m].parent = t[m].parent /\ t[m].parent \in DOMAIN t /\ m \in Kids(t, t[m].parent)
      BY <1>9, <2>1 DEF Extends, Forest
    <3> QED
      BY <1>1, <1>2, <3>1
  <2>2. CASE m \in a..b
    <3>1. u[m].parent = IF m = a THEN n ELSE m - 1
      BY <1>9, <2>2 DEF Extends
    <3>2. m # a => m - 1 \in a..b /\ m - 1 # b /\ (m - 1) + 1 = m
      BY <1>2, <2>2
    <3> QED
      BY <1>1, <1>2, <3>1, <3>2
  <2> QED
    BY <1>2, <2>1, <2>2
<1> QED
  BY <1>1, <1>4, <1>5, <1>6, <1>7, <1>8, <1>9 DEF Forest

\* A root r of its own is added.
Roots(t, u, r) ==
  /\ r \notin DOMAIN t /\ DOMAIN u = DOMAIN t \cup {r}
  /\ \A m \in DOMAIN t : u[m].name = t[m].name /\ u[m].head = t[m].head /\ u[m].parent = t[m].parent
  /\ u[r].head = <<>> /\ u[r].parent = NoNode

LEMMA ForestRoots ==
  ASSUME NEW t, NEW u, NEW r \in 1..MaxNodes, NEW R, Shape(t), Forest(t, R), Roots(t, u, r)
  PROVE  Shape(u) /\ Forest(u, R \cup {r})
<1>1. \A m \in DOMAIN t : Kids(u, m) = Kids(t, m) /\ Kids(t, m) \subseteq DOMAIN t
  BY KidsAre DEF Roots, Kids, Shape
<1>2. Kids(u, r) = {}
  BY DEF Roots, Kids, Range
<1>3. Shape(u)
  <2>1. Addresses(u)
    BY DEF Roots, Shape, Addresses
  <2>2. Heads(u)
    <3> SUFFICES ASSUME NEW m \in DOMAIN u PROVE u[m].head \in Seq(DOMAIN u)
      BY DEF Heads
    <3>1. CASE m = r
      <4>1. u[m].head = <<>>
        BY <3>1 DEF Roots
      <4> QED
        BY <4>1
    <3>2. CASE m \in DOMAIN t
      <4>1. u[m].head \in Seq(DOMAIN t) /\ DOMAIN t \subseteq DOMAIN u
        BY <3>2 DEF Roots, Shape, Heads
      <4> QED
        BY <4>1
    <3> QED
      BY <3>1, <3>2 DEF Roots
  <2> QED
    BY <2>1, <2>2 DEF Shape
<1>4. DOMAIN u = DOMAIN t \cup {r} /\ r \notin DOMAIN t
  BY DEF Roots
<1>5. Reached(u, R \cup {r})
  <2> SUFFICES ASSUME NEW S, R \cup {r} \subseteq S, Closed(u, S) PROVE DOMAIN u \subseteq S
    BY DEF Reached
  <2>1. Closed(t, S)
    BY <1>1, <1>4 DEF Closed
  <2> QED
    BY <1>4, <2>1 DEF Forest, Reached
<1>6. \A m \in DOMAIN u : Kids(u, m) \cap (R \cup {r}) = {}
  BY <1>1, <1>2, <1>4 DEF Forest
<1>7. \A m \in DOMAIN u : IsInjective(u[m].head)
  <2>1. IsInjective(u[r].head)
    BY DEF Roots, IsInjective
  <2> QED
    BY <1>4, <2>1 DEF Roots, Forest
<1>8. \A l, m \in DOMAIN u : l # m => Kids(u, l) \cap Kids(u, m) = {}
  BY <1>1, <1>2, <1>4 DEF Forest
<1>9. \A m \in DOMAIN u : u[m].parent # NoNode => u[m].parent \in DOMAIN u /\ m \in Kids(u, u[m].parent)
  BY <1>1, <1>4 DEF Roots, Forest
<1> QED
  BY <1>3, <1>4, <1>5, <1>6, <1>7, <1>8, <1>9 DEF Forest

LEMMA RemoveAtParts ==
  ASSUME NEW V, NEW s \in Seq(V), NEW k \in 1..Len(s)
  PROVE  /\ RemoveAt(s, k) \in Seq(V) /\ Len(RemoveAt(s, k)) = Len(s) - 1 /\ Len(s) \in Nat \ {0}
         /\ \A i \in 1..(Len(s) - 1) : RemoveAt(s, k)[i] = IF i < k THEN s[i] ELSE s[i + 1]
<1> DEFINE m == k - 1
           l == k + 1
           n == Len(s)
           x == SubSeq(s, 1, m)
           y == SubSeq(s, l, n)
<1>1. n \in Nat /\ n >= 1 /\ m \in Int /\ l \in Int /\ n \in Int /\ m >= 0 /\ m <= n /\ l <= n + 1
      /\ (\A i \in 1..m : s[i] \in V) /\ (\A i \in l..n : s[i] \in V)
  BY LenProperties, ElementOfSeq
<1>2. RemoveAt(s, k) = x \o y
  BY DEF RemoveAt
<1>k. m = k - 1 /\ l = k + 1 /\ n = Len(s)
  OBVIOUS
<1> HIDE DEF m, l, n
<1>3. /\ x \in Seq(V) /\ Len(x) = IF 1 <= m THEN m - 1 + 1 ELSE 0
      /\ \A i \in 1..(m - 1 + 1) : x[i] = s[1 + i - 1]
  BY <1>1, SubSeqProperties
<1>4. /\ y \in Seq(V) /\ Len(y) = IF l <= n THEN n - l + 1 ELSE 0
      /\ \A i \in 1..(n - l + 1) : y[i] = s[l + i - 1]
  BY <1>1, SubSeqProperties
<1> HIDE DEF x, y
<1>5. Len(x) = m /\ Len(y) = n - k /\ k \in Nat
  BY <1>1, <1>3, <1>4, <1>k
<1>6. /\ x \o y \in Seq(V) /\ Len(x \o y) = Len(x) + Len(y)
      /\ \A i \in 1..(Len(x) + Len(y)) : (x \o y)[i] = IF i <= Len(x) THEN x[i] ELSE y[i - Len(x)]
  BY <1>3, <1>4, ConcatProperties
<1>7. ASSUME NEW i \in 1..(n - 1)
      PROVE  (x \o y)[i] = IF i < k THEN s[i] ELSE s[i + 1]
  <2>1. i \in 1..(Len(x) + Len(y))
    BY <1>1, <1>5, <1>k
  <2>2. CASE i < k
    <3>1. i <= Len(x) /\ i \in 1..(m - 1 + 1) /\ 1 + i - 1 = i
      BY <1>1, <1>5, <1>k, <2>2
    <3> QED
      BY <1>3, <1>6, <2>1, <2>2, <3>1
  <2>3. CASE ~(i < k)
    <3>1. ~(i <= Len(x)) /\ i - Len(x) \in 1..(n - l + 1) /\ l + (i - Len(x)) - 1 = i + 1
      BY <1>1, <1>5, <1>k, <2>3
    <3> QED
      BY <1>4, <1>6, <2>1, <2>3, <3>1
  <2> QED
    BY <2>2, <2>3
<1>8. Len(x \o y) = n - 1 /\ n \in Nat \ {0}
  BY <1>1, <1>5, <1>6, <1>k
<1> QED
  BY <1>2, <1>6, <1>7, <1>8, <1>k

\* From t to u node n and what is below it is freed, and no list has n any more.
Cuts(t, u, n) ==
  /\ n \in DOMAIN t /\ DOMAIN u = DOMAIN t \ BelowIn(t, n)
  /\ \A m \in DOMAIN u :
       /\ u[m].name = t[m].name /\ u[m].parent = t[m].parent
       /\ \/ n \notin Kids(t, m) /\ u[m].head = t[m].head
          \/ \E k \in 1..Len(t[m].head) : t[m].head[k] = n /\ u[m].head = RemoveAt(t[m].head, k)

LEMMA CutsKids ==
  ASSUME NEW t, NEW u, NEW n, NEW R, Shape(t), Forest(t, R), Cuts(t, u, n), NEW m \in DOMAIN u
  PROVE  /\ m \in DOMAIN t /\ u[m].head \in Seq(DOMAIN t)
         /\ IsInjective(u[m].head)
         /\ \A c : c \in Kids(t, m) /\ c # n <=> \E i \in 1..Len(u[m].head) : c = u[m].head[i]
<1> DEFINE s == t[m].head
<1>1. m \in DOMAIN t /\ s \in Seq(DOMAIN t) /\ IsInjective(s) /\ Len(s) \in Nat /\ DOMAIN s = 1..Len(s)
  BY LenProperties DEF Cuts, Shape, Heads, Forest
<1>2. \A c : c \in Kids(t, m) <=> \E i \in 1..Len(s) : c = s[i]
  BY <1>1, KidsAre DEF Shape
<1> HIDE DEF s
<1>3. CASE n \notin Kids(t, m) /\ u[m].head = s
  BY <1>1, <1>2, <1>3
<1>4. ASSUME NEW k \in 1..Len(s), s[k] = n, u[m].head = RemoveAt(s, k)
      PROVE  /\ u[m].head \in Seq(DOMAIN t)
             /\ IsInjective(u[m].head)
             /\ \A c : c \in Kids(t, m) /\ c # n <=> \E i \in 1..Len(u[m].head) : c = u[m].head[i]
  <2> DEFINE v == u[m].head
  <2>1. /\ v \in Seq(DOMAIN t) /\ Len(v) = Len(s) - 1
        /\ \A i \in 1..(Len(s) - 1) : v[i] = IF i < k THEN s[i] ELSE s[i + 1]
    BY <1>1, <1>4, RemoveAtParts
  <2>2. DOMAIN v = 1..Len(v)
    BY <2>1, LenProperties
  <2>i. \A i, j \in 1..Len(s) : s[i] = s[j] => i = j
    BY <1>1 DEF IsInjective
  <2> HIDE DEF v
  <2>3. ASSUME NEW i \in 1..Len(v), NEW j \in 1..Len(v), v[i] = v[j]
        PROVE  i = j
    <3> DEFINE x == IF i < k THEN i ELSE i + 1
               y == IF j < k THEN j ELSE j + 1
    <3>1. x \in 1..Len(s) /\ y \in 1..Len(s) /\ v[i] = s[x] /\ v[j] = s[y]
      BY <1>1, <2>1
    <3>2. x = y
      <4> HIDE DEF x, y
      <4> QED
        BY <2>3, <2>i, <3>1
    <3> QED
      BY <1>1, <2>1, <3>2
  <2>4. ASSUME NEW c, c \in Kids(t, m), c # n
        PROVE  \E i \in 1..Len(v) : c = v[i]
    <3>1. PICK j \in 1..Len(s) : c = s[j]
      BY <1>2, <2>4
    <3>2. j # k
      BY <1>4, <2>4, <3>1
    <3> DEFINE i == IF j < k THEN j ELSE j - 1
    <3>3. i \in 1..Len(v) /\ v[i] = s[j]
      <4>1. CASE j < k
        BY <1>1, <2>1, <4>1
      <4>2. CASE ~(j < k)
        <5>1. j - 1 \in 1..(Len(s) - 1) /\ ~(j - 1 < k) /\ (j - 1) + 1 = j
          BY <1>1, <3>2, <4>2
        <5> QED
          BY <2>1, <4>2, <5>1
      <4> QED
        BY <4>1, <4>2
    <3> QED
      BY <3>1, <3>3
  <2>5. ASSUME NEW i \in 1..Len(v)
        PROVE  v[i] \in Kids(t, m) /\ v[i] # n
    <3> DEFINE x == IF i < k THEN i ELSE i + 1
    <3>1. x \in 1..Len(s) /\ x # k /\ v[i] = s[x]
      BY <1>1, <2>1
    <3> HIDE DEF x
    <3>2. s[x] # n
      BY <1>4, <2>i, <3>1
    <3> QED
      BY <1>2, <3>1, <3>2
  <2>6. IsInjective(v)
    BY <2>2, <2>3 DEF IsInjective
  <2> QED
    BY <2>1, <2>4, <2>5, <2>6 DEF v
<1>5. (n \notin Kids(t, m) /\ u[m].head = s) \/ \E k \in 1..Len(s) : s[k] = n /\ u[m].head = RemoveAt(s, k)
  BY DEF Cuts, s
<1> QED
  BY <1>1, <1>3, <1>4, <1>5

\* What is below n is in lists of nodes below n, n itself aside; no other root is.
LEMMA CutsOff ==
  ASSUME NEW t, NEW n, NEW R, Shape(t), Forest(t, R), n \in DOMAIN t
  PROVE  /\ \A m \in DOMAIN t \ BelowIn(t, n) : \A c \in Kids(t, m) : c # n => c \notin BelowIn(t, n)
         /\ \A r \in R : r # n => r \notin BelowIn(t, n)
         /\ n \in BelowIn(t, n) /\ Closed(t, BelowIn(t, n))
<1> DEFINE B == BelowIn(t, n)
<1>1. n \in B /\ B \subseteq DOMAIN t /\ Closed(t, B) /\ \A S : n \in S /\ Closed(t, S) => B \subseteq S
  BY BelowIs DEF Shape
<1> HIDE DEF B
<1>2. ASSUME NEW m \in DOMAIN t \ B, NEW c \in Kids(t, m), c # n, c \in B
      PROVE  FALSE
  <2>1. \A x \in B : c \notin Kids(t, x)
    BY <1>1, <1>2 DEF Forest
  <2>2. Closed(t, B \ {c})
    BY <1>1, <2>1 DEF Closed
  <2> QED
    BY <1>1, <1>2, <2>2
<1>3. ASSUME NEW r \in R, r # n, r \in B
      PROVE  FALSE
  <2>1. \A x \in DOMAIN t : r \notin Kids(t, x)
    BY DEF Forest
  <2>2. Closed(t, B \ {r})
    BY <1>1, <2>1 DEF Closed
  <2> QED
    BY <1>1, <1>3, <2>2
<1> QED
  BY <1>1, <1>2, <1>3 DEF B

LEMMA ForestCuts ==
  ASSUME NEW t, NEW u, NEW n, NEW R, Shape(t), Forest(t, R), Cuts(t, u, n)
  PROVE  /\ Shape(u) /\ Forest(u, R \ {n})
         /\ n \notin DOMAIN u /\ \A m \in DOMAIN u : n \notin Kids(u, m)
<1> DEFINE B == BelowIn(t, n)
<1>1. n \in DOMAIN t /\ DOMAIN u = DOMAIN t \ B
  BY DEF Cuts
<1>2. /\ \A m \in DOMAIN t \ B : \A c \in Kids(t, m) : c # n => c \notin B
      /\ \A r \in R : r # n => r \notin B
      /\ n \in B /\ Closed(t, B)
  BY <1>1, CutsOff
<1> HIDE DEF B
<1>3. \A m \in DOMAIN u : /\ m \in DOMAIN t /\ u[m].head \in Seq(DOMAIN t)
                          /\ IsInjective(u[m].head)
                          /\ \A c : c \in Kids(t, m) /\ c # n <=> \E i \in 1..Len(u[m].head) : c = u[m].head[i]
  BY CutsKids
<1>4. \A m \in DOMAIN t : Kids(t, m) \subseteq DOMAIN t
  BY KidsAre DEF Shape
<1>5. Heads(u)
  <2> SUFFICES ASSUME NEW m \in DOMAIN u PROVE u[m].head \in Seq(DOMAIN u)
    BY DEF Heads
  <2> DEFINE v == u[m].head
  <2>1. v \in Seq(DOMAIN t) /\ m \in DOMAIN t /\ \A i \in 1..Len(v) : v[i] \in Kids(t, m) /\ v[i] # n
    BY <1>3
  <2> HIDE DEF v
  <2>2. \A i \in 1..Len(v) : v[i] \in DOMAIN u
    BY <1>1, <1>2, <1>4, <2>1
  <2>3. v \in Seq(DOMAIN u)
    BY <2>1, <2>2, LenProperties
  <2> QED
    BY <2>3 DEF v
<1>6. Shape(u)
  BY <1>1, <1>5 DEF Shape, Addresses
<1>7. \A m \in DOMAIN u : Kids(u, m) = Kids(t, m) \ {n}
  <2> SUFFICES ASSUME NEW m \in DOMAIN u PROVE Kids(u, m) = Kids(t, m) \ {n}
    OBVIOUS
  <2>1. \A c : c \in Kids(u, m) <=> \E i \in 1..Len(u[m].head) : c = u[m].head[i]
    BY <1>5, KidsAre
  <2>2. \A c : c \in Kids(t, m) /\ c # n <=> \E i \in 1..Len(u[m].head) : c = u[m].head[i]
    BY <1>3
  <2> QED
    BY <2>1, <2>2
<1>8. Reached(u, R \ {n})
  <2> SUFFICES ASSUME NEW S, R \ {n} \subseteq S, Closed(u, S) PROVE DOMAIN u \subseteq S
    BY DEF Reached
  <2>1. Closed(t, S \cup B)
    BY <1>1, <1>2, <1>7 DEF Closed
  <2>2. R \subseteq S \cup B
    BY <1>2
  <2>3. DOMAIN t \subseteq S \cup B
    BY <2>1, <2>2 DEF Forest, Reached
  <2> QED
    BY <1>1, <2>3
<1>9. R \ {n} \subseteq DOMAIN u
  BY <1>1, <1>2 DEF Forest
<1>10. \A m \in DOMAIN u : u[m].parent # NoNode => u[m].parent \in DOMAIN u /\ m \in Kids(u, u[m].parent)
  <2> SUFFICES ASSUME NEW m \in DOMAIN u, u[m].parent # NoNode
               PROVE  u[m].parent \in DOMAIN u /\ m \in Kids(u, u[m].parent)
    OBVIOUS
  <2>1. u[m].parent \in DOMAIN t /\ m \in Kids(t, u[m].parent) /\ m \notin B /\ m # n
    BY <1>1, <1>2 DEF Cuts, Forest
  <2>2. u[m].parent \notin B
    BY <1>2, <2>1 DEF Closed
  <2> QED
    BY <1>1, <1>7, <2>1, <2>2
<1>11. \A m \in DOMAIN u : Kids(u, m) \cap (R \ {n}) = {}
  BY <1>3, <1>7 DEF Forest
<1>12. \A l, m \in DOMAIN u : l # m => Kids(u, l) \cap Kids(u, m) = {}
  BY <1>3, <1>7 DEF Forest
<1>13. n \notin DOMAIN u /\ \A m \in DOMAIN u : n \notin Kids(u, m)
  BY <1>1, <1>2, <1>7
<1> QED
  BY <1>3, <1>6, <1>8, <1>9, <1>10, <1>11, <1>12, <1>13 DEF Forest

-----------------------------------------------------------------------------
(***************************************************************************)
(* What is found along a path in a tree that changes.                      *)
(***************************************************************************)
LEMMA ExtendsFinds ==
  ASSUME NEW t, NEW u, NEW n, NEW a, NEW b, Shape(t), Shape(u), Extends(t, u, n, a, b), NEW name
  PROVE  /\ \A m \in DOMAIN t : LookupIn(t, m, name) # NoNode => LookupIn(u, m, name) = LookupIn(t, m, name)
         /\ LookupIn(t, n, name) = NoNode /\ u[a].name = name => LookupIn(u, n, name) = a
<1>0. /\ n \in DOMAIN t /\ a \in Nat /\ b \in Nat /\ a <= b /\ DOMAIN u = DOMAIN t \cup (a..b)
      /\ \A m \in DOMAIN t : u[m].name = t[m].name
  BY DEF Extends
<1>s. Heads(t) /\ Addresses(t) /\ Heads(u) /\ Addresses(u)
  BY DEF Shape
<1>1. ASSUME NEW m \in DOMAIN t
      PROVE  /\ t[m].head \in Seq(DOMAIN t) /\ Len(t[m].head) \in Nat /\ Len(t[m].head) <= Len(u[m].head)
             /\ u[m].head \in Seq(DOMAIN u) /\ Len(u[m].head) \in Nat
             /\ \A i \in 1..Len(t[m].head) : t[m].head[i] \in DOMAIN t /\ u[m].head[i] = t[m].head[i]
  <2> DEFINE s == t[m].head
             v == u[m].head
  <2>1. s \in Seq(DOMAIN t) /\ v \in Seq(DOMAIN u) /\ Len(s) \in Nat /\ Len(v) \in Nat
        /\ \A i \in 1..Len(s) : s[i] \in DOMAIN t
    BY <1>0, <1>s, LenProperties, ElementOfSeq DEF Heads
  <2>2. v = IF m = n THEN Append(s, a) ELSE s
    BY DEF Extends
  <2> HIDE DEF s, v
  <2>5. Len(s) <= Len(v) /\ \A i \in 1..Len(s) : v[i] = s[i]
    <3>1. CASE m # n
      BY <2>1, <2>2, <3>1
    <3>2. CASE m = n
      <4>1. s \in Seq(DOMAIN u) /\ a \in DOMAIN u
        BY <1>0, <2>1
      <4> QED
        BY <2>1, <2>2, <3>2, <4>1, AppendProperties
    <3> QED
      BY <3>1, <3>2
  <2> QED
    BY <2>1, <2>5 DEF s, v
<1>2. ASSUME NEW m \in DOMAIN t, LookupIn(t, m, name) # NoNode
      PROVE  LookupIn(u, m, name) = LookupIn(t, m, name)
  <2>1. PICK k \in 1..Len(t[m].head) : LookupIn(t, m, name) = t[m].head[k] /\ FirstChild(t, m, name, k)
    BY <1>s, <1>2, LookupIs
  <2>2. FirstChild(u, m, name, k)
    <3>0. k \in 1..Len(t[m].head) /\ t[t[m].head[k]].name = name
      BY <2>1 DEF FirstChild
    <3>1. k \in 1..Len(u[m].head) /\ u[u[m].head[k]].name = name
      <4>1. u[m].head[k] = t[m].head[k] /\ t[m].head[k] \in DOMAIN t
        BY <1>1, <3>0
      <4>2. u[t[m].head[k]].name = t[t[m].head[k]].name
        BY <1>0, <4>1
      <4>3. k \in 1..Len(u[m].head)
        <5> DEFINE p == Len(t[m].head)
                   q == Len(u[m].head)
        <5>1. p \in Nat /\ q \in Nat /\ p <= q
          BY <1>1
        <5>2. k \in 1..p
          BY <3>0
        <5> HIDE DEF p, q
        <5>3. k \in 1..q
          BY <5>1, <5>2
        <5> QED
          BY <5>3 DEF q
      <4> QED
        BY <3>0, <4>1, <4>2, <4>3
    <3>2. ASSUME NEW j \in 1..Len(u[m].head), j < k
          PROVE  u[u[m].head[j]].name # name
      <4>1. j \in 1..Len(t[m].head)
        BY <1>1, <2>1, <3>2
      <4>2. t[t[m].head[j]].name # name
        BY <2>1, <3>2, <4>1 DEF FirstChild
      <4> QED
        BY <1>0, <1>1, <4>1, <4>2
    <3> QED
      BY <3>1, <3>2 DEF FirstChild
  <2>3. m \in DOMAIN u
    BY <1>0
  <2>4. LookupIn(u, m, name) = u[m].head[k]
    BY <1>s, <2>2, <2>3, LookupFinds
  <2> QED
    BY <1>1, <2>1, <2>4
<1>3. ASSUME LookupIn(t, n, name) = NoNode, u[a].name = name
      PROVE  LookupIn(u, n, name) = a
  <2> DEFINE s == t[n].head
             k == Len(s) + 1
  <2>1. s \in Seq(DOMAIN t) /\ Len(s) \in Nat /\ u[n].head = Append(s, a) /\ \A i \in 1..Len(s) : s[i] \in DOMAIN t
    BY <1>0, <1>1 DEF Extends
  <2>2. NoChild(t, n, name)
    <3>1. \A c \in DOMAIN t : c # NoNode
      BY <1>s, NotNull
    <3> QED
      BY <1>0, <1>s, <1>3, <3>1, LookupIs
  <2>3. Len(u[n].head) = k /\ u[n].head[k] = a /\ \A i \in 1..Len(s) : u[n].head[i] = s[i]
    <3>1. s \in Seq(DOMAIN u) /\ a \in DOMAIN u
      BY <1>0, <2>1
    <3> HIDE DEF s
    <3> QED
      BY <2>1, <3>1, AppendProperties
  <2>4. FirstChild(u, n, name, k)
    <3>1. k \in 1..Len(u[n].head) /\ u[u[n].head[k]].name = name
      BY <1>3, <2>1, <2>3
    <3>2. ASSUME NEW j \in 1..Len(u[n].head), j < k
          PROVE  u[u[n].head[j]].name # name
      <4>1. j \in 1..Len(s)
        BY <2>1, <2>3, <3>2
      <4>2. t[s[j]].name # name
        BY <2>2, <4>1 DEF NoChild
      <4> QED
        BY <1>0, <2>1, <2>3, <4>1, <4>2
    <3> HIDE DEF k
    <3> QED
      BY <3>1, <3>2 DEF FirstChild
  <2>5. n \in DOMAIN u
    BY <1>0
  <2> HIDE DEF k
  <2> QED
    BY <1>s, <2>3, <2>4, <2>5, LookupFinds
<1> QED
  BY <1>2, <1>3

LEMMA ChainFinds ==
  ASSUME NEW t, NEW u, NEW n, NEW a, NEW b, Shape(u), Extends(t, u, n, a, b), NEW name,
         NEW i \in a..b, NEW j, i # b, j = i + 1, u[j].name = name
  PROVE  LookupIn(u, i, name) = j
<1>1. u[i].head = <<j>> /\ i \in DOMAIN u
  BY DEF Extends
<1>2. Len(u[i].head) = 1 /\ u[i].head[1] = j
  BY <1>1
<1>3. FirstChild(u, i, name, 1)
  BY <1>2 DEF FirstChild
<1> QED
  BY <1>1, <1>2, <1>3, LookupFinds DEF Shape

LEMMA CutsFinds ==
  ASSUME NEW t, NEW u, NEW n, Shape(t), Shape(u), Cuts(t, u, n), NEW m \in DOMAIN u, NEW name,
         LookupIn(t, m, name) \in DOMAIN u, n \notin DOMAIN u
  PROVE  LookupIn(u, m, name) = LookupIn(t, m, name)
<1> DEFINE s == t[m].head
           v == u[m].head
<1>s. Heads(t) /\ Addresses(t) /\ Heads(u) /\ Addresses(u)
  BY DEF Shape
<1>0. m \in DOMAIN t /\ s \in Seq(DOMAIN t) /\ Len(s) \in Nat /\ v \in Seq(DOMAIN u) /\ Len(v) \in Nat
      /\ \A x \in DOMAIN u : u[x].name = t[x].name
      /\ \A i \in 1..Len(v) : v[i] \in DOMAIN u
  BY <1>s, LenProperties, ElementOfSeq DEF Cuts, Heads
<1>1. PICK k \in 1..Len(s) : LookupIn(t, m, name) = s[k] /\ FirstChild(t, m, name, k)
  <2>1. LookupIn(t, m, name) # NoNode
    BY <1>s, NotNull
  <2> QED
    BY <1>0, <1>s, <2>1, LookupIs
<1>2. s[k] \in DOMAIN u /\ s[k] # n /\ t[s[k]].name = name /\ \A j \in 1..Len(s) : j < k => t[s[j]].name # name
  BY <1>1 DEF FirstChild
<1>3. (n \notin Kids(t, m) /\ v = s) \/ \E l \in 1..Len(s) : s[l] = n /\ v = RemoveAt(s, l)
  BY DEF Cuts
<1>4. \E i \in 1..Len(v) : v[i] = s[k] /\ \A j \in 1..Len(v) : j < i => \E h \in 1..Len(s) : h < k /\ v[j] = s[h]
  <2> HIDE DEF s, v
  <2>1. CASE v = s
    BY <2>1
  <2>2. ASSUME NEW l \in 1..Len(s), s[l] = n, v = RemoveAt(s, l)
        PROVE  \E i \in 1..Len(v) : v[i] = s[k] /\ \A j \in 1..Len(v) : j < i => \E h \in 1..Len(s) : h < k /\ v[j] = s[h]
    <3>1. Len(v) = Len(s) - 1 /\ \A i \in 1..(Len(s) - 1) : v[i] = IF i < l THEN s[i] ELSE s[i + 1]
      BY <1>0, <2>2, RemoveAtParts
    <3>2. k # l
      BY <1>2, <2>2
    <3>3. CASE k < l
      <4>1. k \in 1..Len(v) /\ v[k] = s[k]
        BY <1>0, <3>1, <3>3
      <4>2. \A j \in 1..Len(v) : j < k => j \in 1..Len(s) /\ v[j] = s[j]
        BY <1>0, <3>1, <3>3
      <4> QED
        BY <4>1, <4>2
    <3>4. CASE k > l
      <4>1. k - 1 \in 1..Len(v) /\ v[k - 1] = s[k]
        <5>1. k - 1 \in 1..(Len(s) - 1) /\ ~(k - 1 < l) /\ (k - 1) + 1 = k
          BY <1>0, <3>4
        <5> QED
          BY <3>1, <5>1
      <4>2. ASSUME NEW j \in 1..Len(v), j < k - 1
            PROVE  \E h \in 1..Len(s) : h < k /\ v[j] = s[h]
        <5>1. j \in 1..Len(s) /\ j < k /\ j + 1 \in 1..Len(s) /\ j + 1 < k /\ v[j] = IF j < l THEN s[j] ELSE s[j + 1]
          BY <1>0, <3>1, <4>2
        <5> QED
          BY <5>1
      <4> QED
        BY <4>1, <4>2
    <3> QED
      BY <1>0, <3>2, <3>3, <3>4
  <2> QED
    BY <1>3, <2>1, <2>2
<1>5. PICK i \in 1..Len(v) : v[i] = s[k] /\ \A j \in 1..Len(v) : j < i => \E h \in 1..Len(s) : h < k /\ v[j] = s[h]
  BY <1>4
<1>6. FirstChild(u, m, name, i)
  <2>1. u[v[i]].name = name
    BY <1>0, <1>2, <1>5
  <2>2. ASSUME NEW j \in 1..Len(v), j < i
        PROVE  u[v[j]].name # name
    <3>1. PICK h \in 1..Len(s) : h < k /\ v[j] = s[h]
      BY <1>5, <2>2
    <3> QED
      BY <1>0, <1>2, <3>1
  <2> QED
    BY <2>1, <2>2 DEF FirstChild
<1>7. LookupIn(u, m, name) = v[i]
  BY <1>s, <1>6, LookupFinds
<1> QED
  BY <1>1, <1>5, <1>7

\* Three changes that hide no node from a reader of its path.
LEMMA FindsSame ==
  ASSUME NEW t, NEW u, Shape(t), Shape(u), Same(t, u), NEW r \in DOMAIN t \cup {NoNode}, NEW path, Len(path) \in Nat
  PROVE  NodeAt(u, r, path) = NodeAt(t, r, path)
<1> DEFINE w == WalkIn(t, r, path)
<1>1. /\ Len(path) \in Nat /\ Walks(w, t, r, path, Len(path))
      /\ \A i \in 0..Len(path) : w[i] \in DOMAIN t \cup {NoNode}
  BY WalkIs, WalkTyped DEF Shape
<1>2. ASSUME NEW n \in DOMAIN t, NEW name
      PROVE  LookupIn(u, n, name) = LookupIn(t, n, name)
  <2>1. u[n].head = t[n].head /\ \A i \in 1..Len(t[n].head) : u[t[n].head[i]].name = t[t[n].head[i]].name
    BY KidsAre DEF Same, Shape
  <2>2. n \in DOMAIN u
    BY DEF Same
  <2>3. CASE NoChild(t, n, name)
    <3>1. NoChild(u, n, name)
      BY <2>1, <2>3 DEF NoChild
    <3> QED
      BY <2>2, <2>3, <3>1, LookupFinds DEF Shape
  <2>4. ASSUME NEW k \in 1..Len(t[n].head), FirstChild(t, n, name, k)
        PROVE  LookupIn(u, n, name) = LookupIn(t, n, name)
    <3>1. FirstChild(u, n, name, k)
      BY <2>1, <2>4 DEF FirstChild
    <3>2. LookupIn(u, n, name) = u[n].head[k]
      BY <2>2, <3>1, LookupFinds DEF Shape
    <3>3. LookupIn(t, n, name) = t[n].head[k]
      BY <2>4, LookupFinds DEF Shape
    <3> QED
      BY <2>1, <3>2, <3>3
  <2> QED
    BY <2>3, <2>4, LookupIs DEF Shape
<1> HIDE DEF w
<1>3. Walks(w, u, r, path, Len(path))
  <2>1. ASSUME NEW i \in 1..Len(path)
        PROVE  w[i] = Step(u, w[i - 1], path[i])
    <3>1. w[i] = Step(t, w[i - 1], path[i]) /\ w[i - 1] \in DOMAIN t \cup {NoNode}
      BY <1>1 DEF Walks
    <3> QED
      BY <1>2, <3>1 DEF Step
  <2> QED
    BY <1>1, <2>1 DEF Walks
<1>4. WalkIn(u, r, path)[Len(path)] = w[Len(path)]
  BY <1>1, <1>3, WalkBy
<1> QED
  BY <1>4 DEF NodeAt, w

LEMMA FindsExtends ==
  ASSUME NEW t, NEW u, NEW n, NEW a, NEW b, Shape(t), Shape(u), Extends(t, u, n, a, b),
         NEW r \in DOMAIN t \cup {NoNode}, NEW path, Len(path) \in Nat, NodeAt(t, r, path) # NoNode
  PROVE  NodeAt(u, r, path) = NodeAt(t, r, path)
<1> DEFINE w == WalkIn(t, r, path)
<1>1. /\ Len(path) \in Nat /\ Walks(w, t, r, path, Len(path))
      /\ \A i \in 0..Len(path) : w[i] \in DOMAIN t /\ w[i] # NoNode
  BY WalkIs, NodeAtTyped DEF Shape
<1> HIDE DEF w
<1>2. Walks(w, u, r, path, Len(path))
  <2>1. ASSUME NEW i \in 1..Len(path)
        PROVE  w[i] = Step(u, w[i - 1], path[i])
    <3>1. w[i] = Step(t, w[i - 1], path[i]) /\ w[i - 1] \in DOMAIN t /\ w[i - 1] # NoNode /\ w[i] # NoNode
      BY <1>1 DEF Walks
    <3>2. LookupIn(t, w[i - 1], path[i]) # NoNode /\ w[i] = LookupIn(t, w[i - 1], path[i])
      BY <3>1 DEF Step
    <3>3. LookupIn(u, w[i - 1], path[i]) = LookupIn(t, w[i - 1], path[i])
      BY <3>1, <3>2, ExtendsFinds
    <3> QED
      BY <3>1, <3>2, <3>3 DEF Step
  <2> QED
    BY <1>1, <2>1 DEF Walks
<1>3. WalkIn(u, r, path)[Len(path)] = w[Len(path)]
  BY <1>1, <1>2, WalkBy
<1> QED
  BY <1>3 DEF NodeAt, w

LEMMA FindsCuts ==
  ASSUME NEW t, NEW u, NEW n, Shape(t), Shape(u), Cuts(t, u, n), n \notin DOMAIN u,
         NEW r \in DOMAIN t \cup {NoNode}, NEW path, Len(path) \in Nat, NodeAt(t, r, path) \in DOMAIN u
  PROVE  NodeAt(u, r, path) = NodeAt(t, r, path)
<1> DEFINE w == WalkIn(t, r, path)
           N == Len(path)
<1>1. /\ N \in Nat /\ Walks(w, t, r, path, N)
      /\ \A i \in 0..N : w[i] \in DOMAIN t /\ w[i] # NoNode
  <2>1. NodeAt(t, r, path) # NoNode
    BY NotNull DEF Shape
  <2> QED
    BY <2>1, WalkIs, NodeAtTyped DEF Shape
<1>2. w[N] \in DOMAIN u
  BY DEF NodeAt
<1> HIDE DEF w
<1>3. \A i \in 1..N : w[i] = LookupIn(t, w[i - 1], path[i]) /\ w[i] \in Kids(t, w[i - 1])
  <2> SUFFICES ASSUME NEW i \in 1..N PROVE w[i] = LookupIn(t, w[i - 1], path[i]) /\ w[i] \in Kids(t, w[i - 1])
    OBVIOUS
  <2>1. w[i - 1] \in DOMAIN t /\ w[i - 1] # NoNode /\ w[i] # NoNode /\ w[i] = Step(t, w[i - 1], path[i])
    BY <1>1 DEF Walks
  <2>2. w[i] = LookupIn(t, w[i - 1], path[i])
    BY <2>1 DEF Step
  <2>3. \E k \in 1..Len(t[w[i - 1]].head) : w[i] = t[w[i - 1]].head[k]
    BY <2>1, <2>2, LookupIs DEF Shape
  <2> QED
    BY <2>1, <2>2, <2>3, KidsAre DEF Shape
\* What is below n stays below n.
<1>4. \A k \in 0..N : w[N - k] \in DOMAIN u
  <2> DEFINE T == {k \in 0..N : w[N - k] \in DOMAIN u}
  <2>1. 0 \in T
    BY <1>1, <1>2
  <2>2. ASSUME NEW k \in 0..N, k \in T, k < N
        PROVE  k + 1 \in T
    <3>1. N - k \in 1..N /\ (N - k) - 1 = N - (k + 1) /\ k + 1 \in 0..N /\ N - (k + 1) \in 0..N
      BY <1>1, <2>2
    <3>2. w[N - k] \in Kids(t, w[N - (k + 1)]) /\ w[N - (k + 1)] \in DOMAIN t
      BY <1>1, <1>3, <3>1
    <3>3. Closed(t, BelowIn(t, n))
      BY BelowIs DEF Shape, Cuts
    <3>4. w[N - (k + 1)] \notin BelowIn(t, n)
      BY <2>2, <3>2, <3>3 DEF Cuts, Closed
    <3> QED
      BY <3>1, <3>2, <3>4 DEF Cuts
  <2>3. 0..N \subseteq T
    <3> HIDE DEF T
    <3> QED
      BY <1>1, <2>1, <2>2, UpTo
  <2> QED
    BY <2>3
<1>5. \A i \in 0..N : w[i] \in DOMAIN u
  <2> SUFFICES ASSUME NEW i \in 0..N PROVE w[i] \in DOMAIN u
    OBVIOUS
  <2>1. N - i \in 0..N /\ N - (N - i) = i
    BY <1>1
  <2> QED
    BY <1>4, <2>1
<1>6. Walks(w, u, r, path, N)
  <2>1. ASSUME NEW i \in 1..N
        PROVE  w[i] = Step(u, w[i - 1], path[i])
    <3>1. i - 1 \in 0..N /\ i \in 0..N
      BY <1>1
    <3>2. w[i - 1] \in DOMAIN u /\ w[i] \in DOMAIN u /\ w[i - 1] # NoNode /\ w[i] = LookupIn(t, w[i - 1], path[i])
      BY <1>1, <1>3, <1>5, <3>1
    <3>3. LookupIn(u, w[i - 1], path[i]) = LookupIn(t, w[i - 1], path[i])
      BY <3>2, CutsFinds
    <3> QED
      BY <3>2, <3>3 DEF Step
  <2> QED
    BY <1>1, <2>1 DEF Walks
<1>7. WalkIn(u, r, path)[N] = w[N]
  BY <1>1, <1>6, WalkBy
<1> QED
  BY <1>7 DEF NodeAt, w

-----------------------------------------------------------------------------
(***************************************************************************)
(* What a node holds, and what a step does to the memory.                  *)
(***************************************************************************)
Fields == {"name", "val", "allow_override", "parent", "head", "is_seq"}

\* Only a value that was given is final.
Nodes(t) ==
  \A n \in DOMAIN t :
    /\ DOMAIN t[n] = Fields
    /\ t[n].allow_override \in BOOLEAN /\ t[n].is_seq \in BOOLEAN
    /\ ~t[n].allow_override => t[n].val # NoVal

\* A final value stays.
Final(t, u) ==
  \A n \in DOMAIN t \cap DOMAIN u :
    ~t[n].allow_override => u[n].val = t[n].val /\ ~u[n].allow_override

WithValue(t, n, val) == [t EXCEPT ![n].val = val]
WithFlag(t, n, val, allow) == [t EXCEPT ![n].val = val, ![n].allow_override = allow]
WithHead(t, n, head) == [t EXCEPT ![n].head = head]
WithNode(t, n, a, name, val, isseq) ==
  Allocate([m \in {a} |-> ConfNodeNew(name, val, NoNode, isseq)], WithHead(t, n, Append(t[n].head, a)))

\* The fields of a node after that.
LEMMA FieldsKept ==
  ASSUME NEW x, DOMAIN x = Fields, NEW v, NEW f
  PROVE  /\ LET y == [x EXCEPT !.val = v] IN
              /\ DOMAIN y = Fields /\ y.name = x.name /\ y.val = v /\ y.parent = x.parent
              /\ y.head = x.head /\ y.is_seq = x.is_seq /\ y.allow_override = x.allow_override
         /\ LET y == [x EXCEPT !.head = v] IN
              /\ DOMAIN y = Fields /\ y.name = x.name /\ y.val = x.val /\ y.parent = x.parent
              /\ y.head = v /\ y.is_seq = x.is_seq /\ y.allow_override = x.allow_override
         /\ LET y == [x EXCEPT !.val = v, !.allow_override = f] IN
              /\ DOMAIN y = Fields /\ y.name = x.name /\ y.val = v /\ y.parent = x.parent
              /\ y.head = x.head /\ y.is_seq = x.is_seq /\ y.allow_override = f
BY DEF Fields

\* The value of a node is written.
LEMMA ValueWritten ==
  ASSUME NEW t, Nodes(t), NEW n \in DOMAIN t, NEW val, t[n].allow_override
  PROVE  LET u == WithValue(t, n, val) IN Same(t, u) /\ Nodes(u) /\ Final(t, u)
<1> DEFINE u == WithValue(t, n, val)
<1>1. DOMAIN u = DOMAIN t /\ \A m \in DOMAIN t : u[m] = IF m = n THEN [t[n] EXCEPT !.val = val] ELSE t[m]
  BY DEF WithValue
<1> HIDE DEF u
<1>2. ASSUME NEW m \in DOMAIN t
      PROVE  /\ DOMAIN u[m] = Fields /\ u[m].name = t[m].name /\ u[m].head = t[m].head
             /\ u[m].parent = t[m].parent /\ u[m].is_seq = t[m].is_seq
             /\ u[m].allow_override = t[m].allow_override /\ (m # n => u[m].val = t[m].val)
  <2>1. DOMAIN t[m] = Fields
    BY DEF Nodes
  <2>2. CASE m = n
    <3>1. u[m] = [t[m] EXCEPT !.val = val]
      BY <1>1, <2>2
    <3> QED
      BY <2>1, <2>2, <3>1, FieldsKept
  <2>3. CASE m # n
    BY <1>1, <2>1, <2>3
  <2> QED
    BY <2>2, <2>3
<1>3. Same(t, u)
  BY <1>1, <1>2 DEF Same
<1>4. Nodes(u)
  BY <1>1, <1>2 DEF Nodes
<1>5. Final(t, u)
  BY <1>1, <1>2 DEF Final, Nodes
<1> QED
  BY <1>3, <1>4, <1>5 DEF u

LEMMA ValueSet ==
  ASSUME NEW t, Nodes(t), NEW n \in DOMAIN t, NEW val \in Vals, NEW allow \in BOOLEAN, t[n].allow_override
  PROVE  LET u == WithFlag(t, n, val, allow) IN Same(t, u) /\ Nodes(u) /\ Final(t, u) /\ u[n].val = val
<1> DEFINE u == WithFlag(t, n, val, allow)
<1>1. /\ DOMAIN u = DOMAIN t
      /\ \A m \in DOMAIN t : u[m] = IF m = n THEN [t[n] EXCEPT !.val = val, !.allow_override = allow] ELSE t[m]
  BY DEF WithFlag
<1> HIDE DEF u
<1>2. ASSUME NEW m \in DOMAIN t
      PROVE  /\ DOMAIN u[m] = Fields /\ u[m].name = t[m].name /\ u[m].head = t[m].head
             /\ u[m].parent = t[m].parent /\ u[m].is_seq = t[m].is_seq
             /\ (m = n => u[m].val = val /\ u[m].allow_override = allow)
             /\ (m # n => u[m].val = t[m].val /\ u[m].allow_override = t[m].allow_override)
  <2>1. DOMAIN t[m] = Fields
    BY DEF Nodes
  <2>2. CASE m = n
    <3>1. u[m] = [t[m] EXCEPT !.val = val, !.allow_override = allow]
      BY <1>1, <2>2
    <3> QED
      BY <2>1, <2>2, <3>1, FieldsKept
  <2>3. CASE m # n
    BY <1>1, <2>1, <2>3
  <2> QED
    BY <2>2, <2>3
<1>3. Same(t, u)
  BY <1>1, <1>2 DEF Same
<1>4. Nodes(u)
  <2> SUFFICES ASSUME NEW m \in DOMAIN t
               PROVE  /\ DOMAIN u[m] = Fields
                      /\ u[m].allow_override \in BOOLEAN /\ u[m].is_seq \in BOOLEAN
                      /\ ~u[m].allow_override => u[m].val # NoVal
    BY <1>1 DEF Nodes
  <2>1. val # NoVal
    BY NullAssumption
  <2>2. CASE m = n
    BY <1>2, <2>1, <2>2 DEF Nodes
  <2>3. CASE m # n
    BY <1>2, <2>3 DEF Nodes
  <2> QED
    BY <2>2, <2>3
<1>5. Final(t, u)
  <2> SUFFICES ASSUME NEW m \in DOMAIN t, ~t[m].allow_override PROVE u[m].val = t[m].val /\ ~u[m].allow_override
    BY <1>1 DEF Final
  <2>1. m # n
    OBVIOUS
  <2> QED
    BY <1>2, <2>1
<1> QED
  BY <1>1, <1>2, <1>3, <1>4, <1>5 DEF u

\* The list of a node is written.
LEMMA HeadWritten ==
  ASSUME NEW t, Nodes(t), NEW n \in DOMAIN t, NEW head
  PROVE  LET u == WithHead(t, n, head) IN
         /\ DOMAIN u = DOMAIN t /\ Nodes(u) /\ Final(t, u)
         /\ \A m \in DOMAIN t : /\ u[m].name = t[m].name /\ u[m].parent = t[m].parent
                                /\ u[m].head = IF m = n THEN head ELSE t[m].head
<1> DEFINE u == WithHead(t, n, head)
<1>1. DOMAIN u = DOMAIN t /\ \A m \in DOMAIN t : u[m] = IF m = n THEN [t[n] EXCEPT !.head = head] ELSE t[m]
  BY DEF WithHead
<1> HIDE DEF u
<1>2. ASSUME NEW m \in DOMAIN t
      PROVE  /\ DOMAIN u[m] = Fields /\ u[m].name = t[m].name
             /\ u[m].head = (IF m = n THEN head ELSE t[m].head)
             /\ u[m].parent = t[m].parent /\ u[m].is_seq = t[m].is_seq
             /\ u[m].allow_override = t[m].allow_override /\ u[m].val = t[m].val
  <2>1. DOMAIN t[m] = Fields
    BY DEF Nodes
  <2>2. CASE m = n
    <3>1. u[m] = [t[m] EXCEPT !.head = head]
      BY <1>1, <2>2
    <3> QED
      BY <2>1, <2>2, <3>1, FieldsKept
  <2>3. CASE m # n
    BY <1>1, <2>1, <2>3
  <2> QED
    BY <2>2, <2>3
<1>3. Nodes(u)
  BY <1>1, <1>2 DEF Nodes
<1>4. Final(t, u)
  BY <1>1, <1>2 DEF Final
<1> QED
  BY <1>1, <1>2, <1>3, <1>4 DEF u

\* One node is appended, as the loader does it.
LEMMA OneAppended ==
  ASSUME NEW t, Nodes(t), NEW n \in DOMAIN t, NEW a \in Nat, a \notin DOMAIN t,
         NEW name, NEW val, NEW isseq \in BOOLEAN
  PROVE  LET u == WithNode(t, n, a, name, val, isseq) IN Extends(t, u, n, a, a) /\ Nodes(u) /\ Final(t, u)
<1> DEFINE head == Append(t[n].head, a)
           s == WithHead(t, n, head)
           made == [m \in {a} |-> ConfNodeNew(name, val, NoNode, isseq)]
           u == WithNode(t, n, a, name, val, isseq)
<1>1. u = Allocate(made, s)
  BY DEF WithNode
<1>2. DOMAIN made = {a} /\ made[a] = ConfNodeNew(name, val, NoNode, isseq)
  OBVIOUS
<1> HIDE DEF made, u
<1>3. /\ DOMAIN s = DOMAIN t /\ Nodes(s) /\ Final(t, s)
      /\ \A m \in DOMAIN t :
           s[m].name = t[m].name /\ s[m].parent = t[m].parent /\ s[m].head = IF m = n THEN head ELSE t[m].head
  <2> HIDE DEF head
  <2> QED
    BY HeadWritten
<1> HIDE DEF s
<1>4. /\ DOMAIN u = DOMAIN t \cup {a} /\ u[a] = ConfNodeNew(name, val, NoNode, isseq)
      /\ \A m \in DOMAIN t : u[m] = s[m]
  <2>1. u = [m \in DOMAIN made \cup DOMAIN s |-> IF m \in DOMAIN made THEN made[m] ELSE s[m]]
    BY <1>1 DEF Allocate
  <2>2. DOMAIN u = DOMAIN made \cup DOMAIN s
    BY <2>1
  <2>3. \A m \in DOMAIN made \cup DOMAIN s : u[m] = IF m \in DOMAIN made THEN made[m] ELSE s[m]
    BY <2>1
  <2> QED
    BY <1>2, <1>3, <2>2, <2>3
<1>5. DOMAIN u[a] = Fields /\ u[a].head = <<>> /\ u[a].parent = NoNode /\ u[a].allow_override = TRUE /\ u[a].is_seq = isseq
  BY <1>4 DEF ConfNodeNew, Fields
<1>6. a..a = {a}
  OBVIOUS
<1>7. Extends(t, u, n, a, a)
  BY <1>3, <1>4, <1>5, <1>6 DEF Extends
<1>8. Nodes(u)
  <2> SUFFICES ASSUME NEW m \in DOMAIN u
               PROVE  /\ DOMAIN u[m] = Fields
                      /\ u[m].allow_override \in BOOLEAN /\ u[m].is_seq \in BOOLEAN
                      /\ ~u[m].allow_override => u[m].val # NoVal
    BY DEF Nodes
  <2>1. CASE m = a
    BY <1>5, <2>1
  <2>2. CASE m \in DOMAIN t
    BY <1>3, <1>4, <2>2 DEF Nodes
  <2> QED
    BY <1>4, <2>1, <2>2
<1>9. Final(t, u)
  BY <1>3, <1>4 DEF Final
<1> QED
  BY <1>7, <1>8, <1>9 DEF u

LEMMA SameThenExtends ==
  ASSUME NEW t, NEW s, NEW u, NEW n, NEW a, NEW b, Same(t, s), Final(t, s), Extends(s, u, n, a, b), Final(s, u)
  PROVE  Extends(t, u, n, a, b) /\ Final(t, u)
<1>1. Extends(t, u, n, a, b)
  BY DEF Same, Extends
<1>2. Final(t, u)
  BY DEF Same, Final
<1> QED
  BY <1>1, <1>2

-----------------------------------------------------------------------------
(***************************************************************************)
(* The invariant of the tree, and the five effects a step has on it.       *)
(***************************************************************************)
Tops == {root, root_backup} \ {NoNode}

TreeInv ==
  /\ Shape(tree) /\ Nodes(tree) /\ Forest(tree, Tops)
  /\ next \in Nat /\ 1 <= next /\ next <= MaxNodes + 1
  /\ \A n \in DOMAIN tree : n < next
  /\ root # root_backup

\* The forest stays: a value or a flag is written, or nothing.
Keeps == Same(tree, tree') /\ next' = next /\ root' = root /\ root_backup' = root_backup

\* New nodes, each below the one before, are appended to the list of n.
Adds(n, b) ==
  /\ Extends(tree, tree', n, next, b) /\ b <= MaxNodes
  /\ next' = b + 1 /\ root' = root /\ root_backup' = root_backup

\* n is taken out of its list, and with all that is below it freed.
Drops(n) ==
  /\ Cuts(tree, tree', n) /\ next' = next /\ root_backup' = root_backup
  /\ \/ n \notin Tops /\ root' = root
     \/ n = root /\ root' = NoNode /\ root_backup # NoNode

\* A new root is made.
Starts ==
  /\ Roots(tree, tree', next) /\ next <= MaxNodes /\ root = NoNode
  /\ next' = next + 1 /\ root' = next /\ root_backup' = root_backup

\* The backup becomes the root, or the root the backup.
Swaps ==
  /\ tree' = tree /\ next' = next /\ root' = root_backup /\ root_backup' = root

\* A step has one of these effects, and no final value goes.
Effect ==
  /\ Nodes(tree') /\ Final(tree, tree')
  /\ \/ Keeps
     \/ \E n, b : Adds(n, b)
     \/ \E n : Drops(n)
     \/ Starts
     \/ Swaps

LEMMA TreeStep ==
  ASSUME TreeInv, Effect
  PROVE  TreeInv'
<1>1. Shape(tree) /\ Forest(tree, Tops) /\ Nodes(tree')
  BY DEF TreeInv, Effect
<1>2. /\ next \in Nat /\ 1 <= next /\ next <= MaxNodes + 1
      /\ \A n \in DOMAIN tree : n < next
      /\ root # root_backup
  BY DEF TreeInv
<1>3. Tops' = {root', root_backup'} \ {NoNode}
  BY DEF Tops
<1>4. CASE Keeps
  <2>1. Shape(tree') /\ Forest(tree', Tops)
    BY <1>1, <1>4, ForestSame DEF Keeps
  <2>2. Tops' = Tops /\ DOMAIN tree' = DOMAIN tree
    BY <1>4 DEF Tops, Keeps, Same
  <2> QED
    BY <1>1, <1>2, <1>4, <2>1, <2>2 DEF TreeInv, Keeps
<1>5. ASSUME NEW n, NEW b, Adds(n, b)
      PROVE  TreeInv'
  <2>1. Shape(tree') /\ Forest(tree', Tops)
    BY <1>1, <1>2, <1>5, ForestExtends DEF Adds
  <2>2. Tops' = Tops
    BY <1>5 DEF Tops, Adds
  <2>3. DOMAIN tree' = DOMAIN tree \cup (next..b) /\ b \in Nat /\ next <= b /\ b <= MaxNodes /\ next' = b + 1
    BY <1>5 DEF Adds, Extends
  <2>4. \A m \in DOMAIN tree' : m < next'
    <3>1. \A m \in DOMAIN tree : m \in Nat
      BY <1>1 DEF Shape, Addresses
    <3> QED
      BY <1>2, <2>3, <3>1
  <2>5. next' \in Nat /\ 1 <= next' /\ next' <= MaxNodes + 1
    BY <1>2, <2>3, BoundsAssumption
  <2>6. root' # root_backup'
    BY <1>2, <1>5 DEF Adds
  <2> QED
    BY <1>1, <2>1, <2>2, <2>4, <2>5, <2>6 DEF TreeInv
<1>6. ASSUME NEW n, Drops(n)
      PROVE  TreeInv'
  <2>1. Shape(tree') /\ Forest(tree', Tops \ {n})
    BY <1>1, <1>6, ForestCuts DEF Drops
  <2>n. n \in DOMAIN tree /\ n # NoNode
    BY <1>1, <1>6, NotNull DEF Drops, Cuts, Shape
  <2>2. Tops' = Tops \ {n}
    BY <1>2, <1>3, <1>6, <2>n DEF Tops, Drops
  <2>3. DOMAIN tree' \subseteq DOMAIN tree /\ next' = next
    BY <1>6 DEF Drops, Cuts
  <2>4. root' # root_backup'
    <3>1. CASE n \notin Tops /\ root' = root
      BY <1>2, <1>6, <3>1 DEF Drops
    <3>2. CASE n = root /\ root' = NoNode /\ root_backup # NoNode
      BY <1>2, <1>6, <3>2 DEF Drops
    <3> QED
      BY <1>6, <3>1, <3>2 DEF Drops
  <2> QED
    BY <1>1, <1>2, <2>1, <2>2, <2>3, <2>4 DEF TreeInv
<1>7. CASE Starts
  <2>1. next \in 1..MaxNodes
    BY <1>2, <1>7, BoundsAssumption DEF Starts
  <2>2. Shape(tree') /\ Forest(tree', Tops \cup {next})
    BY <1>1, <1>7, <2>1, ForestRoots DEF Starts
  <2>3. Tops' = Tops \cup {next} /\ next # NoNode
    BY <1>3, <1>7, <2>1, NullAssumption DEF Tops, Starts
  <2>4. DOMAIN tree' = DOMAIN tree \cup {next} /\ next' = next + 1 /\ next <= MaxNodes
    BY <1>7 DEF Starts, Roots
  <2>5. \A m \in DOMAIN tree' : m < next'
    <3>1. \A m \in DOMAIN tree : m \in Nat
      BY <1>1 DEF Shape, Addresses
    <3> QED
      BY <1>2, <2>4, <3>1
  <2>6. next' \in Nat /\ 1 <= next' /\ next' <= MaxNodes + 1
    BY <1>2, <2>4, BoundsAssumption
  <2>7. root' # root_backup'
    <3>1. root_backup # next
      BY <1>1, <1>2, <2>3 DEF Tops, Forest
    <3> QED
      BY <1>7, <3>1 DEF Starts
  <2> QED
    BY <1>1, <2>2, <2>3, <2>5, <2>6, <2>7 DEF TreeInv
<1>8. CASE Swaps
  <2>1. Tops' = Tops
    BY <1>3, <1>8 DEF Tops, Swaps
  <2> QED
    BY <1>1, <1>2, <1>8, <2>1 DEF TreeInv, Swaps
<1> QED
  BY <1>4, <1>5, <1>6, <1>7, <1>8 DEF Effect

\* A reader of a path whose node lives finds that node, and its final value.
Kept(path) ==
  LET n == NodeAt(tree, root, path) IN
  (root # NoNode /\ root' = root /\ n # NoNode /\ n \in DOMAIN tree')
    => (~tree[n].allow_override =>
          /\ NodeAt(tree', root', path) = n
          /\ tree'[n].val = tree[n].val /\ ~tree'[n].allow_override)

LEMMA FinalStep ==
  ASSUME TreeInv, Effect, NEW path, Len(path) \in Nat
  PROVE  Kept(path)
<1> DEFINE n == NodeAt(tree, root, path)
<1> SUFFICES ASSUME root # NoNode, root' = root, n # NoNode, n \in DOMAIN tree', ~tree[n].allow_override
             PROVE  NodeAt(tree', root, path) = n /\ tree'[n].val = tree[n].val /\ ~tree'[n].allow_override
  BY DEF Kept
<1>1. Shape(tree) /\ Shape(tree') /\ root \in DOMAIN tree \cup {NoNode} /\ root # root_backup
  BY TreeStep DEF TreeInv, Forest, Tops
<1>2. n \in DOMAIN tree
  BY <1>1, NodeAtTyped DEF Shape
<1>3. tree'[n].val = tree[n].val /\ ~tree'[n].allow_override
  BY <1>2 DEF Effect, Final
<1>4. NodeAt(tree', root, path) = n
  <2>1. CASE Keeps
    BY <1>1, <2>1, FindsSame DEF Keeps
  <2>2. ASSUME NEW m, NEW b, Adds(m, b)
        PROVE  NodeAt(tree', root, path) = n
    BY <1>1, <2>2, FindsExtends DEF Adds
  <2>3. ASSUME NEW m, Drops(m)
        PROVE  NodeAt(tree', root, path) = n
    <3>1. m \notin DOMAIN tree' /\ Cuts(tree, tree', m)
      <4>1. m \in BelowIn(tree, m)
        BY <1>1, <2>3, BelowIs DEF Drops, Cuts, Shape
      <4> QED
        BY <2>3, <4>1 DEF Drops, Cuts
    <3> QED
      BY <1>1, <3>1, FindsCuts
  <2>4. ~Starts
    BY DEF Starts
  <2>5. ~Swaps
    BY <1>1 DEF Swaps
  <2> QED
    BY <2>1, <2>2, <2>3, <2>4, <2>5 DEF Effect
<1> QED
  BY <1>3, <1>4

-----------------------------------------------------------------------------
(***************************************************************************)
(* ConfSet.                                                                *)
(***************************************************************************)
\* What the caller of ConfSet can rely on.
SeenIn(t, r, l) ==
  l.op = "set" =>
    IF l.ret = 1 THEN NodeAt(t, r, l.path) # NoNode /\ t[NodeAt(t, r, l.path)].val = l.val
    ELSE ~t[NodeAt(t, r, l.path)].allow_override

LEMMA NodesTyped ==
  ASSUME TreeInv
  PROVE  /\ root \in DOMAIN tree \cup {NoNode} /\ NoNode \notin DOMAIN tree /\ next \notin DOMAIN tree
         /\ Heads(tree) /\ Addresses(tree)
         /\ \A path : Len(path) \in Nat => NodeAt(tree, root, path) \in DOMAIN tree \cup {NoNode}
         /\ \A n \in DOMAIN tree : n \in Nat
<1>1. Heads(tree) /\ Addresses(tree)
  BY DEF TreeInv, Shape
<1>2. root \in DOMAIN tree \cup {NoNode}
  BY DEF TreeInv, Forest, Tops
<1>3. NoNode \notin DOMAIN tree
  BY <1>1, NotNull
<1>4. \A n \in DOMAIN tree : n \in Nat
  BY <1>1 DEF Addresses
<1>5. next \notin DOMAIN tree
  BY <1>4 DEF TreeInv
<1> QED
  BY <1>1, <1>2, <1>3, <1>4, <1>5, NodeAtTyped

LEMMA SetExistingEffect ==
  ASSUME TreeInv, NEW path, Len(path) \in Nat, NEW val \in Vals, NEW allow \in BOOLEAN,
         SetExisting(path, val, allow), root' = root, root_backup' = root_backup
  PROVE  Effect /\ SeenIn(tree', root', last') /\ last'.op = "set"
<1> DEFINE n == NodeAt(tree, root, path)
<1>1. n \in DOMAIN tree /\ n # NoNode /\ ConfGetNode(path) = n
  <2>1. ConfGetNode(path) = n /\ ConfGetNode(path) # NoNode
    BY WalkNow DEF SetExisting
  <2> QED
    BY <2>1, NodesTyped
<1>2. next' = next
  BY DEF SetExisting
<1>3. Shape(tree) /\ Nodes(tree) /\ root \in DOMAIN tree \cup {NoNode}
  BY NodesTyped DEF TreeInv
<1>4. CASE tree[n].allow_override
  <2>1. tree' = WithFlag(tree, n, val, allow)
    BY <1>1, <1>4 DEF SetExisting, WithFlag
  <2>2. last' = [op |-> "set", path |-> path, val |-> val, ret |-> 1, node |-> n]
    BY <1>1, <1>4 DEF SetExisting, Called
  <2>3. Same(tree, tree') /\ Nodes(tree') /\ Final(tree, tree') /\ tree'[n].val = val
    BY <1>1, <1>3, <1>4, <2>1, ValueSet
  <2>4. Shape(tree')
    BY <1>3, <2>3 DEF Shape, Heads, Addresses, Same
  <2>5. NodeAt(tree', root, path) = n
    BY <1>3, <2>3, <2>4, FindsSame
  <2>6. SeenIn(tree', root', last')
    BY <1>1, <2>2, <2>3, <2>5 DEF SeenIn
  <2>7. last'.op = "set"
    BY <2>2
  <2> QED
    BY <1>2, <2>3, <2>6, <2>7 DEF Effect, Keeps
<1>5. CASE ~tree[n].allow_override
  <2>1. tree' = tree
    BY <1>1, <1>5 DEF SetExisting
  <2>2. last' = [op |-> "set", path |-> path, val |-> val, ret |-> 0, node |-> n]
    BY <1>1, <1>5 DEF SetExisting, Called
  <2>3. Same(tree, tree') /\ Nodes(tree') /\ Final(tree, tree')
    BY <1>3, <2>1 DEF Same, Final
  <2>4. last'.ret = 0 /\ last'.path = path /\ last'.op = "set"
    BY <2>2
  <2>5. SeenIn(tree', root', last')
    BY <1>5, <2>1, <2>4 DEF SeenIn
  <2> QED
    BY <1>2, <2>3, <2>4, <2>5 DEF Effect, Keeps
<1> QED
  BY <1>4, <1>5

\* The place on a path of the last node that exists.
Found(path) ==
  CHOOSE i \in 0..Len(path) - 1 : Walk(path)[i] # NoNode /\ Walk(path)[i + 1] = NoNode

NewId(path, i) == IF i = Found(path) THEN Walk(path)[Found(path)] ELSE next + i - Found(path) - 1

MadeNode(path, val, allow, i) ==
  IF i = Len(path)
  THEN [ConfNodeNew(path[i], NoVal, NewId(path, i - 1), FALSE) EXCEPT !.val = val, !.allow_override = allow]
  ELSE [ConfNodeNew(path[i], NoVal, NewId(path, i - 1), FALSE) EXCEPT !.head = <<NewId(path, i + 1)>>]

MadeNodes(path, val, allow) ==
  [n \in next..next + (Len(path) - Found(path)) - 1 |-> MadeNode(path, val, allow, n - next + Found(path) + 1)]

LEMMA SetMissingIs ==
  ASSUME NEW path, NEW val, NEW allow, SetMissing(path, val, allow)
  PROVE  /\ ConfGetNode(path) = NoNode
         /\ next + (Len(path) - Found(path)) - 1 <= MaxNodes
         /\ tree' = Allocate(MadeNodes(path, val, allow),
                             WithHead(tree, NewId(path, Found(path)), Append(tree[NewId(path, Found(path))].head, next)))
         /\ next' = next + (Len(path) - Found(path))
         /\ last' = [op |-> "set", path |-> path, val |-> val, ret |-> 1, node |-> NewId(path, Len(path))]
BY DEF SetMissing, Found, NewId, MadeNode, MadeNodes, WithHead, Called

LEMMA FoundIs ==
  ASSUME TreeInv, root # NoNode, NEW path, Len(path) \in Nat, NodeAt(tree, root, path) = NoNode
  PROVE  /\ Found(path) \in 0..Len(path) - 1 /\ Len(path) \in Nat
         /\ Walk(path)[Found(path)] # NoNode /\ Walk(path)[Found(path) + 1] = NoNode
<1> DEFINE w == Walk(path)
           n == Len(path)
           T == {i \in 0..n : w[i] = NoNode}
<1>1. n \in Nat /\ w[0] = root /\ w[n] = NoNode
  BY WalkNow, WalkIs DEF Walks, NodeAt
<1>2. PICK m \in T : \A i \in T : m <= i
  <2>1. n \in T /\ T \in SUBSET Nat
    BY <1>1
  <2> HIDE DEF T
  <2> QED
    BY <2>1, LeastNatural
<1>3. m \in 1..n /\ m - 1 \in 0..n - 1 /\ w[m - 1] # NoNode /\ w[(m - 1) + 1] = NoNode
  <2>1. m \in 0..n /\ w[m] = NoNode /\ m # 0
    BY <1>1, <1>2
  <2>2. m \in 1..n /\ m - 1 \in 0..n - 1 /\ m - 1 \in 0..n /\ (m - 1) + 1 = m /\ ~(m <= m - 1)
    BY <1>1, <2>1
  <2>3. m - 1 \notin T
    BY <1>2, <2>2
  <2> QED
    BY <2>1, <2>2, <2>3
<1> HIDE DEF w
<1>4. \E i \in 0..n - 1 : w[i] # NoNode /\ w[i + 1] = NoNode
  BY <1>3
<1>5. Found(path) = CHOOSE i \in 0..n - 1 : w[i] # NoNode /\ w[i + 1] = NoNode
  BY DEF Found, w
<1>6. Found(path) \in 0..n - 1 /\ w[Found(path)] # NoNode /\ w[Found(path) + 1] = NoNode
  BY <1>4, <1>5
<1> QED
  BY <1>1, <1>6 DEF w

IsMade(m, path, val, i) ==
  /\ DOMAIN m = Fields /\ m.name = path[i] /\ m.parent = NewId(path, i - 1)
  /\ m.allow_override \in BOOLEAN /\ m.is_seq = FALSE
  /\ ~m.allow_override => m.val # NoVal
  /\ i = Len(path) => m.head = <<>> /\ m.val = val
  /\ i # Len(path) => m.head = <<NewId(path, i + 1)>>

LEMMA MadeNodeIs ==
  ASSUME NEW path, NEW val \in Vals, NEW allow \in BOOLEAN, NEW i
  PROVE  IsMade(MadeNode(path, val, allow, i), path, val, i)
<1> DEFINE m == MadeNode(path, val, allow, i)
           x == ConfNodeNew(path[i], NoVal, NewId(path, i - 1), FALSE)
<1> SUFFICES IsMade(m, path, val, i)
  OBVIOUS
<1>1. /\ DOMAIN x = Fields /\ x.name = path[i] /\ x.parent = NewId(path, i - 1) /\ x.is_seq = FALSE
      /\ x.head = <<>> /\ x.allow_override = TRUE
  BY DEF ConfNodeNew, Fields
<1>2. /\ i = Len(path) => m = [x EXCEPT !.val = val, !.allow_override = allow]
      /\ i # Len(path) => m = [x EXCEPT !.head = <<NewId(path, i + 1)>>]
  BY DEF MadeNode
<1> HIDE DEF x, m
<1>3. val # NoVal
  BY NullAssumption
<1>4. CASE i = Len(path)
  <2>1. m = [x EXCEPT !.val = val, !.allow_override = allow]
    BY <1>2, <1>4
  <2>2. /\ DOMAIN m = Fields /\ m.name = x.name /\ m.parent = x.parent /\ m.is_seq = x.is_seq
        /\ m.allow_override = allow /\ m.head = x.head /\ m.val = val
    BY <1>1, <2>1, FieldsKept
  <2> QED
    BY <1>1, <1>3, <1>4, <2>2 DEF IsMade
<1>5. CASE i # Len(path)
  <2>1. m = [x EXCEPT !.head = <<NewId(path, i + 1)>>]
    BY <1>2, <1>5
  <2>2. /\ DOMAIN m = Fields /\ m.name = x.name /\ m.parent = x.parent /\ m.is_seq = x.is_seq
        /\ m.allow_override = x.allow_override /\ m.head = <<NewId(path, i + 1)>>
    BY <1>1, <2>1, FieldsKept
  <2> QED
    BY <1>1, <1>5, <2>2 DEF IsMade
<1> QED
  BY <1>4, <1>5

LEMMA SetMissingEffect ==
  ASSUME TreeInv, root # NoNode, NEW path, Len(path) \in Nat, NEW val \in Vals, NEW allow \in BOOLEAN,
         SetMissing(path, val, allow), root' = root, root_backup' = root_backup
  PROVE  Effect /\ SeenIn(tree', root', last') /\ last'.op = "set"
<1> DEFINE f == Found(path)
           N == Len(path)
           w == WalkIn(tree, root, path)
           x == w[f]
           a == next
           b == next + (N - f) - 1
           head == Append(tree[x].head, next)
           s == WithHead(tree, x, head)
           made == MadeNodes(path, val, allow)
<1>0. /\ ConfGetNode(path) = NoNode /\ b <= MaxNodes /\ next' = next + (N - f)
      /\ tree' = Allocate(made, s)
      /\ last' = [op |-> "set", path |-> path, val |-> val, ret |-> 1, node |-> NewId(path, N)]
  <2>1. NewId(path, Found(path)) = x
    BY WalkNow DEF NewId
  <2> QED
    BY <2>1, SetMissingIs
<1>1. NodeAt(tree, root, path) = NoNode
  BY <1>0, WalkNow
<1>2. f \in 0..N - 1 /\ N \in Nat /\ w[f] # NoNode /\ w[f + 1] = NoNode
  BY <1>1, FoundIs, WalkNow
<1>3. Shape(tree) /\ Nodes(tree) /\ a \in Nat /\ a >= 1 /\ \A n \in DOMAIN tree : n < a /\ n \in Nat
  BY NodesTyped DEF TreeInv
<1>4. /\ Walks(w, tree, root, path, N)
      /\ \A i \in 0..N : w[i] \in DOMAIN tree \cup {NoNode} /\ \A j \in 0..i : w[i] # NoNode => w[j] # NoNode
  BY NodesTyped, WalkIs, WalkTyped
<1>w. \A i \in 0..f : w[i] \in DOMAIN tree /\ w[i] # NoNode
  <2>1. f \in 0..N /\ 0..f \subseteq 0..N
    BY <1>2
  <2> HIDE DEF w
  <2> QED
    BY <1>2, <1>4, <2>1
<1>5. x \in DOMAIN tree /\ x # NoNode
  <2>1. f \in 0..f
    BY <1>2
  <2> QED
    BY <1>w, <2>1
<1>n. /\ NewId(path, f) = x
      /\ \A i : i # f => NewId(path, i) = a + i - f - 1
  BY WalkNow DEF NewId
<1>d. /\ DOMAIN made = a..b
      /\ \A i \in a..b : made[i] = MadeNode(path, val, allow, i - a + f + 1)
  BY DEF MadeNodes
<1>6. b \in Nat /\ a <= b /\ next' = b + 1
  BY <1>0, <1>2, <1>3
<1>h. /\ DOMAIN s = DOMAIN tree /\ Nodes(s) /\ Final(tree, s)
      /\ \A m \in DOMAIN tree : /\ s[m].name = tree[m].name /\ s[m].parent = tree[m].parent
                                /\ s[m].head = IF m = x THEN head ELSE tree[m].head
  <2> HIDE DEF head, x
  <2> QED
    BY <1>3, <1>5, HeadWritten
<1>k. f = Found(path) /\ N = Len(path) /\ a = next /\ b = next + (N - f) - 1 /\ head = Append(tree[x].head, next)
  OBVIOUS
<1> HIDE DEF f, N, w, x, a, b, head, s, made
<1>7. /\ DOMAIN tree' = DOMAIN tree \cup (a..b)
      /\ \A m \in DOMAIN tree : m \notin a..b /\ tree'[m] = s[m]
      /\ \A i \in a..b : tree'[i] = made[i]
  <2>1. \A m \in DOMAIN tree : m \notin a..b
    BY <1>3
  <2>2. tree' = [m \in DOMAIN made \cup DOMAIN s |-> IF m \in DOMAIN made THEN made[m] ELSE s[m]]
    BY <1>0 DEF Allocate
  <2>3. DOMAIN tree' = DOMAIN made \cup DOMAIN s
    BY <2>2
  <2>4. \A m \in DOMAIN made \cup DOMAIN s : tree'[m] = IF m \in DOMAIN made THEN made[m] ELSE s[m]
    BY <2>2
  <2> QED
    BY <1>d, <1>h, <2>1, <2>3, <2>4
<1>8. ASSUME NEW i \in a..b
      PROVE  /\ DOMAIN tree'[i] = Fields /\ tree'[i].name = path[i - a + f + 1]
             /\ tree'[i].parent = (IF i = a THEN x ELSE i - 1)
             /\ tree'[i].allow_override \in BOOLEAN /\ tree'[i].is_seq = FALSE
             /\ (~tree'[i].allow_override => tree'[i].val # NoVal)
             /\ tree'[i].head = (IF i = b THEN <<>> ELSE <<i + 1>>)
             /\ (i = b => tree'[i].val = val)
  <2> DEFINE k == i - a + f + 1
  <2>1. tree'[i] = MadeNode(path, val, allow, k)
    BY <1>7, <1>d
  <2>2. /\ i = b <=> k = N
        /\ k - 1 = f <=> i = a
        /\ k - 1 # f => a + (k - 1) - f - 1 = i - 1
        /\ k + 1 # f /\ a + (k + 1) - f - 1 = i + 1
    <3>0. i \in Int /\ a \in Int /\ f \in Int /\ N \in Int /\ b = a + (N - f) - 1 /\ k = i - a + f + 1 /\ i >= a
      BY <1>2, <1>3, <1>k
    <3>1. (i = b) <=> (k = N)
      BY <3>0
    <3>2. (k - 1 = f) <=> (i = a)
      BY <3>0
    <3>3. a + (k - 1) - f - 1 = i - 1
      BY <3>0
    <3>4. k + 1 # f /\ a + (k + 1) - f - 1 = i + 1
      BY <3>0
    <3> QED
      BY <3>1, <3>2, <3>3, <3>4
  <2>k. k = i - a + f + 1
    OBVIOUS
  <2> HIDE DEF k
  <2>3. /\ DOMAIN tree'[i] = Fields /\ tree'[i].name = path[k] /\ tree'[i].parent = NewId(path, k - 1)
        /\ tree'[i].allow_override \in BOOLEAN /\ tree'[i].is_seq = FALSE
        /\ (~tree'[i].allow_override => tree'[i].val # NoVal)
        /\ (k = N => tree'[i].head = <<>> /\ tree'[i].val = val)
        /\ (k # N => tree'[i].head = <<NewId(path, k + 1)>>)
    <3>1. IsMade(tree'[i], path, val, k)
      BY <2>1, MadeNodeIs
    <3> QED
      BY <1>k, <3>1 DEF IsMade
  <2>4. tree'[i].parent = (IF i = a THEN x ELSE i - 1)
    <3>1. CASE i = a
      BY <1>n, <2>2, <2>3, <3>1
    <3>2. CASE i # a
      <4>1. k - 1 # f /\ NewId(path, k - 1) = a + (k - 1) - f - 1
        BY <1>n, <2>2, <3>2
      <4> QED
        BY <2>2, <2>3, <3>2, <4>1
    <3> QED
      BY <3>1, <3>2
  <2>5. tree'[i].head = (IF i = b THEN <<>> ELSE <<i + 1>>)
    <3>1. NewId(path, k + 1) = i + 1
      BY <1>n, <2>2
    <3> QED
      BY <2>2, <2>3, <3>1
  <2>6. i = b => tree'[i].val = val
    BY <2>2, <2>3
  <2> QED
    BY <2>3, <2>4, <2>5, <2>6, <2>k
<1>9. Extends(tree, tree', x, a, b)
  <2>1. \A m \in DOMAIN tree : /\ tree'[m].name = tree[m].name /\ tree'[m].parent = tree[m].parent
                               /\ tree'[m].head = IF m = x THEN Append(tree[x].head, a) ELSE tree[m].head
    BY <1>7, <1>h, <1>k
  <2>2. \A i \in a..b : /\ tree'[i].head = IF i = b THEN <<>> ELSE <<i + 1>>
                        /\ tree'[i].parent \in {NoNode, IF i = a THEN x ELSE i - 1}
    BY <1>8
  <2>3. \A m \in DOMAIN tree : m \notin a..b
    BY <1>7
  <2> QED
    BY <1>3, <1>5, <1>6, <1>7, <2>1, <2>2, <2>3 DEF Extends
<1>10. Nodes(tree')
  <2> SUFFICES ASSUME NEW m \in DOMAIN tree'
               PROVE  /\ DOMAIN tree'[m] = Fields
                      /\ tree'[m].allow_override \in BOOLEAN /\ tree'[m].is_seq \in BOOLEAN
                      /\ ~tree'[m].allow_override => tree'[m].val # NoVal
    BY DEF Nodes
  <2>1. CASE m \in a..b
    BY <1>8, <2>1
  <2>2. CASE m \in DOMAIN tree
    BY <1>7, <1>h, <2>2 DEF Nodes
  <2> QED
    BY <1>7, <2>1, <2>2
<1>11. Final(tree, tree')
  BY <1>7, <1>h DEF Final
<1>12. Adds(x, b)
  BY <1>0, <1>6, <1>9, <1>k DEF Adds
<1>13. Effect
  BY <1>10, <1>11, <1>12 DEF Effect
<1>14. Shape(tree') /\ root \in DOMAIN tree'
  <2>1. TreeInv'
    BY <1>13, TreeStep
  <2>2. root \in DOMAIN tree
    BY NodesTyped
  <2> QED
    BY <1>7, <2>1, <2>2 DEF TreeInv
\* The walk after the call: as before up to x, and then the new nodes.
<1> DEFINE v == [i \in 0..N |-> IF i <= f THEN w[i] ELSE a + i - f - 1]
<1>15. Walks(v, tree', root, path, N)
  <2>1. v[0] = root
    BY <1>2, <1>4 DEF Walks
  <2>2. ASSUME NEW i \in 1..N
        PROVE  v[i] = Step(tree', v[i - 1], path[i])
    <3>0. i - 1 \in 0..N /\ i \in 0..N /\ i \in Int
      BY <1>2
    <3>v. v[i] = (IF i <= f THEN w[i] ELSE a + i - f - 1) /\ v[i - 1] = IF i - 1 <= f THEN w[i - 1] ELSE a + (i - 1) - f - 1
      BY <3>0
    <3> HIDE DEF v
    <3>w. w[i] = Step(tree, w[i - 1], path[i])
      BY <1>4 DEF Walks
    <3>1. CASE i <= f
      <4>1. i \in 0..f /\ i - 1 \in 0..f
        BY <1>2, <3>1
      <4>2. w[i - 1] \in DOMAIN tree /\ w[i - 1] # NoNode /\ w[i] # NoNode
        BY <1>w, <4>1
      <4>3. LookupIn(tree, w[i - 1], path[i]) = w[i]
        BY <3>w, <4>2 DEF Step
      <4>4. LookupIn(tree', w[i - 1], path[i]) = w[i]
        BY <1>3, <1>9, <1>14, <4>2, <4>3, ExtendsFinds
      <4>5. v[i] = w[i] /\ v[i - 1] = w[i - 1]
        BY <1>2, <3>1, <3>v, <4>1
      <4> QED
        BY <4>2, <4>4, <4>5 DEF Step
    <3>2. CASE i = f + 1
      <4>1. v[i] = a /\ v[i - 1] = x /\ w[i - 1] = x
        BY <1>2, <1>3, <3>2, <3>v DEF x
      <4>2. LookupIn(tree, x, path[i]) = NoNode
        BY <1>2, <1>5, <3>2, <3>w, <4>1 DEF Step
      <4>3. tree'[a].name = path[i]
        <5>1. a \in a..b /\ a - a + f + 1 = i
          BY <1>2, <1>3, <1>6, <3>2
        <5> QED
          BY <1>8, <5>1
      <4>4. LookupIn(tree', x, path[i]) = a
        BY <1>3, <1>9, <1>14, <4>2, <4>3, ExtendsFinds
      <4> QED
        BY <1>5, <4>1, <4>4 DEF Step
    <3>3. CASE i > f + 1
      <4> DEFINE j == a + i - f - 2
      <4>1. j \in a..b /\ j # b /\ j + 1 \in a..b /\ (j + 1) - a + f + 1 = i /\ v[i - 1] = j /\ v[i] = j + 1 /\ j >= 1
        <5>1. i \in Int /\ f \in Int /\ N \in Int /\ a \in Int /\ b = a + (N - f) - 1 /\ i <= N /\ a >= 1 /\ f >= 0 /\ f <= N - 1
          BY <1>2, <1>3, <1>k, <3>0
        <5>2. j \in Int /\ a <= j /\ j < b /\ (j + 1) - a + f + 1 = i /\ a + i - f - 1 = j + 1 /\ a + (i - 1) - f - 1 = j
          BY <3>3, <5>1
        <5>3. ~(i <= f) /\ ~(i - 1 <= f)
          BY <3>3, <5>1
        <5>4. b \in Int
          BY <5>1
        <5> HIDE DEF j
        <5> QED
          BY <3>v, <5>1, <5>2, <5>3, <5>4
      <4> HIDE DEF j
      <4>2. tree'[j + 1].name = path[i]
        BY <1>8, <4>1
      <4> DEFINE l == j + 1
      <4>l. l = j + 1 /\ tree'[l].name = path[i]
        BY <4>2
      <4> HIDE DEF l
      <4>3. LookupIn(tree', j, path[i]) = l
        BY <1>9, <1>14, <4>1, <4>l, ChainFinds
      <4>4. j # NoNode
        BY <1>7, <1>14, <4>1, NotNull DEF Shape
      <4> QED
        BY <4>1, <4>3, <4>4, <4>l DEF Step
    <3>4. i <= f \/ i = f + 1 \/ i > f + 1
      BY <1>2, <3>0
    <3> QED
      BY <3>1, <3>2, <3>3, <3>4
  <2> HIDE DEF v
  <2> QED
    BY <2>1, <2>2 DEF Walks
<1>16. v[N] = b
  BY <1>2, <1>3, <1>k
<1>17. NodeAt(tree', root, path) = b
  <2> HIDE DEF v
  <2>1. N \in 0..N
    BY <1>2
  <2>2. \A i \in 0..N : WalkIn(tree', root, path)[i] = v[i]
    BY <1>15, <1>k, WalkBy
  <2> QED
    BY <1>16, <1>k, <2>1, <2>2 DEF NodeAt
<1>18. b \in a..b /\ tree'[b].val = val
  <2>1. b \in a..b
    BY <1>3, <1>6
  <2> QED
    BY <1>8, <2>1
<1>19. b # NoNode
  BY <1>7, <1>14, <1>18, NotNull DEF Shape
<1>20. last'.op = "set" /\ last'.ret = 1 /\ last'.path = path /\ last'.val = val
  BY <1>0
<1> QED
  BY <1>13, <1>17, <1>18, <1>19, <1>20 DEF SeenIn

-----------------------------------------------------------------------------
(***************************************************************************)
(* ConfRemove, and the two contexts.                                       *)
(***************************************************************************)
\* A node that was removed is in no list.
GoneIn(t, l) ==
  l.op = "remove" /\ l.ret = 1 => \A m \in DOMAIN t : l.node \notin Kids(t, m)

\* Freeing n of memory s, where s is t with n unlinked.
LEMMA FreeCuts ==
  ASSUME TreeInv, NEW n \in DOMAIN tree, NEW s, DOMAIN s = DOMAIN tree, Nodes(s), Final(tree, s),
         \A m \in DOMAIN tree :
           /\ s[m].name = tree[m].name /\ s[m].parent = tree[m].parent
           /\ \/ n \notin Kids(tree, m) /\ s[m].head = tree[m].head
              \/ \E k \in 1..Len(tree[m].head) : tree[m].head[k] = n /\ s[m].head = RemoveAt(tree[m].head, k),
         tree' = ConfNodeFree(s, n)
  PROVE  /\ Cuts(tree, tree', n) /\ Nodes(tree') /\ Final(tree, tree')
         /\ \A m \in DOMAIN tree' : n \notin Kids(tree', m)
<1>1. tree' = [x \in DOMAIN s \ BelowIn(tree, n) |-> s[x]]
  BY BelowNow
<1>2. DOMAIN tree' = DOMAIN tree \ BelowIn(tree, n) /\ \A m \in DOMAIN tree' : tree'[m] = s[m]
  BY <1>1
<1>3. Cuts(tree, tree', n)
  BY <1>2 DEF Cuts
<1>4. Nodes(tree')
  BY <1>2 DEF Nodes
<1>5. Final(tree, tree')
  BY <1>2 DEF Final
<1>6. \A m \in DOMAIN tree' : n \notin Kids(tree', m)
  BY <1>3, ForestCuts DEF TreeInv
<1> QED
  BY <1>3, <1>4, <1>5, <1>6

LEMMA ConfRemoveEffect ==
  ASSUME TreeInv, ~RemoveLoaded, NEW path, Len(path) \in Nat, ConfRemove(path)
  PROVE  Effect /\ GoneIn(tree', last') /\ last'.op = "remove"
<1> DEFINE n == NodeAt(tree, root, path)
           p == tree[n].parent
           k == SelectInSeq(tree[p].head, LAMBDA c : c = n)
           s == WithHead(tree, p, RemoveAt(tree[p].head, k))
<1>0. ConfGetNode(path) = n /\ n \in DOMAIN tree \cup {NoNode} /\ NoNode \notin DOMAIN tree
  BY WalkNow, NodesTyped
<1>1. next' = next /\ root' = root /\ root_backup' = root_backup
  BY DEF ConfRemove
<1>2. CASE n = NoNode
  <2>1. tree' = tree /\ last' = [op |-> "remove", path |-> path, val |-> NoVal, ret |-> 0, node |-> NoNode]
    BY <1>0, <1>2 DEF ConfRemove, Called
  <2>2. last'.op = "remove" /\ last'.ret = 0
    BY <2>1
  <2>3. Keeps /\ Nodes(tree') /\ Final(tree, tree')
    BY <1>1, <2>1 DEF Keeps, Same, Final, TreeInv
  <2> QED
    BY <2>2, <2>3 DEF Effect, GoneIn
<1>3. CASE n # NoNode
  <2>1. p # NoNode /\ n \in DOMAIN tree
    BY <1>0, <1>3 DEF ConfRemove
  <2>2. p \in DOMAIN tree /\ n \in Kids(tree, p)
    BY <2>1 DEF TreeInv, Forest
  <2>3. tree' = ConfNodeFree(s, n) /\ last' = [op |-> "remove", path |-> path, val |-> NoVal, ret |-> 1, node |-> n]
    BY <1>0, <1>3, <2>1 DEF ConfRemove, Called, WithHead
  <2>4. last'.op = "remove" /\ last'.ret = 1 /\ last'.node = n
    BY <2>3
  <2>5. k \in 1..Len(tree[p].head) /\ tree[p].head[k] = n
    <3> DEFINE q == tree[p].head
               I == {i \in 1..Len(q) : q[i] = n}
    <3>1. Len(q) \in Nat /\ \E i \in 1..Len(q) : n = q[i]
      <4>1. Heads(tree)
        BY NodesTyped
      <4>2. Len(tree[p].head) \in Nat /\ \A c : c \in Kids(tree, p) <=> \E i \in 1..Len(tree[p].head) : c = tree[p].head[i]
        <5> HIDE DEF p
        <5> QED
          BY <2>2, <4>1, KidsAre
      <4> HIDE DEF p, n
      <4> QED
        BY <2>2, <4>2
    <3>2. k = IF I # {} THEN Min(I) ELSE 0
      BY DEF SelectInSeq
    <3>3. I # {} /\ I \in SUBSET (1..Len(q))
      BY <3>1
    <3> HIDE DEF q
    <3>4. Min(I) \in I
      <4> HIDE DEF I
      <4> QED
        BY <3>1, <3>3, FirstPlace
    <3>5. k \in I
      <4> HIDE DEF I, k
      <4> QED
        BY <3>2, <3>3, <3>4
    <3> HIDE DEF k
    <3> QED
      BY <3>5 DEF q
  <2>h. Nodes(tree)
    BY DEF TreeInv
  <2> HIDE DEF p, k
  <2>6. /\ DOMAIN s = DOMAIN tree /\ Nodes(s) /\ Final(tree, s)
        /\ \A m \in DOMAIN tree :
             /\ s[m].name = tree[m].name /\ s[m].parent = tree[m].parent
             /\ s[m].head = IF m = p THEN RemoveAt(tree[p].head, k) ELSE tree[m].head
    BY <2>2, <2>h, HeadWritten
  <2> HIDE DEF s
  <2>7. \A m \in DOMAIN tree :
          \/ n \notin Kids(tree, m) /\ s[m].head = tree[m].head
          \/ \E i \in 1..Len(tree[m].head) : tree[m].head[i] = n /\ s[m].head = RemoveAt(tree[m].head, i)
    <3>1. \A m \in DOMAIN tree : m # p => n \notin Kids(tree, m)
      BY <2>2 DEF TreeInv, Forest
    <3> QED
      BY <2>5, <2>6, <3>1
  <2> HIDE DEF n
  <2>8. /\ Cuts(tree, tree', n) /\ Nodes(tree') /\ Final(tree, tree')
        /\ \A m \in DOMAIN tree' : n \notin Kids(tree', m)
    BY <2>1, <2>3, <2>6, <2>7, FreeCuts
  <2>9. n \notin Tops
    BY <2>2 DEF TreeInv, Forest
  <2>10. Drops(n)
    BY <1>1, <2>8, <2>9 DEF Drops
  <2> QED
    BY <2>4, <2>8, <2>10 DEF Effect, GoneIn
<1> QED
  BY <1>2, <1>3

LEMMA ContextEffect ==
  ASSUME TreeInv, ConfCreateContextBackup \/ ConfInit \/ ConfDeInit \/ ConfRestoreContextBackup
  PROVE  Effect
<1>t. Nodes(tree) /\ Final(tree, tree)
  BY DEF TreeInv, Final
<1>1. CASE ConfCreateContextBackup
  BY <1>1, <1>t DEF ConfCreateContextBackup, Effect, Swaps
<1>2. CASE ConfInit
  <2> DEFINE m == ConfNodeNew("", NoVal, NoNode, FALSE)
             made == [n \in {next} |-> m]
  <2>1. /\ root = NoNode /\ next <= MaxNodes /\ tree' = Allocate(made, tree)
        /\ root' = next /\ next' = next + 1 /\ root_backup' = root_backup
    BY <1>2 DEF ConfInit
  <2>2. /\ DOMAIN m = Fields /\ m.head = <<>> /\ m.parent = NoNode /\ m.allow_override = TRUE /\ m.is_seq = FALSE
    BY DEF ConfNodeNew, Fields
  <2> HIDE DEF m
  <2>3. DOMAIN made = {next} /\ made[next] = m
    OBVIOUS
  <2> HIDE DEF made
  <2>4. tree' = [n \in DOMAIN made \cup DOMAIN tree |-> IF n \in DOMAIN made THEN made[n] ELSE tree[n]]
    BY <2>1 DEF Allocate
  <2>5. next \notin DOMAIN tree
    BY NodesTyped
  <2>6. DOMAIN tree' = DOMAIN tree \cup {next} /\ tree'[next] = m /\ \A n \in DOMAIN tree : tree'[n] = tree[n]
    BY <2>3, <2>4, <2>5
  <2>7. Roots(tree, tree', next)
    BY <2>2, <2>5, <2>6 DEF Roots
  <2>8. Nodes(tree')
    <3> SUFFICES ASSUME NEW n \in DOMAIN tree'
                 PROVE  /\ DOMAIN tree'[n] = Fields
                        /\ tree'[n].allow_override \in BOOLEAN /\ tree'[n].is_seq \in BOOLEAN
                        /\ ~tree'[n].allow_override => tree'[n].val # NoVal
      BY DEF Nodes
    <3>1. CASE n = next
      BY <2>2, <2>6, <3>1
    <3>2. CASE n \in DOMAIN tree
      BY <1>t, <2>6, <3>2 DEF Nodes
    <3> QED
      BY <2>6, <3>1, <3>2
  <2>9. Final(tree, tree')
    BY <2>6 DEF Final
  <2> QED
    BY <2>1, <2>7, <2>8, <2>9 DEF Effect, Starts
<1>3. CASE ConfDeInit
  <2>1. /\ root # NoNode /\ root_backup # NoNode /\ tree' = ConfNodeFree(tree, root)
        /\ root' = NoNode /\ next' = next /\ root_backup' = root_backup
    BY <1>3 DEF ConfDeInit, Calm
  <2>2. root \in DOMAIN tree /\ \A m \in DOMAIN tree : root \notin Kids(tree, m)
    BY <2>1 DEF TreeInv, Forest, Tops
  <2>3. Cuts(tree, tree', root) /\ Nodes(tree') /\ Final(tree, tree')
    BY <1>t, <2>1, <2>2, FreeCuts
  <2> QED
    BY <2>1, <2>3 DEF Effect, Drops
<1>4. CASE ConfRestoreContextBackup
  BY <1>4, <1>t DEF ConfRestoreContextBackup, Effect, Swaps
<1> QED
  BY <1>1, <1>2, <1>3, <1>4

-----------------------------------------------------------------------------
(***************************************************************************)
(* The loader.                                                             *)
(***************************************************************************)
Frames(S) == [parent : S, node : S, inseq : BOOLEAN, state : Keys, seq_idx : Nat]

LoaderInv ==
  /\ load \in {"none", "busy", "ok", "bad"}
  /\ (load = "busy") <=> (stack # <<>>)
  /\ stack \in Seq(Frames(DOMAIN tree))
  /\ stack # <<>> => root # NoNode /\ named = {} /\ last = Nothing

LEMMA CurIs ==
  ASSUME LoaderInv, load = "busy"
  PROVE  /\ stack # <<>> /\ Len(stack) \in Nat /\ Len(stack) >= 1 /\ cur = stack[Len(stack)]
         /\ cur \in Frames(DOMAIN tree)
         /\ cur.parent \in DOMAIN tree /\ cur.node \in DOMAIN tree /\ cur.inseq \in BOOLEAN
         /\ cur.state \in Keys /\ cur.seq_idx \in Nat
<1>1. stack # <<>> /\ stack \in Seq(Frames(DOMAIN tree))
  BY DEF LoaderInv
<1>2. Len(stack) \in Nat /\ Len(stack) >= 1
  BY <1>1, EmptySeq, LenProperties
<1>3. cur = stack[Len(stack)]
  BY DEF cur, Last
<1>4. cur \in Frames(DOMAIN tree)
  BY <1>1, <1>2, <1>3, ElementOfSeq
<1> QED
  BY <1>1, <1>2, <1>3, <1>4 DEF Frames

\* The frames after a step: the running call changes, a call starts or one ends.
LEMMA StackStep ==
  ASSUME NEW S, NEW U, S \subseteq U, NEW s \in Seq(Frames(S)), s # <<>>, NEW f \in Frames(U), NEW g \in Frames(U)
  PROVE  LET r == [s EXCEPT ![Len(s)] = f] IN
         /\ r \in Seq(Frames(U)) /\ r # <<>>
         /\ Append(r, g) \in Seq(Frames(U)) /\ Append(r, g) # <<>>
         /\ s \in Seq(Frames(U))
<1>1. Frames(S) \subseteq Frames(U)
  BY DEF Frames
<1>2. s \in Seq(Frames(U)) /\ Len(s) \in Nat /\ Len(s) >= 1
  BY <1>1, LenProperties, EmptySeq
<1> DEFINE r == [s EXCEPT ![Len(s)] = f]
<1>3. r \in Seq(Frames(U)) /\ Len(r) = Len(s)
  <2>1. Len(s) \in 1..Len(s)
    BY <1>2
  <2> QED
    BY <1>2, <2>1, ExceptSeq
<1>4. r # <<>>
  <2> HIDE DEF r
  <2> QED
    BY <1>2, <1>3, EmptySeq
<1>5. Append(r, g) \in Seq(Frames(U)) /\ Append(r, g) # <<>>
  <2> HIDE DEF r
  <2>1. Append(r, g) \in Seq(Frames(U)) /\ Len(Append(r, g)) = Len(r) + 1
    BY <1>3, AppendProperties
  <2> QED
    BY <1>2, <1>3, <2>1, EmptySeq
<1> QED
  BY <1>2, <1>3, <1>4, <1>5

LEMMA FrameTyped ==
  ASSUME NEW S, NEW n \in S, NEW b \in BOOLEAN
  PROVE  Frame(n, b) \in Frames(S)
BY DEF Frame, Frames, Keys

LEMMA FramesEdit ==
  ASSUME NEW S, NEW U, S \subseteq U, NEW f \in Frames(S), NEW n \in U
  PROVE  /\ [f EXCEPT !.seq_idx = @ + 1] \in Frames(U)
         /\ [f EXCEPT !.node = n, !.state = "VAL"] \in Frames(U)
         /\ [f EXCEPT !.state = "KEY"] \in Frames(U)
         /\ [f EXCEPT !.seq_idx = @ + 1, !.state = "KEY"] \in Frames(U)
<1>1. f \in Frames(U)
  BY DEF Frames
<1>2. f.seq_idx + 1 \in Nat /\ "KEY" \in Keys /\ "VAL" \in Keys
  BY DEF Frames, Keys
<1> DEFINE m == f.seq_idx + 1
<1>3. [f EXCEPT !.seq_idx = m] \in Frames(U)
  <2>1. m \in Nat
    BY <1>2
  <2> HIDE DEF m
  <2> QED
    BY <1>1, <2>1 DEF Frames
<1>4. [f EXCEPT !.node = n, !.state = "VAL"] \in Frames(U)
  BY <1>1, <1>2 DEF Frames
<1>5. [f EXCEPT !.state = "KEY"] \in Frames(U)
  BY <1>1, <1>2 DEF Frames
<1>6. [f EXCEPT !.seq_idx = m, !.state = "KEY"] \in Frames(U)
  <2>1. m \in Nat
    BY <1>2
  <2> HIDE DEF m
  <2> QED
    BY <1>1, <1>2, <2>1 DEF Frames
<1> QED
  BY <1>3, <1>4, <1>5, <1>6

\* What every step of the loader keeps of the rest.
Quiet == root' = root /\ root_backup' = root_backup /\ last' = last /\ named' = named /\ calls' = calls /\ loads' = loads

LEMMA AppendedEffect ==
  ASSUME TreeInv, NEW n \in DOMAIN tree, NEW name, NEW val, NEW isseq \in BOOLEAN,
         Appended(n, name, val, isseq), root' = root, root_backup' = root_backup
  PROVE  Effect /\ DOMAIN tree' = DOMAIN tree \cup {next}
<1>1. tree' = WithNode(tree, n, next, name, val, isseq)
  BY DEF Appended, WithNode, WithHead
<1>2. next <= MaxNodes /\ next' = next + 1
  BY DEF Appended
<1>3. Nodes(tree) /\ next \in Nat /\ next \notin DOMAIN tree
  BY NodesTyped DEF TreeInv
<1>4. Extends(tree, tree', n, next, next) /\ Nodes(tree') /\ Final(tree, tree')
  BY <1>1, <1>3, OneAppended
<1>5. Adds(n, next)
  BY <1>2, <1>4 DEF Adds
<1>6. DOMAIN tree' = DOMAIN tree \cup {next}
  <2>1. next..next = {next}
    BY <1>3
  <2> QED
    BY <1>4, <2>1 DEF Extends
<1> QED
  BY <1>4, <1>5, <1>6 DEF Effect

LEMMA ItemValueIs ==
  ASSUME TreeInv, LoaderInv, load = "busy"
  PROVE  Same(tree, ItemValue(tree)) /\ Nodes(ItemValue(tree)) /\ Final(tree, ItemValue(tree))
<1>1. cur.parent \in DOMAIN tree /\ Nodes(tree)
  BY CurIs DEF TreeInv
<1>2. CASE tree[cur.parent].is_seq /\ tree[cur.parent].val = NoVal
  <2>1. ItemValue(tree) = WithValue(tree, cur.parent, Mangle(event.v))
    BY <1>2 DEF ItemValue, WithValue
  <2>2. tree[cur.parent].allow_override
    BY <1>1, <1>2 DEF Nodes
  <2> QED
    BY <1>1, <2>1, <2>2, ValueWritten
<1>3. CASE ~(tree[cur.parent].is_seq /\ tree[cur.parent].val = NoVal)
  <2>1. ItemValue(tree) = tree
    BY <1>3 DEF ItemValue
  <2> QED
    BY <1>1, <2>1 DEF Same, Final
<1> QED
  BY <1>2, <1>3

\* A step of the loader keeps the invariant of the loader and has one of the effects.
LoadStep == Effect /\ LoaderInv' /\ Quiet

LEMMA StackKept ==
  ASSUME LoaderInv, load = "busy", Effect, Quiet, DOMAIN tree \subseteq DOMAIN tree',
         load' = "busy", stack' # <<>>, stack' \in Seq(Frames(DOMAIN tree'))
  PROVE  LoadStep
BY DEF LoadStep, LoaderInv, Quiet

LEMMA KeyScalarStep ==
  ASSUME TreeInv, LoaderInv, KeyScalar
  PROVE  LoadStep
<1> DEFINE n0 == LookupIn(tree, cur.parent, event.v)
           s == ItemValue(tree)
<1>1. load = "busy" /\ load' = load /\ Quiet
  BY DEF KeyScalar, Event, Advance, reader, Quiet
<1>2. cur.parent \in DOMAIN tree /\ cur \in Frames(DOMAIN tree) /\ stack # <<>> /\ stack \in Seq(Frames(DOMAIN tree))
  BY <1>1, CurIs DEF LoaderInv
<1>3. Same(tree, s) /\ Nodes(s) /\ Final(tree, s)
  BY <1>1, ItemValueIs
<1>4. n0 = ConfNodeLookupChild(cur.parent, event.v) /\ n0 \in DOMAIN tree \cup {NoNode}
  <2>1. Heads(tree) /\ Addresses(tree)
    BY NodesTyped
  <2> QED
    BY <1>2, <2>1, WalkNow, LookupIs
<1>r. root' = root /\ root_backup' = root_backup
  BY <1>1 DEF Quiet
<1>5. CASE n0 # NoNode
  <2>1. tree' = s /\ next' = next /\ stack' = Running([cur EXCEPT !.node = n0, !.state = "VAL"])
    BY <1>4, <1>5 DEF KeyScalar
  <2>2. Effect /\ DOMAIN tree' = DOMAIN tree
    <3> HIDE DEF s
    <3> QED
      BY <1>3, <1>r, <2>1 DEF Effect, Keeps, Same
  <2>3. [cur EXCEPT !.node = n0, !.state = "VAL"] \in Frames(DOMAIN tree')
    BY <1>2, <1>4, <1>5, <2>2, FramesEdit
  <2>4. stack' \in Seq(Frames(DOMAIN tree')) /\ stack' # <<>>
    <3> DEFINE f == [cur EXCEPT !.node = n0, !.state = "VAL"]
    <3>1. stack' = [stack EXCEPT ![Len(stack)] = f]
      BY <2>1 DEF Running
    <3> HIDE DEF f
    <3> QED
      BY <1>2, <2>2, <2>3, <3>1, StackStep DEF f
  <2> QED
    BY <1>1, <2>2, <2>4, StackKept
<1>6. CASE n0 = NoNode
  <2> DEFINE p == cur.parent
             f == [cur EXCEPT !.node = next, !.state = "VAL"]
  <2>1. /\ tree' = Allocate([m \in {next} |-> ConfNodeNew(NodeName(tree[cur.parent].name, event.v), NoVal, NoNode, FALSE)],
                            [s EXCEPT ![p].head = Append(@, next)])
        /\ next <= MaxNodes /\ next' = next + 1 /\ stack' = Running(f)
    BY <1>4, <1>6 DEF KeyScalar
  <2>2. tree' = WithNode(s, p, next, NodeName(tree[cur.parent].name, event.v), NoVal, FALSE)
    BY <2>1 DEF WithNode, WithHead
  <2>s. stack' = [stack EXCEPT ![Len(stack)] = f]
    BY <2>1 DEF Running
  <2>3. next \in Nat /\ next \notin DOMAIN tree /\ p \in DOMAIN tree
    BY <1>2, NodesTyped DEF TreeInv
  <2> HIDE DEF p, f, s
  <2>4. p \in DOMAIN s /\ next \notin DOMAIN s /\ DOMAIN s = DOMAIN tree
    BY <1>3, <2>3 DEF Same
  <2>5. Extends(s, tree', p, next, next) /\ Nodes(tree') /\ Final(s, tree')
    BY <1>3, <2>2, <2>3, <2>4, OneAppended
  <2>6. Extends(tree, tree', p, next, next) /\ Final(tree, tree')
    BY <1>3, <2>5, SameThenExtends
  <2>7. Adds(p, next)
    BY <1>r, <2>1, <2>6 DEF Adds
  <2>8. Effect
    BY <2>5, <2>6, <2>7 DEF Effect
  <2>9. DOMAIN tree' = DOMAIN tree \cup {next}
    <3>1. next..next = {next}
      BY <2>3
    <3> QED
      BY <2>6, <3>1 DEF Extends
  <2>10. f \in Frames(DOMAIN tree')
    BY <1>2, <2>9, FramesEdit DEF f
  <2>11. stack' \in Seq(Frames(DOMAIN tree')) /\ stack' # <<>>
    BY <1>2, <2>9, <2>10, <2>s, StackStep
  <2> QED
    BY <1>1, <2>8, <2>9, <2>11, StackKept
<1> QED
  BY <1>5, <1>6

LEMMA FailsStep ==
  ASSUME TreeInv, LoaderInv, Fails
  PROVE  LoadStep
<1>1. /\ load' = "bad" /\ stack' = <<>> /\ tree' = tree /\ next' = next
      /\ Quiet
  BY DEF Fails, reader, Quiet
<1>2. Effect
  BY <1>1 DEF Effect, Keeps, Same, Final, TreeInv, Quiet
<1>3. LoaderInv'
  BY <1>1 DEF LoaderInv
<1> QED
  BY <1>1, <1>2, <1>3 DEF LoadStep

\* The step leaves the tree as it is.
LEMMA TreeKept ==
  ASSUME TreeInv, tree' = tree, next' = next, root' = root, root_backup' = root_backup
  PROVE  Effect
BY DEF Effect, Keeps, Same, Final, TreeInv

LEMMA ReturnsStep ==
  ASSUME TreeInv, LoaderInv, load = "busy", Returns
  PROVE  LoadStep
<1>1. /\ stack' = Front(stack) /\ load' = (IF Len(stack) = 1 THEN "ok" ELSE "busy")
      /\ tree' = tree /\ next' = next /\ Quiet
  BY DEF Returns, Advance, reader, Quiet
<1>2. Effect
  BY <1>1, TreeKept DEF Quiet
<1>3. stack # <<>> /\ stack \in Seq(Frames(DOMAIN tree)) /\ Len(stack) \in Nat /\ Len(stack) >= 1
  BY CurIs DEF LoaderInv
<1>4. stack' \in Seq(Frames(DOMAIN tree)) /\ Len(stack') = Len(stack) - 1
  <2> DEFINE n == Len(stack)
             m == n - 1
             S == Frames(DOMAIN tree)
  <2>1. stack' = SubSeq(stack, 1, m)
    BY <1>1 DEF Front
  <2>2. n \in Nat /\ n >= 1 /\ m \in Int /\ m >= 0 /\ m <= n /\ \A i \in 1..m : stack[i] \in S
    BY <1>3, ElementOfSeq
  <2>k. n = Len(stack) /\ m = n - 1
    OBVIOUS
  <2> HIDE DEF m, n, S
  <2>3. SubSeq(stack, 1, m) \in Seq(S) /\ Len(SubSeq(stack, 1, m)) = IF 1 <= m THEN m - 1 + 1 ELSE 0
    <3>1. stack \in Seq(S) /\ 1 \in Int
      BY <1>3 DEF S
    <3> QED
      BY <2>2, <3>1, SubSeqProperties
  <2>4. (IF 1 <= m THEN m - 1 + 1 ELSE 0) = n - 1
    BY <2>2, <2>k
  <2> QED
    BY <2>1, <2>3, <2>4, <2>k DEF S
<1>5. CASE Len(stack) = 1
  <2>1. stack' = <<>> /\ load' = "ok"
    BY <1>1, <1>4, <1>5, EmptySeq
  <2> QED
    BY <1>1, <1>2, <2>1 DEF LoadStep, LoaderInv
<1>6. CASE Len(stack) # 1
  <2>1. stack' # <<>> /\ load' = "busy"
    BY <1>1, <1>3, <1>4, <1>6, EmptySeq
  <2> QED
    BY <1>1, <1>2, <1>4, <2>1, StackKept
<1> QED
  BY <1>5, <1>6

LEMMA DocumentStartStep ==
  ASSUME TreeInv, LoaderInv, DocumentStart
  PROVE  LoadStep
<1>1. CASE event.yaml11
  <2>1. /\ load = "busy" /\ load' = load /\ stack' = stack /\ tree' = tree /\ next' = next /\ Quiet
    BY <1>1 DEF DocumentStart, Event, Advance, reader, Quiet
  <2>2. Effect
    BY <2>1, TreeKept DEF Quiet
  <2>3. stack # <<>> /\ stack \in Seq(Frames(DOMAIN tree))
    BY <2>1, CurIs DEF LoaderInv
  <2> QED
    BY <2>1, <2>2, <2>3, StackKept
<1>2. CASE ~event.yaml11
  BY <1>2, FailsStep DEF DocumentStart
<1> QED
  BY <1>1, <1>2

LEMMA SequenceScalarStep ==
  ASSUME TreeInv, LoaderInv, SequenceScalar
  PROVE  LoadStep
<1> DEFINE f == [cur EXCEPT !.seq_idx = @ + 1]
<1>1. /\ load = "busy" /\ load' = load /\ Quiet
      /\ Appended(cur.parent, ToString(cur.seq_idx), event.v, FALSE)
      /\ stack' = Running(f)
  BY DEF SequenceScalar, Event, Advance, reader, Quiet
<1>2. cur.parent \in DOMAIN tree /\ cur \in Frames(DOMAIN tree) /\ stack # <<>> /\ stack \in Seq(Frames(DOMAIN tree))
  BY <1>1, CurIs DEF LoaderInv
<1>3. Effect /\ DOMAIN tree' = DOMAIN tree \cup {next}
  BY <1>1, <1>2, AppendedEffect DEF Quiet
<1>4. f \in Frames(DOMAIN tree')
  BY <1>2, <1>3, FramesEdit
<1>5. stack' = [stack EXCEPT ![Len(stack)] = f]
  BY <1>1 DEF Running
<1> HIDE DEF f
<1>6. stack' \in Seq(Frames(DOMAIN tree')) /\ stack' # <<>>
  BY <1>2, <1>3, <1>4, <1>5, StackStep
<1> QED
  BY <1>1, <1>3, <1>6, StackKept

LEMMA ValueScalarStep ==
  ASSUME TreeInv, LoaderInv, ValueScalar
  PROVE  LoadStep
<1> DEFINE f == [cur EXCEPT !.state = "KEY"]
<1>1. /\ load = "busy" /\ load' = load /\ Quiet /\ next' = next
      /\ tree' = (IF tree[cur.node].allow_override THEN WithValue(tree, cur.node, event.v) ELSE tree)
      /\ stack' = [stack EXCEPT ![Len(stack)] = f]
  BY DEF ValueScalar, Event, Advance, reader, Quiet, WithValue, Running
<1>2. cur.node \in DOMAIN tree /\ cur \in Frames(DOMAIN tree) /\ stack # <<>> /\ stack \in Seq(Frames(DOMAIN tree))
  BY <1>1, CurIs DEF LoaderInv
<1>3. Effect /\ DOMAIN tree' = DOMAIN tree
  <2>1. CASE tree[cur.node].allow_override
    <3>1. Same(tree, tree') /\ Nodes(tree') /\ Final(tree, tree')
      BY <1>1, <1>2, <2>1, ValueWritten DEF TreeInv
    <3> QED
      BY <1>1, <3>1 DEF Effect, Keeps, Same, Quiet
  <2>2. CASE ~tree[cur.node].allow_override
    BY <1>1, <2>2, TreeKept DEF Quiet
  <2> QED
    BY <2>1, <2>2
<1>4. f \in Frames(DOMAIN tree')
  BY <1>2, <1>3, FramesEdit
<1> HIDE DEF f
<1>6. stack' \in Seq(Frames(DOMAIN tree')) /\ stack' # <<>>
  BY <1>1, <1>2, <1>3, <1>4, StackStep
<1> QED
  BY <1>1, <1>3, <1>6, StackKept

LEMMA SequenceStartStep ==
  ASSUME TreeInv, LoaderInv, SequenceStart
  PROVE  LoadStep
<1> DEFINE f == [cur EXCEPT !.state = "KEY"]
           g == Frame(cur.node, TRUE)
<1>1. /\ load = "busy" /\ load' = load /\ Quiet /\ next' = next /\ tree' = tree
      /\ stack' = Append([stack EXCEPT ![Len(stack)] = f], g)
  BY DEF SequenceStart, Event, Advance, reader, Quiet, Running
<1>2. cur.node \in DOMAIN tree /\ cur \in Frames(DOMAIN tree) /\ stack # <<>> /\ stack \in Seq(Frames(DOMAIN tree))
  BY <1>1, CurIs DEF LoaderInv
<1>3. Effect
  BY <1>1, TreeKept DEF Quiet
<1>4. f \in Frames(DOMAIN tree) /\ g \in Frames(DOMAIN tree)
  BY <1>2, FramesEdit, FrameTyped
<1> HIDE DEF f, g
<1>6. stack' \in Seq(Frames(DOMAIN tree)) /\ stack' # <<>>
  BY <1>1, <1>2, <1>4, StackStep
<1> QED
  BY <1>1, <1>3, <1>6, StackKept

LEMMA MappingStartStep ==
  ASSUME TreeInv, LoaderInv, MappingStart
  PROVE  LoadStep
<1>1. load = "busy" /\ load' = load /\ Quiet
  BY DEF MappingStart, Event, Advance, reader, Quiet
<1>2. cur.node \in DOMAIN tree /\ cur \in Frames(DOMAIN tree) /\ stack # <<>> /\ stack \in Seq(Frames(DOMAIN tree))
  BY <1>1, CurIs DEF LoaderInv
<1>3. CASE cur.inseq
  <2> DEFINE f == [cur EXCEPT !.seq_idx = @ + 1, !.state = "KEY"]
             g == Frame(next, FALSE)
  <2>1. /\ Appended(cur.node, ToString(cur.seq_idx), NoVal, TRUE)
        /\ stack' = Append([stack EXCEPT ![Len(stack)] = f], g)
    BY <1>3 DEF MappingStart, Running
  <2>2. Effect /\ DOMAIN tree' = DOMAIN tree \cup {next}
    BY <1>1, <1>2, <2>1, AppendedEffect DEF Quiet
  <2>3. f \in Frames(DOMAIN tree') /\ g \in Frames(DOMAIN tree')
    BY <1>2, <2>2, FramesEdit, FrameTyped
  <2> HIDE DEF f, g
  <2>4. stack' \in Seq(Frames(DOMAIN tree')) /\ stack' # <<>>
    BY <1>2, <2>1, <2>2, <2>3, StackStep
  <2> QED
    BY <1>1, <2>2, <2>4, StackKept
<1>4. CASE ~cur.inseq
  <2> DEFINE f == [cur EXCEPT !.state = "KEY"]
             g == Frame(cur.node, FALSE)
  <2>1. tree' = tree /\ next' = next /\ stack' = Append([stack EXCEPT ![Len(stack)] = f], g)
    BY <1>4 DEF MappingStart, Running
  <2>2. Effect
    BY <1>1, <2>1, TreeKept DEF Quiet
  <2>3. f \in Frames(DOMAIN tree) /\ g \in Frames(DOMAIN tree)
    BY <1>2, FramesEdit, FrameTyped
  <2> HIDE DEF f, g
  <2>4. stack' \in Seq(Frames(DOMAIN tree)) /\ stack' # <<>>
    BY <1>2, <2>1, <2>3, StackStep
  <2> QED
    BY <1>1, <2>1, <2>2, <2>4, StackKept
<1> QED
  BY <1>3, <1>4

LEMMA ConfYamlParseStep ==
  ASSUME TreeInv, LoaderInv, ConfYamlParse
  PROVE  LoadStep /\ stack # <<>>
<1>1. load = "busy" /\ stack # <<>>
  BY DEF ConfYamlParse, ParserError, DocumentStart, SequenceScalar, KeyScalar, ValueScalar, SequenceStart,
         MappingStart, CollectionEnd, Event, LoaderInv
<1>2. CASE ParserError
  BY <1>1, <1>2, FailsStep DEF ParserError
<1>3. CASE CollectionEnd
  BY <1>1, <1>3, ReturnsStep DEF CollectionEnd
<1> QED
  BY <1>1, <1>2, <1>3, DocumentStartStep, SequenceScalarStep, KeyScalarStep, ValueScalarStep, SequenceStartStep,
     MappingStartStep DEF ConfYamlParse

-----------------------------------------------------------------------------
(***************************************************************************)
(* The readers at start up.                                                *)
(***************************************************************************)
Second(t, r) == UNION {Kids(t, c) : c \in Kids(t, r)}

UsedOnce(t, r, name) == Cardinality({c \in Second(t, r) : t[c].val = name}) < 2

\* The names of a section were checked against those of all sections.
Accepted(t, r, s) ==
  /\ NodeAt(t, r, <<s>>) # NoNode
  /\ \A c \in Kids(t, NodeAt(t, r, <<s>>)) : UsedOnce(t, r, t[c].val)

NamesInv ==
  named # {} =>
    /\ root # NoNode /\ stack = <<>>
    /\ \A s \in named \ {"bad"} : Accepted(tree, root, s)

LEMMA NameCheckIs == \A name : ConfNodeNameCheck(name) = UsedOnce(tree, root, name)
BY DEF ConfNodeNameCheck, UsedOnce, Second, Kids

LEMMA CheckNamesStep ==
  ASSUME NamesInv, NEW section \in {"servers", "monitor-group"}, CheckNames(section)
  PROVE  NamesInv'
<1> DEFINE n == NodeAt(tree, root, <<section>>)
<1>1. /\ stack = <<>> /\ root # NoNode /\ n # NoNode /\ tree' = tree /\ root' = root /\ stack' = stack
      /\ named' = IF \A c \in Kids(tree, n) : ConfNodeNameCheck(tree[c].val) THEN named \cup {section} ELSE {"bad"}
  BY WalkNow DEF CheckNames, loader, Kids
<1>2. SUFFICES ASSUME NEW s \in named' \ {"bad"} PROVE Accepted(tree, root, s)
  BY <1>1 DEF NamesInv
<1>3. CASE \A c \in Kids(tree, n) : ConfNodeNameCheck(tree[c].val)
  <2>1. Accepted(tree, root, section)
    BY <1>1, <1>3, NameCheckIs DEF Accepted
  <2>2. s = section \/ s \in named \ {"bad"}
    BY <1>1, <1>3
  <2>3. CASE s = section
    BY <2>1, <2>3
  <2>4. CASE s \in named \ {"bad"}
    BY <2>4 DEF NamesInv
  <2> QED
    BY <2>2, <2>3, <2>4
<1>4. CASE ~(\A c \in Kids(tree, n) : ConfNodeNameCheck(tree[c].val))
  BY <1>1, <1>4
<1> QED
  BY <1>3, <1>4

LEMMA OneLong == \A S : \A x \in S : <<x>> \in Seq(S) /\ Len(<<x>>) = 1 /\ <<x>>[1] = x /\ <<x>> # <<>>
OBVIOUS

\* A node two levels below the root.
LEMMA ItemIsSecond ==
  ASSUME TreeInv, root # NoNode, NEW s, NodeAt(tree, root, <<s>>) # NoNode,
         NEW m \in Kids(tree, NodeAt(tree, root, <<s>>))
  PROVE  m \in Second(tree, root)
<1> DEFINE path == <<s>>
           w == WalkIn(tree, root, path)
<1>1. Len(path) \in Nat /\ Len(path) = 1 /\ path[1] = s
  <2>1. s \in {s} /\ 1 \in Nat
    OBVIOUS
  <2> QED
    BY <2>1, OneLong
<1> HIDE DEF path
<1>2. w[0] = root /\ \A i \in 1..1 : w[i] = Step(tree, w[i - 1], path[i])
  BY <1>1, WalkIs DEF Walks
<1>3. w[1] = Step(tree, root, s)
  <2>1. 1 \in 1..1 /\ 1 - 1 = 0
    OBVIOUS
  <2> HIDE DEF w
  <2> QED
    BY <1>1, <1>2, <2>1
<1>4. NodeAt(tree, root, path) = LookupIn(tree, root, s)
  BY <1>1, <1>3 DEF NodeAt, Step
<1>5. Heads(tree) /\ Addresses(tree) /\ root \in DOMAIN tree
  BY NodesTyped
<1>6. NodeAt(tree, root, path) # NoNode /\ m \in Kids(tree, NodeAt(tree, root, path))
  BY DEF path
<1>7. \E k \in 1..Len(tree[root].head) : LookupIn(tree, root, s) = tree[root].head[k]
  BY <1>4, <1>5, <1>6, LookupIs
<1>8. LookupIn(tree, root, s) \in Kids(tree, root)
  BY <1>5, <1>7, KidsAre
<1> QED
  BY <1>4, <1>6, <1>8 DEF Second

LEMMA UsedOnceIs ==
  ASSUME TreeInv, root # NoNode, NEW m \in Second(tree, root), NEW n \in Second(tree, root),
         tree[m].val = tree[n].val, UsedOnce(tree, root, tree[m].val)
  PROVE  m = n
<1> DEFINE S == {c \in Second(tree, root) : tree[c].val = tree[m].val}
<1>1. m \in S /\ n \in S /\ Cardinality(S) < 2
  BY DEF UsedOnce
<1>2. S \subseteq DOMAIN tree
  <2>1. \A c \in DOMAIN tree : Kids(tree, c) \subseteq DOMAIN tree
    BY NodesTyped, KidsAre
  <2>2. root \in DOMAIN tree
    BY NodesTyped
  <2> QED
    BY <2>1, <2>2 DEF Second
<1> HIDE DEF S
<1>3. IsFiniteSet(S)
  <2>1. IsFiniteSet(1..MaxNodes)
    BY BoundsAssumption, FS_Interval
  <2>2. S \subseteq 1..MaxNodes
    BY <1>2, NodesTyped DEF Addresses
  <2> QED
    BY <2>1, <2>2, FS_Subset
<1>4. SUFFICES ASSUME m # n PROVE FALSE
  OBVIOUS
<1>5. IsFiniteSet({m}) /\ Cardinality({m}) = 1
  BY FS_Singleton
<1>6. Cardinality({m} \cup {n}) = 2 /\ IsFiniteSet({m} \cup {n})
  <2>1. n \notin {m}
    BY <1>4
  <2>2. Cardinality({m} \cup {n}) = Cardinality({m}) + 1 /\ IsFiniteSet({m} \cup {n})
    BY <1>5, <2>1, FS_AddElement
  <2> QED
    BY <1>5, <2>2
<1>7. Cardinality({m} \cup {n}) <= Cardinality(S)
  <2>1. {m} \cup {n} \subseteq S
    BY <1>1
  <2> QED
    BY <1>3, <2>1, FS_Subset
<1>8. Cardinality(S) \in Nat
  BY <1>3, FS_CardinalityType
<1> QED
  BY <1>1, <1>6, <1>7, <1>8

-----------------------------------------------------------------------------
(***************************************************************************)
(* The inductive invariant.                                                *)
(***************************************************************************)
ConfInv ==
  /\ TreeInv /\ LoaderInv /\ NamesInv
  /\ SeenIn(tree, root, last) /\ GoneIn(tree, last)
  /\ calls \in 0..MaxCalls /\ loads \in 0..MaxLoads

LEMMA ConfInvInit == Init => ConfInv
<1> SUFFICES ASSUME Init PROVE ConfInv
  OBVIOUS
<1> DEFINE m == ConfNodeNew("", NoVal, NoNode, FALSE)
<1>1. /\ tree = [n \in {1} |-> m] /\ next = 2 /\ root = 1 /\ root_backup = NoNode /\ stack = <<>> /\ load = "none"
      /\ last = Nothing /\ calls = 0 /\ loads = 0 /\ named = {}
  BY DEF Init
<1>2. /\ DOMAIN m = Fields /\ m.head = <<>> /\ m.parent = NoNode /\ m.allow_override = TRUE /\ m.is_seq = FALSE
  BY DEF ConfNodeNew, Fields
<1> HIDE DEF m
<1>3. DOMAIN tree = {1} /\ tree[1] = m
  BY <1>1
<1>4. MaxNodes \in Nat /\ 1 <= MaxNodes /\ 1 \in 1..MaxNodes /\ 1 # NoNode
  BY BoundsAssumption, NullAssumption
<1>5. Kids(tree, 1) = {}
  BY <1>2, <1>3 DEF Kids, Range
<1>6. Shape(tree)
  <2>1. tree[1].head \in Seq(DOMAIN tree)
    <3>1. tree[1].head = <<>>
      BY <1>2, <1>3
    <3> QED
      BY <3>1
  <2> QED
    BY <1>3, <1>4, <2>1 DEF Shape, Heads, Addresses
<1>7. Tops = {1}
  BY <1>1, <1>4 DEF Tops
<1>8. Forest(tree, Tops)
  <2>1. IsInjective(tree[1].head)
    BY <1>2, <1>3 DEF IsInjective
  <2>2. tree[1].parent = NoNode
    BY <1>2, <1>3
  <2> QED
    BY <1>3, <1>5, <1>7, <2>1, <2>2 DEF Forest, Reached
<1>9. Nodes(tree)
  BY <1>2, <1>3 DEF Nodes
<1>10. TreeInv
  <2>1. next \in Nat /\ 1 <= next /\ next <= MaxNodes + 1 /\ \A n \in DOMAIN tree : n < next
    BY <1>1, <1>3, <1>4
  <2>2. root # root_backup
    BY <1>1, <1>4
  <2> QED
    BY <1>6, <1>8, <1>9, <2>1, <2>2 DEF TreeInv
<1>11. LoaderInv
  BY <1>1 DEF LoaderInv
<1>12. NamesInv /\ SeenIn(tree, root, last) /\ GoneIn(tree, last)
  BY <1>1 DEF NamesInv, SeenIn, GoneIn, Nothing
<1>13. calls \in 0..MaxCalls /\ loads \in 0..MaxLoads
  BY <1>1, BoundsAssumption
<1> QED
  BY <1>10, <1>11, <1>12, <1>13 DEF ConfInv

\* A step of the API, between two files.
LEMMA CalmStep ==
  ASSUME ConfInv, Effect, stack = <<>>, named = {}, stack' = stack, load' = load, named' = named,
         calls' \in 0..MaxCalls, loads' = loads,
         SeenIn(tree', root', last'), GoneIn(tree', last')
  PROVE  ConfInv'
<1>1. TreeInv'
  BY TreeStep DEF ConfInv
<1>2. LoaderInv'
  BY DEF ConfInv, LoaderInv
<1>3. NamesInv'
  BY DEF NamesInv
<1> QED
  BY <1>1, <1>2, <1>3 DEF ConfInv

LEMMA NothingCalled ==
  ASSUME NEW t, NEW r, NEW l, l = Nothing
  PROVE  SeenIn(t, r, l) /\ GoneIn(t, l)
BY DEF SeenIn, GoneIn, Nothing

LEMMA ConfInvStep ==
  ASSUME ~RemoveLoaded, ConfInv, [Next]_vars
  PROVE  ConfInv' /\ Effect
<1>0. /\ TreeInv /\ LoaderInv /\ NamesInv /\ SeenIn(tree, root, last) /\ GoneIn(tree, last)
      /\ calls \in 0..MaxCalls /\ loads \in 0..MaxLoads
  BY DEF ConfInv
<1>c. \A n : n \in 0..MaxCalls /\ n < MaxCalls => n + 1 \in 0..MaxCalls
  BY BoundsAssumption
<1>l. \A n : n \in 0..MaxLoads /\ n < MaxLoads => n + 1 \in 0..MaxLoads
  BY BoundsAssumption
<1>1. ASSUME NEW p \in Paths, NEW v \in Vals, NEW o \in BOOLEAN, ConfSet(p, v, o)
      PROVE  ConfInv' /\ Effect
  <2>1. /\ stack = <<>> /\ root # NoNode /\ named = {} /\ calls < MaxCalls /\ calls' = calls + 1
        /\ root' = root /\ root_backup' = root_backup /\ stack' = stack /\ load' = load /\ named' = named /\ loads' = loads
    BY <1>1 DEF ConfSet, Calm, loader, reader
  <2>2. Len(p) \in Nat
    BY CallAssumption, LenProperties
  <2>3. Effect /\ SeenIn(tree', root', last') /\ last'.op = "set"
    <3>1. CASE SetExisting(p, v, o)
      BY <1>0, <2>1, <2>2, <3>1, SetExistingEffect
    <3>2. CASE SetMissing(p, v, o)
      BY <1>0, <2>1, <2>2, <3>2, SetMissingEffect
    <3> QED
      BY <1>1, <3>1, <3>2 DEF ConfSet
  <2>4. GoneIn(tree', last')
    BY <2>3 DEF GoneIn
  <2>5. calls' \in 0..MaxCalls
    BY <1>0, <1>c, <2>1
  <2> QED
    BY <2>1, <2>3, <2>4, <2>5, CalmStep
<1>2. ASSUME NEW p \in RemovePaths, ConfRemove(p)
      PROVE  ConfInv' /\ Effect
  <2>1. /\ stack = <<>> /\ named = {} /\ calls < MaxCalls /\ calls' = calls + 1
        /\ stack' = stack /\ load' = load /\ named' = named /\ loads' = loads
    BY <1>2 DEF ConfRemove, Calm, loader, reader
  <2>2. Len(p) \in Nat
    BY CallAssumption, LenProperties
  <2>3. Effect /\ GoneIn(tree', last') /\ last'.op = "remove"
    BY <1>0, <1>2, <2>2, ConfRemoveEffect
  <2>4. SeenIn(tree', root', last')
    BY <2>3 DEF SeenIn
  <2>5. calls' \in 0..MaxCalls
    BY <1>0, <1>c, <2>1
  <2> QED
    BY <2>1, <2>3, <2>4, <2>5, CalmStep
<1>3. CASE ConfCreateContextBackup \/ ConfInit \/ ConfDeInit \/ ConfRestoreContextBackup
  <2>1. Effect
    BY <1>0, <1>3, ContextEffect
  <2>2. /\ last' = Nothing /\ stack' = stack /\ load' = load /\ named' = named /\ loads' = loads
        /\ calls' \in 0..MaxCalls
    BY <1>0, <1>3, <1>c DEF ConfCreateContextBackup, ConfInit, ConfDeInit, ConfRestoreContextBackup, loader, reader
  <2>3. stack = <<>> /\ named = {}
    BY <1>0, <1>3 DEF ConfCreateContextBackup, ConfInit, ConfDeInit, ConfRestoreContextBackup, Calm, LoaderInv, NamesInv
  <2> QED
    BY <2>1, <2>2, <2>3, NothingCalled, CalmStep
<1>4. CASE ConfYamlLoadFile
  <2>1. /\ stack = <<>> /\ root # NoNode /\ named = {} /\ named' = named /\ loads < MaxLoads /\ loads' = loads + 1
        /\ stack' = <<Frame(root, FALSE)>> /\ load' = "busy" /\ last' = Nothing
        /\ tree' = tree /\ next' = next /\ root' = root /\ root_backup' = root_backup /\ calls' = calls
    BY <1>4 DEF ConfYamlLoadFile, Calm, reader
  <2>2. Effect
    BY <1>0, <2>1, TreeKept
  <2>3. TreeInv'
    BY <1>0, <2>2, TreeStep
  <2>4. stack' \in Seq(Frames(DOMAIN tree)) /\ stack' # <<>>
    <3>1. root \in DOMAIN tree
      BY <1>0, <2>1, NodesTyped
    <3>2. Frame(root, FALSE) \in Frames(DOMAIN tree)
      BY <3>1, FrameTyped
    <3> DEFINE f == Frame(root, FALSE)
               F == Frames(DOMAIN tree)
    <3>3. f \in F /\ stack' = <<f>>
      BY <2>1, <3>2
    <3> HIDE DEF f, F
    <3>4. stack' \in Seq(F) /\ stack' # <<>>
      BY <3>3, OneLong
    <3> QED
      BY <3>4 DEF F
  <2>5. LoaderInv'
    BY <2>1, <2>4 DEF LoaderInv
  <2>6. NamesInv'
    BY <2>1 DEF NamesInv
  <2>7. loads' \in 0..MaxLoads
    BY <1>0, <1>l, <2>1
  <2> QED
    BY <1>0, <2>1, <2>2, <2>3, <2>5, <2>6, <2>7, NothingCalled DEF ConfInv
<1>5. CASE ConfYamlParse
  <2>1. Effect /\ LoaderInv' /\ Quiet /\ stack # <<>>
    BY <1>0, <1>5, ConfYamlParseStep DEF LoadStep
  <2>2. TreeInv'
    BY <1>0, <2>1, TreeStep
  <2>3. last' = Nothing /\ named' = {} /\ calls' = calls /\ loads' = loads
    BY <1>0, <2>1 DEF LoaderInv, Quiet
  <2>4. NamesInv'
    BY <2>3 DEF NamesInv
  <2> QED
    BY <1>0, <2>1, <2>2, <2>3, <2>4, NothingCalled DEF ConfInv
<1>6. CASE getDBConfig
  <2>1. /\ stack = <<>> /\ stack' = stack /\ load' = load /\ last' = Nothing /\ named' = named /\ loads' = loads /\ calls' = calls
        /\ tree' = tree /\ next' = next /\ root' = root /\ root_backup' = root_backup
    BY <1>6 DEF getDBConfig, loader
  <2>2. Effect /\ TreeInv'
    BY <1>0, <2>1, TreeKept, TreeStep
  <2>3. LoaderInv' /\ NamesInv'
    BY <1>0, <2>1 DEF LoaderInv, NamesInv
  <2> QED
    BY <1>0, <2>1, <2>2, <2>3, NothingCalled DEF ConfInv
<1>7. ASSUME NEW s \in {"servers", "monitor-group"}, CheckNames(s)
      PROVE  ConfInv' /\ Effect
  <2>1. /\ stack = <<>> /\ stack' = stack /\ load' = load /\ last' = Nothing /\ loads' = loads /\ calls' = calls
        /\ tree' = tree /\ next' = next /\ root' = root /\ root_backup' = root_backup
    BY <1>7 DEF CheckNames, loader
  <2>2. Effect /\ TreeInv'
    BY <1>0, <2>1, TreeKept, TreeStep
  <2>3. LoaderInv'
    BY <1>0, <2>1 DEF LoaderInv
  <2>4. NamesInv'
    BY <1>0, <1>7, CheckNamesStep
  <2> QED
    BY <1>0, <2>1, <2>2, <2>3, <2>4, NothingCalled DEF ConfInv
<1>8. CASE UNCHANGED vars
  <2>1. /\ stack' = stack /\ load' = load /\ last' = last /\ named' = named /\ loads' = loads /\ calls' = calls
        /\ tree' = tree /\ next' = next /\ root' = root /\ root_backup' = root_backup
    BY <1>8 DEF vars
  <2>2. Effect /\ TreeInv'
    BY <1>0, <2>1, TreeKept, TreeStep
  <2>3. LoaderInv' /\ NamesInv'
    BY <1>0, <2>1 DEF LoaderInv, NamesInv
  <2>4. SeenIn(tree', root', last') /\ GoneIn(tree', last')
    BY <1>0, <2>1
  <2> QED
    BY <1>0, <2>1, <2>2, <2>3, <2>4 DEF ConfInv
<1> QED
  BY <1>1, <1>2, <1>3, <1>4, <1>5, <1>6, <1>7, <1>8 DEF Next

LEMMA ConfInvAlways ==
  ASSUME ~RemoveLoaded
  PROVE  Spec => []ConfInv
<1>1. ConfInv /\ [Next]_vars => ConfInv'
  BY ConfInvStep
<1> QED
  BY <1>1, ConfInvInit, PTL DEF Spec

-----------------------------------------------------------------------------
(***************************************************************************)
(* The theorems.                                                           *)
(***************************************************************************)
LEMMA TypesHold == ConfInv => TypeOK
<1> SUFFICES ASSUME ConfInv PROVE TypeOK
  OBVIOUS
<1>1. TreeInv /\ LoaderInv /\ calls \in 0..MaxCalls /\ loads \in 0..MaxLoads
  BY DEF ConfInv
<1>2. next \in 1..MaxNodes + 1 /\ Live \subseteq 1..next - 1
  <2>1. next \in Nat /\ 1 <= next /\ next <= MaxNodes + 1
    BY <1>1 DEF TreeInv
  <2>2. \A n \in DOMAIN tree : n \in Nat /\ n >= 1 /\ n < next
    BY <1>1, NodesTyped DEF TreeInv, Addresses
  <2> QED
    BY <2>1, <2>2, BoundsAssumption DEF Live
<1>3. \A n \in Live : /\ tree[n].allow_override \in BOOLEAN /\ tree[n].is_seq \in BOOLEAN
                      /\ tree[n].parent \in Live \cup {NoNode}
  BY <1>1 DEF TreeInv, Nodes, Forest, Live
<1>4. {root, root_backup} \ {NoNode} \subseteq Live
  BY <1>1 DEF TreeInv, Forest, Tops, Live
<1>5. ASSUME NEW i \in DOMAIN stack
      PROVE  {stack[i].parent, stack[i].node} \subseteq Live /\ stack[i].state \in Keys
  <2>1. stack \in Seq(Frames(DOMAIN tree))
    BY <1>1 DEF LoaderInv
  <2>2. stack[i] \in Frames(DOMAIN tree)
    <3>1. i \in 1..Len(stack)
      BY <2>1, LenProperties
    <3> QED
      BY <2>1, <3>1, ElementOfSeq
  <2> QED
    BY <2>2 DEF Frames, Live
<1>6. calls <= MaxCalls /\ loads <= MaxLoads
  BY <1>1, BoundsAssumption
<1> QED
  BY <1>1, <1>2, <1>3, <1>4, <1>5, <1>6 DEF TypeOK, LoaderInv

LEMMA ListsHold == ConfInv => ListsSound
<1> SUFFICES ASSUME ConfInv PROVE ListsSound
  OBVIOUS
<1>1. TreeInv
  BY DEF ConfInv
<1>2. Heads(tree) /\ Addresses(tree) /\ Forest(tree, Tops)
  BY <1>1, NodesTyped DEF TreeInv
<1>3. \A n \in Live : Range(tree[n].head) \subseteq Live \ {root, root_backup} /\ IsInjective(tree[n].head)
  <2> SUFFICES ASSUME NEW n \in DOMAIN tree
               PROVE  Kids(tree, n) \subseteq DOMAIN tree \ {root, root_backup} /\ IsInjective(tree[n].head)
    BY DEF Live, Kids
  <2>1. Kids(tree, n) \subseteq DOMAIN tree /\ Kids(tree, n) \cap Tops = {}
    BY <1>2, KidsAre DEF Forest
  <2>2. NoNode \notin DOMAIN tree
    BY <1>1, NodesTyped
  <2>3. IsInjective(tree[n].head)
    BY <1>2 DEF Forest
  <2> QED
    BY <2>1, <2>2, <2>3 DEF Tops
<1>4. \A m, n \in Live : m # n => Range(tree[m].head) \cap Range(tree[n].head) = {}
  BY <1>2 DEF Forest, Live, Kids
<1>5. Live = UNION {Below(r) : r \in {root, root_backup} \ {NoNode}}
  <2> DEFINE S == UNION {BelowIn(tree, r) : r \in Tops}
  <2>1. \A r \in Tops : /\ r \in BelowIn(tree, r) /\ BelowIn(tree, r) \subseteq DOMAIN tree
                        /\ Closed(tree, BelowIn(tree, r))
    <3>1. \A r \in Tops : r \in DOMAIN tree
      BY <1>2 DEF Forest
    <3> QED
      BY <1>2, <3>1, BelowIs
  <2>2. Closed(tree, S) /\ Tops \subseteq S /\ S \subseteq DOMAIN tree
    BY <2>1 DEF Closed
  <2>3. DOMAIN tree \subseteq S
    <3> HIDE DEF S
    <3> QED
      BY <1>2, <2>2 DEF Forest, Reached
  <2>4. S = UNION {Below(r) : r \in {root, root_backup} \ {NoNode}}
    BY BelowNow DEF Tops
  <2> HIDE DEF S
  <2> QED
    BY <2>2, <2>3, <2>4 DEF Live
<1>6. \A n \in Live : tree[n].parent # NoNode => n \in Range(tree[tree[n].parent].head)
  BY <1>2 DEF Forest, Live, Kids
<1> QED
  BY <1>3, <1>4, <1>5, <1>6 DEF ListsSound

LEMMA GoneHolds == ConfInv => RemovedIsGone
BY DEF ConfInv, GoneIn, RemovedIsGone, Live, Kids

\* For every file, every path and every bound, the lists of conf.c form a forest
\* without cycles, shared nodes or lost nodes below root and root_backup, while
\* ConfSet, ConfRemove, the loader and the backup of the context work on it, as
\* long as ConfRemove is not called for a node that a file made.
THEOREM ConfTreeSound ==
  ASSUME ~RemoveLoaded
  PROVE  Spec => []TreeSound
<1>1. ConfInv => TreeSound
  BY TypesHold, ListsHold, GoneHolds DEF TreeSound
<1> QED
  BY <1>1, ConfInvAlways, PTL

\* A reader that follows the path given to ConfSet finds the value that was set,
\* and a call that returned 0 found a final value.
THEOREM ConfSetIsSeen ==
  ASSUME ~RemoveLoaded
  PROVE  Spec => []SetIsSeen
<1>1. ConfInv => SetIsSeen
  <2>1. ConfInv => SeenIn(tree, root, last)
    BY DEF ConfInv
  <2>2. SeenIn(tree, root, last) => SetIsSeen
    BY WalkNow DEF SeenIn, SetIsSeen, ConfGet
  <2> QED
    BY <2>1, <2>2
<1> QED
  BY <1>1, ConfInvAlways, PTL

\* No step hides or changes a value that was set with allow_override 0, as long
\* as its node lives: neither ConfSet nor any event of any file.
THEOREM ConfFinalStays ==
  ASSUME ~RemoveLoaded
  PROVE  Spec => FinalStays
<1> DEFINE Stays ==
      \A p \in Paths :
        LET n == ConfGetNode(p) IN
        (root # NoNode /\ root' = root /\ n # NoNode /\ n \in DOMAIN tree')
          => (~tree[n].allow_override =>
                /\ ConfGetNode(p)' = n
                /\ tree'[n].val = tree[n].val /\ ~tree'[n].allow_override)
<1>1. ConfInv /\ [Next]_vars => Stays
  <2> SUFFICES ASSUME ConfInv, [Next]_vars, NEW p \in Paths
               PROVE  LET n == ConfGetNode(p) IN
                      (root # NoNode /\ root' = root /\ n # NoNode /\ n \in DOMAIN tree')
                        => (~tree[n].allow_override =>
                              /\ ConfGetNode(p)' = n
                              /\ tree'[n].val = tree[n].val /\ ~tree'[n].allow_override)
    OBVIOUS
  <2>1. Len(p) \in Nat
    BY CallAssumption, LenProperties
  <2>2. Kept(p)
    BY <2>1, ConfInvStep, FinalStep DEF ConfInv
  <2>3. ConfGetNode(p) = NodeAt(tree, root, p) /\ ConfGetNode(p)' = NodeAt(tree', root', p)
    BY WalkNow, WalkNext
  <2> QED
    BY <2>2, <2>3 DEF Kept
<1>2. ConfInv /\ [Next]_vars => [Stays]_vars
  BY <1>1
<1> QED
  BY <1>2, ConfInvAlways, PTL DEF Spec, FinalStays

\* When the sections servers and monitor-group were accepted, no name is used
\* twice in them or across them, for every file.
THEOREM ConfNamesUnique ==
  ASSUME ~RemoveLoaded
  PROVE  Spec => []NamesUnique
<1>1. ConfInv => NamesUnique
  <2> SUFFICES ASSUME ConfInv, named = {"servers", "monitor-group"},
                      NEW s \in named, NEW m \in Range(tree[ConfGetNode(<<s>>)].head),
                      NEW z \in named, NEW n \in Range(tree[ConfGetNode(<<z>>)].head),
                      tree[m].val = tree[n].val
               PROVE  m = n
    BY DEF NamesUnique
  <2>1. TreeInv /\ root # NoNode /\ Accepted(tree, root, s) /\ Accepted(tree, root, z)
    BY DEF ConfInv, NamesInv
  <2>2. m \in Kids(tree, NodeAt(tree, root, <<s>>)) /\ n \in Kids(tree, NodeAt(tree, root, <<z>>))
    BY WalkNow DEF Kids
  <2>3. NodeAt(tree, root, <<s>>) # NoNode /\ NodeAt(tree, root, <<z>>) # NoNode /\ UsedOnce(tree, root, tree[m].val)
    BY <2>1, <2>2 DEF Accepted
  <2>4. m \in Second(tree, root) /\ n \in Second(tree, root)
    BY <2>1, <2>2, <2>3, ItemIsSecond
  <2> QED
    BY <2>1, <2>3, <2>4, UsedOnceIs
<1> QED
  BY <1>1, ConfInvAlways, PTL
====
