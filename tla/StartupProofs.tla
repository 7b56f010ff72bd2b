---------------------------- MODULE StartupProofs ----------------------------
(***************************************************************************)
(* Proofs about the configuration readers and the life of the process:     *)
(* what an accepted configuration guarantees about its server groups, that *)
(* all is released once and after the threads, and what main can die of.   *)
(***************************************************************************)
EXTENDS Startup, FiniteSetTheorems, SequenceTheorems, WellFoundedInduction, TLAPS

-----------------------------------------------------------------------------
(***************************************************************************)
(* str_split_func and the fields.  The recursive function exists because   *)
(* the least position where it does not is none; what it has done up to    *)
(* position n is told by the places of the delimiters it has met.          *)
(***************************************************************************)
\* A set of naturals that is not empty has a least element.
LEMMA LeastNatural ==
  ASSUME NEW T \in SUBSET Nat, T # {}
  PROVE  \E m \in T : \A n \in T : m <= n
<1> DEFINE R == OpToRel(<, Nat)
<1>1. \E x \in T : \A y \in T : ~(<<y, x>> \in R)
  <2>1. IsWellFoundedOn(R, Nat)
    BY NatLessThanWellFounded
  <2> HIDE DEF R
  <2> QED  BY <2>1, WFMin
<1>2. \A x, y \in Nat : <<y, x>> \in R <=> y < x
  BY DEF OpToRel
<1>3. PICK x \in T : \A y \in T : ~(<<y, x>> \in R)
  BY <1>1
<1> HIDE DEF R
<1>4. \A y \in T : y \in Nat /\ x \in Nat /\ ~(y < x)
  BY <1>2, <1>3
<1>5. \A y \in T : x <= y
  BY <1>4
<1> QED  BY <1>5

\* The fields found so far, when one more token is read.
NextFields(fs, c, d) == IF c = d THEN Append(fs, <<>>) ELSE [fs EXCEPT ![Len(fs)] = Append(@, c)]
Splits(f, text, d, m) ==
  \A n \in 0..m : f[n] = IF n = 0 THEN << <<>> >> ELSE NextFields(f[n - 1], text[n], d)

SomeFields == Seq(Seq(Tokens)) \ {<<>>}

LEMMA NextFieldsType ==
  ASSUME NEW fs \in SomeFields, NEW c \in Tokens, NEW d
  PROVE  /\ NextFields(fs, c, d) \in SomeFields
         /\ Len(fs) \in Nat \ {0}
         /\ c = d => /\ Len(NextFields(fs, c, d)) = Len(fs) + 1
                     /\ NextFields(fs, c, d)[Len(fs) + 1] = <<>>
                     /\ \A p \in 1..Len(fs) : NextFields(fs, c, d)[p] = fs[p]
         /\ c # d => /\ Len(NextFields(fs, c, d)) = Len(fs)
                     /\ NextFields(fs, c, d)[Len(fs)] = Append(fs[Len(fs)], c)
                     /\ \A p \in 1..(Len(fs) - 1) : NextFields(fs, c, d)[p] = fs[p]
<1> DEFINE S == Seq(Tokens)
           l == Len(fs)
           e == Append(fs[l], c)
<1>1. fs \in Seq(S) /\ l \in Nat \ {0}
  BY EmptySeq DEF SomeFields
<1>2. CASE c = d
  <2>1. <<>> \in S
    BY EmptySeq
  <2> HIDE DEF S
  <2>2. /\ Append(fs, <<>>) \in Seq(S) /\ Len(Append(fs, <<>>)) = l + 1
        /\ \A p \in 1..l : Append(fs, <<>>)[p] = fs[p]
        /\ Append(fs, <<>>)[l + 1] = <<>>
    BY <1>1, <2>1, AppendProperties
  <2>3. Append(fs, <<>>) # <<>>
    BY <1>1, <2>2, EmptySeq
  <2> QED  BY <1>1, <1>2, <2>2, <2>3 DEF NextFields, SomeFields, S
<1>3. CASE c # d
  <2>1. e \in S
    <3>1. l \in 1..Len(fs)
      BY <1>1
    <3>2. fs[l] \in S
      BY <1>1, <3>1, ElementOfSeq
    <3> QED  BY <3>2, AppendProperties
  <2>2. NextFields(fs, c, d) = [fs EXCEPT ![l] = e]
    BY <1>3 DEF NextFields
  <2> HIDE DEF S, e
  <2>3. /\ [fs EXCEPT ![l] = e] \in Seq(S) /\ Len([fs EXCEPT ![l] = e]) = Len(fs)
        /\ \A j \in 1..Len(fs) : [fs EXCEPT ![l] = e][j] = IF j = l THEN e ELSE fs[j]
    <3>1. l \in 1..Len(fs)
      BY <1>1
    <3> QED  BY <1>1, <2>1, <3>1, ExceptSeq
  <2>4. [fs EXCEPT ![l] = e] # <<>>
    BY <1>1, <2>3, EmptySeq
  <2>5. \A p \in 1..(l - 1) : p \in 1..Len(fs) /\ p # l
    BY <1>1
  <2>6. /\ Len(NextFields(fs, c, d)) = Len(fs)
        /\ NextFields(fs, c, d)[Len(fs)] = e
        /\ \A p \in 1..(Len(fs) - 1) : NextFields(fs, c, d)[p] = fs[p]
    BY <1>1, <2>2, <2>3, <2>5
  <2>7. NextFields(fs, c, d) \in SomeFields
    BY <2>2, <2>3, <2>4 DEF SomeFields, S
  <2> QED  BY <1>1, <1>3, <2>6, <2>7 DEF e
<1> QED  BY <1>2, <1>3

LEMMA SplitsExists ==
  ASSUME NEW text \in Seq(Tokens), NEW d
  PROVE  \A m \in 0..Len(text) : \E f \in [0..m -> SomeFields] : Splits(f, text, d, m)
<1> DEFINE T == {m \in 0..Len(text) : ~ \E f \in [0..m -> SomeFields] : Splits(f, text, d, m)}
<1>1. Len(text) \in Nat /\ T \in SUBSET Nat /\ \A n \in 1..Len(text) : text[n] \in Tokens
  BY LenProperties, ElementOfSeq
<1>2. << <<>> >> \in SomeFields
  <2>1. <<>> \in Seq(Tokens)
    BY EmptySeq
  <2> QED  BY <2>1 DEF SomeFields
<1>3. ASSUME T # {}
      PROVE  FALSE
  <2>1. PICK m \in T : \A n \in T : m <= n
    BY <1>1, <1>3, LeastNatural
  <2>2. m # 0
    <3> DEFINE f == [n \in 0..0 |-> << <<>> >>]
    <3>1. f \in [0..0 -> SomeFields] /\ Splits(f, text, d, 0)
      BY <1>2 DEF Splits
    <3> QED  BY <2>1, <3>1
  <2>3. m \in 1..Len(text) /\ m - 1 \in 0..Len(text) /\ m - 1 \notin T
    <3>1. m \in 0..Len(text)
      BY <2>1
    <3> HIDE DEF T
    <3> QED  BY <1>1, <2>1, <2>2, <3>1
  <2>4. PICK f \in [0..(m - 1) -> SomeFields] : Splits(f, text, d, m - 1)
    BY <2>3
  <2> DEFINE last == NextFields(f[m - 1], text[m], d)
             g == [n \in 0..m |-> IF n < m THEN f[n] ELSE last]
  <2>5. last \in SomeFields
    <3>1. f[m - 1] \in SomeFields /\ text[m] \in Tokens
      BY <1>1, <2>3
    <3> QED  BY <3>1, NextFieldsType
  <2>6. g \in [0..m -> SomeFields]
    <3> HIDE DEF last
    <3> QED  BY <2>3, <2>5
  <2>7. Splits(g, text, d, m)
    <3>1. ASSUME NEW n \in 0..m
          PROVE  g[n] = IF n = 0 THEN << <<>> >> ELSE NextFields(g[n - 1], text[n], d)
      <4>1. CASE n < m
        <5>1. n \in 0..(m - 1) /\ g[n] = f[n]
          BY <2>3, <4>1
        <5>2. n = 0 \/ (n - 1 \in 0..m /\ g[n - 1] = f[n - 1])
          BY <2>3, <4>1
        <5>3. f[n] = IF n = 0 THEN << <<>> >> ELSE NextFields(f[n - 1], text[n], d)
          BY <2>4, <5>1 DEF Splits
        <5> QED  BY <5>1, <5>2, <5>3
      <4>2. CASE n = m
        <5>1. g[n] = last /\ n # 0 /\ g[n - 1] = f[n - 1]
          BY <2>3, <4>2
        <5> QED  BY <4>2, <5>1
      <4> QED  BY <2>3, <4>1, <4>2
    <3> HIDE DEF g
    <3> QED  BY <3>1 DEF Splits
  <2> HIDE DEF g
  <2> QED  BY <2>1, <2>6, <2>7
<1> QED  BY <1>3

(***************************************************************************)
(* The fields up to position n are cut at the places c.                    *)
(***************************************************************************)
Rises(c) == \A a, b \in DOMAIN c : a < b => c[a] < c[b]
Found(text, d, n) == {0} \cup {p \in 1..n : text[p] = d}
CutAt(c, fs, text, d, n) ==
  /\ c \in Seq(Nat) /\ Len(c) = Len(fs) /\ Rises(c)
  /\ Found(text, d, n) = {c[p] : p \in 1..Len(c)}
  /\ \A p \in 1..(Len(fs) - 1) : fs[p] = SubSeq(text, c[p] + 1, c[p + 1] - 1)
  /\ fs[Len(fs)] = SubSeq(text, c[Len(fs)] + 1, n)

LEMMA CutMoves ==
  ASSUME NEW text \in Seq(Tokens), NEW d, NEW n \in 1..Len(text), NEW fs \in SomeFields,
         NEW c, CutAt(c, fs, text, d, n - 1)
  PROVE  \E e : CutAt(e, NextFields(fs, text[n], d), text, d, n)
<1> DEFINE gs == NextFields(fs, text[n], d)
           l == Len(fs)
<1>1. /\ Len(text) \in Nat /\ text[n] \in Tokens /\ n \in Nat \ {0}
      /\ l \in Nat \ {0} /\ gs \in SomeFields
  BY LenProperties, ElementOfSeq, NextFieldsType
<1>2. /\ c \in Seq(Nat) /\ Len(c) = l /\ Rises(c)
      /\ Found(text, d, n - 1) = {c[p] : p \in 1..Len(c)}
      /\ \A p \in 1..(l - 1) : fs[p] = SubSeq(text, c[p] + 1, c[p + 1] - 1)
      /\ fs[l] = SubSeq(text, c[l] + 1, n - 1)
  BY DEF CutAt
<1>3. \A p \in 1..l : c[p] \in 0..(n - 1)
  <2>1. Found(text, d, n - 1) \subseteq 0..(n - 1)
    BY <1>1 DEF Found
  <2> QED  BY <1>2, <2>1
<1>4. CASE text[n] = d
  <2> DEFINE e == Append(c, n)
  <2>1. /\ Len(gs) = l + 1 /\ gs[l + 1] = <<>>
        /\ \A p \in 1..l : gs[p] = fs[p]
    BY <1>1, <1>4, NextFieldsType
  <2>2. /\ e \in Seq(Nat) /\ Len(e) = l + 1 /\ e[l + 1] = n
        /\ \A p \in 1..l : e[p] = c[p]
    BY <1>1, <1>2, AppendProperties
  <2> HIDE DEF e, gs
  <2>3. Rises(e)
    <3>1. DOMAIN e = 1..(l + 1) /\ DOMAIN c = 1..l
      BY <1>2, <2>2, LenProperties
    <3>2. ASSUME NEW a \in 1..(l + 1), NEW b \in 1..(l + 1), a < b
          PROVE  e[a] < e[b]
      <4>1. a \in 1..l /\ e[a] = c[a]
        BY <1>1, <2>2, <3>2
      <4>2. CASE b = l + 1
        BY <1>1, <1>3, <2>2, <4>1, <4>2
      <4>3. CASE b # l + 1
        <5>1. b \in 1..l /\ e[b] = c[b]
          BY <1>1, <2>2, <4>3
        <5> QED  BY <1>2, <3>1, <3>2, <4>1, <5>1 DEF Rises
      <4> QED  BY <4>2, <4>3
    <3> QED  BY <3>1, <3>2 DEF Rises
  <2>4. Found(text, d, n) = {e[p] : p \in 1..Len(e)}
    <3>1. Found(text, d, n) = Found(text, d, n - 1) \cup {n}
      BY <1>1, <1>4 DEF Found
    <3>2. {e[p] : p \in 1..(l + 1)} = {c[p] : p \in 1..l} \cup {n}
      <4>1. \A p \in 1..(l + 1) : p \in 1..l \/ p = l + 1
        BY <1>1
      <4>2. l + 1 \in 1..(l + 1) /\ \A p \in 1..l : p \in 1..(l + 1)
        BY <1>1
      <4> QED  BY <2>2, <4>1, <4>2
    <3> QED  BY <1>2, <2>2, <3>1, <3>2
  <2>5. ASSUME NEW p \in 1..(Len(gs) - 1)
        PROVE  gs[p] = SubSeq(text, e[p] + 1, e[p + 1] - 1)
    <3>1. p \in 1..l
      BY <1>1, <2>1
    <3>2. CASE p = l
      BY <1>1, <1>2, <2>1, <2>2, <3>1, <3>2
    <3>3. CASE p # l
      <4>1. p \in 1..(l - 1) /\ p + 1 \in 1..l
        BY <1>1, <3>1, <3>3
      <4> QED  BY <1>2, <2>1, <2>2, <3>1, <4>1
    <3> QED  BY <3>2, <3>3
  <2>6. gs[Len(gs)] = SubSeq(text, e[Len(gs)] + 1, n)
    <3>1. SubSeq(text, n + 1, n) = <<>>
      BY <1>1, SubSeqEmpty
    <3> QED  BY <2>1, <2>2, <3>1
  <2>7. CutAt(e, gs, text, d, n)
    BY <2>1, <2>2, <2>3, <2>4, <2>5, <2>6 DEF CutAt
  <2> QED  BY <2>7 DEF gs
<1>5. CASE text[n] # d
  <2>1. /\ Len(gs) = l /\ gs[l] = Append(fs[l], text[n])
        /\ \A p \in 1..(l - 1) : gs[p] = fs[p]
    BY <1>1, <1>5, NextFieldsType
  <2> HIDE DEF gs
  <2>2. Found(text, d, n) = Found(text, d, n - 1)
    BY <1>1, <1>5 DEF Found
  <2>3. gs[l] = SubSeq(text, c[l] + 1, n)
    <3> DEFINE m == c[l] + 1
    <3>1. m \in 1..n /\ m \in Nat
      <4>1. l \in 1..l
        BY <1>1
      <4> QED  BY <1>1, <1>3, <4>1
    <3>2. \A q \in m..n : text[q] \in Tokens
      <4>1. \A q \in m..n : q \in 1..Len(text)
        BY <1>1, <3>1
      <4> QED  BY <4>1, ElementOfSeq
    <3> DEFINE s == SubSeq(text, m, n - 1)
               t == SubSeq(text, m, n)
    <3> HIDE DEF m
    <3>3. s \in Seq(Tokens) /\ Len(s) = n - m /\ \A q \in 1..(n - m) : s[q] = text[m + q - 1]
      <4>1. m \in Int /\ n - 1 \in Int /\ \A q \in m..(n - 1) : text[q] \in Tokens
        BY <1>1, <3>1, <3>2
      <4>2. /\ s \in Seq(Tokens) /\ Len(s) = (IF m <= n - 1 THEN n - 1 - m + 1 ELSE 0)
            /\ \A q \in 1..(n - 1 - m + 1) : s[q] = text[m + q - 1]
        BY <4>1, SubSeqProperties
      <4> QED  BY <1>1, <3>1, <4>2
    <3>4. t \in Seq(Tokens) /\ Len(t) = n - m + 1 /\ \A q \in 1..(n - m + 1) : t[q] = text[m + q - 1]
      <4>1. m \in Int /\ n \in Int
        BY <1>1, <3>1
      <4>2. /\ t \in Seq(Tokens) /\ Len(t) = (IF m <= n THEN n - m + 1 ELSE 0)
            /\ \A q \in 1..(n - m + 1) : t[q] = text[m + q - 1]
        BY <3>2, <4>1, SubSeqProperties
      <4> QED  BY <1>1, <3>1, <4>2
    <3> HIDE DEF s, t
    <3>5. Append(s, text[n]) = t
      <4>1. /\ Append(s, text[n]) \in Seq(Tokens) /\ Len(Append(s, text[n])) = n - m + 1
            /\ \A q \in 1..(n - m) : Append(s, text[n])[q] = s[q]
            /\ Append(s, text[n])[n - m + 1] = text[n]
        BY <1>1, <3>1, <3>3, AppendProperties
      <4>2. ASSUME NEW q \in 1..(n - m + 1)
            PROVE  Append(s, text[n])[q] = t[q]
        <5>1. CASE q = n - m + 1
          <6>1. m + q - 1 = n
            BY <1>1, <3>1, <5>1
          <6>2. Append(s, text[n])[q] = text[n]
            BY <4>1, <5>1
          <6> QED  BY <3>4, <6>1, <6>2
        <5>2. CASE q # n - m + 1
          <6>1. q \in 1..(n - m)
            BY <1>1, <3>1, <5>2
          <6> QED  BY <3>3, <3>4, <4>1, <6>1
        <5> QED  BY <5>1, <5>2
      <4> QED  BY <3>4, <4>1, <4>2, SeqEqual
    <3>6. fs[l] = s
      BY <1>2 DEF s, m
    <3> QED  BY <2>1, <3>5, <3>6 DEF t, m
  <2>4. CutAt(c, gs, text, d, n)
    BY <1>2, <2>1, <2>2, <2>3 DEF CutAt
  <2> QED  BY <2>4 DEF gs
<1> QED  BY <1>4, <1>5

LEMMA SplitCuts ==
  ASSUME NEW text \in Seq(Tokens), NEW d, text # <<>>
  PROVE  /\ str_split_func(text, d) \in SomeFields
         /\ \E c : CutAt(c, str_split_func(text, d), text, d, Len(text))
<1> DEFINE N == Len(text)
           F == CHOOSE f : f = [n \in 0..N |-> IF n = 0 THEN << <<>> >>
                                               ELSE IF text[n] = d THEN Append(f[n - 1], <<>>)
                                               ELSE [f[n - 1] EXCEPT ![Len(f[n - 1])] = Append(@, text[n])]]
<1>1. N \in Nat /\ \A n \in 1..N : text[n] \in Tokens
  BY LenProperties, ElementOfSeq
<1>2. PICK f \in [0..N -> SomeFields] : Splits(f, text, d, N)
  <2>1. N \in 0..Len(text)
    BY <1>1
  <2> QED  BY <2>1, SplitsExists
<1>3. f = [n \in 0..N |-> IF n = 0 THEN << <<>> >>
                          ELSE IF text[n] = d THEN Append(f[n - 1], <<>>)
                          ELSE [f[n - 1] EXCEPT ![Len(f[n - 1])] = Append(@, text[n])]]
  BY <1>2 DEF Splits, NextFields
<1>4. F = [n \in 0..N |-> IF n = 0 THEN << <<>> >>
                          ELSE IF text[n] = d THEN Append(F[n - 1], <<>>)
                          ELSE [F[n - 1] EXCEPT ![Len(F[n - 1])] = Append(@, text[n])]]
  BY <1>3
<1>5. str_split_func(text, d) = F[N]
  BY DEF str_split_func
<1> HIDE DEF F
<1>6. Splits(F, text, d, N)
  BY <1>4 DEF Splits, NextFields
<1> DEFINE Good(n) == F[n] \in SomeFields /\ \E c : CutAt(c, F[n], text, d, n)
           T == {n \in 0..N : ~Good(n)}
<1>7. Good(0)
  <2>1. F[0] = << <<>> >>
    BY <1>1, <1>6 DEF Splits
  <2>2. << <<>> >> \in SomeFields
    <3>1. <<>> \in Seq(Tokens)
      BY EmptySeq
    <3> QED  BY <3>1 DEF SomeFields
  <2>3. CutAt(<<0>>, << <<>> >>, text, d, 0)
    <3>1. SubSeq(text, 1, 0) = <<>>
      BY SubSeqEmpty
    <3>2. <<0>> \in Seq(Nat) /\ Len(<<0>>) = 1 /\ <<0>>[1] = 0 /\ DOMAIN <<0>> = 1..1
      OBVIOUS
    <3>3. Found(text, d, 0) = {<<0>>[p] : p \in 1..Len(<<0>>)}
      BY DEF Found
    <3>4. Rises(<<0>>)
      BY DEF Rises
    <3> QED  BY <3>1, <3>2, <3>3, <3>4 DEF CutAt
  <2> QED  BY <2>1, <2>2, <2>3
<1>8. ASSUME T # {}
      PROVE  FALSE
  <2> HIDE DEF Good
  <2>1. PICK n \in T : \A m \in T : n <= m
    <3>1. T \in SUBSET Nat
      OBVIOUS
    <3> QED  BY <1>8, <3>1, LeastNatural
  <2>2. n \in 1..N /\ n - 1 \in 0..N
    <3>1. n \in 0..N /\ n # 0
      BY <1>7, <2>1
    <3> QED  BY <1>1, <3>1
  <2>3. Good(n - 1)
    <3>1. n - 1 \notin T
      <4>1. ~(n <= n - 1)
        BY <2>2
      <4> QED  BY <2>1, <4>1
    <3> QED  BY <2>2, <3>1
  <2>4. F[n] = NextFields(F[n - 1], text[n], d)
    BY <1>6, <2>2 DEF Splits
  <2>5. Good(n)
    <3> USE DEF Good
    <3>1. PICK c : CutAt(c, F[n - 1], text, d, n - 1)
      BY <2>3
    <3>2. F[n - 1] \in SomeFields /\ text[n] \in Tokens
      BY <1>1, <2>2, <2>3
    <3>3. \E e : CutAt(e, NextFields(F[n - 1], text[n], d), text, d, n)
      BY <2>2, <3>1, <3>2, CutMoves
    <3>4. NextFields(F[n - 1], text[n], d) \in SomeFields
      BY <3>2, NextFieldsType
    <3> QED  BY <2>4, <3>3, <3>4
  <2> QED  BY <2>1, <2>5
<1>9. Good(N)
  <2>1. N \in 0..N
    BY <1>1
  <2> QED  BY <1>8, <2>1
<1> QED  BY <1>5, <1>9

(***************************************************************************)
(* A rising sequence is its set of elements in order.                      *)
(***************************************************************************)
LEMMA RisingCount ==
  ASSUME NEW c \in Seq(Nat), Rises(c), NEW m \in 0..Len(c)
  PROVE  Cardinality({c[p] : p \in 1..m}) = m
<1> DEFINE S == {c[p] : p \in 1..m}
           f == [p \in 1..m |-> c[p]]
<1>1. Len(c) \in Nat /\ DOMAIN c = 1..Len(c) /\ \A p \in 1..Len(c) : c[p] \in Nat
  BY LenProperties, ElementOfSeq
<1>2. f \in Bijection(1..m, S)
  <2>1. \A a, b \in 1..m : f[a] = f[b] => a = b
    <3> SUFFICES ASSUME NEW a \in 1..m, NEW b \in 1..m, f[a] = f[b]
                 PROVE  a = b
      OBVIOUS
    <3>1. a \in 1..Len(c) /\ b \in 1..Len(c) /\ c[a] = c[b]
      BY <1>1
    <3>2. a < b => c[a] < c[b]
      BY <1>1, <3>1 DEF Rises
    <3>3. b < a => c[b] < c[a]
      BY <1>1, <3>1 DEF Rises
    <3> QED  BY <1>1, <3>1, <3>2, <3>3
  <2> QED  BY <2>1 DEF Bijection, Injection, Surjection, IsInjective
<1>3. m \in Nat
  BY <1>1
<1> HIDE DEF S, f
<1>4. Cardinality(S) = m
  BY <1>2, <1>3, FS_CountingElements DEF ExistsBijection
<1> QED  BY <1>4 DEF S

LEMMA RisingIsInOrder ==
  ASSUME NEW c \in Seq(Nat), Rises(c)
  PROVE  InOrder({c[p] : p \in 1..Len(c)}) = c
<1> DEFINE S == {c[p] : p \in 1..Len(c)}
           n == Len(c)
<1>1. n \in Nat /\ DOMAIN c = 1..n /\ c \in [1..n -> Nat] /\ \A p \in 1..n : c[p] \in Nat
  BY LenProperties, ElementOfSeq
<1>2. Cardinality(S) = n
  <2>1. n \in 0..Len(c)
    BY <1>1
  <2> QED  BY <2>1, RisingCount
<1>3. ASSUME NEW p \in 1..n
      PROVE  Cardinality({x \in S : x < c[p]}) = p - 1
  <2>1. {x \in S : x < c[p]} = {c[q] : q \in 1..(p - 1)}
    <3>1. ASSUME NEW q \in 1..n
          PROVE  c[q] < c[p] <=> q \in 1..(p - 1)
      <4>1. (q < p => c[q] < c[p]) /\ (p < q => c[p] < c[q])
        BY <1>1 DEF Rises
      <4> QED  BY <1>1, <4>1
    <3>2. \A q \in 1..(p - 1) : q \in 1..n
      BY <1>1
    <3> QED  BY <3>1, <3>2
  <2>2. p - 1 \in 0..Len(c)
    BY <1>1
  <2>3. Cardinality({c[q] : q \in 1..(p - 1)}) = p - 1
    <3> DEFINE m == p - 1
    <3>1. m \in 0..Len(c)
      BY <2>2
    <3> HIDE DEF m
    <3>2. Cardinality({c[q] : q \in 1..m}) = m
      BY <3>1, RisingCount
    <3> QED  BY <3>2 DEF m
  <2> QED  BY <2>1, <2>3
<1>4. ASSUME NEW p \in 1..n
      PROVE  (CHOOSE m \in S : Cardinality({x \in S : x < m}) = p - 1) = c[p]
  <2> DEFINE z == CHOOSE m \in S : Cardinality({x \in S : x < m}) = p - 1
  <2>1. c[p] \in S /\ Cardinality({x \in S : x < c[p]}) = p - 1
    BY <1>3
  <2>2. z \in S /\ Cardinality({x \in S : x < z}) = p - 1
    BY <2>1
  <2> HIDE DEF z
  <2>3. PICK q \in 1..n : z = c[q]
    BY <2>2
  <2>4. q - 1 = p - 1
    BY <1>3, <2>2, <2>3
  <2>5. q = p
    BY <1>1, <2>4
  <2> QED  BY <2>3, <2>5 DEF z
<1> HIDE DEF S
<1>5. InOrder(S) = [p \in 1..n |-> c[p]]
  BY <1>2, <1>4 DEF InOrder
<1>6. c = [p \in 1..n |-> c[p]]
  BY <1>1
<1> QED  BY <1>5, <1>6 DEF S

InText(fs, text) == \A p \in 1..Len(fs) : \A q \in 1..Len(fs[p]) : \E r \in 1..Len(text) : fs[p][q] = text[r]

\* str_split_func returns the fields between the delimiters; what is in a field is in the text.
LEMMA SplitIsFields ==
  ASSUME NEW text \in Seq(Tokens), NEW d
  PROVE  /\ str_split_func(text, d) = Fields(text, d)
         /\ Fields(text, d) \in Seq(Seq(Tokens))
         /\ Fields(text, d) = <<>> <=> text = <<>>
         /\ InText(Fields(text, d), text)
<1>1. CASE text = <<>>
  <2>1. str_split_func(text, d) = <<>> /\ Fields(text, d) = <<>>
    BY <1>1 DEF str_split_func, Fields
  <2>2. <<>> \in Seq(Seq(Tokens)) /\ Len(<<>>) = 0
    BY EmptySeq
  <2>3. \A p \in 1..Len(<<>>) : FALSE
    BY <2>2
  <2> QED  BY <1>1, <2>1, <2>2, <2>3 DEF InText
<1>2. CASE text # <<>>
  <2> DEFINE fs == str_split_func(text, d)
             N == Len(text)
  <2>1. fs \in SomeFields
    BY <1>2, SplitCuts
  <2>2. PICK c : CutAt(c, fs, text, d, N)
    BY <1>2, SplitCuts
  <2> HIDE DEF fs
  <2> DEFINE l == Len(fs)
             e == Append(c, N + 1)
  <2>3. N \in Nat /\ l \in Nat \ {0} /\ fs \in Seq(Seq(Tokens)) /\ fs # <<>> /\ DOMAIN fs = 1..l
    BY <2>1, EmptySeq, LenProperties DEF SomeFields
  <2>4. /\ c \in Seq(Nat) /\ Len(c) = l /\ Rises(c) /\ DOMAIN c = 1..l
        /\ Found(text, d, N) = {c[p] : p \in 1..l}
        /\ \A p \in 1..(l - 1) : fs[p] = SubSeq(text, c[p] + 1, c[p + 1] - 1)
        /\ fs[l] = SubSeq(text, c[l] + 1, N)
    BY <2>2, <2>3, LenProperties DEF CutAt
  <2>5. \A p \in 1..l : c[p] \in 0..N
    <3>1. Found(text, d, N) \subseteq 0..N
      BY <2>3 DEF Found
    <3> QED  BY <2>4, <3>1
  <2>6. /\ e \in Seq(Nat) /\ Len(e) = l + 1 /\ e[l + 1] = N + 1
        /\ \A p \in 1..l : e[p] = c[p]
    BY <2>3, <2>4, AppendProperties
  <2>7. DOMAIN e = 1..(l + 1)
    BY <2>6, LenProperties
  <2> HIDE DEF e, l
  <2>8. Rises(e)
    <3>1. ASSUME NEW a \in 1..(l + 1), NEW b \in 1..(l + 1), a < b
          PROVE  e[a] < e[b]
      <4>1. a \in 1..l /\ e[a] = c[a]
        BY <2>3, <2>6, <3>1
      <4>2. CASE b = l + 1
        BY <2>3, <2>5, <2>6, <4>1, <4>2
      <4>3. CASE b # l + 1
        <5>1. b \in 1..l /\ e[b] = c[b]
          BY <2>3, <2>6, <4>3
        <5> QED  BY <2>4, <3>1, <4>1, <5>1 DEF Rises
      <4> QED  BY <4>2, <4>3
    <3> QED  BY <2>7, <3>1 DEF Rises
  <2>9. Cuts(text, d) = {e[p] : p \in 1..Len(e)}
    <3>1. Cuts(text, d) = Found(text, d, N) \cup {N + 1}
      BY DEF Cuts, Found
    <3>2. {e[p] : p \in 1..(l + 1)} = {c[p] : p \in 1..l} \cup {N + 1}
      <4>1. \A p \in 1..(l + 1) : p \in 1..l \/ p = l + 1
        BY <2>3
      <4>2. l + 1 \in 1..(l + 1) /\ \A p \in 1..l : p \in 1..(l + 1)
        BY <2>3
      <4> QED  BY <2>6, <4>1, <4>2
    <3> QED  BY <2>4, <2>6, <3>1, <3>2
  <2>10. InOrder(Cuts(text, d)) = e
    BY <2>6, <2>8, <2>9, RisingIsInOrder
  <2>11. Fields(text, d) = [p \in 1..l |-> SubSeq(text, e[p] + 1, e[p + 1] - 1)]
    <3>1. Len(e) - 1 = l
      BY <2>3, <2>6
    <3> QED  BY <1>2, <2>10, <3>1 DEF Fields
  <2>12. ASSUME NEW p \in 1..l
         PROVE  fs[p] = SubSeq(text, e[p] + 1, e[p + 1] - 1)
    <3>1. CASE p = l
      <4>1. e[p + 1] - 1 = N
        BY <2>3, <2>6, <3>1
      <4> QED  BY <2>4, <2>6, <3>1, <4>1
    <3>2. CASE p # l
      <4>1. p \in 1..(l - 1) /\ p + 1 \in 1..l
        BY <2>3, <3>2
      <4> QED  BY <2>4, <2>6, <4>1
    <3> QED  BY <3>1, <3>2
  <2>13. fs = Fields(text, d)
    <3>1. fs = [p \in 1..l |-> fs[p]]
      BY <2>3, LenProperties DEF l
    <3> QED  BY <2>11, <2>12, <3>1
  <2>14. ASSUME NEW p \in 1..Len(fs), NEW q \in 1..Len(fs[p])
         PROVE  \E r \in 1..Len(text) : fs[p][q] = text[r]
    <3> DEFINE a == e[p] + 1
               b == e[p + 1] - 1
    <3>1. p \in 1..l /\ fs[p] = SubSeq(text, a, b)
      BY <2>12 DEF l
    <3>2. a \in 1..(N + 1) /\ b \in 0..N /\ a \in Int /\ b \in Int
      <4>1. e[p] \in 0..N
        BY <2>5, <2>6, <3>1
      <4>2. e[p + 1] \in 1..(N + 1)
        <5>1. p + 1 \in 1..(l + 1) /\ p < p + 1 /\ p \in 1..(l + 1)
          BY <2>3, <3>1
        <5>2. e[p] < e[p + 1] /\ e[p + 1] \in Nat
          BY <2>6, <2>7, <2>8, <5>1, ElementOfSeq DEF Rises
        <5>3. CASE p = l
          BY <2>3, <2>6, <5>3
        <5>4. CASE p # l
          <6>1. p + 1 \in 1..l
            BY <2>3, <3>1, <5>4
          <6>2. e[p + 1] = c[p + 1] /\ c[p + 1] \in 0..N
            BY <2>5, <2>6, <6>1
          <6>3. \A x, y \in 0..N : x < y => y \in 1..(N + 1)
            BY <2>3
          <6> QED  BY <4>1, <5>2, <6>2, <6>3
        <5> QED  BY <5>3, <5>4
      <4>3. \A x \in 0..N : x + 1 \in 1..(N + 1) /\ x + 1 \in Int
        BY <2>3
      <4>4. \A x \in 1..(N + 1) : x - 1 \in 0..N /\ x - 1 \in Int
        BY <2>3
      <4> QED  BY <4>1, <4>2, <4>3, <4>4
    <3> HIDE DEF a, b
    <3>3. \A r \in a..b : r \in 1..Len(text) /\ text[r] \in Tokens
      <4>1. \A r \in a..b : r \in 1..Len(text)
        BY <2>3, <3>2
      <4> QED  BY <4>1, ElementOfSeq
    <3>4. /\ Len(SubSeq(text, a, b)) = IF a <= b THEN b - a + 1 ELSE 0
          /\ \A r \in 1..(b - a + 1) : SubSeq(text, a, b)[r] = text[a + r - 1]
      BY <3>2, <3>3, SubSeqProperties
    <3>5. q \in 1..(b - a + 1)
      BY <3>1, <3>2, <3>4
    <3>6. a + q - 1 \in a..b
      BY <3>2, <3>5
    <3> QED  BY <3>1, <3>3, <3>4, <3>5, <3>6
  <2>15. InText(fs, text)
    BY <2>14 DEF InText
  <2> QED  BY <1>2, <2>3, <2>13, <2>15 DEF fs
<1> QED  BY <1>1, <1>2

-----------------------------------------------------------------------------
(***************************************************************************)
(* The reader of the server groups.  While it is at work the groups it has *)
(* made are those of the texts, and a regular text has not led it out of   *)
(* its arrays.                                                             *)
(***************************************************************************)
Busy == pc \in {"prime", "back", "done"}
TextsSplit == spg = Fields(primer, "|") /\ sbg = Fields(back, "|") /\ spg # <<>> /\ SameGroups(spg, sbg)
Place ==
  /\ pc = "prime" => i \in 1..Len(spg) /\ Len(head) = i - 1
  /\ pc = "back" => i \in 1..Len(spg) /\ Len(head) = i /\ sbg # <<>> /\ head[i].back = <<>>
  /\ pc = "done" => Len(head) = Len(spg)
PrimesRead == \A g \in 1..Len(head) : head[g].prime # <<>> /\ Named(head[g].prime) = Fields(spg[g], ",")
BacksRead ==
  Regular => \A g \in 1..Len(head) : (pc = "back" /\ g = i) \/ Named(head[g].back) = Fields(sbg[g], ",")

ReaderOK ==
  /\ TypeOK /\ primer \in Seq(Tokens) /\ back \in Seq(Tokens) /\ known \subseteq Servers
  /\ pc = "split" => i = 1 /\ head = <<>>
  /\ Busy => TextsSplit /\ Place /\ PrimesRead /\ BacksRead
  /\ wild => ~Regular

LEMMA FunIsSeq ==
  ASSUME NEW S, NEW n \in Nat, NEW f \in [1..n -> S]
  PROVE  f \in Seq(S) /\ Len(f) = n
OBVIOUS

LEMMA UpTo ==
  ASSUME NEW n \in Nat \ {0}
  PROVE  \A g \in 1..n : g \in 1..(n - 1) \/ g = n
OBVIOUS

LEMMA Within ==
  ASSUME NEW n \in Nat, NEW m \in Nat, n <= m
  PROVE  \A j \in 1..n : j \in 1..m /\ j <= n /\ j <= m
OBVIOUS

LEMMA NextGroupIs ==
  ASSUME NextGroup, i \in 1..Len(spg), Len(spg) \in Nat
  PROVE  /\ pc' \in {"prime", "done"} /\ i' \in Nat \ {0}
         /\ pc' = "prime" => i' \in 1..Len(spg) /\ i = i' - 1
         /\ pc' = "done" => i = Len(spg)
BY DEF NextGroup

LEMMA ServerOfFieldIs ==
  ASSUME known \subseteq Servers, NEW field
  PROVE  /\ ServerOfField(field) \in known \cup {NoServer}
         /\ ServerOfField(field) # NoServer => ServerOfField(field) \in Servers /\ field = <<ServerOfField(field)>>
BY DEF ServerOfField

\* The servers of a group that was accepted are the fields of its text.
LEMMA NamedFields ==
  ASSUME known \subseteq Servers, NEW sp \in Seq(Seq(Tokens)), NEW f \in Seq(Servers \cup {NoServer}),
         Len(f) = Len(sp),
         \A j \in 1..Len(sp) : f[j] = ServerOfField(sp[j]) /\ f[j] # NoServer
  PROVE  Named(f) = sp
<1>1. Len(sp) \in Nat /\ sp \in [1..Len(sp) -> Seq(Tokens)]
  BY LenProperties
<1>2. \A j \in 1..Len(sp) : <<f[j]>> = sp[j]
  BY ServerOfFieldIs
<1>3. Named(f) = [j \in 1..Len(sp) |-> <<f[j]>>]
  BY DEF Named
<1>4. sp = [j \in 1..Len(sp) |-> sp[j]]
  BY <1>1
<1> QED  BY <1>2, <1>3, <1>4

LEMMA SplitGroupsStep ==
  ASSUME ReaderOK, SplitGroups, UNCHANGED known
  PROVE  ReaderOK'
<1>1. spg' = Fields(primer, "|") /\ spg' \in Seq(Seq(Tokens))
  BY SplitIsFields DEF ReaderOK, SplitGroups
<1>2. sbg' = Fields(back, "|") /\ sbg' \in Seq(Seq(Tokens))
  BY SplitIsFields DEF ReaderOK, SplitGroups
<1>3. UNCHANGED <<primer, back, wild, known>> /\ Regular' = Regular
  BY DEF SplitGroups, Regular, Groups, Sizes
<1>4. CASE pc' = "error" /\ UNCHANGED <<i, head>>
  BY <1>1, <1>2, <1>3, <1>4 DEF ReaderOK, TypeOK, Busy
<1>5. CASE pc' = "prime" /\ UNCHANGED <<i, head>> /\ spg' # <<>> /\ SameGroups(spg', sbg')
  <2>1. i' = 1 /\ head' = <<>> /\ Len(head') = 0
    BY <1>5 DEF SplitGroups, ReaderOK
  <2>2. TypeOK'
    BY <1>1, <1>2, <1>3, <1>5 DEF ReaderOK, TypeOK
  <2>3. TextsSplit'
    BY <1>1, <1>2, <1>3, <1>5 DEF TextsSplit
  <2>4. Len(spg') \in Nat \ {0}
    BY <1>1, <1>5, EmptySeq
  <2>5. Place'
    BY <1>5, <2>1, <2>4 DEF Place
  <2>6. PrimesRead' /\ BacksRead'
    BY <2>1 DEF PrimesRead, BacksRead
  <2> QED  BY <1>3, <1>5, <2>2, <2>3, <2>5, <2>6 DEF ReaderOK
<1> QED  BY <1>4, <1>5 DEF SplitGroups, Error

ServerGroup == [prime : Seq(Servers), slots : Nat, back : Seq(Servers \cup {NoServer})]

\* A group is complete, and the next one is read.
LEMMA GroupRead ==
  ASSUME ReaderOK, UNCHANGED <<primer, back, spg, sbg, known>>, NextGroup,
         Busy, TextsSplit, i \in 1..Len(spg), head' \in Seq(ServerGroup), Len(head') = i,
         \A g \in 1..(i - 1) : head'[g] = head[g] /\ (Regular => Named(head[g].back) = Fields(sbg[g], ",")),
         PrimesRead', Regular => Named(head'[i].back) = Fields(sbg[i], ","),
         wild' \in BOOLEAN, wild' => ~Regular
  PROVE  ReaderOK'
<1>1. Regular' = Regular /\ TextsSplit'
  BY DEF Regular, Groups, Sizes, TextsSplit
<1>2. spg \in Seq(Seq(Tokens)) /\ Len(spg) \in Nat /\ i \in Nat \ {0}
  BY LenProperties DEF ReaderOK, TypeOK
<1>3. /\ pc' \in {"prime", "done"} /\ i' \in Nat \ {0}
      /\ pc' = "prime" => i' \in 1..Len(spg) /\ i = i' - 1
      /\ pc' = "done" => i = Len(spg)
  BY <1>2, NextGroupIs
<1>4. TypeOK'
  BY <1>3 DEF ReaderOK, TypeOK, ServerGroup
<1>5. Place'
  BY <1>3 DEF Place
<1>6. BacksRead'
  <2>1. \A g \in 1..i : g \in 1..(i - 1) \/ g = i
    BY <1>2, UpTo
  <2>2. ASSUME Regular, NEW g \in 1..i
        PROVE  Named(head'[g].back) = Fields(sbg[g], ",")
    BY <2>1, <2>2
  <2> QED  BY <1>1, <2>2 DEF BacksRead
<1> QED  BY <1>1, <1>3, <1>4, <1>5, <1>6 DEF ReaderOK

LEMMA FillPrimeStep ==
  ASSUME ReaderOK, FillPrime, UNCHANGED known
  PROVE  ReaderOK'
<1> DEFINE sp == str_split_func(spg[i], ",")
           f == [j \in 1..Len(sp) |-> ServerOfField(sp[j])]
           h == [prime |-> f, slots |-> 0, back |-> <<>>]
<1>1. /\ pc = "prime" /\ TextsSplit /\ i \in 1..Len(spg) /\ Len(head) = i - 1 /\ PrimesRead /\ BacksRead
      /\ head \in Seq(ServerGroup) /\ spg \in Seq(Seq(Tokens)) /\ known \subseteq Servers /\ i \in Nat \ {0}
      /\ back \in Seq(Tokens)
  BY DEF ReaderOK, FillPrime, Busy, Place, TypeOK, ServerGroup
<1>2. sp = Fields(spg[i], ",") /\ sp \in Seq(Seq(Tokens)) /\ Len(sp) \in Nat
  <2>1. spg[i] \in Seq(Tokens)
    BY <1>1, ElementOfSeq
  <2>2. sp = Fields(spg[i], ",") /\ sp \in Seq(Seq(Tokens))
    BY <2>1, SplitIsFields
  <2> HIDE DEF sp
  <2> QED  BY <2>2, LenProperties
<1>3. UNCHANGED <<primer, back, spg, sbg, wild, known>> /\ Regular' = Regular
  BY DEF FillPrime, Regular, Groups, Sizes
<1>4. CASE Error
  BY <1>3, <1>4 DEF Error, ReaderOK, TypeOK, Busy
<1>5. CASE /\ sp # <<>> /\ \A j \in 1..Len(sp) : ServerOfField(sp[j]) # NoServer
           /\ head' = Append(head, h)
           /\ IF sbg = <<>> THEN NextGroup ELSE pc' = "back" /\ UNCHANGED i
  <2> HIDE DEF sp
  <2>1. f \in Seq(Servers) /\ Len(f) = Len(sp) /\ \A j \in 1..Len(sp) : f[j] = ServerOfField(sp[j]) /\ f[j] # NoServer
    <3>1. \A j \in 1..Len(sp) : ServerOfField(sp[j]) \in Servers
      BY <1>1, <1>5, ServerOfFieldIs
    <3>2. f \in [1..Len(sp) -> Servers]
      BY <3>1
    <3>3. \A j \in 1..Len(sp) : f[j] = ServerOfField(sp[j])
      OBVIOUS
    <3> HIDE DEF f
    <3>4. f \in Seq(Servers) /\ Len(f) = Len(sp)
      BY <1>2, <3>2, FunIsSeq
    <3>5. \A j \in 1..Len(sp) : f[j] # NoServer
      BY <1>5, <3>3
    <3> QED  BY <3>3, <3>4, <3>5
  <2> HIDE DEF f
  <2>2. f # <<>> /\ Named(f) = sp
    <3>1. Len(sp) # 0
      BY <1>2, <1>5, EmptySeq
    <3>2. f \in Seq(Servers \cup {NoServer})
      BY <2>1, SeqMonotonic
    <3> QED  BY <1>1, <1>2, <2>1, <3>1, <3>2, NamedFields
  <2>3. h \in ServerGroup /\ h.prime = f /\ h.back = <<>>
    <3>1. <<>> \in Seq(Servers \cup {NoServer})
      BY EmptySeq
    <3> QED  BY <2>1, <3>1 DEF ServerGroup
  <2> HIDE DEF h
  <2>4. /\ head' \in Seq(ServerGroup) /\ Len(head') = i /\ head'[i] = h
        /\ \A g \in 1..(i - 1) : head'[g] = head[g]
    <3>1. /\ head' \in Seq(ServerGroup) /\ Len(head') = Len(head) + 1 /\ head'[Len(head) + 1] = h
          /\ \A g \in 1..Len(head) : head'[g] = head[g]
      BY <1>1, <1>5, <2>3, AppendProperties
    <3>2. Len(head) + 1 = i
      BY <1>1
    <3> QED  BY <1>1, <3>1, <3>2
  <2>5. \A g \in 1..i : g \in 1..(i - 1) \/ g = i
    BY <1>1
  <2>6. PrimesRead'
    <3>1. ASSUME NEW g \in 1..i
          PROVE  head'[g].prime # <<>> /\ Named(head'[g].prime) = Fields(spg[g], ",")
      <4>1. CASE g = i
        BY <1>2, <2>2, <2>3, <2>4, <4>1
      <4>2. CASE g \in 1..(i - 1)
        BY <1>1, <2>4, <4>2 DEF PrimesRead
      <4> QED  BY <2>5, <4>1, <4>2
    <3> QED  BY <1>3, <2>4, <3>1 DEF PrimesRead
  <2>7. ASSUME Regular, NEW g \in 1..(i - 1)
        PROVE  Named(head[g].back) = Fields(sbg[g], ",")
    BY <1>1, <2>7 DEF BacksRead
  <2>8. CASE sbg = <<>>
    <3>1. ~Regular
      <4>1. back = <<>>
        BY <1>1, <2>8, SplitIsFields DEF TextsSplit
      <4> QED  BY <4>1 DEF Regular
    <3>2. NextGroup /\ Busy /\ wild' \in BOOLEAN
      BY <1>1, <1>3, <1>5, <2>8 DEF Busy, ReaderOK, TypeOK
    <3> QED  BY <1>1, <1>3, <2>4, <2>6, <3>1, <3>2, GroupRead
  <2>9. CASE sbg # <<>>
    <3>1. pc' = "back" /\ i' = i
      BY <1>5, <2>9
    <3>2. TypeOK'
      BY <1>1, <1>3, <2>4, <3>1 DEF ReaderOK, TypeOK, ServerGroup
    <3>3. TextsSplit'
      BY <1>1, <1>3 DEF TextsSplit
    <3>4. Place'
      BY <1>1, <1>3, <2>3, <2>4, <2>9, <3>1 DEF Place
    <3>5. BacksRead'
      <4>1. ASSUME Regular, NEW g \in 1..i
            PROVE  g = i \/ Named(head'[g].back) = Fields(sbg[g], ",")
        BY <2>4, <2>5, <2>7, <4>1
      <4> QED  BY <1>3, <2>4, <3>1, <4>1 DEF BacksRead
    <3> QED  BY <1>3, <2>6, <3>1, <3>2, <3>3, <3>4, <3>5 DEF ReaderOK
  <2> QED  BY <2>8, <2>9
<1> QED  BY <1>4, <1>5 DEF FillPrime

LEMMA FillBackStep ==
  ASSUME ReaderOK, FillBack, UNCHANGED known
  PROVE  ReaderOK'
<1> DEFINE sb == str_split_func(sbg[i], ",")
           n == Len(head[i].prime)
           inside(j) == j <= Len(sbg) /\ (IsDash(j) \/ j <= Len(sb))
           past == \E j \in 1..n : ~inside(j)
           unknown == \E j \in 1..n : inside(j) /\ ~IsDash(j) /\ Slot(sb, j) = NoServer
<1>1. /\ pc = "back" /\ TextsSplit /\ i \in 1..Len(spg) /\ Len(head) = i /\ PrimesRead /\ BacksRead
      /\ head \in Seq(ServerGroup) /\ spg \in Seq(Seq(Tokens)) /\ sbg \in Seq(Seq(Tokens))
      /\ known \subseteq Servers /\ i \in Nat \ {0} /\ back \in Seq(Tokens) /\ sbg # <<>> /\ head[i].back = <<>>
      /\ Len(spg) \in Nat /\ wild \in BOOLEAN
  BY LenProperties DEF ReaderOK, FillBack, Busy, Place, TypeOK, ServerGroup
<1>2. Len(sbg) = Len(spg) /\ sbg[i] \in Seq(Tokens)
  <2>1. Len(sbg) # 0
    BY <1>1, EmptySeq
  <2>2. Len(sbg) = Len(spg)
    BY <1>1, <2>1 DEF TextsSplit, SameGroups
  <2> QED  BY <1>1, <2>2, ElementOfSeq
<1>3. sb = Fields(sbg[i], ",") /\ sb \in Seq(Seq(Tokens)) /\ Len(sb) \in Nat
  <2>1. sb = Fields(sbg[i], ",") /\ sb \in Seq(Seq(Tokens))
    BY <1>2, SplitIsFields
  <2> HIDE DEF sb
  <2> QED  BY <2>1, LenProperties
<1>4. head[i] \in ServerGroup /\ n \in Nat /\ Named(head[i].prime) = Fields(spg[i], ",")
  <2>1. head[i] \in ServerGroup /\ i \in 1..Len(head)
    BY <1>1, ElementOfSeq
  <2>2. head[i].prime \in Seq(Servers)
    BY <2>1 DEF ServerGroup
  <2> QED  BY <1>1, <2>1, <2>2, LenProperties DEF PrimesRead
<1>4a. n \in Nat
  BY <1>4
<1>5. UNCHANGED <<primer, back, spg, sbg, known>> /\ Regular' = Regular
  BY DEF FillBack, Regular, Groups, Sizes
<1>6. wild' = (wild \/ (sb # <<>> /\ (past \/ Len(sb) > n)))
  BY DEF FillBack
<1> HIDE DEF sb, n
<1>7. ASSUME Regular
      PROVE  /\ Len(sb) = n /\ n <= Len(sbg)
             /\ \A j \in 1..n : ~IsDash(j)
  <2>1. spg = Fields(primer, "|") /\ sbg = Fields(back, "|")
    BY <1>1 DEF TextsSplit
  <2>2. i \in 1..Groups(primer) /\ i \in 1..Groups(back) /\ Groups(primer) = Len(sbg)
    BY <1>1, <1>2, <2>1 DEF Groups
  <2>3. Sizes(primer)[i] = Len(Fields(spg[i], ",")) /\ Sizes(back)[i] = Len(sb)
    BY <1>3, <2>1, <2>2 DEF Sizes
  <2>4. Len(Fields(spg[i], ",")) = n
    <3> DEFINE x == head[i].prime
    <3>1. x \in Seq(Servers)
      BY <1>4 DEF ServerGroup
    <3>2. \A j \in 1..Len(x) : <<x[j]>> \in Seq(Servers)
      BY <3>1, ElementOfSeq
    <3> HIDE DEF x
    <3>3. Named(x) \in [1..Len(x) -> Seq(Servers)] /\ Len(x) \in Nat
      BY <3>1, <3>2, LenProperties DEF Named
    <3>4. Len(Named(x)) = Len(x)
      BY <3>3, FunIsSeq
    <3> QED  BY <1>4, <3>4 DEF x, n
  <2>5. Len(sb) = n /\ n <= Len(sbg)
    BY <1>7, <2>2, <2>3, <2>4 DEF Regular
  <2>6. ASSUME NEW j \in 1..n, IsDash(j)
        PROVE  FALSE
    <3>0. \A x \in 1..n : x \in 1..Len(sbg)
      BY <1>1, <1>2, <1>4a, <2>5, Within
    <3>1. j \in 1..Len(sbg) /\ sbg[j] # <<>> /\ sbg[j][1] = "-"
      BY <1>1, <1>2, <2>5, <2>6, <3>0 DEF IsDash
    <3>2. sbg[j] \in Seq(Tokens)
      BY <1>1, <3>1, ElementOfSeq
    <3>3. 1 \in 1..Len(sbg[j])
      BY <3>1, <3>2, EmptySeq
    <3>4. \E r \in 1..Len(back) : sbg[j][1] = back[r]
      <4>1. \A p \in 1..Len(sbg) : \A q \in 1..Len(sbg[p]) : \E r \in 1..Len(back) : sbg[p][q] = back[r]
        <5>1. back \in Seq(Tokens)
          BY <1>1
        <5>2. InText(sbg, back)
          BY <2>1, <5>1, SplitIsFields
        <5> QED  BY <5>2 DEF InText
      <4> QED  BY <3>1, <3>3, <4>1
    <3> QED  BY <1>7, <3>1, <3>4 DEF Regular, Contains
  <2> QED  BY <2>5, <2>6
<1>8. wild' \in BOOLEAN /\ (wild' => ~Regular)
  <2>1. Regular => ~past /\ ~(Len(sb) > n)
    <3>1. Len(sb) \in Nat /\ Len(sbg) \in Nat
      BY <1>1, <1>2, <1>3
    <3>2. Regular => \A j \in 1..n : j <= n /\ j <= Len(sbg)
      BY <1>4a, <1>7, <3>1, Within
    <3> QED  BY <1>4a, <1>7, <3>1, <3>2
  <2> HIDE DEF past
  <2>2. wild => ~Regular
    BY DEF ReaderOK
  <2> QED  BY <1>1, <1>6, <2>1, <2>2
<1>9. \A g \in 1..(i - 1) : Regular => Named(head[g].back) = Fields(sbg[g], ",")
  <2>1. \A g \in 1..(i - 1) : g \in 1..Len(head) /\ g # i
    BY <1>1
  <2> QED  BY <1>1, <2>1 DEF BacksRead
<1>10. CASE pc' \in {"crash", "error"} /\ UNCHANGED <<i, head>>
  BY <1>1, <1>5, <1>8, <1>10 DEF ReaderOK, TypeOK, Busy
<1>11. CASE sb = <<>> /\ head' = head /\ NextGroup
  <2>1. ASSUME Regular
        PROVE  Named(head'[i].back) = Fields(sbg[i], ",")
    <3>1. Named(<<>>) = <<>>
      BY DEF Named
    <3> QED  BY <1>1, <1>3, <1>11, <3>1
  <2>2. PrimesRead' /\ Busy
    BY <1>1, <1>5, <1>11 DEF PrimesRead, Busy
  <2> QED  BY <1>1, <1>5, <1>8, <1>9, <1>11, <2>1, <2>2, GroupRead
<1>12. ASSUME NEW f \in Seq(Servers \cup {NoServer}),
              head' = [head EXCEPT ![i].slots = n, ![i].back = f], NextGroup,
              Regular => Named(f) = Fields(sbg[i], ",")
       PROVE  ReaderOK'
  <2> DEFINE h == [head[i] EXCEPT !.slots = n, !.back = f]
  <2>1. head' = [head EXCEPT ![i] = h]
    BY <1>12
  <2>2. h \in ServerGroup /\ h.prime = head[i].prime /\ h.back = f
    BY <1>4, <1>4a, <1>12 DEF ServerGroup
  <2> HIDE DEF h
  <2>3. /\ head' \in Seq(ServerGroup) /\ Len(head') = i
        /\ \A g \in 1..i : head'[g] = IF g = i THEN h ELSE head[g]
    <3>1. i \in 1..Len(head)
      BY <1>1
    <3> QED  BY <1>1, <2>1, <2>2, <3>1, ExceptSeq
  <2>4. PrimesRead'
    <3>1. ASSUME NEW g \in 1..i
          PROVE  head'[g].prime = head[g].prime
      BY <2>2, <2>3
    <3> QED  BY <1>1, <1>5, <2>3, <3>1 DEF PrimesRead
  <2>5. head'[i] = h /\ \A g \in 1..(i - 1) : head'[g] = head[g]
    BY <1>1, <2>3
  <2>6. Busy
    BY <1>1 DEF Busy
  <2> QED  BY <1>1, <1>5, <1>8, <1>9, <1>12, <2>2, <2>3, <2>4, <2>5, <2>6, GroupRead
<1>13. CASE /\ ~unknown
            /\ \E f \in [1..Len(sb) -> Anything] :
                 /\ \A j \in 1..Len(sb) : j <= n /\ inside(j) => f[j] = Slot(sb, j)
                 /\ head' = [head EXCEPT ![i].slots = n, ![i].back = f]
            /\ NextGroup
  <2>1. PICK f \in [1..Len(sb) -> Anything] :
               /\ \A j \in 1..Len(sb) : j <= n /\ inside(j) => f[j] = Slot(sb, j)
               /\ head' = [head EXCEPT ![i].slots = n, ![i].back = f]
    BY <1>13
  <2>2. f \in Seq(Servers \cup {NoServer}) /\ Len(f) = Len(sb)
    <3>1. f \in [1..Len(sb) -> Servers \cup {NoServer}]
      BY <1>1 DEF Anything
    <3> QED  BY <1>3, <3>1, FunIsSeq
  <2>3. ASSUME Regular
        PROVE  Named(f) = Fields(sbg[i], ",")
    <3>1. ASSUME NEW j \in 1..Len(sb)
          PROVE  f[j] = ServerOfField(sb[j]) /\ f[j] # NoServer
      <4>1. j \in 1..n /\ ~IsDash(j)
        BY <1>7, <2>3
      <4>2. Len(sbg) \in Nat /\ n <= Len(sbg)
        BY <1>1, <1>2, <1>7, <2>3
      <4>3. j <= n /\ j <= Len(sbg) /\ j <= Len(sb)
        <5>1. Len(sb) \in Nat
          BY <1>3
        <5>2. \A a, b, c \in Nat : \A x \in 1..a : a <= b /\ x \in 1..c => x <= a /\ x <= b /\ x <= c
          OBVIOUS
        <5> QED  BY <1>4a, <4>1, <4>2, <5>1, <5>2
      <4>4. inside(j)
        BY <4>3
      <4>5. f[j] = Slot(sb, j)
        BY <2>1, <4>3, <4>4
      <4>6. Slot(sb, j) # NoServer
        BY <1>13, <4>1, <4>4
      <4> QED  BY <4>1, <4>5, <4>6 DEF Slot
    <3> QED  BY <1>1, <1>3, <2>2, <3>1, NamedFields
  <2> QED  BY <1>12, <1>13, <2>1, <2>2, <2>3
<1>14. \/ sb = <<>> /\ head' = head /\ NextGroup
       \/ pc' = "crash" /\ UNCHANGED <<i, head>>
       \/ /\ ~unknown
          /\ \E f \in [1..Len(sb) -> Anything] :
               /\ \A j \in 1..Len(sb) : j <= n /\ inside(j) => f[j] = Slot(sb, j)
               /\ head' = [head EXCEPT ![i].slots = n, ![i].back = f]
          /\ NextGroup
  BY DEF FillBack, sb, n
<1> HIDE DEF unknown
<1> QED  BY <1>10, <1>11, <1>13, <1>14

(***************************************************************************)
(* Of what the loop over the backups dies: it leaves its arrays, memory    *)
(* fails, or a name of the group at hand is not known.                     *)
(***************************************************************************)
LEMMA FillBackDies ==
  ASSUME ReaderOK, FillBack, UNCHANGED known, pc' = "crash"
  PROVE  wild' \/ fault = "rs_back" \/ UnknownBackup'
<1> DEFINE sb == str_split_func(sbg[i], ",")
           n == Len(head[i].prime)
<1>1. /\ sbg = Fields(back, "|") /\ Len(sbg) = Len(spg) /\ i \in 1..Len(sbg) /\ sbg \in Seq(Seq(Tokens))
      /\ pc = "back"
  <2>1. /\ pc = "back" /\ TextsSplit /\ i \in 1..Len(spg) /\ sbg # <<>> /\ sbg \in Seq(Seq(Tokens))
    BY DEF ReaderOK, FillBack, Busy, Place, TypeOK
  <2>2. Len(sbg) # 0
    BY <2>1, EmptySeq
  <2> QED  BY <2>1, <2>2 DEF TextsSplit, SameGroups
<1>2. sb = Fields(Fields(back, "|")[i], ",") /\ sb \in Seq(Seq(Tokens))
  <2>1. sbg[i] \in Seq(Tokens)
    BY <1>1, ElementOfSeq
  <2> QED  BY <1>1, <2>1, SplitIsFields
<1>3. \/ wild' \/ fault = "rs_back"
      \/ \E j \in 1..n : j <= Len(sb) /\ ServerOfField(sb[j]) = NoServer /\ UNCHANGED <<i, back>>
  BY DEF FillBack, NextGroup, Slot
<1> HIDE DEF sb, n
<1>4. ASSUME NEW j \in 1..n, j <= Len(sb), ServerOfField(sb[j]) = NoServer, UNCHANGED <<i, back>>
      PROVE  UnknownBackup'
  <2>1. j \in 1..Len(sb) /\ sb[j] \in ToSet(sb)
    <3>1. Len(sb) \in Nat
      BY <1>2, LenProperties
    <3>2. j \in 1..Len(sb)
      BY <1>4, <3>1
    <3> QED  BY <1>2, <3>2, LenProperties DEF ToSet
  <2>2. \A s \in known : sb[j] # <<s>>
    <3>1. known \subseteq Servers
      BY DEF ReaderOK
    <3>2. ASSUME NEW s \in known, sb[j] = <<s>>
          PROVE  FALSE
      <4>1. ServerOfField(sb[j]) = s
        BY <3>2 DEF ServerOfField
      <4> QED  BY <1>4, <3>1, <4>1, ServerNames
    <3> QED  BY <3>2
  <2> QED  BY <1>2, <1>4, <2>1, <2>2 DEF UnknownBackup
<1> QED  BY <1>3, <1>4

LEMMA ReadTextStep ==
  ASSUME ReaderOK, get_upload_group_server_group_list, UNCHANGED known
  PROVE  ReaderOK'
BY SplitGroupsStep, FillPrimeStep, FillBackStep DEF get_upload_group_server_group_list

LEMMA CallStep ==
  ASSUME ReaderOK, NEW p \in Seq(Tokens), NEW b \in Seq(Tokens), Call(p, b), UNCHANGED known
  PROVE  ReaderOK'
<1>1. TypeOK'
  <2>1. <<>> \in Seq(Seq(Tokens)) /\ <<>> \in Seq(ServerGroup)
    BY EmptySeq
  <2>2. pc' = "split" /\ i' = 1 /\ spg' = <<>> /\ sbg' = <<>> /\ head' = <<>> /\ wild' = FALSE
    BY DEF Call
  <2>3. spg' \in Seq(Seq(Tokens)) /\ sbg' \in Seq(Seq(Tokens)) /\ head' \in Seq(ServerGroup)
    BY <2>1, <2>2
  <2>4. i' \in Nat \ {0}
    <3>1. i' = 1
      BY <2>2
    <3> QED  BY <3>1
  <2>5. wild' \in BOOLEAN
    BY <2>2
  <2> QED  BY <2>2, <2>3, <2>4, <2>5 DEF TypeOK, ServerGroup
<1> QED  BY <1>1 DEF Call, ReaderOK, Busy

LEMMA TakenStep ==
  ASSUME ReaderOK, Taken, UNCHANGED known
  PROVE  ReaderOK'
BY DEF ReaderOK, Taken, TypeOK, Busy, Regular, Groups, Sizes

\* What the reader guarantees of an accepted configuration.
LEMMA ReaderGuarantees ==
  ASSUME ReaderOK, pc = "crash" => wild \/ fault = "rs_back" \/ UnknownBackup
  PROVE  PrimariesExact /\ RegularBackups
<1>1. ASSUME pc = "done"
      PROVE  /\ Len(head) = Groups(primer) /\ \A g \in 1..Len(head) :
                  head[g].prime # <<>> /\ Named(head[g].prime) = Fields(Fields(primer, "|")[g], ",")
             /\ back = <<>> \/ Groups(back) = Groups(primer)
             /\ Regular => \A g \in 1..Len(head) : Named(head[g].back) = Fields(Fields(back, "|")[g], ",")
  <2>1. /\ TextsSplit /\ Len(head) = Len(spg) /\ PrimesRead /\ BacksRead
        /\ back \in Seq(Tokens) /\ sbg \in Seq(Seq(Tokens))
    BY <1>1 DEF ReaderOK, Busy, Place, TypeOK
  <2>2. Len(sbg) = 0 => back = <<>>
    <3>1. Len(sbg) = 0 => sbg = <<>>
      BY <2>1, EmptySeq
    <3> QED  BY <2>1, <3>1, SplitIsFields DEF TextsSplit
  <2> QED  BY <1>1, <2>1, <2>2 DEF TextsSplit, SameGroups, PrimesRead, BacksRead, Groups
<1>2. (wild => ~Regular) /\ TypeOK
  BY DEF ReaderOK
<1> HIDE DEF ReaderOK
<1>3. PrimariesExact
  BY <1>1, <1>2 DEF PrimariesExact
<1>4. RegularBackups
  BY <1>1, <1>2 DEF RegularBackups
<1> QED  BY <1>3, <1>4

-----------------------------------------------------------------------------
(***************************************************************************)
(* The verdict on a list of settings: the first that is not "ok".          *)
(***************************************************************************)
LEMMA VerdictIs ==
  ASSUME NEW v, NEW n \in Nat, DOMAIN v = 1..n
  PROVE  /\ Verdict(v) = "ok" => \A j \in 1..n : v[j] = "ok"
         /\ Verdict(v) # "ok" => \E j \in 1..n : v[j] = Verdict(v)
<1> DEFINE other == {j \in DOMAIN v : v[j] # "ok"}
           first == CHOOSE j \in other : \A m \in other : j <= m
<1>1. CASE other = {}
  BY <1>1 DEF Verdict
<1>2. CASE other # {}
  <2>1. other \in SUBSET Nat
    OBVIOUS
  <2>2. first \in other
    <3>1. \E j \in other : \A m \in other : j <= m
      BY <1>2, <2>1, LeastNatural
    <3> QED  BY <3>1
  <2>3. Verdict(v) = v[first]
    BY <1>2 DEF Verdict
  <2> HIDE DEF first
  <2> QED  BY <2>2, <2>3
<1> QED  BY <1>1, <1>2

LEMMA NullNames ==
  ASSUME ConfOK(conf), NEW n \in DOMAIN Depth2, Depth2[n] = NoValue
  PROVE  MappingForValue
<1> DEFINE AnyName == {NoValue} \cup Servers \cup STRING
           a == [j \in DOMAIN conf.servers |-> conf.servers[j].name]
           b == [g \in DOMAIN conf.groups |-> conf.groups[g].name]
           c == conf.values
<1>1. /\ conf.servers \in Seq(ServerConf) /\ conf.groups \in Seq(GroupConf) /\ c \in Seq(Name)
      /\ Len(conf.servers) \in Nat /\ Len(conf.groups) \in Nat
      /\ DOMAIN conf.servers = 1..Len(conf.servers) /\ DOMAIN conf.groups = 1..Len(conf.groups)
  BY LenProperties DEF ConfOK
<1>2. a \in Seq(AnyName) /\ Len(a) = Len(conf.servers)
  <2>1. \A j \in 1..Len(conf.servers) : conf.servers[j].name \in AnyName
    <3>1. \A j \in 1..Len(conf.servers) : conf.servers[j] \in ServerConf
      BY <1>1, ElementOfSeq
    <3> QED  BY <3>1 DEF ServerConf
  <2>2. a \in [1..Len(conf.servers) -> AnyName]
    BY <1>1, <2>1
  <2> HIDE DEF a, AnyName
  <2> QED  BY <1>1, <2>2, FunIsSeq
<1>3. b \in Seq(AnyName) /\ Len(b) = Len(conf.groups)
  <2>1. \A j \in 1..Len(conf.groups) : conf.groups[j].name \in AnyName
    <3>1. \A j \in 1..Len(conf.groups) : conf.groups[j] \in GroupConf
      BY <1>1, ElementOfSeq
    <3> QED  BY <3>1 DEF GroupConf, Name
  <2>2. b \in [1..Len(conf.groups) -> AnyName]
    BY <1>1, <2>1
  <2> HIDE DEF b, AnyName
  <2> QED  BY <1>1, <2>2, FunIsSeq
<1>4. c \in Seq(AnyName) /\ Len(c) \in Nat
  <2>1. Name \subseteq AnyName
    BY DEF Name
  <2> HIDE DEF AnyName, c
  <2> QED  BY <1>1, <2>1, SeqMonotonic, LenProperties
<1> HIDE DEF AnyName, c
<1>5. Depth2 = (a \o b) \o c
  BY DEF Depth2, c
<1> HIDE DEF a, b
<1>6. /\ a \o b \in Seq(AnyName) /\ Len(a \o b) = Len(a) + Len(b)
      /\ \A j \in 1..(Len(a) + Len(b)) : (a \o b)[j] = IF j <= Len(a) THEN a[j] ELSE b[j - Len(a)]
  BY <1>2, <1>3, ConcatProperties
<1>7. /\ Depth2 \in Seq(AnyName) /\ Len(Depth2) = Len(a) + Len(b) + Len(c)
      /\ \A j \in 1..(Len(a) + Len(b) + Len(c)) :
           Depth2[j] = IF j <= Len(a) + Len(b) THEN (a \o b)[j] ELSE c[j - (Len(a) + Len(b))]
  BY <1>4, <1>5, <1>6, ConcatProperties
<1>8. n \in 1..(Len(a) + Len(b) + Len(c)) /\ Len(a) \in Nat /\ Len(b) \in Nat
  BY <1>1, <1>2, <1>3, <1>7, LenProperties
<1>9. CASE n <= Len(a)
  <2>1. n \in 1..Len(conf.servers) /\ a[n] = NoValue
    <3>1. n \in 1..(Len(a) + Len(b))
      BY <1>8, <1>9
    <3> QED  BY <1>2, <1>6, <1>7, <1>8, <1>9, <3>1
  <2>2. conf.servers[n].name = NoValue
    BY <1>1, <2>1 DEF a
  <2>3. conf.servers[n] \in ToSet(conf.servers)
    BY <1>1, <2>1 DEF ToSet
  <2> QED  BY <2>2, <2>3 DEF MappingForValue
<1>10. CASE Len(a) < n /\ n <= Len(a) + Len(b)
  <2> DEFINE m == n - Len(a)
  <2>1. m \in 1..Len(conf.groups) /\ b[m] = NoValue
    <3>1. n \in 1..(Len(a) + Len(b)) /\ ~(n <= Len(a)) /\ m \in 1..Len(b)
      <4>1. \A x, y, z \in Nat : x < z /\ z <= x + y => z \in 1..(x + y) /\ ~(z <= x) /\ z - x \in 1..y
        OBVIOUS
      <4>2. n \in Nat
        BY <1>8
      <4> QED  BY <1>8, <1>10, <4>1, <4>2
    <3>2. Depth2[n] = (a \o b)[n]
      BY <1>7, <1>8, <1>10
    <3>3. (a \o b)[n] = b[m]
      BY <1>6, <3>1
    <3> QED  BY <1>3, <3>1, <3>2, <3>3
  <2> HIDE DEF m
  <2>2. conf.groups[m].name = NoValue
    BY <1>1, <2>1 DEF b
  <2>3. conf.groups[m] \in ToSet(conf.groups)
    BY <1>1, <2>1 DEF ToSet
  <2> QED  BY <2>2, <2>3 DEF MappingForValue
<1>11. CASE Len(a) + Len(b) < n
  <2> DEFINE m == n - (Len(a) + Len(b))
  <2>1. m \in 1..Len(c) /\ c[m] = NoValue
    <3>1. ~(n <= Len(a) + Len(b))
      BY <1>8, <1>11
    <3> QED  BY <1>4, <1>7, <1>8, <1>11, <3>1
  <2> QED  BY <2>1 DEF MappingForValue, Contains, c
<1> QED  BY <1>8, <1>9, <1>10, <1>11

LEMMA NameCheck ==
  ASSUME ConfOK(conf), NEW name
  PROVE  /\ ConfNodeNameCheck(name) = "ok" => name # NoValue
         /\ ConfNodeNameCheck(name) = "crash" => name = NoValue \/ MappingForValue
BY NullNames DEF ConfNodeNameCheck

\* A reader of a setting that crashes was given a mapping.
LEMMA NullSetting ==
  ASSUME NEW how
  PROVE  /\ Text(how) = "crash" => how = "null"
         /\ Checked(how) = "crash" => how = "null"
         /\ Number(how) = "crash" => how = "null"
         /\ \A acts : Act(how, acts) # "crash"
         /\ Enable(how) = "crash" => how = "null"
BY DEF Text, Checked, Number, Act, Enable

LEMMA ServerRead ==
  ASSUME ConfOK(conf), NEW j \in 1..Len(conf.servers)
  PROVE  /\ get_server_info(j) = "ok" => conf.servers[j].name \in Servers
         /\ get_server_info(j) = "crash" => MappingForValue
<1> DEFINE s == conf.servers[j]
           v == <<ConfNodeNameCheck(s.name), Checked(s.analyzelib), Text(s.addr), Text(s.username), Text(s.passwd),
                  Text(s.finish_flag), Text(s.file_suffix), Checked(s.thread_num), Number(s.attempts), Number(s.fsleep_time),
                  IF fault = "pid" THEN "fail" ELSE "ok">>
<1>1. get_server_info(j) = Verdict(v)
  BY DEF get_server_info
<1>2. DOMAIN v = 1..11
  OBVIOUS
<1>3. /\ v[1] = ConfNodeNameCheck(s.name) /\ v[2] = Checked(s.analyzelib) /\ v[3] = Text(s.addr)
      /\ v[4] = Text(s.username) /\ v[5] = Text(s.passwd) /\ v[6] = Text(s.finish_flag)
      /\ v[7] = Text(s.file_suffix) /\ v[8] = Checked(s.thread_num) /\ v[9] = Number(s.attempts)
      /\ v[10] = Number(s.fsleep_time) /\ v[11] # "crash"
  OBVIOUS
<1>4. s \in ServerConf /\ s \in ToSet(conf.servers)
  BY ElementOfSeq, LenProperties DEF ConfOK, ToSet
<1> HIDE DEF v, s
<1>5. Verdict(v) = "ok" => \A n \in 1..11 : v[n] = "ok"
  BY <1>2, VerdictIs
<1>6. Verdict(v) # "ok" => \E n \in 1..11 : v[n] = Verdict(v)
  BY <1>2, VerdictIs
<1>7. ASSUME get_server_info(j) = "ok"
      PROVE  s.name \in Servers
  <2>1. v[1] = "ok"
    BY <1>1, <1>5, <1>7
  <2>2. s.name # NoValue
    BY <1>3, <2>1, NameCheck
  <2> QED  BY <1>4, <2>2 DEF ServerConf
<1>8. ASSUME get_server_info(j) = "crash"
      PROVE  MappingForValue
  <2>1. PICK n \in 1..11 : v[n] = "crash"
    BY <1>1, <1>6, <1>8
  <2>2. CASE n = 1
    <3>1. s.name = NoValue \/ MappingForValue
      BY <1>3, <2>1, <2>2, NameCheck
    <3> QED  BY <1>4, <3>1 DEF MappingForValue
  <2>3. CASE n # 1
    <3>1. \/ s.analyzelib = "null" \/ s.addr = "null" \/ s.username = "null" \/ s.passwd = "null"
          \/ s.finish_flag = "null" \/ s.file_suffix = "null" \/ s.thread_num = "null"
          \/ s.attempts = "null" \/ s.fsleep_time = "null"
      <4>1. n \in 2..11
        BY <2>3
      <4>2. n = 2 \/ n = 3 \/ n = 4 \/ n = 5 \/ n = 6 \/ n = 7 \/ n = 8 \/ n = 9 \/ n = 10 \/ n = 11
        BY <4>1
      <4> QED  BY <1>3, <2>1, <4>2, NullSetting
    <3>2. {"analyzelib", "addr", "username", "passwd", "finish_flag", "file_suffix", "thread_num", "attempts",
           "fsleep_time"} \subseteq DOMAIN s \ {"threads", "primer", "back", "servers_primer", "servers_backup"}
      BY <1>4 DEF ServerConf
    <3>3. \E f \in DOMAIN s \ {"threads", "primer", "back", "servers_primer", "servers_backup"} : s[f] = "null"
      BY <3>1, <3>2
    <3> QED  BY <1>4, <3>3 DEF MappingForValue
  <2> QED  BY <2>2, <2>3
<1> QED  BY <1>7, <1>8 DEF s

LEMMA GroupConfRead ==
  ASSUME ConfOK(conf), NEW g \in 1..Len(conf.groups)
  PROVE  /\ conf.groups[g].primer \in Seq(Tokens) /\ conf.groups[g].back \in Seq(Tokens)
         /\ get_monitor_group_info(g) = "crash" => MappingForValue
<1> DEFINE m == conf.groups[g]
           v == <<ConfNodeNameCheck(m.name), Enable(m.enable), Text(m.monitor_dir), Text(m.monitor_file_type),
                  Act(m.find_act, get_type_process), Text(m.upload_file_type),
                  Act(m.finish_act, get_end_process_id), MoveTo(g),
                  IF m.servers_primer \in {"missing", "null"} \/ m.servers_backup = "missing" THEN "fail" ELSE "ok">>
<1>1. get_monitor_group_info(g) = Verdict(v)
  BY DEF get_monitor_group_info
<1>2. DOMAIN v = 1..9
  OBVIOUS
<1>3. /\ v[1] = ConfNodeNameCheck(m.name) /\ v[2] = Enable(m.enable) /\ v[3] = Text(m.monitor_dir)
      /\ v[4] = Text(m.monitor_file_type) /\ v[5] = Act(m.find_act, get_type_process) /\ v[6] = Text(m.upload_file_type)
      /\ v[7] = Act(m.finish_act, get_end_process_id) /\ v[8] = MoveTo(g) /\ v[9] # "crash"
  OBVIOUS
<1>4. m \in GroupConf /\ m \in ToSet(conf.groups)
  BY ElementOfSeq, LenProperties DEF ConfOK, ToSet
<1>5. MoveTo(g) = "crash" => m.move_to = "null"
  BY DEF MoveTo
<1> HIDE DEF v, m
<1>7. Verdict(v) # "ok" => \E n \in 1..9 : v[n] = Verdict(v)
  BY <1>2, VerdictIs
<1>8. m.primer \in Seq(Tokens) /\ m.back \in Seq(Tokens)
  BY <1>4 DEF GroupConf
<1>9. ASSUME get_monitor_group_info(g) = "crash"
      PROVE  MappingForValue
  <2>1. PICK n \in 1..9 : v[n] = "crash"
    BY <1>1, <1>7, <1>9
  <2>2. CASE n = 1
    <3>1. m.name = NoValue \/ MappingForValue
      BY <1>3, <2>1, <2>2, NameCheck
    <3> QED  BY <1>4, <3>1 DEF MappingForValue
  <2>3. CASE n # 1
    <3>1. \/ m.enable = "null" \/ m.monitor_dir = "null" \/ m.monitor_file_type = "null"
          \/ m.upload_file_type = "null" \/ m.move_to = "null"
      <4>1. n \in 2..9
        BY <2>3
      <4>2. n = 2 \/ n = 3 \/ n = 4 \/ n = 5 \/ n = 6 \/ n = 7 \/ n = 8 \/ n = 9
        BY <4>1
      <4> QED  BY <1>3, <1>5, <2>1, <4>2, NullSetting
    <3>2. {"enable", "monitor_dir", "monitor_file_type", "upload_file_type", "move_to"}
            \subseteq DOMAIN m \ {"threads", "primer", "back", "servers_primer", "servers_backup"}
      BY <1>4 DEF GroupConf
    <3>3. \E f \in DOMAIN m \ {"threads", "primer", "back", "servers_primer", "servers_backup"} : m[f] = "null"
      BY <3>1, <3>2
    <3> QED  BY <1>4, <3>3 DEF MappingForValue
  <2> QED  BY <2>2, <2>3
<1> QED  BY <1>8, <1>9 DEF m

-----------------------------------------------------------------------------
(***************************************************************************)
(* Sequences: what occurs in one, and whether nothing occurs twice.  Both  *)
(* are told of FlattenSeq, whose recursive function exists because the     *)
(* least index where it does not is none, and of SetToSeq.                 *)
(***************************************************************************)
In(x, s) == \E j \in 1..Len(s) : s[j] = x
Once(s) == \A p, q \in 1..Len(s) : s[p] = s[q] => p = q

Flattens(f, q, m) ==
  \A j \in 1..m : f[j] = IF j = 1 THEN q[j] ELSE f[j - 1] \o q[j]

LEMMA FlattenExists ==
  ASSUME NEW V, NEW q \in Seq(Seq(V))
  PROVE  \A m \in 0..Len(q) : \E f \in [1..m -> Seq(V)] : Flattens(f, q, m)
<1> DEFINE T == {m \in 0..Len(q) : ~ \E f \in [1..m -> Seq(V)] : Flattens(f, q, m)}
<1>1. Len(q) \in Nat /\ T \in SUBSET Nat /\ \A j \in 1..Len(q) : q[j] \in Seq(V)
  BY LenProperties, ElementOfSeq
<1>2. ASSUME T # {}
      PROVE  FALSE
  <2>1. PICK m \in T : \A n \in T : m <= n
    BY <1>1, <1>2, LeastNatural
  <2>2. m # 0
    <3>1. [j \in 1..0 |-> <<>>] \in [1..0 -> Seq(V)] /\ Flattens([j \in 1..0 |-> <<>>], q, 0)
      BY DEF Flattens
    <3> QED  BY <2>1, <3>1
  <2>3. m \in 1..Len(q) /\ m - 1 \in 0..Len(q) /\ m - 1 \notin T
    <3>1. m \in 0..Len(q)
      BY <2>1
    <3> HIDE DEF T
    <3> QED  BY <1>1, <2>1, <2>2, <3>1
  <2>4. PICK f \in [1..(m - 1) -> Seq(V)] : Flattens(f, q, m - 1)
    BY <2>3
  <2> DEFINE last == IF m = 1 THEN q[m] ELSE f[m - 1] \o q[m]
             g == [j \in 1..m |-> IF j < m THEN f[j] ELSE last]
  <2>5. last \in Seq(V)
    <3>1. CASE m = 1
      BY <1>1, <2>3, <3>1
    <3>2. CASE m # 1
      <4>1. f[m - 1] \in Seq(V) /\ q[m] \in Seq(V)
        BY <1>1, <2>3, <3>2
      <4> QED  BY <3>2, <4>1, ConcatProperties
    <3> QED  BY <3>1, <3>2
  <2> HIDE DEF last
  <2>6. g \in [1..m -> Seq(V)]
    BY <2>3, <2>5
  <2>7. Flattens(g, q, m)
    <3>1. ASSUME NEW j \in 1..m
          PROVE  g[j] = IF j = 1 THEN q[j] ELSE g[j - 1] \o q[j]
      <4>1. CASE j < m
        <5>1. j \in 1..(m - 1) /\ g[j] = f[j]
          BY <2>3, <4>1
        <5>2. j = 1 \/ (j - 1 \in 1..m /\ g[j - 1] = f[j - 1])
          BY <2>3, <4>1
        <5>3. f[j] = IF j = 1 THEN q[j] ELSE f[j - 1] \o q[j]
          BY <2>4, <5>1 DEF Flattens
        <5> QED  BY <5>1, <5>2, <5>3
      <4>2. CASE j = m
        BY <2>3, <4>2 DEF last
      <4> QED  BY <2>3, <4>1, <4>2
    <3> HIDE DEF g
    <3> QED  BY <3>1 DEF Flattens
  <2> QED  BY <2>1, <2>6, <2>7
<1> QED  BY <1>2

LEMMA FlattenUnique ==
  ASSUME NEW q, NEW f, NEW g, NEW m \in Nat, Flattens(f, q, m), Flattens(g, q, m)
  PROVE  \A j \in 1..m : f[j] = g[j]
<1> DEFINE T == {j \in 1..m : f[j] # g[j]}
<1>1. ASSUME T # {}
      PROVE  FALSE
  <2>1. PICK j \in T : \A n \in T : j <= n
    <3>1. T \in SUBSET Nat
      OBVIOUS
    <3> QED  BY <1>1, <3>1, LeastNatural
  <2>2. j = 1 \/ (j - 1 \in 1..m /\ f[j - 1] = g[j - 1])
    BY <2>1
  <2> QED  BY <2>1, <2>2 DEF Flattens
<1> QED  BY <1>1

LEMMA FlattenIs ==
  ASSUME NEW V, NEW q \in Seq(Seq(V)), Len(q) > 0
  PROVE  \E f \in [1..Len(q) -> Seq(V)] : Flattens(f, q, Len(q)) /\ FlattenSeq(q) = f[Len(q)]
<1> DEFINE n == Len(q)
           F == CHOOSE f : f = [j \in 1..n |-> IF j = 1 THEN q[j] ELSE f[j - 1] \o q[j]]
<1>1. n \in Nat /\ n \in 0..n
  BY LenProperties
<1>2. PICK f \in [1..n -> Seq(V)] : Flattens(f, q, n)
  BY <1>1, FlattenExists
<1>3. f = [j \in 1..n |-> IF j = 1 THEN q[j] ELSE f[j - 1] \o q[j]]
  BY <1>2 DEF Flattens
<1>4. F = [j \in 1..n |-> IF j = 1 THEN q[j] ELSE F[j - 1] \o q[j]]
  BY <1>3
<1>5. FlattenSeq(q) = F[n]
  BY DEF FlattenSeq
<1> HIDE DEF F
<1>6. Flattens(F, q, n)
  BY <1>4 DEF Flattens
<1>7. F[n] = f[n]
  BY <1>1, <1>2, <1>6, FlattenUnique
<1> QED  BY <1>2, <1>5, <1>7

LEMMA ConcatIs ==
  ASSUME NEW V, NEW s \in Seq(V), NEW t \in Seq(V)
  PROVE  /\ s \o t \in Seq(V)
         /\ \A x : In(x, s \o t) <=> In(x, s) \/ In(x, t)
         /\ Once(s) /\ Once(t) /\ (\A x : ~(In(x, s) /\ In(x, t))) => Once(s \o t)
<1> DEFINE m == Len(s)
           n == Len(t)
           r == s \o t
<1>1. /\ m \in Nat /\ n \in Nat /\ r \in Seq(V) /\ Len(r) = m + n
      /\ \A j \in 1..(m + n) : r[j] = IF j <= m THEN s[j] ELSE t[j - m]
  BY LenProperties, ConcatProperties
<1> HIDE DEF m, n, r
<1>2. \A j \in 1..(m + n) : (j \in 1..m /\ r[j] = s[j]) \/ (j - m \in 1..n /\ r[j] = t[j - m] /\ ~(j <= m))
  BY <1>1
<1>3. \A j \in 1..m : j \in 1..(m + n) /\ r[j] = s[j]
  BY <1>1
<1>4. \A j \in 1..n : j + m \in 1..(m + n) /\ r[j + m] = t[j]
  BY <1>1
<1>5. ASSUME NEW x
      PROVE  In(x, r) <=> In(x, s) \/ In(x, t)
  <2>1. In(x, r) => In(x, s) \/ In(x, t)
    BY <1>1, <1>2 DEF In, m, n
  <2>2. In(x, s) => In(x, r)
    BY <1>1, <1>3 DEF In, m
  <2>3. In(x, t) => In(x, r)
    BY <1>1, <1>4 DEF In, n
  <2> QED  BY <2>1, <2>2, <2>3
<1>6. ASSUME Once(s), Once(t), \A x : ~(In(x, s) /\ In(x, t)), NEW p \in 1..(m + n), NEW q \in 1..(m + n), r[p] = r[q]
      PROVE  p = q
  <2>1. CASE p \in 1..m /\ q \in 1..m /\ r[p] = s[p] /\ r[q] = s[q]
    BY <1>6, <2>1 DEF Once, m
  <2>2. CASE p - m \in 1..n /\ q - m \in 1..n /\ r[p] = t[p - m] /\ r[q] = t[q - m]
    <3>1. p - m = q - m
      BY <1>6, <2>2 DEF Once, n
    <3> QED  BY <1>1, <3>1
  <2>3. CASE p \in 1..m /\ q - m \in 1..n /\ r[p] = s[p] /\ r[q] = t[q - m]
    <3>1. In(r[p], s) /\ In(r[p], t)
      BY <1>6, <2>3 DEF In, m, n
    <3> QED  BY <1>6, <3>1
  <2>4. CASE q \in 1..m /\ p - m \in 1..n /\ r[q] = s[q] /\ r[p] = t[p - m]
    <3>1. In(r[q], s) /\ In(r[q], t)
      BY <1>6, <2>4 DEF In, m, n
    <3> QED  BY <1>6, <3>1
  <2> QED  BY <1>2, <2>1, <2>2, <2>3, <2>4
<1>7. Once(s) /\ Once(t) /\ (\A x : ~(In(x, s) /\ In(x, t))) => Once(r)
  BY <1>1, <1>6 DEF Once
<1> QED  BY <1>1, <1>5, <1>7 DEF r

\* Parts that have nothing in common, two by two.
Apart(q) == \A m, n \in 1..Len(q) : m # n => \A x : ~(In(x, q[m]) /\ In(x, q[n]))

LEMMA FlattenHolds ==
  ASSUME NEW V, NEW q \in Seq(Seq(V))
  PROVE  /\ FlattenSeq(q) \in Seq(V)
         /\ \A x : In(x, FlattenSeq(q)) <=> \E n \in 1..Len(q) : In(x, q[n])
         /\ (\A n \in 1..Len(q) : Once(q[n])) /\ Apart(q) => Once(FlattenSeq(q))
<1> DEFINE len == Len(q)
<1>1. len \in Nat /\ \A n \in 1..len : q[n] \in Seq(V)
  BY LenProperties, ElementOfSeq
<1>2. CASE len = 0
  <2>1. FlattenSeq(q) = <<>> /\ q = <<>>
    BY <1>2, EmptySeq DEF FlattenSeq
  <2> QED  BY <2>1, EmptySeq DEF In, Once
<1>3. CASE len > 0
  <2>1. PICK f \in [1..len -> Seq(V)] : Flattens(f, q, len) /\ FlattenSeq(q) = f[len]
    BY <1>3, FlattenIs
  <2> HIDE DEF len
  <2> DEFINE Holds(m) == \A x : In(x, f[m]) <=> \E n \in 1..m : In(x, q[n])
             Single(m) == (\A n \in 1..len : Once(q[n])) /\ Apart(q) => Once(f[m])
             T == {m \in 1..len : ~(Holds(m) /\ Single(m))}
  <2>2. ASSUME T # {}
        PROVE  FALSE
    <3>1. PICK m \in T : \A n \in T : m <= n
      <4>1. T \in SUBSET Nat
        OBVIOUS
      <4> QED  BY <2>2, <4>1, LeastNatural
    <3>2. m \in 1..len /\ ~(Holds(m) /\ Single(m))
      BY <3>1
    <3>3. CASE m = 1
      <4>1. f[m] = q[m]
        BY <2>1, <3>2, <3>3 DEF Flattens
      <4>2. \A n : n \in 1..m <=> n = m
        BY <3>3
      <4>3. Holds(m)
        <5>1. ASSUME NEW x
              PROVE  In(x, q[m]) <=> \E n \in 1..m : In(x, q[n])
          BY <4>2, Zenon
        <5> QED  BY <4>1, <5>1, Zenon
      <4>4. Single(m)
        BY <3>2, <4>1
      <4> QED  BY <3>2, <4>3, <4>4
    <3>4. CASE m # 1
      <4> DEFINE l == m - 1
      <4>1. l \in 1..len /\ l < m /\ l \notin T /\ m \in Nat
        <5>1. \A y \in 1..len : y # 1 => y - 1 \in 1..len /\ y - 1 < y /\ ~(y <= y - 1) /\ y \in Nat
          BY <1>1
        <5> HIDE DEF T
        <5> QED  BY <3>1, <3>2, <3>4, <5>1
      <4>2. Holds(l) /\ Single(l)
        BY <4>1
      <4>3. f[m] = f[l] \o q[m]
        BY <2>1, <3>2, <3>4 DEF Flattens
      <4>4. f[l] \in Seq(V) /\ q[m] \in Seq(V)
        BY <1>1, <3>2, <4>1 DEF len
      <4>5. \A n : n \in 1..m <=> n \in 1..l \/ n = m
        <5>1. \A y \in Nat : y # 0 => \A n : n \in 1..y <=> n \in 1..(y - 1) \/ n = y
          OBVIOUS
        <5> QED  BY <3>2, <4>1, <5>1
      <4>6. \A n \in 1..l : n \in 1..len /\ n # m
        BY <1>1, <3>2, <4>1
      <4> HIDE DEF l
      <4>7. \A x : In(x, f[l] \o q[m]) <=> In(x, f[l]) \/ In(x, q[m])
        BY <4>4, ConcatIs
      <4>8. Holds(m)
        BY <4>2, <4>3, <4>5, <4>7
      <4>9. Single(m)
        <5>1. SUFFICES ASSUME \A n \in 1..len : Once(q[n]), Apart(q)
                       PROVE  Once(f[m])
          OBVIOUS
        <5>2. \A x : ~(In(x, f[l]) /\ In(x, q[m]))
          BY <3>2, <4>2, <4>6, <5>1 DEF Apart, len
        <5>3. Once(f[l]) /\ Once(q[m])
          BY <3>2, <4>2, <5>1
        <5> QED  BY <4>3, <4>4, <5>2, <5>3, ConcatIs
      <4> QED  BY <3>2, <4>8, <4>9
    <3> QED  BY <3>3, <3>4
  <2>3. len \in 1..len
    BY <1>1, <1>3
  <2>4. Holds(len) /\ Single(len)
    BY <2>2, <2>3
  <2> QED  BY <2>1, <2>3, <2>4 DEF len
<1> QED  BY <1>1, <1>2, <1>3

LEMMA SetToSeqIs ==
  ASSUME NEW S, IsFiniteSet(S)
  PROVE  /\ SetToSeq(S) \in Seq(S)
         /\ \A x : In(x, SetToSeq(S)) <=> x \in S
         /\ Once(SetToSeq(S))
<1> DEFINE n == Cardinality(S)
           f == SetToSeq(S)
<1>1. n \in Nat /\ ExistsBijection(1..n, S)
  BY FS_CardinalityType
<1>2. \E h \in [1..n -> S] : IsInjective(h)
  BY <1>1 DEF ExistsBijection, Bijection, Injection, IsInjective
<1>3. f \in [1..n -> S] /\ IsInjective(f)
  BY <1>2 DEF SetToSeq
<1>4. f \in Injection(1..n, S)
  BY <1>3 DEF Injection, IsInjective
<1>5. Cardinality(1..n) = n /\ IsFiniteSet(1..n)
  <2>1. 1 \in Int /\ n \in Int
    BY <1>1
  <2> HIDE DEF n
  <2>2. IsFiniteSet(1..n) /\ Cardinality(1..n) = IF 1 > n THEN 0 ELSE n - 1 + 1
    BY <2>1, FS_Interval
  <2> QED  BY <1>1, <2>2
<1>6. f \in Surjection(1..n, S)
  <2>1. Cardinality(1..n) = Cardinality(S)
    BY <1>5
  <2> HIDE DEF f, n
  <2> QED  BY <1>4, <2>1, FS_Injection
<1> HIDE DEF f
<1>7. f \in Seq(S) /\ Len(f) = n
  <2> HIDE DEF n
  <2> QED  BY <1>1, <1>3, FunIsSeq
<1>8. \A x \in S : \E j \in 1..n : f[j] = x
  BY <1>6 DEF Surjection
<1>9. Once(f)
  BY <1>3, <1>7 DEF Once, IsInjective
<1> QED  BY <1>3, <1>7, <1>8, <1>9 DEF In, f

-----------------------------------------------------------------------------
(***************************************************************************)
(* What is so at every place of main: the index of its loops, and the      *)
(* lists that were read.                                                   *)
(***************************************************************************)
Fresh == step \in {"load", "global", "db", "servers"}
Reading == step \in {"server", "servers_exit", "groups", "group", "text", "show", "group_exit", "affinity"}
Exiting == step \in {"init_fail", "exit_groups", "end"}

PlacesOK ==
  /\ ConfOK(conf)
  /\ num \in [servers : Nat, groups : Nat]
  /\ step \notin {"text", "crash"} => pc = "idle"
  /\ step = "server" => k \in 1..Len(conf.servers) /\ num.servers = Len(conf.servers)
  /\ step = "groups" => k = 1
  /\ step \in {"group", "text"} => k \in 1..Len(conf.groups) /\ num.groups = Len(conf.groups) /\ Len(lists) = k - 1
  /\ step \in {"show", "affinity"} => k = 1
  /\ step \in {"show", "affinity", "start", "join"} => num.groups = Len(lists)
  /\ step = "start" => k \in 1..(Len(lists) + 1)
  /\ lists \in Seq(Seq(ServerGroup))
  /\ Fresh \/ step \in {"server", "groups"} => lists = <<>>

HeapOK ==
  /\ \A o \in heap : o \in {<<"g_server">>, <<"g_monitorgroup">>} \/ \E j \in 1..Len(conf.servers) : o = <<"pid", j>>
  /\ Fresh => heap = {} /\ num.servers = 0
  /\ step \in {"exit_groups", "end"} => num.servers = 0 /\ heap \subseteq {<<"g_monitorgroup">>}
  /\ step = "end" => heap = {}
  /\ num.servers > 0 => <<"g_server">> \in heap \/ fault = "g_server"
  /\ heap \cap DOMAIN freed = {} /\ \A o \in DOMAIN freed : freed[o] = 1
  /\ DOMAIN freed # {} => Exiting \/ step = "crash"

(***************************************************************************)
(* The threads there are, and those that will be joined.                   *)
(***************************************************************************)
Mentioned(s, g) == IsEnabled(g) /\ s \in ServersOf(lists[g])
Belongs(t, g) == IsEnabled(g) /\ (t = <<"monitor", g>> \/ t = <<"sche", g>> \/ \E s \in ServersOf(lists[g]) : t \in ThreadsOf(s))
Thread == {<<n, g>> : n \in {"monitor", "sche"}, g \in 1..Len(lists)} \cup {<<"upload", s, n>> : s \in Servers, n \in 1..2}

ThreadsOK ==
  /\ Fresh \/ Reading => DOMAIN thread = {} /\ citations = {}
  /\ step = "start" =>
       /\ \A s : s \in citations <=> \E g \in 1..(k - 1) : Mentioned(s, g)
       /\ \A t \in DOMAIN thread : thread[t] \in {"runs", "ended"} /\ \E g \in 1..(k - 1) : Belongs(t, g)
       /\ fault # "create" => \A g \in 1..(k - 1) : \A t : Belongs(t, g) => t \in DOMAIN thread
  /\ step = "join" =>
       /\ joins \in Seq(Thread)
       /\ \A t \in DOMAIN thread : thread[t] = "joined" \/ (thread[t] \in {"runs", "ended"} /\ In(t, joins))
       /\ fault = "create" \/ ServerTwice \/
            (Once(joins) /\ \A t : In(t, joins) => t \in DOMAIN thread /\ thread[t] # "joined")
  /\ Exiting => \A t \in DOMAIN thread : thread[t] = "joined"
  /\ DOMAIN freed # {} => \A t \in DOMAIN thread : thread[t] = "joined"

Cause ==
  \/ SectionMissing \/ MappingForValue
  \/ wild \/ Overrun \/ ServerTwice
  \/ fault \in {"create", "g_server", "rs_back"}
  \/ pc = "crash" /\ UnknownBackup
DeathsOK ==
  /\ pc = "crash" => wild \/ fault = "rs_back" \/ UnknownBackup
  /\ step = "crash" => Cause
  /\ step = "hang" => conf.global = "missing"

StartInv == ReaderOK /\ PlacesOK /\ HeapOK /\ ThreadsOK /\ DeathsOK

-----------------------------------------------------------------------------
(***************************************************************************)
(* The calls of pthread_join: one for every thread of a group that is      *)
(* started, and only one when no server is named twice.                    *)
(***************************************************************************)
LEMMA ThreadsOfIs ==
  ASSUME NEW s
  PROVE  /\ IsFiniteSet(ThreadsOf(s))
         /\ \A t \in ThreadsOf(s) : \E n \in 1..2 : t = <<"upload", s, n>>
<1>1. IsFiniteSet({<<"upload", s, 1>>} \cup {<<"upload", s, 2>>})
  BY FS_Singleton, FS_Union
<1>2. ThreadsOf(s) \in SUBSET ({<<"upload", s, 1>>} \cup {<<"upload", s, 2>>})
  <2>1. \A n \in 1..2 : n = 1 \/ n = 2
    OBVIOUS
  <2> QED  BY <2>1 DEF ThreadsOf
<1>3. IsFiniteSet(ThreadsOf(s))
  BY <1>1, <1>2, FS_Subset
<1> QED  BY <1>3 DEF ThreadsOf

LEMMA ThreadsApart ==
  ASSUME NEW r, NEW s, NEW t \in ThreadsOf(r), t \in ThreadsOf(s)
  PROVE  r = s
<1>1. PICK m \in 1..2 : t = <<"upload", r, m>>
  BY ThreadsOfIs
<1>2. PICK n \in 1..2 : t = <<"upload", s, n>>
  BY ThreadsOfIs
<1> QED  BY <1>1, <1>2

LEMMA JoinServersIs ==
  ASSUME NEW names \in Seq(Servers \cup {NoServer})
  PROVE  /\ JoinServers(names) \in Seq(Thread)
         /\ \A t : In(t, JoinServers(names)) <=>
                    \E j \in 1..Len(names) : names[j] # NoServer /\ t \in ThreadsOf(names[j])
         /\ (\A p, q \in 1..Len(names) : names[p] = names[q] /\ names[p] # NoServer => p = q)
              => Once(JoinServers(names))
<1> DEFINE part(j) == IF names[j] = NoServer THEN <<>> ELSE SetToSeq(ThreadsOf(names[j]))
           parts == [j \in DOMAIN names |-> part(j)]
<1>1. /\ Len(names) \in Nat /\ DOMAIN names = 1..Len(names)
      /\ \A j \in 1..Len(names) : names[j] \in Servers \cup {NoServer}
  BY LenProperties, ElementOfSeq
<1>2. ASSUME NEW j \in 1..Len(names)
      PROVE  /\ part(j) \in Seq(Thread) /\ Once(part(j))
             /\ \A t : In(t, part(j)) <=> names[j] # NoServer /\ t \in ThreadsOf(names[j])
  <2>1. CASE names[j] = NoServer
    BY <2>1, EmptySeq DEF In, Once
  <2>2. CASE names[j] # NoServer
    <3>1. ThreadsOf(names[j]) \subseteq Thread
      <4>1. names[j] \in Servers
        BY <1>1, <2>2
      <4> QED  BY <4>1, ThreadsOfIs DEF Thread
    <3>2. IsFiniteSet(ThreadsOf(names[j]))
      BY ThreadsOfIs
    <3>3. /\ SetToSeq(ThreadsOf(names[j])) \in Seq(ThreadsOf(names[j])) /\ Once(SetToSeq(ThreadsOf(names[j])))
          /\ \A t : In(t, SetToSeq(ThreadsOf(names[j]))) <=> t \in ThreadsOf(names[j])
      BY <3>2, SetToSeqIs
    <3>4. SetToSeq(ThreadsOf(names[j])) \in Seq(Thread)
      BY <3>1, <3>3, SeqMonotonic
    <3> QED  BY <2>2, <3>3, <3>4
  <2> QED  BY <2>1, <2>2
<1> HIDE DEF part
<1>3. /\ parts \in Seq(Seq(Thread)) /\ Len(parts) = Len(names) /\ \A j \in 1..Len(names) : parts[j] = part(j)
  <2>1. parts \in [1..Len(names) -> Seq(Thread)] /\ \A j \in 1..Len(names) : parts[j] = part(j)
    BY <1>1, <1>2
  <2> HIDE DEF parts
  <2> QED  BY <1>1, <2>1, FunIsSeq
<1>4. JoinServers(names) = FlattenSeq(parts)
  BY DEF JoinServers, part
<1> HIDE DEF parts
<1>5. /\ FlattenSeq(parts) \in Seq(Thread)
      /\ \A x : In(x, FlattenSeq(parts)) <=> \E n \in 1..Len(parts) : In(x, parts[n])
      /\ (\A n \in 1..Len(parts) : Once(parts[n])) /\ Apart(parts) => Once(FlattenSeq(parts))
  BY <1>3, FlattenHolds
<1>6. (\A p, q \in 1..Len(names) : names[p] = names[q] /\ names[p] # NoServer => p = q) => Apart(parts)
  BY <1>2, <1>3, ThreadsApart DEF Apart
<1> QED  BY <1>2, <1>3, <1>4, <1>5, <1>6

LEMMA ServersOfIs ==
  ASSUME NEW list \in Seq(ServerGroup)
  PROVE  /\ \A n \in 1..Len(list) : Names(list[n]) \in Seq(Servers \cup {NoServer})
         /\ \A s : s \in ServersOf(list) <=>
               s # NoServer /\ \E n \in 1..Len(list) : \E j \in 1..Len(Names(list[n])) : Names(list[n])[j] = s
<1>1. DOMAIN list = 1..Len(list) /\ \A n \in 1..Len(list) : list[n] \in ServerGroup
  BY LenProperties, ElementOfSeq
<1>2. ASSUME NEW n \in 1..Len(list)
      PROVE  Names(list[n]) \in Seq(Servers \cup {NoServer})
  <2>1. list[n].prime \in Seq(Servers) /\ list[n].back \in Seq(Servers \cup {NoServer})
    BY <1>1 DEF ServerGroup
  <2>2. list[n].prime \in Seq(Servers \cup {NoServer})
    BY <2>1, SeqMonotonic
  <2> QED  BY <2>1, <2>2, ConcatProperties DEF Names
<1>3. \A n \in 1..Len(list) : DOMAIN Names(list[n]) = 1..Len(Names(list[n]))
  BY <1>2, LenProperties
<1>4. ASSUME NEW s
      PROVE  s \in ServersOf(list) <=>
               s # NoServer /\ \E n \in 1..Len(list) : \E j \in 1..Len(Names(list[n])) : Names(list[n])[j] = s
  <2>1. s \in ServersOf(list) <=>
          s # NoServer /\ \E n \in DOMAIN list : \E j \in DOMAIN Names(list[n]) : s = Names(list[n])[j]
    BY DEF ServersOf
  <2> QED  BY <1>1, <1>3, <2>1
<1> QED  BY <1>2, <1>4

LEMMA TwiceIs ==
  ASSUME NEW g1 \in DOMAIN lists, NEW g2 \in DOMAIN lists, IsEnabled(g1), IsEnabled(g2),
         NEW n1 \in DOMAIN lists[g1], NEW n2 \in DOMAIN lists[g2],
         NEW j1 \in DOMAIN Names(lists[g1][n1]), NEW j2 \in DOMAIN Names(lists[g2][n2]),
         g1 # g2 \/ n1 # n2 \/ j1 # j2,
         Names(lists[g1][n1])[j1] = Names(lists[g2][n2])[j2], Names(lists[g1][n1])[j1] # NoServer
  PROVE  ServerTwice
<1>1. g1 \in {g \in DOMAIN lists : IsEnabled(g)} /\ g2 \in {g \in DOMAIN lists : IsEnabled(g)}
  OBVIOUS
<1>2. <<g1, n1, j1>> # <<g2, n2, j2>>
  OBVIOUS
<1> QED  BY <1>1, <1>2, Zenon DEF ServerTwice

LEMMA JoinsOfIs ==
  ASSUME lists \in Seq(Seq(ServerGroup)), NEW g \in 1..Len(lists), IsEnabled(g)
  PROVE  /\ JoinsOf(g) \in Seq(Thread)
         /\ \A t : In(t, JoinsOf(g)) <=> Belongs(t, g)
         /\ ServerTwice \/ Once(JoinsOf(g))
<1> DEFINE list == lists[g]
           part(n) == JoinServers(Names(list[n]))
           parts == [n \in DOMAIN list |-> part(n)]
           own == <<<<"monitor", g>>, <<"sche", g>>>>
<1>1. list \in Seq(ServerGroup) /\ Len(list) \in Nat /\ DOMAIN list = 1..Len(list) /\ DOMAIN lists = 1..Len(lists)
  BY LenProperties, ElementOfSeq
<1> HIDE DEF list
<1>2. /\ \A n \in 1..Len(list) : Names(list[n]) \in Seq(Servers \cup {NoServer})
      /\ \A s : s \in ServersOf(list) <=>
            s # NoServer /\ \E n \in 1..Len(list) : \E j \in 1..Len(Names(list[n])) : Names(list[n])[j] = s
  BY <1>1, ServersOfIs
<1>3. ASSUME NEW n \in 1..Len(list)
      PROVE  /\ part(n) \in Seq(Thread)
             /\ \A t : In(t, part(n)) <=> \E j \in 1..Len(Names(list[n])) :
                                           Names(list[n])[j] # NoServer /\ t \in ThreadsOf(Names(list[n])[j])
             /\ (\A p, q \in 1..Len(Names(list[n])) :
                    Names(list[n])[p] = Names(list[n])[q] /\ Names(list[n])[p] # NoServer => p = q) => Once(part(n))
  BY <1>2, JoinServersIs
<1> HIDE DEF part
<1>4. /\ parts \in Seq(Seq(Thread)) /\ Len(parts) = Len(list) /\ \A n \in 1..Len(list) : parts[n] = part(n)
  <2>1. parts \in [1..Len(list) -> Seq(Thread)] /\ \A n \in 1..Len(list) : parts[n] = part(n)
    BY <1>1, <1>3
  <2> HIDE DEF parts
  <2> QED  BY <1>1, <2>1, FunIsSeq
<1>5. JoinsOf(g) = own \o FlattenSeq(parts)
  BY DEF JoinsOf, part, list
<1> HIDE DEF parts
<1>6. /\ FlattenSeq(parts) \in Seq(Thread)
      /\ \A x : In(x, FlattenSeq(parts)) <=> \E n \in 1..Len(parts) : In(x, parts[n])
      /\ (\A n \in 1..Len(parts) : Once(parts[n])) /\ Apart(parts) => Once(FlattenSeq(parts))
  BY <1>4, FlattenHolds
<1>7. \A t : In(t, FlattenSeq(parts)) <=> \E s \in ServersOf(list) : t \in ThreadsOf(s)
  <2>1. ASSUME NEW t
        PROVE  In(t, FlattenSeq(parts)) <=>
                 \E n \in 1..Len(list) : \E j \in 1..Len(Names(list[n])) :
                   Names(list[n])[j] # NoServer /\ t \in ThreadsOf(Names(list[n])[j])
    <3>1. \A n \in 1..Len(list) : In(t, parts[n]) <=>
            \E j \in 1..Len(Names(list[n])) : Names(list[n])[j] # NoServer /\ t \in ThreadsOf(Names(list[n])[j])
      BY <1>3, <1>4
    <3> QED  BY <1>4, <1>6, <3>1
  <2> QED  BY <1>2, <2>1
<1>8. /\ own \in Seq(Thread) /\ Once(own)
      /\ \A t : In(t, own) <=> t = <<"monitor", g>> \/ t = <<"sche", g>>
  <2>1. own \in Seq(Thread)
    BY DEF Thread
  <2>2. Len(own) = 2 /\ \A j : j \in 1..2 <=> j = 1 \/ j = 2
    OBVIOUS
  <2>3. own[1] = <<"monitor", g>> /\ own[2] = <<"sche", g>> /\ own[1] # own[2]
    OBVIOUS
  <2> HIDE DEF own
  <2>4. Once(own)
    BY <2>2, <2>3 DEF Once
  <2>5. \A t : In(t, own) <=> t = <<"monitor", g>> \/ t = <<"sche", g>>
    <3>1. \A t : In(t, own) <=> own[1] = t \/ own[2] = t
      BY <2>2 DEF In
    <3> QED  BY <2>3, <3>1
  <2> QED  BY <2>1, <2>4, <2>5
<1> HIDE DEF own
<1>9. JoinsOf(g) \in Seq(Thread) /\ \A t : In(t, JoinsOf(g)) <=> Belongs(t, g)
  <2>1. /\ own \o FlattenSeq(parts) \in Seq(Thread)
        /\ \A x : In(x, own \o FlattenSeq(parts)) <=> In(x, own) \/ In(x, FlattenSeq(parts))
    BY <1>6, <1>8, ConcatIs
  <2> QED  BY <1>5, <1>7, <1>8, <2>1 DEF Belongs, list
<1>10. ASSUME ~ServerTwice
       PROVE  Once(JoinsOf(g))
  <2>1. \A n1, n2 \in 1..Len(list) : \A j1 \in 1..Len(Names(list[n1])), j2 \in 1..Len(Names(list[n2])) :
          Names(list[n1])[j1] = Names(list[n2])[j2] /\ Names(list[n1])[j1] # NoServer => n1 = n2 /\ j1 = j2
    <3>1. \A n \in 1..Len(list) : DOMAIN Names(list[n]) = 1..Len(Names(list[n]))
      BY <1>2, LenProperties
    <3>2. g \in DOMAIN lists
      BY <1>1
    <3>3. ASSUME NEW n1 \in DOMAIN list, NEW n2 \in DOMAIN list,
                 NEW j1 \in DOMAIN Names(list[n1]), NEW j2 \in DOMAIN Names(list[n2]),
                 Names(list[n1])[j1] = Names(list[n2])[j2], Names(list[n1])[j1] # NoServer
          PROVE  n1 = n2 /\ j1 = j2
      <4> USE DEF list
      <4> QED  BY <1>10, <3>2, <3>3, TwiceIs
    <3>4. SUFFICES ASSUME NEW n1 \in 1..Len(list), NEW n2 \in 1..Len(list),
                          NEW j1 \in 1..Len(Names(list[n1])), NEW j2 \in 1..Len(Names(list[n2])),
                          Names(list[n1])[j1] = Names(list[n2])[j2], Names(list[n1])[j1] # NoServer
                   PROVE  n1 = n2 /\ j1 = j2
      OBVIOUS
    <3>5. n1 \in DOMAIN list /\ n2 \in DOMAIN list /\ j1 \in DOMAIN Names(list[n1]) /\ j2 \in DOMAIN Names(list[n2])
      BY <1>1, <3>1
    <3> QED  BY <3>3, <3>4, <3>5
  <2>2. \A n \in 1..Len(parts) : Once(parts[n])
    BY <1>3, <1>4, <2>1
  <2>3. Apart(parts)
    <3>1. ASSUME NEW m \in 1..Len(list), NEW n \in 1..Len(list), m # n, NEW t, In(t, part(m)), In(t, part(n))
          PROVE  FALSE
      <4>1. PICK j1 \in 1..Len(Names(list[m])) : Names(list[m])[j1] # NoServer /\ t \in ThreadsOf(Names(list[m])[j1])
        BY <1>3, <3>1
      <4>2. PICK j2 \in 1..Len(Names(list[n])) : Names(list[n])[j2] # NoServer /\ t \in ThreadsOf(Names(list[n])[j2])
        BY <1>3, <3>1
      <4>3. Names(list[m])[j1] = Names(list[n])[j2]
        BY <4>1, <4>2, ThreadsApart
      <4> QED  BY <2>1, <3>1, <4>1, <4>3
    <3> QED  BY <1>4, <3>1 DEF Apart
  <2>4. \A t : ~(In(t, own) /\ In(t, FlattenSeq(parts)))
    <3>1. \A s : \A t \in ThreadsOf(s) : t # <<"monitor", g>> /\ t # <<"sche", g>>
      <4>1. \A s : \A n : <<"upload", s, n>> # <<"monitor", g>> /\ <<"upload", s, n>> # <<"sche", g>>
        OBVIOUS
      <4> QED  BY <4>1, ThreadsOfIs
    <3> QED  BY <1>7, <1>8, <3>1
  <2> QED  BY <1>5, <1>6, <1>8, <2>2, <2>3, <2>4, ConcatIs
<1> QED  BY <1>9, <1>10

LEMMA JoinsAre ==
  ASSUME lists \in Seq(Seq(ServerGroup)),
         NEW calls, calls = FlattenSeq([g \in DOMAIN lists |-> IF IsEnabled(g) THEN JoinsOf(g) ELSE <<>>])
  PROVE  /\ calls \in Seq(Thread)
         /\ \A t : In(t, calls) <=> \E g \in 1..Len(lists) : Belongs(t, g)
         /\ ServerTwice \/ Once(calls)
<1> DEFINE part(g) == IF IsEnabled(g) THEN JoinsOf(g) ELSE <<>>
           parts == [g \in DOMAIN lists |-> part(g)]
<1>1. /\ Len(lists) \in Nat /\ DOMAIN lists = 1..Len(lists)
      /\ \A g \in 1..Len(lists) : lists[g] \in Seq(ServerGroup)
  BY LenProperties, ElementOfSeq
<1>2. ASSUME NEW g \in 1..Len(lists)
      PROVE  part(g) \in Seq(Thread) /\ (\A t : In(t, part(g)) <=> Belongs(t, g)) /\ (ServerTwice \/ Once(part(g)))
  <2>1. CASE IsEnabled(g)
    BY <2>1, JoinsOfIs
  <2>2. CASE ~IsEnabled(g)
    BY <2>2, EmptySeq DEF In, Once, Belongs
  <2> QED  BY <2>1, <2>2
<1> HIDE DEF part
<1>3. /\ parts \in Seq(Seq(Thread)) /\ Len(parts) = Len(lists) /\ \A g \in 1..Len(lists) : parts[g] = part(g)
  <2>1. parts \in [1..Len(lists) -> Seq(Thread)] /\ \A g \in 1..Len(lists) : parts[g] = part(g)
    BY <1>1, <1>2
  <2> HIDE DEF parts
  <2> QED  BY <1>1, <2>1, FunIsSeq
<1>4. calls = FlattenSeq(parts)
  BY DEF part
<1> HIDE DEF parts
<1>5. /\ FlattenSeq(parts) \in Seq(Thread)
      /\ \A x : In(x, FlattenSeq(parts)) <=> \E n \in 1..Len(parts) : In(x, parts[n])
      /\ (\A n \in 1..Len(parts) : Once(parts[n])) /\ Apart(parts) => Once(FlattenSeq(parts))
  BY <1>3, FlattenHolds
<1>6. ASSUME ~ServerTwice
      PROVE  Apart(parts)
  <2>1. ASSUME NEW m \in 1..Len(lists), NEW n \in 1..Len(lists), m # n, NEW t, Belongs(t, m), Belongs(t, n)
        PROVE  FALSE
    <3>1. IsEnabled(m) /\ IsEnabled(n)
      BY <2>1 DEF Belongs
    <3>2. \A r, s : t \in ThreadsOf(r) /\ t \in ThreadsOf(s) => r = s
      BY ThreadsApart
    <3>3. \A r : t \in ThreadsOf(r) => \A a \in {m, n} : t # <<"monitor", a>> /\ t # <<"sche", a>>
      <4>1. \A r, a, b : <<"upload", r, a>> # <<"monitor", b>> /\ <<"upload", r, a>> # <<"sche", b>>
        OBVIOUS
      <4> QED  BY <4>1, ThreadsOfIs
    <3>4. <<"monitor", m>> # <<"sche", n>> /\ <<"sche", m>> # <<"monitor", n>>
          /\ <<"monitor", m>> # <<"monitor", n>> /\ <<"sche", m>> # <<"sche", n>>
      BY <2>1
    <3>5. PICK s : s \in ServersOf(lists[m]) /\ s \in ServersOf(lists[n])
      BY <2>1, <3>2, <3>3, <3>4 DEF Belongs
    <3>6. PICK n1 \in 1..Len(lists[m]) : \E j1 \in 1..Len(Names(lists[m][n1])) : Names(lists[m][n1])[j1] = s
      BY <1>1, <3>5, ServersOfIs
    <3>7. PICK n2 \in 1..Len(lists[n]) : \E j2 \in 1..Len(Names(lists[n][n2])) : Names(lists[n][n2])[j2] = s
      BY <1>1, <3>5, ServersOfIs
    <3>8. /\ n1 \in DOMAIN lists[m] /\ DOMAIN Names(lists[m][n1]) = 1..Len(Names(lists[m][n1]))
          /\ n2 \in DOMAIN lists[n] /\ DOMAIN Names(lists[n][n2]) = 1..Len(Names(lists[n][n2]))
      <4>1. lists[m] \in Seq(ServerGroup) /\ lists[n] \in Seq(ServerGroup)
        BY <1>1
      <4>2. n1 \in DOMAIN lists[m] /\ n2 \in DOMAIN lists[n]
        BY <4>1, LenProperties
      <4>3. Names(lists[m][n1]) \in Seq(Servers \cup {NoServer}) /\ Names(lists[n][n2]) \in Seq(Servers \cup {NoServer})
        BY <4>1, ServersOfIs
      <4> QED  BY <4>2, <4>3, LenProperties
    <3>9. s # NoServer
      BY <1>1, <3>5, ServersOfIs
    <3>10. ServerTwice
      <4>1. PICK j1 \in 1..Len(Names(lists[m][n1])) : Names(lists[m][n1])[j1] = s
        BY <3>6
      <4>2. PICK j2 \in 1..Len(Names(lists[n][n2])) : Names(lists[n][n2])[j2] = s
        BY <3>7
      <4>3. m \in DOMAIN lists /\ n \in DOMAIN lists /\ m # n
        BY <1>1, <2>1
      <4>4. j1 \in DOMAIN Names(lists[m][n1]) /\ j2 \in DOMAIN Names(lists[n][n2])
        BY <3>8, <4>1, <4>2
      <4>5. Names(lists[m][n1])[j1] = Names(lists[n][n2])[j2] /\ Names(lists[m][n1])[j1] # NoServer
        BY <3>9, <4>1, <4>2
      <4>6. n1 \in DOMAIN lists[m] /\ n2 \in DOMAIN lists[n]
        BY <3>8
      <4> QED  BY <3>1, <4>3, <4>4, <4>5, <4>6, TwiceIs
    <3> QED  BY <1>6, <3>10
  <2> QED  BY <1>2, <1>3, <2>1 DEF Apart
<1> QED  BY <1>2, <1>3, <1>4, <1>5, <1>6

-----------------------------------------------------------------------------
(***************************************************************************)
(* What a step leaves alone.                                               *)
(***************************************************************************)
LEMMA ReaderKept ==
  ASSUME ReaderOK, UNCHANGED readerVars
  PROVE  ReaderOK'
BY DEF ReaderOK, TypeOK, Busy, TextsSplit, SameGroups, Place, PrimesRead, BacksRead, Regular, Groups, Sizes,
       readerVars, vars, environment

LEMMA ReaderIdle ==
  ASSUME ReaderOK, pc = "idle", UNCHANGED vars, known' \subseteq Servers
  PROVE  ReaderOK'
BY DEF ReaderOK, TypeOK, Busy, Regular, Groups, Sizes, vars

LEMMA CauseKept ==
  ASSUME UNCHANGED <<conf, lists, pc, wild, fault, i, back, known>>
  PROVE  (Cause' <=> Cause) /\ (UnknownBackup' <=> UnknownBackup)
<1>1. UNCHANGED SectionMissing
  BY DEF SectionMissing
<1>2. UNCHANGED MappingForValue
  BY DEF MappingForValue
<1>3. UNCHANGED Overrun
  BY DEF Overrun
<1>4. ServerTwice' <=> ServerTwice
  BY DEF ServerTwice, IsEnabled
<1>5. UnknownBackup' <=> UnknownBackup
  BY DEF UnknownBackup
<1> QED  BY <1>1, <1>2, <1>3, <1>4, <1>5 DEF Cause

LEMMA NumIs ==
  ASSUME num \in [servers : Nat, groups : Nat], NEW n \in Nat
  PROVE  /\ [num EXCEPT !.servers = n] \in [servers : Nat, groups : Nat]
         /\ [num EXCEPT !.servers = n].servers = n /\ [num EXCEPT !.servers = n].groups = num.groups
         /\ [num EXCEPT !.groups = n] \in [servers : Nat, groups : Nat]
         /\ [num EXCEPT !.groups = n].groups = n /\ [num EXCEPT !.groups = n].servers = num.servers
OBVIOUS

LEMMA FreesIs ==
  ASSUME heap \cap DOMAIN freed = {}, \A o \in DOMAIN freed : freed[o] = 1, NEW objects \in SUBSET heap
  PROVE  /\ DOMAIN Frees(objects) = DOMAIN freed \cup objects
         /\ \A o \in DOMAIN Frees(objects) : Frees(objects)[o] = 1
         /\ (heap \ objects) \cap DOMAIN Frees(objects) = {}
<1>1. DOMAIN Frees(objects) = DOMAIN freed \cup objects
  BY DEF Frees
<1>2. ASSUME NEW o \in DOMAIN freed \cup objects
      PROVE  Frees(objects)[o] = 1
  <2>1. Frees(objects)[o] = (IF o \in DOMAIN freed THEN freed[o] ELSE 0) + IF o \in objects THEN 1 ELSE 0
    BY DEF Frees
  <2>2. ~(o \in DOMAIN freed /\ o \in objects)
    OBVIOUS
  <2> QED  BY <1>2, <2>1, <2>2
<1> QED  BY <1>1, <1>2

LEMMA Objects ==
  /\ <<"g_server">> # <<"g_monitorgroup">>
  /\ <<"g_server">>[1] = "g_server" /\ <<"g_monitorgroup">>[1] = "g_monitorgroup"
  /\ \A j : <<"pid", j>>[1] = "pid" /\ <<"pid", j>> # <<"g_server">> /\ <<"pid", j>> # <<"g_monitorgroup">>
OBVIOUS

\* No thread is started before all is read.
LEMMA ThreadsBefore ==
  ASSUME ThreadsOK, Fresh \/ Reading, UNCHANGED <<thread, citations>>, step' \notin {"start", "join"}
  PROVE  ThreadsOK'
BY DEF ThreadsOK, Fresh, Reading, Exiting

LEMMA HeapKept ==
  ASSUME HeapOK, UNCHANGED <<heap, freed, num, conf, fault>>, Fresh' => Fresh, step' \notin {"exit_groups", "end"},
         DOMAIN freed = {} \/ Exiting' \/ step' = "crash"
  PROVE  HeapOK'
BY DEF HeapOK

-----------------------------------------------------------------------------
(***************************************************************************)
(* Every step of main, of its threads and of the signal keeps the          *)
(* invariant.                                                              *)
(***************************************************************************)
LEMMA StartInitInv == StartInit => StartInv
<1> SUFFICES ASSUME StartInit
             PROVE  StartInv
  OBVIOUS
<1> USE DEF StartInit, Init
<1>1. ReaderOK
  <2>1. <<>> \in Seq(Tokens) /\ <<>> \in Seq(Seq(Tokens)) /\ <<>> \in Seq(ServerGroup)
    BY EmptySeq
  <2>2. i \in Nat \ {0}
    <3>1. i = 1
      OBVIOUS
    <3> QED  BY <3>1
  <2>3. TypeOK
    BY <2>1, <2>2 DEF TypeOK, ServerGroup
  <2> QED  BY <2>1, <2>3 DEF ReaderOK, Busy
<1>2. PlacesOK
  <2>1. ConfOK(conf)
    BY CasesOK
  <2>2. num \in [servers : Nat, groups : Nat] /\ lists \in Seq(Seq(ServerGroup))
    BY EmptySeq
  <2> QED  BY <2>1, <2>2 DEF PlacesOK
<1>3. HeapOK
  <2>1. num.servers = 0
    OBVIOUS
  <2> QED  BY <2>1 DEF HeapOK
<1>4. ThreadsOK
  BY DEF ThreadsOK, Exiting
<1>5. DeathsOK
  BY DEF DeathsOK
<1> QED  BY <1>1, <1>2, <1>3, <1>4, <1>5 DEF StartInv

LEMMA SettingsStep ==
  ASSUME StartInv, LoadFile \/ global_cfg_init \/ getDBConfig
  PROVE  StartInv'
<1>1. /\ UNCHANGED <<conf, k, num, heap, freed, lists, citations, thread, joins, handler, stop, readerVars>>
      /\ step \in {"load", "global", "db"}
      /\ step' \in {"global", "exit", "db", "init_fail", "crash", "hang", "servers"}
      /\ step' = "crash" => SectionMissing \/ MappingForValue
      /\ step' = "hang" => conf.global = "missing"
  BY DEF LoadFile, global_cfg_init, getDBConfig, SectionMissing, MappingForValue
<1>2. UNCHANGED <<pc, wild, fault, i, back, known>>
  BY <1>1 DEF readerVars, vars, environment
<1>3. ReaderOK'
  BY <1>1, ReaderKept DEF StartInv
<1>4. PlacesOK'
  BY <1>1, <1>2 DEF StartInv, PlacesOK, Fresh
<1>5. HeapOK'
  BY <1>1, <1>2, HeapKept DEF StartInv, HeapOK, Fresh, Exiting
<1>6. ThreadsOK'
  BY <1>1, ThreadsBefore DEF StartInv, Fresh
<1>7. DeathsOK'
  BY <1>1, <1>2, CauseKept DEF StartInv, DeathsOK, Cause
<1> QED  BY <1>3, <1>4, <1>5, <1>6, <1>7 DEF StartInv

LEMMA ServersInitStep ==
  ASSUME StartInv, servers_init
  PROVE  StartInv'
<1>1. /\ step = "servers" /\ k' = 1 /\ heap = {} /\ DOMAIN freed = {} /\ num.servers = 0 /\ lists = <<>>
      /\ UNCHANGED <<conf, lists, citations, thread, joins, handler, stop, readerVars>>
  BY DEF servers_init, StartInv, HeapOK, PlacesOK, Fresh, Exiting
<1>2. UNCHANGED <<pc, wild, fault, i, back, known>>
  BY <1>1 DEF readerVars, vars, environment
<1>3. \/ step' \in {"crash", "init_fail"} /\ UNCHANGED <<heap, freed, num>> /\ (step' = "crash" => SectionMissing)
      \/ /\ num' = [num EXCEPT !.servers = Len(conf.servers)] /\ conf.servers # <<>> /\ UNCHANGED freed
         /\ \/ step' = "init_fail" /\ UNCHANGED heap /\ fault = "g_server"
            \/ step' = "server" /\ heap' = {<<"g_server">>}
  BY <1>1 DEF servers_init, Continue, Fail, SectionMissing
<1>4. conf.servers \in Seq(ServerConf) /\ Len(conf.servers) \in Nat /\ (conf.servers # <<>> => Len(conf.servers) # 0)
  BY LenProperties, EmptySeq DEF StartInv, PlacesOK, ConfOK
<1>5. num' \in [servers : Nat, groups : Nat] /\ (step' = "server" => num'.servers = Len(conf.servers))
  BY <1>3, <1>4, NumIs DEF StartInv, PlacesOK
<1>6. step' = "server" => k' \in 1..Len(conf.servers)
  BY <1>1, <1>3, <1>4
<1>7. ReaderOK'
  BY <1>1, ReaderKept DEF StartInv
<1>8. PlacesOK'
  BY <1>1, <1>2, <1>3, <1>5, <1>6 DEF StartInv, PlacesOK, Fresh
<1>9. HeapOK'
  BY <1>1, <1>2, <1>3 DEF StartInv, HeapOK, Fresh, Exiting
<1>10. ThreadsOK'
  BY <1>1, <1>3, ThreadsBefore DEF StartInv, Fresh
<1>11. DeathsOK'
  BY <1>1, <1>2, <1>3, CauseKept DEF StartInv, DeathsOK, Cause
<1> QED  BY <1>7, <1>8, <1>9, <1>10, <1>11 DEF StartInv

LEMMA ReadServerStep ==
  ASSUME StartInv, ReadServer
  PROVE  StartInv'
<1>1. /\ step = "server" /\ k \in 1..Len(conf.servers) /\ num.servers = Len(conf.servers) /\ Len(conf.servers) \in Nat
      /\ ConfOK(conf) /\ lists = <<>> /\ pc = "idle" /\ DOMAIN freed = {}
      /\ UNCHANGED <<conf, lists, citations, thread, joins, handler, stop, vars, fault, freed, num>>
  BY LenProperties DEF ReadServer, Continue, StartInv, HeapOK, PlacesOK, Fresh, Exiting, ConfOK
<1>2. UNCHANGED <<pc, wild, fault, i, back>>
  BY <1>1 DEF vars
<1>3. \/ /\ heap' = heap \cup {<<"pid", k>>} /\ known' \subseteq Servers
         /\ step' = IF k = num.servers THEN "groups" ELSE "server"
         /\ k' = IF k = num.servers THEN 1 ELSE k + 1
      \/ /\ UNCHANGED <<heap, known, k>> /\ step' \in {"servers_exit", "crash"}
         /\ step' = "crash" => MappingForValue
  BY <1>1, ServerRead DEF ReadServer, Continue, StartInv, ReaderOK
<1>4. known' \subseteq Servers
  BY <1>3 DEF StartInv, ReaderOK
<1>5. ReaderOK'
  BY <1>1, <1>4, ReaderIdle DEF StartInv
<1>6. PlacesOK'
  BY <1>1, <1>2, <1>3 DEF StartInv, PlacesOK, Fresh
<1>7. HeapOK'
  BY <1>1, <1>2, <1>3 DEF StartInv, HeapOK, Fresh, Exiting
<1>8. ThreadsOK'
  BY <1>1, <1>3, ThreadsBefore DEF StartInv, Reading
<1>9. DeathsOK'
  <2>1. CASE step' # "crash"
    BY <1>1, <1>2, <1>3, <2>1 DEF DeathsOK
  <2>2. CASE step' = "crash"
    BY <1>1, <1>2, <1>3, <2>2, CauseKept DEF StartInv, DeathsOK, Cause
  <2> QED  BY <2>1, <2>2
<1> QED  BY <1>5, <1>6, <1>7, <1>8, <1>9 DEF StartInv

\* What servers_exit and monitor_group_exit release is not released again.
LEMMA ServersExitIs ==
  ASSUME HeapOK, PlacesOK, servers_exit
  PROVE  \/ step' = "crash" /\ UNCHANGED <<heap, freed, num>> /\ fault = "g_server"
         \/ /\ num' \in [servers : Nat, groups : Nat] /\ num'.servers = 0 /\ num'.groups = num.groups
            /\ heap' = heap \cap {<<"g_monitorgroup">>}
            /\ heap' \cap DOMAIN freed' = {} /\ \A o \in DOMAIN freed' : freed'[o] = 1
<1>1. CASE num.servers > 0 /\ <<"g_server">> \notin heap
  BY <1>1 DEF servers_exit, HeapOK
<1>2. CASE ~(num.servers > 0 /\ <<"g_server">> \notin heap)
  <2> DEFINE gone == Handles \cup (heap \cap {<<"g_server">>})
  <2>1. heap' = heap \ gone /\ freed' = Frees(gone) /\ num' = [num EXCEPT !.servers = 0]
    BY <1>2 DEF servers_exit
  <2>2. num' \in [servers : Nat, groups : Nat] /\ num'.servers = 0 /\ num'.groups = num.groups
    BY <2>1, NumIs DEF PlacesOK
  <2>3. gone \in SUBSET heap
    BY DEF Handles
  <2>4. heap \ gone = heap \cap {<<"g_monitorgroup">>}
    BY Objects DEF Handles, HeapOK
  <2> HIDE DEF gone
  <2>5. heap' \cap DOMAIN freed' = {} /\ \A o \in DOMAIN freed' : freed'[o] = 1
    BY <2>1, <2>3, FreesIs DEF HeapOK
  <2> QED  BY <2>1, <2>2, <2>4, <2>5
<1> QED  BY <1>1, <1>2

LEMMA GroupExitIs ==
  ASSUME HeapOK, PlacesOK, monitor_group_exit
  PROVE  /\ num' \in [servers : Nat, groups : Nat] /\ num'.servers = num.servers
         /\ heap' = heap \ {<<"g_monitorgroup">>}
         /\ heap' \cap DOMAIN freed' = {} /\ \A o \in DOMAIN freed' : freed'[o] = 1
<1> DEFINE gone == heap \cap {<<"g_monitorgroup">>}
<1>1. heap' = heap \ gone /\ freed' = Frees(gone)
  BY DEF monitor_group_exit, FreeGroups
<1>2. num' \in [servers : Nat, groups : Nat] /\ num'.servers = num.servers
  <2>1. num.groups \in Nat /\ 0 \in Nat
    BY DEF PlacesOK
  <2>2. num' = [num EXCEPT !.groups = num.groups] \/ num' = [num EXCEPT !.groups = 0]
    BY DEF monitor_group_exit, FreeGroups
  <2> QED  BY <2>1, <2>2, NumIs DEF PlacesOK
<1>3. gone \in SUBSET heap
  OBVIOUS
<1>4. heap \ gone = heap \ {<<"g_monitorgroup">>}
  OBVIOUS
<1> HIDE DEF gone
<1>5. heap' \cap DOMAIN freed' = {} /\ \A o \in DOMAIN freed' : freed'[o] = 1
  BY <1>1, <1>3, FreesIs DEF HeapOK
<1> QED  BY <1>1, <1>2, <1>4, <1>5

LEMMA ServersInitFailsStep ==
  ASSUME StartInv, ServersInitFails
  PROVE  StartInv'
<1>1. /\ step = "servers_exit" /\ step' = "init_fail" /\ pc = "idle"
      /\ UNCHANGED <<conf, k, lists, citations, thread, joins, handler, stop, readerVars>>
  BY DEF ServersInitFails, StartInv, PlacesOK
<1>2. UNCHANGED <<pc, wild, fault, i, back, known>>
  BY <1>1 DEF readerVars, vars, environment
<1>3. /\ num' \in [servers : Nat, groups : Nat] /\ num'.servers = 0
      /\ heap' = heap \cap {<<"g_monitorgroup">>}
      /\ heap' \cap DOMAIN freed' = {} /\ \A o \in DOMAIN freed' : freed'[o] = 1
  BY <1>1, ServersExitIs DEF ServersInitFails, StartInv
<1>4. ReaderOK'
  BY <1>1, ReaderKept DEF StartInv
<1>5. PlacesOK'
  BY <1>1, <1>2, <1>3 DEF StartInv, PlacesOK, Fresh
<1>6. HeapOK'
  BY <1>1, <1>2, <1>3 DEF StartInv, HeapOK, Fresh, Exiting
<1>7. ThreadsOK'
  BY <1>1, ThreadsBefore DEF StartInv, Reading
<1>8. DeathsOK'
  BY <1>1, <1>2 DEF StartInv, DeathsOK
<1> QED  BY <1>4, <1>5, <1>6, <1>7, <1>8 DEF StartInv

LEMMA MonitorGroupInitFailsStep ==
  ASSUME StartInv, MonitorGroupInitFails
  PROVE  StartInv'
<1>1. /\ step = "group_exit" /\ step' = "init_fail" /\ pc = "idle"
      /\ UNCHANGED <<conf, k, lists, citations, thread, joins, handler, stop, readerVars>>
  BY DEF MonitorGroupInitFails, StartInv, PlacesOK
<1>2. UNCHANGED <<pc, wild, fault, i, back, known>>
  BY <1>1 DEF readerVars, vars, environment
<1>3. /\ num' \in [servers : Nat, groups : Nat] /\ num'.servers = num.servers
      /\ heap' = heap \ {<<"g_monitorgroup">>}
      /\ heap' \cap DOMAIN freed' = {} /\ \A o \in DOMAIN freed' : freed'[o] = 1
  BY GroupExitIs DEF MonitorGroupInitFails, StartInv
<1>4. ReaderOK'
  BY <1>1, ReaderKept DEF StartInv
<1>5. PlacesOK'
  BY <1>1, <1>2, <1>3 DEF StartInv, PlacesOK, Fresh
<1>6. HeapOK'
  <2>1. <<"g_server">> \in heap => <<"g_server">> \in heap'
    BY <1>3, Objects
  <2> QED  BY <1>1, <1>2, <1>3, <2>1 DEF StartInv, HeapOK, Fresh, Exiting
<1>7. ThreadsOK'
  BY <1>1, ThreadsBefore DEF StartInv, Reading
<1>8. DeathsOK'
  BY <1>1, <1>2 DEF StartInv, DeathsOK
<1> QED  BY <1>4, <1>5, <1>6, <1>7, <1>8 DEF StartInv

LEMMA GroupsInitStep ==
  ASSUME StartInv, monitor_group_init
  PROVE  StartInv'
<1>1. /\ step = "groups" /\ k = 1 /\ lists = <<>> /\ pc = "idle" /\ DOMAIN freed = {}
      /\ UNCHANGED <<conf, k, lists, citations, thread, joins, handler, stop, readerVars>>
  BY DEF monitor_group_init, StartInv, PlacesOK, HeapOK, Exiting
<1>2. UNCHANGED <<pc, wild, fault, i, back, known>>
  BY <1>1 DEF readerVars, vars, environment
<1>3. \/ step' \in {"crash", "init_fail"} /\ UNCHANGED <<heap, freed, num>> /\ (step' = "crash" => SectionMissing)
      \/ /\ num' = [num EXCEPT !.groups = Len(conf.groups)] /\ conf.groups # <<>> /\ UNCHANGED freed
         /\ \/ step' = "init_fail" /\ UNCHANGED heap
            \/ step' = "group" /\ heap' = heap \cup {<<"g_monitorgroup">>}
  BY <1>1 DEF monitor_group_init, Continue, Fail, SectionMissing
<1>4. Len(conf.groups) \in Nat /\ (conf.groups # <<>> => Len(conf.groups) # 0)
  BY LenProperties, EmptySeq DEF StartInv, PlacesOK, ConfOK
<1>5. num' \in [servers : Nat, groups : Nat] /\ num'.servers = num.servers /\ (step' = "group" => num'.groups = Len(conf.groups))
  BY <1>3, <1>4, NumIs DEF StartInv, PlacesOK
<1>6. step' = "group" => 1 \in 1..Len(conf.groups)
  BY <1>3, <1>4
<1>7. ReaderOK'
  BY <1>1, ReaderKept DEF StartInv
<1>8. PlacesOK'
  <2>1. Len(lists) = k - 1
    BY <1>1
  <2> QED  BY <1>1, <1>2, <1>3, <1>5, <1>6, <2>1 DEF StartInv, PlacesOK, Fresh
<1>9. HeapOK'
  <2>1. heap' = heap \/ heap' = heap \cup {<<"g_monitorgroup">>}
    BY <1>3
  <2> QED  BY <1>1, <1>2, <1>3, <1>5, <2>1 DEF StartInv, HeapOK, Fresh, Exiting
<1>10. ThreadsOK'
  BY <1>1, <1>3, ThreadsBefore DEF StartInv, Reading
<1>11. DeathsOK'
  BY <1>1, <1>2, <1>3, CauseKept DEF StartInv, DeathsOK, Cause
<1> QED  BY <1>7, <1>8, <1>9, <1>10, <1>11 DEF StartInv

LEMMA ReadGroupStep ==
  ASSUME StartInv, ReadGroup
  PROVE  StartInv'
<1> DEFINE m == conf.groups[k]
           b == IF m.servers_backup = "null" THEN <<>> ELSE m.back
<1>1. /\ step = "group" /\ pc = "idle" /\ k \in 1..Len(conf.groups) /\ ConfOK(conf) /\ DOMAIN freed = {}
      /\ UNCHANGED <<conf, k, num, heap, freed, lists, citations, thread, joins, handler, stop, environment>>
      /\ step' \in {"text", "group_exit", "crash"}
  BY DEF ReadGroup, StartInv, PlacesOK, HeapOK, Exiting, Continue
<1>2. \/ step' = "text" /\ Call(m.primer, b) /\ m.primer \in Seq(Tokens) /\ b \in Seq(Tokens)
      \/ step' = "group_exit" /\ UNCHANGED vars
      \/ step' = "crash" /\ UNCHANGED vars /\ MappingForValue
  <2>1. \/ get_monitor_group_info(k) = "ok" /\ step' = "text" /\ Call(m.primer, b)
        \/ step' = "group_exit" /\ UNCHANGED vars
        \/ get_monitor_group_info(k) = "crash" /\ step' = "crash" /\ UNCHANGED vars
    BY DEF ReadGroup, Continue
  <2>2. m.primer \in Seq(Tokens) /\ m.back \in Seq(Tokens)
    BY <1>1, GroupConfRead
  <2>3. get_monitor_group_info(k) = "crash" => MappingForValue
    BY <1>1, GroupConfRead
  <2>4. b \in Seq(Tokens)
    BY <2>2, EmptySeq
  <2> HIDE DEF m, b
  <2> QED  BY <2>1, <2>2, <2>3, <2>4
<1> HIDE DEF m, b
<1>3. UNCHANGED known /\ UNCHANGED fault
  BY <1>1 DEF environment
<1>4. ReaderOK'
  <2>1. CASE UNCHANGED vars
    BY <1>1, <2>1, ReaderKept DEF StartInv, readerVars
  <2>2. CASE Call(m.primer, b) /\ m.primer \in Seq(Tokens) /\ b \in Seq(Tokens)
    BY <1>3, <2>2, CallStep DEF StartInv
  <2> QED  BY <1>2, <2>1, <2>2
<1>5. step' \in {"group_exit", "crash"} => UNCHANGED <<pc, wild, i, back>>
  BY <1>2 DEF vars
<1>6. PlacesOK'
  BY <1>1, <1>5 DEF StartInv, PlacesOK, Fresh
<1>7. HeapOK'
  BY <1>1, <1>3, HeapKept DEF StartInv, HeapOK, Fresh
<1>8. ThreadsOK'
  BY <1>1, ThreadsBefore DEF StartInv, Reading
<1>9. DeathsOK'
  <2>1. CASE step' = "text"
    BY <1>2, <2>1 DEF DeathsOK, Call
  <2>2. CASE step' # "text"
    BY <1>1, <1>2, <1>3, <1>5, <2>2, CauseKept DEF StartInv, DeathsOK, Cause
  <2> QED  BY <2>1, <2>2
<1> QED  BY <1>4, <1>6, <1>7, <1>8, <1>9 DEF StartInv

LEMMA ReadTextKeeps ==
  ASSUME StartInv, ReadText
  PROVE  StartInv'
<1>1. /\ step = "text" /\ DOMAIN freed = {} /\ get_upload_group_server_group_list
      /\ UNCHANGED <<conf, step, k, num, heap, freed, lists, citations, thread, joins, handler, stop, known, fault>>
  BY DEF ReadText, startVars, environment, StartInv, HeapOK, Exiting
<1>2. ReaderOK'
  BY <1>1, ReadTextStep DEF StartInv
<1>3. PlacesOK'
  BY <1>1 DEF StartInv, PlacesOK, Fresh
<1>4. HeapOK'
  BY <1>1, HeapKept DEF StartInv, Fresh
<1>5. ThreadsOK'
  BY <1>1, ThreadsBefore DEF StartInv, Reading
<1>6. DeathsOK'
  <2>1. SplitGroups \/ FillPrime => pc' # "crash"
    BY DEF SplitGroups, FillPrime, Error, NextGroup
  <2>2. FillBack => pc' # "crash" \/ wild' \/ fault = "rs_back" \/ UnknownBackup'
    BY <1>1, FillBackDies DEF StartInv
  <2> QED  BY <1>1, <2>1, <2>2 DEF DeathsOK, get_upload_group_server_group_list
<1> QED  BY <1>2, <1>3, <1>4, <1>5, <1>6 DEF StartInv

LEMMA TextReadStep ==
  ASSUME StartInv, TextRead
  PROVE  StartInv'
<1>1. /\ step = "text" /\ k \in 1..Len(conf.groups) /\ num.groups = Len(conf.groups) /\ Len(lists) = k - 1
      /\ DOMAIN freed = {} /\ Len(conf.groups) \in Nat
      /\ lists \in Seq(Seq(ServerGroup)) /\ head \in Seq(ServerGroup)
      /\ UNCHANGED <<conf, num, heap, freed, citations, thread, joins, handler, stop, known, fault>>
  BY LenProperties DEF TextRead, StartInv, PlacesOK, HeapOK, Exiting, environment, ReaderOK, TypeOK, ServerGroup, ConfOK
<1>2. \/ /\ lists' = Append(lists, head) /\ Taken
         /\ step' = IF k = num.groups THEN "show" ELSE "group"
         /\ k' = IF k = num.groups THEN 1 ELSE k + 1
      \/ step' = "group_exit" /\ UNCHANGED <<lists, k>> /\ Taken
      \/ step' = "crash" /\ UNCHANGED <<lists, k, vars>> /\ pc = "crash"
  BY DEF TextRead
<1>3. ReaderOK'
  BY <1>1, <1>2, TakenStep, ReaderKept DEF StartInv, readerVars, environment
<1>4. Append(lists, head) \in Seq(Seq(ServerGroup)) /\ Len(Append(lists, head)) = k
  BY <1>1, AppendProperties
<1>5. step' # "crash" => pc' = "idle" /\ wild' = wild
  BY <1>2 DEF Taken
<1>6. PlacesOK'
  <2>1. CASE lists' = Append(lists, head) /\ k = num.groups /\ step' = "show" /\ k' = 1
    BY <1>1, <1>4, <1>5, <2>1 DEF StartInv, PlacesOK, Fresh
  <2>2. CASE lists' = Append(lists, head) /\ k # num.groups /\ step' = "group" /\ k' = k + 1
    <3>1. k' \in 1..Len(conf.groups) /\ k = k' - 1
      BY <1>1, <2>2
    <3> QED  BY <1>1, <1>4, <1>5, <2>2, <3>1 DEF StartInv, PlacesOK, Fresh
  <2>3. CASE step' \in {"group_exit", "crash"} /\ UNCHANGED <<lists, k>>
    BY <1>1, <1>5, <2>3 DEF StartInv, PlacesOK, Fresh
  <2> QED  BY <1>2, <2>1, <2>2, <2>3
<1>7. step' \in {"show", "group", "group_exit", "crash"}
  BY <1>2
<1>8. HeapOK'
  BY <1>1, <1>7, HeapKept DEF StartInv, Fresh
<1>9. ThreadsOK'
  BY <1>1, <1>7, ThreadsBefore DEF StartInv, Reading
<1>10. DeathsOK'
  <2>1. CASE step' = "crash"
    <3>1. UNCHANGED <<pc, wild, lists, i, back>>
      BY <1>2, <2>1 DEF vars
    <3> QED  BY <1>1, <1>2, <2>1, <3>1, CauseKept DEF StartInv, DeathsOK, Cause
  <2>2. CASE step' # "crash"
    BY <1>5, <1>7, <2>2 DEF DeathsOK
  <2> QED  BY <2>1, <2>2
<1> QED  BY <1>3, <1>6, <1>8, <1>9, <1>10 DEF StartInv

LEMMA ShowStep ==
  ASSUME StartInv, show_upload_server_list
  PROVE  StartInv'
<1>1. /\ step = "show" /\ step' \in {"affinity", "crash"} /\ (step' = "crash" => Overrun) /\ DOMAIN freed = {}
      /\ UNCHANGED <<conf, k, num, heap, freed, lists, citations, thread, joins, handler, stop, readerVars>>
  BY DEF show_upload_server_list, StartInv, HeapOK, Exiting
<1>2. UNCHANGED <<pc, wild, fault, i, back, known>>
  BY <1>1 DEF readerVars, vars, environment
<1>3. ReaderOK'
  BY <1>1, ReaderKept DEF StartInv
<1>4. PlacesOK'
  BY <1>1, <1>2 DEF StartInv, PlacesOK, Fresh
<1>5. HeapOK'
  BY <1>1, <1>2, HeapKept DEF StartInv, Fresh
<1>6. ThreadsOK'
  BY <1>1, ThreadsBefore DEF StartInv, Reading
<1>7. DeathsOK'
  BY <1>1, <1>2, CauseKept DEF StartInv, DeathsOK, Cause
<1> QED  BY <1>3, <1>4, <1>5, <1>6, <1>7 DEF StartInv

LEMMA SetAffinityStep ==
  ASSUME StartInv, SetAffinity
  PROVE  StartInv'
<1>1. /\ step = "affinity" /\ step' \in {"init_fail", "start"} /\ DOMAIN freed = {}
      /\ k = 1 /\ num.groups = Len(lists) /\ Len(lists) \in Nat /\ pc = "idle"
      /\ DOMAIN thread = {} /\ citations = {}
      /\ UNCHANGED <<conf, k, num, heap, freed, lists, citations, thread, joins, stop, readerVars>>
  BY LenProperties DEF SetAffinity, StartInv, HeapOK, PlacesOK, ThreadsOK, Exiting, Reading
<1>2. UNCHANGED <<pc, wild, fault, i, back, known>>
  BY <1>1 DEF readerVars, vars, environment
<1>3. ReaderOK'
  BY <1>1, ReaderKept DEF StartInv
<1>4. PlacesOK'
  <2>1. k \in 1..(Len(lists) + 1)
    BY <1>1
  <2> QED  BY <1>1, <1>2, <2>1 DEF StartInv, PlacesOK, Fresh
<1>5. HeapOK'
  BY <1>1, <1>2, HeapKept DEF StartInv, Fresh
<1>6. ThreadsOK'
  <2>1. \A g \in 1..(k - 1) : FALSE
    BY <1>1
  <2> QED  BY <1>1, <2>1 DEF ThreadsOK, Fresh, Reading, Exiting
<1>7. DeathsOK'
  BY <1>1, <1>2 DEF StartInv, DeathsOK
<1> QED  BY <1>3, <1>4, <1>5, <1>6, <1>7 DEF StartInv

(***************************************************************************)
(* A group is started: none of its threads is there already, because the   *)
(* servers of earlier groups are in citations.                             *)
(***************************************************************************)
LEMMA UploadIs ==
  ASSUME NEW r, NEW t \in ThreadsOf(r), NEW g
  PROVE  t # <<"monitor", g>> /\ t # <<"sche", g>>
<1>1. \A a, b : <<"upload", r, a>> # <<"monitor", b>> /\ <<"upload", r, a>> # <<"sche", b>>
  OBVIOUS
<1> QED  BY <1>1, ThreadsOfIs

LEMMA BelongsApart ==
  ASSUME NEW t, NEW g, NEW h, g # h, Belongs(t, g), t = <<"monitor", h>> \/ t = <<"sche", h>>
  PROVE  FALSE
<1>1. <<"monitor", g>> # <<"sche", h>> /\ <<"sche", g>> # <<"monitor", h>>
      /\ <<"monitor", g>> # <<"monitor", h>> /\ <<"sche", g>> # <<"sche", h>>
  OBVIOUS
<1> QED  BY <1>1, UploadIs DEF Belongs

LEMMA GroupStarts ==
  ASSUME StartInv, StartGroup
  PROVE  /\ Len(lists) \in Nat /\ k \in 1..Len(lists) /\ k' = k + 1 /\ step = "start" /\ step' = "start"
         /\ \A s : s \in citations' <=> s \in citations \/ Mentioned(s, k)
         /\ \A t \in DOMAIN thread : t \in DOMAIN thread' /\ thread'[t] \in {"runs", "ended"}
         /\ \A t \in DOMAIN thread' : thread'[t] \in {"runs", "ended"} /\ (t \in DOMAIN thread \/ Belongs(t, k))
         /\ fault # "create" => \A t : Belongs(t, k) => t \in DOMAIN thread'
<1> DEFINE fresh == {<<"monitor", k>>, <<"sche", k>>} \cup UNION {ThreadsOf(s) : s \in NewServers(k)}
           lost == {<<"lost">> \o t : t \in fresh \cap DOMAIN thread}
<1>1. Len(lists) \in Nat /\ k \in 1..Len(lists) /\ k' = k + 1 /\ step = "start" /\ step' = "start"
  <2>1. lists \in Seq(Seq(ServerGroup)) /\ step = "start" /\ k \in 1..(Len(lists) + 1) /\ num.groups = Len(lists)
        /\ k <= num.groups
    BY DEF StartGroup, StartInv, PlacesOK
  <2>2. Len(lists) \in Nat
    BY <2>1, LenProperties
  <2> QED  BY <2>1, <2>2 DEF StartGroup
<1>2. /\ \A s : s \in citations <=> \E g \in 1..(k - 1) : Mentioned(s, g)
      /\ \A t \in DOMAIN thread : thread[t] \in {"runs", "ended"} /\ \E g \in 1..(k - 1) : Belongs(t, g)
      /\ fault # "create" => \A g \in 1..(k - 1) : \A t : Belongs(t, g) => t \in DOMAIN thread
  BY <1>1 DEF StartInv, ThreadsOK
<1>3. \A g \in 1..(k - 1) : g # k
  BY <1>1
<1>4. ASSUME NEW t \in fresh, t \in DOMAIN thread
      PROVE  FALSE
  <2>1. PICK g \in 1..(k - 1) : Belongs(t, g)
    BY <1>2, <1>4
  <2>2. CASE t = <<"monitor", k>> \/ t = <<"sche", k>>
    BY <1>3, <2>1, <2>2, BelongsApart
  <2>3. CASE \E s \in NewServers(k) : t \in ThreadsOf(s)
    <3>1. PICK s : s \in NewServers(k) /\ t \in ThreadsOf(s)
      BY <2>3
    <3>2. PICK r \in ServersOf(lists[g]) : t \in ThreadsOf(r)
      BY <2>1, <3>1, UploadIs DEF Belongs
    <3>3. r = s
      BY <3>1, <3>2, ThreadsApart
    <3>4. s \in citations
      BY <1>2, <2>1, <3>2, <3>3 DEF Mentioned, Belongs
    <3> QED  BY <3>1, <3>4 DEF NewServers
  <2> QED  BY <2>2, <2>3
<1>5. lost = {}
  BY <1>4
<1>6. \A t : t \in fresh <=> t = <<"monitor", k>> \/ t = <<"sche", k>> \/ \E s \in NewServers(k) : t \in ThreadsOf(s)
  OBVIOUS
<1>7. \/ /\ IsEnabled(k)
         /\ \E made \in SUBSET fresh :
              /\ fault # "create" => made = fresh
              /\ thread' = [t \in DOMAIN thread \cup made \cup lost |-> IF t \in made \cup lost THEN "runs" ELSE thread[t]]
         /\ citations' = citations \cup ServersOf(lists[k])
      \/ ~IsEnabled(k) /\ UNCHANGED <<thread, citations>>
  BY DEF StartGroup
<1> HIDE DEF fresh, lost
<1>8. CASE IsEnabled(k) /\ citations' = citations \cup ServersOf(lists[k])
  <2>1. PICK made \in SUBSET fresh :
          /\ fault # "create" => made = fresh
          /\ thread' = [t \in DOMAIN thread \cup made \cup lost |-> IF t \in made \cup lost THEN "runs" ELSE thread[t]]
    BY <1>7, <1>8
  <2>2. DOMAIN thread' = DOMAIN thread \cup made
        /\ \A t \in DOMAIN thread' : thread'[t] = "runs" \/ (t \in DOMAIN thread /\ thread'[t] = thread[t])
    BY <1>5, <2>1
  <2>3. \A t \in made : Belongs(t, k)
    BY <1>6, <1>8, <2>1 DEF Belongs, NewServers
  <2>4. ASSUME fault # "create", NEW t, Belongs(t, k)
        PROVE  t \in DOMAIN thread'
    <3>1. CASE t = <<"monitor", k>> \/ t = <<"sche", k>>
      BY <1>6, <2>1, <2>2, <2>4, <3>1
    <3>2. CASE \E s \in ServersOf(lists[k]) : t \in ThreadsOf(s)
      <4>1. PICK s \in ServersOf(lists[k]) : t \in ThreadsOf(s)
        BY <3>2
      <4>2. CASE s \in citations
        <5>1. PICK g \in 1..(k - 1) : Mentioned(s, g)
          BY <1>2, <4>2
        <5>2. Belongs(t, g)
          BY <4>1, <5>1 DEF Mentioned, Belongs
        <5> QED  BY <1>2, <2>2, <2>4, <5>2
      <4>3. CASE s \notin citations
        <5>1. s \in NewServers(k)
          BY <4>1, <4>3 DEF NewServers
        <5> QED  BY <1>6, <2>1, <2>2, <2>4, <4>1, <5>1
      <4> QED  BY <4>2, <4>3
    <3> QED  BY <2>4, <3>1, <3>2 DEF Belongs
  <2>5. \A s : s \in citations' <=> s \in citations \/ Mentioned(s, k)
    BY <1>8 DEF Mentioned
  <2>6. \A t \in DOMAIN thread : t \in DOMAIN thread' /\ thread'[t] \in {"runs", "ended"}
    BY <1>2, <2>2
  <2>7. \A t \in DOMAIN thread' : thread'[t] \in {"runs", "ended"} /\ (t \in DOMAIN thread \/ Belongs(t, k))
    BY <1>2, <2>2, <2>3
  <2> QED  BY <1>1, <2>4, <2>5, <2>6, <2>7
<1>9. CASE ~IsEnabled(k) /\ UNCHANGED <<thread, citations>>
  <2>1. \A s : ~Mentioned(s, k) /\ ~Belongs(s, k)
    BY <1>9 DEF Mentioned, Belongs
  <2> QED  BY <1>1, <1>2, <1>9, <2>1
<1> QED  BY <1>7, <1>8, <1>9

LEMMA StartGroupStep ==
  ASSUME StartInv, StartGroup
  PROVE  StartInv'
<1>1. /\ Len(lists) \in Nat /\ k \in 1..Len(lists) /\ k' = k + 1 /\ step = "start" /\ step' = "start"
      /\ \A s : s \in citations' <=> s \in citations \/ Mentioned(s, k)
      /\ \A t \in DOMAIN thread : t \in DOMAIN thread' /\ thread'[t] \in {"runs", "ended"}
      /\ \A t \in DOMAIN thread' : thread'[t] \in {"runs", "ended"} /\ (t \in DOMAIN thread \/ Belongs(t, k))
      /\ fault # "create" => \A t : Belongs(t, k) => t \in DOMAIN thread'
  BY GroupStarts
<1>2. UNCHANGED <<conf, num, heap, freed, lists, joins, handler, stop, readerVars>>
  BY DEF StartGroup
<1>3. UNCHANGED <<pc, wild, fault, i, back, known>>
  BY <1>2 DEF readerVars, vars, environment
<1>4. ReaderOK'
  BY <1>2, ReaderKept DEF StartInv
<1>5. k' \in 1..(Len(lists) + 1)
  BY <1>1
<1>6. PlacesOK'
  BY <1>1, <1>2, <1>3, <1>5 DEF StartInv, PlacesOK, Fresh
<1>7. HeapOK'
  BY <1>1, <1>2, <1>3 DEF StartInv, HeapOK, Fresh, Exiting
<1>8. ThreadsOK'
  <2>1. /\ \A s : s \in citations <=> \E g \in 1..(k - 1) : Mentioned(s, g)
        /\ \A t \in DOMAIN thread : \E g \in 1..(k - 1) : Belongs(t, g)
        /\ fault # "create" => \A g \in 1..(k - 1) : \A t : Belongs(t, g) => t \in DOMAIN thread
        /\ DOMAIN freed = {}
    BY <1>1 DEF StartInv, ThreadsOK, HeapOK, Exiting
  <2>2. \A g : g \in 1..(k' - 1) <=> g \in 1..(k - 1) \/ g = k
    BY <1>1
  <2>3. \A x, g : (Mentioned(x, g)' <=> Mentioned(x, g)) /\ (Belongs(x, g)' <=> Belongs(x, g))
    BY <1>2 DEF Mentioned, Belongs, IsEnabled, ThreadsOf
  <2>4. \A s : s \in citations' <=> \E g \in 1..(k' - 1) : Mentioned(s, g)'
    BY <1>1, <2>1, <2>2, <2>3
  <2>5. \A t \in DOMAIN thread' : thread'[t] \in {"runs", "ended"} /\ \E g \in 1..(k' - 1) : Belongs(t, g)'
    BY <1>1, <2>1, <2>2, <2>3
  <2>6. fault # "create" => \A g \in 1..(k' - 1) : \A t : Belongs(t, g)' => t \in DOMAIN thread'
    BY <1>1, <2>1, <2>2, <2>3
  <2> QED  BY <1>1, <1>2, <1>3, <2>1, <2>4, <2>5, <2>6 DEF ThreadsOK, Fresh, Reading, Exiting
<1>9. DeathsOK'
  <2>1. pc = "idle"
    BY <1>1 DEF StartInv, PlacesOK
  <2> QED  BY <1>1, <1>3, <2>1 DEF DeathsOK
<1> QED  BY <1>4, <1>6, <1>7, <1>8, <1>9 DEF StartInv

LEMMA StartDoneStep ==
  ASSUME StartInv, StartDone
  PROVE  StartInv'
<1>1. /\ step = "start" /\ step' \in {"exit", "join"} /\ DOMAIN freed = {} /\ num.groups = Len(lists)
      /\ lists \in Seq(Seq(ServerGroup)) /\ k \in 1..(Len(lists) + 1) /\ k > Len(lists) /\ pc = "idle"
      /\ UNCHANGED <<conf, k, num, heap, freed, lists, citations, thread, handler, stop, readerVars>>
      /\ step' = "join" => joins' = FlattenSeq([g \in DOMAIN lists |-> IF IsEnabled(g) THEN JoinsOf(g) ELSE <<>>])
  BY DEF StartDone, StartInv, PlacesOK, HeapOK, Exiting
<1>2. UNCHANGED <<pc, wild, fault, i, back, known>>
  BY <1>1 DEF readerVars, vars, environment
<1>3. ReaderOK'
  BY <1>1, ReaderKept DEF StartInv
<1>4. PlacesOK'
  BY <1>1, <1>2 DEF StartInv, PlacesOK, Fresh
<1>5. HeapOK'
  BY <1>1, <1>2, HeapKept DEF StartInv, Fresh
<1>6. k - 1 = Len(lists)
  <2>1. Len(lists) \in Nat
    BY <1>1, LenProperties
  <2> QED  BY <1>1, <2>1
<1>7. /\ \A t \in DOMAIN thread : thread[t] \in {"runs", "ended"} /\ \E g \in 1..Len(lists) : Belongs(t, g)
      /\ fault # "create" => \A g \in 1..Len(lists) : \A t : Belongs(t, g) => t \in DOMAIN thread
  BY <1>1, <1>6 DEF StartInv, ThreadsOK
<1>8. ThreadsOK'
  <2>1. CASE step' = "exit"
    BY <1>1, <2>1 DEF ThreadsOK, Fresh, Reading, Exiting
  <2>2. CASE step' = "join"
    <3>1. /\ joins' \in Seq(Thread)
          /\ \A t : In(t, joins') <=> \E g \in 1..Len(lists) : Belongs(t, g)
          /\ ServerTwice \/ Once(joins')
      BY <1>1, <2>2, JoinsAre
    <3>2. Thread' = Thread
      BY <1>1 DEF Thread
    <3>3. ServerTwice' <=> ServerTwice
      BY <1>1 DEF ServerTwice, IsEnabled
    <3>4. \A t \in DOMAIN thread' : thread'[t] = "joined" \/ (thread'[t] \in {"runs", "ended"} /\ In(t, joins'))
      BY <1>1, <1>7, <3>1
    <3>5. fault = "create" \/ \A t : In(t, joins') => t \in DOMAIN thread' /\ thread'[t] # "joined"
      BY <1>1, <1>7, <3>1
    <3> QED  BY <1>1, <1>2, <2>2, <3>1, <3>2, <3>3, <3>4, <3>5 DEF ThreadsOK, Fresh, Reading, Exiting
  <2> QED  BY <1>1, <2>1, <2>2
<1>9. DeathsOK'
  BY <1>1, <1>2 DEF StartInv, DeathsOK
<1> QED  BY <1>3, <1>4, <1>5, <1>8, <1>9 DEF StartInv

LEMMA TailIs ==
  ASSUME NEW V, NEW s \in Seq(V), s # <<>>
  PROVE  /\ Tail(s) \in Seq(V) /\ In(Head(s), s)
         /\ \A x : In(x, s) => x = Head(s) \/ In(x, Tail(s))
         /\ \A x : In(x, Tail(s)) => In(x, s)
         /\ Once(s) => Once(Tail(s)) /\ ~In(Head(s), Tail(s))
<1> DEFINE n == Len(s)
           r == Tail(s)
<1>1. /\ n \in Nat \ {0} /\ r \in Seq(V) /\ Len(r) = n - 1 /\ Head(s) = s[1]
      /\ \A j \in 1..(n - 1) : r[j] = s[j + 1]
  BY EmptySeq, LenProperties, HeadTailProperties
<1> HIDE DEF n, r
<1>2. /\ 1 \in 1..n /\ \A j \in 1..(n - 1) : j + 1 \in 1..n /\ j + 1 # 1
      /\ \A j \in 1..n : j = 1 \/ (j - 1 \in 1..(n - 1) /\ (j - 1) + 1 = j)
  BY <1>1
<1>3. In(Head(s), s)
  BY <1>1, <1>2 DEF In, n
<1>4. \A x : In(x, s) => x = Head(s) \/ In(x, r)
  <2>1. ASSUME NEW j \in 1..n
        PROVE  s[j] = Head(s) \/ In(s[j], r)
    <3>1. CASE j = 1
      BY <1>1, <3>1
    <3>2. CASE j - 1 \in 1..(n - 1) /\ (j - 1) + 1 = j
      <4>1. r[j - 1] = s[j]
        BY <1>1, <3>2
      <4> QED  BY <1>1, <3>2, <4>1 DEF In
    <3> QED  BY <1>2, <3>1, <3>2
  <2> QED  BY <2>1 DEF In, n
<1>5. \A x : In(x, r) => In(x, s)
  BY <1>1, <1>2 DEF In, n
<1>6. ASSUME Once(s)
      PROVE  Once(r) /\ ~In(Head(s), r)
  <2>1. ~In(Head(s), r)
    BY <1>1, <1>2, <1>6 DEF Once, In, n
  <2>2. ASSUME NEW p \in 1..(n - 1), NEW q \in 1..(n - 1), r[p] = r[q]
        PROVE  p = q
    <3>1. p + 1 = q + 1
      BY <1>1, <1>2, <1>6, <2>2 DEF Once, n
    <3> QED  BY <3>1
  <2> QED  BY <1>1, <2>1, <2>2 DEF Once
<1> QED  BY <1>1, <1>3, <1>4, <1>5, <1>6 DEF r

LEMMA JoinStep ==
  ASSUME StartInv, Join
  PROVE  StartInv'
<1> DEFINE t == Head(joins)
           valid == {u \in DOMAIN thread : thread[u] # "joined"}
<1>1. /\ step = "join" /\ joins # <<>> /\ DOMAIN freed = {} /\ pc = "idle" /\ joins \in Seq(Thread)
      /\ UNCHANGED <<conf, k, num, heap, freed, lists, citations, handler, stop, readerVars>>
      /\ \A u \in DOMAIN thread : thread[u] = "joined" \/ (thread[u] \in {"runs", "ended"} /\ In(u, joins))
      /\ fault = "create" \/ ServerTwice \/
           (Once(joins) /\ \A u : In(u, joins) => u \in DOMAIN thread /\ thread[u] # "joined")
  BY DEF Join, StartInv, PlacesOK, HeapOK, ThreadsOK, Exiting
<1>2. \/ /\ t \in DOMAIN thread /\ thread' = [thread EXCEPT ![t] = "joined"] /\ joins' = Tail(joins) /\ step' = "join"
      \/ t \notin valid /\ UNCHANGED thread /\ joins' = Tail(joins) /\ step' = "join"
      \/ t \notin valid /\ UNCHANGED thread /\ step' = "crash" /\ UNCHANGED joins
  BY <1>1 DEF Join
<1>3. UNCHANGED <<pc, wild, fault, i, back, known>>
  BY <1>1 DEF readerVars, vars, environment
<1>4. ReaderOK'
  BY <1>1, ReaderKept DEF StartInv
<1>5. PlacesOK'
  BY <1>1, <1>2, <1>3 DEF StartInv, PlacesOK, Fresh
<1>6. HeapOK'
  BY <1>1, <1>2, <1>3, HeapKept DEF StartInv, Fresh
<1>7. /\ Tail(joins) \in Seq(Thread) /\ In(t, joins)
      /\ \A x : In(x, joins) => x = t \/ In(x, Tail(joins))
      /\ \A x : In(x, Tail(joins)) => In(x, joins)
      /\ Once(joins) => Once(Tail(joins)) /\ ~In(t, Tail(joins))
  BY <1>1, TailIs
<1>8. Thread' = Thread /\ (ServerTwice' <=> ServerTwice)
  BY <1>1 DEF Thread, ServerTwice, IsEnabled
<1>9. ThreadsOK'
  <2>1. CASE t \in DOMAIN thread /\ thread' = [thread EXCEPT ![t] = "joined"] /\ joins' = Tail(joins) /\ step' = "join"
    <3>1. DOMAIN thread' = DOMAIN thread /\ \A u \in DOMAIN thread : thread'[u] = IF u = t THEN "joined" ELSE thread[u]
      BY <2>1
    <3> HIDE DEF t, valid
    <3>2. \A u \in DOMAIN thread' : thread'[u] = "joined" \/ (thread'[u] \in {"runs", "ended"} /\ In(u, joins'))
      BY <1>1, <1>7, <2>1, <3>1
    <3>3. fault = "create" \/ ServerTwice \/
           (Once(joins') /\ \A u : In(u, joins') => u \in DOMAIN thread' /\ thread'[u] # "joined")
      BY <1>1, <1>7, <2>1, <3>1
    <3> QED  BY <1>1, <1>3, <1>7, <1>8, <2>1, <3>2, <3>3 DEF ThreadsOK, Fresh, Reading, Exiting
  <2>2. CASE t \notin valid /\ UNCHANGED thread /\ joins' = Tail(joins) /\ step' = "join"
    <3>1. \A u \in DOMAIN thread : u = t => thread[u] = "joined"
      BY <2>2
    <3> HIDE DEF t, valid
    <3>2. \A u \in DOMAIN thread' : thread'[u] = "joined" \/ (thread'[u] \in {"runs", "ended"} /\ In(u, joins'))
      BY <1>1, <1>7, <2>2, <3>1
    <3>3. fault = "create" \/ ServerTwice \/
           (Once(joins') /\ \A u : In(u, joins') => u \in DOMAIN thread' /\ thread'[u] # "joined")
      BY <1>1, <1>7, <2>2, <3>1
    <3> QED  BY <1>1, <1>3, <1>7, <1>8, <2>2, <3>2, <3>3 DEF ThreadsOK, Fresh, Reading, Exiting
  <2>3. CASE step' = "crash" /\ UNCHANGED thread
    BY <1>1, <2>3 DEF ThreadsOK, Fresh, Reading, Exiting
  <2> QED  BY <1>2, <2>1, <2>2, <2>3
<1>10. DeathsOK'
  <2>1. step' = "crash" => fault = "create" \/ ServerTwice
    BY <1>1, <1>2, <1>7
  <2>2. step' \in {"join", "crash"}
    BY <1>2
  <2> QED  BY <1>1, <1>3, <2>1, <2>2, CauseKept DEF DeathsOK, Cause
<1> QED  BY <1>4, <1>5, <1>6, <1>9, <1>10 DEF StartInv

LEMMA JoinedStep ==
  ASSUME StartInv, Joined
  PROVE  StartInv'
<1>1. /\ step = "join" /\ joins = <<>> /\ step' = "init_fail" /\ pc = "idle"
      /\ \A u \in DOMAIN thread : thread[u] = "joined" \/ In(u, joins)
      /\ UNCHANGED <<conf, k, num, heap, freed, lists, citations, thread, joins, handler, stop, readerVars>>
  BY DEF Joined, StartInv, PlacesOK, ThreadsOK
<1>2. UNCHANGED <<pc, wild, fault, i, back, known>>
  BY <1>1 DEF readerVars, vars, environment
<1>3. ReaderOK'
  BY <1>1, ReaderKept DEF StartInv
<1>4. PlacesOK'
  BY <1>1, <1>2 DEF StartInv, PlacesOK, Fresh
<1>5. HeapOK'
  BY <1>1, <1>2, HeapKept DEF StartInv, Fresh, Exiting
<1>6. ThreadsOK'
  <2>1. \A u : ~In(u, <<>>)
    BY DEF In
  <2> QED  BY <1>1, <2>1 DEF ThreadsOK, Fresh, Reading
<1>7. DeathsOK'
  BY <1>1, <1>2 DEF StartInv, DeathsOK
<1> QED  BY <1>3, <1>4, <1>5, <1>6, <1>7 DEF StartInv

LEMMA ExitServersStep ==
  ASSUME StartInv, ExitServers
  PROVE  StartInv'
<1>1. /\ step = "init_fail" /\ pc = "idle" /\ \A u \in DOMAIN thread : thread[u] = "joined"
      /\ UNCHANGED <<conf, k, lists, citations, thread, joins, handler, stop, readerVars>>
  BY DEF ExitServers, StartInv, PlacesOK, ThreadsOK, Exiting
<1>2. UNCHANGED <<pc, wild, fault, i, back, known>>
  BY <1>1 DEF readerVars, vars, environment
<1>3. \/ step' = "crash" /\ UNCHANGED <<heap, freed, num>> /\ fault = "g_server"
      \/ /\ step' = "exit_groups"
         /\ num' \in [servers : Nat, groups : Nat] /\ num'.servers = 0
         /\ heap' = heap \cap {<<"g_monitorgroup">>}
         /\ heap' \cap DOMAIN freed' = {} /\ \A o \in DOMAIN freed' : freed'[o] = 1
  <2>1. CASE num.servers > 0 /\ <<"g_server">> \notin heap
    BY <2>1 DEF ExitServers, servers_exit, StartInv, HeapOK
  <2>2. CASE ~(num.servers > 0 /\ <<"g_server">> \notin heap)
    <3>1. step' = "exit_groups"
      BY <2>2 DEF ExitServers
    <3>2. HeapOK /\ PlacesOK /\ servers_exit
      BY DEF ExitServers, StartInv
    <3> QED  BY <3>1, <3>2, ServersExitIs
  <2> QED  BY <2>1, <2>2
<1>4. ReaderOK'
  BY <1>1, ReaderKept DEF StartInv
<1>5. PlacesOK'
  BY <1>1, <1>2, <1>3 DEF StartInv, PlacesOK, Fresh
<1>6. HeapOK'
  BY <1>1, <1>2, <1>3 DEF StartInv, HeapOK, Fresh, Exiting
<1>7. ThreadsOK'
  BY <1>1, <1>3 DEF ThreadsOK, Fresh, Reading
<1>8. DeathsOK'
  BY <1>1, <1>2, <1>3, CauseKept DEF StartInv, DeathsOK, Cause
<1> QED  BY <1>4, <1>5, <1>6, <1>7, <1>8 DEF StartInv

LEMMA ExitGroupsStep ==
  ASSUME StartInv, ExitGroups
  PROVE  StartInv'
<1>1. /\ step = "exit_groups" /\ step' = "end" /\ pc = "idle" /\ \A u \in DOMAIN thread : thread[u] = "joined"
      /\ num.servers = 0 /\ heap \subseteq {<<"g_monitorgroup">>}
      /\ UNCHANGED <<conf, k, lists, citations, thread, joins, handler, stop, readerVars>>
  BY DEF ExitGroups, StartInv, PlacesOK, HeapOK, ThreadsOK, Exiting
<1>2. UNCHANGED <<pc, wild, fault, i, back, known>>
  BY <1>1 DEF readerVars, vars, environment
<1>3. /\ num' \in [servers : Nat, groups : Nat] /\ num'.servers = num.servers
      /\ heap' = heap \ {<<"g_monitorgroup">>}
      /\ heap' \cap DOMAIN freed' = {} /\ \A o \in DOMAIN freed' : freed'[o] = 1
  BY GroupExitIs DEF ExitGroups, StartInv
<1>4. ReaderOK'
  BY <1>1, ReaderKept DEF StartInv
<1>5. PlacesOK'
  BY <1>1, <1>2, <1>3 DEF StartInv, PlacesOK, Fresh
<1>6. HeapOK'
  <2>1. heap' = {}
    BY <1>1, <1>3
  <2> QED  BY <1>1, <1>2, <1>3, <2>1 DEF StartInv, HeapOK, Fresh, Exiting
<1>7. ThreadsOK'
  BY <1>1 DEF ThreadsOK, Fresh, Reading
<1>8. DeathsOK'
  BY <1>1, <1>2 DEF StartInv, DeathsOK
<1> QED  BY <1>4, <1>5, <1>6, <1>7, <1>8 DEF StartInv

\* The signal and the end of a thread.
LEMMA OutsideStep ==
  ASSUME StartInv, signal_func \/ \E t \in DOMAIN thread : ThreadEnds(t)
  PROVE  StartInv'
<1>1. UNCHANGED <<conf, step, k, num, heap, freed, lists, citations, joins, handler, readerVars>>
  BY DEF signal_func, ThreadEnds
<1>2. UNCHANGED <<pc, wild, fault, i, back, known>>
  BY <1>1 DEF readerVars, vars, environment
<1>3. ReaderOK'
  BY <1>1, ReaderKept DEF StartInv
<1>4. PlacesOK'
  BY <1>1, <1>2 DEF StartInv, PlacesOK, Fresh
<1>5. HeapOK'
  BY <1>1, <1>2 DEF StartInv, HeapOK, Fresh, Exiting
<1>6. /\ Thread' = Thread /\ (ServerTwice' <=> ServerTwice)
      /\ \A x, g : (Mentioned(x, g)' <=> Mentioned(x, g)) /\ (Belongs(x, g)' <=> Belongs(x, g))
  BY <1>1 DEF Thread, ServerTwice, Mentioned, Belongs, IsEnabled, ThreadsOf
<1>7. ThreadsOK'
  <2>1. CASE UNCHANGED thread
    BY <1>1, <1>2, <1>6, <2>1 DEF StartInv, ThreadsOK, Fresh, Reading, Exiting
  <2>2. CASE \E t \in DOMAIN thread : thread[t] = "runs" /\ thread' = [thread EXCEPT ![t] = "ended"]
    <3>1. PICK t \in DOMAIN thread : thread[t] = "runs" /\ thread' = [thread EXCEPT ![t] = "ended"]
      BY <2>2
    <3>2. DOMAIN thread' = DOMAIN thread /\ \A u \in DOMAIN thread : thread'[u] = IF u = t THEN "ended" ELSE thread[u]
      BY <3>1
    <3>3. ~Fresh /\ ~Reading /\ ~Exiting /\ DOMAIN freed = {}
      BY <3>1 DEF StartInv, ThreadsOK
    <3>4. \A u \in DOMAIN thread : thread[u] \in {"runs", "ended"} => thread'[u] \in {"runs", "ended"}
      BY <3>2
    <3>5. \A u \in DOMAIN thread : (thread'[u] = "joined") <=> (thread[u] = "joined")
      BY <3>1, <3>2
    <3>6. ASSUME step = "start"
          PROVE  /\ \A s : s \in citations <=> \E g \in 1..(k - 1) : Mentioned(s, g)
                 /\ \A u \in DOMAIN thread' : thread'[u] \in {"runs", "ended"} /\ \E g \in 1..(k - 1) : Belongs(u, g)
                 /\ fault # "create" => \A g \in 1..(k - 1) : \A u : Belongs(u, g) => u \in DOMAIN thread'
      BY <3>2, <3>4, <3>6 DEF StartInv, ThreadsOK
    <3>7. ASSUME step = "join"
          PROVE  /\ joins \in Seq(Thread)
                 /\ \A u \in DOMAIN thread' : thread'[u] = "joined" \/ (thread'[u] \in {"runs", "ended"} /\ In(u, joins))
                 /\ fault = "create" \/ ServerTwice \/
                      (Once(joins) /\ \A u : In(u, joins) => u \in DOMAIN thread' /\ thread'[u] # "joined")
      BY <3>2, <3>4, <3>5, <3>7 DEF StartInv, ThreadsOK
    <3> QED  BY <1>1, <1>2, <1>6, <3>3, <3>6, <3>7 DEF ThreadsOK, Fresh, Reading, Exiting
  <2> QED  BY <2>1, <2>2 DEF signal_func, ThreadEnds
<1>8. DeathsOK'
  BY <1>1, <1>2, CauseKept DEF StartInv, DeathsOK
<1> QED  BY <1>3, <1>4, <1>5, <1>7, <1>8 DEF StartInv

LEMMA StartNextInv == StartInv /\ [StartNext]_allVars => StartInv'
<1> SUFFICES ASSUME StartInv, [StartNext]_allVars
             PROVE  StartInv'
  OBVIOUS
<1>1. CASE LoadFile \/ global_cfg_init \/ getDBConfig
  BY <1>1, SettingsStep
<1>2. CASE servers_init \/ ReadServer \/ ServersInitFails
  BY <1>2, ServersInitStep, ReadServerStep, ServersInitFailsStep
<1>3. CASE monitor_group_init \/ ReadGroup \/ ReadText \/ TextRead \/ show_upload_server_list \/ MonitorGroupInitFails
  BY <1>3, GroupsInitStep, ReadGroupStep, ReadTextKeeps, TextReadStep, ShowStep, MonitorGroupInitFailsStep
<1>4. CASE SetAffinity \/ StartGroup \/ StartDone \/ Join \/ Joined
  BY <1>4, SetAffinityStep, StartGroupStep, StartDoneStep, JoinStep, JoinedStep
<1>5. CASE ExitServers \/ ExitGroups
  BY <1>5, ExitServersStep, ExitGroupsStep
<1>6. CASE signal_func \/ \E t \in DOMAIN thread : ThreadEnds(t)
  BY <1>6, OutsideStep
<1>7. CASE UNCHANGED allVars
  <2>1. UNCHANGED <<conf, step, k, num, heap, freed, lists, citations, thread, joins, handler, stop, readerVars>>
    BY <1>7 DEF allVars, startVars
  <2>2. UNCHANGED <<pc, wild, fault, i, back, known>>
    BY <2>1 DEF readerVars, vars, environment
  <2>3. ReaderOK'
    BY <2>1, ReaderKept DEF StartInv
  <2>4. PlacesOK'
    BY <2>1, <2>2 DEF StartInv, PlacesOK, Fresh
  <2>5. HeapOK'
    BY <2>1, <2>2 DEF StartInv, HeapOK, Fresh, Exiting
  <2>6. /\ Thread' = Thread /\ (ServerTwice' <=> ServerTwice)
        /\ \A x, g : (Mentioned(x, g)' <=> Mentioned(x, g)) /\ (Belongs(x, g)' <=> Belongs(x, g))
    BY <2>1 DEF Thread, ServerTwice, Mentioned, Belongs, IsEnabled, ThreadsOf
  <2>7. ThreadsOK'
    BY <2>1, <2>2, <2>6 DEF StartInv, ThreadsOK, Fresh, Reading, Exiting
  <2>8. DeathsOK'
    BY <2>1, <2>2, CauseKept DEF StartInv, DeathsOK
  <2> QED  BY <2>3, <2>4, <2>5, <2>7, <2>8 DEF StartInv
<1> QED  BY <1>1, <1>2, <1>3, <1>4, <1>5, <1>6, <1>7 DEF StartNext, Main

LEMMA StartInvHolds == StartSpec => []StartInv
BY StartInitInv, StartNextInv, PTL DEF StartSpec

-----------------------------------------------------------------------------
(***************************************************************************)
(* For every list of configurations, whatever fails for want of resources: *)
(* every group of an accepted configuration has exactly the primaries that *)
(* its text names, so that the scheduling thread never finds a NULL first  *)
(* server (monitor.c:816).                                                 *)
(***************************************************************************)
THEOREM AcceptedHasItsPrimaries == StartSpec => []PrimariesExact
<1>1. StartInv => PrimariesExact
  BY ReaderGuarantees DEF StartInv, DeathsOK
<1> QED  BY <1>1, StartInvHolds, PTL

(***************************************************************************)
(* For texts of a regular form the indices of the loop over the backups    *)
(* (monitor.c:139) stay inside the arrays, and an accepted group has the   *)
(* backups that its text names.                                            *)
(***************************************************************************)
THEOREM RegularTextsAreSafe == StartSpec => []RegularBackups
<1>1. StartInv => RegularBackups
  BY ReaderGuarantees DEF StartInv, DeathsOK
<1> QED  BY <1>1, StartInvHolds, PTL

(***************************************************************************)
(* servers_exit and monitor_group_exit, which are called by the readers    *)
(* that fail and again by newiup_exit, free every list once, and not while *)
(* a thread may still use it.                                              *)
(***************************************************************************)
THEOREM NothingFreedTwice == StartSpec => []ReleasedOnce
<1>1. StartInv => ReleasedOnce
  <2>1. ASSUME StartInv
        PROVE  /\ step = "end" => heap = {} /\ num.servers = 0
               /\ \A t \in DOMAIN thread : DOMAIN freed # {} => thread[t] # "runs"
    BY <2>1 DEF StartInv, HeapOK, ThreadsOK
  <2>2. ASSUME StartInv, NEW o \in DOMAIN freed
        PROVE  freed[o] <= 1
    <3>1. freed[o] = 1
      BY <2>2 DEF StartInv, HeapOK
    <3> QED  BY <3>1
  <2> QED  BY <2>1, <2>2 DEF ReleasedOnce
<1> QED  BY <1>1, StartInvHolds, PTL

(***************************************************************************)
(* What main can die of is listed by CrashesOnlyWhere: with all sections   *)
(* and values there, regular texts, no server named twice in the groups    *)
(* that are started and memory and threads to be had, it reaches its end   *)
(* or waits for its threads.                                               *)
(***************************************************************************)
THEOREM DiesOnlyOf == StartSpec => []CrashesOnlyWhere
<1>1. StartInv => CrashesOnlyWhere
  BY DEF StartInv, DeathsOK, Cause, CrashesOnlyWhere
<1> QED  BY <1>1, StartInvHolds, PTL
=============================================================================
