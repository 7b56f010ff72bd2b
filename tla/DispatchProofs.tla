--------------------------- MODULE DispatchProofs ---------------------------
(***************************************************************************)
(* Proofs about Dispatch, in two parts.  First the memory of the dispatch  *)
(* core: it is sound for every number of files, monitor groups, servers,   *)
(* upload threads and heap cells, every configuration of server groups,    *)
(* and with or without I/O errors, crashes and restarts.  Then the files   *)
(* on disk: what the marker files stand for over crashes and restarts,     *)
(* that the daemon keeps its promise to the program that drops files       *)
(* (Delivery), that a running daemon forgets no file, and that max-upload  *)
(* bounds what a run finishes.                                             *)
(***************************************************************************)
EXTENDS Dispatch, TLAPS, FiniteSetTheorems

-----------------------------------------------------------------------------
(***************************************************************************)
(* Queues.  What pushing, popping and moving the head to the end do to     *)
(* InQ and NoRepeat; afterwards both are used only through these lemmas.   *)
(***************************************************************************)

\* A queue holds what was pushed and what it held before.
LEMMA PushInQ ==
  ASSUME NEW S, NEW q \in Seq(S), NEW x \in S
  PROVE  /\ Append(q, x) \in Seq(S)
         /\ \A y : InQ(Append(q, x), y) <=> InQ(q, y) \/ y = x
         /\ NoRepeat(q) /\ ~InQ(q, x) => NoRepeat(Append(q, x))
<1>1. /\ Append(q, x) \in Seq(S)
      /\ Len(q) \in Nat
      /\ Len(Append(q, x)) = Len(q) + 1
      /\ Append(q, x)[Len(q) + 1] = x
      /\ \A i \in 1..Len(q) : Append(q, x)[i] = q[i]
  OBVIOUS
<1>2. ASSUME NEW y
      PROVE  InQ(Append(q, x), y) <=> InQ(q, y) \/ y = x
  BY <1>1 DEF InQ
<1>3. NoRepeat(q) /\ ~InQ(q, x) => NoRepeat(Append(q, x))
  BY <1>1 DEF InQ, NoRepeat
<1> QED  BY <1>1, <1>2, <1>3

\* The head of a queue leaves it, and the rest stays.
LEMMA PopInQ ==
  ASSUME NEW S, NEW q \in Seq(S), q # <<>>
  PROVE  /\ Head(q) \in S /\ InQ(q, Head(q))
         /\ Tail(q) \in Seq(S)
         /\ \A y : InQ(q, y) <=> InQ(Tail(q), y) \/ y = Head(q)
         /\ NoRepeat(q) => NoRepeat(Tail(q)) /\ ~InQ(Tail(q), Head(q))
<1>1. /\ Len(q) \in Nat /\ Len(q) >= 1
      /\ Head(q) = q[1] /\ Head(q) \in S
      /\ Tail(q) \in Seq(S)
      /\ Len(Tail(q)) = Len(q) - 1
      /\ \A i \in 1..(Len(q) - 1) : Tail(q)[i] = q[i + 1]
  OBVIOUS
<1>2. InQ(q, Head(q))
  BY <1>1 DEF InQ
<1>3. ASSUME NEW y
      PROVE  InQ(q, y) <=> InQ(Tail(q), y) \/ y = Head(q)
  <2>1. ASSUME NEW i \in 1..Len(q), q[i] = y, i # 1
        PROVE  InQ(Tail(q), y)
    <3>1. i - 1 \in 1..(Len(q) - 1) /\ q[(i - 1) + 1] = y
      BY <1>1, <2>1
    <3> QED  BY <1>1, <3>1 DEF InQ
  <2>2. ASSUME NEW i \in 1..Len(Tail(q)), Tail(q)[i] = y
        PROVE  InQ(q, y)
    <3>1. i + 1 \in 1..Len(q) /\ q[i + 1] = y
      BY <1>1, <2>2
    <3> QED  BY <3>1 DEF InQ
  <2> QED  BY <1>1, <1>2, <2>1, <2>2 DEF InQ
<1>4. ASSUME NoRepeat(q)
      PROVE  NoRepeat(Tail(q)) /\ ~InQ(Tail(q), Head(q))
  BY <1>1, <1>4 DEF InQ, NoRepeat
<1> QED  BY <1>1, <1>2, <1>3, <1>4

\* Moving the head to the end changes only the order.
LEMMA RotateInQ ==
  ASSUME NEW S, NEW q \in Seq(S), q # <<>>, NoRepeat(q)
  PROVE  /\ Append(Tail(q), Head(q)) \in Seq(S)
         /\ \A y : InQ(Append(Tail(q), Head(q)), y) <=> InQ(q, y)
         /\ NoRepeat(Append(Tail(q), Head(q)))
<1> DEFINE t == Tail(q)
<1> DEFINE h == Head(q)
<1>1. /\ h \in S /\ t \in Seq(S)
      /\ \A y : InQ(q, y) <=> InQ(t, y) \/ y = h
      /\ NoRepeat(t) /\ ~InQ(t, h)
  BY PopInQ
<1> HIDE DEF t, h
<1>2. /\ Append(t, h) \in Seq(S)
      /\ \A y : InQ(Append(t, h), y) <=> InQ(t, y) \/ y = h
      /\ NoRepeat(Append(t, h))
  BY <1>1, PushInQ
<1>3. /\ Append(t, h) \in Seq(S)
      /\ \A y : InQ(Append(t, h), y) <=> InQ(q, y)
      /\ NoRepeat(Append(t, h))
  BY <1>1, <1>2
<1> QED  BY <1>3 DEF t, h

LEMMA EmptyInQ == NoRepeat(<<>>) /\ \A y : ~InQ(<<>>, y)
BY DEF InQ, NoRepeat

-----------------------------------------------------------------------------
(***************************************************************************)
(* The configuration.                                                      *)
(***************************************************************************)

LEMMA SeqElement ==
  ASSUME NEW S, NEW q \in Seq(S), NEW i \in 1..Len(q)
  PROVE  q[i] \in S
OBVIOUS

\* Every group has a server group, and each is named after a server.
LEMMA SglFacts ==
  ASSUME NEW m \in Monitors
  PROVE  /\ Len(Sgl[m]) \in Nat
         /\ Groups(m) = 1..Len(Sgl[m])
         /\ 1 \in Groups(m)
         /\ \A i \in Groups(m) : SgName(m, i) \in Servers
<1> DEFINE SG == [prime : Seq(Servers), back : Seq(Servers \cup {NoServer})]
<1>1. /\ Sgl[m] \in Seq(SG)
      /\ Sgl[m] # <<>>
      /\ \A i \in DOMAIN Sgl[m] : Sgl[m][i].prime # <<>>
  BY ConfigAssumption
<1>2. Len(Sgl[m]) \in Nat /\ Groups(m) = 1..Len(Sgl[m]) /\ 1 \in Groups(m)
  BY <1>1 DEF Groups
<1>3. ASSUME NEW i \in Groups(m)
      PROVE  SgName(m, i) \in Servers
  <2> DEFINE g == Sgl[m][i]
  <2>1. g \in SG
    <3> HIDE DEF SG
    <3> QED  BY <1>1, <1>2, SeqElement
  <2>2. g.prime \in Seq(Servers) /\ g.prime # <<>>
    BY <1>1, <2>1 DEF Groups
  <2> HIDE DEF g
  <2>3. g.prime[1] \in Servers
    BY <2>2
  <2> QED  BY <2>3 DEF SgName, g
<1> QED  BY <1>2, <1>3

\* What upload_real_server_sche_rr returns is a server.
LEMMA TargetIsServer ==
  ASSUME NEW m \in Monitors, NEW i \in Groups(m), NEW s \in Target(m, i)
  PROVE  s \in Servers
<1> DEFINE SG == [prime : Seq(Servers), back : Seq(Servers \cup {NoServer})]
<1>1. Sgl[m][i] \in SG
  <2>1. Sgl[m] \in Seq(SG) /\ i \in 1..Len(Sgl[m])
    BY SglFacts, ConfigAssumption
  <2> HIDE DEF SG
  <2> QED  BY <2>1, SeqElement
<1>2. Sgl[m][i].prime \in Seq(Servers \cup {NoServer}) /\ Sgl[m][i].back \in Seq(Servers \cup {NoServer})
  BY <1>1
<1>3. ASSUME NEW rs \in Seq(Servers \cup {NoServer}), s \in Chosen(rs)
      PROVE  s \in Servers
  BY <1>3 DEF Chosen, Available
<1> QED  BY <1>2, <1>3 DEF Target

-----------------------------------------------------------------------------
(***************************************************************************)
(* Steps that move no node and no copy.                                    *)
(***************************************************************************)
SameMemory == UNCHANGED <<memVars, schq, srvq, snode, wcopy>>

\* A scheduling thread goes on with the node it has, or without one.
ScheGoesOn ==
  \A m \in Monitors :
    /\ spc'[m] \in ScheIdle <=> spc[m] \in ScheIdle
    /\ si'[m] \in Groups(m)
    /\ spc'[m] \in ScheFresh => spc[m] \in ScheFresh
    /\ spc'[m] \in ScheLoop =>
         spc[m] \in ScheFresh \/ (spc[m] \in ScheLoop /\ si'[m] >= si[m])

UploadGoesOn == \A t \in Threads : wpc'[t] \in UploadIdle <=> wpc[t] \in UploadIdle

PhaseGoesOn == phase' = "run" \/ (phase' = phase /\ Joined')

\* Outside "head" and "exit" a scheduling thread has a live node of its group.
LEMMA HeldNode ==
  ASSUME MemoryInv, NEW m \in Monitors, spc[m] \notin ScheIdle
  PROVE  snode[m] \in Nodes /\ snode[m] # NoNode /\ nfile[snode[m]] # NoFile /\ nmon[snode[m]] = m
<1>1. snode[m] # NoNode
  BY DEF MemoryInv, ControlOK
<1> QED  BY <1>1 DEF MemoryInv, TypeOK, NodeInOnePlace

LEMMA ScheStays ==
  ASSUME MemoryInv, UNCHANGED <<spc, si>>
  PROVE  ScheGoesOn
<1>1. \A m \in Monitors : si[m] \in Groups(m) /\ si[m] \in Nat
  BY DEF MemoryInv, ControlOK, TypeOK
<1> QED  BY <1>1 DEF ScheGoesOn

LEMMA QuietStep ==
  ASSUME MemoryInv, TypeOK', SameMemory, ScheGoesOn, UploadGoesOn, PhaseGoesOn
  PROVE  MemoryInv'
<1> USE DEF MemoryInv, SameMemory, memVars
<1>1. ControlOK'
  BY DEF ControlOK, ScheGoesOn, UploadGoesOn, Groups
<1>2. NodeInOnePlace'
  BY DEF NodeInOnePlace
<1>3. CopyInOnePlace'
  BY DEF CopyInOnePlace
<1>4. NoDanglingCopy' /\ RetainExact' /\ OneCopyPerGroup'
  BY DEF NoDanglingCopy, RetainExact, OneCopyPerGroup, CopiesOf
<1>5. NotServedYet'
  <2> SUFFICES ASSUME NEW m \in Monitors
               PROVE  /\ spc'[m] \in ScheFresh => CopiesOf(snode[m])' = {}
                      /\ spc'[m] \in ScheLoop =>
                           \A c \in CopiesOf(snode[m])' : csg'[c] < si'[m]
    BY DEF NotServedYet, CopiesOf
  <2>1. CopiesOf(snode[m])' = CopiesOf(snode[m]) /\ csg' = csg
    BY DEF CopiesOf
  <2>2. si[m] \in Nat /\ si'[m] \in Nat /\ \A c \in Copies : csg[c] \in Nat
    BY DEF TypeOK
  <2>3. spc'[m] \in ScheFresh => CopiesOf(snode[m])' = {}
    BY <2>1 DEF ScheGoesOn, NotServedYet
  <2>4. ASSUME spc'[m] \in ScheLoop, NEW c \in CopiesOf(snode[m])
        PROVE  csg[c] < si'[m]
    <3>1. CASE spc[m] \in ScheFresh
      BY <2>4, <3>1 DEF NotServedYet
    <3>2. CASE spc[m] \in ScheLoop /\ si'[m] >= si[m]
      BY <2>2, <2>4, <3>2 DEF NotServedYet, CopiesOf
    <3> QED  BY <2>4, <3>1, <3>2 DEF ScheGoesOn
  <2> QED  BY <2>1, <2>3, <2>4
<1>6. PhaseOK'
  BY DEF PhaseOK, PhaseGoesOn
<1> QED  BY <1>1, <1>2, <1>3, <1>4, <1>5, <1>6

-----------------------------------------------------------------------------
(***************************************************************************)
(* Originals: added, popped, put back, dropped.  srvq and the upload       *)
(* threads stay as they are.                                               *)
(***************************************************************************)
UploadSame == UNCHANGED <<srvq, upVars>>

LEMMA AddStep ==
  ASSUME MemoryInv, TypeOK', NEW m \in Monitors, NEW f \in Files,
         queue_node_add(m, f), UploadSame, UNCHANGED scheVars,
         phase = "run", phase' = "run"
  PROVE  MemoryInv'
<1> USE DEF MemoryInv
<1>1. CASE FreeNodes = {} /\ UNCHANGED <<memVars, schq>>
  <2>1. ScheGoesOn
    BY ScheStays DEF scheVars
  <2>2. SameMemory /\ UploadGoesOn /\ PhaseGoesOn
    BY <1>1 DEF SameMemory, UploadGoesOn, PhaseGoesOn, UploadSame, scheVars, upVars
  <2> QED  BY <2>1, <2>2, QuietStep
<1>2. ASSUME NEW n \in FreeNodes,
             nfile' = [nfile EXCEPT ![n] = f],
             nmon' = [nmon EXCEPT ![n] = m],
             retain' = [retain EXCEPT ![n] = 0],
             schq' = [schq EXCEPT ![m] = Append(@, n)],
             UNCHANGED <<cnode, csg>>
      PROVE  MemoryInv'
  <2>1. n \in Nodes /\ nfile[n] = NoFile /\ f # NoFile
    BY NullAssumption DEF FreeNodes
  <2>2. CopiesOf(n) = {} /\ \A k \in Nodes : CopiesOf(k)' = CopiesOf(k)
    BY <1>2, <2>1, NullAssumption DEF CopiesOf, NoDanglingCopy
  <2>3. /\ \A k \in Nodes : nfile'[k] = IF k = n THEN f ELSE nfile[k]
        /\ \A k \in Nodes : nmon'[k] = IF k = n THEN m ELSE nmon[k]
        /\ \A k \in Nodes : retain'[k] = IF k = n THEN 0 ELSE retain[k]
        /\ \A k \in Monitors : schq'[k] = IF k = m THEN Append(schq[m], n) ELSE schq[k]
    BY <1>2 DEF TypeOK
  <2>4. /\ \A k \in Monitors : ~InQ(schq[k], n) /\ snode[k] # n
        /\ \A k \in Monitors : NoRepeat(schq[k]) /\ schq[k] \in Seq(Nodes)
    BY <2>1, NullAssumption DEF NodeInOnePlace, TypeOK
  <2>5. /\ \A y : InQ(schq'[m], y) <=> InQ(schq[m], y) \/ y = n
        /\ NoRepeat(schq'[m])
    BY <2>1, <2>3, <2>4, PushInQ
  <2>6. NodeInOnePlace'
    <3>1. ASSUME NEW k \in Nodes, nfile'[k] # NoFile
          PROVE  /\ nmon'[k] \in Monitors
                 /\ snode'[nmon'[k]] = k \/ InQ(schq'[nmon'[k]], k)
      <4>1. CASE k = n
        BY <2>3, <2>5, <4>1
      <4>2. CASE k # n
        BY <2>3, <2>5, <3>1, <4>2 DEF NodeInOnePlace, scheVars
      <4> QED  BY <4>1, <4>2
    <3>2. ASSUME NEW k \in Monitors, snode'[k] # NoNode
          PROVE  nfile'[snode'[k]] # NoFile /\ nmon'[snode'[k]] = k
      BY <2>3, <2>4, <3>2 DEF NodeInOnePlace, TypeOK, scheVars
    <3>3. ASSUME NEW k \in Monitors, NEW x \in Nodes, InQ(schq'[k], x)
          PROVE  nfile'[x] # NoFile /\ nmon'[x] = k /\ snode'[k] # x
      BY <2>1, <2>3, <2>4, <2>5, <3>3 DEF NodeInOnePlace, scheVars
    <3>4. ASSUME NEW k \in Monitors
          PROVE  NoRepeat(schq'[k])
      BY <2>3, <2>4, <2>5
    <3> QED  BY <3>1, <3>2, <3>3, <3>4 DEF NodeInOnePlace
  <2>7. ControlOK'
    BY <1>2, <2>1, <2>3 DEF ControlOK, NoDanglingCopy, UploadSame, upVars, scheVars,
                            Groups, TypeOK
  <2>8. CopyInOnePlace' /\ OneCopyPerGroup'
    BY <1>2 DEF CopyInOnePlace, OneCopyPerGroup, UploadSame, upVars
  <2>9. NoDanglingCopy'
    BY <1>2, <2>1, <2>3, NullAssumption DEF NoDanglingCopy, TypeOK
  <2>10. RetainExact'
    <3> SUFFICES ASSUME NEW k \in Nodes, nfile'[k] # NoFile
                 PROVE  retain'[k] = Cardinality(CopiesOf(k)')
      BY DEF RetainExact, CopiesOf
    <3>1. CASE k = n
      BY <2>2, <2>3, <3>1, FS_EmptySet
    <3>2. CASE k # n
      BY <2>2, <2>3, <3>2 DEF RetainExact
    <3> QED  BY <3>1, <3>2
  <2>11. NotServedYet'
    BY <1>2 DEF NotServedYet, CopiesOf, scheVars
  <2> QED  BY <2>6, <2>7, <2>8, <2>9, <2>10, <2>11 DEF PhaseOK
<1> QED  BY <1>1, <1>2 DEF queue_node_add

\* Moving originals between a queue and the scheduling thread: what is left
\* to show is where they are afterwards.
LEMMA MoveStep ==
  ASSUME MemoryInv, TypeOK', UNCHANGED memVars, UploadSame,
         phase = "run", phase' = "run",
         NodeInOnePlace', NotServedYet',
         \A m \in Monitors :
           si'[m] \in Groups(m) /\ (snode'[m] = NoNode <=> spc'[m] \in ScheIdle)
  PROVE  MemoryInv'
<1> USE DEF MemoryInv, memVars
<1>1. ControlOK'
  BY DEF ControlOK, UploadSame, upVars, Groups
<1>2. CopyInOnePlace' /\ NoDanglingCopy' /\ RetainExact' /\ OneCopyPerGroup'
  BY DEF CopyInOnePlace, NoDanglingCopy, RetainExact, OneCopyPerGroup, CopiesOf,
         UploadSame, upVars
<1> QED  BY <1>1, <1>2 DEF PhaseOK

LEMMA SchePopStep ==
  ASSUME MemoryInv, TypeOK', NEW m \in Monitors, SchePop(m)
  PROVE  MemoryInv'
<1> USE DEF MemoryInv
<1> DEFINE q == schq[m]
<1> DEFINE n == Head(q)
<1>1. /\ spc[m] = "head" /\ q # <<>> /\ UNCHANGED memVars /\ UploadSame
      /\ phase' = phase
  BY DEF SchePop, scheFrame, UploadSame
<1>2. phase = "run"
  BY <1>1 DEF PhaseOK, Joined
<1>3. /\ q \in Seq(Nodes) /\ NoRepeat(q) /\ n \in Nodes /\ InQ(q, n)
      /\ Tail(q) \in Seq(Nodes) /\ NoRepeat(Tail(q)) /\ ~InQ(Tail(q), n)
      /\ \A y : InQ(q, y) <=> InQ(Tail(q), y) \/ y = n
  <2>1. q \in Seq(Nodes) /\ NoRepeat(q)
    BY DEF TypeOK, NodeInOnePlace
  <2> HIDE DEF q
  <2> QED  BY <1>1, <2>1, PopInQ
<1>4. snode[m] = NoNode /\ n # NoNode /\ nfile[n] # NoFile /\ nmon[n] = m
  BY <1>1, <1>3, NullAssumption DEF ControlOK, NodeInOnePlace, ScheIdle
<1>5. CASE retain[n] # 0
  <2>1. schq' = [schq EXCEPT ![m] = Append(Tail(@), n)] /\ UNCHANGED scheVars
    BY <1>5 DEF SchePop
  <2>2. \A k \in Monitors : schq'[k] = IF k = m THEN Append(Tail(q), n) ELSE schq[k]
    BY <2>1 DEF TypeOK
  <2>3. NoRepeat(schq'[m]) /\ \A y : InQ(schq'[m], y) <=> InQ(q, y)
    <3> HIDE DEF q
    <3> QED  BY <1>1, <1>3, <2>2, RotateInQ
  <2>4. NodeInOnePlace'
    <3>1. /\ \A k \in Monitors, y \in Nodes : InQ(schq'[k], y) <=> InQ(schq[k], y)
          /\ \A k \in Monitors : NoRepeat(schq'[k])
      BY <2>2, <2>3 DEF NodeInOnePlace
    <3> QED  BY <1>1, <2>1, <3>1 DEF NodeInOnePlace, memVars, scheVars
  <2>5. NotServedYet'
    BY <1>1, <2>1 DEF NotServedYet, CopiesOf, memVars, scheVars
  <2>6. \A k \in Monitors :
          si'[k] \in Groups(k) /\ (snode'[k] = NoNode <=> spc'[k] \in ScheIdle)
    BY <2>1 DEF ControlOK, scheVars
  <2> QED  BY <1>1, <1>2, <2>4, <2>5, <2>6, MoveStep
<1>6. CASE retain[n] = 0
  <2>1. /\ schq' = [schq EXCEPT ![m] = Tail(@)]
        /\ snode' = [snode EXCEPT ![m] = n]
        /\ spc' = [spc EXCEPT ![m] = "src"]
        /\ UNCHANGED si
    BY <1>6 DEF SchePop, Goto
  <2>2. /\ \A k \in Monitors : schq'[k] = IF k = m THEN Tail(q) ELSE schq[k]
        /\ \A k \in Monitors : snode'[k] = IF k = m THEN n ELSE snode[k]
        /\ \A k \in Monitors : spc'[k] = IF k = m THEN "src" ELSE spc[k]
    BY <2>1 DEF TypeOK
  <2>3. CopiesOf(n) = {}
    <3>1. Cardinality(CopiesOf(n)) = 0
      BY <1>3, <1>4, <1>6 DEF RetainExact
    <3>2. IsFiniteSet(CopiesOf(n))
      BY BoundAssumption, FS_Subset DEF CopiesOf
    <3> QED  BY <3>1, <3>2, FS_EmptySet
  <2>4. NodeInOnePlace'
    <3> HIDE DEF n, q
    <3>1. ASSUME NEW x \in Nodes, nfile'[x] # NoFile
          PROVE  /\ nmon'[x] \in Monitors
                 /\ snode'[nmon'[x]] = x \/ InQ(schq'[nmon'[x]], x)
      <4>1. nfile[x] # NoFile /\ nmon'[x] = nmon[x] /\ nmon[x] \in Monitors
        BY <1>1, <3>1 DEF NodeInOnePlace, memVars
      <4>2. CASE nmon[x] # m
        BY <2>2, <4>1, <4>2 DEF NodeInOnePlace
      <4>3. CASE nmon[x] = m
        <5>1. InQ(q, x)
          BY <1>4, <4>1, <4>3, NullAssumption DEF NodeInOnePlace, q
        <5> QED  BY <1>3, <2>2, <4>1, <4>3, <5>1
      <4> QED  BY <4>2, <4>3
    <3>2. ASSUME NEW k \in Monitors, snode'[k] # NoNode
          PROVE  nfile'[snode'[k]] # NoFile /\ nmon'[snode'[k]] = k
      BY <1>1, <1>4, <2>2, <3>2 DEF NodeInOnePlace, memVars
    <3>3. ASSUME NEW k \in Monitors, NEW x \in Nodes, InQ(schq'[k], x)
          PROVE  nfile'[x] # NoFile /\ nmon'[x] = k /\ snode'[k] # x
      <4>1. InQ(schq[k], x)
        BY <1>3, <2>2, <3>3 DEF q
      <4>2. snode'[k] # x
        BY <1>3, <2>2, <3>3, <4>1 DEF NodeInOnePlace
      <4> QED  BY <1>1, <4>1, <4>2 DEF NodeInOnePlace, memVars
    <3>4. ASSUME NEW k \in Monitors
          PROVE  NoRepeat(schq'[k])
      BY <1>3, <2>2 DEF NodeInOnePlace
    <3> QED  BY <3>1, <3>2, <3>3, <3>4 DEF NodeInOnePlace
  <2>5. NotServedYet'
    <3> HIDE DEF n, q
    <3> QED  BY <1>1, <2>1, <2>2, <2>3 DEF NotServedYet, CopiesOf, memVars, ScheLoop
  <2>6. \A k \in Monitors :
          si'[k] \in Groups(k) /\ (snode'[k] = NoNode <=> spc'[k] \in ScheIdle)
    <3> HIDE DEF n, q
    <3> QED  BY <1>4, <2>1, <2>2 DEF ControlOK, ScheIdle
  <2> QED  BY <1>1, <1>2, <2>4, <2>5, <2>6, MoveStep
<1> QED  BY <1>5, <1>6

LEMMA SchePushStep ==
  ASSUME MemoryInv, TypeOK', NEW m \in Monitors, SchePush(m)
  PROVE  MemoryInv'
<1> USE DEF MemoryInv
<1> DEFINE n == snode[m]
<1>1. /\ spc[m] = "push" /\ UNCHANGED <<memVars, si>> /\ UploadSame
      /\ phase' = phase
      /\ schq' = [schq EXCEPT ![m] = Append(@, n)]
      /\ snode' = [snode EXCEPT ![m] = NoNode]
      /\ spc' = [spc EXCEPT ![m] = "head"]
  BY DEF SchePush, scheFrame, UploadSame, Goto
<1>2. phase = "run"
  BY <1>1 DEF PhaseOK, Joined
<1>3. n \in Nodes /\ n # NoNode /\ nfile[n] # NoFile /\ nmon[n] = m /\ ~InQ(schq[m], n)
  BY <1>1, NullAssumption DEF ControlOK, NodeInOnePlace, ScheIdle, TypeOK
<1>4. /\ \A k \in Monitors : schq'[k] = IF k = m THEN Append(schq[m], n) ELSE schq[k]
      /\ \A k \in Monitors : snode'[k] = IF k = m THEN NoNode ELSE snode[k]
      /\ \A k \in Monitors : spc'[k] = IF k = m THEN "head" ELSE spc[k]
  BY <1>1 DEF TypeOK
<1> HIDE DEF n
<1>5. NoRepeat(schq'[m]) /\ \A y : InQ(schq'[m], y) <=> InQ(schq[m], y) \/ y = n
  <2>1. schq[m] \in Seq(Nodes) /\ NoRepeat(schq[m])
    BY DEF TypeOK, NodeInOnePlace
  <2> QED  BY <1>3, <1>4, <2>1, PushInQ
<1>6. NodeInOnePlace'
  <2>1. ASSUME NEW x \in Nodes, nfile'[x] # NoFile
        PROVE  /\ nmon'[x] \in Monitors
               /\ snode'[nmon'[x]] = x \/ InQ(schq'[nmon'[x]], x)
    <3>1. /\ nfile[x] # NoFile /\ nmon'[x] = nmon[x] /\ nmon[x] \in Monitors
          /\ snode[nmon[x]] = x \/ InQ(schq[nmon[x]], x)
      BY <1>1, <2>1 DEF NodeInOnePlace, memVars
    <3> QED  BY <1>4, <1>5, <3>1 DEF n
  <2>2. ASSUME NEW k \in Monitors, snode'[k] # NoNode
        PROVE  nfile'[snode'[k]] # NoFile /\ nmon'[snode'[k]] = k
    BY <1>1, <1>4, <2>2 DEF NodeInOnePlace, memVars
  <2>3. ASSUME NEW k \in Monitors, NEW x \in Nodes, InQ(schq'[k], x)
        PROVE  nfile'[x] # NoFile /\ nmon'[x] = k /\ snode'[k] # x
    BY <1>1, <1>3, <1>4, <1>5, <2>3, NullAssumption DEF NodeInOnePlace, memVars
  <2>4. ASSUME NEW k \in Monitors
        PROVE  NoRepeat(schq'[k])
    BY <1>4, <1>5 DEF NodeInOnePlace
  <2> QED  BY <2>1, <2>2, <2>3, <2>4 DEF NodeInOnePlace
<1>7. NotServedYet'
  BY <1>1, <1>4 DEF NotServedYet, CopiesOf, memVars, ScheLoop, ScheFresh
<1>8. \A k \in Monitors :
        si'[k] \in Groups(k) /\ (snode'[k] = NoNode <=> spc'[k] \in ScheIdle)
  BY <1>1, <1>4 DEF ControlOK, ScheIdle
<1> QED  BY <1>1, <1>2, <1>6, <1>7, <1>8, MoveStep

\* A node is dropped while it has no copy.
LEMMA DropStep ==
  ASSUME MemoryInv, TypeOK', NEW m \in Monitors, spc[m] \in ScheFresh,
         DropNode(m), UploadSame, UNCHANGED <<schq, si, phase>>
  PROVE  MemoryInv'
<1> USE DEF MemoryInv
<1> DEFINE n == snode[m]
<1>1. /\ nfile' = [nfile EXCEPT ![n] = NoFile]
      /\ nmon' = [nmon EXCEPT ![n] = NoMonitor]
      /\ UNCHANGED <<retain, cnode, csg>>
      /\ snode' = [snode EXCEPT ![m] = NoNode]
      /\ spc' = [spc EXCEPT ![m] = "head"]
  BY DEF DropNode, free_original, Goto
<1>2. phase = "run"
  BY DEF PhaseOK, Joined, ScheFresh
<1>3. n \in Nodes /\ n # NoNode /\ nfile[n] # NoFile /\ nmon[n] = m
  BY HeldNode DEF ScheIdle, ScheFresh
<1>4. CopiesOf(n) = {}
  BY DEF NotServedYet
<1>5. /\ \A k \in Nodes : nfile'[k] = IF k = n THEN NoFile ELSE nfile[k]
      /\ \A k \in Nodes : nmon'[k] = IF k = n THEN NoMonitor ELSE nmon[k]
      /\ \A k \in Monitors : snode'[k] = IF k = m THEN NoNode ELSE snode[k]
      /\ \A k \in Monitors : spc'[k] = IF k = m THEN "head" ELSE spc[k]
  BY <1>1 DEF TypeOK
<1>6. \A k \in Monitors : ~InQ(schq[k], n)
  BY <1>3 DEF NodeInOnePlace
<1>7. \A c \in Copies : cnode[c] # n
  BY <1>4 DEF CopiesOf
<1> HIDE DEF n
<1>8. NodeInOnePlace'
  <2>1. ASSUME NEW x \in Nodes, nfile'[x] # NoFile
        PROVE  /\ nmon'[x] \in Monitors
               /\ snode'[nmon'[x]] = x \/ InQ(schq'[nmon'[x]], x)
    <3>1. x # n /\ nfile[x] # NoFile /\ nmon'[x] = nmon[x]
      BY <1>5, <2>1
    <3>2. nmon[x] \in Monitors /\ (snode[nmon[x]] = x \/ InQ(schq[nmon[x]], x))
      BY <3>1 DEF NodeInOnePlace
    <3> QED  BY <1>5, <3>1, <3>2 DEF n
  <2>2. ASSUME NEW k \in Monitors, snode'[k] # NoNode
        PROVE  nfile'[snode'[k]] # NoFile /\ nmon'[snode'[k]] = k
    <3>1. k # m /\ snode'[k] = snode[k] /\ snode[k] \in Nodes /\ nmon[snode[k]] = k
          /\ nfile[snode[k]] # NoFile
      BY <1>5, <2>2 DEF NodeInOnePlace, TypeOK
    <3> QED  BY <1>3, <1>5, <3>1
  <2>3. ASSUME NEW k \in Monitors, NEW x \in Nodes, InQ(schq'[k], x)
        PROVE  nfile'[x] # NoFile /\ nmon'[x] = k /\ snode'[k] # x
    <3>1. InQ(schq[k], x) /\ x # n /\ nfile[x] # NoFile /\ nmon[x] = k /\ snode[k] # x
      BY <1>6, <2>3 DEF NodeInOnePlace
    <3> QED  BY <1>5, <3>1, NullAssumption
  <2>4. ASSUME NEW k \in Monitors
        PROVE  NoRepeat(schq'[k])
    BY DEF NodeInOnePlace
  <2> QED  BY <2>1, <2>2, <2>3, <2>4 DEF NodeInOnePlace
<1>9. ControlOK'
  <2>1. \A c \in Copies : cnode'[c] # NoNode => csg'[c] \in Groups(nmon'[cnode'[c]])
    BY <1>1, <1>5, <1>7 DEF ControlOK, TypeOK
  <2> QED  BY <1>5, <2>1 DEF ControlOK, UploadSame, upVars, ScheIdle
<1>10. CopyInOnePlace' /\ OneCopyPerGroup'
  BY <1>1 DEF CopyInOnePlace, OneCopyPerGroup, UploadSame, upVars
<1>11. NoDanglingCopy' /\ RetainExact'
  BY <1>1, <1>5, <1>7 DEF NoDanglingCopy, RetainExact, CopiesOf, TypeOK
<1>12. NotServedYet'
  BY <1>1, <1>5 DEF NotServedYet, CopiesOf, ScheFresh, ScheLoop
<1> QED  BY <1>2, <1>8, <1>9, <1>10, <1>11, <1>12 DEF PhaseOK

-----------------------------------------------------------------------------
(***************************************************************************)
(* Copies: made, popped, pushed back, released.  The originals and their   *)
(* queues stay where they are.                                             *)
(***************************************************************************)

\* A scheduling thread changes its program counter and group index only.
LEMMA ScheMoves ==
  ASSUME MemoryInv, NEW m \in Monitors, NEW x,
         spc' = [spc EXCEPT ![m] = x],
         si' \in [Monitors -> Nat], si'[m] \in Groups(m),
         \A k \in Monitors \ {m} : si'[k] = si[k],
         x \in ScheIdle \cup ScheFresh \cup ScheLoop \cup {"push"},
         x \in ScheIdle <=> spc[m] \in ScheIdle,
         x \in ScheFresh => spc[m] \in ScheFresh,
         x \in ScheLoop => spc[m] \in ScheFresh \/ (spc[m] \in ScheLoop /\ si'[m] >= si[m])
  PROVE  ScheGoesOn /\ spc' \in [Monitors -> ScheIdle \cup ScheFresh \cup ScheLoop \cup {"push"}]
<1>1. \A k \in Monitors : si[k] \in Groups(k) /\ si[k] \in Nat
  BY DEF MemoryInv, ControlOK, TypeOK
<1>2. /\ \A k \in Monitors : spc'[k] = IF k = m THEN x ELSE spc[k]
      /\ spc' \in [Monitors -> ScheIdle \cup ScheFresh \cup ScheLoop \cup {"push"}]
  BY DEF MemoryInv, TypeOK
<1> QED  BY <1>1, <1>2 DEF ScheGoesOn

LEMMA NextGroupFacts ==
  ASSUME MemoryInv, NEW m \in Monitors, spc[m] \in ScheLoop, NextGroup(m)
  PROVE  /\ si[m] \in Nat /\ si[m] \in Groups(m)
         /\ \A k \in Monitors \ {m} : si'[k] = si[k] /\ spc'[k] = spc[k]
         /\ si'[m] \in Groups(m)
         /\ \/ spc'[m] = "group" /\ si'[m] = si[m] + 1
            \/ spc'[m] = "push" /\ si'[m] = si[m]
         /\ si' \in [Monitors -> Nat]
         /\ spc' \in [Monitors -> ScheIdle \cup ScheFresh \cup ScheLoop \cup {"push"}]
         /\ ScheGoesOn
<1>1. /\ si[m] \in Nat /\ si[m] \in 1..Len(Sgl[m]) /\ Len(Sgl[m]) \in Nat
      /\ Groups(m) = 1..Len(Sgl[m])
      /\ si \in [Monitors -> Nat]
      /\ spc \in [Monitors -> ScheIdle \cup ScheFresh \cup ScheLoop \cup {"push"}]
  BY SglFacts DEF MemoryInv, ControlOK, TypeOK
<1>2. CASE si[m] < Len(Sgl[m])
  <2>1. si' = [si EXCEPT ![m] = @ + 1] /\ spc' = [spc EXCEPT ![m] = "group"]
    BY <1>2 DEF NextGroup, Goto
  <2>2. /\ si' \in [Monitors -> Nat] /\ si'[m] = si[m] + 1 /\ si'[m] \in Groups(m)
        /\ \A k \in Monitors \ {m} : si'[k] = si[k] /\ spc'[k] = spc[k]
        /\ spc'[m] = "group" /\ si'[m] >= si[m]
    BY <1>1, <1>2, <2>1
  <2>3. ScheGoesOn /\ spc' \in [Monitors -> ScheIdle \cup ScheFresh \cup ScheLoop \cup {"push"}]
    BY <2>1, <2>2, ScheMoves DEF ScheIdle, ScheFresh, ScheLoop
  <2> QED  BY <1>1, <2>2, <2>3
<1>3. CASE ~(si[m] < Len(Sgl[m]))
  <2>1. si' = si /\ spc' = [spc EXCEPT ![m] = "push"]
    BY <1>3 DEF NextGroup, Goto
  <2>2. /\ \A k \in Monitors \ {m} : si'[k] = si[k] /\ spc'[k] = spc[k]
        /\ spc'[m] = "push" /\ si'[m] = si[m] /\ si'[m] >= si[m]
    BY <1>1, <2>1
  <2>3. ScheGoesOn /\ spc' \in [Monitors -> ScheIdle \cup ScheFresh \cup ScheLoop \cup {"push"}]
    BY <1>1, <2>1, <2>2, ScheMoves DEF ScheIdle, ScheFresh, ScheLoop
  <2> QED  BY <1>1, <2>1, <2>2, <2>3
<1> QED  BY <1>2, <1>3

\* A copy of the node in hand goes to a server of the group in turn.
LEMMA CopyStep ==
  ASSUME MemoryInv, TypeOK', NEW m \in Monitors, NEW s \in Servers, spc[m] = "pick",
         copy_and_push(snode[m], si[m], s), NextGroup(m),
         UNCHANGED <<schq, snode, upVars, phase>>
  PROVE  MemoryInv'
<1> USE DEF MemoryInv
<1>1. phase = "run" /\ phase' = "run"
  BY DEF PhaseOK, Joined
<1>2. PICK n \in Nodes : n = snode[m] /\ n # NoNode /\ nfile[n] # NoFile /\ nmon[n] = m
  BY HeldNode DEF ScheIdle
<1>3. /\ si[m] \in Nat /\ si[m] \in Groups(m)
      /\ \A k \in Monitors \ {m} : si'[k] = si[k] /\ spc'[k] = spc[k]
      /\ si'[m] \in Groups(m)
      /\ \/ spc'[m] = "group" /\ si'[m] = si[m] + 1
         \/ spc'[m] = "push" /\ si'[m] = si[m]
  BY NextGroupFacts DEF ScheLoop
<1>4. ScheGoesOn
  BY NextGroupFacts DEF ScheLoop
<1>5. UploadGoesOn /\ PhaseGoesOn
  BY <1>1 DEF UploadGoesOn, PhaseGoesOn, upVars
<1>6. CASE FreeCopies = {} /\ UNCHANGED <<memVars, srvq>>
  BY <1>4, <1>5, <1>6, QuietStep DEF SameMemory, upVars
<1>7. ASSUME NEW c \in FreeCopies,
             cnode' = [cnode EXCEPT ![c] = n],
             csg' = [csg EXCEPT ![c] = si[m]],
             retain' = [retain EXCEPT ![n] = @ + 1],
             srvq' = [srvq EXCEPT ![s] = Append(@, c)],
             UNCHANGED <<nfile, nmon>>
      PROVE  MemoryInv'
  <2>1. c \in Copies /\ cnode[c] = NoNode
    BY DEF FreeCopies
  <2>2. /\ \A d \in Copies : cnode'[d] = IF d = c THEN n ELSE cnode[d]
        /\ \A d \in Copies : csg'[d] = IF d = c THEN si[m] ELSE csg[d]
        /\ \A k \in Nodes : retain'[k] = IF k = n THEN retain[n] + 1 ELSE retain[k]
        /\ \A r \in Servers : srvq'[r] = IF r = s THEN Append(srvq[s], c) ELSE srvq[r]
    BY <1>7 DEF TypeOK
  <2>4. \A d \in CopiesOf(n) : csg[d] < si[m]
    <3>1. spc[m] \in ScheLoop
      BY DEF ScheLoop
    <3> QED  BY <1>2, <3>1 DEF NotServedYet
  <2>3. /\ c \notin CopiesOf(n)
        /\ CopiesOf(n)' = CopiesOf(n) \cup {c}
        /\ \A k \in Nodes \ {n} : CopiesOf(k)' = CopiesOf(k)
    BY <1>2, <2>1, <2>2, NullAssumption DEF CopiesOf
  <2>5. /\ \A r \in Servers : ~InQ(srvq[r], c)
        /\ \A t \in Threads : wcopy[t] # c
        /\ NoRepeat(srvq[s]) /\ srvq[s] \in Seq(Copies)
    BY <2>1, NullAssumption DEF CopyInOnePlace, TypeOK
  <2>6. NoRepeat(srvq'[s]) /\ \A y : InQ(srvq'[s], y) <=> InQ(srvq[s], y) \/ y = c
    BY <2>1, <2>2, <2>5, PushInQ
  <2>7. CopyInOnePlace'
    <3>1. ASSUME NEW d \in Copies, cnode'[d] # NoNode
          PROVE  (\E t \in Threads : wcopy'[t] = d) \/ (\E r \in Servers : InQ(srvq'[r], d))
      <4>1. CASE d = c
        BY <2>6, <4>1
      <4>2. CASE d # c
        <5>1. (\E t \in Threads : wcopy[t] = d) \/ (\E r \in Servers : InQ(srvq[r], d))
          BY <2>2, <3>1, <4>2 DEF CopyInOnePlace
        <5>2. \A r \in Servers : InQ(srvq[r], d) => InQ(srvq'[r], d)
          BY <2>2, <2>6
        <5> QED  BY <5>1, <5>2 DEF upVars
      <4> QED  BY <4>1, <4>2
    <3>2. ASSUME NEW t \in Threads, wcopy'[t] # NoCopy
          PROVE  cnode'[wcopy'[t]] # NoNode /\ \A u \in Threads : wcopy'[t] = wcopy'[u] => t = u
      <4>1. wcopy' = wcopy /\ wcopy[t] \in Copies /\ cnode[wcopy[t]] # NoNode
        BY <3>2 DEF CopyInOnePlace, upVars, TypeOK
      <4>2. \A u \in Threads : wcopy[t] = wcopy[u] => t = u
        BY <3>2, <4>1 DEF CopyInOnePlace
      <4> QED  BY <1>2, <2>2, <4>1, <4>2
    <3>3. ASSUME NEW r \in Servers, NEW d \in Copies, InQ(srvq'[r], d)
          PROVE  /\ cnode'[d] # NoNode
                 /\ \A t \in Threads : wcopy'[t] # d
                 /\ \A q \in Servers : InQ(srvq'[q], d) => q = r
      <4>1. CASE d = c
        BY <1>2, <2>2, <2>5, <2>6, <3>3, <4>1 DEF upVars
      <4>2. CASE d # c
        <5>1. \A q \in Servers : InQ(srvq'[q], d) <=> InQ(srvq[q], d)
          BY <2>2, <2>6, <4>2
        <5> QED  BY <1>2, <2>2, <3>3, <4>2, <5>1 DEF CopyInOnePlace, upVars
      <4> QED  BY <4>1, <4>2
    <3>4. ASSUME NEW r \in Servers
          PROVE  NoRepeat(srvq'[r])
      BY <2>2, <2>6 DEF CopyInOnePlace
    <3> QED  BY <3>1, <3>2, <3>3, <3>4 DEF CopyInOnePlace
  <2>8. NodeInOnePlace'
    BY <1>7 DEF NodeInOnePlace
  <2>9. ControlOK'
    <3>1. \A d \in Copies : cnode'[d] # NoNode => csg'[d] \in Groups(nmon'[cnode'[d]])
      BY <1>2, <1>3, <1>7, <2>2 DEF ControlOK, Groups
    <3> QED  BY <3>1, <1>3, <1>4 DEF ControlOK, upVars, ScheGoesOn
  <2>10. NoDanglingCopy'
    BY <1>2, <1>7, <2>2 DEF NoDanglingCopy
  <2>11. RetainExact'
    <3> SUFFICES ASSUME NEW k \in Nodes, nfile'[k] # NoFile
                 PROVE  retain'[k] = Cardinality(CopiesOf(k)')
      BY DEF RetainExact, CopiesOf
    <3>1. CASE k = n
      <4>1. IsFiniteSet(CopiesOf(n))
        BY BoundAssumption, FS_Subset DEF CopiesOf
      <4>2. Cardinality(CopiesOf(n) \cup {c}) = Cardinality(CopiesOf(n)) + 1
        BY <2>3, <4>1, FS_AddElement
      <4>3. retain[n] = Cardinality(CopiesOf(n)) /\ retain'[n] = retain[n] + 1
        BY <1>2, <2>2 DEF RetainExact
      <4>4. retain'[n] = Cardinality(CopiesOf(n)')
        BY <2>3, <4>2, <4>3
      <4> QED  BY <3>1, <4>4 DEF CopiesOf
    <3>2. CASE k # n
      BY <1>7, <2>2, <2>3, <3>2 DEF RetainExact
    <3> QED  BY <3>1, <3>2
  <2>12. NotServedYet'
    <3> SUFFICES ASSUME NEW k \in Monitors
                 PROVE  /\ spc'[k] \in ScheFresh => CopiesOf(snode[k])' = {}
                        /\ spc'[k] \in ScheLoop =>
                             \A d \in CopiesOf(snode[k])' : csg'[d] < si'[k]
      BY DEF NotServedYet, CopiesOf
    <3>1. CASE k = m
      <4>1. spc'[m] \notin ScheFresh
        BY <1>3 DEF ScheFresh
      <4>2. ASSUME spc'[m] \in ScheLoop, NEW d \in CopiesOf(n)'
            PROVE  csg'[d] < si'[m]
        <5>1. si'[m] = si[m] + 1
          BY <1>3, <4>2 DEF ScheLoop
        <5>2. d \in Copies /\ csg[d] \in Nat
          BY <4>2 DEF CopiesOf, TypeOK
        <5> QED  BY <1>3, <2>2, <2>3, <2>4, <4>2, <5>1, <5>2
      <4> QED  BY <1>2, <3>1, <4>1, <4>2
    <3>2. CASE k # m
      <4>1. CASE spc[k] \in ScheIdle
        BY <1>3, <3>2, <4>1 DEF ScheIdle, ScheFresh, ScheLoop
      <4>2. CASE spc[k] \notin ScheIdle
        <5>1. snode[k] \in Nodes /\ nmon[snode[k]] = k
          BY <4>2 DEF ControlOK, NodeInOnePlace, TypeOK
        <5>2. snode[k] # n /\ CopiesOf(snode[k])' = CopiesOf(snode[k])
          BY <1>2, <2>3, <3>2, <5>1
        <5>3. \A d \in CopiesOf(snode[k]) : csg'[d] = csg[d]
          BY <2>1, <2>2, <5>2, <5>1, NullAssumption DEF CopiesOf
        <5> QED  BY <1>3, <3>2, <5>2, <5>3 DEF NotServedYet
      <4> QED  BY <4>1, <4>2
    <3> QED  BY <3>1, <3>2
  <2>13. OneCopyPerGroup'
    <3> SUFFICES ASSUME NEW d \in Copies, NEW e \in Copies,
                        cnode'[d] # NoNode, cnode'[d] = cnode'[e], csg'[d] = csg'[e]
                 PROVE  d = e
      BY DEF OneCopyPerGroup
    <3>1. \A x \in Copies : cnode[x] = n => csg[x] \in Nat /\ csg[x] # si[m]
      BY <1>3, <2>4 DEF CopiesOf, TypeOK
    <3> QED  BY <2>2, <3>1 DEF OneCopyPerGroup
  <2> QED  BY <1>1, <2>7, <2>8, <2>9, <2>10, <2>11, <2>12, <2>13 DEF PhaseOK
<1> QED  BY <1>2, <1>6, <1>7 DEF copy_and_push

\* Moving copies between a queue and an upload thread: what is left to show
\* is where they are afterwards.
LEMMA MoveCopyStep ==
  ASSUME MemoryInv, TypeOK', UNCHANGED <<memVars, schq, scheVars>>,
         phase = "run", phase' = "run",
         CopyInOnePlace',
         \A t \in Threads : wcopy'[t] = NoCopy <=> wpc'[t] \in UploadIdle
  PROVE  MemoryInv'
<1> USE DEF MemoryInv, memVars, scheVars
<1>1. ControlOK'
  BY DEF ControlOK, Groups
<1>2. NodeInOnePlace'
  BY DEF NodeInOnePlace
<1>3. NoDanglingCopy' /\ RetainExact' /\ OneCopyPerGroup' /\ NotServedYet'
  BY DEF NoDanglingCopy, RetainExact, OneCopyPerGroup, NotServedYet, CopiesOf
<1> QED  BY <1>1, <1>2, <1>3 DEF PhaseOK

LEMMA UploadPopStep ==
  ASSUME MemoryInv, TypeOK', NEW t \in Threads, UploadPop(t)
  PROVE  MemoryInv'
<1> USE DEF MemoryInv
<1>1. PICK s \in Servers : s = ServerOf[t]
  BY ConfigAssumption
<1>2. /\ wpc[t] = "head" /\ srvq[s] # <<>>
      /\ wcopy' = [wcopy EXCEPT ![t] = Head(srvq[s])]
      /\ srvq' = [srvq EXCEPT ![s] = Tail(@)]
      /\ wpc' = [wpc EXCEPT ![t] = "check"]
      /\ UNCHANGED <<memVars, schq, scheVars, phase, cnode>>
  BY <1>1 DEF UploadPop, upFrame, WGoto, procVars, memVars
<1>3. phase = "run"
  BY <1>2 DEF PhaseOK, Joined
<1>4. srvq[s] \in Seq(Copies) /\ NoRepeat(srvq[s])
  BY DEF TypeOK, CopyInOnePlace
<1>5. /\ Head(srvq[s]) \in Copies /\ InQ(srvq[s], Head(srvq[s]))
      /\ NoRepeat(Tail(srvq[s])) /\ ~InQ(Tail(srvq[s]), Head(srvq[s]))
      /\ \A y : InQ(srvq[s], y) <=> InQ(Tail(srvq[s]), y) \/ y = Head(srvq[s])
  BY <1>2, <1>4, PopInQ
<1>6. PICK c \in Copies : c = Head(srvq[s])
  BY <1>5
<1>7. /\ c # NoCopy /\ cnode[c] # NoNode
      /\ \A u \in Threads : wcopy[u] # c
      /\ \A r \in Servers : InQ(srvq[r], c) => r = s
  BY <1>5, <1>6, NullAssumption DEF CopyInOnePlace
<1>8. /\ \A u \in Threads : wcopy'[u] = IF u = t THEN c ELSE wcopy[u]
      /\ \A u \in Threads : wpc'[u] = IF u = t THEN "check" ELSE wpc[u]
      /\ \A r \in Servers : srvq'[r] = IF r = s THEN Tail(srvq[s]) ELSE srvq[r]
  BY <1>2, <1>6 DEF TypeOK
<1>9. /\ wcopy[t] = NoCopy
      /\ \A r \in Servers, d \in Copies : InQ(srvq'[r], d) <=> InQ(srvq[r], d) /\ d # c
      /\ \A r \in Servers : NoRepeat(srvq'[r])
  <2>1. wcopy[t] = NoCopy
    BY <1>2 DEF ControlOK, UploadIdle
  <2>2. ASSUME NEW r \in Servers
        PROVE  /\ NoRepeat(srvq'[r])
               /\ \A d \in Copies : InQ(srvq'[r], d) <=> InQ(srvq[r], d) /\ d # c
    <3>1. CASE r = s
      BY <1>5, <1>6, <1>8, <3>1
    <3>2. CASE r # s
      BY <1>7, <1>8, <3>2 DEF CopyInOnePlace
    <3> QED  BY <3>1, <3>2
  <2> QED  BY <2>1, <2>2
<1>10. CopyInOnePlace'
  <2>1. ASSUME NEW d \in Copies, cnode'[d] # NoNode
        PROVE  (\E u \in Threads : wcopy'[u] = d) \/ (\E r \in Servers : InQ(srvq'[r], d))
    <3>1. CASE d = c
      BY <1>8, <3>1
    <3>2. CASE d # c
      <4>1. d # NoCopy
        BY NullAssumption
      <4>2. (\E u \in Threads : wcopy[u] = d) \/ (\E r \in Servers : InQ(srvq[r], d))
        BY <1>2, <2>1 DEF CopyInOnePlace
      <4> QED  BY <1>8, <1>9, <3>2, <4>1, <4>2
    <3> QED  BY <3>1, <3>2
  <2>2. ASSUME NEW u \in Threads, wcopy'[u] # NoCopy
        PROVE  cnode'[wcopy'[u]] # NoNode /\ \A v \in Threads : wcopy'[u] = wcopy'[v] => u = v
    BY <1>2, <1>7, <1>8, <2>2 DEF CopyInOnePlace
  <2>3. ASSUME NEW r \in Servers, NEW d \in Copies, InQ(srvq'[r], d)
        PROVE  /\ cnode'[d] # NoNode
               /\ \A u \in Threads : wcopy'[u] # d
               /\ \A q \in Servers : InQ(srvq'[q], d) => q = r
    <3>1. InQ(srvq[r], d) /\ d # c
      BY <1>9, <2>3
    <3> QED  BY <1>2, <1>8, <1>9, <3>1 DEF CopyInOnePlace
  <2> QED  BY <1>9, <2>1, <2>2, <2>3 DEF CopyInOnePlace
<1>11. \A u \in Threads : wcopy'[u] = NoCopy <=> wpc'[u] \in UploadIdle
  BY <1>7, <1>8 DEF ControlOK, UploadIdle
<1> QED  BY <1>2, <1>3, <1>10, <1>11, MoveCopyStep

\* A copy that failed goes back to the queue of its server.
LEMMA PushBackStep ==
  ASSUME MemoryInv, TypeOK', NEW t \in Threads, NEW s \in Servers,
         wpc[t] = "writerc",
         srvq' = [srvq EXCEPT ![s] = Append(@, wcopy[t])],
         wcopy' = [wcopy EXCEPT ![t] = NoCopy],
         wpc' = [wpc EXCEPT ![t] = "head"],
         UNCHANGED <<memVars, schq, scheVars, phase>>
  PROVE  MemoryInv'
<1> USE DEF MemoryInv
<1>1. phase = "run"
  BY DEF PhaseOK, Joined
<1>2. PICK c \in Copies : c = wcopy[t]
  BY DEF ControlOK, UploadIdle, TypeOK
<1>3. /\ c # NoCopy /\ cnode[c] # NoNode /\ UNCHANGED cnode
      /\ \A u \in Threads : wcopy[u] = c => u = t
      /\ \A r \in Servers : ~InQ(srvq[r], c)
  BY <1>2, NullAssumption DEF CopyInOnePlace, memVars
<1>4. /\ \A u \in Threads : wcopy'[u] = IF u = t THEN NoCopy ELSE wcopy[u]
      /\ \A u \in Threads : wpc'[u] = IF u = t THEN "head" ELSE wpc[u]
      /\ \A r \in Servers : srvq'[r] = IF r = s THEN Append(srvq[s], c) ELSE srvq[r]
  BY <1>2 DEF TypeOK
<1>5. /\ NoRepeat(Append(srvq[s], c))
      /\ \A y : InQ(Append(srvq[s], c), y) <=> InQ(srvq[s], y) \/ y = c
  <2>1. srvq[s] \in Seq(Copies) /\ NoRepeat(srvq[s])
    BY DEF TypeOK, CopyInOnePlace
  <2> QED  BY <1>3, <2>1, PushInQ
<1>6. /\ \A r \in Servers : NoRepeat(srvq'[r])
      /\ \A r \in Servers, d \in Copies :
           InQ(srvq'[r], d) <=> InQ(srvq[r], d) \/ (d = c /\ r = s)
  BY <1>3, <1>4, <1>5 DEF CopyInOnePlace
<1>7. CopyInOnePlace'
  <2>1. ASSUME NEW d \in Copies, cnode'[d] # NoNode
        PROVE  (\E u \in Threads : wcopy'[u] = d) \/ (\E r \in Servers : InQ(srvq'[r], d))
    <3>1. (\E u \in Threads : wcopy[u] = d) \/ (\E r \in Servers : InQ(srvq[r], d))
      BY <1>3, <2>1 DEF CopyInOnePlace
    <3> QED  BY <1>2, <1>4, <1>6, <3>1
  <2>2. ASSUME NEW u \in Threads, wcopy'[u] # NoCopy
        PROVE  cnode'[wcopy'[u]] # NoNode /\ \A v \in Threads : wcopy'[u] = wcopy'[v] => u = v
    BY <1>3, <1>4, <2>2 DEF CopyInOnePlace
  <2>3. ASSUME NEW r \in Servers, NEW d \in Copies, InQ(srvq'[r], d)
        PROVE  /\ cnode'[d] # NoNode
               /\ \A u \in Threads : wcopy'[u] # d
               /\ \A q \in Servers : InQ(srvq'[q], d) => q = r
    <3>1. CASE d = c
      BY <1>3, <1>4, <1>6, <2>3, <3>1
    <3>2. CASE d # c
      <4>1. InQ(srvq[r], d) /\ d # NoCopy
        BY <1>6, <2>3, <3>2, NullAssumption
      <4> QED  BY <1>3, <1>4, <1>6, <3>2, <4>1 DEF CopyInOnePlace
    <3> QED  BY <3>1, <3>2
  <2> QED  BY <1>6, <2>1, <2>2, <2>3 DEF CopyInOnePlace
<1>8. \A u \in Threads : wcopy'[u] = NoCopy <=> wpc'[u] \in UploadIdle
  BY <1>4 DEF ControlOK, UploadIdle
<1> QED  BY <1>1, <1>7, <1>8, MoveCopyStep

\* A copy is released by the thread that has it.
LEMMA ReleaseStep ==
  ASSUME MemoryInv, TypeOK', NEW t \in Threads, wpc[t] \notin UploadIdle,
         ReleaseCopy(t), UNCHANGED <<schq, srvq, scheVars, phase>>
  PROVE  MemoryInv'
<1> USE DEF MemoryInv
<1>1. phase = "run" /\ phase' = "run"
  BY DEF PhaseOK, Joined, UploadIdle
<1>2. PICK c \in Copies : c = wcopy[t]
  BY DEF ControlOK, TypeOK
<1>3. PICK n \in Nodes : n = cnode[c] /\ n # NoNode /\ nfile[n] # NoFile
  BY <1>2, NullAssumption DEF CopyInOnePlace, NoDanglingCopy, TypeOK
<1>4. /\ \A u \in Threads : wcopy[u] = c => u = t
      /\ \A r \in Servers : ~InQ(srvq[r], c)
      /\ c # NoCopy
  BY <1>2, NullAssumption DEF CopyInOnePlace
<1>5. /\ \A u \in Threads : wcopy'[u] = IF u = t THEN NoCopy ELSE wcopy[u]
      /\ \A u \in Threads : wpc'[u] = IF u = t THEN "head" ELSE wpc[u]
      /\ \A d \in Copies : cnode'[d] = IF d = c THEN NoNode ELSE cnode[d]
      /\ \A d \in Copies : csg'[d] = IF d = c THEN 1 ELSE csg[d]
      /\ \A k \in Nodes : retain'[k] = IF k = n THEN retain[n] - 1 ELSE retain[k]
      /\ UNCHANGED <<nfile, nmon>>
  BY <1>2, <1>3 DEF ReleaseCopy, free_copy, WGoto, TypeOK
<1>6. /\ c \in CopiesOf(n)
      /\ CopiesOf(n)' = CopiesOf(n) \ {c}
      /\ \A k \in Nodes \ {n} : CopiesOf(k)' = CopiesOf(k)
      /\ \A k \in Nodes : CopiesOf(k)' \subseteq CopiesOf(k)
  BY <1>3, <1>5, NullAssumption DEF CopiesOf
<1>7. ControlOK'
  <2>1. \A d \in Copies : cnode'[d] # NoNode => csg'[d] \in Groups(nmon'[cnode'[d]])
    BY <1>5 DEF ControlOK, Groups
  <2> QED  BY <1>5, <2>1 DEF ControlOK, scheVars, UploadIdle
<1>8. NodeInOnePlace'
  BY <1>5 DEF NodeInOnePlace, scheVars
<1>9. CopyInOnePlace'
  <2>1. ASSUME NEW d \in Copies, cnode'[d] # NoNode
        PROVE  (\E u \in Threads : wcopy'[u] = d) \/ (\E r \in Servers : InQ(srvq'[r], d))
    <3>1. d # c /\ ((\E u \in Threads : wcopy[u] = d) \/ (\E r \in Servers : InQ(srvq[r], d)))
      BY <1>5, <2>1 DEF CopyInOnePlace
    <3> QED  BY <1>2, <1>5, <3>1
  <2>2. ASSUME NEW u \in Threads, wcopy'[u] # NoCopy
        PROVE  cnode'[wcopy'[u]] # NoNode /\ \A v \in Threads : wcopy'[u] = wcopy'[v] => u = v
    <3>1. wcopy'[u] = wcopy[u] /\ wcopy[u] \in Copies /\ wcopy[u] # c
      BY <1>4, <1>5, <2>2 DEF TypeOK
    <3> QED  BY <1>5, <2>2, <3>1 DEF CopyInOnePlace
  <2>3. ASSUME NEW r \in Servers, NEW d \in Copies, InQ(srvq'[r], d)
        PROVE  /\ cnode'[d] # NoNode
               /\ \A u \in Threads : wcopy'[u] # d
               /\ \A q \in Servers : InQ(srvq'[q], d) => q = r
    BY <1>4, <1>5, <2>3, NullAssumption DEF CopyInOnePlace
  <2> QED  BY <2>1, <2>2, <2>3 DEF CopyInOnePlace
<1>10. NoDanglingCopy'
  BY <1>5 DEF NoDanglingCopy
<1>11. RetainExact'
  <2> SUFFICES ASSUME NEW k \in Nodes, nfile'[k] # NoFile
               PROVE  retain'[k] = Cardinality(CopiesOf(k)')
    BY DEF RetainExact, CopiesOf
  <2>1. CASE k = n
    <3>1. IsFiniteSet(CopiesOf(n))
      BY BoundAssumption, FS_Subset DEF CopiesOf
    <3>2. Cardinality(CopiesOf(n) \ {c}) = Cardinality(CopiesOf(n)) - 1
      BY <1>6, <3>1, FS_RemoveElement
    <3>3. retain[n] = Cardinality(CopiesOf(n)) /\ retain'[n] = retain[n] - 1
      BY <1>3, <1>5 DEF RetainExact
    <3>4. retain'[n] = Cardinality(CopiesOf(n)')
      BY <1>6, <3>2, <3>3
    <3> QED  BY <2>1, <3>4 DEF CopiesOf
  <2>2. CASE k # n
    BY <1>5, <1>6, <2>2 DEF RetainExact
  <2> QED  BY <2>1, <2>2
<1>12. NotServedYet'
  <2> SUFFICES ASSUME NEW m \in Monitors
               PROVE  /\ spc'[m] \in ScheFresh => CopiesOf(snode[m])' = {}
                      /\ spc'[m] \in ScheLoop =>
                           \A d \in CopiesOf(snode[m])' : csg'[d] < si'[m]
    BY DEF NotServedYet, CopiesOf
  <2>1. CASE spc[m] \in ScheIdle
    BY <2>1 DEF ScheIdle, ScheFresh, ScheLoop, scheVars
  <2>2. CASE spc[m] \notin ScheIdle
    <3>1. PICK k \in Nodes : k = snode[m] /\ k = snode'[m]
      BY <2>2, HeldNode DEF scheVars
    <3>2. CopiesOf(k)' \subseteq CopiesOf(k) /\ \A d \in CopiesOf(k)' : csg'[d] = csg[d]
      BY <1>3, <1>5, <1>6 DEF CopiesOf
    <3>3. /\ spc'[m] \in ScheFresh => CopiesOf(k)' = {}
          /\ spc'[m] \in ScheLoop => \A d \in CopiesOf(k)' : csg'[d] < si'[m]
      BY <3>1, <3>2 DEF NotServedYet, scheVars
    <3> QED  BY <3>1, <3>3 DEF CopiesOf
  <2> QED  BY <2>1, <2>2
<1>13. OneCopyPerGroup'
  BY <1>5 DEF OneCopyPerGroup
<1> QED  BY <1>1, <1>7, <1>8, <1>9, <1>10, <1>11, <1>12, <1>13 DEF PhaseOK

-----------------------------------------------------------------------------
(***************************************************************************)
(* The exit path, a crash and the start.                                   *)
(***************************************************************************)
LEMMA ServersExitStep ==
  ASSUME MemoryInv, TypeOK', servers_exit
  PROVE  MemoryInv'
<1> USE DEF MemoryInv
<1>1. /\ Joined /\ Joined' /\ phase' = "freed"
      /\ UNCHANGED <<schq, nfile, nmon, spc, snode, si, wpc, wcopy>>
  BY DEF servers_exit, Joined, monVars, scheVars, upVars
<1>2. \A c \in Copies : cnode[c] # NoNode => c \in QueuedCopies
  <2>1. \A t \in Threads : wcopy[t] = NoCopy
    BY <1>1 DEF Joined, ControlOK, UploadIdle
  <2> QED  BY <2>1, NullAssumption DEF CopyInOnePlace, QueuedCopies
<1>3. \A c \in Copies : cnode'[c] = NoNode
  BY <1>2 DEF servers_exit
<1>4. \A r \in Servers : srvq'[r] = <<>>
  BY DEF servers_exit
<1>5. \A k \in Nodes : CopiesOf(k)' = {}
  BY <1>3, NullAssumption DEF CopiesOf
<1>6. ControlOK'
  BY <1>1, <1>3 DEF ControlOK
<1>7. NodeInOnePlace'
  BY <1>1 DEF NodeInOnePlace
<1>8. CopyInOnePlace'
  <2>1. \A t \in Threads : wcopy'[t] = NoCopy
    BY <1>1 DEF Joined, ControlOK, UploadIdle
  <2> QED  BY <1>3, <1>4, <2>1, EmptyInQ DEF CopyInOnePlace
<1>9. NoDanglingCopy' /\ OneCopyPerGroup'
  BY <1>3 DEF NoDanglingCopy, OneCopyPerGroup
<1>10. RetainExact'
  <2> SUFFICES ASSUME NEW k \in Nodes, nfile'[k] # NoFile
               PROVE  retain'[k] = Cardinality(CopiesOf(k)')
    BY DEF RetainExact, CopiesOf
  <2>1. CopiesOf(k) \cap QueuedCopies = CopiesOf(k)
    BY <1>2, NullAssumption DEF CopiesOf
  <2>2. /\ retain'[k] = retain[k] - Cardinality(CopiesOf(k))
        /\ retain[k] = Cardinality(CopiesOf(k)) /\ retain[k] \in Int
    BY <1>1, <2>1 DEF servers_exit, RetainExact, TypeOK
  <2> QED  BY <1>5, <2>2, FS_EmptySet
<1>11. NotServedYet'
  BY <1>1 DEF NotServedYet, Joined, ScheFresh, ScheLoop
<1>12. PhaseOK'
  BY <1>1, <1>3 DEF PhaseOK
<1> QED  BY <1>6, <1>7, <1>8, <1>9, <1>10, <1>11, <1>12

LEMMA MonitorGroupExitStep ==
  ASSUME MemoryInv, TypeOK', monitor_group_exit
  PROVE  MemoryInv'
<1> USE DEF MemoryInv
<1>1. /\ phase' = "down"
      /\ UNCHANGED <<srvq, retain, cnode, csg, mpc, spc, snode, si, wpc, wcopy>>
  BY DEF monitor_group_exit, monVars, scheVars, upVars
<1>2. Joined /\ Joined' /\ \A c \in Copies : cnode[c] = NoNode /\ cnode'[c] = NoNode
  BY <1>1 DEF monitor_group_exit, PhaseOK, Joined
<1>3. \A m \in Monitors : snode[m] = NoNode /\ schq'[m] = <<>>
  BY <1>2 DEF monitor_group_exit, Joined, ControlOK, ScheIdle
<1>4. \A n \in Nodes : nfile[n] # NoFile => n \in QueuedNodes
  BY <1>3, NullAssumption DEF NodeInOnePlace, QueuedNodes
<1>5. \A n \in Nodes : nfile'[n] = NoFile
  BY <1>4 DEF monitor_group_exit
<1>6. NodeInOnePlace'
  BY <1>1, <1>3, <1>5, EmptyInQ DEF NodeInOnePlace
<1>7. ControlOK' /\ CopyInOnePlace'
  BY <1>1, <1>2 DEF ControlOK, CopyInOnePlace
<1>8. NoDanglingCopy' /\ OneCopyPerGroup' /\ RetainExact'
  BY <1>2, <1>5 DEF NoDanglingCopy, OneCopyPerGroup, RetainExact
<1>9. NotServedYet'
  BY <1>2 DEF NotServedYet, Joined, ScheFresh, ScheLoop
<1> QED  BY <1>2, <1>5, <1>6, <1>7, <1>8, <1>9 DEF PhaseOK

\* Nothing is allocated, no thread runs: so it is at first and after a crash.
NoMemory ==
  /\ phase = "down"
  /\ \A m \in Monitors :
       mpc[m] = "exit" /\ spc[m] = "exit" /\ schq[m] = <<>> /\ snode[m] = NoNode /\ si[m] = 1
  /\ \A t \in Threads : wpc[t] = "exit" /\ wcopy[t] = NoCopy
  /\ \A s \in Servers : srvq[s] = <<>>
  /\ \A n \in Nodes : nfile[n] = NoFile
  /\ \A c \in Copies : cnode[c] = NoNode

LEMMA NoMemoryIsSound == TypeOK /\ NoMemory => MemoryInv
<1> SUFFICES ASSUME TypeOK, NoMemory PROVE MemoryInv
  OBVIOUS
<1>1. ControlOK
  BY SglFacts DEF ControlOK, NoMemory, ScheIdle, UploadIdle
<1>2. NodeInOnePlace /\ CopyInOnePlace
  BY EmptyInQ DEF NodeInOnePlace, CopyInOnePlace, NoMemory
<1>3. NoDanglingCopy /\ RetainExact /\ OneCopyPerGroup
  BY DEF NoDanglingCopy, RetainExact, OneCopyPerGroup, NoMemory
<1>4. NotServedYet /\ PhaseOK
  BY DEF NotServedYet, PhaseOK, Joined, ScheFresh, ScheLoop, NoMemory
<1> QED  BY <1>1, <1>2, <1>3, <1>4 DEF MemoryInv

LEMMA InitSound == Init => MemoryInv
<1> SUFFICES ASSUME Init PROVE MemoryInv
  OBVIOUS
<1>1. NoMemory
  BY DEF Init, NoMemory
<1>2. TypeOK
  <2>1. /\ disk \in SUBSET Names
        /\ events \in [Monitors -> Seq(Files)]
        /\ schq \in [Monitors -> Seq(Nodes)]
        /\ srvq \in [Servers -> Seq(Copies)]
    BY DEF Init
  <2>2. /\ spc \in [Monitors -> ScheIdle \cup ScheFresh \cup ScheLoop \cup {"push"}]
        /\ wpc \in [Threads -> UploadIdle \cup UploadBusy]
        /\ mpc \in [Monitors -> {"start", "scan", "run", "exit"}]
    BY DEF Init, ScheIdle, UploadIdle
  <2>3. /\ unscanned \in [Monitors -> SUBSET Files]
        /\ nfile \in [Nodes -> Files \cup {NoFile}]
        /\ nmon \in [Nodes -> Monitors \cup {NoMonitor}]
        /\ retain \in [Nodes -> Int]
        /\ snode \in [Monitors -> Nodes \cup {NoNode}]
        /\ si \in [Monitors -> Nat]
        /\ cnode \in [Copies -> Nodes \cup {NoNode}]
        /\ csg \in [Copies -> Nat]
        /\ wcopy \in [Threads -> Copies \cup {NoCopy}]
        /\ wrc \in [Threads -> Int]
    BY DEF Init
  <2>4. /\ rc \in [Servers -> Int]
        /\ written \in [Files -> Nat]
        /\ delivered \in SUBSET (Files \X Monitors \X Nat)
        /\ phase \in {"down", "run", "freed"}
        /\ starts \in Nat /\ upload_count \in Nat
    BY DEF Init
  <2>5. down \in [Servers -> BOOLEAN] /\ ready \in [Files -> BOOLEAN]
    BY DEF Init
  <2>6. mrun \in BOOLEAN /\ urun \in BOOLEAN
    BY Zenon DEF Init
  <2> QED  BY <2>1, <2>2, <2>3, <2>4, <2>5, <2>6 DEF TypeOK
<1> QED  BY <1>1, <1>2, NoMemoryIsSound

LEMMA CrashStep ==
  ASSUME TypeOK', Crash
  PROVE  MemoryInv'
<1>1. NoMemory'
  BY DEF Crash, NoMemory
<1>2. (TypeOK /\ NoMemory => MemoryInv)'
  BY NoMemoryIsSound, PTL
<1> QED  BY <1>1, <1>2

-----------------------------------------------------------------------------
(***************************************************************************)
(* Type correctness, variable group by variable group.                     *)
(***************************************************************************)
DiskType ==
  /\ disk \in SUBSET Names
  /\ written \in [Files -> Nat]
  /\ ready \in [Files -> BOOLEAN]
  /\ delivered \in SUBSET (Files \X Monitors \X Nat)

ProcType ==
  /\ phase \in {"down", "run", "freed"}
  /\ starts \in Nat
  /\ mrun \in BOOLEAN /\ urun \in BOOLEAN
  /\ upload_count \in Nat

MonType ==
  /\ mpc \in [Monitors -> {"start", "scan", "run", "exit"}]
  /\ unscanned \in [Monitors -> SUBSET Files]
  /\ events \in [Monitors -> Seq(Files)]

HeapType ==
  /\ nfile \in [Nodes -> Files \cup {NoFile}]
  /\ nmon \in [Nodes -> Monitors \cup {NoMonitor}]
  /\ retain \in [Nodes -> Int]
  /\ cnode \in [Copies -> Nodes \cup {NoNode}]
  /\ csg \in [Copies -> Nat]
  /\ schq \in [Monitors -> Seq(Nodes)]
  /\ srvq \in [Servers -> Seq(Copies)]

ScheType ==
  /\ spc \in [Monitors -> ScheIdle \cup ScheFresh \cup ScheLoop \cup {"push"}]
  /\ snode \in [Monitors -> Nodes \cup {NoNode}]
  /\ si \in [Monitors -> Nat]

UploadType ==
  /\ wpc \in [Threads -> UploadIdle \cup UploadBusy]
  /\ wcopy \in [Threads -> Copies \cup {NoCopy}]
  /\ wrc \in [Threads -> Int]
  /\ down \in [Servers -> BOOLEAN]
  /\ rc \in [Servers -> Int]

LEMMA TypeParts ==
  TypeOK <=> DiskType /\ ProcType /\ MonType /\ HeapType /\ ScheType /\ UploadType
BY DEF TypeOK, DiskType, ProcType, MonType, HeapType, ScheType, UploadType

LEMMA TypePartsNext ==
  TypeOK' <=> DiskType' /\ ProcType' /\ MonType' /\ HeapType' /\ ScheType' /\ UploadType'
BY TypeParts, PTL

\* A group whose variables a step leaves alone keeps its type.
LEMMA TypeFrame ==
  /\ DiskType /\ UNCHANGED <<disk, histVars>> => DiskType'
  /\ ProcType /\ UNCHANGED procVars => ProcType'
  /\ MonType /\ UNCHANGED monVars => MonType'
  /\ HeapType /\ UNCHANGED <<memVars, schq, srvq>> => HeapType'
  /\ ScheType /\ UNCHANGED scheVars => ScheType'
  /\ UploadType /\ UNCHANGED <<upVars, srvVars>> => UploadType'
BY DEF DiskType, ProcType, MonType, HeapType, ScheType, UploadType,
       histVars, procVars, monVars, memVars, scheVars, upVars, srvVars

LEMMA FileNames ==
  ASSUME NEW f \in Files
  PROVE  /\ Mon(f) \in Names /\ Src(f) \in Names /\ UploadK(f) \in Names
         /\ \A m \in Monitors, s \in Servers : StateFile(f, m, s) \in Names
BY DEF Mon, Src, UploadK, StateFile, Names

LEMMA ProduceStep ==
  ASSUME MemoryInv, NEW f \in Files, Produce(f)
  PROVE  MemoryInv'
<1>1. TypeOK
  BY DEF MemoryInv
<1>2. /\ UNCHANGED <<schq, srvq, memVars, mpc, unscanned, scheVars, upVars, srvVars, procVars>>
      /\ disk' = disk \cup {Mon(f)} \/ disk' = disk \cup {Src(f)}
      /\ \/ ready' = [ready EXCEPT ![f] = TRUE]
         \/ ready' = [ready EXCEPT ![f] = FALSE]
      /\ \/ UNCHANGED <<written, delivered>>
         \/ /\ written' = [written EXCEPT ![f] = @ + 1]
            /\ delivered' = {d \in delivered : d[1] # f}
      /\ \/ events' = [m \in Monitors |->
                         IF m \in Watching THEN Append(events[m], f) ELSE events[m]]
         \/ UNCHANGED events
  BY DEF Produce, ProduceData, ProduceMarker, ProduceFile, NewVersion, MoveMarkerIn, monVars
<1>3. DiskType'
  <2>1. disk' \in SUBSET Names
    BY <1>1, <1>2, FileNames DEF TypeOK
  <2>2. written' \in [Files -> Nat]
    <3>1. written \in [Files -> Nat]
      BY <1>1 DEF TypeOK
    <3>2. CASE written' = written
      BY <3>1, <3>2
    <3>3. CASE written' = [written EXCEPT ![f] = @ + 1]
      BY <3>1, <3>3
    <3> QED  BY <1>2, <3>2, <3>3
  <2>4. delivered' \in SUBSET (Files \X Monitors \X Nat)
    <3>1. delivered \in SUBSET (Files \X Monitors \X Nat)
      BY <1>1 DEF TypeOK
    <3>2. delivered' \subseteq delivered
      BY <1>2
    <3> QED  BY <3>1, <3>2
  <2>3. ready' \in [Files -> BOOLEAN]
    BY <1>1, <1>2 DEF TypeOK
  <2> QED  BY <2>1, <2>2, <2>3, <2>4 DEF DiskType
<1>4. MonType'
  <2>1. \A m \in Monitors : events[m] \in Seq(Files) /\ Append(events[m], f) \in Seq(Files)
    BY <1>1, PushInQ DEF TypeOK
  <2>2. events' \in [Monitors -> Seq(Files)]
    BY <1>1, <1>2, <2>1 DEF TypeOK
  <2> QED  BY <1>1, <1>2, <2>2 DEF TypeOK, MonType
<1>5. TypeOK'
  BY <1>1, <1>2, <1>3, <1>4, TypeParts, TypePartsNext, TypeFrame
<1>6. ScheGoesOn
  BY <1>2, ScheStays DEF scheVars
<1>7. SameMemory /\ UploadGoesOn
  BY <1>2 DEF SameMemory, UploadGoesOn, scheVars, upVars
<1>8. PhaseGoesOn
  BY <1>2 DEF PhaseGoesOn, Joined, procVars, scheVars, upVars, MemoryInv, PhaseOK
<1> QED  BY <1>5, <1>6, <1>7, <1>8, QuietStep

LEMMA AddType ==
  ASSUME TypeOK, NEW m \in Monitors, NEW f \in Files, queue_node_add(m, f),
         UNCHANGED srvq
  PROVE  HeapType'
<1>1. CASE UNCHANGED <<memVars, schq>>
  BY <1>1 DEF TypeOK, HeapType, memVars
<1>2. ASSUME NEW n \in FreeNodes,
             nfile' = [nfile EXCEPT ![n] = f],
             nmon' = [nmon EXCEPT ![n] = m],
             retain' = [retain EXCEPT ![n] = 0],
             schq' = [schq EXCEPT ![m] = Append(@, n)],
             UNCHANGED <<cnode, csg>>
      PROVE  HeapType'
  <2>1. n \in Nodes /\ schq[m] \in Seq(Nodes)
    BY DEF FreeNodes, TypeOK
  <2>2. Append(schq[m], n) \in Seq(Nodes)
    BY <2>1, PushInQ
  <2> QED  BY <1>2, <2>2 DEF TypeOK, HeapType
<1> QED  BY <1>1, <1>2 DEF queue_node_add

LEMMA MonitorStep ==
  ASSUME MemoryInv, NEW m \in Monitors, monitor_handle(m)
  PROVE  MemoryInv'
<1>1. TypeOK
  BY DEF MemoryInv
<1>2. /\ mpc[m] \in {"start", "scan", "run"}
      /\ UNCHANGED <<disk, srvq, scheVars, upVars, srvVars, procVars, histVars>>
  BY DEF monitor_handle, MonitorWatch, ScanFile, ScanEnd, MonitorEvent, MonitorExit, monFrame
<1>3. phase = "run" /\ phase' = "run"
  BY <1>2 DEF MemoryInv, PhaseOK, Joined, procVars
<1>4. \/ \E f \in Files : queue_node_add(m, f)
      \/ UNCHANGED <<memVars, schq>>
  <2>1. CASE \E f \in Files : ScanFile(m, f)
    BY <2>1 DEF ScanFile, AddIfPresent
  <2>2. CASE MonitorEvent(m)
    <3>1. Head(events[m]) \in Files
      BY <1>1, <2>2 DEF MonitorEvent, TypeOK
    <3> QED  BY <2>2, <3>1 DEF MonitorEvent, AddIfPresent
  <2>3. CASE MonitorWatch(m) \/ ScanEnd(m) \/ MonitorExit(m)
    BY <2>3 DEF MonitorWatch, ScanEnd, MonitorExit
  <2> QED  BY <2>1, <2>2, <2>3 DEF monitor_handle
<1>5. MonType'
  <2> USE DEF TypeOK, MonType
  <2>1. CASE MonitorWatch(m)
    BY <1>1, <2>1 DEF MonitorWatch
  <2>2. CASE \E f \in Files : ScanFile(m, f)
    BY <1>1, <2>2 DEF ScanFile
  <2>3. CASE ScanEnd(m)
    BY <1>1, <2>3 DEF ScanEnd
  <2>4. CASE MonitorEvent(m)
    <3>1. events[m] \in Seq(Files) /\ events[m] # <<>>
      BY <1>1, <2>4 DEF MonitorEvent
    <3>2. Tail(events[m]) \in Seq(Files)
      BY <3>1, PopInQ
    <3>3. events' = [events EXCEPT ![m] = Tail(@)] /\ UNCHANGED unscanned
      BY <2>4 DEF MonitorEvent
    <3>4. mpc' \in [Monitors -> {"start", "scan", "run", "exit"}]
      BY <1>1, <2>4 DEF MonitorEvent
    <3> QED  BY <1>1, <3>2, <3>3, <3>4
  <2>5. CASE MonitorExit(m)
    BY <1>1, <2>5 DEF MonitorExit
  <2> QED  BY <2>1, <2>2, <2>3, <2>4, <2>5 DEF monitor_handle
<1>6. HeapType'
  <2>1. CASE UNCHANGED <<memVars, schq>>
    BY <1>1, <1>2, <2>1, TypeParts, TypeFrame
  <2>2. ASSUME NEW f \in Files, queue_node_add(m, f)
        PROVE  HeapType'
    BY <1>1, <1>2, <2>2, AddType
  <2> QED  BY <1>4, <2>1, <2>2
<1>7. TypeOK'
  BY <1>1, <1>2, <1>5, <1>6, TypeParts, TypePartsNext, TypeFrame
<1>8. CASE UNCHANGED <<memVars, schq>>
  <2>1. ScheGoesOn
    BY <1>2, ScheStays DEF scheVars
  <2>2. SameMemory /\ UploadGoesOn /\ PhaseGoesOn
    BY <1>2, <1>3, <1>8 DEF SameMemory, UploadGoesOn, PhaseGoesOn, scheVars, upVars
  <2> QED  BY <1>7, <2>1, <2>2, QuietStep
<1>9. ASSUME NEW f \in Files, queue_node_add(m, f)
      PROVE  MemoryInv'
  BY <1>2, <1>3, <1>7, <1>9, AddStep DEF UploadSame
<1> QED  BY <1>4, <1>8, <1>9

-----------------------------------------------------------------------------
(***************************************************************************)
(* The scheduling thread, action by action.                                *)
(***************************************************************************)

\* Steps that only look at the disk or change it, and go on with the node.
LEMMA ScheQuiet ==
  ASSUME MemoryInv, NEW m \in Monitors,
         UNCHANGED <<memVars, schq, srvq, snode>>,
         UNCHANGED <<monVars, upVars, srvVars, phase, starts, histVars>>,
         disk' \in SUBSET Names,
         mrun' \in BOOLEAN, urun' \in BOOLEAN, upload_count' \in Nat,
         ScheType', ScheGoesOn, phase = "run"
  PROVE  MemoryInv'
<1>1. TypeOK
  BY DEF MemoryInv
<1>2. DiskType' /\ ProcType'
  BY <1>1, TypeParts DEF DiskType, ProcType, histVars
<1>3. TypeOK'
  BY <1>1, <1>2, TypeParts, TypePartsNext, TypeFrame
<1>4. SameMemory /\ UploadGoesOn /\ PhaseGoesOn
  BY DEF SameMemory, UploadGoesOn, PhaseGoesOn, upVars
<1> QED  BY <1>3, <1>4, QuietStep

LEMMA SchePopType ==
  ASSUME MemoryInv, NEW m \in Monitors, SchePop(m)
  PROVE  TypeOK'
<1>1. TypeOK
  BY DEF MemoryInv
<1>2. /\ UNCHANGED <<disk, srvq, memVars, monVars, upVars, srvVars, histVars>>
      /\ UNCHANGED procVars /\ spc[m] = "head" /\ schq[m] # <<>>
  BY DEF SchePop, scheFrame, signals, procVars
<1>3. schq[m] \in Seq(Nodes)
  BY <1>1 DEF TypeOK
<1>4. /\ Head(schq[m]) \in Nodes /\ Tail(schq[m]) \in Seq(Nodes)
      /\ Append(Tail(schq[m]), Head(schq[m])) \in Seq(Nodes)
  BY <1>2, <1>3, PopInQ, PushInQ
<1>5. HeapType' /\ ScheType'
  <2>1. CASE retain[Head(schq[m])] # 0
    <3>1. schq' = [schq EXCEPT ![m] = Append(Tail(@), Head(schq[m]))] /\ UNCHANGED scheVars
      BY <2>1 DEF SchePop
    <3> QED  BY <1>1, <1>2, <1>4, <3>1 DEF TypeOK, HeapType, ScheType, memVars, scheVars
  <2>2. CASE retain[Head(schq[m])] = 0
    <3>1. /\ schq' = [schq EXCEPT ![m] = Tail(@)]
          /\ snode' = [snode EXCEPT ![m] = Head(schq[m])]
          /\ spc' = [spc EXCEPT ![m] = "src"] /\ UNCHANGED si
      BY <2>2 DEF SchePop, Goto
    <3>2. HeapType'
      BY <1>1, <1>2, <1>4, <3>1 DEF TypeOK, HeapType, memVars
    <3>3. ScheType'
      BY <1>1, <1>4, <3>1 DEF TypeOK, ScheType, ScheFresh
    <3> QED  BY <3>2, <3>3
  <2> QED  BY <2>1, <2>2
<1> QED  BY <1>1, <1>2, <1>5, TypeParts, TypePartsNext, TypeFrame

LEMMA SchePushType ==
  ASSUME MemoryInv, NEW m \in Monitors, SchePush(m)
  PROVE  TypeOK'
<1>1. TypeOK
  BY DEF MemoryInv
<1>2. /\ UNCHANGED <<disk, srvq, memVars, monVars, upVars, srvVars, histVars, si>>
      /\ UNCHANGED procVars /\ spc[m] = "push"
      /\ schq' = [schq EXCEPT ![m] = Append(@, snode[m])]
      /\ snode' = [snode EXCEPT ![m] = NoNode]
      /\ spc' = [spc EXCEPT ![m] = "head"]
  BY DEF SchePush, scheFrame, signals, procVars, Goto
<1>3. snode[m] \in Nodes /\ schq[m] \in Seq(Nodes)
  BY <1>1, <1>2, HeldNode DEF TypeOK, ScheIdle
<1>4. Append(schq[m], snode[m]) \in Seq(Nodes)
  BY <1>3, PushInQ
<1>5. HeapType'
  BY <1>1, <1>2, <1>4 DEF TypeOK, HeapType, memVars
<1>6. ScheType'
  BY <1>1, <1>2 DEF TypeOK, ScheType, ScheIdle
<1> QED  BY <1>1, <1>2, <1>5, <1>6, TypeParts, TypePartsNext, TypeFrame

\* ScheCheckSrc and ScheDelK: the node is dropped.
LEMMA DropType ==
  ASSUME MemoryInv, NEW m \in Monitors, spc[m] \in ScheFresh, DropNode(m),
         disk' \in SUBSET Names, UNCHANGED <<schq, srvq, si, signals>>, scheFrame
  PROVE  TypeOK'
<1>1. TypeOK
  BY DEF MemoryInv
<1>2. HeapType'
  BY <1>1 DEF TypeOK, HeapType, DropNode, free_original
<1>3. ScheType'
  BY <1>1 DEF TypeOK, ScheType, DropNode, Goto, ScheIdle
<1>4. DiskType' /\ UNCHANGED procVars
  BY <1>1 DEF TypeOK, DiskType, scheFrame, histVars, procVars, signals
<1> QED  BY <1>1, <1>2, <1>3, <1>4, TypeParts, TypePartsNext, TypeFrame DEF scheFrame

LEMMA CopyType ==
  ASSUME MemoryInv, NEW m \in Monitors, NEW s \in Servers, spc[m] = "pick",
         copy_and_push(snode[m], si[m], s), NextGroup(m),
         UNCHANGED <<disk, schq, snode, signals>>, scheFrame
  PROVE  TypeOK'
<1>1. TypeOK
  BY DEF MemoryInv
<1>2. ScheType'
  BY <1>1, NextGroupFacts DEF TypeOK, ScheType, ScheLoop
<1>3. HeapType'
  <2>1. CASE UNCHANGED <<memVars, srvq>>
    BY <1>1, <2>1, TypeParts, TypeFrame
  <2>2. ASSUME NEW c \in FreeCopies,
               cnode' = [cnode EXCEPT ![c] = snode[m]],
               csg' = [csg EXCEPT ![c] = si[m]],
               retain' = [retain EXCEPT ![snode[m]] = @ + 1],
               srvq' = [srvq EXCEPT ![s] = Append(@, c)],
               UNCHANGED <<nfile, nmon>>
        PROVE  HeapType'
    <3>1. c \in Copies /\ srvq[s] \in Seq(Copies) /\ si[m] \in Nat
      BY <1>1 DEF FreeCopies, TypeOK
    <3>2. Append(srvq[s], c) \in Seq(Copies)
      BY <3>1, PushInQ
    <3>3. snode[m] \in Nodes
      BY HeldNode DEF ScheIdle
    <3> QED  BY <1>1, <2>2, <3>1, <3>2, <3>3 DEF TypeOK, HeapType
  <2> QED  BY <2>1, <2>2 DEF copy_and_push
<1>4. UNCHANGED <<histVars, procVars, disk>>
  BY DEF scheFrame, histVars, procVars, signals
<1> QED  BY <1>1, <1>2, <1>3, <1>4, TypeParts, TypePartsNext, TypeFrame DEF scheFrame

LEMMA DiskNames ==
  ASSUME MemoryInv, NEW name \in Names, create_file(name) \/ delete_file(name)
  PROVE  disk' \in SUBSET Names
BY DEF MemoryInv, TypeOK, create_file, delete_file

\* The steps of sche_handle that keep the node: a new program counter, at
\* most a new group index, at most a change of the disk or of the signals.
LEMMA ScheKeepsNode ==
  ASSUME MemoryInv, NEW m \in Monitors, NEW x, spc[m] \notin ScheIdle,
         spc' = [spc EXCEPT ![m] = x],
         si' = si \/ si' = [si EXCEPT ![m] = 1],
         si' = si \/ spc[m] \in ScheFresh,
         x \in ScheFresh \cup ScheLoop,
         x \in ScheFresh => spc[m] \in ScheFresh,
         x \in ScheLoop => spc[m] \in ScheFresh \cup ScheLoop,
         disk' \in SUBSET Names,
         UNCHANGED <<schq, srvq, memVars, snode>>, scheFrame,
         mrun' \in BOOLEAN, urun' \in BOOLEAN, upload_count' \in Nat
  PROVE  MemoryInv'
<1>1. phase = "run"
  BY DEF MemoryInv, PhaseOK, Joined, ScheIdle
<1>2. si \in [Monitors -> Nat] /\ \A k \in Monitors : si[k] \in Groups(k) /\ 1 \in Groups(k)
  BY SglFacts DEF MemoryInv, TypeOK, ControlOK
<1>3. /\ si' \in [Monitors -> Nat] /\ si'[m] \in Groups(m)
      /\ \A k \in Monitors \ {m} : si'[k] = si[k]
      /\ si' = si => si'[m] >= si[m]
  BY <1>2
<1>4. x \notin ScheIdle
  BY DEF ScheIdle, ScheFresh, ScheLoop
<1>5. ScheGoesOn /\ spc' \in [Monitors -> ScheIdle \cup ScheFresh \cup ScheLoop \cup {"push"}]
  BY <1>3, <1>4, ScheMoves
<1>6. ScheType'
  BY <1>3, <1>5 DEF MemoryInv, TypeOK, ScheType
<1> QED  BY <1>1, <1>5, <1>6, ScheQuiet DEF scheFrame

\* On to the next server group without a copy for this one.
LEMMA ScheNextGroup ==
  ASSUME MemoryInv, NEW m \in Monitors, spc[m] \in ScheLoop, NextGroup(m),
         UNCHANGED <<disk, schq, srvq, memVars, snode, signals>>, scheFrame
  PROVE  MemoryInv'
<1>1. TypeOK /\ phase = "run"
  BY DEF MemoryInv, PhaseOK, Joined, ScheLoop
<1>2. ScheGoesOn /\ ScheType'
  BY <1>1, NextGroupFacts DEF TypeOK, ScheType
<1> QED  BY <1>1, <1>2, ScheQuiet DEF scheFrame, signals, TypeOK

LEMMA ScheStep ==
  ASSUME MemoryInv, NEW m \in Monitors, sche_handle(m)
  PROVE  MemoryInv'
<1>1. TypeOK /\ disk \in SUBSET Names /\ mrun \in BOOLEAN /\ urun \in BOOLEAN /\ upload_count \in Nat
  BY DEF MemoryInv, TypeOK
<1>2. ASSUME spc[m] \notin ScheIdle
      PROVE  /\ nfile[snode[m]] \in Files
             /\ \A i \in Groups(m) : StateFile(nfile[snode[m]], m, SgName(m, i)) \in Names
             /\ Src(nfile[snode[m]]) \in Names /\ Mon(nfile[snode[m]]) \in Names
             /\ UploadK(nfile[snode[m]]) \in Names
  <2>1. nfile[snode[m]] \in Files
    BY <1>1, <1>2, HeldNode DEF TypeOK
  <2> QED  BY <2>1, FileNames, SglFacts
<1> USE DEF ScheIdle, ScheFresh, ScheLoop, Goto
<1>3. CASE SchePop(m)
  BY <1>3, SchePopType, SchePopStep
<1>4. CASE ScheCheckSrc(m)
  <2>1. CASE Src(nfile[snode[m]]) \in disk
    BY <1>1, <1>4, <2>1, ScheKeepsNode DEF ScheCheckSrc, signals
  <2>2. CASE Src(nfile[snode[m]]) \notin disk
    <3>1. spc[m] \in ScheFresh /\ DropNode(m) /\ scheFrame
          /\ UNCHANGED <<disk, schq, srvq, si, signals>>
      BY <1>4, <2>2 DEF ScheCheckSrc
    <3>2. TypeOK'
      BY <1>1, <3>1, DropType
    <3>3. UploadSame /\ UNCHANGED phase
      BY <3>1 DEF UploadSame, scheFrame
    <3> QED  BY <3>1, <3>2, <3>3, DropStep
  <2> QED  BY <2>1, <2>2
<1>5. CASE ScheCheckK(m)
  BY <1>1, <1>5, ScheKeepsNode DEF ScheCheckK, signals
<1>6. CASE ScheCreateFlag(m)
  <2>1. /\ spc[m] = "flag" /\ scheFrame
        /\ UNCHANGED <<schq, srvq, memVars, snode, signals>>
        /\ create_file(StateFile(nfile[snode[m]], m, SgName(m, si[m])))
    BY <1>6 DEF ScheCreateFlag
  <2>2. disk' \in SUBSET Names
    <3>1. si[m] \in Groups(m)
      BY DEF MemoryInv, ControlOK
    <3> QED  BY <1>2, <2>1, <3>1, DiskNames
  <2>3. /\ si[m] \in Nat /\ si[m] \in 1..Len(Sgl[m]) /\ Groups(m) = 1..Len(Sgl[m])
        /\ Len(Sgl[m]) \in Nat /\ si \in [Monitors -> Nat]
        /\ spc \in [Monitors -> ScheIdle \cup ScheFresh \cup ScheLoop \cup {"push"}]
        /\ snode \in [Monitors -> Nodes \cup {NoNode}]
    BY <1>1, SglFacts DEF MemoryInv, ControlOK, TypeOK
  <2>4. CASE si[m] < Len(Sgl[m])
    <3>1. si' = [si EXCEPT ![m] = @ + 1] /\ spc' = spc
      BY <1>6, <2>4 DEF ScheCreateFlag
    <3>2. si' \in [Monitors -> Nat] /\ \A k \in Monitors : si'[k] \in Groups(k)
      BY <2>3, <2>4, <3>1 DEF MemoryInv, ControlOK
    <3>3. \A k \in Monitors : si'[k] >= si[k]
      BY <2>3, <3>1
    <3>4. ScheGoesOn /\ ScheType'
      BY <2>1, <2>3, <3>1, <3>2, <3>3 DEF ScheGoesOn, ScheType
    <3>5. phase = "run"
      BY <2>1 DEF MemoryInv, PhaseOK, Joined
    <3>6. mrun' \in BOOLEAN /\ urun' \in BOOLEAN /\ upload_count' \in Nat
      BY <1>1, <2>1 DEF signals
    <3> QED  BY <2>1, <2>2, <3>4, <3>5, <3>6, ScheQuiet DEF scheFrame
  <2>5. CASE ~(si[m] < Len(Sgl[m]))
    <3>1. si' = si /\ spc' = [spc EXCEPT ![m] = "mk"]
      BY <1>6, <2>5 DEF ScheCreateFlag
    <3> QED  BY <1>1, <2>1, <2>2, <3>1, ScheKeepsNode DEF signals
  <2> QED  BY <2>4, <2>5
<1>7. CASE ScheCreateK(m)
  <2>1. disk' \in SUBSET Names
    BY <1>2, <1>7, DiskNames DEF ScheCreateK
  <2> QED  BY <1>1, <1>7, <2>1, ScheKeepsNode DEF ScheCreateK, signals
<1>8. CASE ScheCheckAll(m)
  BY <1>1, <1>8, ScheKeepsNode DEF ScheCheckAll, signals
<1>9. CASE ScheMoveSrc(m)
  <2>1. disk' \in SUBSET Names
    BY <1>1, <1>2, <1>9, DiskNames DEF ScheMoveSrc, do_move_to
  <2> QED  BY <1>1, <1>9, <2>1, ScheKeepsNode DEF ScheMoveSrc, signals
<1>10. CASE ScheDelMon(m)
  <2>1. disk' \in SUBSET Names
    BY <1>2, <1>10, DiskNames DEF ScheDelMon
  <2> QED  BY <1>1, <1>10, <2>1, ScheKeepsNode DEF ScheDelMon, signals
<1>11. CASE ScheLimit(m)
  <2>1. upload_count' \in Nat
    BY <1>1, <1>11 DEF ScheLimit
  <2>2. mrun' \in BOOLEAN /\ urun' \in BOOLEAN
    BY <1>1, <1>11 DEF ScheLimit
  <2> QED  BY <1>1, <1>11, <2>1, <2>2, ScheKeepsNode DEF ScheLimit
<1>12. CASE ScheDelK(m)
  <2>1. spc[m] \in ScheFresh /\ DropNode(m) /\ scheFrame /\ UNCHANGED <<schq, srvq, si, signals>>
    BY <1>12 DEF ScheDelK
  <2>2. disk' \in SUBSET Names
    BY <1>2, <1>12, DiskNames DEF ScheDelK
  <2>3. TypeOK'
    BY <2>1, <2>2, DropType
  <2>4. UploadSame /\ UNCHANGED phase
    BY <2>1 DEF UploadSame, scheFrame
  <2> QED  BY <2>1, <2>3, <2>4, DropStep
<1>13. CASE ScheGroup(m)
  <2>1. CASE StateFile(nfile[snode[m]], m, SgName(m, si[m])) \in disk
    BY <1>1, <1>13, <2>1, ScheKeepsNode DEF ScheGroup, signals
  <2>2. CASE StateFile(nfile[snode[m]], m, SgName(m, si[m])) \notin disk
    <3>1. NextGroup(m) /\ spc[m] = "group" /\ scheFrame
          /\ UNCHANGED <<disk, schq, srvq, memVars, snode, signals>>
      BY <1>13, <2>2 DEF ScheGroup
    <3> QED  BY <1>1, <3>1, ScheNextGroup
  <2> QED  BY <2>1, <2>2
<1>14. CASE ScheDispatch(m)
  <2>1. NextGroup(m) /\ spc[m] = "pick" /\ scheFrame /\ UNCHANGED <<disk, schq, snode, signals>>
    BY <1>14 DEF ScheDispatch
  <2>2. CASE UNCHANGED <<memVars, srvq>>
    BY <1>1, <2>1, <2>2, ScheNextGroup
  <2>3. ASSUME NEW s \in Target(m, si[m]), copy_and_push(snode[m], si[m], s)
        PROVE  MemoryInv'
    <3>1. s \in Servers
      BY <2>3, TargetIsServer DEF MemoryInv, ControlOK
    <3>2. TypeOK'
      BY <2>1, <2>3, <3>1, CopyType
    <3> QED  BY <2>1, <2>3, <3>1, <3>2, CopyStep DEF scheFrame
  <2> QED  BY <1>14, <2>2, <2>3 DEF ScheDispatch
<1>15. CASE SchePush(m)
  BY <1>15, SchePushType, SchePushStep
<1>16. CASE ScheExit(m)
  <2>1. /\ spc[m] = "head" /\ spc' = [spc EXCEPT ![m] = "exit"] /\ scheFrame
        /\ UNCHANGED <<disk, schq, srvq, memVars, snode, si, signals>>
    BY <1>16 DEF ScheExit
  <2>2. /\ si \in [Monitors -> Nat] /\ \A k \in Monitors : si[k] \in Groups(k)
        /\ snode \in [Monitors -> Nodes \cup {NoNode}]
    BY <1>1 DEF MemoryInv, ControlOK, TypeOK
  <2>3. ScheGoesOn /\ spc' \in [Monitors -> ScheIdle \cup ScheFresh \cup ScheLoop \cup {"push"}]
    BY <2>1, <2>2, ScheMoves
  <2>4. ScheType'
    BY <2>1, <2>2, <2>3 DEF ScheType
  <2>5. phase = "run"
    BY <2>1 DEF MemoryInv, PhaseOK, Joined
  <2> QED  BY <1>1, <2>1, <2>3, <2>4, <2>5, ScheQuiet DEF scheFrame, signals
<1> QED
  BY <1>3, <1>4, <1>5, <1>6, <1>7, <1>8, <1>9, <1>10, <1>11, <1>12, <1>13, <1>14,
     <1>15, <1>16 DEF sche_handle

-----------------------------------------------------------------------------
(***************************************************************************)
(* The upload threads, action by action.                                   *)
(***************************************************************************)

\* What a busy thread holds: a live copy of a live node of a known file.
LEMMA HeldCopy ==
  ASSUME MemoryInv, NEW t \in Threads, wpc[t] \notin UploadIdle
  PROVE  /\ phase = "run"
         /\ wcopy[t] \in Copies /\ cnode[wcopy[t]] \in Nodes
         /\ FileOf(t) \in Files /\ MonOf(t) \in Monitors
         /\ csg[wcopy[t]] \in Groups(MonOf(t)) /\ csg[wcopy[t]] \in Nat
         /\ Src(FileOf(t)) \in Names
         /\ StateFile(FileOf(t), MonOf(t), SgName(MonOf(t), csg[wcopy[t]])) \in Names
<1> USE DEF MemoryInv
<1>1. wcopy[t] # NoCopy
  BY DEF ControlOK
<1>2. wcopy[t] \in Copies /\ cnode[wcopy[t]] # NoNode
  BY <1>1 DEF TypeOK, CopyInOnePlace
<1>3. cnode[wcopy[t]] \in Nodes /\ nfile[cnode[wcopy[t]]] # NoFile
  BY <1>2 DEF TypeOK, NoDanglingCopy
<1>4. nfile[cnode[wcopy[t]]] \in Files /\ nmon[cnode[wcopy[t]]] \in Monitors
  BY <1>3 DEF TypeOK, NodeInOnePlace
<1>5. csg[wcopy[t]] \in Groups(nmon[cnode[wcopy[t]]]) /\ csg[wcopy[t]] \in Nat
  BY <1>2 DEF ControlOK, TypeOK
<1>6. phase = "run"
  BY DEF PhaseOK, Joined, UploadIdle
<1>7. /\ Src(nfile[cnode[wcopy[t]]]) \in Names
      /\ StateFile(nfile[cnode[wcopy[t]]], nmon[cnode[wcopy[t]]],
                   SgName(nmon[cnode[wcopy[t]]], csg[wcopy[t]])) \in Names
  BY <1>4, <1>5, FileNames, SglFacts
<1> QED  BY <1>2, <1>3, <1>4, <1>5, <1>6, <1>7 DEF FileOf, MonOf

\* Steps of a thread that keep its copy, or leave it without one.
LEMMA UploadQuiet ==
  ASSUME MemoryInv, NEW t \in Threads, NEW x, wpc' = [wpc EXCEPT ![t] = x],
         x \in UploadIdle \cup UploadBusy, x \in UploadIdle <=> wpc[t] \in UploadIdle,
         UNCHANGED <<srvq, memVars, wcopy>>, upFrame, phase = "run",
         disk' \in SUBSET Names, delivered' \in SUBSET (Files \X Monitors \X Nat),
         wrc' \in [Threads -> Int], down' \in [Servers -> BOOLEAN],
         rc' \in [Servers -> Int]
  PROVE  MemoryInv'
<1>1. TypeOK
  BY DEF MemoryInv
<1>2. DiskType'
  BY <1>1 DEF TypeOK, DiskType, upFrame
<1>3. UploadType'
  BY <1>1 DEF TypeOK, UploadType
<1>4. TypeOK'
  BY <1>1, <1>2, <1>3, TypeParts, TypePartsNext, TypeFrame DEF upFrame
<1>5. SameMemory
  BY DEF SameMemory, upFrame, scheVars
<1>6. UploadGoesOn
  BY <1>1 DEF UploadGoesOn, TypeOK
<1>7. ScheGoesOn
  BY ScheStays DEF upFrame, scheVars
<1>8. PhaseGoesOn
  BY DEF PhaseGoesOn, upFrame, procVars
<1> QED  BY <1>4, <1>5, <1>6, <1>7, <1>8, QuietStep

LEMMA UploadPopType ==
  ASSUME MemoryInv, NEW t \in Threads, UploadPop(t)
  PROVE  TypeOK'
<1> DEFINE s == ServerOf[t]
<1>1. TypeOK /\ s \in Servers
  BY ConfigAssumption DEF MemoryInv
<1>2. /\ srvq[s] \in Seq(Copies) /\ srvq[s] # <<>>
      /\ srvq' = [srvq EXCEPT ![s] = Tail(@)]
      /\ wcopy' = [wcopy EXCEPT ![t] = Head(srvq[s])]
      /\ wpc' = [wpc EXCEPT ![t] = "check"]
      /\ UNCHANGED <<disk, memVars, wrc, srvVars, delivered>> /\ upFrame
  BY <1>1 DEF UploadPop, WGoto, TypeOK
<1>3. Head(srvq[s]) \in Copies /\ Tail(srvq[s]) \in Seq(Copies)
  BY <1>2, PopInQ
<1>4. HeapType'
  BY <1>1, <1>2, <1>3 DEF TypeOK, HeapType, memVars, upFrame
<1>5. UploadType'
  BY <1>1, <1>2, <1>3 DEF TypeOK, UploadType, srvVars, UploadBusy
<1>6. UNCHANGED <<disk, histVars>>
  BY <1>2 DEF histVars, upFrame
<1> QED  BY <1>1, <1>2, <1>4, <1>5, <1>6, TypeParts, TypePartsNext, TypeFrame DEF upFrame

LEMMA ReleaseType ==
  ASSUME MemoryInv, NEW t \in Threads, wpc[t] \notin UploadIdle, ReleaseCopy(t),
         UNCHANGED <<disk, srvq, wrc, srvVars, delivered>>, upFrame
  PROVE  TypeOK'
<1>1. TypeOK /\ wcopy[t] \in Copies /\ cnode[wcopy[t]] \in Nodes
  BY HeldCopy DEF MemoryInv
<1>2. HeapType'
  BY <1>1 DEF TypeOK, HeapType, ReleaseCopy, free_copy, upFrame
<1>3. UploadType'
  BY <1>1 DEF TypeOK, UploadType, ReleaseCopy, WGoto, srvVars, UploadIdle
<1>4. UNCHANGED <<disk, histVars>>
  BY DEF histVars, upFrame
<1> QED  BY <1>1, <1>2, <1>3, <1>4, TypeParts, TypePartsNext, TypeFrame DEF upFrame

LEMMA PushBackType ==
  ASSUME MemoryInv, NEW t \in Threads, wpc[t] = "writerc", UploadWriteRc(t),
         wrc[t] < retry_count
  PROVE  TypeOK'
<1> DEFINE s == ServerOf[t]
<1>1. TypeOK /\ s \in Servers /\ wcopy[t] \in Copies /\ srvq[s] \in Seq(Copies) /\ wrc[t] \in Int
  BY ConfigAssumption, HeldCopy DEF MemoryInv, UploadIdle, TypeOK
<1>2. Append(srvq[s], wcopy[t]) \in Seq(Copies)
  BY <1>1, PushInQ
<1>3. /\ srvq' = [srvq EXCEPT ![s] = Append(@, wcopy[t])]
      /\ wcopy' = [wcopy EXCEPT ![t] = NoCopy]
      /\ wpc' = [wpc EXCEPT ![t] = "head"]
      /\ wrc' = [wrc EXCEPT ![t] = 0]
      /\ rc' = [rc EXCEPT ![s] = wrc[t] + 1]
      /\ UNCHANGED <<disk, memVars, down, delivered>> /\ upFrame
  BY <1>1 DEF UploadWriteRc, WGoto
<1>4. HeapType'
  BY <1>1, <1>2, <1>3 DEF TypeOK, HeapType, memVars, upFrame
<1>5. UploadType'
  BY <1>1, <1>3 DEF TypeOK, UploadType, UploadIdle
<1>6. UNCHANGED <<disk, histVars>>
  BY <1>3 DEF histVars, upFrame
<1> QED  BY <1>1, <1>3, <1>4, <1>5, <1>6, TypeParts, TypePartsNext, TypeFrame DEF upFrame

LEMMA UploadStep ==
  ASSUME MemoryInv, NEW t \in Threads, upload_handle(t)
  PROVE  MemoryInv'
<1>1. /\ disk \in SUBSET Names /\ delivered \in SUBSET (Files \X Monitors \X Nat)
      /\ wrc \in [Threads -> Int] /\ rc \in [Servers -> Int]
      /\ down \in [Servers -> BOOLEAN] /\ ServerOf[t] \in Servers /\ retry_count \in Int
  BY ConfigAssumption DEF MemoryInv, TypeOK
<1> USE DEF UploadIdle, UploadBusy, WGoto
<1>2. CASE UploadPop(t)
  BY <1>2, UploadPopType, UploadPopStep
<1>3. ASSUME wpc[t] \notin UploadIdle, ReleaseCopy(t),
             UNCHANGED <<disk, srvq, wrc, srvVars, delivered>>, upFrame
      PROVE  MemoryInv'
  <2>1. TypeOK'
    BY <1>3, ReleaseType
  <2>2. UNCHANGED <<schq, srvq, scheVars, phase>>
    BY <1>3 DEF upFrame, procVars
  <2> QED  BY <1>3, <2>1, <2>2, ReleaseStep
<1>4. CASE UploadCheck(t)
  <2>1. CASE ~down[ServerOf[t]] /\ Src(FileOf(t)) \in disk
    BY <1>1, <1>4, <2>1, HeldCopy, UploadQuiet DEF UploadCheck, srvVars
  <2>2. CASE ~(~down[ServerOf[t]] /\ Src(FileOf(t)) \in disk)
    BY <1>3, <1>4, <2>2 DEF UploadCheck
  <2> QED  BY <2>1, <2>2
<1>5. CASE UploadCallOk(t)
  <2>1. wpc[t] \notin UploadIdle
    BY <1>5 DEF UploadCallOk
  <2>2. <<FileOf(t), MonOf(t), csg[wcopy[t]]>> \in Files \X Monitors \X Nat
    BY <2>1, HeldCopy
  <2>3. delivered' \in SUBSET (Files \X Monitors \X Nat)
    BY <1>1, <1>5, <2>2 DEF UploadCallOk
  <2> QED  BY <1>1, <1>5, <2>3, HeldCopy, UploadQuiet DEF UploadCallOk, srvVars
<1>6. CASE UploadCallFail(t)
  BY <1>1, <1>6, HeldCopy, UploadQuiet DEF UploadCallFail, srvVars
<1>7. CASE UploadDelSrc(t)
  <2>1. disk' \in SUBSET Names
    BY <1>7, HeldCopy, DiskNames DEF UploadDelSrc
  <2> QED  BY <1>1, <1>7, <2>1, HeldCopy, UploadQuiet DEF UploadDelSrc, srvVars
<1>8. CASE do_upload_file_finish_single(t)
  <2>1. disk' \in SUBSET Names
    BY <1>8, HeldCopy, DiskNames DEF do_upload_file_finish_single
  <2> QED  BY <1>1, <1>8, <2>1, HeldCopy, UploadQuiet DEF do_upload_file_finish_single, srvVars
<1>9. CASE UploadReadRc(t)
  BY <1>1, <1>9, HeldCopy, UploadQuiet DEF UploadReadRc, srvVars
<1>10. CASE UploadWriteRc(t)
  <2>1. wpc[t] = "writerc" /\ UNCHANGED <<disk, memVars, down, delivered>> /\ upFrame
    BY <1>10 DEF UploadWriteRc
  <2>2. CASE wrc[t] < retry_count
    <3>1. TypeOK'
      BY <1>10, <2>1, <2>2, PushBackType
    <3>2. /\ srvq' = [srvq EXCEPT ![ServerOf[t]] = Append(@, wcopy[t])]
          /\ wcopy' = [wcopy EXCEPT ![t] = NoCopy]
          /\ wpc' = [wpc EXCEPT ![t] = "head"]
      BY <1>10, <2>2 DEF UploadWriteRc
    <3>3. UNCHANGED <<memVars, schq, scheVars, phase>>
      BY <2>1 DEF upFrame, procVars
    <3> QED  BY <1>1, <2>1, <3>1, <3>2, <3>3, PushBackStep
  <2>3. CASE ~(wrc[t] < retry_count)
    <3>1. /\ rc' = [rc EXCEPT ![ServerOf[t]] = wrc[t]]
          /\ wpc' = [wpc EXCEPT ![t] = "sleep"]
          /\ wrc' = [wrc EXCEPT ![t] = 0]
          /\ UNCHANGED <<srvq, wcopy>>
      BY <1>10, <2>3 DEF UploadWriteRc
    <3>2. rc' \in [Servers -> Int] /\ wrc' \in [Threads -> Int]
      BY <1>1, <3>1
    <3> QED  BY <1>1, <2>1, <3>1, <3>2, HeldCopy, UploadQuiet
  <2> QED  BY <2>2, <2>3
<1>11. CASE UploadSleep(t)
  <2>1. down' \in [Servers -> BOOLEAN]
    BY <1>1, <1>11, Zenon DEF UploadSleep
  <2> QED  BY <1>1, <1>11, <2>1, HeldCopy, UploadQuiet DEF UploadSleep
<1>12. CASE UploadResetRc(t)
  <2>1. rc' \in [Servers -> Int]
    BY <1>1, <1>12 DEF UploadResetRc
  <2>2. wpc[t] = "resetrc" /\ phase = "run"
    BY <1>12, HeldCopy DEF UploadResetRc
  <2> QED  BY <1>1, <1>12, <2>1, <2>2, UploadQuiet DEF UploadResetRc
<1>13. CASE UploadFree(t)
  BY <1>3, <1>13 DEF UploadFree
<1>14. CASE UploadExit(t)
  <2>1. phase = "run"
    BY <1>14 DEF UploadExit, MemoryInv, PhaseOK, Joined
  <2> QED  BY <1>1, <1>14, <2>1, UploadQuiet DEF UploadExit, srvVars
<1> QED
  BY <1>2, <1>4, <1>5, <1>6, <1>7, <1>8, <1>9, <1>10, <1>11, <1>12, <1>13, <1>14
     DEF upload_handle

LEMMA WakeUpStep ==
  ASSUME MemoryInv, NEW s \in Servers, WakeUp(s)
  PROVE  MemoryInv'
<1>1. TypeOK
  BY DEF MemoryInv
<1>2. down' \in [Servers -> BOOLEAN]
  BY <1>1, Zenon DEF TypeOK, WakeUp
<1>3. UploadType'
  BY <1>1, <1>2 DEF TypeOK, UploadType, WakeUp, upVars
<1>4. /\ UNCHANGED <<disk, srvq, memVars, upVars, rc, delivered, histVars>> /\ upFrame
      /\ UNCHANGED <<schq, monVars, scheVars, procVars>>
  BY DEF WakeUp, upFrame, histVars
<1>5. TypeOK'
  BY <1>1, <1>3, <1>4, TypeParts, TypePartsNext, TypeFrame
<1>6. SameMemory /\ UploadGoesOn
  BY <1>4 DEF SameMemory, UploadGoesOn, upVars, scheVars
<1>7. ScheGoesOn
  BY <1>4, ScheStays DEF scheVars
<1>8. PhaseGoesOn
  BY <1>4 DEF PhaseGoesOn, procVars, MemoryInv, PhaseOK, Joined, monVars, scheVars, upVars, TypeOK
<1> QED  BY <1>5, <1>6, <1>7, <1>8, QuietStep

-----------------------------------------------------------------------------
(***************************************************************************)
(* The process.                                                            *)
(***************************************************************************)
LEMMA StartStep ==
  ASSUME MemoryInv, newiup_pthread_start
  PROVE  MemoryInv'
<1>1. TypeOK /\ phase = "down" /\ Joined /\ phase' = "run"
  BY DEF MemoryInv, PhaseOK, newiup_pthread_start
<1>2. ProcType'
  <2>1. mrun' \in BOOLEAN /\ urun' \in BOOLEAN
    BY Zenon DEF newiup_pthread_start
  <2> QED  BY <1>1, <2>1 DEF newiup_pthread_start, ProcType, TypeOK
<1>3. MonType'
  BY DEF newiup_pthread_start, MonType
<1>4. ScheType' /\ UNCHANGED <<memVars, schq, srvq, disk, histVars, snode, si, wcopy>>
  BY <1>1 DEF newiup_pthread_start, ScheType, TypeOK, ScheIdle
<1>5. UploadType'
  <2>1. down' \in [Servers -> BOOLEAN]
    BY Zenon DEF newiup_pthread_start
  <2>2. rc' \in [Servers -> Int] /\ wpc' \in [Threads -> UploadIdle \cup UploadBusy]
    BY DEF newiup_pthread_start, UploadIdle
  <2>3. wrc' \in [Threads -> Int] /\ wcopy' \in [Threads -> Copies \cup {NoCopy}]
    BY <1>1 DEF newiup_pthread_start, TypeOK
  <2> QED  BY <2>1, <2>2, <2>3 DEF UploadType
<1>6. TypeOK'
  BY <1>1, <1>2, <1>3, <1>4, <1>5, TypeParts, TypePartsNext, TypeFrame
<1>7. SameMemory
  BY <1>4 DEF SameMemory
<1>8. ScheGoesOn
  <2>1. \A m \in Monitors : spc'[m] = "head" /\ spc[m] = "exit" /\ si'[m] = si[m]
    BY <1>1 DEF newiup_pthread_start, Joined
  <2>2. \A m \in Monitors : si[m] \in Groups(m)
    BY DEF MemoryInv, ControlOK
  <2> QED  BY <2>1, <2>2 DEF ScheGoesOn, ScheIdle, ScheFresh, ScheLoop
<1>9. UploadGoesOn
  BY <1>1 DEF newiup_pthread_start, UploadGoesOn, Joined, UploadIdle
<1> QED  BY <1>1, <1>6, <1>7, <1>8, <1>9, QuietStep DEF PhaseGoesOn

LEMMA SignalStep ==
  ASSUME MemoryInv, signal_func
  PROVE  MemoryInv'
<1>1. TypeOK /\ phase = "run"
  BY DEF MemoryInv, signal_func
<1>2. ProcType'
  <2>1. mrun' \in BOOLEAN /\ urun' \in BOOLEAN
    BY Zenon DEF signal_func
  <2> QED  BY <1>1, <2>1 DEF signal_func, ProcType, TypeOK
<1>3. UNCHANGED <<disk, schq, srvq, memVars, monVars, scheVars, upVars, srvVars, phase, histVars>>
  BY DEF signal_func
<1>4. TypeOK'
  BY <1>1, <1>2, <1>3, TypeParts, TypePartsNext, TypeFrame
<1>5. SameMemory /\ UploadGoesOn /\ PhaseGoesOn
  BY <1>1, <1>3 DEF SameMemory, UploadGoesOn, PhaseGoesOn, upVars, scheVars
<1>6. ScheGoesOn
  BY <1>3, ScheStays DEF scheVars
<1> QED  BY <1>4, <1>5, <1>6, QuietStep

LEMMA ServersExitType ==
  ASSUME MemoryInv, servers_exit
  PROVE  TypeOK'
<1>1. TypeOK
  BY DEF MemoryInv
<1>2. ProcType'
  BY <1>1 DEF servers_exit, ProcType, TypeOK
<1>3. HeapType'
  <2> DEFINE k(n) == Cardinality(CopiesOf(n) \cap QueuedCopies)
  <2>1. \A n \in Nodes : k(n) \in Int
    <3>1. TAKE n \in Nodes
    <3>2. IsFiniteSet(CopiesOf(n) \cap QueuedCopies)
      BY BoundAssumption, FS_Subset DEF CopiesOf
    <3>3. Cardinality(CopiesOf(n) \cap QueuedCopies) \in Nat
      BY <3>2, FS_CardinalityType
    <3> QED  BY <3>3
  <2>2. retain' = [n \in Nodes |-> retain[n] - k(n)] /\ \A n \in Nodes : retain[n] \in Int
    BY <1>1 DEF servers_exit, TypeOK
  <2>3. retain' \in [Nodes -> Int]
    <3> HIDE DEF k
    <3> QED  BY <2>1, <2>2
  <2> QED  BY <1>1, <2>3 DEF servers_exit, HeapType, TypeOK
<1>4. UNCHANGED <<disk, histVars, monVars, scheVars, upVars, srvVars>>
  BY DEF servers_exit
<1> QED  BY <1>1, <1>2, <1>3, <1>4, TypeParts, TypePartsNext, TypeFrame

LEMMA MonitorGroupExitType ==
  ASSUME MemoryInv, monitor_group_exit
  PROVE  TypeOK'
<1>1. TypeOK
  BY DEF MemoryInv
<1>2. ProcType'
  BY <1>1 DEF monitor_group_exit, ProcType, TypeOK
<1>3. HeapType'
  BY <1>1 DEF monitor_group_exit, HeapType, TypeOK
<1>4. UNCHANGED <<disk, histVars, monVars, scheVars, upVars, srvVars>>
  BY DEF monitor_group_exit
<1> QED  BY <1>1, <1>2, <1>3, <1>4, TypeParts, TypePartsNext, TypeFrame

LEMMA CrashType ==
  ASSUME MemoryInv, Crash
  PROVE  TypeOK'
<1>1. TypeOK /\ \A m \in Monitors : 1 \in Nat
  BY DEF MemoryInv
<1>2. ProcType'
  <2>1. mrun' \in BOOLEAN /\ urun' \in BOOLEAN
    BY Zenon DEF Crash
  <2> QED  BY <1>1, <2>1 DEF Crash, ProcType, TypeOK
<1>3. MonType'
  BY DEF Crash, MonType
<1>4. HeapType'
  BY DEF Crash, HeapType
<1>5. ScheType'
  BY DEF Crash, ScheType, ScheIdle
<1>6. UploadType'
  <2>1. down' \in [Servers -> BOOLEAN]
    BY Zenon DEF Crash
  <2>2. rc' \in [Servers -> Int] /\ wpc' \in [Threads -> UploadIdle \cup UploadBusy]
    BY DEF Crash, UploadIdle
  <2>3. wrc' \in [Threads -> Int] /\ wcopy' \in [Threads -> Copies \cup {NoCopy}]
    BY DEF Crash
  <2> QED  BY <2>1, <2>2, <2>3 DEF UploadType
<1>7. UNCHANGED <<disk, histVars>>
  BY DEF Crash
<1> QED  BY <1>1, <1>2, <1>3, <1>4, <1>5, <1>6, <1>7, TypeParts, TypePartsNext, TypeFrame

LEMMA ProcessStep ==
  ASSUME MemoryInv, Process
  PROVE  MemoryInv'
<1>1. CASE newiup_pthread_start
  BY <1>1, StartStep
<1>2. CASE signal_func
  BY <1>2, SignalStep
<1>3. CASE servers_exit
  BY <1>3, ServersExitType, ServersExitStep
<1>4. CASE monitor_group_exit
  BY <1>4, MonitorGroupExitType, MonitorGroupExitStep
<1>5. CASE Crash
  BY <1>5, CrashType, CrashStep
<1> QED  BY <1>1, <1>2, <1>3, <1>4, <1>5 DEF Process

LEMMA StutterStep ==
  ASSUME MemoryInv, UNCHANGED vars
  PROVE  MemoryInv'
<1>1. UNCHANGED <<disk, schq, srvq, memVars, monVars, scheVars, upVars, srvVars, procVars, histVars>>
  BY DEF vars
<1>2. TypeOK'
  BY <1>1, TypeParts, TypePartsNext, TypeFrame DEF MemoryInv
<1>3. SameMemory /\ UploadGoesOn
  BY <1>1 DEF SameMemory, UploadGoesOn, upVars, scheVars
<1>4. ScheGoesOn
  BY <1>1, ScheStays DEF scheVars
<1>5. PhaseGoesOn
  BY <1>1 DEF PhaseGoesOn, procVars, MemoryInv, PhaseOK, Joined, monVars, scheVars, upVars, TypeOK
<1> QED  BY <1>2, <1>3, <1>4, <1>5, QuietStep

-----------------------------------------------------------------------------
(***************************************************************************)
(* The theorems.                                                           *)
(***************************************************************************)
LEMMA MemoryInductive == MemoryInv /\ [Next]_vars => MemoryInv'
<1> SUFFICES ASSUME MemoryInv, [Next]_vars PROVE MemoryInv'
  OBVIOUS
<1>1. ASSUME NEW f \in Files, Produce(f) PROVE MemoryInv'
  BY <1>1, ProduceStep
<1>2. ASSUME NEW m \in Monitors, monitor_handle(m) \/ sche_handle(m) PROVE MemoryInv'
  BY <1>2, MonitorStep, ScheStep
<1>3. ASSUME NEW t \in Threads, upload_handle(t) PROVE MemoryInv'
  BY <1>3, UploadStep
<1>4. ASSUME NEW s \in Servers, WakeUp(s) PROVE MemoryInv'
  BY <1>4, WakeUpStep
<1>5. CASE Process
  BY <1>5, ProcessStep
<1>6. CASE UNCHANGED vars
  BY <1>6, StutterStep
<1> QED  BY <1>1, <1>2, <1>3, <1>4, <1>5, <1>6 DEF Next

(***************************************************************************)
(* The memory of the dispatch core is sound in every reachable state, for  *)
(* any number of files, groups, servers, threads and heap cells: queues,   *)
(* nodes, copies and retain counts agree with what the threads hold.       *)
(***************************************************************************)
THEOREM MemorySound == Spec => []MemoryInv
<1>1. Init => MemoryInv
  BY InitSound
<1>2. MemoryInv /\ [Next]_vars => MemoryInv'
  BY MemoryInductive
<1> QED  BY <1>1, <1>2, PTL DEF Spec

\* Every variable always holds a value of its kind.
THEOREM TypeCorrect == Spec => []TypeOK
<1>1. MemoryInv => TypeOK
  BY DEF MemoryInv
<1> QED  BY <1>1, MemorySound, PTL

(***************************************************************************)
(* The atomic retain_count of queue_node_copy and queue_node_free is       *)
(* always the number of live copies of the node.                           *)
(***************************************************************************)
THEOREM RetainIsExact == Spec => []RetainExact
<1>1. MemoryInv => RetainExact
  BY DEF MemoryInv
<1> QED  BY <1>1, MemorySound, PTL

(***************************************************************************)
(* No upload thread and no queue ever refers to a released node: the test  *)
(* queue_node_is_retain of sche_handle is enough, whatever the threads do. *)
(***************************************************************************)
THEOREM NoUseAfterFree == Spec => []NoDanglingCopy
<1>1. MemoryInv => NoDanglingCopy
  BY DEF MemoryInv
<1> QED  BY <1>1, MemorySound, PTL

(***************************************************************************)
(* A server group never has two copies of one node at a time, hence never  *)
(* uploads one node twice at a time.                                       *)
(***************************************************************************)
THEOREM OneCopyAtATime == Spec => []OneCopyPerGroup
<1>1. MemoryInv => OneCopyPerGroup
  BY DEF MemoryInv
<1> QED  BY <1>1, MemorySound, PTL

(***************************************************************************)
(* Nodes and copies are owned by one thread or one queue at a time: a      *)
(* TAILQ entry is never linked twice and never lost.                       *)
(***************************************************************************)
THEOREM OneOwner == Spec => [](NodeInOnePlace /\ CopyInOnePlace)
<1>1. MemoryInv => NodeInOnePlace /\ CopyInOnePlace
  BY DEF MemoryInv
<1> QED  BY <1>1, MemorySound, PTL

(***************************************************************************)
(* A process that is down, in particular one that came down through        *)
(* newiup_exit, has released all its nodes and copies.                     *)
(***************************************************************************)
THEOREM ExitReleasesAll == Spec => []NothingLeaked
<1>1. MemoryInv => NothingLeaked
  BY DEF MemoryInv, PhaseOK, NothingLeaked, FreeNodes, FreeCopies
<1> QED  BY <1>1, MemorySound, PTL


-----------------------------------------------------------------------------
(***************************************************************************)
(* What the theorems assume besides the assumptions of Dispatch.  Each of  *)
(* the four is needed: without it there is a run in which the theorem      *)
(* fails (README, section 8, and the run DispatchStaleK).                  *)
(***************************************************************************)
NamesUsedOnce == MaxWrites <= 1
OneMonitor == \A a, b \in Monitors : a = b
OneReceiver == \A m \in Monitors : Len(Sgl[m]) = 1
FilesWork == ~IoErrors

-----------------------------------------------------------------------------
(***************************************************************************)
(* Files of different kinds, or of different names, are different files.   *)
(***************************************************************************)
LEMMA NamesDiffer ==
  /\ \A f, g : Mon(f) = Mon(g) => f = g
  /\ \A f, g : UploadK(f) = UploadK(g) => f = g
  /\ \A f, g : Src(f) = Src(g) => f = g
  /\ \A f, g : Src(f) = Mon(g) => f = g /\ find_act = "keep"
  /\ \A f, g : Mon(f) # UploadK(g) /\ Src(f) # UploadK(g)
  /\ \A f, g, m, s : Mon(f) # StateFile(g, m, s)
  /\ \A f, g, m, s : Src(f) # StateFile(g, m, s)
  /\ \A f, g, m, s : UploadK(f) # StateFile(g, m, s)
<1>1. \A f, g : Mon(f) = Mon(g) => f = g
  BY DEF Mon
<1>2. \A f, g : UploadK(f) = UploadK(g) => f = g
  BY DEF UploadK
<1>3. \A f, g : Src(f) = Src(g) => f = g
  BY DEF Src, Mon
<1>4. \A f, g : Src(f) = Mon(g) => f = g /\ find_act = "keep"
  BY DEF Src, Mon
<1>5. \A f, g : Mon(f) # UploadK(g) /\ Src(f) # UploadK(g)
  BY DEF Mon, Src, UploadK
<1>6. \A f, g, m, s : Len(Mon(f)) = 2 /\ Len(UploadK(f)) = 2 /\ Len(Src(f)) = 2 /\ Len(StateFile(g, m, s)) = 4
  BY DEF Mon, Src, UploadK, StateFile
<1>7. \A f, g, m, s : Mon(f) # StateFile(g, m, s) /\ Src(f) # StateFile(g, m, s)
                      /\ UploadK(f) # StateFile(g, m, s)
  BY <1>6
<1> QED  BY <1>1, <1>2, <1>3, <1>4, <1>5, <1>7

-----------------------------------------------------------------------------
(***************************************************************************)
(* A node that is live before and after a step is the node of one file, a  *)
(* copy that is live before and after it a copy of one node.               *)
(***************************************************************************)
NodesStay ==
  \A n \in Nodes : nfile[n] # NoFile /\ nfile'[n] # NoFile =>
    nfile'[n] = nfile[n] /\ nmon'[n] = nmon[n]
CopiesStay ==
  \A c \in Copies : cnode[c] # NoNode /\ cnode'[c] # NoNode =>
    cnode'[c] = cnode[c] /\ csg'[c] = csg[c]

LEMMA AddKeeps ==
  ASSUME TypeOK, NEW m \in Monitors, NEW f \in Files, AddIfPresent(m, f)
  PROVE  NodesStay /\ CopiesStay
BY DEF AddIfPresent, queue_node_add, FreeNodes, TypeOK, NodesStay, CopiesStay, memVars

LEMMA DropKeeps ==
  ASSUME TypeOK, NEW m \in Monitors, DropNode(m)
  PROVE  NodesStay /\ CopiesStay
BY DEF DropNode, free_original, TypeOK, NodesStay, CopiesStay

LEMMA CopyKeeps ==
  ASSUME TypeOK, NEW m \in Monitors, NEW i, NEW s, copy_and_push(snode[m], i, s)
  PROVE  NodesStay /\ CopiesStay
BY DEF copy_and_push, FreeCopies, TypeOK, NodesStay, CopiesStay, memVars

LEMMA ReleaseKeeps ==
  ASSUME TypeOK, NEW t \in Threads, ReleaseCopy(t)
  PROVE  NodesStay /\ CopiesStay
BY DEF ReleaseCopy, free_copy, TypeOK, NodesStay, CopiesStay

LEMMA SameKeeps ==
  ASSUME UNCHANGED memVars
  PROVE  NodesStay /\ CopiesStay
BY DEF memVars, NodesStay, CopiesStay

LEMMA HeapStays ==
  ASSUME MemoryInv, MemoryInv', [Next]_vars
  PROVE  NodesStay /\ CopiesStay
<1> TypeOK
  BY DEF MemoryInv
<1>1. ASSUME NEW f \in Files, Produce(f) PROVE UNCHANGED memVars
  BY <1>1 DEF Produce, ProduceData, ProduceMarker, ProduceFile, MoveMarkerIn
<1>2. ASSUME NEW m \in Monitors, monitor_handle(m) PROVE NodesStay /\ CopiesStay
  <2>1. CASE MonitorWatch(m) \/ ScanEnd(m) \/ MonitorExit(m)
    BY <2>1, SameKeeps DEF MonitorWatch, ScanEnd, MonitorExit
  <2>2. ASSUME NEW f \in Files, ScanFile(m, f) PROVE NodesStay /\ CopiesStay
    BY <2>2, AddKeeps DEF ScanFile
  <2>3. CASE MonitorEvent(m)
    <3>1. Head(events[m]) \in Files
      BY <2>3 DEF MonitorEvent, TypeOK
    <3> QED  BY <2>3, <3>1, AddKeeps DEF MonitorEvent
  <2> QED  BY <1>2, <2>1, <2>2, <2>3 DEF monitor_handle
<1>3. ASSUME NEW m \in Monitors, sche_handle(m) PROVE NodesStay /\ CopiesStay
  <2>1. CASE ScheCheckSrc(m) \/ ScheDelK(m)
    BY <2>1, DropKeeps, SameKeeps DEF ScheCheckSrc, ScheDelK
  <2>2. CASE ScheDispatch(m)
    BY <2>2, CopyKeeps, SameKeeps DEF ScheDispatch
  <2>3. CASE SchePop(m) \/ ScheCheckK(m) \/ ScheCreateFlag(m) \/ ScheCreateK(m) \/ ScheCheckAll(m)
             \/ ScheMoveSrc(m) \/ ScheDelMon(m) \/ ScheLimit(m) \/ ScheGroup(m) \/ SchePush(m)
             \/ ScheExit(m)
    BY <2>3, SameKeeps DEF SchePop, ScheCheckK, ScheCreateFlag, ScheCreateK, ScheCheckAll,
      ScheMoveSrc, ScheDelMon, ScheLimit, ScheGroup, SchePush, ScheExit
  <2> QED  BY <1>3, <2>1, <2>2, <2>3 DEF sche_handle
<1>4. ASSUME NEW t \in Threads, upload_handle(t) PROVE NodesStay /\ CopiesStay
  <2>1. CASE UploadCheck(t) \/ UploadFree(t)
    BY <2>1, ReleaseKeeps, SameKeeps DEF UploadCheck, UploadFree
  <2>2. CASE ~(UploadCheck(t) \/ UploadFree(t))
    BY <1>4, <2>2, SameKeeps DEF upload_handle, UploadPop, UploadCallOk, UploadCallFail,
      UploadDelSrc, do_upload_file_finish_single, UploadReadRc, UploadWriteRc, UploadSleep,
      UploadResetRc, UploadExit
  <2> QED  BY <2>1, <2>2
<1>5. ASSUME NEW s \in Servers, WakeUp(s) PROVE UNCHANGED memVars
  BY <1>5 DEF WakeUp
<1>6. CASE Process
  <2>1. CASE newiup_pthread_start \/ signal_func
    BY <2>1, SameKeeps DEF newiup_pthread_start, signal_func
  <2>2. CASE servers_exit
    <3>1. \A c \in Copies : cnode'[c] = NoNode
      BY <2>2 DEF servers_exit, MemoryInv, PhaseOK
    <3> QED  BY <2>2, <3>1 DEF servers_exit, NodesStay, CopiesStay
  <2>3. CASE monitor_group_exit
    BY <2>3 DEF monitor_group_exit, NodesStay, CopiesStay, TypeOK
  <2>4. CASE Crash
    BY <2>4 DEF Crash, NodesStay, CopiesStay
  <2> QED  BY <1>6, <2>1, <2>2, <2>3, <2>4 DEF Process
<1>7. CASE UNCHANGED vars
  BY <1>7, SameKeeps DEF vars
<1> QED
  BY <1>1, <1>2, <1>3, <1>4, <1>5, <1>6, <1>7, SameKeeps DEF Next

\* What a busy thread holds belongs to the same file after the step.
ScheSees(m) ==
  spc[m] \notin ScheIdle /\ spc'[m] \notin ScheIdle /\ snode'[m] = snode[m]
    => nfile'[snode'[m]] = nfile[snode[m]]
UploadSees(t) ==
  wpc[t] \notin UploadIdle /\ wpc'[t] \notin UploadIdle /\ wcopy'[t] = wcopy[t]
    => FileOf(t)' = FileOf(t) /\ MonOf(t)' = MonOf(t) /\ csg'[wcopy'[t]] = csg[wcopy[t]]

LEMMA HeldNodeNext ==
  ASSUME MemoryInv', NEW m \in Monitors, spc'[m] \notin ScheIdle
  PROVE  snode'[m] \in Nodes /\ nfile'[snode'[m]] # NoFile
<1>1. snode'[m] # NoNode
  BY DEF MemoryInv, ControlOK
<1> QED  BY <1>1 DEF MemoryInv, TypeOK, NodeInOnePlace

LEMMA HeldCopyNext ==
  ASSUME MemoryInv', NEW t \in Threads, wpc'[t] \notin UploadIdle
  PROVE  /\ wcopy'[t] \in Copies /\ cnode'[wcopy'[t]] \in Nodes
         /\ cnode'[wcopy'[t]] # NoNode /\ nfile'[cnode'[wcopy'[t]]] # NoFile
<1>1. wcopy'[t] # NoCopy
  BY DEF MemoryInv, ControlOK
<1>2. wcopy'[t] \in Copies /\ cnode'[wcopy'[t]] # NoNode
  BY <1>1 DEF MemoryInv, TypeOK, CopyInOnePlace
<1> QED  BY <1>2 DEF MemoryInv, TypeOK, NoDanglingCopy

LEMMA ThreadsSee ==
  ASSUME MemoryInv, MemoryInv', [Next]_vars
  PROVE  (\A m \in Monitors : ScheSees(m)) /\ (\A t \in Threads : UploadSees(t))
<1>1. NodesStay /\ CopiesStay
  BY HeapStays
<1>2. ASSUME NEW m \in Monitors PROVE ScheSees(m)
  BY <1>1, HeldNode, HeldNodeNext DEF NodesStay, ScheSees
<1>3. ASSUME NEW t \in Threads PROVE UploadSees(t)
  <2> SUFFICES ASSUME wpc[t] \notin UploadIdle, wpc'[t] \notin UploadIdle, wcopy'[t] = wcopy[t]
               PROVE  FileOf(t)' = FileOf(t) /\ MonOf(t)' = MonOf(t)
                      /\ csg'[wcopy'[t]] = csg[wcopy[t]]
    BY DEF UploadSees
  <2>1. wcopy[t] \in Copies /\ cnode[wcopy[t]] \in Nodes /\ FileOf(t) \in Files
    BY HeldCopy
  <2>2. cnode[wcopy[t]] # NoNode /\ nfile[cnode[wcopy[t]]] # NoFile
    BY <2>1, NullAssumption DEF FileOf
  <2>3. cnode'[wcopy[t]] = cnode[wcopy[t]] /\ csg'[wcopy[t]] = csg[wcopy[t]]
    BY <1>1, <2>1, <2>2, HeldCopyNext DEF CopiesStay
  <2>4. nfile'[cnode[wcopy[t]]] = nfile[cnode[wcopy[t]]] /\ nmon'[cnode[wcopy[t]]] = nmon[cnode[wcopy[t]]]
    BY <1>1, <2>1, <2>2, <2>3, HeldCopyNext DEF NodesStay
  <2> QED  BY <2>3, <2>4 DEF FileOf, MonOf
<1> QED  BY <1>2, <1>3

-----------------------------------------------------------------------------
(***************************************************************************)
(* The inductive invariant.  Published: whatever the daemon knows of a     *)
(* name, it knows since its marker was published.  FlagsOK: the            *)
(* "-upload-k" file vouches for the state files.  ScheOK: which files a    *)
(* scheduling thread has written, or knows to be gone, at each step of a   *)
(* node.  UpOK: an upload thread deletes nothing before a server accepted. *)
(***************************************************************************)
Traces(f) ==
  \/ Mon(f) \in disk \/ UploadK(f) \in disk
  \/ \E m \in Monitors, i \in Nat : <<f, m, i>> \in delivered
  \/ \E n \in Nodes : nfile[n] = f
  \/ \E m \in Monitors : InQ(events[m], f)

Published ==
  \A f \in Files :
    /\ Traces(f) => ready[f]
    /\ ready[f] \/ Src(f) \in disk => written[f] > 0

FlagOf(f, m, i) == StateFile(f, m, SgName(m, i))

FlagsOK ==
  \A f \in Files, m \in Monitors : Src(f) \in disk /\ UploadK(f) \in disk =>
    \A i \in Groups(m) : FlagOf(f, m, i) \in disk

Finishing == {"move", "delmon", "limit", "delk"}

ScheOK ==
  \A m \in Monitors :
    /\ spc[m] = "flag" /\ Src(nfile[snode[m]]) \in disk =>
         \A i \in Groups(m) : i < si[m] => FlagOf(nfile[snode[m]], m, i) \in disk
    /\ spc[m] = "mk" /\ Src(nfile[snode[m]]) \in disk =>
         \A i \in Groups(m) : FlagOf(nfile[snode[m]], m, i) \in disk
    /\ spc[m] = "all" => UploadK(nfile[snode[m]]) \in disk
    /\ spc[m] \in Finishing => Src(nfile[snode[m]]) \notin disk

UpOK ==
  \A t \in Threads :
    /\ wpc[t] = "delsrc" => <<FileOf(t), MonOf(t), csg[wcopy[t]]>> \in delivered
    /\ wpc[t] = "delflag" => Src(FileOf(t)) \notin disk

FilesInv == Published /\ FlagsOK /\ ScheOK /\ UpOK

-----------------------------------------------------------------------------
(***************************************************************************)
(* What every step respects when a name is published once: a source that   *)
(* the daemon knows does not come back, and an acceptance is not forgotten.*)
(***************************************************************************)
SourcesStayGone == \A f \in Files : Traces(f) /\ Src(f) \in disk' => Src(f) \in disk

LEMMA PublishedKeeps ==
  ASSUME Published, UNCHANGED <<ready, written>>,
         \A f \in Files : Src(f) \in disk' => Src(f) \in disk,
         \A f \in Files : Mon(f) \in disk' \/ UploadK(f) \in disk' => ready[f],
         \A f \in Files, m \in Monitors, i \in Nat : <<f, m, i>> \in delivered' => ready[f],
         \A n \in Nodes, f \in Files : nfile'[n] = f => ready[f],
         \A m \in Monitors, f \in Files : InQ(events'[m], f) => ready[f],
         delivered \subseteq delivered'
  PROVE  Published' /\ SourcesStayGone /\ delivered \subseteq delivered'
<1>1. \A f \in Files : Mon(f)' = Mon(f) /\ Src(f)' = Src(f) /\ UploadK(f)' = UploadK(f)
  BY DEF Mon, Src, UploadK
<1>2. \A f \in Files : Traces(f)' => ready[f]
  BY <1>1 DEF Traces
<1>3. Published'
  BY <1>1, <1>2 DEF Published
<1> QED  BY <1>3 DEF SourcesStayGone

\* What the daemon knows is published, said conjunct by conjunct.
LEMMA KnownIsReady ==
  ASSUME Published, MemoryInv
  PROVE  /\ \A f \in Files : Mon(f) \in disk \/ UploadK(f) \in disk => ready[f]
         /\ \A f \in Files, m \in Monitors, i \in Nat : <<f, m, i>> \in delivered => ready[f]
         /\ \A n \in Nodes, f \in Files : nfile[n] = f => ready[f]
         /\ \A m \in Monitors, f \in Files : InQ(events[m], f) => ready[f]
BY DEF Published, Traces

LEMMA ProducePublished ==
  ASSUME NamesUsedOnce, MemoryInv, Published, NEW g \in Files, Produce(g)
  PROVE  Published' /\ SourcesStayGone /\ delivered \subseteq delivered'
<1>1. /\ written[g] \in Nat /\ MaxWrites \in Nat
      /\ ready \in [Files -> BOOLEAN] /\ written \in [Files -> Nat]
      /\ delivered \in SUBSET (Files \X Monitors \X Nat)
      /\ \A m \in Monitors : events[m] \in Seq(Files)
      /\ events \in [Monitors -> Seq(Files)]
  BY BoundAssumption DEF MemoryInv, TypeOK
<1>2. \A f \in Files : Mon(f)' = Mon(f) /\ Src(f)' = Src(f) /\ UploadK(f)' = UploadK(f)
  BY DEF Mon, Src, UploadK
<1>3. ASSUME NewVersion(g)
      PROVE  /\ ~Traces(g) /\ ~ready[g] /\ delivered' = delivered
             /\ written' = [written EXCEPT ![g] = @ + 1]
  <2>1. written[g] = 0
    BY <1>1, <1>3 DEF NewVersion, NamesUsedOnce
  <2>2. ~Traces(g) /\ ~ready[g]
    BY <2>1 DEF Published
  <2>3. ASSUME NEW d \in delivered PROVE d[1] # g
    <3>1. PICK f \in Files, m \in Monitors, i \in Nat : d = <<f, m, i>>
      BY <1>1
    <3> QED  BY <2>2, <3>1 DEF Traces
  <2> QED  BY <1>3, <2>2, <2>3 DEF NewVersion
<1>4. CASE ProduceData(g)
  <2>1. /\ find_act # "keep" /\ NewVersion(g) /\ disk' = disk \cup {Src(g)}
        /\ ready' = [ready EXCEPT ![g] = FALSE] /\ nfile' = nfile /\ events' = events
    BY <1>4 DEF ProduceData, memVars, monVars
  <2>2. \A f \in Files : (Mon(f) \in disk' => Mon(f) \in disk)
                         /\ (UploadK(f) \in disk' => UploadK(f) \in disk)
                         /\ (f # g /\ Src(f) \in disk' => Src(f) \in disk)
    BY <2>1, NamesDiffer
  <2>3. \A f \in Files : Traces(f)' => Traces(f)
    BY <1>2, <1>3, <2>1, <2>2 DEF Traces
  <2>4. Published'
    <3> SUFFICES ASSUME NEW f \in Files
                 PROVE  /\ Traces(f)' => ready'[f]
                        /\ ready'[f] \/ Src(f) \in disk' => written'[f] > 0
      BY <1>2 DEF Published
    <3>1. CASE f = g
      <4>1. ~Traces(f)'
        BY <1>3, <2>1, <2>3, <3>1
      <4>2. written'[f] > 0
        BY <1>1, <1>3, <2>1, <3>1
      <4> QED  BY <4>1, <4>2
    <3>2. CASE f # g
      BY <1>1, <1>3, <2>1, <2>2, <2>3, <3>2 DEF Published
    <3> QED  BY <3>1, <3>2
  <2> QED  BY <1>3, <2>1, <2>2, <2>4 DEF SourcesStayGone
<1>5. ASSUME MoveMarkerIn(g), delivered' = delivered,
             \/ written' = written /\ Src(g) \in disk
             \/ written' = [written EXCEPT ![g] = @ + 1] /\ ~Traces(g),
             find_act = "keep" => ~Traces(g)
      PROVE  Published' /\ SourcesStayGone
  <2>1. /\ disk' = disk \cup {Mon(g)} /\ ready' = [ready EXCEPT ![g] = TRUE] /\ nfile' = nfile
        /\ events' = [m \in Monitors |->
                        IF m \in Watching THEN Append(events[m], g) ELSE events[m]]
    BY <1>5 DEF MoveMarkerIn, memVars
  <2>2. \A m \in Monitors, f \in Files : InQ(events'[m], f) => InQ(events[m], f) \/ f = g
    BY <1>1, <2>1, PushInQ
  <2>3. \A f \in Files : (f # g /\ Mon(f) \in disk' => Mon(f) \in disk)
                         /\ (UploadK(f) \in disk' => UploadK(f) \in disk)
                         /\ (f # g /\ Src(f) \in disk' => Src(f) \in disk)
                         /\ (find_act # "keep" /\ Src(f) \in disk' => Src(f) \in disk)
    BY <2>1, NamesDiffer
  <2>4. \A f \in Files : f # g /\ Traces(f)' => Traces(f)
    BY <1>2, <1>5, <2>1, <2>2, <2>3 DEF Traces
  <2>5. Published'
    <3> SUFFICES ASSUME NEW f \in Files
                 PROVE  /\ Traces(f)' => ready'[f]
                        /\ ready'[f] \/ Src(f) \in disk' => written'[f] > 0
      BY <1>2 DEF Published
    <3>1. CASE f = g
      BY <1>1, <1>5, <2>1, <3>1 DEF Published
    <3>2. CASE f # g
      BY <1>1, <1>5, <2>1, <2>3, <2>4, <3>2 DEF Published
    <3> QED  BY <3>1, <3>2
  <2> QED  BY <1>5, <2>3, <2>5 DEF SourcesStayGone
<1>6. CASE ProduceMarker(g)
  BY <1>5, <1>6 DEF ProduceMarker
<1>7. CASE ProduceFile(g)
  BY <1>3, <1>5, <1>7 DEF ProduceFile
<1> QED  BY <1>3, <1>4, <1>6, <1>7, <1>5 DEF Produce, ProduceMarker, ProduceFile

LEMMA MonitorPublished ==
  ASSUME MemoryInv, Published, NEW m \in Monitors, monitor_handle(m)
  PROVE  Published' /\ SourcesStayGone /\ delivered \subseteq delivered'
<1>1. /\ UNCHANGED <<disk, ready, written, delivered>>
      /\ nfile \in [Nodes -> Files \cup {NoFile}] /\ events \in [Monitors -> Seq(Files)]
  BY DEF monitor_handle, MonitorWatch, ScanFile, ScanEnd, MonitorEvent, MonitorExit,
         monFrame, histVars, MemoryInv, TypeOK
<1>2. ASSUME NEW g \in Files, AddIfPresent(m, g), NEW n \in Nodes, NEW f \in Files, nfile'[n] = f
      PROVE  ready[f]
  BY <1>1, <1>2, KnownIsReady DEF AddIfPresent, queue_node_add, memVars, FreeNodes
<1>3. ASSUME NEW n \in Nodes, NEW f \in Files, nfile'[n] = f PROVE ready[f]
  <2>1. ASSUME nfile' = nfile PROVE ready[f]
    BY <1>3, <2>1, KnownIsReady
  <2>2. CASE MonitorWatch(m) \/ ScanEnd(m) \/ MonitorExit(m)
    BY <2>1, <2>2 DEF MonitorWatch, ScanEnd, MonitorExit, memVars
  <2>3. ASSUME NEW g \in Files, ScanFile(m, g) PROVE ready[f]
    BY <1>2, <1>3, <2>3 DEF ScanFile
  <2>4. CASE MonitorEvent(m)
    <3>1. events[m] \in Seq(Files) /\ events[m] # <<>> /\ AddIfPresent(m, Head(events[m]))
      BY <1>1, <2>4 DEF MonitorEvent
    <3>2. Head(events[m]) \in Files
      BY <3>1
    <3> QED  BY <1>2, <1>3, <3>1, <3>2
  <2> QED  BY <2>2, <2>3, <2>4 DEF monitor_handle
<1>4. ASSUME NEW k \in Monitors, NEW f \in Files, InQ(events'[k], f) PROVE InQ(events[k], f)
  <2>1. CASE MonitorEvent(m)
    <3>1. events[m] \in Seq(Files) /\ events[m] # <<>>
          /\ events'[k] = IF k = m THEN Tail(events[m]) ELSE events[k]
      BY <1>1, <2>1 DEF MonitorEvent
    <3> QED  BY <1>4, <3>1, PopInQ
  <2>2. CASE ~MonitorEvent(m)
    BY <1>4, <2>2 DEF monitor_handle, MonitorWatch, ScanFile, ScanEnd, MonitorExit
  <2> QED  BY <2>1, <2>2
<1>5. /\ \A f \in Files : Src(f) \in disk' => Src(f) \in disk
      /\ \A f \in Files : Mon(f) \in disk' \/ UploadK(f) \in disk' => ready[f]
      /\ \A f \in Files, k \in Monitors, i \in Nat : <<f, k, i>> \in delivered' => ready[f]
      /\ \A k \in Monitors, f \in Files : InQ(events'[k], f) => ready[f]
  BY <1>1, <1>4, KnownIsReady
<1> QED  BY <1>1, <1>3, <1>5, PublishedKeeps

LEMMA SchePublished ==
  ASSUME MemoryInv, Published, NEW m \in Monitors, sche_handle(m)
  PROVE  Published' /\ SourcesStayGone /\ delivered \subseteq delivered'
<1>1. UNCHANGED <<ready, written, delivered, events>>
  BY DEF sche_handle, SchePop, ScheCheckSrc, ScheCheckK, ScheCreateFlag, ScheCreateK,
         ScheCheckAll, ScheMoveSrc, ScheDelMon, ScheLimit, ScheDelK, ScheGroup, ScheDispatch,
         SchePush, ScheExit, scheFrame, monVars, histVars
<1>2. ASSUME NEW f \in Files
      PROVE  /\ Src(f) \in disk' => Src(f) \in disk
             /\ Mon(f) \in disk' => Mon(f) \in disk
             /\ UploadK(f) \in disk' => UploadK(f) \in disk \/ ready[f]
  <2>1. CASE ScheCreateFlag(m)
    BY <2>1, NamesDiffer DEF ScheCreateFlag, create_file
  <2>2. CASE ScheCreateK(m)
    <3>1. snode[m] \in Nodes
      BY <2>2, HeldNode DEF ScheCreateK, ScheIdle
    <3> QED  BY <2>2, <3>1, NamesDiffer, KnownIsReady DEF ScheCreateK, create_file
  <2>3. CASE ScheMoveSrc(m) \/ ScheDelMon(m) \/ ScheDelK(m)
    BY <2>3 DEF ScheMoveSrc, ScheDelMon, ScheDelK, do_move_to, delete_file
  <2>4. CASE SchePop(m) \/ ScheCheckSrc(m) \/ ScheCheckK(m) \/ ScheCheckAll(m) \/ ScheLimit(m)
             \/ ScheGroup(m) \/ ScheDispatch(m) \/ SchePush(m) \/ ScheExit(m)
    BY <2>4 DEF SchePop, ScheCheckSrc, ScheCheckK, ScheCheckAll, ScheLimit, ScheGroup,
                ScheDispatch, SchePush, ScheExit
  <2> QED  BY <2>1, <2>2, <2>3, <2>4 DEF sche_handle
<1>3. ASSUME NEW n \in Nodes, NEW f \in Files, nfile'[n] = f PROVE ready[f]
  <2>1. ASSUME nfile' = nfile PROVE ready[f]
    BY <1>3, <2>1, KnownIsReady
  <2>2. CASE ScheCheckSrc(m) \/ ScheDelK(m)
    <3>1. nfile \in [Nodes -> Files \cup {NoFile}] /\ (nfile' = nfile \/ free_original(snode[m]))
      BY <2>2 DEF ScheCheckSrc, ScheDelK, DropNode, memVars, MemoryInv, TypeOK
    <3> QED  BY <1>3, <2>1, <3>1, KnownIsReady, NullAssumption DEF free_original
  <2>3. CASE ScheDispatch(m)
    BY <2>1, <2>3 DEF ScheDispatch, copy_and_push, memVars
  <2>4. CASE SchePop(m) \/ ScheCheckK(m) \/ ScheCreateFlag(m) \/ ScheCreateK(m) \/ ScheCheckAll(m)
             \/ ScheMoveSrc(m) \/ ScheDelMon(m) \/ ScheLimit(m) \/ ScheGroup(m) \/ SchePush(m)
             \/ ScheExit(m)
    BY <2>1, <2>4 DEF SchePop, ScheCheckK, ScheCreateFlag, ScheCreateK, ScheCheckAll,
      ScheMoveSrc, ScheDelMon, ScheLimit, ScheGroup, SchePush, ScheExit, memVars
  <2> QED  BY <2>2, <2>3, <2>4 DEF sche_handle
<1>4. /\ \A f \in Files : Mon(f) \in disk' \/ UploadK(f) \in disk' => ready[f]
      /\ \A f \in Files, k \in Monitors, i \in Nat : <<f, k, i>> \in delivered' => ready[f]
      /\ \A k \in Monitors, f \in Files : InQ(events'[k], f) => ready[f]
  BY <1>1, <1>2, KnownIsReady
<1> QED  BY <1>1, <1>2, <1>3, <1>4, PublishedKeeps

LEMMA UploadPublished ==
  ASSUME MemoryInv, Published, NEW t \in Threads, upload_handle(t)
  PROVE  Published' /\ SourcesStayGone /\ delivered \subseteq delivered'
<1>1. UNCHANGED <<ready, written, events>>
  BY DEF upload_handle, UploadPop, UploadCheck, UploadCallOk, UploadCallFail, UploadDelSrc,
         do_upload_file_finish_single, UploadReadRc, UploadWriteRc, UploadSleep, UploadResetRc,
         UploadFree, UploadExit, upFrame, monVars
<1>2. disk' \subseteq disk
  BY DEF upload_handle, UploadPop, UploadCheck, UploadCallOk, UploadCallFail, UploadDelSrc,
         do_upload_file_finish_single, UploadReadRc, UploadWriteRc, UploadSleep, UploadResetRc,
         UploadFree, UploadExit, delete_file
<1>3. nfile' = nfile
  BY DEF upload_handle, UploadPop, UploadCheck, UploadCallOk, UploadCallFail, UploadDelSrc,
         do_upload_file_finish_single, UploadReadRc, UploadWriteRc, UploadSleep, UploadResetRc,
         UploadFree, UploadExit, ReleaseCopy, free_copy, memVars
<1>4. /\ delivered \subseteq delivered'
      /\ \A f \in Files, k \in Monitors, i \in Nat : <<f, k, i>> \in delivered' => ready[f]
  <2>1. CASE UploadCallOk(t)
    <3>1. cnode[wcopy[t]] \in Nodes /\ FileOf(t) \in Files
      BY <2>1, HeldCopy DEF UploadCallOk, UploadIdle
    <3>2. ready[FileOf(t)]
      BY <3>1, KnownIsReady DEF FileOf
    <3> QED  BY <2>1, <3>2, KnownIsReady DEF UploadCallOk
  <2>2. CASE ~UploadCallOk(t)
    <3>1. delivered' = delivered
      BY <2>2 DEF upload_handle, UploadPop, UploadCheck, UploadCallFail, UploadDelSrc,
        do_upload_file_finish_single, UploadReadRc, UploadWriteRc, UploadSleep, UploadResetRc,
        UploadFree, UploadExit
    <3> QED  BY <3>1, KnownIsReady
  <2> QED  BY <2>1, <2>2
<1>5. /\ \A f \in Files : Src(f) \in disk' => Src(f) \in disk
      /\ \A f \in Files : Mon(f) \in disk' \/ UploadK(f) \in disk' => ready[f]
      /\ \A n \in Nodes, f \in Files : nfile'[n] = f => ready[f]
      /\ \A k \in Monitors, f \in Files : InQ(events'[k], f) => ready[f]
  BY <1>1, <1>2, <1>3, KnownIsReady
<1> QED  BY <1>1, <1>4, <1>5, PublishedKeeps

LEMMA ProcessPublished ==
  ASSUME MemoryInv, Published, Process
  PROVE  Published' /\ SourcesStayGone /\ delivered \subseteq delivered'
<1>1. UNCHANGED <<disk, ready, written, delivered>>
  BY DEF Process, newiup_pthread_start, signal_func, servers_exit, monitor_group_exit, Crash,
         histVars
<1>2. ASSUME NEW n \in Nodes, NEW f \in Files, nfile'[n] = f PROVE nfile[n] = f
  <2>1. nfile' = nfile \/ nfile' = [k \in Nodes |-> NoFile]
        \/ nfile' = [k \in Nodes |-> IF k \in QueuedNodes THEN NoFile ELSE nfile[k]]
    BY DEF Process, newiup_pthread_start, signal_func, servers_exit, monitor_group_exit, Crash,
           memVars
  <2> QED  BY <1>2, <2>1, NullAssumption
<1>3. ASSUME NEW m \in Monitors, NEW f \in Files, InQ(events'[m], f) PROVE InQ(events[m], f)
  <2>1. events' = events \/ events' = [k \in Monitors |-> <<>>]
    BY DEF Process, newiup_pthread_start, signal_func, servers_exit, monitor_group_exit, Crash,
           monVars
  <2> QED  BY <1>3, <2>1, EmptyInQ
<1>4. /\ \A f \in Files : Src(f) \in disk' => Src(f) \in disk
      /\ \A f \in Files : Mon(f) \in disk' \/ UploadK(f) \in disk' => ready[f]
      /\ \A f \in Files, k \in Monitors, i \in Nat : <<f, k, i>> \in delivered' => ready[f]
      /\ \A n \in Nodes, f \in Files : nfile'[n] = f => ready[f]
      /\ \A k \in Monitors, f \in Files : InQ(events'[k], f) => ready[f]
  BY <1>1, <1>2, <1>3, KnownIsReady
<1> QED  BY <1>1, <1>4, PublishedKeeps

LEMMA PublishedInductive ==
  ASSUME NamesUsedOnce, MemoryInv, Published, [Next]_vars
  PROVE  Published' /\ SourcesStayGone /\ delivered \subseteq delivered'
<1>1. ASSUME UNCHANGED <<disk, nfile, events, ready, written, delivered>>
      PROVE  Published' /\ SourcesStayGone /\ delivered \subseteq delivered'
  BY <1>1, KnownIsReady, PublishedKeeps
<1>2. CASE UNCHANGED vars
  BY <1>1, <1>2 DEF vars, memVars, monVars, histVars
<1>3. ASSUME NEW s \in Servers, WakeUp(s)
      PROVE  Published' /\ SourcesStayGone /\ delivered \subseteq delivered'
  BY <1>1, <1>3 DEF WakeUp, memVars, monVars, upFrame
<1>4. CASE Next
  BY <1>3, <1>4, ProducePublished, MonitorPublished, SchePublished, UploadPublished,
     ProcessPublished DEF Next
<1> QED  BY <1>2, <1>4

-----------------------------------------------------------------------------
(***************************************************************************)
(* What every step does to the state files and to the "-upload-k" files:   *)
(* a state file goes only after its source, a "-upload-k" file is written  *)
(* by a scheduling thread at "mk" and removed by one at "delk".            *)
(***************************************************************************)
FlagsStay ==
  \A f \in Files, m \in Monitors : \A i \in Groups(m) :
    FlagOf(f, m, i) \in disk /\ Src(f) \in disk' => FlagOf(f, m, i) \in disk'
UploadKNew ==
  \A f \in Files : UploadK(f) \in disk' =>
    UploadK(f) \in disk \/ \E m \in Monitors : spc[m] = "mk" /\ nfile[snode[m]] = f
UploadKGone ==
  \A f \in Files : UploadK(f) \in disk =>
    UploadK(f) \in disk' \/ \E m \in Monitors : ScheDelK(m)

\* A file that a thread holds has left a trace: its node.
LEMMA HeldFile ==
  ASSUME MemoryInv, NEW m \in Monitors, spc[m] \notin ScheIdle
  PROVE  nfile[snode[m]] \in Files /\ Traces(nfile[snode[m]])
<1>1. snode[m] \in Nodes /\ nfile[snode[m]] # NoFile
  BY HeldNode
<1>2. nfile \in [Nodes -> Files \cup {NoFile}]
  BY DEF MemoryInv, TypeOK
<1> QED  BY <1>1, <1>2 DEF Traces

LEMMA UploadedFile ==
  ASSUME MemoryInv, NEW t \in Threads, wpc[t] \notin UploadIdle
  PROVE  FileOf(t) \in Files /\ Traces(FileOf(t))
<1>1. cnode[wcopy[t]] \in Nodes /\ FileOf(t) \in Files
  BY HeldCopy
<1> QED  BY <1>1 DEF Traces, FileOf

LEMMA FlagSteps ==
  ASSUME UpOK, MemoryInv, [Next]_vars
  PROVE  FlagsStay /\ UploadKNew /\ UploadKGone
<1> DEFINE Said == FlagsStay /\ UploadKNew /\ UploadKGone
<1>1. ASSUME disk' = disk PROVE Said
  BY <1>1 DEF FlagsStay, UploadKNew, UploadKGone
<1>2. ASSUME NEW f \in Files, Produce(f) PROVE Said
  <2>1. disk' = disk \cup {Src(f)} \/ disk' = disk \cup {Mon(f)}
    BY <1>2 DEF Produce, ProduceData, ProduceMarker, ProduceFile, MoveMarkerIn
  <2> QED  BY <2>1, NamesDiffer DEF FlagsStay, UploadKNew, UploadKGone
<1>3. ASSUME NEW m \in Monitors, monitor_handle(m) PROVE Said
  BY <1>1, <1>3 DEF monitor_handle, MonitorWatch, ScanFile, ScanEnd, MonitorEvent, MonitorExit,
                    monFrame
<1>4. ASSUME NEW m \in Monitors, sche_handle(m) PROVE Said
  <2>1. CASE ScheCreateFlag(m)
    BY <2>1, NamesDiffer DEF ScheCreateFlag, create_file, FlagsStay, UploadKNew, UploadKGone
  <2>2. CASE ScheCreateK(m)
    BY <2>2, NamesDiffer DEF ScheCreateK, create_file, FlagsStay, UploadKNew, UploadKGone
  <2>3. CASE ScheMoveSrc(m) \/ ScheDelMon(m)
    <3>1. PICK f : disk' = disk \/ disk' = disk \ {Src(f)} \/ disk' = disk \ {Mon(f)}
      BY <2>3 DEF ScheMoveSrc, ScheDelMon, do_move_to, delete_file
    <3> QED  BY <3>1, NamesDiffer DEF FlagsStay, FlagOf, UploadKNew, UploadKGone
  <2>4. CASE ScheDelK(m)
    <3>1. PICK f : disk' = disk \/ disk' = disk \ {UploadK(f)}
      BY <2>4 DEF ScheDelK, delete_file
    <3>2. FlagsStay
      BY <3>1, NamesDiffer DEF FlagsStay, FlagOf
    <3> QED  BY <2>4, <3>1, <3>2 DEF UploadKNew, UploadKGone
  <2>5. CASE SchePop(m) \/ ScheCheckSrc(m) \/ ScheCheckK(m) \/ ScheCheckAll(m) \/ ScheLimit(m)
             \/ ScheGroup(m) \/ ScheDispatch(m) \/ SchePush(m) \/ ScheExit(m)
    BY <1>1, <2>5 DEF SchePop, ScheCheckSrc, ScheCheckK, ScheCheckAll, ScheLimit, ScheGroup,
                ScheDispatch, SchePush, ScheExit
  <2> QED  BY <1>4, <2>1, <2>2, <2>3, <2>4, <2>5 DEF sche_handle
<1>5. ASSUME NEW t \in Threads, upload_handle(t) PROVE Said
  <2>1. CASE UploadDelSrc(t)
    <3>1. PICK f : disk' = disk \/ disk' = disk \ {Src(f)}
      BY <2>1 DEF UploadDelSrc, delete_file
    <3> QED  BY <3>1, NamesDiffer DEF FlagsStay, FlagOf, UploadKNew, UploadKGone
  <2>2. CASE do_upload_file_finish_single(t)
    <3>1. /\ Src(FileOf(t)) \notin disk
          /\ \/ disk' = disk
             \/ disk' = disk \ {StateFile(FileOf(t), MonOf(t), SgName(MonOf(t), csg[wcopy[t]]))}
      BY <2>2 DEF UpOK, do_upload_file_finish_single, delete_file
    <3>2. FlagsStay
      BY <3>1 DEF FlagsStay, FlagOf, StateFile
    <3> QED  BY <3>1, <3>2, NamesDiffer DEF UploadKNew, UploadKGone
  <2>3. CASE ~(UploadDelSrc(t) \/ do_upload_file_finish_single(t))
    BY <1>1, <1>5, <2>3 DEF upload_handle, UploadPop, UploadCheck, UploadCallOk, UploadCallFail,
      UploadReadRc, UploadWriteRc, UploadSleep, UploadResetRc, UploadFree, UploadExit
  <2> QED  BY <2>1, <2>2, <2>3
<1>6. ASSUME NEW s \in Servers, WakeUp(s) PROVE Said
  BY <1>1, <1>6 DEF WakeUp
<1>7. CASE Process
  BY <1>1, <1>7 DEF Process, newiup_pthread_start, signal_func, servers_exit,
                    monitor_group_exit, Crash
<1>8. CASE UNCHANGED vars
  BY <1>1, <1>8 DEF vars
<1> QED  BY <1>2, <1>3, <1>4, <1>5, <1>6, <1>7, <1>8 DEF Next

LEMMA FlagsNext ==
  ASSUME OneMonitor, FilesInv, MemoryInv, [Next]_vars, SourcesStayGone
  PROVE  FlagsOK'
<1> SUFFICES ASSUME NEW f \in Files, NEW m \in Monitors, Src(f) \in disk', UploadK(f) \in disk',
                    NEW i \in Groups(m)
             PROVE  FlagOf(f, m, i) \in disk'
  BY DEF FlagsOK, Src, Mon, UploadK, FlagOf, StateFile, SgName, Groups
<1>1. FlagsStay /\ UploadKNew
  BY FlagSteps DEF FilesInv
<1>2. CASE UploadK(f) \in disk
  BY <1>1, <1>2 DEF FilesInv, FlagsOK, FlagsStay, SourcesStayGone, Traces
<1>3. ASSUME NEW k \in Monitors, spc[k] = "mk", nfile[snode[k]] = f
      PROVE  FlagOf(f, m, i) \in disk'
  <2>1. k = m /\ snode[k] \in Nodes
    BY <1>3, HeldNode DEF OneMonitor, ScheIdle
  <2>2. Src(f) \in disk
    BY <1>3, <2>1 DEF SourcesStayGone, Traces
  <2> QED  BY <1>1, <1>3, <2>1, <2>2 DEF FilesInv, ScheOK, FlagsStay
<1> QED  BY <1>1, <1>2, <1>3 DEF UploadKNew

\* A scheduling thread that does not take the step stands where it stood, or is idle.
LEMMA ScheOthers ==
  ASSUME OneMonitor, FilesInv, MemoryInv, MemoryInv', [Next]_vars, SourcesStayGone,
         \A m \in Monitors : spc'[m] \in ScheIdle
                               \/ (spc'[m] = spc[m] /\ si'[m] = si[m] /\ snode'[m] = snode[m])
  PROVE  ScheOK'
<1>1. ASSUME NEW m \in Monitors, spc'[m] \notin ScheIdle
      PROVE  /\ spc'[m] = spc[m] /\ si'[m] = si[m] /\ nfile'[snode'[m]] = nfile[snode[m]]
             /\ nfile[snode[m]] \in Files /\ Traces(nfile[snode[m]])
  <2>1. spc'[m] = spc[m] /\ si'[m] = si[m] /\ nfile'[snode'[m]] = nfile[snode[m]]
    BY <1>1, ThreadsSee DEF ScheSees
  <2> QED  BY <1>1, <2>1, HeldFile
<1>2. FlagsStay /\ UploadKGone
  BY FlagSteps DEF FilesInv
<1>4. ASSUME NEW m \in Monitors, spc'[m] \notin ScheIdle, NEW k \in Monitors, ScheDelK(k)
      PROVE  FALSE
  <2>1. spc \in [Monitors -> ScheIdle \cup ScheFresh \cup ScheLoop \cup {"push"}] /\ k = m
    BY <1>4 DEF MemoryInv, TypeOK, OneMonitor
  <2>2. spc' = [spc EXCEPT ![k] = "head"]
    BY <1>4 DEF ScheDelK, DropNode, Goto
  <2> QED  BY <1>4, <2>1, <2>2 DEF ScheIdle
<1>3. ASSUME NEW m \in Monitors, spc'[m] \notin ScheIdle
      PROVE  LET f == nfile'[snode'[m]] IN
        /\ spc'[m] = "flag" /\ Src(f) \in disk' =>
             \A i \in Groups(m) : i < si'[m] => FlagOf(f, m, i) \in disk'
        /\ spc'[m] = "mk" /\ Src(f) \in disk' => \A i \in Groups(m) : FlagOf(f, m, i) \in disk'
        /\ spc'[m] = "all" => UploadK(f) \in disk'
        /\ spc'[m] \in Finishing => Src(f) \notin disk'
  <2>1. UploadKGone /\ \A k \in Monitors : ~ScheDelK(k)
    BY <1>2, <1>3, <1>4
  <2> QED  BY <1>1, <1>2, <1>3, <2>1 DEF FilesInv, ScheOK, FlagsStay, UploadKGone, SourcesStayGone
<1> QED
  BY <1>3 DEF ScheOK, ScheIdle, Finishing, Src, Mon, UploadK, FlagOf, StateFile, SgName, Groups

\* Where a node in hand goes next, said once for all steps of its thread.
LEMMA ScheNextFiles ==
  ASSUME OneMonitor, NEW m \in Monitors,
         LET f == nfile'[snode'[m]] IN
           /\ spc'[m] = "flag" /\ Src(f) \in disk' =>
                \A i \in Groups(m) : i < si'[m] => FlagOf(f, m, i) \in disk'
           /\ spc'[m] = "mk" /\ Src(f) \in disk' => \A i \in Groups(m) : FlagOf(f, m, i) \in disk'
           /\ spc'[m] = "all" => UploadK(f) \in disk'
           /\ spc'[m] \in Finishing => Src(f) \notin disk'
  PROVE  ScheOK'
<1>1. \A k \in Monitors : k = m
  BY DEF OneMonitor
<1> QED  BY <1>1 DEF ScheOK, Finishing, Src, Mon, UploadK, FlagOf, StateFile, SgName, Groups

LEMMA ScheFiles ==
  ASSUME OneMonitor, FilesWork, FilesInv, MemoryInv, MemoryInv', [Next]_vars, SourcesStayGone,
         NEW m \in Monitors, sche_handle(m)
  PROVE  ScheOK'
<1> DEFINE f == nfile[snode[m]]
<1>1. /\ spc \in [Monitors -> ScheIdle \cup ScheFresh \cup ScheLoop \cup {"push"}]
      /\ si \in [Monitors -> Nat] /\ snode \in [Monitors -> Nodes \cup {NoNode}]
      /\ si'[m] \in Nat
      /\ Len(Sgl[m]) \in Nat /\ Groups(m) = 1..Len(Sgl[m])
  BY SglFacts DEF MemoryInv, TypeOK
<1>2. ASSUME spc'[m] \notin {"flag", "mk", "all"} \cup Finishing PROVE ScheOK'
  BY <1>2, ScheNextFiles DEF Finishing
<1>3. ASSUME spc[m] \notin ScheIdle, spc'[m] \notin ScheIdle, snode' = snode
      PROVE  /\ nfile'[snode'[m]] = f /\ f \in Files /\ Traces(f)
  BY <1>3, ThreadsSee, HeldFile DEF ScheSees
<1>4. FlagsStay
  BY FlagSteps DEF FilesInv
<1>5. CASE SchePop(m) \/ ScheCheckSrc(m) \/ ScheCreateK(m) \/ ScheDelK(m) \/ SchePush(m)
           \/ ScheExit(m)
  <2>1. spc'[m] \in {"head", "src", "k", "group", "exit"}
    BY <1>1, <1>5 DEF SchePop, ScheCheckSrc, ScheCreateK, ScheDelK, SchePush, ScheExit, DropNode,
                      Goto, scheVars
  <2> QED  BY <1>2, <2>1 DEF Finishing
<1>6. CASE ScheGroup(m) \/ ScheDispatch(m)
  <2>1. spc'[m] \in {"group", "pick", "push"}
    BY <1>1, <1>6 DEF ScheGroup, ScheDispatch, NextGroup, Goto
  <2> QED  BY <1>2, <2>1 DEF Finishing
<1>7. CASE ScheCheckK(m)
  <2>1. /\ spc[m] = "k" /\ disk' = disk /\ snode' = snode /\ si'[m] = 1
        /\ spc'[m] = IF UploadK(f) \in disk THEN "all" ELSE "flag"
    BY <1>1, <1>7 DEF ScheCheckK, Goto
  <2>2. nfile'[snode'[m]] = f
    BY <1>3, <2>1 DEF ScheIdle
  <2> QED  BY <1>1, <2>1, <2>2, ScheNextFiles DEF Finishing
<1>8. CASE ScheCreateFlag(m)
  <2>1. /\ spc[m] = "flag" /\ disk' = disk \cup {FlagOf(f, m, si[m])} /\ snode' = snode
        /\ \/ si[m] < Len(Sgl[m]) /\ spc'[m] = "flag" /\ si'[m] = si[m] + 1
           \/ ~(si[m] < Len(Sgl[m])) /\ spc'[m] = "mk"
    BY <1>1, <1>8 DEF ScheCreateFlag, create_file, FilesWork, Goto, FlagOf
  <2>2. nfile'[snode'[m]] = f /\ f \in Files /\ Traces(f)
    BY <1>3, <2>1 DEF ScheIdle
  <2>3. ASSUME Src(f) \in disk', NEW i \in Groups(m), i <= si[m]
        PROVE  FlagOf(f, m, i) \in disk'
    <3>1. CASE i = si[m]
      BY <2>1, <3>1
    <3>2. CASE i < si[m]
      BY <1>4, <2>1, <2>2, <2>3, <3>2 DEF FilesInv, ScheOK, FlagsStay, SourcesStayGone
    <3> QED  BY <1>1, <2>3, <3>1, <3>2
  <2> HIDE DEF f
  <2> QED  BY <1>1, <2>1, <2>2, <2>3, ScheNextFiles DEF Finishing
<1>9. CASE ScheCheckAll(m)
  <2>1. /\ spc[m] = "all" /\ disk' = disk /\ snode' = snode
        /\ spc'[m] = IF NoStateFile(m, f) THEN "move" ELSE "group"
    BY <1>1, <1>9 DEF ScheCheckAll, Goto
  <2>2. nfile'[snode'[m]] = f /\ f \in Files
    BY <1>3, <2>1 DEF ScheIdle
  <2>3. NoStateFile(m, f) => Src(f) \notin disk
    <3>1. UploadK(f) \in disk /\ 1 \in Groups(m)
      BY <2>1, SglFacts DEF FilesInv, ScheOK
    <3> QED  BY <2>2, <3>1 DEF FilesInv, FlagsOK, NoStateFile, FlagOf
  <2> HIDE DEF f
  <2> QED  BY <2>1, <2>2, <2>3, ScheNextFiles DEF Finishing
<1>10. CASE ScheMoveSrc(m) \/ ScheDelMon(m) \/ ScheLimit(m)
  <2>1. spc[m] \in {"move", "delmon", "limit"} /\ snode' = snode
        /\ spc'[m] \in {"delmon", "limit", "delk"}
    BY <1>1, <1>10 DEF ScheMoveSrc, ScheDelMon, ScheLimit, Goto
  <2>2. nfile'[snode'[m]] = f /\ f \in Files /\ Traces(f)
    BY <1>3, <2>1 DEF ScheIdle
  <2>3. Src(f) \notin disk'
    BY <2>1, <2>2 DEF FilesInv, ScheOK, Finishing, SourcesStayGone
  <2> HIDE DEF f
  <2> QED  BY <2>1, <2>2, <2>3, ScheNextFiles DEF Finishing
<1> QED  BY <1>5, <1>6, <1>7, <1>8, <1>9, <1>10 DEF sche_handle

\* An upload thread that does not take the step keeps what it knows.
LEMMA UploadNextFiles ==
  ASSUME FilesInv, MemoryInv, MemoryInv', [Next]_vars, SourcesStayGone,
         delivered \subseteq delivered',
         \A t \in Threads :
           \/ wpc'[t] \notin {"delsrc", "delflag"}
           \/ wpc'[t] = wpc[t] /\ wcopy'[t] = wcopy[t]
           \/ /\ wpc'[t] = "delsrc" => <<FileOf(t)', MonOf(t)', csg'[wcopy'[t]]>> \in delivered'
              /\ wpc'[t] = "delflag" => Src(FileOf(t)') \notin disk'
  PROVE  UpOK'
<1>1. ASSUME NEW t \in Threads, wpc'[t] \in {"delsrc", "delflag"}
      PROVE  /\ wpc'[t] = "delsrc" => <<FileOf(t)', MonOf(t)', csg'[wcopy'[t]]>> \in delivered'
             /\ wpc'[t] = "delflag" => Src(FileOf(t)') \notin disk'
  <2>1. CASE wpc'[t] = wpc[t] /\ wcopy'[t] = wcopy[t]
    <3>1. wpc[t] \notin UploadIdle /\ wpc'[t] \notin UploadIdle
      BY <1>1, <2>1 DEF UploadIdle
    <3>2. FileOf(t)' = FileOf(t) /\ MonOf(t)' = MonOf(t) /\ csg'[wcopy'[t]] = csg[wcopy[t]]
      BY <2>1, <3>1, ThreadsSee DEF UploadSees
    <3>3. FileOf(t) \in Files /\ Traces(FileOf(t))
      BY <3>1, UploadedFile
    <3> QED  BY <2>1, <3>2, <3>3 DEF FilesInv, UpOK, SourcesStayGone
  <2> QED  BY <1>1, <2>1
<1> QED  BY <1>1 DEF UpOK, Src, Mon

LEMMA UploadFiles ==
  ASSUME FilesWork, FilesInv, MemoryInv, MemoryInv', [Next]_vars, SourcesStayGone,
         delivered \subseteq delivered', NEW t \in Threads, upload_handle(t)
  PROVE  UpOK'
<1>1. /\ wpc \in [Threads -> UploadIdle \cup UploadBusy]
      /\ wcopy \in [Threads -> Copies \cup {NoCopy}]
  BY DEF MemoryInv, TypeOK
<1>2. ASSUME NEW u \in Threads, u # t
      PROVE  wpc'[u] = wpc[u] /\ wcopy'[u] = wcopy[u]
  BY <1>1, <1>2 DEF upload_handle, UploadPop, UploadCheck, UploadCallOk, UploadCallFail,
     UploadDelSrc, do_upload_file_finish_single, UploadReadRc, UploadWriteRc, UploadSleep,
     UploadResetRc, UploadFree, UploadExit, ReleaseCopy, WGoto
<1>3. CASE UploadCallOk(t)
  <2>1. /\ wpc'[t] = "delsrc" /\ UNCHANGED <<memVars, wcopy>>
        /\ delivered' = delivered \cup {<<FileOf(t), MonOf(t), csg[wcopy[t]]>>}
    BY <1>1, <1>3 DEF UploadCallOk, WGoto
  <2>2. <<FileOf(t)', MonOf(t)', csg'[wcopy'[t]]>> \in delivered'
    BY <2>1 DEF memVars, FileOf, MonOf
  <2> QED  BY <1>2, <2>1, <2>2, UploadNextFiles
<1>4. CASE UploadDelSrc(t)
  <2>1. wpc'[t] = "delflag" /\ UNCHANGED <<memVars, wcopy>> /\ disk' = disk \ {Src(FileOf(t))}
    BY <1>1, <1>4 DEF UploadDelSrc, delete_file, FilesWork, WGoto
  <2>2. FileOf(t)' = FileOf(t)
    BY <2>1 DEF memVars, FileOf
  <2> QED  BY <1>2, <2>1, <2>2, UploadNextFiles
<1>5. CASE ~(UploadCallOk(t) \/ UploadDelSrc(t))
  <2>1. wpc'[t] \notin {"delsrc", "delflag"}
    BY <1>1, <1>5 DEF upload_handle, UploadPop, UploadCheck, UploadCallFail,
       do_upload_file_finish_single, UploadReadRc, UploadWriteRc, UploadSleep,
       UploadResetRc, UploadFree, UploadExit, ReleaseCopy, WGoto
  <2> QED  BY <1>2, <2>1, UploadNextFiles
<1> QED  BY <1>3, <1>4, <1>5

\* Where the threads of a group and of a server are after a step that is not theirs.
LEMMA ThreadsStay ==
  ASSUME [Next]_vars, MemoryInv
  PROVE  /\ \/ \E m \in Monitors : sche_handle(m)
            \/ \A m \in Monitors :
                 \/ spc'[m] \in ScheIdle
                 \/ spc'[m] = spc[m] /\ si'[m] = si[m] /\ snode'[m] = snode[m]
         /\ \/ \E t \in Threads : upload_handle(t)
            \/ \A t \in Threads : wpc'[t] \in UploadIdle \/ (wpc'[t] = wpc[t] /\ wcopy'[t] = wcopy[t])
<1>1. ASSUME NEW f \in Files, Produce(f) PROVE UNCHANGED <<scheVars, upVars>>
  BY <1>1 DEF Produce, ProduceData, ProduceMarker, ProduceFile, MoveMarkerIn
<1>2. ASSUME NEW m \in Monitors, monitor_handle(m) PROVE UNCHANGED <<scheVars, upVars>>
  BY <1>2 DEF monitor_handle, MonitorWatch, ScanFile, ScanEnd, MonitorEvent, MonitorExit,
              monFrame
<1>3. ASSUME NEW m \in Monitors, sche_handle(m) PROVE UNCHANGED upVars
  BY <1>3 DEF sche_handle, SchePop, ScheCheckSrc, ScheCheckK, ScheCreateFlag, ScheCreateK,
         ScheCheckAll, ScheMoveSrc, ScheDelMon, ScheLimit, ScheDelK, ScheGroup, ScheDispatch,
         SchePush, ScheExit, scheFrame
<1>4. ASSUME NEW t \in Threads, upload_handle(t) PROVE UNCHANGED scheVars
  BY <1>4 DEF upload_handle, UploadPop, UploadCheck, UploadCallOk, UploadCallFail, UploadDelSrc,
         do_upload_file_finish_single, UploadReadRc, UploadWriteRc, UploadSleep, UploadResetRc,
         UploadFree, UploadExit, upFrame
<1>5. ASSUME NEW s \in Servers, WakeUp(s) PROVE UNCHANGED <<scheVars, upVars>>
  BY <1>5 DEF WakeUp, upFrame
<1>6. CASE UNCHANGED vars
  BY <1>6 DEF vars, scheVars, upVars
<1>7. CASE Process
  <2>1. CASE signal_func \/ servers_exit \/ monitor_group_exit
    BY <2>1 DEF signal_func, servers_exit, monitor_group_exit, scheVars, upVars
  <2>2. CASE newiup_pthread_start \/ Crash
    BY <2>2 DEF newiup_pthread_start, Crash, ScheIdle, UploadIdle
  <2> QED  BY <1>7, <2>1, <2>2 DEF Process
<1> QED  BY <1>1, <1>2, <1>3, <1>4, <1>5, <1>6, <1>7 DEF Next, scheVars, upVars

LEMMA FilesInductive ==
  ASSUME NamesUsedOnce, OneMonitor, FilesWork,
         MemoryInv, MemoryInv', FilesInv, [Next]_vars
  PROVE  FilesInv' /\ SourcesStayGone /\ delivered \subseteq delivered'
<1>1. Published' /\ SourcesStayGone /\ delivered \subseteq delivered'
  BY PublishedInductive DEF FilesInv
<1>2. FlagsOK'
  BY <1>1, FlagsNext
<1>3. ScheOK'
  BY <1>1, ThreadsStay, ScheFiles, ScheOthers
<1>4. UpOK'
  <2>1. \A t \in Threads : wpc'[t] \in UploadIdle => wpc'[t] \notin {"delsrc", "delflag"}
    BY DEF UploadIdle
  <2> QED  BY <1>1, <2>1, ThreadsStay, UploadFiles, UploadNextFiles
<1> QED  BY <1>1, <1>2, <1>3, <1>4 DEF FilesInv

LEMMA FilesInit == ASSUME Init PROVE FilesInv
<1>1. \A f \in Files : ~Traces(f) /\ ~ready[f] /\ Src(f) \notin disk
  BY EmptyInQ, NullAssumption DEF Init, Traces
<1>2. FlagsOK /\ ScheOK /\ UpOK
  BY <1>1 DEF Init, FlagsOK, ScheOK, UpOK, Finishing
<1> QED  BY <1>1, <1>2 DEF FilesInv, Published

LEMMA FilesSound == ASSUME NamesUsedOnce, OneMonitor, FilesWork PROVE Spec => []FilesInv
<1>1. Init => FilesInv
  BY FilesInit
<1>2. MemoryInv /\ MemoryInv' /\ FilesInv /\ [Next]_vars => FilesInv'
  BY FilesInductive
<1> QED  BY <1>1, <1>2, MemorySound, PTL DEF Spec

-----------------------------------------------------------------------------
(***************************************************************************)
(* The promise to the producer.                                            *)
(***************************************************************************)

\* What the daemon's own steps do to sources: only UploadDelSrc removes one.
SourceSteps ==
  /\ ready' = ready
  /\ delivered' = delivered \/ \E t \in Threads : UploadCallOk(t)
  /\ \A f \in Files : Src(f) \in disk' => Src(f) \in disk
  /\ \A f \in Files : Src(f) \in disk =>
       Src(f) \in disk' \/ \E t \in Threads : UploadDelSrc(t) /\ FileOf(t) = f

LEMMA DaemonSteps ==
  ASSUME FilesInv, [Next]_vars
  PROVE  SourceSteps \/ \E f \in Files : Produce(f)
<1>1. ASSUME UNCHANGED <<disk, ready, delivered>> PROVE SourceSteps
  BY <1>1 DEF SourceSteps
<1>2. ASSUME NEW m \in Monitors, monitor_handle(m) PROVE SourceSteps
  BY <1>1, <1>2 DEF monitor_handle, MonitorWatch, ScanFile, ScanEnd, MonitorEvent, MonitorExit,
                    monFrame, histVars
<1>3. ASSUME NEW m \in Monitors, sche_handle(m) PROVE SourceSteps
  <2> DEFINE g == nfile[snode[m]]
  <2>1. UNCHANGED <<ready, delivered>>
    BY <1>3 DEF sche_handle, SchePop, ScheCheckSrc, ScheCheckK, ScheCreateFlag, ScheCreateK,
           ScheCheckAll, ScheMoveSrc, ScheDelMon, ScheLimit, ScheDelK, ScheGroup, ScheDispatch,
           SchePush, ScheExit, scheFrame, histVars
  <2>2. CASE ScheCreateFlag(m) \/ ScheCreateK(m)
    BY <2>1, <2>2, NamesDiffer DEF ScheCreateFlag, ScheCreateK, create_file, SourceSteps
  <2>3. CASE ScheMoveSrc(m)
    <3>1. Src(g) \notin disk /\ (disk' = disk \/ disk' = disk \ {Src(g)})
      BY <2>3 DEF FilesInv, ScheOK, Finishing, ScheMoveSrc, do_move_to, delete_file
    <3> QED  BY <2>1, <3>1 DEF SourceSteps
  <2>4. CASE ScheDelMon(m)
    <3>1. Src(g) \notin disk /\ (disk' = disk \/ disk' = disk \ {Mon(g)})
      BY <2>4 DEF FilesInv, ScheOK, Finishing, ScheDelMon, delete_file
    <3>2. \A f \in Files : Src(f) = Mon(g) => Src(f) = Src(g)
      BY DEF Src, Mon
    <3> QED  BY <2>1, <3>1, <3>2 DEF SourceSteps
  <2>5. CASE ScheDelK(m)
    BY <2>1, <2>5, NamesDiffer DEF ScheDelK, delete_file, SourceSteps
  <2>6. CASE SchePop(m) \/ ScheCheckSrc(m) \/ ScheCheckK(m) \/ ScheCheckAll(m) \/ ScheLimit(m)
             \/ ScheGroup(m) \/ ScheDispatch(m) \/ SchePush(m) \/ ScheExit(m)
    BY <1>1, <2>1, <2>6 DEF SchePop, ScheCheckSrc, ScheCheckK, ScheCheckAll, ScheLimit, ScheGroup,
                ScheDispatch, SchePush, ScheExit
  <2> QED  BY <1>3, <2>2, <2>3, <2>4, <2>5, <2>6 DEF sche_handle
<1>4. ASSUME NEW t \in Threads, upload_handle(t) PROVE SourceSteps
  <2>1. ready' = ready
    BY <1>4 DEF upload_handle, UploadPop, UploadCheck, UploadCallOk, UploadCallFail, UploadDelSrc,
         do_upload_file_finish_single, UploadReadRc, UploadWriteRc, UploadSleep, UploadResetRc,
         UploadFree, UploadExit, upFrame
  <2>2. CASE UploadDelSrc(t)
    <3>1. delivered' = delivered /\ (disk' = disk \/ disk' = disk \ {Src(FileOf(t))})
      BY <2>2 DEF UploadDelSrc, delete_file
    <3> QED  BY <2>1, <2>2, <3>1, NamesDiffer DEF SourceSteps
  <2>3. CASE do_upload_file_finish_single(t)
    BY <2>1, <2>3, NamesDiffer DEF do_upload_file_finish_single, delete_file, SourceSteps
  <2>4. CASE UploadCallOk(t)
    BY <2>1, <2>4 DEF UploadCallOk, SourceSteps
  <2>5. CASE ~(UploadDelSrc(t) \/ do_upload_file_finish_single(t) \/ UploadCallOk(t))
    BY <1>1, <1>4, <2>1, <2>5 DEF upload_handle, UploadPop, UploadCheck, UploadCallFail,
      UploadReadRc, UploadWriteRc, UploadSleep, UploadResetRc, UploadFree, UploadExit
  <2> QED  BY <2>2, <2>3, <2>4, <2>5
<1>5. ASSUME NEW s \in Servers, WakeUp(s) PROVE SourceSteps
  BY <1>1, <1>5 DEF WakeUp, upFrame
<1>6. CASE Process
  BY <1>1, <1>6 DEF Process, newiup_pthread_start, signal_func, servers_exit,
                    monitor_group_exit, Crash, histVars
<1>7. CASE UNCHANGED vars
  BY <1>1, <1>7 DEF vars, histVars
<1> QED  BY <1>2, <1>3, <1>4, <1>5, <1>6, <1>7 DEF Next

\* A published source that is gone was accepted by a server of some group.
SourceGoneMeansAccepted ==
  \A f \in Files : ready[f] /\ Src(f) \notin disk =>
    \E m \in Monitors : \E i \in Groups(m) : <<f, m, i>> \in delivered

LEMMA ServedGroup ==
  ASSUME FilesInv, MemoryInv, NEW t \in Threads, wpc[t] \notin UploadIdle
  PROVE  MonOf(t) \in Monitors /\ csg[wcopy[t]] \in Groups(MonOf(t))
<1>1. MonOf(t) \in Monitors /\ wcopy[t] \in Copies /\ cnode[wcopy[t]] \in Nodes
  BY HeldCopy
<1>2. csg[wcopy[t]] \in Groups(MonOf(t))
  BY <1>1, NullAssumption DEF MemoryInv, ControlOK, MonOf
<1> QED  BY <1>1, <1>2

LEMMA GoneInductive ==
  ASSUME NamesUsedOnce, OneMonitor, FilesWork, MemoryInv, MemoryInv', FilesInv,
         SourceGoneMeansAccepted, [Next]_vars
  PROVE  SourceGoneMeansAccepted'
<1> SUFFICES ASSUME NEW f \in Files, ready'[f], Src(f) \notin disk'
             PROVE  \E m \in Monitors : \E i \in Groups(m) : <<f, m, i>> \in delivered'
  BY DEF SourceGoneMeansAccepted, Src, Mon, Groups
<1> DEFINE Accepted(d) == \E m \in Monitors : \E i \in Groups(m) : <<f, m, i>> \in d
<1>1. delivered \subseteq delivered' /\ ready \in [Files -> BOOLEAN]
  BY FilesInductive DEF MemoryInv, TypeOK
<1>2. ASSUME NEW g \in Files, Produce(g) PROVE Accepted(delivered')
  <2>1. disk \subseteq disk'
    BY <1>2 DEF Produce, ProduceData, ProduceMarker, ProduceFile, MoveMarkerIn
  <2>2. ready[f]
    <3>1. CASE f # g
      BY <1>1, <1>2, <3>1 DEF Produce, ProduceData, ProduceMarker, ProduceFile, MoveMarkerIn
    <3>2. CASE f = g
      BY <1>1, <1>2, <2>1, <3>2 DEF Produce, ProduceData, ProduceMarker, ProduceFile,
                                    MoveMarkerIn, Src
    <3> QED  BY <3>1, <3>2
  <2> QED  BY <1>1, <2>1, <2>2 DEF SourceGoneMeansAccepted
<1>3. CASE SourceSteps
  <2>1. CASE Src(f) \notin disk
    BY <1>1, <1>3, <2>1 DEF SourceSteps, SourceGoneMeansAccepted
  <2>2. CASE Src(f) \in disk
    <3>1. PICK t \in Threads : UploadDelSrc(t) /\ FileOf(t) = f
      BY <1>3, <2>2 DEF SourceSteps
    <3>2. wpc[t] = "delsrc" /\ wpc[t] \notin UploadIdle
      BY <3>1 DEF UploadDelSrc, UploadIdle
    <3>3. <<f, MonOf(t), csg[wcopy[t]]>> \in delivered
      BY <3>1, <3>2 DEF FilesInv, UpOK
    <3> QED  BY <1>1, <3>2, <3>3, ServedGroup
  <2> QED  BY <2>1, <2>2
<1> QED  BY <1>2, <1>3, DaemonSteps

(***************************************************************************)
(* A state file that is missing while the "-upload-k" file vouches for the *)
(* state files means that a server of its group accepted the file, over    *)
(* any crash and restart (do_upload_state_file_check may trust it).        *)
(***************************************************************************)
THEOREM StateFilesVouch ==
  ASSUME NamesUsedOnce, OneMonitor, FilesWork
  PROVE  Spec => []StateFileMeansUploaded
<1>1. FilesInv => StateFileMeansUploaded
  BY DEF FilesInv, FlagsOK, FlagOf, StateFileMeansUploaded
<1> QED  BY <1>1, FilesSound, PTL

(***************************************************************************)
(* No published file is lost: with any number of server groups a source    *)
(* disappears only after a server of one of them has accepted it, over any *)
(* crash and restart.                                                      *)
(***************************************************************************)
THEOREM NoSourceLost ==
  ASSUME NamesUsedOnce, OneMonitor, FilesWork
  PROVE  Spec => []SourceGoneMeansAccepted
<1>1. Init => SourceGoneMeansAccepted
  BY DEF Init, SourceGoneMeansAccepted
<1>2. /\ MemoryInv /\ MemoryInv' /\ FilesInv /\ SourceGoneMeansAccepted /\ [Next]_vars
      => SourceGoneMeansAccepted'
  BY GoneInductive
<1> QED  BY <1>1, <1>2, MemorySound, FilesSound, PTL DEF Spec

(***************************************************************************)
(* A published source disappears only after a server of every group that   *)
(* monitors it has accepted it, over any crash and restart.                *)
(***************************************************************************)
THEOREM SourceSafe ==
  ASSUME NamesUsedOnce, OneMonitor, OneReceiver, FilesWork
  PROVE  Spec => []SourceGoneMeansDelivered
<1>1. \A m, k \in Monitors : m = k /\ Groups(m) = 1..1
  BY SglFacts DEF OneMonitor, OneReceiver
<1>2. SourceGoneMeansAccepted => SourceGoneMeansDelivered
  <2> SUFFICES ASSUME SourceGoneMeansAccepted, NEW f \in Files, ready[f], Src(f) \notin disk,
                      NEW m \in Monitors, NEW i \in Groups(m)
               PROVE  <<f, m, i>> \in delivered
    BY DEF SourceGoneMeansDelivered
  <2>1. PICK k \in Monitors : \E j \in Groups(k) : <<f, k, j>> \in delivered
    BY DEF SourceGoneMeansAccepted
  <2>2. k = m /\ \A j \in Groups(k) : j = i
    BY <1>1
  <2> QED  BY <2>1, <2>2
<1> QED  BY <1>2, NoSourceLost, PTL

(***************************************************************************)
(* do_upload_file_finish_all runs only for files that every group has      *)
(* uploaded.                                                               *)
(***************************************************************************)
THEOREM FinishedIsUploaded ==
  ASSUME NamesUsedOnce, OneMonitor, OneReceiver, FilesWork
  PROVE  Spec => []FinishAllMeansUploaded
<1>1. MemoryInv /\ FilesInv /\ SourceGoneMeansDelivered => FinishAllMeansUploaded
  <2> SUFFICES ASSUME MemoryInv, FilesInv, SourceGoneMeansDelivered,
                      NEW m \in Monitors, spc[m] = "move", NEW i \in Groups(m)
               PROVE  <<nfile[snode[m]], m, i>> \in delivered
    BY DEF FinishAllMeansUploaded
  <2>1. nfile[snode[m]] \in Files /\ Traces(nfile[snode[m]])
    BY HeldFile DEF ScheIdle
  <2>2. ready[nfile[snode[m]]] /\ Src(nfile[snode[m]]) \notin disk
    BY <2>1 DEF FilesInv, Published, ScheOK, Finishing
  <2> QED  BY <2>1, <2>2 DEF SourceGoneMeansDelivered
<1> QED  BY <1>1, MemorySound, FilesSound, SourceSafe, PTL

-----------------------------------------------------------------------------
(***************************************************************************)
(* The refinement, step by step.                                           *)
(***************************************************************************)
Waiting == {f \in Files : ready[f] /\ Src(f) \in disk}
AllGroups == UNION {{m} \X Groups(m) : m \in Monitors}

LEMMA PromiseUnfolded ==
  /\ Promise!vars = <<Waiting, delivered>>
  /\ Promise!vars' = <<Waiting', delivered'>>
  /\ \A f : Promise!Forget(f) <=>
       f \notin Waiting /\ delivered' = {a \in delivered : a[1] # f} /\ Waiting' = Waiting
  /\ \A f : Promise!Publish(f) <=>
       f \notin Waiting /\ Waiting' = Waiting \cup {f} /\ delivered' = delivered
  /\ \A f : Promise!Replace(f) <=>
       f \notin Waiting /\ Waiting' = Waiting \cup {f} /\ delivered' = {a \in delivered : a[1] # f}
  /\ \A f, r : Promise!Accept(f, r) <=>
       f \in Waiting /\ delivered' = delivered \cup {<<f, r[1], r[2]>>} /\ Waiting' = Waiting
  /\ \A f : Promise!Consume(f) <=>
       /\ f \in Waiting /\ Waiting' = Waiting \ {f} /\ delivered' = delivered
       /\ \A r \in AllGroups : <<f, r[1], r[2]>> \in delivered
BY DEF Waiting, AllGroups, Promise!vars, Promise!Forget, Promise!Publish, Promise!Replace, Promise!Accept,
       Promise!Consume, Promise!AcceptedByAll

LEMMA ProduceKeepsPromise ==
  ASSUME MemoryInv, NEW f \in Files, Produce(f)
  PROVE  Promise!Forget(f) \/ Promise!Publish(f) \/ Promise!Replace(f)
<1>1. ready \in [Files -> BOOLEAN]
  BY DEF MemoryInv, TypeOK
<1>2. \A g \in Files : Src(g)' = Src(g)
  BY DEF Src, Mon
<1>3. CASE ProduceData(f)
  <2>1. \A g \in Files : g # f => (Src(g) \in disk' <=> Src(g) \in disk)
    BY <1>3, NamesDiffer DEF ProduceData
  <2>2. f \notin Waiting /\ Waiting' = Waiting
    BY <1>1, <1>2, <1>3, <2>1 DEF ProduceData, NewVersion, Waiting
  <2> QED  BY <1>3, <2>2, PromiseUnfolded DEF ProduceData, NewVersion
<1>4. ASSUME MoveMarkerIn(f), f \notin Waiting, Src(f) \in disk'
      PROVE  Waiting' = Waiting \cup {f}
  <2>1. \A g \in Files : g # f => (Src(g) \in disk' <=> Src(g) \in disk)
    BY <1>4, NamesDiffer DEF MoveMarkerIn
  <2> QED  BY <1>1, <1>2, <1>4, <2>1 DEF MoveMarkerIn, Waiting
<1>5. CASE ProduceMarker(f)
  BY <1>4, <1>5, PromiseUnfolded DEF ProduceMarker, MoveMarkerIn, Waiting
<1>6. CASE ProduceFile(f)
  BY <1>4, <1>6, PromiseUnfolded DEF ProduceFile, MoveMarkerIn, NewVersion, Waiting, Src
<1> QED  BY <1>3, <1>5, <1>6 DEF Produce

LEMMA DaemonKeepsPromise ==
  ASSUME OneMonitor, OneReceiver, FilesWork, MemoryInv, FilesInv, SourceSteps
  PROVE  \/ \E f \in Files, t \in Threads :
              /\ MonOf(t) \in Monitors /\ csg[wcopy[t]] \in Groups(MonOf(t))
              /\ Promise!Accept(f, <<MonOf(t), csg[wcopy[t]]>>)
         \/ \E f \in Files : Promise!Consume(f)
         \/ UNCHANGED Promise!vars
<1>1. \A g \in Files : Src(g)' = Src(g)
  BY DEF Src, Mon
<1>2. CASE \E t \in Threads : UploadCallOk(t)
  <2>1. PICK t \in Threads : UploadCallOk(t)
    BY <1>2
  <2>2. wpc[t] \notin UploadIdle
    BY <2>1 DEF UploadCallOk, UploadIdle
  <2>3. FileOf(t) \in Files /\ ready[FileOf(t)]
    BY <2>2, UploadedFile DEF FilesInv, Published
  <2>4. FileOf(t) \in Waiting /\ Waiting' = Waiting
    BY <1>1, <2>1, <2>3 DEF UploadCallOk, Waiting, SourceSteps
  <2>5. delivered' = delivered \cup {<<FileOf(t), MonOf(t), csg[wcopy[t]]>>}
    BY <2>1 DEF UploadCallOk
  <2>6. Promise!Accept(FileOf(t), <<MonOf(t), csg[wcopy[t]]>>)
    BY <2>4, <2>5, PromiseUnfolded
  <2> QED  BY <2>2, <2>3, <2>6, ServedGroup
<1>3. CASE delivered' = delivered
  <2>1. ASSUME NEW f \in Waiting, NEW t \in Threads, UploadDelSrc(t), FileOf(t) = f
        PROVE  Promise!Consume(f)
    <3>1. wpc[t] = "delsrc" /\ wpc[t] \notin UploadIdle /\ disk' = disk \ {Src(f)}
      BY <2>1 DEF UploadDelSrc, UploadIdle, delete_file, FilesWork
    <3>2. Waiting' = Waiting \ {f}
      BY <1>1, <3>1, NamesDiffer DEF Waiting, SourceSteps
    <3>3. <<f, MonOf(t), csg[wcopy[t]]>> \in delivered
      BY <2>1, <3>1 DEF FilesInv, UpOK
    <3>4. \A m \in Monitors : m = MonOf(t) /\ Groups(m) = 1..1
      BY <3>1, ServedGroup, SglFacts DEF OneMonitor, OneReceiver
    <3>5. \A r \in AllGroups : <<f, r[1], r[2]>> \in delivered
      <4>1. MonOf(t) \in Monitors /\ csg[wcopy[t]] = 1
        BY <3>1, <3>4, ServedGroup
      <4>2. ASSUME NEW m \in Monitors, NEW r \in {m} \X Groups(m)
            PROVE  <<f, r[1], r[2]>> \in delivered
        BY <3>3, <3>4, <4>1, <4>2
      <4> QED  BY <4>2 DEF AllGroups
    <3> QED  BY <1>3, <3>2, <3>5, PromiseUnfolded
  <2>2. ASSUME \A t \in Threads : ~(UploadDelSrc(t) /\ FileOf(t) \in Waiting)
        PROVE  UNCHANGED Promise!vars
    <3>1. \A f \in Files : f \in Waiting => f \in Waiting'
      BY <1>1, <2>2 DEF Waiting, SourceSteps
    <3>2. \A f \in Files : f \in Waiting' => f \in Waiting
      BY <1>1 DEF Waiting, SourceSteps
    <3>3. Waiting' = Waiting
      BY <3>1, <3>2 DEF Waiting
    <3> QED  BY <1>3, <3>3, PromiseUnfolded
  <2>3. CASE \E t \in Threads : UploadDelSrc(t) /\ FileOf(t) \in Waiting
    <3>1. PICK f \in Waiting, t \in Threads : UploadDelSrc(t) /\ FileOf(t) = f
      BY <2>3
    <3>2. f \in Files
      BY DEF Waiting
    <3> QED  BY <2>1, <3>1, <3>2
  <2> QED  BY <2>2, <2>3
<1> QED  BY <1>2, <1>3 DEF SourceSteps

(***************************************************************************)
(* The dispatch core implements Delivery: to the producer a source stays   *)
(* until a server of every group accepted it, and nothing else ever        *)
(* happens to it, whatever the threads, crashes and restarts do.           *)
(***************************************************************************)
THEOREM KeepsPromise ==
  ASSUME NamesUsedOnce, OneMonitor, OneReceiver, FilesWork
  PROVE  Spec => ImplementsDelivery
<1>1. Init => Promise!Init
  BY DEF Init, Promise!Init
<1>2. MemoryInv /\ FilesInv /\ [Next]_vars => [Promise!Next]_(Promise!vars)
  <2> SUFFICES ASSUME MemoryInv, FilesInv, [Next]_vars
               PROVE  [Promise!Next]_(Promise!vars)
    OBVIOUS
  <2>1. ASSUME NEW f \in Files, Produce(f) PROVE Promise!Next
    BY <2>1, ProduceKeepsPromise DEF Promise!Next
  <2>2. CASE SourceSteps
    <3>1. ASSUME NEW f \in Files, NEW m \in Monitors, NEW i \in Groups(m), Promise!Accept(f, <<m, i>>)
          PROVE  Promise!Next
      BY <3>1 DEF Promise!Next
    <3>2. ASSUME NEW f \in Files, Promise!Consume(f) PROVE Promise!Next
      BY <3>2 DEF Promise!Next
    <3> QED  BY <2>2, <3>1, <3>2, DaemonKeepsPromise
  <2> QED  BY <2>1, <2>2, DaemonSteps
<1> QED
  BY <1>1, <1>2, MemorySound, FilesSound, PTL DEF Spec, ImplementsDelivery, Promise!Spec

-----------------------------------------------------------------------------
(***************************************************************************)
(* No file is forgotten.  A group knows a file by an event, by the scan it *)
(* still has to make, or by a node that its scheduling thread is not about *)
(* to drop: from "limit" on the node in hand stands for a marker that is   *)
(* already deleted, and a marker of the same name is a new file.           *)
(***************************************************************************)
Waits(f) == phase = "run" /\ mrun /\ ready[f] /\ Src(f) \in disk /\ Mon(f) \in disk
Noted(m, f) == mpc[m] = "start" \/ f \in unscanned[m] \/ InQ(events[m], f)
Stays(n, m, f) ==
  nfile[n] = f /\ nmon[n] = m /\ (spc[m] \in {"limit", "delk"} => n # snode[m])

NothingForgotten ==
  \A m \in Monitors :
    /\ phase = "run" /\ mrun => mpc[m] # "exit"
    /\ \A f \in Files : Waits(f) => Noted(m, f) \/ \E n \in Nodes : Stays(n, m, f)

LEMMA RunningMonitor ==
  ASSUME MemoryInv, NothingForgotten, [Next]_vars, NEW m \in Monitors, phase' = "run", mrun'
  PROVE  mpc'[m] # "exit"
<1>1. /\ mpc \in [Monitors -> {"start", "scan", "run", "exit"}]
      /\ phase = "run" /\ mrun => mpc[m] # "exit"
  BY DEF MemoryInv, TypeOK, NothingForgotten
<1>2. ASSUME UNCHANGED <<mpc, phase, mrun>> PROVE mpc'[m] # "exit"
  BY <1>1, <1>2
<1>3. ASSUME NEW f \in Files, Produce(f) PROVE mpc'[m] # "exit"
  BY <1>2, <1>3 DEF Produce, ProduceData, ProduceMarker, ProduceFile, MoveMarkerIn, monVars, procVars
<1>4. ASSUME NEW k \in Monitors, monitor_handle(k) PROVE mpc'[m] # "exit"
  BY <1>1, <1>4 DEF monitor_handle, MonitorWatch, ScanFile, ScanEnd, MonitorEvent, MonitorExit,
                    monFrame, procVars
<1>5. ASSUME NEW k \in Monitors, sche_handle(k) PROVE mpc'[m] # "exit"
  <2>1. UNCHANGED <<mpc, phase>> /\ (mrun' = mrun \/ mrun' = FALSE)
    BY <1>5 DEF sche_handle, SchePop, ScheCheckSrc, ScheCheckK, ScheCreateFlag, ScheCreateK,
         ScheCheckAll, ScheMoveSrc, ScheDelMon, ScheLimit, ScheDelK, ScheGroup, ScheDispatch,
         SchePush, ScheExit, scheFrame, monVars, signals
  <2> QED  BY <1>1, <2>1
<1>6. ASSUME NEW t \in Threads, upload_handle(t) PROVE mpc'[m] # "exit"
  BY <1>2, <1>6 DEF upload_handle, UploadPop, UploadCheck, UploadCallOk, UploadCallFail,
         UploadDelSrc, do_upload_file_finish_single, UploadReadRc, UploadWriteRc, UploadSleep,
         UploadResetRc, UploadFree, UploadExit, upFrame, monVars, procVars
<1>7. ASSUME NEW s \in Servers, WakeUp(s) PROVE mpc'[m] # "exit"
  BY <1>2, <1>7 DEF WakeUp, upFrame, monVars, procVars
<1>8. CASE Process
  BY <1>8 DEF Process, newiup_pthread_start, signal_func, servers_exit, monitor_group_exit, Crash
<1>9. CASE UNCHANGED vars
  BY <1>2, <1>9 DEF vars, monVars, procVars
<1> QED  BY <1>3, <1>4, <1>5, <1>6, <1>7, <1>8, <1>9 DEF Next

\* A file begins to wait when its marker is moved in or when the daemon starts.
LEMMA WaitsNew ==
  ASSUME MemoryInv, [Next]_vars, NEW f \in Files, Waits(f)'
  PROVE  Waits(f) \/ MoveMarkerIn(f) \/ newiup_pthread_start
<1>1. /\ ready \in [Files -> BOOLEAN]
      /\ phase' = "run" /\ mrun' /\ ready'[f] /\ Src(f) \in disk' /\ Mon(f) \in disk'
  BY DEF MemoryInv, TypeOK, Waits, Src, Mon
<1>2. ASSUME UNCHANGED <<phase, ready>>, mrun' => mrun,
             Src(f) \in disk' => Src(f) \in disk, Mon(f) \in disk' => Mon(f) \in disk
      PROVE  Waits(f)
  BY <1>1, <1>2 DEF Waits
<1>3. ASSUME NEW g \in Files, Produce(g) PROVE Waits(f) \/ MoveMarkerIn(f)
  <2>1. UNCHANGED <<phase, mrun>>
    BY <1>3 DEF Produce, ProduceData, ProduceMarker, ProduceFile, MoveMarkerIn, procVars
  <2>2. CASE ProduceData(g)
    <3>1. f # g
      BY <1>1, <2>2 DEF ProduceData
    <3> QED  BY <1>1, <2>1, <2>2, <3>1, NamesDiffer DEF ProduceData, Waits
  <2>3. CASE MoveMarkerIn(g) /\ f # g
    BY <1>1, <2>1, <2>3, NamesDiffer DEF MoveMarkerIn, Waits
  <2> QED  BY <1>3, <2>2, <2>3 DEF Produce, ProduceMarker, ProduceFile
<1>4. ASSUME NEW m \in Monitors, monitor_handle(m) PROVE Waits(f)
  BY <1>2, <1>4 DEF monitor_handle, MonitorWatch, ScanFile, ScanEnd, MonitorEvent, MonitorExit,
                    monFrame, procVars, histVars
<1>5. ASSUME NEW m \in Monitors, sche_handle(m) PROVE Waits(f)
  <2>1. UNCHANGED <<phase, ready>> /\ (mrun' => mrun)
    BY <1>5 DEF sche_handle, SchePop, ScheCheckSrc, ScheCheckK, ScheCreateFlag, ScheCreateK,
         ScheCheckAll, ScheMoveSrc, ScheDelMon, ScheLimit, ScheDelK, ScheGroup, ScheDispatch,
         SchePush, ScheExit, scheFrame, histVars, signals
  <2>2. CASE ScheCreateFlag(m) \/ ScheCreateK(m)
    <3>1. (Src(f) \in disk' => Src(f) \in disk) /\ (Mon(f) \in disk' => Mon(f) \in disk)
      BY <2>2, NamesDiffer DEF ScheCreateFlag, ScheCreateK, create_file
    <3> QED  BY <1>2, <2>1, <3>1
  <2>3. CASE ~(ScheCreateFlag(m) \/ ScheCreateK(m))
    <3>1. disk' \subseteq disk
      BY <1>5, <2>3 DEF sche_handle, SchePop, ScheCheckSrc, ScheCheckK, ScheCheckAll, ScheMoveSrc,
         ScheDelMon, ScheLimit, ScheDelK, ScheGroup, ScheDispatch, SchePush, ScheExit,
         do_move_to, delete_file
    <3> QED  BY <1>2, <2>1, <3>1
  <2> QED  BY <2>2, <2>3
<1>6. ASSUME NEW t \in Threads, upload_handle(t) PROVE Waits(f)
  <2>1. UNCHANGED <<phase, mrun, ready>>
    BY <1>6 DEF upload_handle, UploadPop, UploadCheck, UploadCallOk, UploadCallFail,
         UploadDelSrc, do_upload_file_finish_single, UploadReadRc, UploadWriteRc, UploadSleep,
         UploadResetRc, UploadFree, UploadExit, upFrame, procVars
  <2>2. disk' \subseteq disk
    BY <1>6 DEF upload_handle, UploadPop, UploadCheck, UploadCallOk, UploadCallFail,
         UploadDelSrc, do_upload_file_finish_single, UploadReadRc, UploadWriteRc, UploadSleep,
         UploadResetRc, UploadFree, UploadExit, delete_file
  <2> QED  BY <1>2, <2>1, <2>2
<1>7. ASSUME NEW s \in Servers, WakeUp(s) PROVE Waits(f)
  BY <1>2, <1>7 DEF WakeUp, upFrame, procVars
<1>8. CASE Process
  BY <1>1, <1>2, <1>8 DEF Process, signal_func, servers_exit, monitor_group_exit, Crash
<1>9. CASE UNCHANGED vars
  BY <1>2, <1>9 DEF vars, procVars, histVars
<1> QED  BY <1>3, <1>4, <1>5, <1>6, <1>7, <1>8, <1>9 DEF Next

\* What a group knows of f.
KnowsOf(m, f) == Noted(m, f) \/ \E n \in Nodes : Stays(n, m, f)

LEMMA KnowsStill ==
  ASSUME NEW m \in Monitors, NEW f \in Files, KnowsOf(m, f),
         UNCHANGED <<nfile, nmon, spc, snode>>, mpc'[m] = mpc[m], unscanned'[m] = unscanned[m],
         InQ(events[m], f) => InQ(events'[m], f)
  PROVE  KnowsOf(m, f)'
BY DEF KnowsOf, Noted, Stays

LEMMA AddKnows ==
  ASSUME MemoryInv, NEW k \in Monitors, NEW g \in Files, AddIfPresent(k, g), FreeNodes # {},
         UNCHANGED <<disk, spc, snode>>
  PROVE  /\ \A m \in Monitors, f \in Files, n \in Nodes : Stays(n, m, f) => Stays(n, m, f)'
         /\ Mon(g) \in disk => \E n \in Nodes : Stays(n, k, g)'
<1>1. /\ nfile \in [Nodes -> Files \cup {NoFile}] /\ nmon \in [Nodes -> Monitors \cup {NoMonitor}]
      /\ \A m \in Monitors : spc[m] \notin ScheIdle => nfile[snode[m]] # NoFile
  BY HeldNode DEF MemoryInv, TypeOK
<1>2. CASE Mon(g) \notin disk
  BY <1>2 DEF AddIfPresent, memVars, Stays
<1>3. CASE Mon(g) \in disk
  <2>1. PICK n \in FreeNodes : /\ nfile' = [nfile EXCEPT ![n] = g]
                               /\ nmon' = [nmon EXCEPT ![n] = k]
    BY <1>3 DEF AddIfPresent, queue_node_add
  <2>2. n \in Nodes /\ nfile[n] = NoFile
    BY DEF FreeNodes
  <2>3. spc[k] \in {"limit", "delk"} => n # snode[k]
    BY <1>1, <2>2 DEF ScheIdle
  <2>4. Stays(n, k, g)'
    BY <1>1, <2>1, <2>2, <2>3 DEF Stays
  <2>5. ASSUME NEW m \in Monitors, NEW f \in Files, NEW x \in Nodes, Stays(x, m, f)
        PROVE  Stays(x, m, f)'
    <3>1. x # n
      BY <2>2, <2>5, NullAssumption DEF Stays
    <3> QED  BY <1>1, <2>1, <2>2, <2>5, <3>1 DEF Stays
  <2> QED  BY <2>2, <2>4, <2>5
<1> QED  BY <1>2, <1>3

LEMMA MonitorKnows ==
  ASSUME MemoryInv, NEW k \in Monitors, monitor_handle(k), FreeNodes # {},
         NEW m \in Monitors, NEW f \in Files, Waits(f), KnowsOf(m, f)
  PROVE  KnowsOf(m, f)'
<1>1. /\ mpc \in [Monitors -> {"start", "scan", "run", "exit"}]
      /\ unscanned \in [Monitors -> SUBSET Files] /\ events \in [Monitors -> Seq(Files)]
      /\ mrun /\ Mon(f) \in disk
  BY DEF MemoryInv, TypeOK, Waits
<1>2. UNCHANGED <<disk, spc, snode>>
  BY DEF monitor_handle, MonitorWatch, ScanFile, ScanEnd, MonitorEvent, MonitorExit, monFrame,
         scheVars
<1>3. CASE MonitorWatch(k)
  <2>1. CASE k = m
    <3>1. f \in unscanned'[m]
      BY <1>1, <1>3, <2>1 DEF MonitorWatch
    <3> QED  BY <3>1 DEF KnowsOf, Noted
  <2>2. CASE k # m
    BY <1>1, <1>2, <1>3, <2>2, KnowsStill DEF MonitorWatch, memVars
  <2> QED  BY <2>1, <2>2
<1>4. ASSUME NEW g \in Files, AddIfPresent(k, g), mpc'[m] = mpc[m],
             f \in unscanned[m] => f \in unscanned'[m] \/ (f = g /\ k = m),
             InQ(events[m], f) => InQ(events'[m], f) \/ (f = g /\ k = m)
      PROVE  KnowsOf(m, f)'
  <2>1. CASE f = g /\ k = m
    BY <1>1, <1>2, <1>4, <2>1, AddKnows DEF KnowsOf
  <2>2. CASE ~(f = g /\ k = m)
    <3>1. CASE Noted(m, f)
      BY <1>4, <2>2, <3>1 DEF KnowsOf, Noted
    <3>2. CASE ~Noted(m, f)
      BY <1>2, <1>4, <3>2, AddKnows DEF KnowsOf
    <3> QED  BY <3>1, <3>2
  <2> QED  BY <2>1, <2>2
<1>5. ASSUME NEW g \in Files, ScanFile(k, g) PROVE KnowsOf(m, f)'
  <2>1. AddIfPresent(k, g) /\ mpc' = mpc /\ events' = events
        /\ (f \in unscanned[m] => f \in unscanned'[m] \/ (f = g /\ k = m))
    BY <1>1, <1>5 DEF ScanFile
  <2> QED  BY <1>4, <2>1
<1>6. CASE ScanEnd(k)
  <2>1. /\ UNCHANGED <<nfile, nmon, events, unscanned>> /\ (m = k => mpc[m] = "scan" /\ unscanned[m] = {})
        /\ (m # k => mpc'[m] = mpc[m])
    BY <1>1, <1>6 DEF ScanEnd, memVars
  <2> QED  BY <1>2, <2>1 DEF KnowsOf, Noted, Stays
<1>7. CASE MonitorEvent(k)
  <2>1. events[k] # <<>> /\ events[k] \in Seq(Files) /\ events' = [events EXCEPT ![k] = Tail(@)]
        /\ AddIfPresent(k, Head(events[k])) /\ mpc' = mpc /\ unscanned' = unscanned
    BY <1>1, <1>7 DEF MonitorEvent
  <2>2. Head(events[k]) \in Files
        /\ \A y : InQ(events[k], y) <=> InQ(Tail(events[k]), y) \/ y = Head(events[k])
    BY <2>1, PopInQ
  <2>3. InQ(events[m], f) => InQ(events'[m], f) \/ (f = Head(events[k]) /\ k = m)
    BY <1>1, <2>1, <2>2
  <2> QED  BY <1>4, <2>1, <2>2, <2>3
<1>8. CASE MonitorExit(k)
  BY <1>1, <1>8 DEF MonitorExit
<1> QED  BY <1>3, <1>5, <1>6, <1>7, <1>8 DEF monitor_handle

LEMMA ScheKnows ==
  ASSUME MemoryInv, FilesWork, NEW k \in Monitors, sche_handle(k),
         NEW m \in Monitors, NEW f \in Files, Waits(f), Mon(f) \in disk', KnowsOf(m, f)
  PROVE  KnowsOf(m, f)'
<1>1. /\ nfile \in [Nodes -> Files \cup {NoFile}] /\ nmon \in [Nodes -> Monitors \cup {NoMonitor}]
      /\ spc \in [Monitors -> ScheIdle \cup ScheFresh \cup ScheLoop \cup {"push"}]
      /\ snode \in [Monitors -> Nodes \cup {NoNode}]
      /\ Src(f) \in disk
  BY DEF MemoryInv, TypeOK, Waits
<1>2. Noted(m, f) => Noted(m, f)'
  BY DEF sche_handle, SchePop, ScheCheckSrc, ScheCheckK, ScheCreateFlag, ScheCreateK,
         ScheCheckAll, ScheMoveSrc, ScheDelMon, ScheLimit, ScheDelK, ScheGroup, ScheDispatch,
         SchePush, ScheExit, scheFrame, monVars, Noted
<1>3. ASSUME NEW n \in Nodes, Stays(n, m, f) PROVE Stays(n, m, f)'
  <2>1. nfile[n] = f /\ nmon[n] = m /\ f # NoFile
    BY <1>3, NullAssumption DEF Stays
  <2>2. ASSUME UNCHANGED <<nfile, nmon>>, spc'[m] \notin {"limit", "delk"} PROVE Stays(n, m, f)'
    BY <2>1, <2>2 DEF Stays
  <2>3. ASSUME UNCHANGED <<nfile, nmon>>, spc'[m] = spc[m], snode'[m] = snode[m]
        PROVE  Stays(n, m, f)'
    BY <1>3, <2>3 DEF Stays
  <2>4. CASE k # m
    <3>1. spc'[m] = spc[m] /\ snode'[m] = snode[m]
      BY <1>1, <2>4 DEF sche_handle, SchePop, ScheCheckSrc, ScheCheckK, ScheCreateFlag,
         ScheCreateK, ScheCheckAll, ScheMoveSrc, ScheDelMon, ScheLimit, ScheDelK, ScheGroup,
         ScheDispatch, NextGroup, SchePush, ScheExit, DropNode, Goto, scheVars
    <3>2. UNCHANGED <<nfile, nmon>> \/ (spc[k] \notin ScheIdle /\ free_original(snode[k]))
      BY DEF sche_handle, SchePop, ScheCheckSrc, ScheCheckK, ScheCreateFlag,
         ScheCreateK, ScheCheckAll, ScheMoveSrc, ScheDelMon, ScheLimit, ScheDelK, ScheGroup,
         ScheDispatch, SchePush, ScheExit, DropNode, copy_and_push, memVars, ScheIdle
    <3>3. CASE spc[k] \notin ScheIdle /\ free_original(snode[k])
      <4>1. n # snode[k]
        BY <2>1, <2>4, <3>3, HeldNode
      <4> QED  BY <1>1, <1>3, <3>1, <3>3, <4>1 DEF Stays, free_original
    <3> QED  BY <2>3, <3>1, <3>2, <3>3
  <2>5. CASE k = m
    <3>1. CASE SchePop(m) \/ ScheCheckK(m) \/ ScheCreateFlag(m) \/ ScheCreateK(m)
               \/ ScheCheckAll(m) \/ ScheMoveSrc(m) \/ ScheGroup(m) \/ SchePush(m) \/ ScheExit(m)
      <4>1. spc'[m] \notin {"limit", "delk"} /\ UNCHANGED <<nfile, nmon>>
        BY <1>1, <3>1 DEF SchePop, ScheCheckK, ScheCreateFlag, ScheCreateK, ScheCheckAll,
          ScheMoveSrc, ScheGroup, NextGroup, SchePush, ScheExit, Goto, memVars, scheVars
      <4> QED  BY <2>2, <4>1
    <3>2. CASE ScheDispatch(m)
      <4>1. spc'[m] \notin {"limit", "delk"} /\ UNCHANGED <<nfile, nmon>>
        BY <1>1, <3>2 DEF ScheDispatch, NextGroup, copy_and_push, Goto, memVars
      <4> QED  BY <2>2, <4>1
    <3>3. CASE ScheCheckSrc(m)
      <4>1. CASE Src(nfile[snode[m]]) \in disk
        BY <1>1, <2>2, <3>3, <4>1 DEF ScheCheckSrc, Goto, memVars
      <4>2. CASE Src(nfile[snode[m]]) \notin disk
        <5>1. n # snode[m]
          BY <1>1, <2>1, <4>2
        <5>2. free_original(snode[m]) /\ spc'[m] = "head"
          BY <1>1, <3>3, <4>2 DEF ScheCheckSrc, DropNode, Goto
        <5> QED  BY <1>1, <2>1, <5>1, <5>2 DEF Stays, free_original
      <4> QED  BY <4>1, <4>2
    <3>4. CASE ScheDelMon(m)
      <4>1. /\ disk' = disk \ {Mon(nfile[snode[m]])} /\ UNCHANGED <<nfile, nmon, snode>>
        BY <3>4 DEF ScheDelMon, delete_file, FilesWork, memVars
      <4>2. n # snode[m]
        BY <2>1, <4>1
      <4> QED  BY <2>1, <4>1, <4>2 DEF Stays
    <3>5. CASE ScheLimit(m)
      BY <1>1, <1>3, <3>5 DEF ScheLimit, Goto, memVars, Stays
    <3>6. CASE ScheDelK(m)
      <4>1. n # snode[m] /\ free_original(snode[m]) /\ spc'[m] = "head"
        BY <1>1, <1>3, <3>6 DEF ScheDelK, DropNode, Goto, Stays
      <4> QED  BY <1>1, <2>1, <4>1 DEF Stays, free_original
    <3> QED  BY <2>5, <3>1, <3>2, <3>3, <3>4, <3>5, <3>6 DEF sche_handle
  <2> QED  BY <2>4, <2>5
<1> QED  BY <1>2, <1>3 DEF KnowsOf

LEMMA ForgetsNothing ==
  ASSUME FilesWork, MemoryInv, NothingForgotten, FreeNodes # {}, [Next]_vars
  PROVE  NothingForgotten'
<1> SUFFICES ASSUME NEW m \in Monitors, NEW f \in Files, Waits(f)'
             PROVE  KnowsOf(m, f)'
  BY RunningMonitor DEF NothingForgotten, KnowsOf
<1>1. /\ phase' = "run" /\ mrun' /\ Mon(f) \in disk'
      /\ mpc \in [Monitors -> {"start", "scan", "run", "exit"}]
      /\ \A k \in Monitors : events[k] \in Seq(Files)
  BY DEF Waits, Mon, MemoryInv, TypeOK
<1>2. CASE newiup_pthread_start
  BY <1>2 DEF newiup_pthread_start, KnowsOf, Noted
<1>3. CASE MoveMarkerIn(f)
  <2>1. /\ UNCHANGED <<mpc, phase, mrun>>
        /\ events' = [k \in Monitors |-> IF k \in Watching THEN Append(events[k], f) ELSE events[k]]
    BY <1>3 DEF MoveMarkerIn, procVars
  <2>2. mpc[m] # "exit"
    BY <1>1, <2>1 DEF NothingForgotten
  <2>3. CASE mpc[m] = "start"
    BY <2>1, <2>3 DEF KnowsOf, Noted
  <2>4. CASE mpc[m] \in {"scan", "run"}
    <3>1. events'[m] = Append(events[m], f)
      BY <1>1, <2>1, <2>4 DEF Watching
    <3>2. InQ(events'[m], f)
      BY <1>1, <3>1, PushInQ
    <3> QED  BY <3>2 DEF KnowsOf, Noted
  <2> QED  BY <1>1, <2>2, <2>3, <2>4
<1>4. CASE Waits(f)
  <2>1. KnowsOf(m, f)
    BY <1>4 DEF NothingForgotten, KnowsOf
  <2>2. ASSUME NEW g \in Files, Produce(g) PROVE KnowsOf(m, f)'
    <3>1. UNCHANGED <<nfile, nmon, spc, snode, mpc, unscanned>>
      BY <2>2 DEF Produce, ProduceData, ProduceMarker, ProduceFile, MoveMarkerIn, memVars,
                  monVars, scheVars
    <3>2. events' = events
          \/ events' = [k \in Monitors |-> IF k \in Watching THEN Append(events[k], g) ELSE events[k]]
      BY <2>2 DEF Produce, ProduceData, ProduceMarker, ProduceFile, MoveMarkerIn, monVars
    <3>3. InQ(events[m], f) => InQ(events'[m], f)
      <4>1. InQ(events[m], f) => InQ(Append(events[m], g), f)
        BY <1>1, PushInQ
      <4>2. events'[m] = events[m] \/ events'[m] = Append(events[m], g)
        BY <3>2
      <4> QED  BY <4>1, <4>2
    <3> QED  BY <2>1, <3>1, <3>3, KnowsStill
  <2>3. ASSUME NEW t \in Threads, upload_handle(t) PROVE KnowsOf(m, f)'
    <3>1. UNCHANGED <<nfile, nmon, spc, snode, mpc, unscanned, events>>
      BY <2>3 DEF upload_handle, UploadPop, UploadCheck, UploadCallOk, UploadCallFail, UploadDelSrc,
         do_upload_file_finish_single, UploadReadRc, UploadWriteRc, UploadSleep, UploadResetRc,
         UploadFree, UploadExit, ReleaseCopy, free_copy, upFrame, memVars, monVars, scheVars
    <3> QED  BY <2>1, <3>1, KnowsStill
  <2>4. ASSUME NEW s \in Servers, WakeUp(s) PROVE KnowsOf(m, f)'
    <3>1. UNCHANGED <<nfile, nmon, spc, snode, mpc, unscanned, events>>
      BY <2>4 DEF WakeUp, upFrame, memVars, monVars, scheVars
    <3> QED  BY <2>1, <3>1, KnowsStill
  <2>5. CASE Process
    BY <1>1, <1>2, <2>5 DEF Process, signal_func, servers_exit, monitor_group_exit, Crash
  <2>6. CASE UNCHANGED vars
    <3>1. UNCHANGED <<nfile, nmon, spc, snode, mpc, unscanned, events>>
      BY <2>6 DEF vars, memVars, monVars, scheVars
    <3> QED  BY <2>1, <3>1, KnowsStill
  <2> QED  BY <1>1, <1>4, <2>1, <2>2, <2>3, <2>4, <2>5, <2>6, MonitorKnows, ScheKnows DEF Next
<1> QED  BY <1>2, <1>3, <1>4, WaitsNew

(***************************************************************************)
(* A running daemon forgets no published file whose source and marker are  *)
(* there, with any number of groups that share the directory and any reuse *)
(* of names, as long as queue_node_new gets its memory and a file that is  *)
(* deleted goes: the scan, the events and the nodes leave no gap.          *)
(***************************************************************************)
THEOREM NoFileForgotten ==
  ASSUME FilesWork
  PROVE  Spec /\ [](FreeNodes # {}) => []NoForgottenFile
<1>1. Init => NothingForgotten
  BY DEF Init, NothingForgotten, Waits
<1>2. MemoryInv /\ NothingForgotten /\ FreeNodes # {} /\ [Next]_vars => NothingForgotten'
  BY ForgetsNothing
<1>3. NothingForgotten => NoForgottenFile
  BY DEF NothingForgotten, NoForgottenFile, Known, Waits, Noted, Stays
<1> QED  BY <1>1, <1>2, <1>3, MemorySound, PTL DEF Spec

-----------------------------------------------------------------------------
(***************************************************************************)
(* max-upload bounds the work of a run (do_upload_file_limit): however     *)
(* many groups finish files at the same time, and whenever SIGINT arrives, *)
(* no more than max_upload_num + 1 files and one more per group are        *)
(* finished before every scheduling thread has seen the signal.            *)
(*                                                                         *)
(* The inductive invariant.  While the signal is set the count is at most  *)
(* max_upload_num + 1; once it is cleared no thread takes another node, so *)
(* each of the threads that are still on their way to the count raises it  *)
(* once.  FinishBound alone is not inductive: it does not know which       *)
(* threads may still raise the count.                                      *)
(***************************************************************************)
OnTheWay == {"src", "k", "all", "move", "delmon", "limit"}
Pending == {m \in Monitors : spc[m] \in OnTheWay}

Counted ==
  max_upload_num > 0 =>
    IF mrun
    THEN upload_count <= max_upload_num + 1
    ELSE upload_count + Cardinality(Pending) <= max_upload_num + 1 + Cardinality(Monitors)

\* The threads on their way are some of finitely many.
LEMMA PendingIsFinite ==
  ASSUME IsFiniteSet(Monitors)
  PROVE  /\ Cardinality(Monitors) \in Nat
         /\ IsFiniteSet(Pending) /\ Cardinality(Pending) \in Nat
         /\ Cardinality(Pending) <= Cardinality(Monitors)
<1>1. Pending \in SUBSET Monitors
  BY DEF Pending
<1>2. IsFiniteSet(Pending) /\ Cardinality(Pending) <= Cardinality(Monitors)
  BY <1>1, FS_Subset
<1> QED  BY <1>2, FS_CardinalityType

LEMMA PendingIsFiniteNext ==
  ASSUME IsFiniteSet(Monitors)
  PROVE  /\ Cardinality(Pending') \in Nat
         /\ Cardinality(Pending') <= Cardinality(Monitors)
<1>1. Pending' \in SUBSET Monitors
  BY DEF Pending
<1>2. IsFiniteSet(Pending') /\ Cardinality(Pending') <= Cardinality(Monitors)
  BY <1>1, FS_Subset
<1> QED  BY <1>2, FS_CardinalityType

\* A step that neither counts nor clears the signal, and after which no
\* further thread is on its way, keeps the bound.
LEMMA QuietCount ==
  ASSUME IsFiniteSet(Monitors), TypeOK, Counted,
         UNCHANGED <<mrun, upload_count>>, mrun \/ Pending' \subseteq Pending
  PROVE  Counted'
<1>1. CASE mrun
  BY <1>1 DEF Counted
<1>2. CASE ~mrun
  <2>1. Cardinality(Pending') <= Cardinality(Pending)
    BY <1>2, PendingIsFinite, FS_Subset
  <2>2. /\ Cardinality(Pending) \in Nat /\ Cardinality(Pending') \in Nat
        /\ Cardinality(Monitors) \in Nat
    BY PendingIsFinite, PendingIsFiniteNext
  <2>3. upload_count \in Nat /\ max_upload_num \in Int
    BY ConfigAssumption DEF TypeOK
  <2> QED  BY <1>2, <2>1, <2>2, <2>3 DEF Counted
<1> QED  BY <1>1, <1>2

\* A scheduling thread that goes elsewhere than on the way to the count.
LEMMA GotoKeepsPending ==
  ASSUME TypeOK, NEW m \in Monitors, NEW pc, Goto(m, pc),
         spc[m] \in OnTheWay \/ pc \notin OnTheWay
  PROVE  Pending' \subseteq Pending
<1>1. \A k \in Monitors : spc'[k] = IF k = m THEN pc ELSE spc[k]
  BY DEF Goto, TypeOK
<1> QED  BY <1>1 DEF Pending

-----------------------------------------------------------------------------
(***************************************************************************)
(* The scheduling thread: only SchePop sets out, with the signal set, and  *)
(* only ScheLimit counts.                                                  *)
(***************************************************************************)
LEMMA LimitStep ==
  ASSUME IsFiniteSet(Monitors), TypeOK, Counted, NEW m \in Monitors, ScheLimit(m)
  PROVE  Counted'
<1>1. SUFFICES ASSUME max_upload_num > 0 PROVE Counted'
  BY DEF Counted
<1>2. Pending' = Pending \ {m} /\ m \in Pending
  <2>1. \A k \in Monitors : spc'[k] = IF k = m THEN "delk" ELSE spc[k]
    BY DEF ScheLimit, Goto, TypeOK
  <2> QED  BY <2>1 DEF ScheLimit, Pending, OnTheWay
<1>3. Cardinality(Pending') = Cardinality(Pending) - 1
  BY <1>2, PendingIsFinite, FS_RemoveElement
<1>4. /\ Cardinality(Pending) \in Nat /\ Cardinality(Pending) <= Cardinality(Monitors)
      /\ Cardinality(Monitors) \in Nat
  BY PendingIsFinite
<1>5. upload_count \in Nat /\ max_upload_num \in Int /\ mrun \in BOOLEAN
  BY ConfigAssumption DEF TypeOK
<1>6. upload_count' = upload_count + 1
  BY <1>1, <1>5 DEF ScheLimit
<1>7. CASE upload_count > max_upload_num
  <2>1. mrun' = FALSE
    BY <1>1, <1>5, <1>7 DEF ScheLimit
  <2>2. CASE mrun
    BY <1>1, <1>3, <1>4, <1>5, <1>6, <2>1, <2>2 DEF Counted
  <2>3. CASE ~mrun
    BY <1>1, <1>3, <1>4, <1>5, <1>6, <2>1, <2>3 DEF Counted
  <2> QED  BY <2>2, <2>3
<1>8. CASE ~(upload_count > max_upload_num)
  <2>1. mrun' = mrun
    BY <1>8 DEF ScheLimit
  <2>2. CASE mrun
    BY <1>1, <1>5, <1>6, <1>8, <2>1, <2>2 DEF Counted
  <2>3. CASE ~mrun
    BY <1>1, <1>3, <1>4, <1>5, <1>6, <2>1, <2>3 DEF Counted
  <2> QED  BY <2>2, <2>3
<1> QED  BY <1>7, <1>8

LEMMA ScheCounted ==
  ASSUME IsFiniteSet(Monitors), TypeOK, Counted, NEW m \in Monitors, sche_handle(m)
  PROVE  Counted'
<1> USE DEF OnTheWay
<1>1. ASSUME ~ScheLimit(m) PROVE UNCHANGED <<mrun, upload_count>>
  BY <1>1 DEF sche_handle, SchePop, ScheCheckSrc, ScheCheckK, ScheCreateFlag, ScheCreateK,
       ScheCheckAll, ScheMoveSrc, ScheDelMon, ScheDelK, ScheGroup, ScheDispatch, SchePush,
       ScheExit, signals
<1>2. CASE SchePop(m)
  BY <1>2, QuietCount DEF SchePop, signals
<1>3. CASE ScheCheckSrc(m)
  <2>1. Goto(m, "k") \/ Goto(m, "head")
    BY <1>3 DEF ScheCheckSrc, DropNode
  <2>2. Pending' \subseteq Pending
    BY <1>3, <2>1, GotoKeepsPending DEF ScheCheckSrc
  <2> QED  BY <1>3, <2>2, QuietCount DEF ScheCheckSrc, signals
<1>4. CASE ScheCheckK(m)
  <2>1. Goto(m, "all") \/ Goto(m, "flag")
    BY <1>4 DEF ScheCheckK
  <2>2. Pending' \subseteq Pending
    BY <1>4, <2>1, GotoKeepsPending DEF ScheCheckK
  <2> QED  BY <1>4, <2>2, QuietCount DEF ScheCheckK, signals
<1>5. CASE ScheCreateFlag(m)
  <2>1. Goto(m, "mk") \/ UNCHANGED spc
    BY <1>5 DEF ScheCreateFlag
  <2>2. Pending' \subseteq Pending
    BY <2>1, GotoKeepsPending DEF Pending
  <2> QED  BY <1>5, <2>2, QuietCount DEF ScheCreateFlag, signals
<1>6. CASE ScheCheckAll(m)
  <2>1. Goto(m, "move") \/ Goto(m, "group")
    BY <1>6 DEF ScheCheckAll
  <2>2. Pending' \subseteq Pending
    BY <1>6, <2>1, GotoKeepsPending DEF ScheCheckAll
  <2> QED  BY <1>6, <2>2, QuietCount DEF ScheCheckAll, signals
<1>7. CASE ScheMoveSrc(m) \/ ScheDelMon(m)
  <2>1. \/ spc[m] = "move" /\ Goto(m, "delmon")
        \/ spc[m] = "delmon" /\ Goto(m, "limit")
    BY <1>7 DEF ScheMoveSrc, ScheDelMon
  <2>2. Pending' \subseteq Pending
    BY <2>1, GotoKeepsPending
  <2> QED  BY <1>7, <2>2, QuietCount DEF ScheMoveSrc, ScheDelMon, signals
<1>8. CASE ScheLimit(m)
  BY <1>8, LimitStep
<1>9. CASE ScheGroup(m) \/ ScheDispatch(m)
  <2>1. Goto(m, "pick") \/ Goto(m, "group") \/ Goto(m, "push")
    BY <1>9 DEF ScheGroup, ScheDispatch, NextGroup
  <2>2. Pending' \subseteq Pending
    BY <2>1, GotoKeepsPending
  <2> QED  BY <1>9, <2>2, QuietCount DEF ScheGroup, ScheDispatch, signals
<1>10. CASE ScheCreateK(m) \/ ScheDelK(m) \/ SchePush(m) \/ ScheExit(m)
  <2>1. Goto(m, "group") \/ Goto(m, "head") \/ Goto(m, "exit")
    BY <1>10 DEF ScheCreateK, ScheDelK, SchePush, ScheExit, DropNode
  <2>2. Pending' \subseteq Pending
    BY <2>1, GotoKeepsPending
  <2> QED
    BY <1>10, <2>2, QuietCount DEF ScheCreateK, ScheDelK, SchePush, ScheExit, signals
<1> QED
  BY <1>2, <1>3, <1>4, <1>5, <1>6, <1>7, <1>8, <1>9, <1>10 DEF sche_handle

-----------------------------------------------------------------------------
(***************************************************************************)
(* The other threads touch neither the count nor a scheduling thread; the  *)
(* process starts with a count of zero, and clears the signal.             *)
(***************************************************************************)
LEMMA OthersCounted ==
  ASSUME IsFiniteSet(Monitors), TypeOK, Counted, UNCHANGED <<spc, mrun, upload_count>>
  PROVE  Counted'
<1>1. Pending' = Pending
  BY DEF Pending
<1> QED  BY <1>1, QuietCount

LEMMA ProduceCounts ==
  ASSUME NEW f \in Files, Produce(f)
  PROVE  UNCHANGED <<spc, mrun, upload_count>>
BY DEF Produce, ProduceData, ProduceMarker, ProduceFile, MoveMarkerIn, scheVars, procVars

LEMMA MonitorCounts ==
  ASSUME NEW m \in Monitors, monitor_handle(m)
  PROVE  UNCHANGED <<spc, mrun, upload_count>>
BY DEF monitor_handle, MonitorWatch, ScanFile, ScanEnd, MonitorEvent, MonitorExit, monFrame,
  scheVars, procVars

LEMMA UploadCounts ==
  ASSUME NEW t \in Threads, upload_handle(t)
  PROVE  UNCHANGED <<spc, mrun, upload_count>>
BY DEF upload_handle, UploadPop, UploadCheck, UploadCallOk, UploadCallFail, UploadDelSrc,
  do_upload_file_finish_single, UploadReadRc, UploadWriteRc, UploadSleep, UploadResetRc,
  UploadFree, UploadExit, upFrame, scheVars, procVars

LEMMA ProcessCounted ==
  ASSUME IsFiniteSet(Monitors), TypeOK, Counted, Process
  PROVE  Counted'
<1>1. max_upload_num \in Int /\ upload_count \in Nat /\ mrun \in BOOLEAN
  BY ConfigAssumption DEF TypeOK
<1>2. Cardinality(Monitors) \in Nat
  BY PendingIsFinite
<1>3. CASE newiup_pthread_start
  BY <1>1, <1>3 DEF newiup_pthread_start, Counted
<1>4. CASE signal_func
  <2>1. Pending' = Pending /\ upload_count' = upload_count /\ mrun' = FALSE
    BY <1>4 DEF signal_func, Pending, scheVars
  <2>2. Cardinality(Pending) \in Nat /\ Cardinality(Pending) <= Cardinality(Monitors)
    BY PendingIsFinite
  <2> QED  BY <1>1, <1>2, <2>1, <2>2 DEF Counted
<1>5. CASE servers_exit \/ monitor_group_exit
  BY <1>5, OthersCounted DEF servers_exit, monitor_group_exit, scheVars
<1>6. CASE Crash
  <2>1. \A m \in Monitors : spc'[m] = "exit"
    BY <1>6 DEF Crash
  <2>2. Pending' = {}
    BY <2>1 DEF Pending, OnTheWay
  <2>3. Cardinality(Pending') = 0
    BY <2>2, FS_EmptySet
  <2>4. upload_count' = upload_count /\ mrun' = FALSE
    BY <1>6 DEF Crash
  <2>5. Cardinality(Pending) \in Nat
    BY PendingIsFinite
  <2> QED  BY <1>1, <1>2, <2>3, <2>4, <2>5 DEF Counted
<1> QED  BY <1>3, <1>4, <1>5, <1>6 DEF Process

LEMMA CountedInductive ==
  ASSUME IsFiniteSet(Monitors), TypeOK, Counted, [Next]_vars
  PROVE  Counted'
<1>1. ASSUME NEW f \in Files, Produce(f) PROVE Counted'
  BY <1>1, ProduceCounts, OthersCounted
<1>2. ASSUME NEW m \in Monitors, monitor_handle(m) PROVE Counted'
  BY <1>2, MonitorCounts, OthersCounted
<1>3. ASSUME NEW m \in Monitors, sche_handle(m) PROVE Counted'
  BY <1>3, ScheCounted
<1>4. ASSUME NEW t \in Threads, upload_handle(t) PROVE Counted'
  BY <1>4, UploadCounts, OthersCounted
<1>5. ASSUME NEW s \in Servers, WakeUp(s) PROVE Counted'
  BY <1>5, OthersCounted DEF WakeUp, upFrame, scheVars, procVars
<1>6. CASE Process
  BY <1>6, ProcessCounted
<1>7. CASE UNCHANGED vars
  BY <1>7, OthersCounted DEF vars, scheVars, procVars
<1> QED  BY <1>1, <1>2, <1>3, <1>4, <1>5, <1>6, <1>7 DEF Next

LEMMA CountedInit ==
  ASSUME IsFiniteSet(Monitors), Init
  PROVE  Counted
<1>1. Pending = {} /\ upload_count = 0 /\ mrun = FALSE
  BY DEF Init, Pending, OnTheWay
<1>2. Cardinality(Pending) = 0
  BY <1>1, FS_EmptySet
<1>3. Cardinality(Monitors) \in Nat /\ max_upload_num \in Int
  BY PendingIsFinite, ConfigAssumption
<1> QED  BY <1>1, <1>2, <1>3 DEF Counted

(***************************************************************************)
(* max-upload bounds every run of the daemon, for any number of groups,    *)
(* servers and threads: the off-by-one of do_upload_file_limit and one     *)
(* file per group that was past its loop test is all that comes on top.    *)
(***************************************************************************)
THEOREM FinishIsBounded ==
  ASSUME IsFiniteSet(Monitors)
  PROVE  Spec => []FinishBound
<1>1. Init => Counted
  BY CountedInit
<1>2. TypeOK /\ Counted /\ [Next]_vars => Counted'
  BY CountedInductive
<1>3. TypeOK /\ Counted => FinishBound
  <2> SUFFICES ASSUME TypeOK, Counted, max_upload_num > 0 PROVE FinishBound
    BY DEF FinishBound
  <2>1. Cardinality(Monitors) \in Nat /\ Cardinality(Pending) \in Nat
    BY PendingIsFinite
  <2>2. upload_count \in Nat /\ max_upload_num \in Int /\ mrun \in BOOLEAN
    BY ConfigAssumption DEF TypeOK
  <2> QED  BY <2>1, <2>2 DEF Counted, FinishBound
<1>4. Spec => []TypeOK
  BY TypeCorrect
<1> QED  BY <1>1, <1>2, <1>3, <1>4, PTL DEF Spec

=============================================================================
