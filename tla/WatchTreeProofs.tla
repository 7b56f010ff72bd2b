---------------------------- MODULE WatchTreeProofs ----------------------------
(***************************************************************************)
(* Proofs about the directory watches: whatever other processes do to the  *)
(* tree, the state keeps its types, and once the events are handled every  *)
(* directory is watched under its path and every marker file was queued.   *)
(***************************************************************************)
EXTENDS WatchTree, SequenceTheorems, FiniteSetTheorems, WellFoundedInduction, TLAPS

-----------------------------------------------------------------------------
(***************************************************************************)
(* The inductive invariant.                                                *)
(***************************************************************************)
\* A tree: one directory at a path, and one at every prefix of it.
IsTree(a) ==
  /\ a[Root] = <<>>
  /\ \A d, e \in Dirs : a[d] # NoPath /\ a[d] = a[e] => d = e
  /\ \A d \in Dirs : a[d] # NoPath =>
       \A k \in 0..Len(a[d]) : \E x \in Dirs : a[x] = SubSeq(a[d], 1, k)

TreeOK == IsTree(at) /\ \A f \in files : Exists(f[1])

\* Descriptors are handed out once, and a watched inode has a node.
WdOK ==
  /\ \A d \in Dirs : watch[d] # 0 =>
       Exists(d) /\ watch[d] < nextwd /\ \E i \in 1..Len(wd_list) : wd_list[i].wd = watch[d]
  /\ \A d, e \in Dirs : watch[d] # 0 /\ watch[d] = watch[e] => d = e
  /\ \A i \in 1..Len(wd_list) : wd_list[i].wd < nextwd
  /\ \A k \in 1..Len(events) : events[k].wd < nextwd

\* Below a call of add_monitor_dir waits one of add_upload_file for the same tree.
WaitsFor(f, g) == f.fn = "add_upload_file" /\ f.pc = "enter" /\ IsPrefix(f.path, g.path)
Waits(s) ==
  \A i \in 1..Len(s) : s[i].fn = "add_monitor_dir" => \E j \in (i + 1)..Len(s) : WaitsFor(s[j], s[i])

StackOK ==
  /\ \A i \in 1..Len(stack) : stack[i].pc # "read" => stack[i].seen = {}
  /\ Waits(stack)
  /\ ~started => stack = <<>> /\ events = <<>> /\ \A d \in Dirs : watch[d] = 0

ShapeInv == TypeOK /\ TreeOK /\ WdOK /\ StackOK

\* What Settled asks of the others.
Undisturbed == renamed = 0 /\ ~early /\ ~exited

Pending == {events[k] : k \in 1..Len(events)}
Listed == {wd_list[i] : i \in 1..Len(wd_list)}
Calls == {stack[i] : i \in 1..Len(stack)}

\* Descriptors resolve to the paths of their inodes, and what an event says is gone is gone.
PathsOK ==
  /\ \A d \in Dirs, n \in Listed : watch[d] # 0 /\ n.wd = watch[d] => n.path = at[d]
  /\ \A e \in Pending, n \in Listed :
       e.what = "del" /\ n.wd = e.wd => DirAt(Append(n.path, e.name)) = {}

\* The directory d is in.
In(d) == IF d = Root THEN {} ELSE DirAt(Front(at[d]))

\* The kernel has told that d is new, and the event will be understood.
Announced(d) ==
  \E p \in In(d) :
    watch[p] # 0 /\ [wd |-> watch[p], what |-> "add", name |-> Last(at[d]), isdir |-> TRUE] \in Pending

\* Call s, in directory d, will still come to the entry with that name.
WillRead(s, d, name) ==
  /\ s.path = at[d]
  /\ s.pc = "open" \/ (s.pc = "read" /\ s.ino = d /\ name \in s.must \ s.seen)

\* Call s will add the watch of directory d.
Enters(s, d) ==
  /\ s.fn = "add_monitor_dir"
  /\ \/ s.path = at[d] /\ s.pc = "enter"
     \/ \E p \in In(d) : WillRead(s, p, Last(at[d]))

\* Every directory is watched, or its watch is still to come, or its parent has none.
DirCovered(d) ==
  \/ watch[d] # 0
  \/ ~started
  \/ Announced(d)
  \/ \E s \in Calls : Enters(s, d)
  \/ \E p \in In(d) : watch[p] = 0

DirsOK == \A d \in Dirs : Exists(d) => DirCovered(d)

\* Directory y is on the way to file f, and the entry of y that leads to f.
OnTheWay(y, f) == Exists(y) /\ IsPrefix(at[y], at[f[1]])
Towards(y, f) == IF y = f[1] THEN f[2] ELSE at[f[1]][Len(at[y]) + 1]

\* Call s will look for the files of directory y, or go on to f.
Scans(s, y, f) ==
  /\ s.fn = "add_upload_file"
  /\ (s.path = at[y] /\ s.pc = "enter") \/ WillRead(s, y, Towards(y, f))

\* A scan of directory y is still to come.
WillScan(y, f) == watch[y] = 0 \/ Announced(y) \/ \E s \in Calls : Scans(s, y, f)

Told(f) ==
  watch[f[1]] # 0 /\ [wd |-> watch[f[1]], what |-> "add", name |-> f[2], isdir |-> FALSE] \in Pending

FileCovered(f) == f \in queued \/ Told(f) \/ \E y \in Dirs : OnTheWay(y, f) /\ WillScan(y, f)

FilesOK == \A f \in files : FileCovered(f)

WatchInv == ShapeInv /\ (Undisturbed => PathsOK /\ DirsOK /\ FilesOK)

-----------------------------------------------------------------------------
(***************************************************************************)
(* Paths.                                                                  *)
(***************************************************************************)
LEMMA PathsAre == \A p : p \in Paths <=> p \in Seq(DirNames) /\ Len(p) <= MaxDepth
<1>1. ASSUME NEW p \in Paths
      PROVE  p \in Seq(DirNames) /\ Len(p) <= MaxDepth
  <2>1. PICK m \in 0..MaxDepth : p \in [1..m -> DirNames]
    BY <1>1 DEF Paths, SeqOf
  <2>2. p \in Seq(DirNames)
    BY <2>1, TreeAssumption
  <2>3. Len(p) = m
    BY <2>1, <2>2, LenProperties, TreeAssumption
  <2> QED
    BY <2>1, <2>2, <2>3, TreeAssumption
<1>2. ASSUME NEW p \in Seq(DirNames), Len(p) <= MaxDepth
      PROVE  p \in Paths
  <2>1. p \in [1..Len(p) -> DirNames] /\ Len(p) \in 0..MaxDepth
    BY <1>2, LenProperties, TreeAssumption
  <2> QED
    BY <2>1 DEF Paths, SeqOf
<1> QED
  BY <1>1, <1>2

LEMMA FrontAndLast ==
  ASSUME NEW V, NEW p \in Seq(V), p # <<>>
  PROVE  /\ Front(p) \in Seq(V) /\ Last(p) \in V /\ Len(Front(p)) = Len(p) - 1
         /\ p = Append(Front(p), Last(p)) /\ Front(p) = SubSeq(p, 1, Len(p) - 1)
         /\ Len(p) \in Nat \ {0}
<1>1. Len(p) \in Nat \ {0} /\ \A i \in 1..Len(p) : p[i] \in V
  BY EmptySeq, ElementOfSeq
<1>2. Front(p) = SubSeq(p, 1, Len(p) - 1)
  BY DEF Front
<1>3. /\ Front(p) \in Seq(V) /\ Len(Front(p)) = Len(p) - 1
      /\ \A i \in 1..(Len(p) - 1) : Front(p)[i] = p[i]
  <2> DEFINE n == Len(p) - 1
  <2>1. n \in Nat /\ n \in Int /\ \A i \in 1..n : p[i] \in V
    BY <1>1
  <2> HIDE DEF n
  <2>2. /\ SubSeq(p, 1, n) \in Seq(V) /\ Len(SubSeq(p, 1, n)) = n
        /\ \A i \in 1..n : SubSeq(p, 1, n)[i] = p[i]
    BY <2>1, SubSeqProperties
  <2> QED
    BY <1>2, <2>2 DEF n
<1>4. Last(p) \in V /\ Last(p) = p[Len(p)]
  BY <1>1 DEF Last
<1>5. p = Append(Front(p), Last(p))
  <2>1. /\ Append(Front(p), Last(p)) \in Seq(V)
        /\ Len(Append(Front(p), Last(p))) = Len(p)
        /\ \A i \in 1..Len(p) : Append(Front(p), Last(p))[i] = p[i]
    BY <1>1, <1>3, <1>4
  <2> QED
    BY <2>1, SeqEqual
<1> QED
  BY <1>1, <1>2, <1>3, <1>4, <1>5

LEMMA AppendParts ==
  ASSUME NEW V, NEW p \in Seq(V), NEW a \in V
  PROVE  /\ Append(p, a) \in Seq(V) /\ Append(p, a) # <<>> /\ Len(Append(p, a)) = Len(p) + 1
         /\ Front(Append(p, a)) = p /\ Last(Append(p, a)) = a
         /\ \A k \in 0..Len(p) : SubSeq(Append(p, a), 1, k) = SubSeq(p, 1, k)
         /\ SubSeq(Append(p, a), 1, Len(p) + 1) = Append(p, a)
         /\ SubSeq(p, 1, Len(p)) = p
BY DEF Front, Last

LEMMA SubSeqTyped ==
  ASSUME NEW V, NEW p \in Seq(V), NEW k \in 0..Len(p)
  PROVE  /\ SubSeq(p, 1, k) \in Seq(V) /\ Len(SubSeq(p, 1, k)) = k
         /\ \A i \in 1..k : SubSeq(p, 1, k)[i] = p[i]
         /\ \A i \in 0..k : SubSeq(SubSeq(p, 1, k), 1, i) = SubSeq(p, 1, i)
OBVIOUS

\* A prefix is what SubSeq yields.
LEMMA PrefixIs ==
  ASSUME NEW V, NEW p \in Seq(V), NEW q \in Seq(V)
  PROVE  /\ IsPrefix(p, q) <=> Len(p) <= Len(q) /\ SubSeq(q, 1, Len(p)) = p
         /\ IsPrefix(p, q) <=> Len(p) <= Len(q) /\ \A i \in 1..Len(p) : p[i] = q[i]
BY DEF IsPrefix

LEMMA PrefixTransitive ==
  ASSUME NEW V, NEW p \in Seq(V), NEW q \in Seq(V), NEW r \in Seq(V), IsPrefix(p, q), IsPrefix(q, r)
  PROVE  IsPrefix(p, r)
BY PrefixIs

\* The next step from a prefix towards the whole.
LEMMA NextStep ==
  ASSUME NEW V, NEW p \in Seq(V), NEW q \in Seq(V), IsPrefix(p, q), p # q
  PROVE  /\ Len(p) + 1 \in 1..Len(q)
         /\ SubSeq(q, 1, Len(p) + 1) # <<>>
         /\ Front(SubSeq(q, 1, Len(p) + 1)) = p
         /\ Last(SubSeq(q, 1, Len(p) + 1)) = q[Len(p) + 1]
<1>1. Len(p) < Len(q)
  BY PrefixIs
<1> QED
  BY <1>1, PrefixIs DEF Front, Last

-----------------------------------------------------------------------------
(***************************************************************************)
(* The tree.                                                               *)
(***************************************************************************)
LEMMA PathFacts ==
  /\ <<>> \in Paths /\ NoPath \notin Paths /\ NoPath \notin Seq(DirNames)
  /\ \A p \in Paths : p \in Seq(DirNames) /\ Len(p) \in 0..MaxDepth
  /\ \A p \in Paths, k \in Nat : k <= Len(p) => SubSeq(p, 1, k) \in Paths
<1>1. <<>> \in Paths
  <2> SUFFICES ASSUME NEW p, p = <<>> PROVE p \in Paths
    OBVIOUS
  <2>1. p \in Seq(DirNames) /\ Len(p) = 0
    OBVIOUS
  <2>2. Len(p) <= MaxDepth
    BY <2>1, TreeAssumption
  <2> QED
    BY <2>1, <2>2, PathsAre
<1>2. \A p \in Paths : p \in Seq(DirNames) /\ Len(p) \in 0..MaxDepth
  BY PathsAre, LenProperties, TreeAssumption
<1>3. ASSUME NEW p \in Paths, NEW k \in Nat, k <= Len(p)
      PROVE  SubSeq(p, 1, k) \in Paths
  <2>1. SubSeq(p, 1, k) \in Seq(DirNames) /\ Len(SubSeq(p, 1, k)) = k /\ k <= MaxDepth
    BY <1>2, <1>3, SubSeqTyped, TreeAssumption
  <2> QED
    BY <2>1, PathsAre
<1> QED
  <2>1. \A p \in Seq(DirNames) : p \in Seq(DirNames \cup FileNames)
    OBVIOUS
  <2> QED
    BY <1>1, <1>2, <1>3, <2>1, NoPathAssumption

LEMMA AtTyped ==
  ASSUME TypeOK, NEW d \in Dirs
  PROVE  /\ Exists(d) <=> at[d] \in Paths
         /\ Exists(d) => at[d] \in Seq(DirNames) /\ Len(at[d]) \in 0..MaxDepth
<1>1. at[d] \in Paths \cup {NoPath} /\ NoPath \notin Paths
  BY PathFacts DEF TypeOK
<1>2. Exists(d) <=> at[d] \in Paths
  BY <1>1 DEF Exists
<1>3. at[d] \in Paths => at[d] \in Seq(DirNames) /\ Len(at[d]) \in 0..MaxDepth
  BY PathsAre, LenProperties, TreeAssumption
<1> QED
  BY <1>2, <1>3

\* The directory a directory is in.
LEMMA ParentIs ==
  ASSUME TypeOK, TreeOK, NEW d \in Dirs, Exists(d), d # Root
  PROVE  /\ at[d] # <<>> /\ Last(at[d]) \in DirNames /\ Front(at[d]) \in Seq(DirNames)
         /\ at[d] = Append(Front(at[d]), Last(at[d]))
         /\ DirAt(Front(at[d])) # {}
         /\ \A p \in DirAt(Front(at[d])) : Exists(p) /\ at[p] = Front(at[d]) /\ p # d
<1>1. at[d] \in Seq(DirNames)
  BY AtTyped
<1>2. at[d] # <<>>
  BY TreeAssumption DEF TreeOK, IsTree, Exists, DirAt
<1>3. /\ Last(at[d]) \in DirNames /\ Front(at[d]) \in Seq(DirNames)
      /\ at[d] = Append(Front(at[d]), Last(at[d]))
      /\ Front(at[d]) = SubSeq(at[d], 1, Len(at[d]) - 1) /\ Len(at[d]) \in Nat \ {0}
      /\ Len(Front(at[d])) = Len(at[d]) - 1
  BY <1>1, <1>2, FrontAndLast
<1>4. DirAt(Front(at[d])) # {}
  <2>1. Len(at[d]) - 1 \in 0..Len(at[d])
    BY <1>3
  <2> QED
    BY <1>3, <2>1 DEF TreeOK, IsTree, Exists, DirAt
<1>5. \A p \in DirAt(Front(at[d])) : Exists(p) /\ at[p] = Front(at[d]) /\ p # d
  <2> SUFFICES ASSUME NEW p \in DirAt(Front(at[d])) PROVE Exists(p) /\ at[p] = Front(at[d]) /\ p # d
    OBVIOUS
  <2>1. p \in Dirs /\ at[p] = Front(at[d])
    BY DEF DirAt
  <2>2. Len(Front(at[d])) <= MaxDepth
    BY <1>1, <1>3, AtTyped, TreeAssumption
  <2>3. at[p] \in Paths
    BY <2>1, <2>2, <1>3, PathsAre
  <2>4. p # d
    BY <1>3, <2>1
  <2> QED
    BY <2>1, <2>3, <2>4, AtTyped
<1> QED
  BY <1>2, <1>3, <1>4, <1>5

\* What is in a directory that exists.
LEMMA EntriesAre ==
  ASSUME TypeOK, TreeOK, NEW d \in Dirs
  PROVE  /\ Entries(d) \subseteq DirNames \cup FileNames
         /\ \A f \in files : f[1] = d => f[2] \in Entries(d)
         /\ Exists(d) => \A e \in Dirs : Exists(e) /\ e # Root /\ Front(at[e]) = at[d] =>
                           Last(at[e]) \in Entries(d)
<1>1. \A f \in files : f[1] \in Dirs /\ f[2] \in FileNames
  BY DEF TypeOK
<1>2. \A e \in Dirs : Exists(e) /\ at[e] # <<>> => Last(at[e]) \in DirNames
  BY AtTyped, FrontAndLast
<1>3. \A e \in Dirs : Exists(e) /\ e # Root => at[e] # <<>>
  BY TreeAssumption DEF TreeOK, IsTree, Exists, DirAt
<1>4. Entries(d) \subseteq DirNames \cup FileNames
  BY <1>1, <1>2 DEF Entries
<1>5. \A f \in files : f[1] = d => f[2] \in Entries(d)
  BY DEF Entries
<1>6. ASSUME Exists(d), NEW e \in Dirs, Exists(e), e # Root, Front(at[e]) = at[d]
      PROVE  Last(at[e]) \in Entries(d)
  BY <1>3, <1>6 DEF Entries
<1> QED
  BY <1>4, <1>5, <1>6

LEMMA EventTyped ==
  ASSUME TypeOK, NEW d \in Dirs, NEW what \in {"add", "del"}, NEW name, NEW isdir \in BOOLEAN,
         isdir => name \in DirNames, ~isdir => name \in FileNames /\ what = "add"
  PROVE  /\ Event(d, what, name, isdir) \in Seq(Events)
         /\ watch[d] = 0 => Event(d, what, name, isdir) = <<>>
         /\ watch[d] # 0 => Event(d, what, name, isdir) =
              <<[wd |-> watch[d], what |-> what, name |-> name, isdir |-> isdir]>>
<1>1. watch[d] \in 0..MaxWd
  BY DEF TypeOK
<1>2. ASSUME watch[d] # 0
      PROVE  [wd |-> watch[d], what |-> what, name |-> name, isdir |-> isdir] \in Events
  <2>1. watch[d] \in 1..MaxWd
    BY <1>1, <1>2, TreeAssumption
  <2>2. CASE isdir = TRUE
    BY <2>1, <2>2 DEF Events
  <2>3. CASE isdir = FALSE
    BY <2>1, <2>3 DEF Events
  <2> QED
    BY <2>2, <2>3
<1> QED
  BY <1>2 DEF Event

\* Every prefix of the path of a directory is that of one.
LEMMA PrefixExists ==
  ASSUME TypeOK, TreeOK, NEW d \in Dirs, Exists(d), NEW p \in Seq(DirNames), IsPrefix(p, at[d])
  PROVE  \E x \in Dirs : Exists(x) /\ at[x] = p
<1>1. at[d] \in Seq(DirNames) /\ Len(at[d]) \in 0..MaxDepth
  BY AtTyped
<1>2. Len(p) \in 0..Len(at[d]) /\ SubSeq(at[d], 1, Len(p)) = p
  BY <1>1, PrefixIs, LenProperties
<1>3. PICK x \in Dirs : at[x] = p
  BY <1>2 DEF TreeOK, IsTree, Exists, DirAt
<1>4. p \in Paths
  BY <1>1, <1>2, PathsAre, TreeAssumption
<1> QED
  BY <1>3, <1>4, AtTyped
-----------------------------------------------------------------------------
(***************************************************************************)
(* What the others do keeps the shape of the state.                        *)
(***************************************************************************)
\* Events are added to the queue.
LEMMA EventsAdded ==
  ASSUME TypeOK, NEW s \in Seq(Events), events' = events \o s
  PROVE  /\ events' \in Seq(Events) /\ Len(events') = Len(events) + Len(s)
         /\ \A k \in 1..Len(events) : k \in 1..Len(events') /\ events'[k] = events[k]
         /\ \A k \in 1..Len(events') : k > Len(events) =>
              k - Len(events) \in 1..Len(s) /\ events'[k] = s[k - Len(events)]
BY DEF TypeOK

\* A directory is added below one that is there.
LEMMA TreeGrows ==
  ASSUME NEW a \in [Dirs -> Paths \cup {NoPath}], IsTree(a), NEW d \in Dirs, a[d] # NoPath, NEW e \in Dirs,
         a[e] = NoPath, NEW name \in DirNames, Append(a[d], name) \in Paths,
         \A x \in Dirs : a[x] # Append(a[d], name)
  PROVE  IsTree([a EXCEPT ![e] = Append(a[d], name)])
<1> DEFINE new == Append(a[d], name)
           b == [a EXCEPT ![e] = new]
<1>1. b[e] = new /\ \A x \in Dirs : x # e => b[x] = a[x]
  OBVIOUS
<1>2. a[d] \in Paths /\ a[d] \in Seq(DirNames) /\ Len(a[d]) \in Nat
  BY PathFacts
<1>3. b[Root] = <<>> /\ e # Root
  BY <1>1, PathFacts, TreeAssumption DEF IsTree
<1>4. \A x, y \in Dirs : b[x] # NoPath /\ b[x] = b[y] => x = y
  BY <1>1, PathFacts DEF IsTree
<1>5. ASSUME NEW x \in Dirs, b[x] # NoPath, NEW k \in 0..Len(b[x])
      PROVE  \E y \in Dirs : b[y] = SubSeq(b[x], 1, k)
  <2>1. \A p \in Paths : (\E y \in Dirs : a[y] = p) => \E y \in Dirs : b[y] = p
    BY <1>1, PathFacts
  <2>2. CASE x # e
    <3>1. b[x] = a[x] /\ a[x] # NoPath /\ a[x] \in Paths /\ k \in Nat /\ k <= Len(a[x])
      BY <1>1, <1>5, <2>2, PathFacts
    <3>2. SubSeq(a[x], 1, k) \in Paths /\ \E y \in Dirs : a[y] = SubSeq(a[x], 1, k)
      BY <3>1, <1>5, PathFacts DEF IsTree
    <3> QED
      BY <2>1, <3>1, <3>2
  <2>3. CASE x = e /\ k \in 0..Len(a[d])
    <3>1. SubSeq(b[x], 1, k) = SubSeq(a[d], 1, k)
      BY <1>1, <1>2, <2>3, AppendParts
    <3>2. SubSeq(a[d], 1, k) \in Paths /\ \E y \in Dirs : a[y] = SubSeq(a[d], 1, k)
      BY <1>2, <2>3, PathFacts DEF IsTree
    <3> QED
      BY <2>1, <3>1, <3>2
  <2>4. CASE x = e /\ k \notin 0..Len(a[d])
    <3>1. k = Len(a[d]) + 1
      BY <1>1, <1>2, <1>5, <2>4, AppendParts
    <3>2. SubSeq(b[x], 1, k) = b[e]
      BY <1>1, <1>2, <2>4, <3>1, AppendParts
    <3> QED
      BY <3>2
  <2> QED
    BY <2>2, <2>3, <2>4
<1> QED
  BY <1>3, <1>4, <1>5 DEF IsTree

LEMMA MkdirShape ==
  ASSUME ShapeInv, NEW d \in Dirs, NEW e \in Dirs, NEW name \in NewNames, Mkdir(d, e, name)
  PROVE  /\ TypeOK' /\ TreeOK'
         /\ ~Exists(e) /\ e # d /\ at[d] \in Seq(DirNames) /\ name \in DirNames
         /\ at'[e] = Append(at[d], name) /\ \A x \in Dirs : x # e => at'[x] = at[x]
         /\ \A x \in Dirs : at[x] # at'[e]
<1> USE DEF ShapeInv
<1>1. e \in Unused /\ ~Exists(e) /\ Exists(d) /\ name \in DirNames
  BY TreeAssumption DEF Mkdir, Unused
<1>2. at[d] \in Seq(DirNames) /\ Len(at[d]) \in Nat /\ Len(at[d]) < MaxDepth
  BY <1>1, AtTyped DEF Mkdir
<1> DEFINE new == Append(at[d], name)
<1>3. new \in Paths
  <2>1. new \in Seq(DirNames) /\ Len(new) = Len(at[d]) + 1
    BY <1>1, <1>2, AppendParts
  <2> HIDE DEF new
  <2>2. Len(new) <= MaxDepth
    BY <1>2, <2>1, TreeAssumption
  <2> QED
    BY <2>1, <2>2, PathsAre
<1>4. at' = [at EXCEPT ![e] = new] /\ at'[e] = new /\ (\A x \in Dirs : x # e => at'[x] = at[x])
  BY DEF Mkdir, TypeOK
<1>5. \A x \in Dirs : at[x] # new
  BY DEF Mkdir, DirAt
<1>6. e # d
  BY <1>1
<1>7. TypeOK'
  <2>1. at' \in [Dirs -> Paths \cup {NoPath}]
    BY <1>3 DEF Mkdir, TypeOK
  <2>2. Event(d, "add", name, TRUE) \in Seq(Events)
    BY <1>1, EventTyped
  <2>3. events' \in Seq(Events)
    BY <2>2, EventsAdded DEF Mkdir
  <2>4. early' \in BOOLEAN
    BY DEF Mkdir, TypeOK
  <2> QED
    BY <2>1, <2>3, <2>4 DEF TypeOK, Mkdir, monVars
<1>8. IsTree(at')
  BY <1>1, <1>3, <1>4, <1>5, TreeGrows DEF TypeOK, TreeOK, Exists
<1>9. TreeOK'
  <2>1. \A f \in files : f[1] \in Dirs
    BY DEF TypeOK
  <2>2. \A x \in Dirs : Exists(x) => at'[x] # NoPath
    BY <1>3, <1>4, PathFacts DEF Exists
  <2>3. files' = files
    BY DEF Mkdir
  <2> QED
    BY <1>8, <2>1, <2>2, <2>3 DEF TreeOK, Exists
<1> QED
  BY <1>1, <1>2, <1>4, <1>5, <1>6, <1>7, <1>9

\* A directory with nothing in it is taken out.
LEMMA TreeShrinks ==
  ASSUME NEW a \in [Dirs -> Paths \cup {NoPath}], IsTree(a), NEW e \in Dirs, a[e] # NoPath, e # Root,
         \A x \in Dirs : a[x] # NoPath /\ a[x] # <<>> => Front(a[x]) # a[e]
  PROVE  IsTree([a EXCEPT ![e] = NoPath])
<1> DEFINE b == [a EXCEPT ![e] = NoPath]
<1>1. b[e] = NoPath /\ \A x \in Dirs : x # e => b[x] = a[x]
  OBVIOUS
<1>2. b[Root] = <<>>
  BY <1>1, TreeAssumption DEF IsTree
<1>3. \A x, y \in Dirs : b[x] # NoPath /\ b[x] = b[y] => x = y
  BY <1>1 DEF IsTree
<1>4. ASSUME NEW x \in Dirs, b[x] # NoPath, NEW k \in 0..Len(b[x])
      PROVE  \E y \in Dirs : b[y] = SubSeq(b[x], 1, k)
  <2>1. x # e /\ b[x] = a[x] /\ a[x] # NoPath /\ a[x] \in Seq(DirNames) /\ Len(a[x]) \in Nat
    BY <1>1, <1>4, PathFacts
  <2>2. PICK y \in Dirs : a[y] = SubSeq(a[x], 1, k)
    BY <1>4, <2>1 DEF IsTree
  <2>3. y # e
    <3> SUFFICES ASSUME a[e] = SubSeq(a[x], 1, k) PROVE FALSE
      BY <2>2
    <3>1. k # Len(a[x])
      BY <2>1, AppendParts, SubSeqFull DEF IsTree
    <3>2. k + 1 \in 0..Len(a[x])
      BY <3>1, <2>1, <1>4
    <3>3. PICK z \in Dirs : a[z] = SubSeq(a[x], 1, k + 1)
      BY <3>2, <2>1 DEF IsTree
    <3>4. a[z] \in Seq(DirNames) /\ Len(a[z]) = k + 1 /\ SubSeq(a[z], 1, k) = SubSeq(a[x], 1, k)
      <4>1. k \in 0..(k + 1)
        BY <1>4
      <4> QED
        BY <3>2, <3>3, <2>1, <4>1, SubSeqTyped
    <3>5. a[z] # NoPath
      <4>1. SubSeq(a[x], 1, k + 1) \in Paths
        BY <3>2, <2>1, PathFacts
      <4> QED
        BY <3>3, <4>1, PathFacts
    <3>6. a[z] # <<>> /\ Front(a[z]) = SubSeq(a[z], 1, k)
      BY <3>4, <1>4 DEF Front
    <3> QED
      BY <3>4, <3>5, <3>6
  <2>4. SubSeq(a[x], 1, k) \in Paths
    BY <2>1, <1>4, PathFacts
  <2> QED
    BY <1>1, <2>1, <2>2, <2>3
<1> QED
  BY <1>2, <1>3, <1>4 DEF IsTree

LEMMA RmdirShape ==
  ASSUME ShapeInv, NEW e \in Dirs, Rmdir(e)
  PROVE  /\ TypeOK' /\ TreeOK'
         /\ Exists(e) /\ e # Root
         /\ at'[e] = NoPath /\ \A x \in Dirs : x # e => at'[x] = at[x] /\ watch'[x] = watch[x]
         /\ watch'[e] = 0
         /\ \A f \in files : f[1] # e
         /\ \A x \in Dirs : Exists(x) /\ x # Root => Front(at[x]) # at[e]
         /\ \E p \in Dirs : /\ Exists(p) /\ p # e /\ at[p] = Front(at[e])
                            /\ events' = events \o Event(p, "del", Last(at[e]), TRUE)
<1> USE DEF ShapeInv
<1>1. Exists(e) /\ e # Root /\ Entries(e) = {}
  BY DEF Rmdir
<1>2. at' = [at EXCEPT ![e] = NoPath] /\ watch' = [watch EXCEPT ![e] = 0]
  BY DEF Rmdir
<1>3. at'[e] = NoPath /\ watch'[e] = 0 /\ \A x \in Dirs : x # e => at'[x] = at[x] /\ watch'[x] = watch[x]
  BY <1>2 DEF TypeOK
<1>4. \A f \in files : f[1] # e
  BY <1>1, EntriesAre
<1>5. \A x \in Dirs : Exists(x) /\ x # Root => Front(at[x]) # at[e]
  BY <1>1, EntriesAre
<1>6. PICK p \in DirAt(Front(at[e])) : events' = events \o Event(p, "del", Last(at[e]), TRUE)
  BY <1>1, ParentIs DEF Rmdir
<1>7. p \in Dirs /\ Exists(p) /\ p # e /\ at[p] = Front(at[e]) /\ Last(at[e]) \in DirNames
  BY <1>1, ParentIs DEF DirAt
<1>8. TypeOK'
  <2>1. at' \in [Dirs -> Paths \cup {NoPath}]
    BY <1>2 DEF TypeOK
  <2>2. watch' \in [Dirs -> 0..MaxWd]
    BY <1>2, TreeAssumption DEF TypeOK
  <2>3. Event(p, "del", Last(at[e]), TRUE) \in Seq(Events)
    BY <1>7, EventTyped
  <2>4. events' \in Seq(Events)
    BY <1>6, <2>3, EventsAdded
  <2>5. removed' \in Nat /\ renamed' = renamed /\ renamed' + removed' <= MaxChanges
    BY TreeAssumption DEF Rmdir, TypeOK
  <2> QED
    BY <2>1, <2>2, <2>4, <2>5 DEF TypeOK, Rmdir, monVars
<1>9. TreeOK'
  <2>1. \A x \in Dirs : at[x] # NoPath /\ at[x] # <<>> => x # Root
    BY DEF TreeOK, IsTree
  <2>2. IsTree(at')
    BY <1>1, <1>2, <1>5, <2>1, TreeShrinks DEF TypeOK, TreeOK, Exists
  <2>3. files' = files /\ \A f \in files : f[1] \in Dirs
    BY DEF Rmdir, TypeOK
  <2> QED
    BY <1>3, <1>4, <2>2, <2>3 DEF TreeOK, Exists
<1> QED
  BY <1>1, <1>3, <1>4, <1>5, <1>6, <1>7, <1>8, <1>9

\* The path p with its first part, old, replaced by new.
MovedPath(p, old, new) == new \o SubSeq(p, Len(old) + 1, Len(p))

LEMMA MovedParts ==
  ASSUME NEW old \in Seq(DirNames), NEW new \in Seq(DirNames), NEW p \in Seq(DirNames), IsPrefix(old, p)
  PROVE  /\ MovedPath(p, old, new) \in Seq(DirNames)
         /\ Len(MovedPath(p, old, new)) = Len(p) - Len(old) + Len(new)
         /\ Len(old) \in Nat /\ Len(new) \in Nat /\ Len(p) \in Nat /\ Len(old) <= Len(p)
         /\ \A i \in 1..Len(new) : MovedPath(p, old, new)[i] = new[i]
         /\ \A i \in 1..(Len(p) - Len(old)) : MovedPath(p, old, new)[Len(new) + i] = p[Len(old) + i]
<1> DEFINE m == Len(old) + 1
           n == Len(p)
           rest == SubSeq(p, m, n)
<1>1. Len(old) \in Nat /\ Len(new) \in Nat /\ Len(p) \in Nat /\ Len(old) <= Len(p)
  BY PrefixIs, LenProperties
<1>2. m \in Int /\ n \in Int /\ \A i \in m..n : p[i] \in DirNames
  BY <1>1, ElementOfSeq
<1>3. /\ rest \in Seq(DirNames) /\ Len(rest) = (IF m <= n THEN n - m + 1 ELSE 0)
      /\ \A i \in 1..(n - m + 1) : rest[i] = p[m + i - 1]
  <2> HIDE DEF m, n
  <2> QED
    BY <1>2, SubSeqProperties
<1>4. /\ rest \in Seq(DirNames) /\ Len(rest) = Len(p) - Len(old)
      /\ \A i \in 1..(Len(p) - Len(old)) : rest[i] = p[Len(old) + i]
  BY <1>1, <1>3
<1>5. MovedPath(p, old, new) = new \o rest
  BY DEF MovedPath
<1> HIDE DEF rest
<1>6. /\ new \o rest \in Seq(DirNames) /\ Len(new \o rest) = Len(new) + Len(rest)
      /\ \A i \in 1..(Len(new) + Len(rest)) : (new \o rest)[i] = IF i <= Len(new) THEN new[i] ELSE rest[i - Len(new)]
  BY <1>4, ConcatProperties
<1>7. \A i \in 1..Len(new) : (new \o rest)[i] = new[i]
  BY <1>1, <1>4, <1>6
<1>8. \A i \in 1..(Len(p) - Len(old)) : (new \o rest)[Len(new) + i] = rest[i]
  BY <1>1, <1>4, <1>6
<1> QED
  BY <1>1, <1>4, <1>5, <1>6, <1>7, <1>8

LEMMA MovedPrefix ==
  ASSUME NEW old \in Seq(DirNames), NEW new \in Seq(DirNames), NEW p \in Seq(DirNames), IsPrefix(old, p),
         NEW k \in Len(new)..Len(MovedPath(p, old, new))
  PROVE  /\ k - Len(new) + Len(old) \in 0..Len(p)
         /\ IsPrefix(old, SubSeq(p, 1, k - Len(new) + Len(old)))
         /\ MovedPath(SubSeq(p, 1, k - Len(new) + Len(old)), old, new) = SubSeq(MovedPath(p, old, new), 1, k)
<1> DEFINE j == k - Len(new) + Len(old)
           q == SubSeq(p, 1, j)
           mp == MovedPath(p, old, new)
           mq == MovedPath(q, old, new)
<1>1. /\ mp \in Seq(DirNames) /\ Len(mp) = Len(p) - Len(old) + Len(new)
      /\ Len(old) \in Nat /\ Len(new) \in Nat /\ Len(p) \in Nat /\ Len(old) <= Len(p)
      /\ \A i \in 1..Len(new) : mp[i] = new[i]
      /\ \A i \in 1..(Len(p) - Len(old)) : mp[Len(new) + i] = p[Len(old) + i]
  BY MovedParts
<1>2. j \in 0..Len(p) /\ j >= Len(old)
  BY <1>1
<1>3. q \in Seq(DirNames) /\ Len(q) = j /\ \A i \in 1..j : q[i] = p[i]
  <2> HIDE DEF j
  <2> QED
    BY <1>2, SubSeqTyped
<1>a. k \in Len(new)..Len(mp) /\ j = k - Len(new) + Len(old)
  OBVIOUS
<1> HIDE DEF q, j, mp
<1>4. IsPrefix(old, q)
  <2>1. Len(old) \in Nat /\ j \in Nat /\ Len(old) <= j
    BY <1>1, <1>2
  <2>2. \A i \in 1..Len(old) : old[i] = p[i]
    BY PrefixIs
  <2>3. Len(old) <= Len(q) /\ \A i \in 1..Len(old) : old[i] = q[i]
    BY <1>3, <2>1, <2>2
  <2> QED
    BY <1>3, <2>3, PrefixIs
<1>5. /\ mq \in Seq(DirNames) /\ Len(mq) = Len(q) - Len(old) + Len(new)
      /\ \A i \in 1..Len(new) : mq[i] = new[i]
      /\ \A i \in 1..(Len(q) - Len(old)) : mq[Len(new) + i] = q[Len(old) + i]
  <2>1. q \in Seq(DirNames)
    BY <1>3
  <2> QED
    BY <1>4, <2>1, MovedParts, ZenonT(30)
<1> HIDE DEF mq
<1>6. Len(mq) = k /\ k \in 0..Len(mp)
  <2>1. Len(old) \in Nat /\ Len(new) \in Nat /\ Len(mp) \in Nat /\ j \in Nat
    BY <1>1, <1>2, LenProperties
  <2>2. Len(q) = j /\ Len(mq) = Len(q) - Len(old) + Len(new)
    BY <1>3, <1>5
  <2> QED
    BY <1>a, <2>1, <2>2
<1>7. \A i \in 1..k : mq[i] = mp[i]
  <2> SUFFICES ASSUME NEW i \in 1..k PROVE mq[i] = mp[i]
    OBVIOUS
  <2>1. CASE i <= Len(new)
    BY <1>1, <1>5, <2>1
  <2>2. CASE i > Len(new)
    <3> DEFINE h == i - Len(new)
    <3>0. /\ Len(old) \in Nat /\ Len(new) \in Nat /\ Len(p) \in Nat /\ Len(q) = j /\ j \in Nat
          /\ j <= Len(p) /\ j = k - Len(new) + Len(old) /\ k \in Nat
      BY <1>1, <1>2, <1>3, <1>6, <1>a, LenProperties
    <3>1. h \in 1..(Len(p) - Len(old)) /\ h \in 1..(Len(q) - Len(old)) /\ i = Len(new) + h
      BY <2>2, <3>0
    <3>2. Len(old) + h \in 1..j
      BY <3>0, <3>1
    <3> HIDE DEF h
    <3>3. mp[i] = p[Len(old) + h] /\ mq[i] = q[Len(old) + h]
      BY <1>1, <1>5, <3>1
    <3> QED
      BY <1>3, <3>2, <3>3
  <2> QED
    BY <2>1, <2>2, <1>1
<1>8. SubSeq(mp, 1, k) \in Seq(DirNames) /\ Len(SubSeq(mp, 1, k)) = k /\ \A i \in 1..k : SubSeq(mp, 1, k)[i] = mp[i]
  BY <1>1, <1>6, SubSeqTyped
<1>9. mq = SubSeq(mp, 1, k)
  BY <1>5, <1>6, <1>7, <1>8, SeqEqual
<1> QED
  BY <1>2, <1>4, <1>9 DEF q, j, mp, mq

\* A directory and all below it get another path.
LEMMA TreeMoves ==
  ASSUME NEW a \in [Dirs -> Paths \cup {NoPath}], IsTree(a), NEW e \in Dirs, a[e] # NoPath, e # Root,
         NEW d \in Dirs, a[d] # NoPath, ~IsPrefix(a[e], a[d]), NEW name \in DirNames,
         \A x \in Dirs : a[x] # Append(a[d], name),
         NEW b \in [Dirs -> Paths \cup {NoPath}],
         \A x \in Dirs : b[x] = IF a[x] # NoPath /\ IsPrefix(a[e], a[x])
                                THEN MovedPath(a[x], a[e], Append(a[d], name)) ELSE a[x],
         \A x \in Dirs : a[x] # NoPath => b[x] # NoPath
  PROVE  IsTree(b)
<1> DEFINE old == a[e]
           new == Append(a[d], name)
           Inside(x) == a[x] # NoPath /\ IsPrefix(old, a[x])
<1>1. \A x \in Dirs : a[x] # NoPath => a[x] \in Paths /\ a[x] \in Seq(DirNames) /\ Len(a[x]) \in Nat
  BY PathFacts
<1>2. /\ old \in Seq(DirNames) /\ a[d] \in Seq(DirNames) /\ new \in Seq(DirNames)
      /\ Len(new) = Len(a[d]) + 1 /\ Len(old) \in Nat /\ Len(a[d]) \in Nat
      /\ \A k \in 0..Len(a[d]) : SubSeq(new, 1, k) = SubSeq(a[d], 1, k)
  BY <1>1, AppendParts
<1>3. \A x \in Dirs : b[x] = IF Inside(x) THEN MovedPath(a[x], old, new) ELSE a[x]
  OBVIOUS
<1>4. ~Inside(d) /\ \A x \in Dirs : a[x] # new
  OBVIOUS
<1>5. /\ a[Root] = <<>>
      /\ \A x, y \in Dirs : a[x] # NoPath /\ a[x] = a[y] => x = y
      /\ \A x \in Dirs : a[x] # NoPath => \A k \in 0..Len(a[x]) : \E y \in Dirs : a[y] = SubSeq(a[x], 1, k)
  BY DEF IsTree
<1>6. old # <<>> /\ Len(old) > 0
  BY <1>2, <1>5, TreeAssumption
<1> HIDE DEF old, new
<1>7. \A x \in Dirs : Inside(x) =>
        /\ b[x] \in Seq(DirNames) /\ b[x] # NoPath /\ Len(b[x]) = Len(a[x]) - Len(old) + Len(new)
        /\ Len(old) <= Len(a[x])
        /\ \A i \in 1..Len(new) : b[x][i] = new[i]
        /\ \A i \in 1..(Len(a[x]) - Len(old)) : b[x][Len(new) + i] = a[x][Len(old) + i]
  <2> SUFFICES ASSUME NEW x \in Dirs, Inside(x)
               PROVE  /\ b[x] \in Seq(DirNames) /\ b[x] # NoPath /\ Len(b[x]) = Len(a[x]) - Len(old) + Len(new)
                      /\ Len(old) <= Len(a[x])
                      /\ \A i \in 1..Len(new) : b[x][i] = new[i]
                      /\ \A i \in 1..(Len(a[x]) - Len(old)) : b[x][Len(new) + i] = a[x][Len(old) + i]
    OBVIOUS
  <2> DEFINE p == a[x]
             mp == MovedPath(p, old, new)
  <2>1. b[x] = mp /\ p \in Seq(DirNames) /\ IsPrefix(old, p) /\ b[x] # NoPath
    BY <1>1, <1>3
  <2> HIDE DEF p
  <2>2. /\ mp \in Seq(DirNames) /\ Len(mp) = Len(p) - Len(old) + Len(new) /\ Len(old) <= Len(p)
        /\ \A i \in 1..Len(new) : mp[i] = new[i]
        /\ \A i \in 1..(Len(p) - Len(old)) : mp[Len(new) + i] = p[Len(old) + i]
    <3>1. old \in Seq(DirNames) /\ new \in Seq(DirNames)
      BY <1>2
    <3> QED
      BY <2>1, <3>1, MovedParts
  <2> HIDE DEF mp
  <2> QED
    BY <2>1, <2>2 DEF p
<1>8. \A x \in Dirs : ~Inside(x) => b[x] = a[x]
  BY <1>3
\* No path of the old tree begins with the new place.
<1>9. ASSUME NEW x \in Dirs, a[x] # NoPath
      PROVE  ~IsPrefix(new, a[x])
  <2> SUFFICES ASSUME IsPrefix(new, a[x]) PROVE FALSE
    OBVIOUS
  <2>1. Len(new) \in 0..Len(a[x]) /\ SubSeq(a[x], 1, Len(new)) = new
    BY <1>1, <1>2, <1>9, PrefixIs
  <2>2. PICK y \in Dirs : a[y] = SubSeq(a[x], 1, Len(new))
    BY <1>5, <1>9, <2>1
  <2> QED
    BY <1>4, <2>1, <2>2
\* What lies at a prefix of a path outside lies outside.
<1>10. ASSUME NEW x \in Dirs, a[x] # NoPath, ~Inside(x), NEW y \in Dirs, NEW k \in 0..Len(a[x]),
              a[y] = SubSeq(a[x], 1, k)
       PROVE  ~Inside(y)
  <2> SUFFICES ASSUME IsPrefix(old, a[y]) PROVE FALSE
    OBVIOUS
  <2>1. a[y] \in Seq(DirNames) /\ Len(a[y]) = k /\ \A i \in 1..k : a[y][i] = a[x][i]
    BY <1>1, <1>10, SubSeqTyped
  <2>a. a[x] \in Seq(DirNames) /\ Len(a[y]) <= Len(a[x]) /\ \A i \in 1..Len(a[y]) : a[y][i] = a[x][i]
    BY <1>1, <1>10, <2>1
  <2>2. IsPrefix(a[y], a[x])
    BY <2>1, <2>a, PrefixIs
  <2>3. IsPrefix(old, a[x])
    BY <1>1, <1>2, <1>10, <2>1, <2>2, PrefixTransitive
  <2> QED
    BY <1>10, <2>3
<1>11. b[Root] = <<>>
  <2>1. ~IsPrefix(old, <<>>)
    BY <1>2, <1>6 DEF IsPrefix
  <2> QED
    BY <1>5, <1>8, <2>1, TreeAssumption
<1>12. ASSUME NEW x \in Dirs, NEW y \in Dirs, b[x] # NoPath, b[x] = b[y]
       PROVE  x = y
  <2>1. a[x] # NoPath /\ a[y] # NoPath
    BY <1>3, <1>12
  <2>2. CASE ~Inside(x) /\ ~Inside(y)
    BY <1>5, <1>8, <1>12, <2>1, <2>2
  <2>3. ASSUME NEW u \in Dirs, NEW v \in Dirs, b[u] = b[v], a[v] # NoPath, Inside(u), ~Inside(v)
        PROVE  FALSE
    <3>1. Len(b[u]) >= Len(new) /\ b[u] = a[v] /\ \A i \in 1..Len(new) : b[u][i] = new[i]
      BY <1>1, <1>2, <1>7, <1>8, <2>3
    <3>2. IsPrefix(new, a[v])
      BY <1>1, <1>2, <2>3, <3>1, PrefixIs
    <3> QED
      BY <1>9, <2>3, <3>2
  <2>4. CASE Inside(x) /\ Inside(y)
    <3>1. Len(a[x]) = Len(a[y]) /\ Len(old) <= Len(a[x])
      BY <1>1, <1>2, <1>7, <1>12, <2>1, <2>4
    <3>2. \A i \in 1..(Len(a[x]) - Len(old)) : a[x][Len(old) + i] = a[y][Len(old) + i]
      <4>1. \A i \in 1..(Len(a[x]) - Len(old)) : b[x][Len(new) + i] = a[x][Len(old) + i]
        BY <1>7, <2>4
      <4>2. \A i \in 1..(Len(a[y]) - Len(old)) : b[y][Len(new) + i] = a[y][Len(old) + i]
        BY <1>7, <2>4
      <4> QED
        BY <1>12, <3>1, <4>1, <4>2
    <3>3. \A i \in 1..Len(old) : a[x][i] = a[y][i]
      BY <1>1, <1>2, <2>1, <2>4, PrefixIs
    <3>4. ASSUME NEW i \in 1..Len(a[x])
          PROVE  a[x][i] = a[y][i]
      <4>1. CASE i <= Len(old)
        BY <1>2, <3>3, <4>1
      <4>2. CASE i > Len(old)
        <5> DEFINE h == i - Len(old)
        <5>1. h \in 1..(Len(a[x]) - Len(old)) /\ i = Len(old) + h
          BY <1>1, <1>2, <2>1, <3>4, <4>2
        <5> HIDE DEF h
        <5> QED
          BY <3>2, <5>1
      <4> QED
        BY <1>1, <1>2, <2>1, <4>1, <4>2
    <3>5. a[x] = a[y]
      BY <1>1, <2>1, <3>1, <3>4, SeqEqual
    <3> QED
      BY <1>5, <2>1, <3>5
  <2> QED
    BY <1>12, <2>1, <2>2, <2>3, <2>4
<1>13. ASSUME NEW x \in Dirs, b[x] # NoPath, NEW k \in 0..Len(b[x])
       PROVE  \E y \in Dirs : b[y] = SubSeq(b[x], 1, k)
  <2>1. a[x] # NoPath /\ a[x] \in Seq(DirNames) /\ Len(a[x]) \in Nat
    BY <1>1, <1>3, <1>13
  <2>2. CASE ~Inside(x)
    <3>1. PICK y \in Dirs : a[y] = SubSeq(a[x], 1, k)
      BY <1>5, <1>8, <1>13, <2>1, <2>2
    <3> QED
      BY <1>8, <1>10, <1>13, <2>1, <2>2, <3>1
  <2>3. CASE Inside(x) /\ k < Len(new)
    <3>1. k \in 0..Len(a[d])
      BY <1>2, <1>13, <2>3
    <3>2. SubSeq(b[x], 1, k) = SubSeq(a[d], 1, k)
      <4>1. SubSeq(b[x], 1, k) \in Seq(DirNames) /\ Len(SubSeq(b[x], 1, k)) = k /\ \A i \in 1..k : SubSeq(b[x], 1, k)[i] = b[x][i]
        BY <1>7, <1>13, <2>3, SubSeqTyped
      <4>2. SubSeq(new, 1, k) \in Seq(DirNames) /\ Len(SubSeq(new, 1, k)) = k /\ \A i \in 1..k : SubSeq(new, 1, k)[i] = new[i]
        <5>1. k \in 0..Len(new)
          BY <1>2, <3>1
        <5> QED
          BY <1>2, <5>1, SubSeqTyped
      <4>3. \A i \in 1..k : b[x][i] = new[i]
        BY <1>2, <1>7, <2>3, <3>1
      <4>4. SubSeq(b[x], 1, k) = SubSeq(new, 1, k)
        BY <4>1, <4>2, <4>3, SeqEqual
      <4> QED
        BY <1>2, <3>1, <4>4
    <3>3. PICK y \in Dirs : a[y] = SubSeq(a[d], 1, k)
      BY <1>5, <3>1
    <3>4. ~Inside(y)
      BY <1>4, <1>10, <3>1, <3>3
    <3> QED
      BY <1>8, <3>2, <3>3, <3>4
  <2>4. CASE Inside(x) /\ k >= Len(new)
    <3> DEFINE j == k - Len(new) + Len(old)
    <3>1. b[x] = MovedPath(a[x], old, new) /\ IsPrefix(old, a[x])
      BY <1>3, <2>4
    <3>2. k \in Len(new)..Len(MovedPath(a[x], old, new))
      BY <1>2, <1>13, <2>4, <3>1
    <3>3. /\ j \in 0..Len(a[x]) /\ IsPrefix(old, SubSeq(a[x], 1, j))
          /\ MovedPath(SubSeq(a[x], 1, j), old, new) = SubSeq(b[x], 1, k)
      BY <1>2, <2>1, <3>1, <3>2, MovedPrefix
    <3> HIDE DEF j
    <3>4. PICK y \in Dirs : a[y] = SubSeq(a[x], 1, j)
      BY <1>5, <2>1, <3>3
    <3>5. a[y] # NoPath
      <4>1. a[x] \in Paths /\ j \in Nat /\ j <= Len(a[x])
        BY <1>1, <2>1, <3>3
      <4> QED
        BY <3>4, <4>1, PathFacts
    <3> QED
      BY <1>3, <3>3, <3>4, <3>5
  <2> QED
    BY <1>2, <1>13, <2>2, <2>3, <2>4
<1> QED
  BY <1>11, <1>12, <1>13 DEF IsTree

\* Everything below a path that exists is at the path again after a rename.
LEMMA RenameDirShape ==
  ASSUME ShapeInv, NEW d \in Dirs, NEW e \in Dirs, NEW name \in DirNames, RenameDir(d, e, name)
  PROVE  /\ TypeOK' /\ TreeOK' /\ renamed' > 0
         /\ \A x \in Dirs : Exists(x) => at'[x] # NoPath
         /\ \E p \in Dirs, n \in DirNames : events' = events \o Event(p, "del", n, TRUE) \o Event(d, "add", name, TRUE)
<1> USE DEF ShapeInv
<1> DEFINE old == at[e]
           new == Append(at[d], name)
<1>1. /\ e # Root /\ Exists(e) /\ Exists(d) /\ d \notin Below(old) /\ DirAt(new) = {}
      /\ \A x \in Below(old) : Len(at[x]) - Len(old) + Len(new) <= MaxDepth
      /\ at' = [x \in Dirs |-> IF x \in Below(old) THEN MovedPath(at[x], old, new) ELSE at[x]]
  BY DEF RenameDir, MovedPath
<1>2. /\ old \in Seq(DirNames) /\ at[d] \in Seq(DirNames) /\ new \in Seq(DirNames)
      /\ \A x \in Dirs : Exists(x) => at[x] \in Seq(DirNames)
  BY <1>1, AtTyped, AppendParts
<1>3. \A x \in Dirs : x \in Below(old) <=> Exists(x) /\ IsPrefix(old, at[x])
  BY DEF Below
<1>4. ASSUME NEW x \in Dirs, x \in Below(old)
      PROVE  MovedPath(at[x], old, new) \in Paths
  <2> DEFINE p == at[x]
             mp == MovedPath(p, old, new)
  <2>1. p \in Seq(DirNames) /\ IsPrefix(old, p) /\ Len(p) - Len(old) + Len(new) <= MaxDepth
    BY <1>1, <1>2, <1>3, <1>4
  <2> HIDE DEF p, old, new
  <2>2. mp \in Seq(DirNames) /\ Len(mp) = Len(p) - Len(old) + Len(new)
    BY <1>2, <2>1, MovedParts
  <2> HIDE DEF mp
  <2>3. mp \in Paths
    BY <2>1, <2>2, PathsAre
  <2> QED
    BY <2>3 DEF mp, p
<1>5. at' \in [Dirs -> Paths \cup {NoPath}] /\ \A x \in Dirs : Exists(x) => at'[x] # NoPath
  <2>1. \A x \in Dirs : at'[x] = IF x \in Below(old) THEN MovedPath(at[x], old, new) ELSE at[x]
    BY <1>1
  <2>2. \A x \in Dirs : at'[x] \in Paths \cup {NoPath}
    BY <1>4, <2>1 DEF TypeOK
  <2>3. \A x \in Dirs : Exists(x) => at'[x] # NoPath
    BY <1>4, <2>1, PathFacts DEF Exists
  <2> HIDE DEF old, new
  <2> QED
    BY <1>1, <2>2, <2>3
<1>6. IsTree(at')
  <2>1. ~IsPrefix(at[e], at[d]) /\ \A x \in Dirs : at[x] # Append(at[d], name)
    BY <1>1, <1>3 DEF DirAt
  <2>2. \A x \in Dirs : at'[x] = IF at[x] # NoPath /\ IsPrefix(at[e], at[x])
                                 THEN MovedPath(at[x], at[e], Append(at[d], name)) ELSE at[x]
    BY <1>1, <1>3 DEF Exists
  <2>3. at \in [Dirs -> Paths \cup {NoPath}] /\ IsTree(at) /\ at[e] # NoPath /\ at[d] # NoPath
    BY <1>1 DEF TypeOK, TreeOK, Exists
  <2>4. \A x \in Dirs : at[x] # NoPath => at'[x] # NoPath
    BY <1>5 DEF Exists
  <2> QED
    BY <1>1, <1>5, <2>1, <2>2, <2>3, <2>4, TreeMoves
<1>7. PICK p \in DirAt(Front(old)) :
        events' = events \o Event(p, "del", Last(old), TRUE) \o Event(d, "add", name, TRUE)
  BY <1>1, ParentIs DEF RenameDir
<1>8. p \in Dirs /\ Last(old) \in DirNames
  BY <1>1, ParentIs DEF DirAt
<1>9. TypeOK'
  <2>1. Event(p, "del", Last(old), TRUE) \in Seq(Events) /\ Event(d, "add", name, TRUE) \in Seq(Events)
    BY <1>8, EventTyped
  <2>a. events \o Event(p, "del", Last(old), TRUE) \in Seq(Events)
    BY <2>1, ConcatProperties DEF TypeOK
  <2>2. events' \in Seq(Events)
    BY <1>7, <2>1, <2>a, ConcatProperties
  <2>3. renamed' \in Nat /\ removed' = removed /\ renamed' + removed' <= MaxChanges
    BY TreeAssumption DEF RenameDir, TypeOK
  <2>4. UNCHANGED <<files, watch, nextwd, monVars, early>>
    BY DEF RenameDir
  <2> QED
    BY <1>5, <2>2, <2>3, <2>4 DEF TypeOK, monVars
<1>10. TreeOK'
  <2>1. files' = files /\ \A f \in files : f[1] \in Dirs
    BY DEF RenameDir, TypeOK
  <2> QED
    BY <1>5, <1>6, <2>1 DEF TreeOK, Exists
<1>11. renamed' > 0
  BY DEF RenameDir, TypeOK
<1> QED
  BY <1>5, <1>7, <1>8, <1>9, <1>10, <1>11

\* An event names a watch that was handed out, and there is none before the start.
LEMMA EventShape ==
  ASSUME ShapeInv, NEW d \in Dirs, NEW what \in {"add", "del"}, NEW name, NEW isdir \in BOOLEAN,
         isdir => name \in DirNames, ~isdir => name \in FileNames /\ what = "add"
  PROVE  /\ Event(d, what, name, isdir) \in Seq(Events)
         /\ \A k \in 1..Len(Event(d, what, name, isdir)) : Event(d, what, name, isdir)[k].wd < nextwd
         /\ ~started => Event(d, what, name, isdir) = <<>>
<1>1. /\ Event(d, what, name, isdir) \in Seq(Events)
      /\ watch[d] = 0 => Event(d, what, name, isdir) = <<>>
      /\ watch[d] # 0 => Event(d, what, name, isdir) =
           <<[wd |-> watch[d], what |-> what, name |-> name, isdir |-> isdir]>>
  BY EventTyped DEF ShapeInv
<1>2. watch[d] # 0 => watch[d] < nextwd
  BY DEF ShapeInv, WdOK
<1>3. ~started => watch[d] = 0
  BY DEF ShapeInv, StackOK
<1>4. CASE watch[d] = 0
  BY <1>1, <1>4
<1>5. CASE watch[d] # 0
  BY <1>1, <1>2, <1>3, <1>5
<1> QED
  BY <1>4, <1>5

LEMMA OthersShape ==
  ASSUME ShapeInv, NEW s \in Seq(Events), events' = events \o s,
         \A k \in 1..Len(s) : s[k].wd < nextwd, ~started => s = <<>>,
         UNCHANGED <<nextwd, wd_list, stack, started>>,
         \A x \in Dirs : watch'[x] # 0 => watch'[x] = watch[x] /\ at'[x] # NoPath
  PROVE  WdOK' /\ StackOK'
<1> USE DEF ShapeInv
<1>1. \A k \in 1..Len(events') : events'[k].wd < nextwd
  <2> SUFFICES ASSUME NEW k \in 1..Len(events') PROVE events'[k].wd < nextwd
    OBVIOUS
  <2>1. CASE k <= Len(events)
    <3>1. k \in 1..Len(events) /\ events'[k] = events[k]
      BY <2>1, EventsAdded DEF TypeOK
    <3> QED
      BY <3>1 DEF WdOK
  <2>2. CASE k > Len(events)
    BY <2>2, EventsAdded
  <2> QED
    BY <2>1, <2>2, EventsAdded DEF TypeOK
<1>2. WdOK'
  BY <1>1 DEF WdOK, Exists
<1>3. ~started => events' = <<>> /\ \A x \in Dirs : watch'[x] = 0
  BY DEF StackOK
<1>4. StackOK'
  BY <1>3 DEF StackOK
<1> QED
  BY <1>2, <1>4

LEMMA CreateFileShape ==
  ASSUME ShapeInv, NEW d \in Dirs, NEW name \in FileNames, CreateFile(d, name)
  PROVE  TypeOK' /\ TreeOK'
<1> USE DEF ShapeInv
<1>1. Exists(d) /\ files' = files \cup {<<d, name>>} /\ at' = at
  BY DEF CreateFile
<1>2. Event(d, "add", name, FALSE) \in Seq(Events)
  BY EventTyped
<1>3. events' \in Seq(Events)
  BY <1>2, EventsAdded DEF CreateFile
<1>4. TypeOK'
  <2>1. files' \in SUBSET (Dirs \X FileNames)
    BY <1>1 DEF TypeOK
  <2>2. UNCHANGED <<at, watch, nextwd, monVars, boundVars>>
    BY DEF CreateFile
  <2> QED
    BY <1>3, <2>1, <2>2 DEF TypeOK, monVars, boundVars
<1>5. TreeOK'
  BY <1>1 DEF TreeOK, Exists
<1> QED
  BY <1>4, <1>5

LEMMA ConsumeFileShape ==
  ASSUME ShapeInv, NEW f \in files, ConsumeFile(f)
  PROVE  ShapeInv'
<1> USE DEF ShapeInv
<1>1. /\ files' = files \ {f} /\ queued' = queued \ {f} /\ removed' = removed + 1
      /\ renamed + removed < MaxChanges
      /\ UNCHANGED <<at, kernelVars, wd_list, stack, started, exited, renamed, early>>
  BY DEF ConsumeFile
<1>2. TypeOK'
  BY <1>1, TreeAssumption DEF TypeOK, kernelVars
<1>3. TreeOK'
  BY <1>1 DEF TreeOK, Exists
<1>4. WdOK'
  BY <1>1 DEF WdOK, Exists, kernelVars
<1>5. StackOK'
  BY <1>1 DEF StackOK, kernelVars
<1> QED
  BY <1>2, <1>3, <1>4, <1>5

LEMMA ShapeOfOthers == ASSUME ShapeInv, Others PROVE ShapeInv'
<1> USE DEF ShapeInv
<1>1. ASSUME NEW d \in Dirs, NEW e \in Dirs, NEW name \in NewNames, Mkdir(d, e, name)
      PROVE  ShapeInv'
  <2>1. /\ TypeOK' /\ TreeOK' /\ ~Exists(e) /\ \A x \in Dirs : x # e => at'[x] = at[x]
    BY <1>1, MkdirShape
  <2>2. /\ events' = events \o Event(d, "add", name, TRUE) /\ watch' = watch /\ name \in DirNames
        /\ UNCHANGED <<nextwd, wd_list, stack, started>>
    BY <1>1, TreeAssumption DEF Mkdir, monVars
  <2>3. /\ Event(d, "add", name, TRUE) \in Seq(Events) /\ (~started => Event(d, "add", name, TRUE) = <<>>)
        /\ \A k \in 1..Len(Event(d, "add", name, TRUE)) : Event(d, "add", name, TRUE)[k].wd < nextwd
    BY <2>2, EventShape
  <2>4. \A x \in Dirs : watch'[x] # 0 => watch'[x] = watch[x] /\ at'[x] # NoPath
    BY <2>1, <2>2 DEF WdOK, Exists
  <2>5. WdOK' /\ StackOK'
    BY <2>2, <2>3, <2>4, OthersShape
  <2> QED
    BY <2>1, <2>5
<1>2. ASSUME NEW d \in Dirs, NEW e \in Dirs, NEW name \in DirNames, RenameDir(d, e, name)
      PROVE  ShapeInv'
  <2>1. TypeOK' /\ TreeOK' /\ \A x \in Dirs : Exists(x) => at'[x] # NoPath
    BY <1>2, RenameDirShape
  <2>2. PICK p \in Dirs, n \in DirNames : events' = events \o Event(p, "del", n, TRUE) \o Event(d, "add", name, TRUE)
    BY <1>2, RenameDirShape
  <2>3. watch' = watch /\ UNCHANGED <<nextwd, wd_list, stack, started>>
    BY <1>2 DEF RenameDir, monVars
  <2> DEFINE u == Event(p, "del", n, TRUE)
             v == Event(d, "add", name, TRUE)
  <2>4. u \in Seq(Events) /\ (~started => u = <<>>) /\ \A k \in 1..Len(u) : u[k].wd < nextwd
    BY EventShape
  <2>5. v \in Seq(Events) /\ (~started => v = <<>>) /\ \A k \in 1..Len(v) : v[k].wd < nextwd
    BY EventShape
  <2>6. events' = events \o u \o v
    BY <2>2
  <2> HIDE DEF u, v
  <2>7. events' = events \o (u \o v)
    <3>1. events \in Seq(Events)
      BY DEF TypeOK
    <3>2. (events \o u) \o v = events \o (u \o v)
      BY <2>4, <2>5, <3>1, ConcatAssociative
    <3> QED
      BY <2>6, <3>2
  <2>8. u \o v \in Seq(Events) /\ (~started => u \o v = <<>>) /\ \A k \in 1..Len(u \o v) : (u \o v)[k].wd < nextwd
    BY <2>4, <2>5
  <2>9. \A x \in Dirs : watch'[x] # 0 => watch'[x] = watch[x] /\ at'[x] # NoPath
    BY <2>1, <2>3 DEF WdOK
  <2>10. WdOK' /\ StackOK'
    BY <2>3, <2>7, <2>8, <2>9, OthersShape
  <2> QED
    BY <2>1, <2>10
<1>3. ASSUME NEW d \in Dirs, NEW name \in FileNames, CreateFile(d, name)
      PROVE  ShapeInv'
  <2>1. TypeOK' /\ TreeOK'
    BY <1>3, CreateFileShape
  <2>2. /\ events' = events \o Event(d, "add", name, FALSE) /\ watch' = watch /\ at' = at
        /\ UNCHANGED <<nextwd, wd_list, stack, started>>
    BY <1>3 DEF CreateFile, monVars
  <2>3. /\ Event(d, "add", name, FALSE) \in Seq(Events) /\ (~started => Event(d, "add", name, FALSE) = <<>>)
        /\ \A k \in 1..Len(Event(d, "add", name, FALSE)) : Event(d, "add", name, FALSE)[k].wd < nextwd
    BY EventShape
  <2>4. \A x \in Dirs : watch'[x] # 0 => watch'[x] = watch[x] /\ at'[x] # NoPath
    BY <2>2 DEF WdOK, Exists
  <2>5. WdOK' /\ StackOK'
    BY <2>2, <2>3, <2>4, OthersShape
  <2> QED
    BY <2>1, <2>5
<1>4. ASSUME NEW e \in Dirs, Rmdir(e)
      PROVE  ShapeInv'
  <2>1. /\ TypeOK' /\ TreeOK' /\ watch'[e] = 0
        /\ \A x \in Dirs : x # e => at'[x] = at[x] /\ watch'[x] = watch[x]
        /\ Exists(e) /\ e # Root
    BY <1>4, RmdirShape
  <2>2. PICK p \in Dirs : events' = events \o Event(p, "del", Last(at[e]), TRUE)
    BY <1>4, RmdirShape
  <2>3. Last(at[e]) \in DirNames
    BY <2>1, ParentIs
  <2> DEFINE s == Event(p, "del", Last(at[e]), TRUE)
  <2>4. s \in Seq(Events) /\ (~started => s = <<>>) /\ \A k \in 1..Len(s) : s[k].wd < nextwd
    BY <2>3, EventShape
  <2>5. events' = events \o s /\ UNCHANGED <<nextwd, wd_list, stack, started>>
    BY <1>4, <2>2 DEF Rmdir, monVars
  <2>6. \A x \in Dirs : watch'[x] # 0 => watch'[x] = watch[x] /\ at'[x] # NoPath
    BY <2>1 DEF WdOK, Exists
  <2> HIDE DEF s
  <2>7. WdOK' /\ StackOK'
    BY <2>4, <2>5, <2>6, OthersShape
  <2> QED
    BY <2>1, <2>7
<1>5. ASSUME NEW f \in files, ConsumeFile(f)
      PROVE  ShapeInv'
  BY <1>5, ConsumeFileShape
<1> QED
  BY <1>1, <1>2, <1>3, <1>4, <1>5 DEF Others

-----------------------------------------------------------------------------
(***************************************************************************)
(* The stack of calls, the node that is found first and a node taken out.  *)
(***************************************************************************)
LEMMA EventFields ==
  ASSUME NEW e \in Events
  PROVE  /\ e.wd \in 1..MaxWd /\ e.wd \in Nat \ {0}
         /\ e.what \in {"add", "del"} /\ e.isdir \in BOOLEAN
         /\ e = [wd |-> e.wd, what |-> e.what, name |-> e.name, isdir |-> e.isdir]
         /\ e.isdir => e.name \in DirNames
         /\ ~e.isdir => e.name \in FileNames /\ e.what = "add"
<1>1. CASE e \in [wd : 1..MaxWd, what : {"add", "del"}, name : DirNames, isdir : {TRUE}]
  <2>1. /\ e.wd \in 1..MaxWd /\ e.what \in {"add", "del"} /\ e.name \in DirNames /\ e.isdir \in {TRUE}
        /\ e.isdir
    BY <1>1
  <2>2. e = [wd |-> e.wd, what |-> e.what, name |-> e.name, isdir |-> e.isdir]
    BY <1>1
  <2>3. e.wd \in Nat \ {0}
    BY <2>1, TreeAssumption
  <2>4. e.isdir \in BOOLEAN
    BY <2>1, Zenon
  <2> QED
    BY <2>1, <2>2, <2>3, <2>4
<1>2. CASE e \in [wd : 1..MaxWd, what : {"add"}, name : FileNames, isdir : {FALSE}]
  <2>1. /\ e.wd \in 1..MaxWd /\ e.what = "add" /\ e.name \in FileNames /\ e.isdir \in {FALSE}
        /\ ~e.isdir
    BY <1>2
  <2>2. e = [wd |-> e.wd, what |-> e.what, name |-> e.name, isdir |-> e.isdir]
    BY <1>2
  <2>3. e.wd \in Nat \ {0}
    BY <2>1, TreeAssumption
  <2>4. e.isdir \in BOOLEAN
    BY <2>1, Zenon
  <2> QED
    BY <2>1, <2>2, <2>3, <2>4
<1> QED
  BY <1>1, <1>2 DEF Events

LEMMA EventIs ==
  ASSUME events \in Seq(Events), NEW k \in 1..Len(events)
  PROVE  /\ events[k] \in Events /\ events[k].wd \in 1..MaxWd /\ events[k].wd \in Nat \ {0}
         /\ events[k].what \in {"add", "del"} /\ events[k].isdir \in BOOLEAN
         /\ events[k] = [wd |-> events[k].wd, what |-> events[k].what, name |-> events[k].name, isdir |-> events[k].isdir]
         /\ events[k].isdir => events[k].name \in DirNames
         /\ ~events[k].isdir => events[k].name \in FileNames /\ events[k].what = "add"
<1>1. events[k] \in Events
  BY ElementOfSeq
<1> QED
  BY <1>1, EventFields

LEMMA NodeIs ==
  ASSUME wd_list \in Seq(Nodes), NEW i \in 1..Len(wd_list)
  PROVE  /\ wd_list[i] \in Nodes /\ wd_list[i].wd \in 1..MaxWd /\ wd_list[i].wd \in Nat \ {0}
         /\ wd_list[i].path \in Seq(DirNames)
<1>1. wd_list[i] \in Nodes
  BY ElementOfSeq
<1> QED
  BY <1>1, TreeAssumption DEF Nodes

LEMMA Pushed ==
  ASSUME NEW s \in Seq(Frames), NEW f \in Frames
  PROVE  /\ <<f>> \o s \in Seq(Frames) /\ Len(<<f>> \o s) = Len(s) + 1 /\ (<<f>> \o s)[1] = f
         /\ \A i \in 1..Len(s) : i + 1 \in 1..Len(<<f>> \o s) /\ (<<f>> \o s)[i + 1] = s[i]
         /\ \A i \in 1..Len(<<f>> \o s) : i # 1 => i - 1 \in 1..Len(s) /\ (<<f>> \o s)[i] = s[i - 1]
OBVIOUS

LEMMA Replaced ==
  ASSUME NEW s \in Seq(Frames), s # <<>>, NEW g \in Frames
  PROVE  /\ [s EXCEPT ![1] = g] \in Seq(Frames) /\ Len([s EXCEPT ![1] = g]) = Len(s)
         /\ [s EXCEPT ![1] = g][1] = g /\ 1 \in 1..Len(s) /\ s[1] \in Frames
         /\ \A i \in 1..Len(s) : i # 1 => [s EXCEPT ![1] = g][i] = s[i]
<1>1. 1 \in 1..Len(s) /\ s[1] \in Frames
  BY EmptySeq, ElementOfSeq
<1> QED
  BY <1>1, ExceptSeq

LEMMA Popped ==
  ASSUME NEW s \in Seq(Frames), s # <<>>
  PROVE  /\ Tail(s) \in Seq(Frames) /\ Len(Tail(s)) = Len(s) - 1 /\ Len(s) \in Nat \ {0}
         /\ \A i \in 1..Len(Tail(s)) : i + 1 \in 1..Len(s) /\ Tail(s)[i] = s[i + 1]
         /\ \A i \in 1..Len(s) : i # 1 => i - 1 \in 1..Len(Tail(s)) /\ s[i] = Tail(s)[i - 1]
<1>1. Len(s) \in Nat \ {0} /\ Tail(s) \in Seq(Frames) /\ Len(Tail(s)) = Len(s) - 1
      /\ \A i \in 1..Len(Tail(s)) : Tail(s)[i] = s[i + 1]
  BY HeadTailProperties, EmptySeq, LenProperties
<1> QED
  BY <1>1

LEMMA FrameTyped ==
  ASSUME NEW fn \in {"add_monitor_dir", "add_upload_file"}, NEW p \in Seq(DirNames)
  PROVE  /\ Frame(fn, p, Root) \in Frames
         /\ Frame(fn, p, Root).fn = fn /\ Frame(fn, p, Root).path = p /\ Frame(fn, p, Root).pc = "enter"
         /\ Frame(fn, p, Root).seen = {}
BY TreeAssumption DEF Frame, Frames

LEMMA WaitsPushed ==
  ASSUME NEW s \in Seq(Frames), Waits(s), NEW f \in Frames,
         f.fn = "add_monitor_dir" => \E j \in 1..Len(s) : WaitsFor(s[j], f)
  PROVE  Waits(<<f>> \o s)
<1> DEFINE t == <<f>> \o s
<1>1. /\ t \in Seq(Frames) /\ Len(t) = Len(s) + 1 /\ t[1] = f
      /\ \A i \in 1..Len(s) : i + 1 \in 1..Len(t) /\ t[i + 1] = s[i]
      /\ \A i \in 1..Len(t) : i # 1 => i - 1 \in 1..Len(s) /\ t[i] = s[i - 1]
  BY Pushed
<1> HIDE DEF t
<1>2. ASSUME NEW i \in 1..Len(t), t[i].fn = "add_monitor_dir"
      PROVE  \E j \in (i + 1)..Len(t) : WaitsFor(t[j], t[i])
  <2>1. CASE i = 1
    <3>1. PICK j \in 1..Len(s) : WaitsFor(s[j], f)
      BY <1>1, <1>2, <2>1
    <3> QED
      BY <1>1, <2>1, <3>1
  <2>2. CASE i # 1
    <3>1. i - 1 \in 1..Len(s) /\ t[i] = s[i - 1]
      BY <1>1, <2>2
    <3>2. PICK j \in i..Len(s) : WaitsFor(s[j], s[i - 1])
      BY <1>2, <3>1 DEF Waits
    <3>3. j + 1 \in (i + 1)..Len(t) /\ t[j + 1] = s[j]
      BY <1>1, <3>1, <3>2
    <3> QED
      BY <3>1, <3>2, <3>3
  <2> QED
    BY <2>1, <2>2
<1> QED
  BY <1>2 DEF Waits, t

LEMMA WaitsReplaced ==
  ASSUME NEW s \in Seq(Frames), s # <<>>, Waits(s), NEW g \in Frames, g.fn = s[1].fn, g.path = s[1].path
  PROVE  Waits([s EXCEPT ![1] = g])
<1> DEFINE t == [s EXCEPT ![1] = g]
<1>1. /\ t \in Seq(Frames) /\ Len(t) = Len(s) /\ t[1] = g /\ Len(s) \in Nat
      /\ \A i \in 1..Len(s) : i # 1 => t[i] = s[i]
  BY Replaced, LenProperties
<1> HIDE DEF t
<1>2. ASSUME NEW i \in 1..Len(t), t[i].fn = "add_monitor_dir"
      PROVE  \E j \in (i + 1)..Len(t) : WaitsFor(t[j], t[i])
  <2>1. t[i].fn = s[i].fn /\ t[i].path = s[i].path
    BY <1>1
  <2>2. PICK j \in (i + 1)..Len(s) : WaitsFor(s[j], s[i])
    BY <1>1, <1>2, <2>1 DEF Waits
  <2>3. t[j] = s[j]
    BY <1>1, <2>2
  <2> QED
    BY <1>1, <2>1, <2>2, <2>3 DEF WaitsFor
<1> QED
  BY <1>2 DEF Waits, t

LEMMA WaitsPopped ==
  ASSUME NEW s \in Seq(Frames), s # <<>>, Waits(s)
  PROVE  Waits(Tail(s))
<1> DEFINE t == Tail(s)
<1>1. /\ t \in Seq(Frames) /\ Len(t) = Len(s) - 1 /\ Len(s) \in Nat
      /\ \A i \in 1..Len(t) : i + 1 \in 1..Len(s) /\ t[i] = s[i + 1]
  BY Popped
<1> HIDE DEF t
<1>2. ASSUME NEW i \in 1..Len(t), t[i].fn = "add_monitor_dir"
      PROVE  \E j \in (i + 1)..Len(t) : WaitsFor(t[j], t[i])
  <2>1. i + 1 \in 1..Len(s) /\ t[i] = s[i + 1]
    BY <1>1
  <2>2. PICK j \in (i + 2)..Len(s) : WaitsFor(s[j], s[i + 1])
    BY <1>1, <1>2, <2>1 DEF Waits
  <2>3. j - 1 \in (i + 1)..Len(t) /\ t[j - 1] = s[j]
    BY <1>1, <2>2
  <2> QED
    BY <2>1, <2>2, <2>3
<1> QED
  BY <1>2 DEF Waits, t

\* A set of naturals that is not empty has a least element.
LEMMA LeastNatural ==
  ASSUME NEW T \in SUBSET Nat, T # {}
  PROVE  \E m \in T : \A n \in T : m <= n
<1> DEFINE R == OpToRel(<, Nat)
<1>1. \E x \in T : \A y \in T : ~(<<y, x>> \in R)
  <2>1. IsWellFoundedOn(R, Nat)
    BY NatLessThanWellFounded
  <2> HIDE DEF R
  <2> QED
    BY <2>1, WFMin
<1>2. \A x, y \in Nat : <<y, x>> \in R <=> y < x
  BY DEF OpToRel
<1>3. PICK x \in T : \A y \in T : ~(<<y, x>> \in R)
  BY <1>1
<1> HIDE DEF R
<1>4. \A y \in T : y \in Nat /\ x \in Nat /\ ~(y < x)
  BY <1>2, <1>3
<1>5. \A y \in T : x <= y
  BY <1>4
<1> QED
  BY <1>5

LEMMA FirstIs ==
  ASSUME NEW n, NEW S \in SUBSET (1..n), S # {}
  PROVE  First(S) \in S /\ \A j \in S : First(S) <= j
<1>1. \E i \in S : \A j \in S : i <= j
  BY LeastNatural
<1> QED
  BY <1>1 DEF First

LEMMA RemovedNode ==
  ASSUME NEW V, NEW s \in Seq(V), NEW i \in 1..Len(s)
  PROVE  /\ RemoveAt(s, i) \in Seq(V)
         /\ \A k \in 1..Len(RemoveAt(s, i)) : \E j \in 1..Len(s) : j # i /\ RemoveAt(s, i)[k] = s[j]
         /\ \A j \in 1..Len(s) : j # i => \E k \in 1..Len(RemoveAt(s, i)) : RemoveAt(s, i)[k] = s[j]
<1> DEFINE m == i - 1
           u == SubSeq(s, 1, m)
           l == i + 1
           n == Len(s)
           v == SubSeq(s, l, n)
<1>1. m \in 0..Len(s) /\ l \in Int /\ n \in Int /\ Len(s) \in Nat /\ m = i - 1 /\ l = i + 1 /\ n = Len(s)
      /\ i \in 1..n
  BY LenProperties
<1>2. \A j \in l..n : s[j] \in V
  BY <1>1, ElementOfSeq
<1>3. RemoveAt(s, i) = u \o v
  BY DEF RemoveAt
<1> HIDE DEF m, l, n
<1>4. u \in Seq(V) /\ Len(u) = m /\ \A k \in 1..m : u[k] = s[k]
  BY <1>1, SubSeqTyped
<1>5. /\ v \in Seq(V) /\ Len(v) = (IF l <= n THEN n - l + 1 ELSE 0)
      /\ \A k \in 1..(n - l + 1) : v[k] = s[l + k - 1]
  BY <1>1, <1>2, SubSeqProperties
<1>6. Len(v) = n - i /\ \A k \in 1..(n - i) : v[k] = s[i + k]
  BY <1>1, <1>5
<1> DEFINE w == u \o v
<1> HIDE DEF u, v
<1>7. /\ w \in Seq(V) /\ Len(w) = Len(u) + Len(v)
      /\ \A k \in 1..(Len(u) + Len(v)) : w[k] = IF k <= Len(u) THEN u[k] ELSE v[k - Len(u)]
  BY <1>4, <1>5, ConcatProperties
<1> HIDE DEF w
<1>8. ASSUME NEW k \in 1..Len(w)
      PROVE  \E j \in 1..n : j # i /\ w[k] = s[j]
  <2>1. CASE k <= m
    <3>1. k \in 1..m /\ k \in 1..(Len(u) + Len(v)) /\ k <= Len(u) /\ k \in 1..n /\ k # i
      BY <1>1, <1>4, <1>6, <1>7, <2>1
    <3>2. w[k] = u[k] /\ u[k] = s[k]
      BY <1>4, <1>7, <3>1
    <3> QED
      BY <3>1, <3>2
  <2>2. CASE k > m
    <3>1. /\ k \in 1..(Len(u) + Len(v)) /\ ~(k <= Len(u)) /\ k - Len(u) = k - m /\ k - m \in 1..(n - i)
          /\ k + 1 \in 1..n /\ k + 1 # i /\ i + (k - m) = k + 1
      BY <1>1, <1>4, <1>6, <1>7, <2>2
    <3>2. w[k] = v[k - m] /\ v[k - m] = s[i + (k - m)]
      BY <1>6, <1>7, <3>1
    <3> QED
      BY <3>1, <3>2
  <2> QED
    BY <1>1, <1>4, <1>6, <1>7, <2>1, <2>2
<1>9. ASSUME NEW j \in 1..n, j # i
      PROVE  \E k \in 1..Len(w) : w[k] = s[j]
  <2>1. CASE j < i
    <3>1. j \in 1..m /\ j \in 1..(Len(u) + Len(v)) /\ j <= Len(u) /\ j \in 1..Len(w)
      BY <1>1, <1>4, <1>6, <1>7, <2>1
    <3>2. w[j] = u[j] /\ u[j] = s[j]
      BY <1>4, <1>7, <3>1
    <3> QED
      BY <3>1, <3>2
  <2>2. CASE j > i
    <3>1. /\ j - 1 \in 1..(Len(u) + Len(v)) /\ ~(j - 1 <= Len(u)) /\ (j - 1) - Len(u) = j - i
          /\ j - i \in 1..(n - i) /\ i + (j - i) = j /\ j - 1 \in 1..Len(w)
      BY <1>1, <1>4, <1>6, <1>7, <2>2
    <3>2. w[j - 1] = v[j - i] /\ v[j - i] = s[i + (j - i)]
      BY <1>6, <1>7, <3>1
    <3> QED
      BY <3>1, <3>2
  <2> QED
    BY <1>1, <1>9, <2>1, <2>2
<1> QED
  BY <1>3, <1>7, <1>8, <1>9 DEF w, n

-----------------------------------------------------------------------------
(***************************************************************************)
(* What the monitor thread does keeps the shape of the state.              *)
(***************************************************************************)
LEMMA TopIs ==
  ASSUME ShapeInv, stack # <<>>
  PROVE  /\ Top \in Frames /\ 1 \in 1..Len(stack) /\ stack[1] = Top /\ started
         /\ Top.fn \in {"add_monitor_dir", "add_upload_file"} /\ Top.path \in Seq(DirNames)
         /\ Top.ino \in Dirs /\ Top.seen \subseteq DirNames \cup FileNames
         /\ Top.must \subseteq DirNames \cup FileNames
         /\ (Top.pc # "read" => Top.seen = {})
         /\ Top.fn = "add_monitor_dir" => \E j \in 2..Len(stack) : WaitsFor(stack[j], Top)
<1>1. stack \in Seq(Frames)
  BY DEF ShapeInv, TypeOK
<1>2. 1 \in 1..Len(stack) /\ stack[1] \in Frames
  BY <1>1, EmptySeq, ElementOfSeq
<1>3. started /\ (stack[1].pc # "read" => stack[1].seen = {}) /\ Waits(stack)
  BY <1>2 DEF ShapeInv, StackOK
<1>4. Top = stack[1]
  BY DEF Top
<1>5. stack[1].fn = "add_monitor_dir" => \E j \in 2..Len(stack) : WaitsFor(stack[j], stack[1])
  BY <1>2, <1>3 DEF Waits
<1> QED
  BY <1>2, <1>3, <1>4, <1>5 DEF Frames

LEMMA StackReplaced ==
  ASSUME ShapeInv, stack # <<>>, NEW g \in Frames, g.fn = Top.fn, g.path = Top.path,
         g.pc # "read" => g.seen = {}, stack' = [stack EXCEPT ![1] = g], started' = started
  PROVE  stack' \in Seq(Frames) /\ StackOK'
<1>1. stack \in Seq(Frames) /\ Waits(stack) /\ started
  BY TopIs DEF ShapeInv, TypeOK, StackOK
<1>2. Top = stack[1]
  BY DEF Top
<1>3. Waits(stack') /\ stack' \in Seq(Frames) /\ Len(stack') = Len(stack) /\ stack'[1] = g
      /\ \A i \in 1..Len(stack) : i # 1 => stack'[i] = stack[i]
  <2>1. Waits(stack')
    BY <1>1, <1>2, WaitsReplaced
  <2>2. /\ stack' \in Seq(Frames) /\ Len(stack') = Len(stack) /\ stack'[1] = g
        /\ \A i \in 1..Len(stack) : i # 1 => stack'[i] = stack[i]
    BY <1>1, Replaced
  <2> QED
    BY <2>1, <2>2
<1>4. \A i \in 1..Len(stack') : stack'[i].pc # "read" => stack'[i].seen = {}
  BY <1>3 DEF ShapeInv, StackOK
<1> QED
  BY <1>1, <1>3, <1>4 DEF StackOK

LEMMA StackPushed ==
  ASSUME NEW s \in Seq(Frames), Waits(s), \A i \in 1..Len(s) : s[i].pc # "read" => s[i].seen = {},
         NEW f \in Frames, f.seen = {}, f.fn = "add_monitor_dir" => \E j \in 1..Len(s) : WaitsFor(s[j], f)
  PROVE  /\ <<f>> \o s \in Seq(Frames) /\ Waits(<<f>> \o s)
         /\ \A i \in 1..Len(<<f>> \o s) : (<<f>> \o s)[i].pc # "read" => (<<f>> \o s)[i].seen = {}
<1>1. Waits(<<f>> \o s)
  BY WaitsPushed
<1> DEFINE t == <<f>> \o s
<1>2. /\ t \in Seq(Frames) /\ t[1] = f
      /\ \A i \in 1..Len(t) : i # 1 => i - 1 \in 1..Len(s) /\ t[i] = s[i - 1]
  BY Pushed
<1> HIDE DEF t
<1>3. \A i \in 1..Len(t) : t[i].pc # "read" => t[i].seen = {}
  BY <1>2
<1> QED
  BY <1>1, <1>2, <1>3 DEF t

\* The process exits, or the innermost call goes on; nothing else happens.
LEMMA StackOnly ==
  ASSUME ShapeInv, UNCHANGED <<treeVars, kernelVars, wd_list, started, boundVars>>,
         queued' \subseteq Dirs \X FileNames, exited' \in BOOLEAN,
         stack' \in Seq(Frames), StackOK'
  PROVE  ShapeInv'
<1> USE DEF ShapeInv, treeVars, kernelVars, boundVars
<1>1. TypeOK'
  BY DEF TypeOK
<1>2. TreeOK'
  BY DEF TreeOK, Exists
<1>3. WdOK'
  BY DEF WdOK, Exists
<1> QED
  BY <1>1, <1>2, <1>3

LEMMA NodeAdded ==
  ASSUME NEW w, NEW p, wd_list \in Seq(Nodes), NEW n \in Nodes, n = [wd |-> w, path |-> p],
         wd_list' = Append(wd_list, n)
  PROVE  /\ wd_list' \in Seq(Nodes) /\ Len(wd_list') = Len(wd_list) + 1
         /\ wd_list'[Len(wd_list) + 1].wd = w /\ wd_list'[Len(wd_list) + 1].path = p
         /\ \A i \in 1..Len(wd_list) : i \in 1..Len(wd_list') /\ wd_list'[i] = wd_list[i]
         /\ \A i \in 1..Len(wd_list') : i \in 1..Len(wd_list) \/ i = Len(wd_list) + 1
         /\ Len(wd_list) + 1 \in 1..Len(wd_list')
<1>1. /\ wd_list' \in Seq(Nodes) /\ Len(wd_list') = Len(wd_list) + 1 /\ Len(wd_list) \in Nat
      /\ wd_list'[Len(wd_list) + 1] = n /\ \A i \in 1..Len(wd_list) : wd_list'[i] = wd_list[i]
  BY AppendProperties, LenProperties
<1> QED
  BY <1>1

LEMMA AddWatchShape ==
  ASSUME ShapeInv, AddWatch
  PROVE  ShapeInv'
<1> USE DEF ShapeInv
<1>1. stack # <<>> /\ Top.fn = "add_monitor_dir" /\ Top.pc = "enter" /\ UNCHANGED <<treeVars, events, started, queued, boundVars>>
  BY DEF AddWatch, AtStep
<1>2. CASE Exit /\ UNCHANGED <<watch, nextwd, wd_list, stack>>
  <2>1. stack' \in Seq(Frames) /\ StackOK'
    BY <1>1, <1>2 DEF TypeOK, StackOK
  <2> QED
    BY <1>1, <1>2, <2>1, StackOnly DEF Exit, kernelVars, TypeOK
<1>3. ASSUME NEW d \in DirAt(Top.path),
             watch[d] # 0 \/ nextwd <= MaxWd,
             watch' = [watch EXCEPT ![d] = IF @ = 0 THEN nextwd ELSE @],
             nextwd' = IF watch[d] = 0 THEN nextwd + 1 ELSE nextwd,
             wd_list' = Append(wd_list, [wd |-> watch'[d], path |-> Top.path]),
             stack' = [stack EXCEPT ![1].pc = "open"],
             UNCHANGED exited
      PROVE  ShapeInv'
  <2>1. d \in Dirs /\ at[d] = Top.path /\ Exists(d) /\ Top \in Frames /\ Top.path \in Seq(DirNames) /\ Top.seen = {} /\ stack[1] = Top
    <3>1. d \in Dirs /\ at[d] = Top.path
      BY <1>3 DEF DirAt
    <3>2. Top \in Frames /\ Top.path \in Seq(DirNames) /\ Top.seen = {} /\ stack[1] = Top
      BY <1>1, TopIs
    <3>3. Top.path # NoPath
      BY <3>2, PathFacts
    <3> QED
      BY <3>1, <3>2, <3>3 DEF Exists
  <2> DEFINE g == [Top EXCEPT !.pc = "open"]
  <2>2. g \in Frames /\ g.fn = Top.fn /\ g.path = Top.path /\ g.seen = {} /\ g.pc = "open"
    BY <2>1 DEF Frames
  <2>3. stack' = [stack EXCEPT ![1] = g]
    BY <1>3, <2>1
  <2> HIDE DEF g
  <2>4. stack' \in Seq(Frames) /\ StackOK'
    BY <1>1, <2>2, <2>3, StackReplaced
  <2>5. /\ watch' \in [Dirs -> 0..MaxWd] /\ watch'[d] \in 1..MaxWd /\ nextwd' \in 1..(MaxWd + 1)
        /\ \A x \in Dirs : x # d => watch'[x] = watch[x]
        /\ watch'[d] = IF watch[d] = 0 THEN nextwd ELSE watch[d]
    <3>1. watch \in [Dirs -> 0..MaxWd] /\ nextwd \in 1..(MaxWd + 1) /\ MaxWd \in Nat /\ watch[d] \in 0..MaxWd
      BY <2>1, TreeAssumption DEF TypeOK
    <3>2. watch'[d] = (IF watch[d] = 0 THEN nextwd ELSE watch[d]) /\ \A x \in Dirs : x # d => watch'[x] = watch[x]
      BY <1>3, <2>1, <3>1
    <3>3. watch'[d] \in 1..MaxWd
      BY <1>3, <3>1, <3>2
    <3>4. watch' \in [Dirs -> 0..MaxWd]
      BY <1>3, <2>1, <3>1, <3>2, <3>3
    <3> QED
      BY <1>3, <3>1, <3>2, <3>3, <3>4
  <2> DEFINE n == [wd |-> watch'[d], path |-> Top.path]
  <2>6. n \in Nodes /\ wd_list \in Seq(Nodes) /\ wd_list' = Append(wd_list, n)
    BY <1>3, <2>1, <2>5 DEF Nodes, TypeOK
  <2>7. /\ wd_list' \in Seq(Nodes) /\ wd_list'[Len(wd_list) + 1].wd = watch'[d]
        /\ \A i \in 1..Len(wd_list) : i \in 1..Len(wd_list') /\ wd_list'[i] = wd_list[i]
        /\ \A i \in 1..Len(wd_list') : i \in 1..Len(wd_list) \/ i = Len(wd_list) + 1
        /\ Len(wd_list) + 1 \in 1..Len(wd_list')
    BY <2>6, NodeAdded
  <2>8. TypeOK'
    BY <1>1, <1>3, <2>4, <2>5, <2>7 DEF TypeOK, treeVars, boundVars
  <2>9. TreeOK'
    BY <1>1 DEF TreeOK, Exists, treeVars
  <2>10. nextwd \in Nat /\ nextwd' \in Nat /\ nextwd <= nextwd' /\ watch'[d] < nextwd' /\ watch[d] < nextwd' /\ watch[d] \in Nat
    <3>1. nextwd \in 1..(MaxWd + 1) /\ watch[d] \in 0..MaxWd /\ (watch[d] # 0 => watch[d] < nextwd)
      BY <2>1, TreeAssumption DEF TypeOK, WdOK
    <3> QED
      BY <1>3, <2>5, <3>1, TreeAssumption
  <2>11. \A x \in Dirs : watch'[x] # 0 =>
           Exists(x) /\ watch'[x] < nextwd' /\ \E i \in 1..Len(wd_list') : wd_list'[i].wd = watch'[x]
    <3> SUFFICES ASSUME NEW x \in Dirs, watch'[x] # 0
                 PROVE  Exists(x) /\ watch'[x] < nextwd' /\ \E i \in 1..Len(wd_list') : wd_list'[i].wd = watch'[x]
      OBVIOUS
    <3>1. CASE x = d
      BY <2>1, <2>7, <2>10, <3>1
    <3>2. CASE x # d
      <4>1. watch'[x] = watch[x] /\ watch[x] \in 0..MaxWd
        BY <2>5, <3>2 DEF TypeOK
      <4>2. Exists(x) /\ watch[x] < nextwd /\ \E i \in 1..Len(wd_list) : wd_list[i].wd = watch[x]
        BY <4>1 DEF WdOK
      <4> QED
        BY <2>7, <2>10, <4>1, <4>2, TreeAssumption
    <3> QED
      BY <3>1, <3>2
  <2>12. \A x, y \in Dirs : watch'[x] # 0 /\ watch'[x] = watch'[y] => x = y
    <3>1. \A x \in Dirs : watch[x] # 0 => watch[x] < nextwd /\ watch[x] \in 0..MaxWd
      BY DEF WdOK, TypeOK
    <3>2. \A x, y \in Dirs : watch[x] # 0 /\ watch[x] = watch[y] => x = y
      BY DEF WdOK
    <3> QED
      BY <2>1, <2>5, <2>10, <3>1, <3>2, TreeAssumption
  <2>13. \A i \in 1..Len(wd_list') : wd_list'[i].wd < nextwd'
    <3>1. \A i \in 1..Len(wd_list) : wd_list[i].wd < nextwd /\ wd_list[i].wd \in Nat
      BY NodeIs DEF WdOK, TypeOK
    <3>2. \A i \in 1..Len(wd_list) : wd_list'[i].wd < nextwd'
      BY <2>7, <2>10, <3>1
    <3> QED
      BY <2>7, <2>10, <3>2
  <2>14. \A k \in 1..Len(events') : events'[k].wd < nextwd'
    <3>1. \A k \in 1..Len(events) : events[k].wd < nextwd /\ events[k].wd \in Nat
      BY EventIs DEF WdOK, TypeOK
    <3> QED
      BY <1>1, <2>10, <3>1
  <2>15. WdOK'
    <3>1. \A x \in Dirs : Exists(x) => Exists(x)'
      BY <1>1 DEF Exists, treeVars
    <3> QED
      BY <2>11, <2>12, <2>13, <2>14, <3>1 DEF WdOK
  <2> QED
    BY <2>4, <2>8, <2>9, <2>15
<1> QED
  <2>1. CASE DirAt(Top.path) = {}
    BY <1>2, <2>1 DEF AddWatch
  <2>2. CASE DirAt(Top.path) # {}
    <3>1. PICK d \in DirAt(Top.path) :
            /\ watch[d] # 0 \/ nextwd <= MaxWd
            /\ watch' = [watch EXCEPT ![d] = IF @ = 0 THEN nextwd ELSE @]
            /\ nextwd' = IF watch[d] = 0 THEN nextwd + 1 ELSE nextwd
            /\ wd_list' = Append(wd_list, [wd |-> watch'[d], path |-> Top.path])
            /\ stack' = [stack EXCEPT ![1].pc = "open"]
            /\ UNCHANGED exited
      BY <2>2 DEF AddWatch
    <3> QED
      BY <1>3, <3>1
  <2> QED
    BY <2>1, <2>2

LEMMA FindWdShape ==
  ASSUME ShapeInv, FindWd
  PROVE  ShapeInv'
<1> USE DEF ShapeInv
<1>1. stack # <<>> /\ Top.pc = "enter" /\ UNCHANGED <<treeVars, kernelVars, wd_list, started, queued, boundVars>>
  BY DEF FindWd, AtStep
<1>2. CASE Exit /\ UNCHANGED stack
  <2>1. stack' \in Seq(Frames) /\ StackOK'
    BY <1>1, <1>2 DEF TypeOK, StackOK, kernelVars
  <2> QED
    BY <1>1, <1>2, <2>1, StackOnly DEF Exit, TypeOK
<1>3. CASE stack' = [stack EXCEPT ![1].pc = "open"] /\ UNCHANGED exited
  <2> DEFINE g == [Top EXCEPT !.pc = "open"]
  <2>1. Top \in Frames /\ Top.seen = {} /\ stack[1] = Top
    BY <1>1, TopIs
  <2>2. g \in Frames /\ g.fn = Top.fn /\ g.path = Top.path /\ g.seen = {}
    BY <2>1 DEF Frames
  <2>3. stack' = [stack EXCEPT ![1] = g]
    BY <1>3, <2>1
  <2> HIDE DEF g
  <2>4. stack' \in Seq(Frames) /\ StackOK'
    BY <1>1, <2>2, <2>3, StackReplaced
  <2> QED
    BY <1>1, <1>3, <2>4, StackOnly DEF TypeOK
<1> QED
  BY <1>2, <1>3 DEF FindWd

LEMMA OpenDirShape ==
  ASSUME ShapeInv, OpenDir
  PROVE  ShapeInv'
<1> USE DEF ShapeInv
<1>1. stack # <<>> /\ Top.pc = "open" /\ UNCHANGED <<treeVars, kernelVars, wd_list, started, queued, boundVars>>
  BY DEF OpenDir
<1>2. CASE Exit /\ UNCHANGED stack
  <2>1. stack' \in Seq(Frames) /\ StackOK'
    BY <1>1, <1>2 DEF TypeOK, StackOK, kernelVars
  <2> QED
    BY <1>1, <1>2, <2>1, StackOnly DEF Exit, TypeOK
<1>3. ASSUME NEW d \in DirAt(Top.path),
             stack' = [stack EXCEPT ![1].pc = "read", ![1].ino = d, ![1].must = Entries(d)],
             UNCHANGED exited
      PROVE  ShapeInv'
  <2> DEFINE g == [Top EXCEPT !.pc = "read", !.ino = d, !.must = Entries(d)]
  <2>1. Top \in Frames /\ stack[1] = Top /\ d \in Dirs
    BY <1>1, TopIs DEF DirAt
  <2>2. Entries(d) \in SUBSET (DirNames \cup FileNames)
    BY <2>1, EntriesAre
  <2>3. g \in Frames /\ g.fn = Top.fn /\ g.path = Top.path /\ g.pc = "read"
    BY <2>1, <2>2 DEF Frames
  <2>4. stack' = [stack EXCEPT ![1] = g]
    BY <1>3, <2>1
  <2> HIDE DEF g
  <2>5. stack' \in Seq(Frames) /\ StackOK'
    BY <1>1, <2>3, <2>4, StackReplaced
  <2> QED
    BY <1>1, <1>3, <2>5, StackOnly DEF TypeOK
<1> QED
  <2>1. CASE DirAt(Top.path) = {}
    BY <1>2, <2>1 DEF OpenDir
  <2>2. CASE DirAt(Top.path) # {}
    <3>1. PICK d \in DirAt(Top.path) :
            stack' = [stack EXCEPT ![1].pc = "read", ![1].ino = d, ![1].must = Entries(d)] /\ UNCHANGED exited
      BY <2>2 DEF OpenDir
    <3> QED
      BY <1>3, <3>1
  <2> QED
    BY <2>1, <2>2

LEMMA EndDirShape ==
  ASSUME ShapeInv, EndDir
  PROVE  ShapeInv'
<1> USE DEF ShapeInv
<1>1. /\ stack # <<>> /\ stack' = Tail(stack)
      /\ UNCHANGED <<treeVars, kernelVars, wd_list, started, exited, queued, boundVars>>
  BY DEF EndDir, Return
<1>2. stack \in Seq(Frames) /\ Waits(stack) /\ started
  BY <1>1, TopIs DEF TypeOK, StackOK
<1>3. /\ stack' \in Seq(Frames)
      /\ \A i \in 1..Len(stack') : i + 1 \in 1..Len(stack) /\ stack'[i] = stack[i + 1]
  BY <1>1, <1>2, Popped
<1>4. Waits(stack')
  BY <1>1, <1>2, WaitsPopped
<1>5. \A i \in 1..Len(stack') : stack'[i].pc # "read" => stack'[i].seen = {}
  BY <1>3 DEF StackOK
<1>6. StackOK'
  BY <1>1, <1>2, <1>4, <1>5 DEF StackOK
<1> QED
  BY <1>1, <1>3, <1>6, StackOnly DEF TypeOK

LEMMA PrefixAppend ==
  ASSUME NEW p \in Seq(DirNames), NEW q \in Seq(DirNames), NEW a \in DirNames, IsPrefix(p, q)
  PROVE  IsPrefix(p, Append(q, a))
<1>1. Len(p) <= Len(q) /\ \A i \in 1..Len(p) : p[i] = q[i]
  BY PrefixIs
<1>2. /\ Append(q, a) \in Seq(DirNames) /\ Len(Append(q, a)) = Len(q) + 1
      /\ \A i \in 1..Len(q) : Append(q, a)[i] = q[i]
      /\ Len(p) \in Nat /\ Len(q) \in Nat
  BY AppendProperties, LenProperties
<1> DEFINE r == Append(q, a)
<1>3. r \in Seq(DirNames) /\ Len(p) <= Len(r) /\ \A i \in 1..Len(p) : p[i] = r[i]
  BY <1>1, <1>2
<1> HIDE DEF r
<1>4. IsPrefix(p, r)
  BY <1>3, PrefixIs
<1> QED
  BY <1>4 DEF r

\* A directory is found only at a path made of names of directories.
LEMMA DirNameOf ==
  ASSUME TypeOK, NEW q \in Seq(DirNames), NEW name \in DirNames \cup FileNames, DirAt(Append(q, name)) # {}
  PROVE  name \in DirNames
<1>1. PICK x \in Dirs : at[x] = Append(q, name)
  BY DEF DirAt
<1>2. q \in Seq(DirNames \cup FileNames)
  OBVIOUS
<1>3. Append(q, name) \in Seq(DirNames \cup FileNames) /\ Len(Append(q, name)) = Len(q) + 1
      /\ Append(q, name)[Len(q) + 1] = name /\ Len(q) \in Nat
  BY <1>2, AppendProperties, LenProperties
<1>4. at[x] \in Seq(DirNames)
  BY <1>1, <1>3, NoPathAssumption, PathFacts DEF TypeOK
<1>5. Len(q) + 1 \in 1..Len(at[x])
  BY <1>1, <1>3
<1>6. at[x][Len(q) + 1] \in DirNames
  BY <1>4, <1>5, ElementOfSeq
<1> QED
  BY <1>1, <1>3, <1>6

LEMMA ReadEntryShape ==
  ASSUME ShapeInv, NEW name \in DirNames \cup FileNames, ReadEntry(name)
  PROVE  ShapeInv'
<1> USE DEF ShapeInv
<1> DEFINE p == Append(Top.path, name)
           g == [Top EXCEPT !.seen = @ \cup {name}]
           s == [stack EXCEPT ![1] = g]
<1>1. /\ stack # <<>> /\ Top.pc = "read"
      /\ stack' = IF DirAt(p) # {} THEN <<Frame(Top.fn, p, Root)>> \o Seen(name) ELSE Seen(name)
      /\ queued' = IF Top.fn = "add_upload_file" THEN queued \cup FileAt(p) ELSE queued
      /\ UNCHANGED <<treeVars, kernelVars, wd_list, started, exited, boundVars>>
  BY DEF ReadEntry
<1>2. /\ Top \in Frames /\ stack[1] = Top /\ started /\ Top.path \in Seq(DirNames)
      /\ Top.fn \in {"add_monitor_dir", "add_upload_file"}
      /\ Top.fn = "add_monitor_dir" => \E j \in 2..Len(stack) : WaitsFor(stack[j], Top)
  BY <1>1, TopIs
<1>3. g \in Frames /\ g.fn = Top.fn /\ g.path = Top.path /\ g.pc = "read"
  BY <1>1, <1>2 DEF Frames
<1>4. Seen(name) = s
  BY <1>2 DEF Seen
<1>5. stack \in Seq(Frames) /\ Waits(stack) /\ \A i \in 1..Len(stack) : stack[i].pc # "read" => stack[i].seen = {}
  BY DEF TypeOK, StackOK
<1> HIDE DEF g
<1>6. /\ s \in Seq(Frames) /\ Len(s) = Len(stack) /\ s[1] = g /\ \A i \in 1..Len(stack) : i # 1 => s[i] = stack[i]
  BY <1>1, <1>3, <1>5, Replaced
<1>7. Waits(s)
  BY <1>1, <1>2, <1>3, <1>5, WaitsReplaced
<1> HIDE DEF s
<1>8. \A i \in 1..Len(s) : s[i].pc # "read" => s[i].seen = {}
  BY <1>3, <1>5, <1>6
<1>9. ASSUME DirAt(p) # {}
      PROVE  /\ <<Frame(Top.fn, p, Root)>> \o s \in Seq(Frames) /\ Waits(<<Frame(Top.fn, p, Root)>> \o s)
             /\ \A i \in 1..Len(<<Frame(Top.fn, p, Root)>> \o s) :
                  (<<Frame(Top.fn, p, Root)>> \o s)[i].pc # "read" => (<<Frame(Top.fn, p, Root)>> \o s)[i].seen = {}
  <2>1. name \in DirNames
    BY <1>2, <1>9, DirNameOf
  <2>2. p \in Seq(DirNames)
    BY <1>2, <2>1
  <2> DEFINE fn == Top.fn
  <2>a. fn \in {"add_monitor_dir", "add_upload_file"}
    BY <1>2
  <2>b. ASSUME NEW q \in Seq(DirNames)
        PROVE  /\ Frame(fn, q, Root) \in Frames /\ Frame(fn, q, Root).fn = fn
               /\ Frame(fn, q, Root).path = q /\ Frame(fn, q, Root).seen = {}
    <3> HIDE DEF fn
    <3> QED
      BY <2>a, FrameTyped
  <2>3. /\ Frame(Top.fn, p, Root) \in Frames /\ Frame(Top.fn, p, Root).fn = Top.fn
        /\ Frame(Top.fn, p, Root).path = p /\ Frame(Top.fn, p, Root).seen = {}
    BY <2>2, <2>b
  <2>4. ASSUME Top.fn = "add_monitor_dir"
        PROVE  \E j \in 1..Len(s) : WaitsFor(s[j], Frame(Top.fn, p, Root))
    <3>1. PICK j \in 2..Len(stack) : WaitsFor(stack[j], Top)
      BY <1>2, <2>4
    <3>2. j \in 1..Len(stack) /\ j # 1 /\ s[j] = stack[j] /\ stack[j] \in Frames
      BY <1>5, <1>6, <3>1, ElementOfSeq
    <3>3. stack[j].path \in Seq(DirNames) /\ IsPrefix(stack[j].path, Top.path)
      BY <3>1, <3>2 DEF WaitsFor, Frames
    <3>4. IsPrefix(stack[j].path, p)
      BY <1>2, <2>1, <3>3, PrefixAppend
    <3> QED
      BY <1>6, <2>3, <3>1, <3>2, <3>4 DEF WaitsFor
  <2> HIDE DEF p
  <2> QED
    BY <1>6, <1>7, <1>8, <2>3, <2>4, StackPushed
<1>10. stack' \in Seq(Frames) /\ Waits(stack') /\ \A i \in 1..Len(stack') : stack'[i].pc # "read" => stack'[i].seen = {}
  BY <1>1, <1>4, <1>6, <1>7, <1>8, <1>9
<1>11. StackOK'
  BY <1>1, <1>2, <1>10 DEF StackOK
<1>12. queued' \subseteq Dirs \X FileNames /\ exited' \in BOOLEAN
  BY <1>1 DEF FileAt, TypeOK
<1> QED
  BY <1>1, <1>10, <1>11, <1>12, StackOnly

LEMMA PairPushed ==
  ASSUME NEW V, NEW f \in V, NEW g \in V, NEW s \in Seq(V)
  PROVE  <<f, g>> \o s = <<f>> \o (<<g>> \o s)
<1> DEFINE t == <<f, g>> \o s
           u == <<g>> \o s
           v == <<f>> \o u
<1>1. /\ t \in Seq(V) /\ Len(t) = Len(s) + 2 /\ t[1] = f /\ t[2] = g /\ Len(s) \in Nat
      /\ \A i \in 1..Len(s) : t[i + 2] = s[i]
  OBVIOUS
<1>2. u \in Seq(V) /\ Len(u) = Len(s) + 1 /\ u[1] = g /\ \A i \in 1..Len(s) : u[i + 1] = s[i]
  OBVIOUS
<1> HIDE DEF t, u
<1>3. v \in Seq(V) /\ Len(v) = Len(u) + 1 /\ v[1] = f /\ \A i \in 1..Len(u) : v[i + 1] = u[i]
  BY <1>2
<1> HIDE DEF v
<1>4. ASSUME NEW i \in 1..Len(t)
      PROVE  t[i] = v[i]
  <2>1. CASE i = 1
    BY <1>1, <1>3, <2>1
  <2>2. CASE i = 2
    <3>1. 1 \in 1..Len(u) /\ v[1 + 1] = u[1]
      BY <1>1, <1>2, <1>3
    <3> QED
      BY <1>1, <1>2, <2>2, <3>1
  <2>3. CASE i # 1 /\ i # 2
    <3> DEFINE h == i - 2
    <3>1. h \in 1..Len(s) /\ h + 1 \in 1..Len(u) /\ i = h + 2 /\ i = (h + 1) + 1
      BY <1>1, <1>2, <2>3
    <3> HIDE DEF h
    <3>2. t[i] = s[h] /\ v[i] = u[h + 1] /\ u[h + 1] = s[h]
      BY <1>1, <1>2, <1>3, <3>1
    <3> QED
      BY <3>2
  <2> QED
    BY <2>1, <2>2, <2>3
<1>5. t = v
  BY <1>1, <1>2, <1>3, <1>4, SeqEqual
<1> QED
  BY <1>5 DEF t, u, v

\* add_monitor_dir is called before add_upload_file, for the same directory.
LEMMA ScanBothShape ==
  ASSUME ShapeInv, NEW p \in Seq(DirNames), ScanBoth(p), started'
  PROVE  /\ stack' \in Seq(Frames) /\ StackOK' /\ Len(stack') = Len(stack) + 2
         /\ stack'[1] = Frame("add_monitor_dir", p, Root) /\ stack'[2] = Frame("add_upload_file", p, Root)
         /\ \A i \in 1..Len(stack) : i + 2 \in 1..Len(stack') /\ stack'[i + 2] = stack[i]
         /\ \A i \in 1..Len(stack') : i = 1 \/ i = 2 \/ (i - 2 \in 1..Len(stack) /\ stack'[i] = stack[i - 2])
<1> DEFINE f == Frame("add_monitor_dir", p, Root)
           g == Frame("add_upload_file", p, Root)
           s == <<g>> \o stack
<1>1. /\ f \in Frames /\ f.seen = {} /\ f.path = p /\ f.fn = "add_monitor_dir"
      /\ g \in Frames /\ g.seen = {} /\ g.path = p /\ g.fn = "add_upload_file" /\ g.pc = "enter"
  BY FrameTyped
<1>2. WaitsFor(g, f)
  <2>1. IsPrefix(p, p)
    BY PrefixIs
  <2> QED
    BY <1>1, <2>1 DEF WaitsFor
<1>3. stack' = <<f, g>> \o stack
  BY DEF ScanBoth
<1> HIDE DEF f, g
<1>4. stack \in Seq(Frames) /\ Waits(stack) /\ \A i \in 1..Len(stack) : stack[i].pc # "read" => stack[i].seen = {}
  BY DEF ShapeInv, TypeOK, StackOK
<1>5. s \in Seq(Frames) /\ Waits(s) /\ \A i \in 1..Len(s) : s[i].pc # "read" => s[i].seen = {}
  BY <1>1, <1>4, StackPushed
<1>6. /\ Len(s) = Len(stack) + 1 /\ s[1] = g /\ Len(stack) \in Nat
      /\ \A i \in 1..Len(stack) : i + 1 \in 1..Len(s) /\ s[i + 1] = stack[i]
      /\ \A i \in 1..Len(s) : i # 1 => i - 1 \in 1..Len(stack) /\ s[i] = stack[i - 1]
  BY <1>1, <1>4, Pushed, LenProperties
<1>7. stack' = <<f>> \o s
  <2>1. f \in Frames /\ g \in Frames /\ stack \in Seq(Frames)
    BY <1>1, <1>4
  <2>2. <<f, g>> \o stack = <<f>> \o (<<g>> \o stack)
    <3> DEFINE k == stack
    <3> HIDE DEF k
    <3> QED
      BY <2>1, PairPushed DEF k
  <2> QED
    BY <1>3, <2>2
<1> HIDE DEF s
<1>8. f.fn = "add_monitor_dir" => \E j \in 1..Len(s) : WaitsFor(s[j], f)
  BY <1>2, <1>6
<1>9. /\ stack' \in Seq(Frames) /\ Waits(stack')
      /\ \A i \in 1..Len(stack') : stack'[i].pc # "read" => stack'[i].seen = {}
  BY <1>1, <1>5, <1>7, <1>8, StackPushed
<1>10. /\ Len(stack') = Len(s) + 1 /\ stack'[1] = f
       /\ \A i \in 1..Len(s) : i + 1 \in 1..Len(stack') /\ stack'[i + 1] = s[i]
       /\ \A i \in 1..Len(stack') : i # 1 => i - 1 \in 1..Len(s) /\ stack'[i] = s[i - 1]
  BY <1>1, <1>5, <1>7, Pushed
<1>11. StackOK'
  BY <1>9 DEF StackOK
<1>12. stack'[2] = g /\ Len(stack') = Len(stack) + 2
  BY <1>6, <1>10
<1>13. \A i \in 1..Len(stack) : i + 2 \in 1..Len(stack') /\ stack'[i + 2] = stack[i]
  <2> SUFFICES ASSUME NEW i \in 1..Len(stack) PROVE i + 2 \in 1..Len(stack') /\ stack'[i + 2] = stack[i]
    OBVIOUS
  <2>1. i + 1 \in 1..Len(s) /\ s[i + 1] = stack[i]
    BY <1>6
  <2>2. (i + 1) + 1 \in 1..Len(stack') /\ stack'[(i + 1) + 1] = s[i + 1]
    BY <1>10, <2>1
  <2>3. (i + 1) + 1 = i + 2
    OBVIOUS
  <2> QED
    BY <2>1, <2>2, <2>3
<1>14. \A i \in 1..Len(stack') : i = 1 \/ i = 2 \/ (i - 2 \in 1..Len(stack) /\ stack'[i] = stack[i - 2])
  <2> SUFFICES ASSUME NEW i \in 1..Len(stack'), i # 1, i # 2
               PROVE  i - 2 \in 1..Len(stack) /\ stack'[i] = stack[i - 2]
    OBVIOUS
  <2>1. i - 1 \in 1..Len(s) /\ stack'[i] = s[i - 1] /\ i - 1 # 1
    BY <1>10
  <2>2. (i - 1) - 1 \in 1..Len(stack) /\ s[i - 1] = stack[(i - 1) - 1]
    BY <1>6, <2>1
  <2>3. (i - 1) - 1 = i - 2
    OBVIOUS
  <2> QED
    BY <2>1, <2>2, <2>3
<1> QED
  BY <1>9, <1>10, <1>11, <1>12, <1>13, <1>14 DEF f, g

LEMMA StartShape ==
  ASSUME ShapeInv, Start
  PROVE  ShapeInv'
<1>1. ScanBoth(<<>>) /\ started' = TRUE /\ UNCHANGED <<treeVars, kernelVars, wd_list, exited, queued, boundVars>>
  BY DEF Start
<1>2. stack' \in Seq(Frames) /\ StackOK'
  BY <1>1, ScanBothShape, PathFacts
<1> USE DEF ShapeInv, treeVars, kernelVars, boundVars
<1>3. TypeOK'
  BY <1>1, <1>2 DEF TypeOK
<1>4. TreeOK'
  BY <1>1 DEF TreeOK, Exists
<1>5. WdOK'
  BY <1>1 DEF WdOK, Exists
<1> QED
  BY <1>2, <1>3, <1>4, <1>5

\* Node i is taken out, and the watch of its descriptor.
TakenOut(i) ==
  /\ wd_list' \in Seq(Nodes) /\ watch' \in [Dirs -> 0..MaxWd]
  /\ \A d \in Dirs : watch'[d] = IF watch[d] = wd_list[i].wd THEN 0 ELSE watch[d]
  /\ \A k \in 1..Len(wd_list') : \E j \in 1..Len(wd_list) : j # i /\ wd_list'[k] = wd_list[j]
  /\ \A j \in 1..Len(wd_list) : j # i => \E k \in 1..Len(wd_list') : wd_list'[k] = wd_list[j]

LEMMA DelMonitorDirIs ==
  ASSUME ShapeInv, NEW p, NodesOfPath(p) # {}, del_monitor_dir(p)
  PROVE  \E i \in 1..Len(wd_list) : wd_list[i].path = p /\ TakenOut(i)
<1> DEFINE i == First(NodesOfPath(p))
<1>1. i \in 1..Len(wd_list) /\ wd_list[i].path = p
  <2>1. NodesOfPath(p) \in SUBSET (1..Len(wd_list))
    BY DEF NodesOfPath
  <2>2. i \in NodesOfPath(p)
    BY <2>1, FirstIs
  <2> QED
    BY <2>2 DEF NodesOfPath
<1>2. wd_list' = RemoveAt(wd_list, i) /\ watch' = [d \in Dirs |-> IF watch[d] = wd_list[i].wd THEN 0 ELSE watch[d]]
  BY DEF del_monitor_dir
<1> HIDE DEF i
<1>3. wd_list \in Seq(Nodes)
  BY DEF ShapeInv, TypeOK
<1>4. /\ wd_list' \in Seq(Nodes)
      /\ \A k \in 1..Len(wd_list') : \E j \in 1..Len(wd_list) : j # i /\ wd_list'[k] = wd_list[j]
      /\ \A j \in 1..Len(wd_list) : j # i => \E k \in 1..Len(wd_list') : wd_list'[k] = wd_list[j]
  BY <1>1, <1>2, <1>3, RemovedNode, ZenonT(30)
<1>5. watch' \in [Dirs -> 0..MaxWd] /\ \A d \in Dirs : watch'[d] = IF watch[d] = wd_list[i].wd THEN 0 ELSE watch[d]
  <2>1. watch \in [Dirs -> 0..MaxWd] /\ 0 \in 0..MaxWd
    BY TreeAssumption DEF ShapeInv, TypeOK
  <2> QED
    BY <1>2, <2>1
<1>6. TakenOut(i)
  BY <1>4, <1>5 DEF TakenOut
<1> QED
  BY <1>1, <1>6

LEMMA KnownPath ==
  ASSUME TypeOK, NEW w, NodesOfWd(w) # {}
  PROVE  /\ First(NodesOfWd(w)) \in 1..Len(wd_list) /\ wd_list[First(NodesOfWd(w))].wd = w
         /\ wd_list[First(NodesOfWd(w))].path \in Seq(DirNames)
<1>1. NodesOfWd(w) \in SUBSET (1..Len(wd_list))
  BY DEF NodesOfWd
<1>2. First(NodesOfWd(w)) \in NodesOfWd(w)
  BY <1>1, FirstIs
<1>3. First(NodesOfWd(w)) \in 1..Len(wd_list) /\ wd_list[First(NodesOfWd(w))].wd = w
  BY <1>2 DEF NodesOfWd
<1> QED
  BY <1>3, NodeIs DEF TypeOK

\* What an event that is handled does.
Handled(e, p, known) ==
  \/ queued' = queued \cup FileAt(p) /\ UNCHANGED <<stack, wd_list, watch, exited>>
     /\ known /\ FileAt(p) # {} /\ e.what = "add"
  \/ ScanBoth(p) /\ UNCHANGED <<queued, wd_list, watch, exited>> /\ known /\ e.isdir /\ e.what = "add"
  \/ Exit /\ UNCHANGED <<queued, stack, wd_list, watch>> /\ ~known
  \/ del_monitor_dir(p) /\ UNCHANGED <<queued, stack, exited>> /\ known /\ e.isdir /\ e.what = "del"
  \/ /\ UNCHANGED <<queued, stack, wd_list, watch, exited>>
     /\ ~(known /\ FileAt(p) # {} /\ e.what = "add")
     /\ ~(known /\ FileAt(p) = {} /\ NewDirectory(e))

LEMMA HandledIs ==
  ASSUME ShapeInv, HandleEvent
  PROVE  LET e == Head(events)
             known == NodesOfWd(e.wd) # {}
             p == IF known THEN Append(wd_list[First(NodesOfWd(e.wd))].path, e.name) ELSE <<>>
         IN  /\ Loop /\ events' = Tail(events) /\ Handled(e, p, known)
             /\ UNCHANGED <<treeVars, nextwd, started, boundVars>>
             /\ e = events[1] /\ 1 \in 1..Len(events)
<1> DEFINE e == Head(events)
           known == NodesOfWd(e.wd) # {}
           p == IF known THEN Append(wd_list[First(NodesOfWd(e.wd))].path, e.name) ELSE <<>>
<1>1. /\ Loop /\ events' = Tail(events) /\ UNCHANGED <<treeVars, nextwd, started, boundVars>>
      /\ CASE known /\ FileAt(p) # {} /\ e.what = "add" ->
            queued' = queued \cup FileAt(p) /\ UNCHANGED <<stack, wd_list, watch, exited>>
       [] known /\ FileAt(p) = {} /\ NewDirectory(e) ->
            ScanBoth(p) /\ UNCHANGED <<queued, wd_list, watch, exited>>
       [] ~known /\ NewDirectory(e) ->
            Exit /\ UNCHANGED <<queued, stack, wd_list, watch>>
       [] known /\ OldDirectory(e) ->
            del_monitor_dir(p) /\ UNCHANGED <<queued, stack, exited>>
       [] OTHER -> UNCHANGED <<queued, stack, wd_list, watch, exited>>
  BY DEF HandleEvent, NextEvent
<1>2. events \in Seq(Events) /\ events # <<>>
  BY <1>1 DEF Loop, ShapeInv, TypeOK
<1>3. e = events[1] /\ 1 \in 1..Len(events)
  BY <1>2, EmptySeq, LenProperties
<1>4. Handled(e, p, known)
  <2> HIDE DEF e, p
  <2>1. CASE known /\ FileAt(p) # {} /\ e.what = "add"
    BY <1>1, <2>1 DEF Handled, OldDirectory
  <2>2. CASE known /\ FileAt(p) = {} /\ NewDirectory(e)
    BY <1>1, <2>2 DEF Handled, NewDirectory, OldDirectory
  <2>3. CASE ~known /\ NewDirectory(e)
    BY <1>1, <2>3 DEF Handled
  <2>4. CASE known /\ OldDirectory(e)
    BY <1>1, <2>4 DEF Handled, NewDirectory, OldDirectory
  <2>5. CASE ~(\/ known /\ FileAt(p) # {} /\ e.what = "add"
               \/ known /\ FileAt(p) = {} /\ NewDirectory(e)
               \/ ~known /\ NewDirectory(e)
               \/ known /\ OldDirectory(e))
    BY <1>1, <2>5 DEF Handled
  <2> QED
    BY <2>1, <2>2, <2>3, <2>4, <2>5
<1> QED
  BY <1>1, <1>3, <1>4

LEMMA EventsPopped ==
  ASSUME events \in Seq(Events), events # <<>>, events' = Tail(events)
  PROVE  /\ events' \in Seq(Events) /\ Len(events) \in Nat \ {0} /\ Len(events') = Len(events) - 1
         /\ \A k \in 1..Len(events') : k + 1 \in 1..Len(events) /\ events'[k] = events[k + 1]
         /\ \A k \in 1..Len(events) : k # 1 => k - 1 \in 1..Len(events') /\ events[k] = events'[k - 1]
<1>1. /\ events' \in Seq(Events) /\ Len(events) \in Nat \ {0} /\ Len(events') = Len(events) - 1
      /\ \A k \in 1..Len(events') : events'[k] = events[k + 1]
  BY HeadTailProperties, EmptySeq, LenProperties
<1> QED
  BY <1>1

LEMMA HandleEventShape ==
  ASSUME ShapeInv, HandleEvent
  PROVE  ShapeInv'
<1> USE DEF ShapeInv
<1> DEFINE e == Head(events)
           known == NodesOfWd(e.wd) # {}
           p == IF known THEN Append(wd_list[First(NodesOfWd(e.wd))].path, e.name) ELSE <<>>
<1>1. /\ Loop /\ events' = Tail(events) /\ Handled(e, p, known)
      /\ UNCHANGED <<treeVars, nextwd, started, boundVars>>
      /\ e = events[1] /\ 1 \in 1..Len(events)
  BY HandledIs
<1>2. /\ events' \in Seq(Events)
      /\ \A k \in 1..Len(events') : k + 1 \in 1..Len(events) /\ events'[k] = events[k + 1]
  BY <1>1, EventsPopped DEF Loop, TypeOK
<1>3. ASSUME known, e.isdir
      PROVE  p \in Seq(DirNames)
  <2>a. events[1] \in Events /\ events[1].isdir
    BY <1>1, <1>3, EventIs DEF TypeOK
  <2>b. events[1].name \in DirNames
    BY <2>a, EventFields
  <2>1. e.name \in DirNames
    BY <1>1, <2>b
  <2>2. wd_list[First(NodesOfWd(e.wd))].path \in Seq(DirNames)
    BY <1>3, KnownPath
  <2> QED
    BY <1>3, <2>1, <2>2
<1> HIDE DEF e, p, known
<1>4. \A k \in 1..Len(events') : events'[k].wd < nextwd
  BY <1>2 DEF WdOK
<1>5. started /\ stack = <<>>
  BY <1>1 DEF Loop
<1>6. FileAt(p) \subseteq Dirs \X FileNames
  BY DEF FileAt, TypeOK
<1>7. TreeOK'
  BY <1>1 DEF TreeOK, Exists, treeVars
\* The watches stay, and at most the two scans are called.
<1>8. ASSUME UNCHANGED <<wd_list, watch>>, exited' \in BOOLEAN, queued' \subseteq Dirs \X FileNames,
             stack' \in Seq(Frames), StackOK'
      PROVE  ShapeInv'
  <2>1. TypeOK'
    BY <1>1, <1>2, <1>8 DEF TypeOK, treeVars, boundVars
  <2>2. WdOK'
    BY <1>1, <1>4, <1>8 DEF WdOK, Exists, treeVars
  <2> QED
    BY <1>7, <1>8, <2>1, <2>2
<1>9. ASSUME UNCHANGED stack
      PROVE  stack' \in Seq(Frames) /\ StackOK'
  BY <1>1, <1>5, <1>9 DEF StackOK, TypeOK
<1>10. CASE queued' = queued \cup FileAt(p) /\ UNCHANGED <<stack, wd_list, watch, exited>>
  BY <1>6, <1>8, <1>9, <1>10 DEF TypeOK
<1>11. CASE ScanBoth(p) /\ UNCHANGED <<queued, wd_list, watch, exited>> /\ known /\ e.isdir /\ e.what = "add"
  <2>1. stack' \in Seq(Frames) /\ StackOK'
    BY <1>1, <1>3, <1>5, <1>11, ScanBothShape
  <2> QED
    BY <1>8, <1>11, <2>1 DEF TypeOK
<1>12. CASE Exit /\ UNCHANGED <<queued, stack, wd_list, watch>> /\ ~known
  BY <1>8, <1>9, <1>12 DEF TypeOK, Exit
<1>13. CASE del_monitor_dir(p) /\ UNCHANGED <<queued, stack, exited>> /\ known /\ e.isdir /\ e.what = "del"
  <2>1. CASE NodesOfPath(p) = {}
    BY <1>8, <1>9, <1>13, <2>1 DEF TypeOK, del_monitor_dir
  <2>2. CASE NodesOfPath(p) # {}
    <3>a. PICK i \in 1..Len(wd_list) : TakenOut(i)
      BY <1>13, <2>2, DelMonitorDirIs
    <3>1. /\ wd_list' \in Seq(Nodes) /\ watch' \in [Dirs -> 0..MaxWd]
          /\ \A d \in Dirs : watch'[d] = IF watch[d] = wd_list[i].wd THEN 0 ELSE watch[d]
          /\ \A k \in 1..Len(wd_list') : \E j \in 1..Len(wd_list) : j # i /\ wd_list'[k] = wd_list[j]
          /\ \A j \in 1..Len(wd_list) : j # i => \E k \in 1..Len(wd_list') : wd_list'[k] = wd_list[j]
      BY <3>a DEF TakenOut
    <3>2. TypeOK'
      BY <1>1, <1>2, <1>13, <3>1 DEF TypeOK, treeVars, boundVars
    <3>3. \A d \in Dirs : watch'[d] # 0 =>
            Exists(d) /\ watch'[d] < nextwd /\ \E k \in 1..Len(wd_list') : wd_list'[k].wd = watch'[d]
      <4> SUFFICES ASSUME NEW d \in Dirs, watch'[d] # 0
                   PROVE  Exists(d) /\ watch'[d] < nextwd /\ \E k \in 1..Len(wd_list') : wd_list'[k].wd = watch'[d]
        OBVIOUS
      <4>1. watch'[d] = watch[d] /\ watch[d] # wd_list[i].wd /\ watch[d] # 0
        BY <3>1
      <4>2. PICK j \in 1..Len(wd_list) : wd_list[j].wd = watch[d]
        BY <4>1 DEF WdOK
      <4>3. j # i
        BY <4>1, <4>2
      <4>4. PICK k \in 1..Len(wd_list') : wd_list'[k] = wd_list[j]
        BY <3>1, <4>3
      <4>5. Exists(d) /\ watch[d] < nextwd
        BY <4>1 DEF WdOK
      <4> QED
        BY <4>1, <4>2, <4>4, <4>5
    <3>4. \A d, x \in Dirs : watch'[d] # 0 /\ watch'[d] = watch'[x] => d = x
      <4>1. \A d \in Dirs : watch'[d] # 0 => watch'[d] = watch[d]
        BY <3>1
      <4> QED
        BY <4>1 DEF WdOK
    <3>5. \A k \in 1..Len(wd_list') : wd_list'[k].wd < nextwd
      BY <3>1 DEF WdOK
    <3>6. \A d \in Dirs : Exists(d) => Exists(d)'
      BY <1>1 DEF Exists, treeVars
    <3>7. WdOK'
      BY <1>1, <1>4, <3>3, <3>4, <3>5, <3>6 DEF WdOK
    <3>8. StackOK'
      BY <1>1, <1>5, <1>13 DEF StackOK
    <3> QED
      BY <1>7, <3>2, <3>7, <3>8
  <2> QED
    BY <2>1, <2>2
<1>14. CASE UNCHANGED <<queued, stack, wd_list, watch, exited>>
  BY <1>8, <1>9, <1>14 DEF TypeOK
<1> QED
  BY <1>1, <1>10, <1>11, <1>12, <1>13, <1>14 DEF Handled

LEMMA ShapeInit == Init => ShapeInv
<1> SUFFICES ASSUME Init PROVE ShapeInv
  OBVIOUS
<1>1. TypeOK
  <2>1. at \in [Dirs -> Paths \cup {NoPath}] /\ watch \in [Dirs -> 0..MaxWd] /\ nextwd \in 1..(MaxWd + 1)
    BY PathFacts, TreeAssumption DEF Init
  <2>2. renamed \in Nat /\ removed \in Nat /\ renamed + removed <= MaxChanges
    BY TreeAssumption DEF Init
  <2>3. events \in Seq(Events) /\ wd_list \in Seq(Nodes) /\ stack \in Seq(Frames)
    BY DEF Init
  <2>4. started \in BOOLEAN /\ exited \in BOOLEAN /\ early \in BOOLEAN
    BY DEF Init
  <2>5. files \in SUBSET (Dirs \X FileNames) /\ queued \subseteq Dirs \X FileNames
    BY DEF Init
  <2> QED
    BY <2>1, <2>2, <2>3, <2>4, <2>5 DEF TypeOK
<1>2. IsTree(at)
  <2>1. at[Root] = <<>> /\ \A d \in Dirs : d # Root => at[d] = NoPath
    BY TreeAssumption DEF Init
  <2>2. \A k \in 0..Len(<<>>) : SubSeq(<<>>, 1, k) = <<>>
    OBVIOUS
  <2> QED
    BY <2>1, <2>2, TreeAssumption DEF IsTree
<1>3. TreeOK
  BY <1>2 DEF TreeOK, Init
<1>4. WdOK
  BY DEF WdOK, Init
<1>5. StackOK
  BY DEF StackOK, Waits, Init
<1> QED
  BY <1>1, <1>3, <1>4, <1>5 DEF ShapeInv

LEMMA ShapeNext == ASSUME ShapeInv, [Next]_vars PROVE ShapeInv'
<1>1. CASE Others
  BY <1>1, ShapeOfOthers
<1>2. CASE monitor_handle
  <2>1. ASSUME NEW name \in DirNames \cup FileNames, ReadEntry(name)
        PROVE  ShapeInv'
    BY <2>1, ReadEntryShape
  <2> QED
    BY <1>2, <2>1, StartShape, AddWatchShape, FindWdShape, OpenDirShape, EndDirShape, HandleEventShape
    DEF monitor_handle
<1>3. CASE UNCHANGED vars
  <2> USE <1>3 DEF vars, treeVars, kernelVars, monVars, boundVars
  <2>1. TypeOK'
    BY DEF ShapeInv, TypeOK
  <2>2. TreeOK' /\ WdOK' /\ StackOK'
    BY DEF ShapeInv, TreeOK, WdOK, StackOK, Exists
  <2> QED
    BY <2>1, <2>2 DEF ShapeInv
<1> QED
  BY <1>1, <1>2, <1>3 DEF Next

-----------------------------------------------------------------------------
(***************************************************************************)
(* The events, the nodes and the calls, as sets.                           *)
(***************************************************************************)
LEMMA PendingGrows ==
  ASSUME TypeOK, NEW s \in Seq(Events), events' = events \o s
  PROVE  /\ Pending \subseteq Pending'
         /\ \A e \in Pending' : e \in Pending \/ \E k \in 1..Len(s) : e = s[k]
         /\ \A k \in 1..Len(s) : s[k] \in Pending'
<1>1. /\ events' \in Seq(Events) /\ Len(events') = Len(events) + Len(s)
      /\ \A k \in 1..Len(events) : k \in 1..Len(events') /\ events'[k] = events[k]
      /\ \A k \in 1..Len(events') : k > Len(events) => k - Len(events) \in 1..Len(s) /\ events'[k] = s[k - Len(events)]
  BY EventsAdded
<1>2. Pending \subseteq Pending'
  BY <1>1 DEF Pending
<1>3. ASSUME NEW e \in Pending'
      PROVE  e \in Pending \/ \E k \in 1..Len(s) : e = s[k]
  <2>1. PICK k \in 1..Len(events') : e = events'[k]
    BY DEF Pending
  <2>2. CASE k <= Len(events)
    <3>1. k \in 1..Len(events) /\ events'[k] = events[k]
      BY <1>1, <2>2
    <3> QED
      BY <2>1, <3>1 DEF Pending
  <2>3. CASE k > Len(events)
    BY <1>1, <2>1, <2>3
  <2>4. Len(events) \in Nat
    BY DEF TypeOK
  <2> QED
    BY <2>2, <2>3, <2>4
<1>4. ASSUME NEW k \in 1..Len(s)
      PROVE  s[k] \in Pending'
  <2>1. Len(events) \in Nat /\ Len(s) \in Nat
    BY LenProperties DEF TypeOK
  <2> DEFINE j == Len(events) + k
  <2>2. j \in 1..Len(events') /\ j > Len(events) /\ j - Len(events) = k
    BY <1>1, <2>1
  <2> HIDE DEF j
  <2>3. events'[j] = s[k]
    BY <1>1, <2>2
  <2> QED
    BY <2>2, <2>3 DEF Pending
<1> QED
  BY <1>2, <1>3, <1>4

\* The kernel reports one change.
LEMMA PendingTold ==
  ASSUME TypeOK, NEW d \in Dirs, NEW what \in {"add", "del"}, NEW name, NEW isdir \in BOOLEAN,
         isdir => name \in DirNames, ~isdir => name \in FileNames /\ what = "add",
         events' = events \o Event(d, what, name, isdir)
  PROVE  LET new == [wd |-> watch[d], what |-> what, name |-> name, isdir |-> isdir] IN
         /\ Pending \subseteq Pending'
         /\ \A e \in Pending' : e \in Pending \/ (watch[d] # 0 /\ e = new)
         /\ watch[d] # 0 => new \in Pending'
<1> DEFINE new == [wd |-> watch[d], what |-> what, name |-> name, isdir |-> isdir]
           s == Event(d, what, name, isdir)
<1>1. s \in Seq(Events) /\ (watch[d] = 0 => s = <<>>) /\ (watch[d] # 0 => s = <<new>>)
  BY EventTyped
<1>2. events' = events \o s
  OBVIOUS
<1> HIDE DEF s, new
<1>3. /\ Pending \subseteq Pending'
      /\ \A e \in Pending' : e \in Pending \/ \E k \in 1..Len(s) : e = s[k]
      /\ \A k \in 1..Len(s) : s[k] \in Pending'
  BY <1>1, <1>2, PendingGrows
<1>4. CASE watch[d] = 0
  BY <1>1, <1>3, <1>4 DEF new
<1>5. CASE watch[d] # 0
  <2>1. Len(s) = 1 /\ s[1] = new
    BY <1>1, <1>5
  <2>2. \A k \in 1..Len(s) : k = 1
    BY <2>1
  <2>3. 1 \in 1..Len(s)
    BY <2>1
  <2> QED
    BY <1>3, <1>5, <2>1, <2>2, <2>3 DEF new
<1> QED
  BY <1>4, <1>5

LEMMA PendingPopped ==
  ASSUME events \in Seq(Events), events # <<>>, events' = Tail(events)
  PROVE  Pending' \subseteq Pending /\ Pending \subseteq Pending' \cup {events[1]} /\ events[1] \in Pending
<1>1. /\ Len(events) \in Nat \ {0}
      /\ \A k \in 1..Len(events') : k + 1 \in 1..Len(events) /\ events'[k] = events[k + 1]
      /\ \A k \in 1..Len(events) : k # 1 => k - 1 \in 1..Len(events') /\ events[k] = events'[k - 1]
  BY EventsPopped
<1>2. Pending' \subseteq Pending
  BY <1>1 DEF Pending
<1>3. Pending \subseteq Pending' \cup {events[1]}
  <2> SUFFICES ASSUME NEW k \in 1..Len(events), k # 1
               PROVE  events[k] \in Pending'
    BY DEF Pending
  <2> QED
    BY <1>1 DEF Pending
<1>4. 1 \in 1..Len(events)
  BY <1>1
<1> QED
  BY <1>2, <1>3, <1>4 DEF Pending

LEMMA PendingIs ==
  ASSUME TypeOK, NEW e \in Pending
  PROVE  /\ e \in Events /\ e.wd \in Nat \ {0} /\ e.what \in {"add", "del"} /\ e.name \in DirNames \cup FileNames
         /\ (e.isdir => e.name \in DirNames) /\ (~e.isdir => e.name \in FileNames /\ e.what = "add")
<1>1. e \in Events
  BY ElementOfSeq DEF Pending, TypeOK
<1> QED
  BY <1>1, EventFields

LEMMA ListedIs ==
  ASSUME TypeOK, NEW n \in Listed
  PROVE  n.path \in Seq(DirNames) /\ n.wd \in Nat \ {0}
BY NodeIs DEF Listed, TypeOK

\* The calls below the innermost one.
Rest == {stack[i] : i \in 2..Len(stack)}

LEMMA CallsAre ==
  ASSUME TypeOK, stack # <<>>
  PROVE  Calls = {Top} \cup Rest
<1>1. Len(stack) \in Nat \ {0}
  BY EmptySeq, LenProperties DEF TypeOK
<1>2. 1..Len(stack) = {1} \cup 2..Len(stack)
  BY <1>1
<1> QED
  BY <1>2 DEF Calls, Rest, Top

LEMMA CallsReplaced ==
  ASSUME TypeOK, stack # <<>>, NEW g \in Frames, stack' = [stack EXCEPT ![1] = g]
  PROVE  Calls' = {g} \cup Rest
<1>1. /\ Len(stack') = Len(stack) /\ stack'[1] = g /\ Len(stack) \in Nat \ {0}
      /\ \A i \in 1..Len(stack) : i # 1 => stack'[i] = stack[i]
  BY Replaced, EmptySeq, LenProperties DEF TypeOK
<1>2. 1..Len(stack) = {1} \cup 2..Len(stack) /\ \A i \in 2..Len(stack) : stack'[i] = stack[i]
  BY <1>1
<1> QED
  BY <1>1, <1>2 DEF Calls, Rest

LEMMA CallsPopped ==
  ASSUME TypeOK, stack # <<>>, stack' = Tail(stack)
  PROVE  Calls' = Rest
<1>1. /\ Len(stack') = Len(stack) - 1 /\ Len(stack) \in Nat \ {0}
      /\ \A i \in 1..Len(stack') : i + 1 \in 1..Len(stack) /\ stack'[i] = stack[i + 1]
      /\ \A i \in 1..Len(stack) : i # 1 => i - 1 \in 1..Len(stack') /\ stack[i] = stack'[i - 1]
  BY Popped DEF TypeOK
<1>2. Calls' \subseteq Rest
  <2>1. \A i \in 1..Len(stack') : i + 1 \in 2..Len(stack)
    BY <1>1
  <2> QED
    BY <1>1, <2>1 DEF Calls, Rest
<1>3. Rest \subseteq Calls'
  <2>1. \A i \in 2..Len(stack) : i \in 1..Len(stack) /\ i # 1
    BY <1>1
  <2> QED
    BY <1>1, <2>1 DEF Calls, Rest
<1> QED
  BY <1>2, <1>3

\* The names from a directory down.
LEMMA InIs ==
  ASSUME TypeOK, TreeOK, NEW d \in Dirs, Exists(d)
  PROVE  /\ d # Root => In(d) # {}
         /\ \A p \in In(d) : /\ p \in Dirs /\ Exists(p) /\ p # d /\ at[p] = Front(at[d]) /\ at[p] \in Seq(DirNames)
                             /\ at[d] = Append(at[p], Last(at[d])) /\ Last(at[d]) \in DirNames
                             /\ IsPrefix(at[p], at[d]) /\ d # Root
<1>1. CASE d = Root
  BY <1>1 DEF In
<1>2. CASE d # Root
  <2>1. /\ Last(at[d]) \in DirNames /\ Front(at[d]) \in Seq(DirNames)
        /\ at[d] = Append(Front(at[d]), Last(at[d])) /\ DirAt(Front(at[d])) # {}
        /\ \A p \in DirAt(Front(at[d])) : Exists(p) /\ at[p] = Front(at[d]) /\ p # d
    BY <1>2, ParentIs
  <2>2. IsPrefix(Front(at[d]), at[d])
    <3>1. IsPrefix(Front(at[d]), Front(at[d]))
      BY <2>1, PrefixIs
    <3> QED
      BY <2>1, <3>1, PrefixAppend
  <2>3. \A p \in DirAt(Front(at[d])) : p \in Dirs
    BY DEF DirAt
  <2> QED
    BY <1>2, <2>1, <2>2, <2>3 DEF In
<1> QED
  BY <1>1, <1>2

LEMMA OneAtAPath ==
  ASSUME TreeOK, NEW d \in Dirs, NEW e \in Dirs, Exists(d), at[d] = at[e]
  PROVE  d = e
BY DEF TreeOK, IsTree, Exists

\* The next step on the way to a file.
LEMMA TowardsIs ==
  ASSUME TypeOK, TreeOK, NEW f \in files, NEW y \in Dirs, OnTheWay(y, f)
  PROVE  /\ f[1] \in Dirs /\ Exists(f[1]) /\ f[2] \in FileNames /\ Towards(y, f) \in Entries(y)
         /\ y # f[1] => \E x \in Dirs : /\ OnTheWay(x, f) /\ x # Root /\ y \in In(x)
                                        /\ at[x] = Append(at[y], Towards(y, f)) /\ Last(at[x]) = Towards(y, f)
<1>1. f[1] \in Dirs /\ Exists(f[1]) /\ f[2] \in FileNames
  BY DEF TypeOK, TreeOK
<1>2. CASE y = f[1]
  BY <1>1, <1>2, EntriesAre DEF Towards
<1>3. ASSUME y # f[1]
      PROVE  /\ Towards(y, f) \in Entries(y)
             /\ \E x \in Dirs : /\ OnTheWay(x, f) /\ x # Root /\ y \in In(x)
                                /\ at[x] = Append(at[y], Towards(y, f)) /\ Last(at[x]) = Towards(y, f)
  <2> DEFINE q == at[f[1]]
             p == at[y]
             r == SubSeq(q, 1, Len(p) + 1)
  <2>1. q \in Seq(DirNames) /\ p \in Seq(DirNames) /\ IsPrefix(p, q) /\ Exists(y)
    BY <1>1, AtTyped DEF OnTheWay
  <2>2. p # q
    BY <1>1, <1>3, <2>1, OneAtAPath
  <2>3. Towards(y, f) = q[Len(p) + 1]
    BY <1>3 DEF Towards
  <2> HIDE DEF p, q
  <2>4. Len(p) + 1 \in 1..Len(q) /\ r # <<>> /\ Front(r) = p /\ Last(r) = q[Len(p) + 1]
    BY <2>1, <2>2, NextStep
  <2> DEFINE k == Len(p) + 1
  <2>5. k \in 0..Len(q)
    BY <2>1, <2>4
  <2> HIDE DEF k
  <2>6. /\ SubSeq(q, 1, k) \in Seq(DirNames) /\ Len(SubSeq(q, 1, k)) = k
        /\ \A i \in 1..k : SubSeq(q, 1, k)[i] = q[i]
    BY <2>1, <2>5, SubSeqTyped
  <2>7. r \in Seq(DirNames) /\ Len(r) = k /\ \A i \in 1..k : r[i] = q[i]
    BY <2>6 DEF k
  <2> HIDE DEF r
  <2>8. IsPrefix(r, q)
    BY <2>1, <2>5, <2>7, PrefixIs
  <2>9. PICK x \in Dirs : Exists(x) /\ at[x] = r
    BY <1>1, <2>7, <2>8, PrefixExists DEF q
  <2>10. x # Root
    BY <2>4, <2>9 DEF TreeOK, IsTree
  <2>11. y \in In(x)
    BY <2>4, <2>9, <2>10 DEF In, DirAt, p
  <2>12. at[x] = Append(at[y], Last(at[x]))
    BY <2>9, <2>11, InIs
  <2>13. Last(at[x]) \in Entries(y)
    BY <2>1, <2>4, <2>9, <2>10, EntriesAre DEF p
  <2>14. OnTheWay(x, f)
    BY <2>8, <2>9 DEF OnTheWay, q
  <2> QED
    BY <2>3, <2>4, <2>9, <2>10, <2>11, <2>12, <2>13, <2>14
<1> QED
  BY <1>1, <1>2, <1>3

-----------------------------------------------------------------------------
(***************************************************************************)
(* Descriptors resolve to the paths of their inodes.                       *)
(***************************************************************************)
\* Nothing is added that could resolve to a wrong path.
LEMMA PathsKept ==
  ASSUME TypeOK, PathsOK, Pending' \subseteq Pending, Listed' \subseteq Listed,
         \A d \in Dirs : watch'[d] # 0 => watch'[d] = watch[d] /\ at'[d] = at[d],
         \A d \in Dirs : at'[d] = at[d] \/ at'[d] = NoPath
  PROVE  PathsOK'
<1>1. \A d \in Dirs, n \in Listed' : watch'[d] # 0 /\ n.wd = watch'[d] => n.path = at'[d]
  BY DEF PathsOK
<1>2. ASSUME NEW e \in Pending', NEW n \in Listed', e.what = "del", n.wd = e.wd
      PROVE  DirAt(Append(n.path, e.name))' = {}
  <2>1. DirAt(Append(n.path, e.name)) = {}
    BY <1>2 DEF PathsOK
  <2>2. Append(n.path, e.name) # NoPath
    <3>1. n.path \in Seq(DirNames \cup FileNames) /\ e.name \in DirNames \cup FileNames
      <4>1. n.path \in Seq(DirNames)
        BY ListedIs
      <4> QED
        BY <4>1, PendingIs
    <3>2. Append(n.path, e.name) \in Seq(DirNames \cup FileNames)
      BY <3>1, AppendProperties
    <3> QED
      BY <3>2, NoPathAssumption
  <2> QED
    BY <2>1, <2>2 DEF DirAt
<1> QED
  BY <1>1, <1>2 DEF PathsOK

LEMMA PathsMkdir ==
  ASSUME ShapeInv, PathsOK, NEW d \in Dirs, NEW e \in Dirs, NEW name \in NewNames, Mkdir(d, e, name), ~early'
  PROVE  PathsOK'
<1> USE DEF ShapeInv
<1>1. /\ ~Exists(e) /\ at'[e] = Append(at[d], name) /\ \A x \in Dirs : x # e => at'[x] = at[x]
      /\ name \in DirNames
  BY MkdirShape
<1>2. /\ events' = events \o Event(d, "add", name, TRUE) /\ watch' = watch /\ wd_list' = wd_list
      /\ ~ToBeDeleted(Append(at[d], name))
  BY DEF Mkdir, monVars
<1>4. \A v \in Pending' : v.what = "del" => v \in Pending
  <2>1. \A v \in Pending' : v \in Pending \/ v = [wd |-> watch[d], what |-> "add", name |-> name, isdir |-> TRUE]
    BY <1>1, <1>2, PendingTold
  <2> QED
    BY <2>1
<1>5. Listed' = Listed
  BY <1>2 DEF Listed
<1>6. ASSUME NEW x \in Dirs, NEW n \in Listed', watch'[x] # 0, n.wd = watch'[x]
      PROVE  n.path = at'[x]
  BY <1>1, <1>2, <1>5, <1>6 DEF PathsOK, WdOK
<1>7. ASSUME NEW v \in Pending', NEW n \in Listed', v.what = "del", n.wd = v.wd
      PROVE  DirAt(Append(n.path, v.name))' = {}
  <2>1. v \in Pending /\ n \in Listed
    BY <1>4, <1>5, <1>7
  <2>2. DirAt(Append(n.path, v.name)) = {}
    BY <1>7, <2>1 DEF PathsOK
  <2>3. PICK k \in 1..Len(events) : v = events[k]
    BY <2>1 DEF Pending
  <2>4. PICK i \in 1..Len(wd_list) : n = wd_list[i]
    BY <2>1 DEF Listed
  <2>5. i \in NodesOfWd(events[k].wd)
    BY <1>7, <2>3, <2>4 DEF NodesOfWd
  <2>6. Append(at[d], name) # Append(n.path, v.name)
    BY <1>2, <1>7, <2>3, <2>4, <2>5 DEF ToBeDeleted
  <2> QED
    BY <1>1, <2>2, <2>6 DEF DirAt
<1> QED
  BY <1>6, <1>7 DEF PathsOK

LEMMA PathsCreateFile ==
  ASSUME ShapeInv, PathsOK, NEW d \in Dirs, NEW name \in FileNames, CreateFile(d, name)
  PROVE  PathsOK'
<1> USE DEF ShapeInv
<1>1. /\ events' = events \o Event(d, "add", name, FALSE) /\ UNCHANGED <<at, watch, wd_list>>
  BY DEF CreateFile, monVars
<1>3. \A v \in Pending' : v.what = "del" => v \in Pending
  <2>1. \A v \in Pending' : v \in Pending \/ v = [wd |-> watch[d], what |-> "add", name |-> name, isdir |-> FALSE]
    BY <1>1, PendingTold
  <2> QED
    BY <2>1
<1>4. Listed' = Listed /\ \A p : DirAt(p)' = DirAt(p)
  BY <1>1 DEF Listed, DirAt
<1> QED
  BY <1>1, <1>3, <1>4 DEF PathsOK

LEMMA PathsRmdir ==
  ASSUME ShapeInv, PathsOK, NEW e \in Dirs, Rmdir(e)
  PROVE  PathsOK'
<1> USE DEF ShapeInv
<1>1. /\ Exists(e) /\ e # Root /\ at'[e] = NoPath /\ watch'[e] = 0
      /\ \A x \in Dirs : x # e => at'[x] = at[x] /\ watch'[x] = watch[x]
  BY RmdirShape
<1>2. PICK p \in Dirs : Exists(p) /\ at[p] = Front(at[e]) /\ events' = events \o Event(p, "del", Last(at[e]), TRUE)
  BY RmdirShape
<1>3. /\ at[e] = Append(at[p], Last(at[e])) /\ Last(at[e]) \in DirNames
  BY <1>1, <1>2, ParentIs
<1>6. \A v \in Pending' : v \in Pending \/ (watch[p] # 0 /\ v.wd = watch[p] /\ v.name = Last(at[e]))
  <2>1. \A v \in Pending' : v \in Pending \/
          (watch[p] # 0 /\ v = [wd |-> watch[p], what |-> "del", name |-> Last(at[e]), isdir |-> TRUE])
    BY <1>2, <1>3, PendingTold
  <2> QED
    BY <2>1
<1>7. Listed' = Listed
  BY DEF Rmdir, Listed, monVars
<1>8. ASSUME NEW x \in Dirs, NEW n \in Listed', watch'[x] # 0, n.wd = watch'[x]
      PROVE  n.path = at'[x]
  BY <1>1, <1>7, <1>8 DEF PathsOK
<1>9. ASSUME NEW v \in Pending', NEW n \in Listed', v.what = "del", n.wd = v.wd
      PROVE  DirAt(Append(n.path, v.name))' = {}
  <2>1. n \in Listed /\ n.path \in Seq(DirNames)
    BY <1>7, ListedIs
  <2>2. CASE v \in Pending
    <3>1. DirAt(Append(n.path, v.name)) = {}
      BY <1>9, <2>1, <2>2 DEF PathsOK
    <3>2. Append(n.path, v.name) # NoPath
      <4>1. n.path \in Seq(DirNames \cup FileNames) /\ v.name \in DirNames \cup FileNames
        BY <2>1, <2>2, PendingIs
      <4>2. Append(n.path, v.name) \in Seq(DirNames \cup FileNames)
        BY <4>1, AppendProperties
      <4> QED
        BY <4>2, NoPathAssumption
    <3> QED
      BY <1>1, <3>1, <3>2 DEF DirAt
  <2>3. CASE watch[p] # 0 /\ v.wd = watch[p] /\ v.name = Last(at[e])
    <3>1. n.path = at[p]
      BY <1>9, <2>1, <2>3 DEF PathsOK
    <3>2. Append(n.path, v.name) = at[e]
      BY <1>3, <2>3, <3>1
    <3>3. \A x \in Dirs : at'[x] # at[e]
      BY <1>1, OneAtAPath DEF Exists
    <3> QED
      BY <3>2, <3>3 DEF DirAt
  <2> QED
    BY <1>6, <2>2, <2>3
<1> QED
  BY <1>8, <1>9 DEF PathsOK

\* What inotify_add_watch and the new node do, when the directory is there.
LEMMA AddWatchIs ==
  ASSUME ShapeInv, AddWatch, ~exited'
  PROVE  /\ stack # <<>> /\ started /\ Top.fn = "add_monitor_dir" /\ Top.pc = "enter"
         /\ UNCHANGED <<treeVars, events, started, queued, boundVars>>
         /\ \E d \in Dirs, g \in Frames :
              /\ Exists(d) /\ at[d] = Top.path
              /\ watch'[d] = (IF watch[d] = 0 THEN nextwd ELSE watch[d]) /\ watch'[d] # 0
              /\ \A x \in Dirs : x # d => watch'[x] = watch[x]
              /\ Listed' = Listed \cup {[wd |-> watch'[d], path |-> at[d]]}
              /\ g.fn = "add_monitor_dir" /\ g.pc = "open" /\ g.path = at[d]
              /\ Calls' = {g} \cup Rest
<1> USE DEF ShapeInv
<1>1. /\ stack # <<>> /\ Top.fn = "add_monitor_dir" /\ Top.pc = "enter"
      /\ UNCHANGED <<treeVars, events, started, queued, boundVars>>
  BY DEF AddWatch, AtStep
<1>2. PICK d \in DirAt(Top.path) :
        /\ watch' = [watch EXCEPT ![d] = IF @ = 0 THEN nextwd ELSE @]
        /\ wd_list' = Append(wd_list, [wd |-> watch'[d], path |-> Top.path])
        /\ stack' = [stack EXCEPT ![1].pc = "open"]
  BY DEF AddWatch, Exit
<1>3. d \in Dirs /\ at[d] = Top.path /\ Top \in Frames /\ Top.path \in Seq(DirNames) /\ started /\ stack[1] = Top
  BY <1>1, TopIs DEF DirAt
<1>4. Exists(d)
  BY <1>3, PathFacts DEF Exists
<1>5. /\ watch'[d] = (IF watch[d] = 0 THEN nextwd ELSE watch[d]) /\ \A x \in Dirs : x # d => watch'[x] = watch[x]
  BY <1>2, <1>3 DEF TypeOK
<1>6. watch'[d] # 0
  BY <1>5 DEF TypeOK
<1> DEFINE n == [wd |-> watch'[d], path |-> at[d]]
           g == [Top EXCEPT !.pc = "open"]
<1>7. Listed' = Listed \cup {n}
  <2>1. TypeOK'
    BY AddWatchShape
  <2>2. watch'[d] \in 1..MaxWd
    BY <1>3, <1>6, <2>1, TreeAssumption DEF TypeOK
  <2>3. n \in Nodes /\ wd_list \in Seq(Nodes) /\ wd_list' = Append(wd_list, n)
    BY <1>2, <1>3, <2>2 DEF Nodes, TypeOK
  <2> HIDE DEF n
  <2>4. /\ Len(wd_list') = Len(wd_list) + 1 /\ Len(wd_list) \in Nat
        /\ wd_list'[Len(wd_list) + 1] = n /\ \A i \in 1..Len(wd_list) : wd_list'[i] = wd_list[i]
    BY <2>3, AppendProperties, LenProperties
  <2>5. 1..Len(wd_list') = 1..Len(wd_list) \cup {Len(wd_list) + 1}
    BY <2>4
  <2> QED
    BY <2>4, <2>5 DEF Listed
<1>8. g \in Frames /\ g.fn = "add_monitor_dir" /\ g.pc = "open" /\ g.path = at[d]
  BY <1>1, <1>3 DEF Frames
<1>9. stack' = [stack EXCEPT ![1] = g]
  BY <1>2, <1>3
<1> HIDE DEF g
<1>10. Calls' = {g} \cup Rest
  BY <1>1, <1>8, <1>9, CallsReplaced
<1> QED
  BY <1>1, <1>3, <1>4, <1>5, <1>6, <1>7, <1>8, <1>10

LEMMA PathsAddWatch ==
  ASSUME ShapeInv, PathsOK, AddWatch, ~exited'
  PROVE  PathsOK'
<1> USE DEF ShapeInv
<1>1. PICK d \in Dirs :
        /\ Exists(d)
        /\ watch'[d] = (IF watch[d] = 0 THEN nextwd ELSE watch[d]) /\ watch'[d] # 0
        /\ \A x \in Dirs : x # d => watch'[x] = watch[x]
        /\ Listed' = Listed \cup {[wd |-> watch'[d], path |-> at[d]]}
  BY AddWatchIs
<1>2. UNCHANGED <<at, events>>
  BY AddWatchIs DEF treeVars
<1>3. /\ \A n \in Listed : n.wd < nextwd /\ n.wd \in Nat
      /\ \A v \in Pending : v.wd < nextwd /\ v.wd \in Nat
      /\ \A x \in Dirs : watch[x] # 0 => watch[x] < nextwd /\ watch[x] \in Nat /\ \E n \in Listed : n.wd = watch[x]
      /\ nextwd \in Nat
  <2>1. nextwd \in Nat /\ \A x \in Dirs : watch[x] \in Nat
    BY TreeAssumption DEF TypeOK
  <2>2. \A n \in Listed : n.wd < nextwd /\ n.wd \in Nat
    BY ListedIs DEF WdOK, Listed
  <2>3. \A v \in Pending : v.wd < nextwd /\ v.wd \in Nat
    BY PendingIs DEF WdOK, Pending
  <2>4. \A x \in Dirs : watch[x] # 0 => watch[x] < nextwd /\ \E n \in Listed : n.wd = watch[x]
    BY DEF WdOK, Listed
  <2> QED
    BY <2>1, <2>2, <2>3, <2>4
<1> DEFINE m == [wd |-> watch'[d], path |-> at[d]]
<1>4. ASSUME NEW x \in Dirs, NEW n \in Listed', watch'[x] # 0, n.wd = watch'[x]
      PROVE  n.path = at'[x]
  <2>1. CASE n \in Listed /\ x # d
    BY <1>1, <1>2, <1>4, <2>1 DEF PathsOK
  <2>2. CASE n \in Listed /\ x = d
    <3>1. watch[d] # 0
      BY <1>1, <1>3, <1>4, <2>2
    <3> QED
      BY <1>1, <1>2, <1>4, <2>2, <3>1 DEF PathsOK
  <2>3. CASE n = m
    <3>1. watch'[x] = watch'[d]
      BY <1>4, <2>3
    <3>2. x = d
      BY <1>1, <1>3, <1>4, <3>1 DEF WdOK
    <3> QED
      BY <1>2, <2>3, <3>2
  <2> QED
    BY <1>1, <2>1, <2>2, <2>3
<1>5. ASSUME NEW v \in Pending', NEW n \in Listed', v.what = "del", n.wd = v.wd
      PROVE  DirAt(Append(n.path, v.name))' = {}
  <2>1. v \in Pending /\ \A p : DirAt(p)' = DirAt(p)
    BY <1>2 DEF Pending, DirAt
  <2>2. CASE n \in Listed
    BY <1>5, <2>1, <2>2 DEF PathsOK
  <2>3. CASE n = m
    <3>1. watch[d] # 0 /\ watch'[d] = watch[d] /\ v.wd = watch[d]
      BY <1>1, <1>3, <1>5, <2>1, <2>3
    <3>2. PICK j \in Listed : j.wd = watch[d]
      BY <1>3, <3>1
    <3>3. j.path = at[d]
      BY <3>1, <3>2 DEF PathsOK
    <3>4. DirAt(Append(j.path, v.name)) = {}
      BY <1>5, <2>1, <3>1, <3>2 DEF PathsOK
    <3> QED
      BY <2>1, <2>3, <3>3, <3>4
  <2> QED
    BY <1>1, <2>2, <2>3
<1> QED
  BY <1>4, <1>5 DEF PathsOK

\* What one event does to the watches, when its removal left none behind.
LEMMA HandleEventWatches ==
  ASSUME ShapeInv, PathsOK, HandleEvent
  PROVE  /\ watch' = watch /\ Listed' \subseteq Listed /\ Pending' \subseteq Pending
         /\ Pending \subseteq Pending' \cup {events[1]} /\ events[1] \in Pending
<1> USE DEF ShapeInv
<1> DEFINE e == Head(events)
           known == NodesOfWd(e.wd) # {}
           p == IF known THEN Append(wd_list[First(NodesOfWd(e.wd))].path, e.name) ELSE <<>>
<1>1. /\ Loop /\ events' = Tail(events) /\ Handled(e, p, known)
      /\ e = events[1] /\ 1 \in 1..Len(events)
  BY HandledIs
<1>2. /\ Pending' \subseteq Pending /\ Pending \subseteq Pending' \cup {events[1]} /\ events[1] \in Pending
  BY <1>1, PendingPopped DEF Loop, TypeOK
<1>3. watch' = watch /\ Listed' \subseteq Listed
  <2>1. CASE UNCHANGED <<watch, wd_list>>
    BY <2>1 DEF Listed
  <2>2. CASE del_monitor_dir(p) /\ known /\ e.what = "del" /\ NodesOfPath(p) # {}
    <3> DEFINE j == First(NodesOfWd(e.wd))
    <3>3. j \in 1..Len(wd_list) /\ wd_list[j].wd = e.wd
      BY <2>2, KnownPath
    <3>4. p = Append(wd_list[j].path, e.name)
      BY <2>2
    <3> HIDE DEF e, p, known, j
    <3>a. del_monitor_dir(p) /\ NodesOfPath(p) # {}
      BY <2>2
    <3>1. PICK i \in 1..Len(wd_list) : wd_list[i].path = p /\ TakenOut(i)
      BY <3>a, DelMonitorDirIs
    <3>2. Listed' \subseteq Listed
      BY <3>1 DEF Listed, TakenOut
    <3>5. DirAt(p) = {}
      BY <1>1, <1>2, <2>2, <3>3, <3>4 DEF PathsOK, Listed
    <3>6. ASSUME NEW d \in Dirs, watch[d] = wd_list[i].wd
          PROVE  FALSE
      <4>1. wd_list[i] \in Listed /\ watch[d] # 0
        BY <3>6, NodeIs DEF Listed, TypeOK
      <4>2. at[d] = p
        BY <3>1, <3>6, <4>1 DEF PathsOK
      <4> QED
        BY <3>5, <4>2 DEF DirAt
    <3>7. \A d \in Dirs : watch'[d] = watch[d]
      BY <3>1, <3>6 DEF TakenOut
    <3>8. watch' = watch
      BY <3>1, <3>7 DEF TypeOK, TakenOut
    <3> QED
      BY <3>2, <3>8
  <2>3. CASE del_monitor_dir(p) /\ NodesOfPath(p) = {}
    BY <2>3 DEF del_monitor_dir, Listed
  <2> HIDE DEF e, p, known
  <2> QED
    BY <1>1, <2>1, <2>2, <2>3 DEF Handled
<1> QED
  BY <1>2, <1>3

LEMMA PathsSame == PathsOK /\ UNCHANGED <<at, watch, events, wd_list>> => PathsOK'
<1> SUFFICES ASSUME PathsOK, UNCHANGED <<at, watch, events, wd_list>> PROVE PathsOK'
  OBVIOUS
<1>1. Pending' = Pending /\ Listed' = Listed /\ \A p : DirAt(p)' = DirAt(p)
  BY DEF Pending, Listed, DirAt
<1> QED
  BY <1>1 DEF PathsOK

LEMMA PathsMonitor ==
  ASSUME ShapeInv, PathsOK, monitor_handle, ~exited'
  PROVE  PathsOK'
<1> USE DEF ShapeInv
<1>1. ASSUME UNCHANGED <<at, watch, events, wd_list>>
      PROVE  PathsOK'
  BY <1>1, PathsSame
<1>2. CASE Start
  BY <1>1, <1>2 DEF Start, treeVars, kernelVars
<1>3. CASE AddWatch
  BY <1>3, PathsAddWatch
<1>4. CASE FindWd \/ OpenDir \/ EndDir
  BY <1>1, <1>4 DEF FindWd, OpenDir, EndDir, treeVars, kernelVars
<1>5. ASSUME NEW name \in DirNames \cup FileNames, ReadEntry(name)
      PROVE  PathsOK'
  BY <1>1, <1>5 DEF ReadEntry, treeVars, kernelVars
<1>6. CASE HandleEvent
  <2>1. at' = at
    BY <1>6, HandledIs DEF treeVars
  <2>2. watch' = watch /\ Listed' \subseteq Listed /\ Pending' \subseteq Pending
    BY <1>6, HandleEventWatches
  <2> QED
    BY <2>1, <2>2, PathsKept
<1> QED
  BY <1>2, <1>3, <1>4, <1>5, <1>6 DEF monitor_handle

LEMMA PathsNext ==
  ASSUME ShapeInv, PathsOK, [Next]_vars, renamed' = 0, ~early', ~exited'
  PROVE  PathsOK'
<1>1. CASE monitor_handle
  BY <1>1, PathsMonitor
<1>2. CASE Others
  <2>1. ASSUME NEW d \in Dirs, NEW e \in Dirs, NEW name \in NewNames, Mkdir(d, e, name)
        PROVE  PathsOK'
    BY <2>1, PathsMkdir
  <2>2. ASSUME NEW d \in Dirs, NEW e \in Dirs, NEW name \in DirNames, RenameDir(d, e, name)
        PROVE  PathsOK'
    BY <2>2, RenameDirShape
  <2>3. ASSUME NEW d \in Dirs, NEW name \in FileNames, CreateFile(d, name)
        PROVE  PathsOK'
    BY <2>3, PathsCreateFile
  <2>4. ASSUME NEW e \in Dirs, Rmdir(e)
        PROVE  PathsOK'
    BY <2>4, PathsRmdir
  <2>5. ASSUME NEW f \in files, ConsumeFile(f)
        PROVE  PathsOK'
    BY <2>5, PathsSame DEF ConsumeFile, kernelVars
  <2> QED
    BY <1>2, <2>1, <2>2, <2>3, <2>4, <2>5 DEF Others
<1>3. CASE UNCHANGED vars
  BY <1>3, PathsSame DEF vars, treeVars, kernelVars, monVars
<1> QED
  BY <1>1, <1>2, <1>3 DEF Next

-----------------------------------------------------------------------------
(***************************************************************************)
(* Every directory is watched, or will be.                                 *)
(***************************************************************************)
\* Others change something else, and the kernel tells of it.
LEMMA DirKept ==
  ASSUME TypeOK, TreeOK, NEW d \in Dirs, Exists(d), DirCovered(d), at'[d] = at[d], watch'[d] = watch[d],
         \A p \in In(d) : p \in In(d)' /\ at'[p] = at[p] /\ watch'[p] = watch[p],
         Pending \subseteq Pending', UNCHANGED <<stack, started>>
  PROVE  DirCovered(d)'
<1>1. CASE watch[d] # 0 \/ ~started
  BY <1>1 DEF DirCovered
<1>2. CASE Announced(d)
  <2>1. PICK p \in In(d) :
          watch[p] # 0 /\ [wd |-> watch[p], what |-> "add", name |-> Last(at[d]), isdir |-> TRUE] \in Pending
    BY <1>2 DEF Announced
  <2>2. p \in In(d)' /\ watch'[p] = watch[p]
    OBVIOUS
  <2>3. Announced(d)'
    BY <2>1, <2>2 DEF Announced
  <2> QED
    BY <2>3 DEF DirCovered
<1>3. ASSUME NEW s \in Calls, Enters(s, d)
      PROVE  DirCovered(d)'
  <2>1. s \in Calls'
    BY DEF Calls
  <2>2. Enters(s, d)'
    <3>1. CASE s.path = at[d] /\ s.pc = "enter"
      BY <1>3, <3>1 DEF Enters
    <3>2. CASE \E p \in In(d) : WillRead(s, p, Last(at[d]))
      <4>1. PICK p \in In(d) : WillRead(s, p, Last(at[d]))
        BY <3>2
      <4>2. WillRead(s, p, Last(at[d]))'
        BY <4>1 DEF WillRead
      <4> QED
        BY <1>3, <4>1, <4>2 DEF Enters
    <3> QED
      BY <1>3, <3>1, <3>2 DEF Enters
  <2> QED
    BY <2>1, <2>2 DEF DirCovered
<1>4. CASE \E p \in In(d) : watch[p] = 0
  BY <1>4 DEF DirCovered
<1> QED
  BY <1>1, <1>2, <1>3, <1>4 DEF DirCovered

LEMMA DirsMkdir ==
  ASSUME ShapeInv, DirsOK, NEW d \in Dirs, NEW e \in Dirs, NEW name \in NewNames, Mkdir(d, e, name)
  PROVE  DirsOK'
<1> USE DEF ShapeInv
<1>1. /\ ~Exists(e) /\ at'[e] = Append(at[d], name) /\ \A x \in Dirs : x # e => at'[x] = at[x]
      /\ name \in DirNames /\ e # d /\ at[d] \in Seq(DirNames)
  BY MkdirShape
<1>2. /\ events' = events \o Event(d, "add", name, TRUE) /\ watch' = watch
      /\ UNCHANGED <<stack, started>> /\ Exists(d) /\ e # Root
  BY TreeAssumption, PathFacts, <1>1 DEF Mkdir, monVars, TreeOK, IsTree, Exists
<1>3. /\ Pending \subseteq Pending'
      /\ watch[d] # 0 => [wd |-> watch[d], what |-> "add", name |-> name, isdir |-> TRUE] \in Pending'
  BY <1>1, <1>2, PendingTold
<1>4. ASSUME NEW x \in Dirs, x # e, Exists(x)
      PROVE  DirCovered(x)'
  <2>1. DirCovered(x) /\ at'[x] = at[x] /\ watch'[x] = watch[x]
    BY <1>1, <1>2, <1>4 DEF DirsOK
  <2>2. \A p \in In(x) : p \in In(x)' /\ at'[p] = at[p] /\ watch'[p] = watch[p]
    <3> SUFFICES ASSUME NEW p \in In(x) PROVE p \in In(x)' /\ at'[p] = at[p] /\ watch'[p] = watch[p]
      OBVIOUS
    <3>1. Exists(p) /\ p \in Dirs /\ x # Root /\ at[p] = Front(at[x])
      BY <1>4, InIs
    <3>2. p # e /\ at'[p] = at[p]
      BY <1>1, <3>1
    <3> QED
      BY <1>2, <2>1, <3>1, <3>2 DEF In, DirAt
  <2> QED
    BY <1>2, <1>3, <1>4, <2>1, <2>2, DirKept
<1>5. DirCovered(e)'
  <2>1. Front(at'[e]) = at[d] /\ Last(at'[e]) = name
    BY <1>1, AppendParts
  <2>2. d \in In(e)'
    BY <1>1, <1>2, <2>1 DEF In, DirAt
  <2>3. CASE watch[d] = 0
    BY <1>2, <2>2, <2>3 DEF DirCovered
  <2>4. CASE watch[d] # 0
    <3>1. Announced(e)'
      BY <1>2, <1>3, <2>1, <2>2, <2>4 DEF Announced
    <3> QED
      BY <3>1 DEF DirCovered
  <2> QED
    BY <2>3, <2>4
<1>6. \A x \in Dirs : x # e /\ Exists(x)' => Exists(x)
  BY <1>1 DEF Exists
<1> QED
  BY <1>4, <1>5, <1>6 DEF DirsOK

LEMMA DirsCreateFile ==
  ASSUME ShapeInv, DirsOK, NEW d \in Dirs, NEW name \in FileNames, CreateFile(d, name)
  PROVE  DirsOK'
<1> USE DEF ShapeInv
<1>1. /\ events' = events \o Event(d, "add", name, FALSE) /\ UNCHANGED <<at, watch, stack, started>>
  BY DEF CreateFile, monVars
<1>2. Pending \subseteq Pending'
  BY <1>1, PendingTold
<1>3. ASSUME NEW x \in Dirs, Exists(x)
      PROVE  DirCovered(x)'
  <2>1. DirCovered(x) /\ In(x)' = In(x)
    BY <1>1, <1>3 DEF DirsOK, In, DirAt
  <2> QED
    BY <1>1, <1>2, <1>3, <2>1, DirKept
<1>4. \A x \in Dirs : Exists(x)' => Exists(x)
  BY <1>1 DEF Exists
<1> QED
  BY <1>3, <1>4 DEF DirsOK

LEMMA DirsRmdir ==
  ASSUME ShapeInv, DirsOK, NEW e \in Dirs, Rmdir(e)
  PROVE  DirsOK'
<1> USE DEF ShapeInv
<1>1. /\ Exists(e) /\ e # Root /\ at'[e] = NoPath
      /\ \A x \in Dirs : x # e => at'[x] = at[x] /\ watch'[x] = watch[x]
      /\ \A x \in Dirs : Exists(x) /\ x # Root => Front(at[x]) # at[e]
  BY RmdirShape
<1>2. PICK p \in Dirs : events' = events \o Event(p, "del", Last(at[e]), TRUE)
  BY RmdirShape
<1>3. Last(at[e]) \in DirNames
  BY <1>1, ParentIs
<1>4. Pending \subseteq Pending'
  BY <1>2, <1>3, PendingTold
<1>5. UNCHANGED <<stack, started>>
  BY DEF Rmdir, monVars
<1>6. ASSUME NEW x \in Dirs, x # e, Exists(x)
      PROVE  DirCovered(x)'
  <2>1. DirCovered(x) /\ at'[x] = at[x] /\ watch'[x] = watch[x]
    BY <1>1, <1>6 DEF DirsOK
  <2>2. \A q \in In(x) : q \in In(x)' /\ at'[q] = at[q] /\ watch'[q] = watch[q]
    <3> SUFFICES ASSUME NEW q \in In(x) PROVE q \in In(x)' /\ at'[q] = at[q] /\ watch'[q] = watch[q]
      OBVIOUS
    <3>1. Exists(q) /\ q \in Dirs /\ x # Root /\ at[q] = Front(at[x])
      BY <1>6, InIs
    <3>2. q # e /\ at'[q] = at[q] /\ watch'[q] = watch[q]
      BY <1>1, <1>6, <3>1
    <3> QED
      BY <2>1, <3>1, <3>2 DEF In, DirAt
  <2> QED
    BY <1>4, <1>5, <1>6, <2>1, <2>2, DirKept
<1>7. \A x \in Dirs : Exists(x)' => x # e /\ Exists(x)
  BY <1>1 DEF Exists
<1> QED
  BY <1>6, <1>7 DEF DirsOK

LEMMA DirsSame ==
  ASSUME ShapeInv, DirsOK, UNCHANGED <<at, watch, events, stack, started>>
  PROVE  DirsOK'
<1>1. ASSUME NEW x \in Dirs, Exists(x)
      PROVE  DirCovered(x)'
  <2>1. DirCovered(x) /\ In(x)' = In(x)
    BY <1>1 DEF DirsOK, In, DirAt
  <2>2. Pending' = Pending
    BY DEF Pending
  <2> QED
    BY <1>1, <2>1, <2>2, DirKept DEF ShapeInv
<1>2. \A x \in Dirs : Exists(x)' => Exists(x)
  BY DEF Exists
<1> QED
  BY <1>1, <1>2 DEF DirsOK

\* One step of the scans, or their start.
LEMMA DirScanned ==
  ASSUME NEW d \in Dirs, DirCovered(d), UNCHANGED <<at, events>>, started,
         \A x \in Dirs : watch[x] # 0 => watch'[x] = watch[x], TypeOK, TreeOK, Exists(d),
         \A s \in Calls : Enters(s, d) => DirCovered(d)',
         \A p \in In(d) : watch[p] = 0 => DirCovered(d)'
  PROVE  DirCovered(d)'
<1>1. CASE watch[d] # 0
  BY <1>1 DEF DirCovered
<1>2. CASE Announced(d)
  <2>1. PICK p \in In(d) :
          watch[p] # 0 /\ [wd |-> watch[p], what |-> "add", name |-> Last(at[d]), isdir |-> TRUE] \in Pending
    BY <1>2 DEF Announced
  <2>2. p \in In(d)' /\ watch'[p] = watch[p] /\ Pending' = Pending
    BY <2>1, InIs DEF In, DirAt, Pending
  <2>3. Announced(d)'
    BY <2>1, <2>2 DEF Announced
  <2> QED
    BY <2>3 DEF DirCovered
<1> QED
  BY <1>1, <1>2 DEF DirCovered

LEMMA EntersSame ==
  ASSUME NEW s, NEW d, UNCHANGED at
  PROVE  Enters(s, d)' <=> Enters(s, d)
<1>1. In(d)' = In(d)
  BY DEF In, DirAt
<1> QED
  BY <1>1 DEF Enters, WillRead

LEMMA EntersCovers ==
  ASSUME UNCHANGED at, NEW d, NEW s \in Calls', Enters(s, d)
  PROVE  DirCovered(d)'
<1>1. Enters(s, d)'
  BY EntersSame
<1> QED
  BY <1>1 DEF DirCovered

LEMMA DirsAddWatch ==
  ASSUME ShapeInv, DirsOK, AddWatch, ~exited'
  PROVE  DirsOK'
<1> USE DEF ShapeInv
<1>1. /\ stack # <<>> /\ started /\ Top.fn = "add_monitor_dir" /\ Top.pc = "enter" /\ UNCHANGED <<at, events>>
  BY AddWatchIs DEF treeVars
<1>2. PICK d \in Dirs, g \in Frames :
        /\ Exists(d) /\ at[d] = Top.path /\ watch'[d] = (IF watch[d] = 0 THEN nextwd ELSE watch[d]) /\ watch'[d] # 0
        /\ \A x \in Dirs : x # d => watch'[x] = watch[x]
        /\ g.fn = "add_monitor_dir" /\ g.pc = "open" /\ g.path = at[d] /\ Calls' = {g} \cup Rest
  BY AddWatchIs
<1>3. Calls = {Top} \cup Rest
  BY <1>1, CallsAre
<1>4. ASSUME NEW x \in Dirs, Exists(x)
      PROVE  DirCovered(x)'
  <2>1. DirCovered(x)
    BY <1>4 DEF DirsOK
  <2>2. ASSUME NEW s \in Calls, Enters(s, x)
        PROVE  DirCovered(x)'
    <3>1. CASE s = Top
      <4>1. at[x] = at[d]
        BY <1>1, <1>2, <2>2, <3>1 DEF Enters, WillRead
      <4>2. x = d
        BY <1>2, <4>1, OneAtAPath
      <4> QED
        BY <1>2, <4>2 DEF DirCovered
    <3>2. CASE s \in Rest
      BY <1>1, <1>2, <2>2, <3>2, EntersCovers
    <3> QED
      BY <1>3, <3>1, <3>2
  <2>3. ASSUME NEW p \in In(x), watch[p] = 0
        PROVE  DirCovered(x)'
    <3>1. p \in Dirs /\ p \in In(x)'
      BY <1>1, <1>4, InIs DEF In, DirAt
    <3>2. CASE p # d
      BY <1>2, <2>3, <3>1, <3>2 DEF DirCovered
    <3>3. CASE p = d
      <4>1. Enters(g, x)
        BY <1>2, <3>3 DEF Enters, WillRead
      <4> QED
        BY <1>1, <1>2, <4>1, EntersCovers
    <3> QED
      BY <3>2, <3>3
  <2> QED
    BY <1>1, <1>2, <1>4, <2>1, <2>2, <2>3, DirScanned
<1>5. \A x \in Dirs : Exists(x)' => Exists(x)
  BY <1>1 DEF Exists
<1> QED
  BY <1>4, <1>5 DEF DirsOK

\* A step of a scan that adds no watch.
LEMMA DirsScanned ==
  ASSUME ShapeInv, DirsOK, UNCHANGED <<at, watch, events>>, started, started',
         \A d \in Dirs, s \in Calls : Exists(d) /\ Enters(s, d) => \E t \in Calls' : Enters(t, d)
  PROVE  DirsOK'
<1> USE DEF ShapeInv
<1>1. ASSUME NEW x \in Dirs, Exists(x)
      PROVE  DirCovered(x)'
  <2>1. DirCovered(x)
    BY <1>1 DEF DirsOK
  <2>2. ASSUME NEW s \in Calls, Enters(s, x)
        PROVE  DirCovered(x)'
    BY <1>1, <2>2, EntersCovers
  <2>3. ASSUME NEW p \in In(x), watch[p] = 0
        PROVE  DirCovered(x)'
    BY <2>3 DEF DirCovered, In, DirAt
  <2> QED
    BY <1>1, <2>1, <2>2, <2>3, DirScanned
<1>2. \A x \in Dirs : Exists(x)' => Exists(x)
  BY DEF Exists
<1> QED
  BY <1>1, <1>2 DEF DirsOK

\* The calls after each step of a scan.
LEMMA FindWdIs ==
  ASSUME ShapeInv, FindWd, ~exited'
  PROVE  /\ stack # <<>> /\ started /\ Top.fn = "add_upload_file" /\ Top.pc = "enter"
         /\ UNCHANGED <<treeVars, kernelVars, wd_list, started, queued, boundVars>>
         /\ \E g \in Frames : /\ g.fn = "add_upload_file" /\ g.pc = "open" /\ g.path = Top.path
                              /\ Calls' = {g} \cup Rest
<1> USE DEF ShapeInv
<1>1. /\ stack # <<>> /\ Top.fn = "add_upload_file" /\ Top.pc = "enter" /\ stack' = [stack EXCEPT ![1].pc = "open"]
      /\ UNCHANGED <<treeVars, kernelVars, wd_list, started, queued, boundVars>>
  BY DEF FindWd, AtStep, Exit
<1>2. Top \in Frames /\ stack[1] = Top /\ started
  BY <1>1, TopIs
<1> DEFINE g == [Top EXCEPT !.pc = "open"]
<1>3. g \in Frames /\ g.fn = "add_upload_file" /\ g.pc = "open" /\ g.path = Top.path
  BY <1>1, <1>2 DEF Frames
<1>4. stack' = [stack EXCEPT ![1] = g]
  BY <1>1, <1>2
<1> HIDE DEF g
<1>5. Calls' = {g} \cup Rest
  BY <1>1, <1>3, <1>4, CallsReplaced
<1> QED
  BY <1>1, <1>2, <1>3, <1>5

LEMMA OpenDirIs ==
  ASSUME ShapeInv, OpenDir, ~exited'
  PROVE  /\ stack # <<>> /\ started /\ Top.pc = "open" /\ UNCHANGED <<treeVars, kernelVars, wd_list, started, queued, boundVars>>
         /\ \E d \in Dirs, g \in Frames :
              /\ Exists(d) /\ at[d] = Top.path
              /\ g.fn = Top.fn /\ g.pc = "read" /\ g.path = Top.path /\ g.ino = d /\ g.must = Entries(d) /\ g.seen = {}
              /\ Calls' = {g} \cup Rest
<1> USE DEF ShapeInv
<1>1. /\ stack # <<>> /\ Top.pc = "open" /\ UNCHANGED <<treeVars, kernelVars, wd_list, started, queued, boundVars>>
  BY DEF OpenDir
<1>2. PICK d \in DirAt(Top.path) :
        stack' = [stack EXCEPT ![1].pc = "read", ![1].ino = d, ![1].must = Entries(d)]
  BY DEF OpenDir, Exit
<1>3. /\ Top \in Frames /\ stack[1] = Top /\ started /\ d \in Dirs /\ at[d] = Top.path /\ Top.path \in Seq(DirNames)
      /\ Top.seen = {}
  BY <1>1, TopIs DEF DirAt
<1>4. Exists(d)
  BY <1>3, PathFacts DEF Exists
<1> DEFINE g == [Top EXCEPT !.pc = "read", !.ino = d, !.must = Entries(d)]
<1>5. Entries(d) \in SUBSET (DirNames \cup FileNames)
  BY <1>3, EntriesAre
<1>6. /\ g \in Frames /\ g.fn = Top.fn /\ g.pc = "read" /\ g.path = Top.path /\ g.ino = d /\ g.must = Entries(d)
      /\ g.seen = {}
  BY <1>3, <1>5 DEF Frames
<1>7. stack' = [stack EXCEPT ![1] = g]
  BY <1>2, <1>3
<1> HIDE DEF g
<1>8. Calls' = {g} \cup Rest
  BY <1>1, <1>6, <1>7, CallsReplaced
<1> QED
  BY <1>1, <1>3, <1>4, <1>6, <1>8

LEMMA ReadEntryIs ==
  ASSUME ShapeInv, NEW name \in DirNames \cup FileNames, ReadEntry(name)
  PROVE  /\ stack # <<>> /\ started /\ Top.pc = "read"
         /\ UNCHANGED <<treeVars, kernelVars, wd_list, started, exited, boundVars>>
         /\ queued' = (IF Top.fn = "add_upload_file" THEN queued \cup FileAt(Append(Top.path, name)) ELSE queued)
         /\ Top.path \in Seq(DirNames)
         /\ \E g \in Frames :
              /\ g.fn = Top.fn /\ g.pc = "read" /\ g.path = Top.path /\ g.ino = Top.ino /\ g.must = Top.must
              /\ g.seen = Top.seen \cup {name}
              /\ {g} \cup Rest \subseteq Calls'
         /\ DirAt(Append(Top.path, name)) # {} => \E f \in Calls' :
              f.fn = Top.fn /\ f.pc = "enter" /\ f.path = Append(Top.path, name)
<1> USE DEF ShapeInv
<1> DEFINE p == Append(Top.path, name)
           g == [Top EXCEPT !.seen = @ \cup {name}]
           s == [stack EXCEPT ![1] = g]
           f == Frame(Top.fn, p, Root)
<1>1. /\ stack # <<>> /\ Top.pc = "read"
      /\ stack' = IF DirAt(p) # {} THEN <<f>> \o Seen(name) ELSE Seen(name)
      /\ queued' = IF Top.fn = "add_upload_file" THEN queued \cup FileAt(p) ELSE queued
      /\ UNCHANGED <<treeVars, kernelVars, wd_list, started, exited, boundVars>>
  BY DEF ReadEntry
<1>2. /\ Top \in Frames /\ stack[1] = Top /\ started /\ Top.path \in Seq(DirNames)
      /\ Top.fn \in {"add_monitor_dir", "add_upload_file"}
  BY <1>1, TopIs
<1>3. /\ g \in Frames /\ g.fn = Top.fn /\ g.pc = "read" /\ g.path = Top.path /\ g.ino = Top.ino /\ g.must = Top.must
      /\ g.seen = Top.seen \cup {name}
  BY <1>1, <1>2 DEF Frames
<1>4. Seen(name) = s
  BY <1>2 DEF Seen
<1>5. stack \in Seq(Frames)
  BY DEF TypeOK
<1> HIDE DEF g
<1>6. /\ s \in Seq(Frames) /\ Len(s) = Len(stack) /\ s[1] = g /\ \A i \in 1..Len(stack) : i # 1 => s[i] = stack[i]
      /\ 1 \in 1..Len(stack) /\ Len(stack) \in Nat
  BY <1>1, <1>3, <1>5, Replaced, LenProperties
<1> HIDE DEF s
<1>7. {g} \cup Rest \subseteq {s[i] : i \in 1..Len(s)}
  <2>1. g \in {s[i] : i \in 1..Len(s)}
    BY <1>6
  <2>2. ASSUME NEW i \in 2..Len(stack)
        PROVE  stack[i] \in {s[k] : k \in 1..Len(s)}
    <3>1. i \in 1..Len(s) /\ s[i] = stack[i]
      BY <1>6
    <3> QED
      BY <3>1
  <2> QED
    BY <2>1, <2>2 DEF Rest
<1>8. CASE DirAt(p) = {}
  <2>1. stack' = s
    BY <1>1, <1>4, <1>8
  <2>2. Calls' = {s[i] : i \in 1..Len(s)}
    BY <2>1 DEF Calls
  <2> QED
    BY <1>1, <1>2, <1>3, <1>7, <1>8, <2>2
<1>9. CASE DirAt(p) # {}
  <2>1. name \in DirNames
    BY <1>2, <1>9, DirNameOf
  <2>2. p \in Seq(DirNames)
    BY <1>2, <2>1
  <2> DEFINE fn == Top.fn
  <2>3. fn \in {"add_monitor_dir", "add_upload_file"}
    BY <1>2
  <2>4. ASSUME NEW q \in Seq(DirNames)
        PROVE  /\ Frame(fn, q, Root) \in Frames /\ Frame(fn, q, Root).fn = fn /\ Frame(fn, q, Root).path = q
               /\ Frame(fn, q, Root).pc = "enter"
    <3> HIDE DEF fn
    <3> QED
      BY <2>3, FrameTyped
  <2>5. f \in Frames /\ f.fn = Top.fn /\ f.path = p /\ f.pc = "enter"
    <3> HIDE DEF p
    <3> QED
      BY <2>2, <2>4
  <2>6. stack' = <<f>> \o s
    BY <1>1, <1>4, <1>9
  <2> HIDE DEF f
  <2>7. /\ Len(stack') = Len(s) + 1 /\ stack'[1] = f
        /\ \A i \in 1..Len(s) : i + 1 \in 1..Len(stack') /\ stack'[i + 1] = s[i]
    BY <1>6, <2>5, <2>6, Pushed
  <2>8. {s[i] : i \in 1..Len(s)} \subseteq Calls'
    BY <2>7 DEF Calls
  <2>9. f \in Calls'
    <3>1. 1 \in 1..Len(stack')
      BY <1>6, <2>7
    <3> QED
      BY <2>7, <3>1 DEF Calls
  <2> QED
    BY <1>1, <1>2, <1>3, <1>7, <1>9, <2>5, <2>8, <2>9
<1> QED
  BY <1>8, <1>9

LEMMA EndDirIs ==
  ASSUME ShapeInv, EndDir
  PROVE  /\ stack # <<>> /\ started /\ Top.pc = "read" /\ Top.must \cap Entries(Top.ino) \subseteq Top.seen
         /\ UNCHANGED <<treeVars, kernelVars, wd_list, started, exited, queued, boundVars>>
         /\ Calls' = Rest
<1>1. /\ stack # <<>> /\ Top.pc = "read" /\ Top.must \cap Entries(Top.ino) \subseteq Top.seen
      /\ UNCHANGED <<treeVars, kernelVars, wd_list, started, exited, queued, boundVars>>
      /\ stack' = Tail(stack)
  BY DEF EndDir, Return
<1>2. started
  BY <1>1, TopIs
<1>3. Calls' = Rest
  BY <1>1, CallsPopped DEF ShapeInv
<1> QED
  BY <1>1, <1>2, <1>3

LEMMA ScanBothCalls ==
  ASSUME ShapeInv, NEW p \in Seq(DirNames), ScanBoth(p), started'
  PROVE  /\ Calls \subseteq Calls'
         /\ \A fn \in {"add_monitor_dir", "add_upload_file"} : \E s \in Calls' : s.fn = fn /\ s.path = p /\ s.pc = "enter"
<1>1. /\ Len(stack') = Len(stack) + 2
      /\ stack'[1] = Frame("add_monitor_dir", p, Root) /\ stack'[2] = Frame("add_upload_file", p, Root)
      /\ \A i \in 1..Len(stack) : i + 2 \in 1..Len(stack') /\ stack'[i + 2] = stack[i]
  BY ScanBothShape
<1>2. Calls \subseteq Calls'
  BY <1>1 DEF Calls
<1>3. 1 \in 1..Len(stack') /\ 2 \in 1..Len(stack')
  <2>1. Len(stack) \in Nat
    BY DEF ShapeInv, TypeOK
  <2> QED
    BY <1>1, <2>1
<1>4. stack'[1] \in Calls' /\ stack'[2] \in Calls'
  BY <1>3 DEF Calls
<1>5. /\ stack'[1].fn = "add_monitor_dir" /\ stack'[1].path = p /\ stack'[1].pc = "enter"
      /\ stack'[2].fn = "add_upload_file" /\ stack'[2].path = p /\ stack'[2].pc = "enter"
  BY <1>1 DEF Frame
<1> QED
  BY <1>2, <1>4, <1>5

LEMMA DirsFindWd ==
  ASSUME ShapeInv, DirsOK, FindWd, ~exited'
  PROVE  DirsOK'
<1>1. PICK g \in Frames : g.fn = "add_upload_file" /\ Calls' = {g} \cup Rest
  BY FindWdIs
<1>2. /\ stack # <<>> /\ Top.fn = "add_upload_file" /\ started /\ started' /\ UNCHANGED <<at, watch, events>>
  BY FindWdIs DEF treeVars, kernelVars
<1>3. Calls = {Top} \cup Rest
  BY <1>2, CallsAre DEF ShapeInv
<1>4. \A d \in Dirs, s \in Calls : Exists(d) /\ Enters(s, d) => \E t \in Calls' : Enters(t, d)
  BY <1>1, <1>2, <1>3 DEF Enters
<1> QED
  BY <1>2, <1>4, DirsScanned

LEMMA DirsOpenDir ==
  ASSUME ShapeInv, DirsOK, OpenDir, ~exited'
  PROVE  DirsOK'
<1> USE DEF ShapeInv
<1>1. PICK d \in Dirs, g \in Frames :
        /\ Exists(d) /\ at[d] = Top.path
        /\ g.fn = Top.fn /\ g.pc = "read" /\ g.path = Top.path /\ g.ino = d /\ g.must = Entries(d) /\ g.seen = {}
        /\ Calls' = {g} \cup Rest
  BY OpenDirIs
<1>2. /\ stack # <<>> /\ Top.pc = "open" /\ started /\ started' /\ UNCHANGED <<at, watch, events>>
  BY OpenDirIs DEF treeVars, kernelVars
<1>3. Calls = {Top} \cup Rest
  BY <1>2, CallsAre
<1>4. ASSUME NEW x \in Dirs, Exists(x), Enters(Top, x)
      PROVE  Enters(g, x)
  <2>1. PICK p \in In(x) : WillRead(Top, p, Last(at[x]))
    BY <1>2, <1>4 DEF Enters
  <2>2. p \in Dirs /\ Exists(p) /\ at[p] = Front(at[x]) /\ x # Root
    BY <1>4, InIs
  <2>3. p = d
    BY <1>1, <2>1, <2>2, OneAtAPath DEF WillRead
  <2>4. Last(at[x]) \in Entries(d)
    BY <1>4, <2>2, <2>3, EntriesAre
  <2>5. WillRead(g, p, Last(at[x]))
    BY <1>1, <2>3, <2>4 DEF WillRead
  <2> QED
    BY <1>1, <1>4, <2>1, <2>5 DEF Enters
<1>5. \A x \in Dirs, s \in Calls : Exists(x) /\ Enters(s, x) => \E t \in Calls' : Enters(t, x)
  BY <1>1, <1>3, <1>4
<1> QED
  BY <1>2, <1>5, DirsScanned

LEMMA DirsReadEntry ==
  ASSUME ShapeInv, DirsOK, NEW name \in DirNames \cup FileNames, ReadEntry(name)
  PROVE  DirsOK'
<1> USE DEF ShapeInv
<1>1. /\ stack # <<>> /\ Top.pc = "read" /\ started /\ started' /\ UNCHANGED <<at, watch, events>>
      /\ DirAt(Append(Top.path, name)) # {} => \E f \in Calls' :
           f.fn = Top.fn /\ f.pc = "enter" /\ f.path = Append(Top.path, name)
  BY ReadEntryIs DEF treeVars, kernelVars
<1>2. PICK g \in Frames :
        /\ g.fn = Top.fn /\ g.pc = "read" /\ g.path = Top.path /\ g.ino = Top.ino /\ g.must = Top.must
        /\ g.seen = Top.seen \cup {name} /\ {g} \cup Rest \subseteq Calls'
  BY ReadEntryIs
<1>3. Calls = {Top} \cup Rest
  BY <1>1, CallsAre
<1>4. ASSUME NEW x \in Dirs, Exists(x), Enters(Top, x)
      PROVE  \E t \in Calls' : Enters(t, x)
  <2>1. PICK p \in In(x) : WillRead(Top, p, Last(at[x]))
    BY <1>1, <1>4 DEF Enters
  <2>2. at[x] = Append(at[p], Last(at[x])) /\ Top.fn = "add_monitor_dir" /\ Top.path = at[p] /\ x \in Dirs
    BY <1>4, <2>1, InIs DEF Enters, WillRead
  <2>3. CASE name = Last(at[x])
    <3>1. Append(Top.path, name) = at[x]
      BY <2>2, <2>3
    <3>2. x \in DirAt(Append(Top.path, name))
      BY <3>1 DEF DirAt
    <3>3. PICK f \in Calls' : f.fn = Top.fn /\ f.pc = "enter" /\ f.path = Append(Top.path, name)
      BY <1>1, <3>2
    <3>4. Enters(f, x)
      BY <2>2, <3>1, <3>3 DEF Enters
    <3> QED
      BY <3>4
  <2>4. CASE name # Last(at[x])
    <3>1. WillRead(g, p, Last(at[x]))
      BY <1>1, <1>2, <2>1, <2>4 DEF WillRead
    <3>2. Enters(g, x)
      BY <1>2, <2>1, <2>2, <3>1 DEF Enters
    <3> QED
      BY <1>2, <3>2
  <2> QED
    BY <2>3, <2>4
<1>5. \A x \in Dirs, s \in Calls : Exists(x) /\ Enters(s, x) => \E t \in Calls' : Enters(t, x)
  BY <1>2, <1>3, <1>4
<1> QED
  BY <1>1, <1>5, DirsScanned

LEMMA DirsEndDir ==
  ASSUME ShapeInv, DirsOK, EndDir
  PROVE  DirsOK'
<1> USE DEF ShapeInv
<1>1. /\ stack # <<>> /\ Top.pc = "read" /\ Top.must \cap Entries(Top.ino) \subseteq Top.seen
      /\ started /\ started' /\ UNCHANGED <<at, watch, events>> /\ Calls' = Rest
  BY EndDirIs DEF treeVars, kernelVars
<1>2. Calls = {Top} \cup Rest
  BY <1>1, CallsAre
<1>3. ASSUME NEW x \in Dirs, Exists(x), Enters(Top, x)
      PROVE  FALSE
  <2>1. PICK p \in In(x) : WillRead(Top, p, Last(at[x]))
    BY <1>1, <1>3 DEF Enters
  <2>2. p \in Dirs /\ Exists(p) /\ at[p] = Front(at[x]) /\ x # Root
    BY <1>3, InIs
  <2>3. Last(at[x]) \in Entries(p)
    BY <1>3, <2>2, EntriesAre
  <2> QED
    BY <1>1, <2>1, <2>3 DEF WillRead
<1>4. \A x \in Dirs, s \in Calls : Exists(x) /\ Enters(s, x) => \E t \in Calls' : Enters(t, x)
  BY <1>1, <1>2, <1>3
<1> QED
  BY <1>1, <1>4, DirsScanned

LEMMA DirsStart ==
  ASSUME ShapeInv, DirsOK, Start
  PROVE  DirsOK'
<1> USE DEF ShapeInv
<1>1. ~started /\ started' /\ ScanBoth(<<>>) /\ UNCHANGED <<at, watch, events>>
  BY DEF Start, treeVars, kernelVars
<1>2. \A x \in Dirs : watch[x] = 0
  BY <1>1 DEF StackOK
<1>3. PICK s \in Calls' : s.fn = "add_monitor_dir" /\ s.path = <<>> /\ s.pc = "enter"
  <2>1. <<>> \in Seq(DirNames)
    OBVIOUS
  <2> QED
    BY <1>1, <2>1, ScanBothCalls
<1>4. ASSUME NEW x \in Dirs, Exists(x)
      PROVE  DirCovered(x)'
  <2>1. CASE x = Root
    <3>1. Enters(s, x)
      BY <1>3, <2>1 DEF Enters, TreeOK, IsTree
    <3> QED
      BY <1>1, <3>1, EntersCovers
  <2>2. CASE x # Root
    <3>1. PICK p \in In(x) : p \in Dirs
      BY <1>4, <2>2, InIs
    <3>2. p \in In(x)' /\ watch'[p] = 0
      BY <1>1, <1>2, <3>1 DEF In, DirAt
    <3> QED
      BY <3>2 DEF DirCovered
  <2> QED
    BY <2>1, <2>2
<1>5. \A x \in Dirs : Exists(x)' => Exists(x)
  BY <1>1 DEF Exists
<1> QED
  BY <1>4, <1>5 DEF DirsOK

\* The loop resolves the descriptor of a watched directory to its path.
LEMMA EventResolved ==
  ASSUME ShapeInv, PathsOK, HandleEvent, NEW d \in Dirs, watch[d] # 0, events[1].wd = watch[d]
  PROVE  Handled(events[1], Append(at[d], events[1].name), TRUE)
<1> USE DEF ShapeInv
<1> DEFINE e == Head(events)
           known == NodesOfWd(e.wd) # {}
           p == IF known THEN Append(wd_list[First(NodesOfWd(e.wd))].path, e.name) ELSE <<>>
<1>1. Handled(e, p, known) /\ e = events[1]
  BY HandledIs
<1>2. known
  <2>1. PICK i \in 1..Len(wd_list) : wd_list[i].wd = watch[d]
    BY DEF WdOK
  <2> QED
    BY <1>1, <2>1 DEF NodesOfWd
<1> DEFINE j == First(NodesOfWd(e.wd))
<1>3. j \in 1..Len(wd_list) /\ wd_list[j].wd = e.wd
  BY <1>2, KnownPath
<1>4. p = Append(wd_list[j].path, e.name)
  BY <1>2
<1> HIDE DEF e, p, known, j
<1>5. wd_list[j].path = at[d]
  BY <1>1, <1>3 DEF PathsOK, Listed
<1>6. known = TRUE
  BY <1>2, Zenon DEF known
<1> QED
  BY <1>1, <1>4, <1>5, <1>6

\* The event of a new directory starts the two scans there.
LEMMA NewDirectoryScanned ==
  ASSUME ShapeInv, PathsOK, HandleEvent, NEW x \in Dirs, Exists(x), NEW p \in In(x), watch[p] # 0,
         events[1] = [wd |-> watch[p], what |-> "add", name |-> Last(at[x]), isdir |-> TRUE]
  PROVE  UNCHANGED exited /\ \A fn \in {"add_monitor_dir", "add_upload_file"} :
           \E s \in Calls' : s.fn = fn /\ s.path = at[x] /\ s.pc = "enter"
<1> USE DEF ShapeInv
<1>1. /\ events[1].wd = watch[p] /\ events[1].what = "add" /\ events[1].name = Last(at[x]) /\ events[1].isdir
  OBVIOUS
<1>2. p \in Dirs /\ at[x] = Append(at[p], Last(at[x])) /\ Last(at[x]) \in DirNames /\ at[p] \in Seq(DirNames)
  BY InIs
<1>3. Handled(events[1], at[x], TRUE)
  BY <1>1, <1>2, EventResolved
<1>4. FileAt(at[x]) = {}
  <2>1. \A f \in files : f[2] \in FileNames
    BY DEF TypeOK
  <2> QED
    BY <1>2, <2>1, TreeAssumption DEF FileAt
<1>5. ScanBoth(at[x]) /\ UNCHANGED exited
  BY <1>1, <1>3, <1>4 DEF Handled, NewDirectory
<1>6. at[x] \in Seq(DirNames)
  BY AtTyped
<1>7. started'
  BY HandledIs DEF Loop
<1> QED
  BY <1>5, <1>6, <1>7, ScanBothCalls

LEMMA HandleEventIs ==
  ASSUME ShapeInv, HandleEvent
  PROVE  /\ started /\ ~exited /\ stack = <<>> /\ Calls = {} /\ events # <<>>
         /\ UNCHANGED <<treeVars, nextwd, started, boundVars>>
<1>1. Loop /\ UNCHANGED <<treeVars, nextwd, started, boundVars>>
  BY HandledIs
<1> QED
  BY <1>1 DEF Loop, Calls

LEMMA DirsHandleEvent ==
  ASSUME ShapeInv, PathsOK, DirsOK, HandleEvent
  PROVE  DirsOK'
<1> USE DEF ShapeInv
<1>1. started /\ Calls = {} /\ at' = at
  BY HandleEventIs DEF treeVars
<1>2. watch' = watch /\ Pending \subseteq Pending' \cup {events[1]}
  BY HandleEventWatches
<1>3. \A x : In(x)' = In(x)
  BY <1>1 DEF In, DirAt
<1>4. ASSUME NEW x \in Dirs, Exists(x)
      PROVE  DirCovered(x)'
  <2>1. DirCovered(x)
    BY <1>4 DEF DirsOK
  <2>2. CASE Announced(x)
    <3>1. PICK p \in In(x) :
            watch[p] # 0 /\ [wd |-> watch[p], what |-> "add", name |-> Last(at[x]), isdir |-> TRUE] \in Pending
      BY <2>2 DEF Announced
    <3> DEFINE v == [wd |-> watch[p], what |-> "add", name |-> Last(at[x]), isdir |-> TRUE]
    <3>2. CASE v \in Pending'
      <4>1. Announced(x)'
        BY <1>1, <1>2, <1>3, <3>1, <3>2 DEF Announced
      <4> QED
        BY <4>1 DEF DirCovered
    <3>3. CASE events[1] = v
      <4>1. PICK s \in Calls' : s.fn = "add_monitor_dir" /\ s.path = at[x] /\ s.pc = "enter"
        BY <1>4, <3>1, <3>3, NewDirectoryScanned
      <4>2. Enters(s, x)
        BY <4>1 DEF Enters
      <4> QED
        BY <1>1, <4>2, EntersCovers
    <3> QED
      BY <1>2, <3>1, <3>2, <3>3
  <2> QED
    BY <1>1, <1>2, <1>3, <2>1, <2>2 DEF DirCovered
<1>5. \A x \in Dirs : Exists(x)' => Exists(x)
  BY <1>1 DEF Exists
<1> QED
  BY <1>4, <1>5 DEF DirsOK

LEMMA DirsNext ==
  ASSUME ShapeInv, PathsOK, DirsOK, [Next]_vars, renamed' = 0, ~exited'
  PROVE  DirsOK'
<1>1. CASE monitor_handle
  <2>1. ASSUME NEW name \in DirNames \cup FileNames, ReadEntry(name)
        PROVE  DirsOK'
    BY <2>1, DirsReadEntry
  <2> QED
    BY <1>1, <2>1, DirsStart, DirsAddWatch, DirsFindWd, DirsOpenDir, DirsEndDir, DirsHandleEvent
    DEF monitor_handle
<1>2. CASE Others
  <2>1. ASSUME NEW d \in Dirs, NEW e \in Dirs, NEW name \in NewNames, Mkdir(d, e, name)
        PROVE  DirsOK'
    BY <2>1, DirsMkdir
  <2>2. ASSUME NEW d \in Dirs, NEW e \in Dirs, NEW name \in DirNames, RenameDir(d, e, name)
        PROVE  DirsOK'
    BY <2>2, RenameDirShape
  <2>3. ASSUME NEW d \in Dirs, NEW name \in FileNames, CreateFile(d, name)
        PROVE  DirsOK'
    BY <2>3, DirsCreateFile
  <2>4. ASSUME NEW e \in Dirs, Rmdir(e)
        PROVE  DirsOK'
    BY <2>4, DirsRmdir
  <2>5. ASSUME NEW f \in files, ConsumeFile(f)
        PROVE  DirsOK'
    BY <2>5, DirsSame DEF ConsumeFile, kernelVars
  <2> QED
    BY <1>2, <2>1, <2>2, <2>3, <2>4, <2>5 DEF Others
<1>3. CASE UNCHANGED vars
  BY <1>3, DirsSame DEF vars, treeVars, kernelVars, monVars
<1> QED
  BY <1>1, <1>2, <1>3 DEF Next

-----------------------------------------------------------------------------
(***************************************************************************)
(* Every marker file is queued, or will be.                                *)
(***************************************************************************)
LEMMA OnTheWayIs ==
  ASSUME TypeOK, TreeOK, NEW f \in files
  PROVE  /\ f[1] \in Dirs /\ OnTheWay(f[1], f)
         /\ \A y \in Dirs : OnTheWay(y, f) => \A p \in In(y) : p \in Dirs /\ OnTheWay(p, f)
<1>1. f[1] \in Dirs /\ Exists(f[1]) /\ at[f[1]] \in Seq(DirNames)
  BY AtTyped DEF TypeOK, TreeOK
<1>2. OnTheWay(f[1], f)
  BY <1>1, PrefixIs DEF OnTheWay
<1>3. ASSUME NEW y \in Dirs, OnTheWay(y, f), NEW p \in In(y)
      PROVE  p \in Dirs /\ OnTheWay(p, f)
  <2>1. Exists(y) /\ IsPrefix(at[y], at[f[1]]) /\ at[y] \in Seq(DirNames)
    BY <1>3, AtTyped DEF OnTheWay
  <2>2. p \in Dirs /\ Exists(p) /\ IsPrefix(at[p], at[y]) /\ at[p] \in Seq(DirNames)
    BY <1>3, <2>1, InIs
  <2>3. IsPrefix(at[p], at[f[1]])
    BY <1>1, <2>1, <2>2, PrefixTransitive
  <2> QED
    BY <2>2, <2>3 DEF OnTheWay
<1> QED
  BY <1>1, <1>2, <1>3

LEMMA FileKept ==
  ASSUME TypeOK, TreeOK, NEW f \in files, FileCovered(f),
         \A x \in Dirs : OnTheWay(x, f) => at'[x] = at[x] /\ watch'[x] = watch[x],
         Pending \subseteq Pending', f \in queued => f \in queued', UNCHANGED stack
  PROVE  FileCovered(f)'
<1>1. f[1] \in Dirs /\ at'[f[1]] = at[f[1]] /\ watch'[f[1]] = watch[f[1]]
  BY OnTheWayIs
<1>2. CASE f \in queued
  BY <1>2 DEF FileCovered
<1>3. CASE Told(f)
  BY <1>1, <1>3 DEF FileCovered, Told
<1>4. ASSUME NEW y \in Dirs, OnTheWay(y, f), WillScan(y, f)
      PROVE  FileCovered(f)'
  <2>1. at'[y] = at[y] /\ watch'[y] = watch[y]
    BY <1>4
  <2>2. OnTheWay(y, f)'
    BY <1>1, <1>4, <2>1 DEF OnTheWay, Exists
  <2>3. CASE watch[y] = 0
    BY <1>4, <2>1, <2>2, <2>3 DEF FileCovered, WillScan
  <2>4. CASE Announced(y)
    <3>1. PICK p \in In(y) :
            watch[p] # 0 /\ [wd |-> watch[p], what |-> "add", name |-> Last(at[y]), isdir |-> TRUE] \in Pending
      BY <2>4 DEF Announced
    <3>2. p \in Dirs /\ at'[p] = at[p] /\ watch'[p] = watch[p]
      BY <1>4, OnTheWayIs
    <3>3. p \in In(y)'
      BY <2>1, <3>2 DEF In, DirAt
    <3>4. Announced(y)'
      BY <2>1, <3>1, <3>2, <3>3 DEF Announced
    <3> QED
      BY <1>4, <2>2, <3>4 DEF FileCovered, WillScan
  <2>5. ASSUME NEW s \in Calls, Scans(s, y, f)
        PROVE  FileCovered(f)'
    <3>1. s \in Calls'
      BY DEF Calls
    <3>2. Towards(y, f)' = Towards(y, f)
      BY <1>1, <2>1 DEF Towards
    <3>3. Scans(s, y, f)'
      BY <2>1, <2>5, <3>2 DEF Scans, WillRead
    <3> QED
      BY <1>4, <2>2, <3>1, <3>3 DEF FileCovered, WillScan
  <2> QED
    BY <1>4, <2>3, <2>4, <2>5 DEF WillScan
<1> QED
  BY <1>2, <1>3, <1>4 DEF FileCovered

LEMMA FilesMkdir ==
  ASSUME ShapeInv, FilesOK, NEW d \in Dirs, NEW e \in Dirs, NEW name \in NewNames, Mkdir(d, e, name)
  PROVE  FilesOK'
<1> USE DEF ShapeInv
<1>1. ~Exists(e) /\ \A x \in Dirs : x # e => at'[x] = at[x]
  BY MkdirShape
<1>2. name \in DirNames /\ events' = events \o Event(d, "add", name, TRUE) /\ UNCHANGED <<files, watch, stack, queued>>
  BY TreeAssumption DEF Mkdir, monVars
<1>3. Pending \subseteq Pending'
  BY <1>2, PendingTold
<1>4. ASSUME NEW f \in files
      PROVE  FileCovered(f)'
  <2>1. FileCovered(f)
    BY DEF FilesOK
  <2>2. \A x \in Dirs : OnTheWay(x, f) => at'[x] = at[x] /\ watch'[x] = watch[x]
    BY <1>1, <1>2 DEF OnTheWay
  <2> QED
    BY <1>2, <1>3, <2>1, <2>2, FileKept
<1> QED
  BY <1>2, <1>4 DEF FilesOK

LEMMA FilesCreateFile ==
  ASSUME ShapeInv, FilesOK, NEW d \in Dirs, NEW name \in FileNames, CreateFile(d, name)
  PROVE  FilesOK'
<1> USE DEF ShapeInv
<1>1. /\ events' = events \o Event(d, "add", name, FALSE) /\ UNCHANGED <<at, watch, stack, queued>>
      /\ Exists(d) /\ files' = files \cup {<<d, name>>}
  BY DEF CreateFile, monVars
<1>2. /\ Pending \subseteq Pending'
      /\ watch[d] # 0 => [wd |-> watch[d], what |-> "add", name |-> name, isdir |-> FALSE] \in Pending'
  BY <1>1, PendingTold
<1>3. ASSUME NEW f \in files
      PROVE  FileCovered(f)'
  <2>1. FileCovered(f)
    BY DEF FilesOK
  <2> QED
    BY <1>1, <1>2, <2>1, FileKept
<1>4. FileCovered(<<d, name>>)'
  <2>1. CASE watch[d] = 0
    <3>1. OnTheWay(d, <<d, name>>)'
      BY <1>1, AtTyped, PrefixIs DEF OnTheWay, Exists
    <3> QED
      BY <1>1, <2>1, <3>1 DEF FileCovered, WillScan
  <2>2. CASE watch[d] # 0
    BY <1>1, <1>2, <2>2 DEF FileCovered, Told
  <2> QED
    BY <2>1, <2>2
<1> QED
  BY <1>1, <1>3, <1>4 DEF FilesOK

LEMMA FilesRmdir ==
  ASSUME ShapeInv, FilesOK, NEW e \in Dirs, Rmdir(e)
  PROVE  FilesOK'
<1> USE DEF ShapeInv
<1>1. /\ Exists(e) /\ e # Root /\ \A x \in Dirs : x # e => at'[x] = at[x] /\ watch'[x] = watch[x]
      /\ \A f \in files : f[1] # e
      /\ \A x \in Dirs : Exists(x) /\ x # Root => Front(at[x]) # at[e]
  BY RmdirShape
<1>2. PICK p \in Dirs : events' = events \o Event(p, "del", Last(at[e]), TRUE)
  BY RmdirShape
<1>3. Last(at[e]) \in DirNames
  BY <1>1, ParentIs
<1>4. Pending \subseteq Pending'
  BY <1>2, <1>3, PendingTold
<1>5. UNCHANGED <<files, stack, queued>>
  BY DEF Rmdir, monVars
<1>6. ASSUME NEW f \in files
      PROVE  FileCovered(f)'
  <2>1. FileCovered(f)
    BY DEF FilesOK
  <2>2. ~OnTheWay(e, f)
    <3> SUFFICES ASSUME OnTheWay(e, f) PROVE FALSE
      OBVIOUS
    <3>1. PICK x \in Dirs : OnTheWay(x, f) /\ x # Root /\ e \in In(x)
      BY <1>1, TowardsIs
    <3> QED
      BY <1>1, <3>1 DEF OnTheWay, In, DirAt
  <2>3. \A x \in Dirs : OnTheWay(x, f) => at'[x] = at[x] /\ watch'[x] = watch[x]
    BY <1>1, <2>2
  <2> QED
    BY <1>4, <1>5, <2>1, <2>3, FileKept
<1> QED
  BY <1>5, <1>6 DEF FilesOK

\* Files that are gone need no queue node.
LEMMA FilesSame ==
  ASSUME ShapeInv, FilesOK, UNCHANGED <<at, watch, events, stack>>, files' \subseteq files,
         \A f \in files' : f \in queued => f \in queued'
  PROVE  FilesOK'
<1>1. Pending' = Pending
  BY DEF Pending
<1>2. ASSUME NEW f \in files'
      PROVE  FileCovered(f)'
  <2>1. f \in files /\ FileCovered(f)
    BY DEF FilesOK
  <2> QED
    BY <1>1, <2>1, FileKept DEF ShapeInv
<1> QED
  BY <1>2 DEF FilesOK

\* One step of the scans, or their start.
LEMMA ScansCovers ==
  ASSUME UNCHANGED at, NEW f, NEW y \in Dirs, OnTheWay(y, f), NEW s \in Calls', Scans(s, y, f)
  PROVE  FileCovered(f)'
<1>1. OnTheWay(y, f)'
  BY DEF OnTheWay, Exists
<1>2. Scans(s, y, f)'
  BY DEF Scans, WillRead, Towards
<1> QED
  BY <1>1, <1>2 DEF FileCovered, WillScan

LEMMA FileScanned ==
  ASSUME TypeOK, TreeOK, NEW f \in files, FileCovered(f), UNCHANGED <<at, events>>,
         \A x \in Dirs : watch[x] # 0 => watch'[x] = watch[x], f \in queued => f \in queued',
         \A y \in Dirs : OnTheWay(y, f) /\ watch[y] = 0 => FileCovered(f)',
         \A y \in Dirs, s \in Calls : OnTheWay(y, f) /\ Scans(s, y, f) => FileCovered(f)'
  PROVE  FileCovered(f)'
<1>1. Pending' = Pending /\ f[1] \in Dirs
  BY DEF Pending, TypeOK
<1>2. CASE f \in queued
  BY <1>2 DEF FileCovered
<1>3. CASE Told(f)
  BY <1>1, <1>3 DEF FileCovered, Told
<1>4. ASSUME NEW y \in Dirs, OnTheWay(y, f), Announced(y)
      PROVE  FileCovered(f)'
  <2>1. PICK p \in In(y) :
          watch[p] # 0 /\ [wd |-> watch[p], what |-> "add", name |-> Last(at[y]), isdir |-> TRUE] \in Pending
    BY <1>4 DEF Announced
  <2>2. p \in In(y)' /\ watch'[p] = watch[p]
    BY <1>4, <2>1, OnTheWayIs DEF In, DirAt
  <2>3. Announced(y)'
    BY <1>1, <2>1, <2>2 DEF Announced
  <2>4. OnTheWay(y, f)'
    BY <1>4 DEF OnTheWay, Exists
  <2> QED
    BY <2>3, <2>4 DEF FileCovered, WillScan
<1> QED
  BY <1>2, <1>3, <1>4 DEF FileCovered, WillScan

LEMMA FilesAddWatch ==
  ASSUME ShapeInv, FilesOK, AddWatch, ~exited'
  PROVE  FilesOK'
<1> USE DEF ShapeInv
<1>1. /\ stack # <<>> /\ started /\ Top.fn = "add_monitor_dir" /\ UNCHANGED <<at, files, events, queued>>
  BY AddWatchIs DEF treeVars
<1>2. PICK d \in Dirs, g \in Frames :
        /\ Exists(d) /\ at[d] = Top.path /\ watch'[d] = (IF watch[d] = 0 THEN nextwd ELSE watch[d])
        /\ \A x \in Dirs : x # d => watch'[x] = watch[x]
        /\ Calls' = {g} \cup Rest
  BY AddWatchIs
<1>3. Calls = {Top} \cup Rest
  BY <1>1, CallsAre
<1>4. PICK j \in 2..Len(stack) : WaitsFor(stack[j], Top)
  BY <1>1, TopIs
<1>5. stack[j] \in Rest /\ stack[j].path \in Seq(DirNames)
  <2>1. j \in 1..Len(stack) /\ stack \in Seq(Frames)
    <3>1. Len(stack) \in Nat
      BY DEF TypeOK
    <3> QED
      BY <3>1 DEF TypeOK
  <2>2. stack[j] \in Frames
    BY <2>1, ElementOfSeq
  <2> QED
    BY <2>2 DEF Rest, Frames
<1>6. ASSUME NEW f \in files
      PROVE  FileCovered(f)'
  <2>1. FileCovered(f)
    BY DEF FilesOK
  <2>2. ASSUME NEW y \in Dirs, NEW s \in Calls, OnTheWay(y, f), Scans(s, y, f)
        PROVE  FileCovered(f)'
    <3>1. s \in Calls'
      BY <1>1, <1>2, <1>3, <2>2 DEF Scans
    <3> QED
      BY <1>1, <2>2, <3>1, ScansCovers
  <2>3. ASSUME NEW y \in Dirs, OnTheWay(y, f), watch[y] = 0
        PROVE  FileCovered(f)'
    <3>1. CASE y # d
      <4>1. OnTheWay(y, f)' /\ watch'[y] = 0
        BY <1>1, <1>2, <2>3, <3>1 DEF OnTheWay, Exists
      <4> QED
        BY <4>1 DEF FileCovered, WillScan
    <3>2. CASE y = d
      <4>1. IsPrefix(stack[j].path, at[y]) /\ stack[j].fn = "add_upload_file" /\ stack[j].pc = "enter"
        BY <1>2, <1>4, <3>2 DEF WaitsFor
      <4>2. PICK x \in Dirs : Exists(x) /\ at[x] = stack[j].path
        BY <1>5, <2>3, <4>1, PrefixExists DEF OnTheWay
      <4>3. OnTheWay(x, f)
        <5>1. f[1] \in Dirs /\ at[f[1]] \in Seq(DirNames) /\ at[y] \in Seq(DirNames) /\ IsPrefix(at[y], at[f[1]])
          BY <2>3, AtTyped DEF TypeOK, TreeOK, OnTheWay
        <5>2. IsPrefix(at[x], at[f[1]])
          BY <1>5, <4>1, <4>2, <5>1, PrefixTransitive
        <5> QED
          BY <4>2, <5>2 DEF OnTheWay
      <4>4. Scans(stack[j], x, f)
        BY <4>1, <4>2 DEF Scans
      <4> QED
        BY <1>1, <1>2, <1>5, <4>3, <4>4, ScansCovers
    <3> QED
      BY <3>1, <3>2
  <2> QED
    BY <1>1, <1>2, <2>1, <2>2, <2>3, FileScanned
<1> QED
  BY <1>1, <1>6 DEF FilesOK

\* A step of a scan that adds no watch.
LEMMA FilesScanned ==
  ASSUME ShapeInv, FilesOK, UNCHANGED <<at, files, watch, events>>, queued \subseteq queued',
         \A f \in files, y \in Dirs, s \in Calls : OnTheWay(y, f) /\ Scans(s, y, f) => FileCovered(f)'
  PROVE  FilesOK'
<1> USE DEF ShapeInv
<1>1. ASSUME NEW f \in files
      PROVE  FileCovered(f)'
  <2>1. FileCovered(f)
    BY DEF FilesOK
  <2>2. ASSUME NEW y \in Dirs, OnTheWay(y, f), watch[y] = 0
        PROVE  FileCovered(f)'
    <3>1. OnTheWay(y, f)'
      BY <2>2 DEF OnTheWay, Exists
    <3> QED
      BY <2>2, <3>1 DEF FileCovered, WillScan
  <2> QED
    BY <2>1, <2>2, FileScanned
<1> QED
  BY <1>1 DEF FilesOK

LEMMA FilesFindWd ==
  ASSUME ShapeInv, FilesOK, FindWd, ~exited'
  PROVE  FilesOK'
<1>1. /\ stack # <<>> /\ Top.fn = "add_upload_file" /\ Top.pc = "enter"
      /\ UNCHANGED <<at, files, watch, events, queued>>
  BY FindWdIs DEF treeVars, kernelVars
<1>2. PICK g \in Frames : /\ g.fn = "add_upload_file" /\ g.pc = "open" /\ g.path = Top.path
                          /\ Calls' = {g} \cup Rest
  BY FindWdIs
<1>3. Calls = {Top} \cup Rest
  BY <1>1, CallsAre DEF ShapeInv
<1>4. ASSUME NEW f \in files, NEW y \in Dirs, NEW s \in Calls, OnTheWay(y, f), Scans(s, y, f)
      PROVE  FileCovered(f)'
  <2>1. CASE s = Top
    <3>1. Scans(g, y, f)
      BY <1>1, <1>2, <1>4, <2>1 DEF Scans, WillRead
    <3> QED
      BY <1>1, <1>2, <1>4, <3>1, ScansCovers
  <2>2. CASE s \in Rest
    BY <1>1, <1>2, <1>4, <2>2, ScansCovers
  <2> QED
    BY <1>3, <2>1, <2>2
<1> QED
  BY <1>1, <1>4, FilesScanned

LEMMA FilesOpenDir ==
  ASSUME ShapeInv, FilesOK, OpenDir, ~exited'
  PROVE  FilesOK'
<1> USE DEF ShapeInv
<1>1. PICK d \in Dirs, g \in Frames :
        /\ Exists(d) /\ at[d] = Top.path
        /\ g.fn = Top.fn /\ g.pc = "read" /\ g.path = Top.path /\ g.ino = d /\ g.must = Entries(d) /\ g.seen = {}
        /\ Calls' = {g} \cup Rest
  BY OpenDirIs
<1>2. stack # <<>> /\ Top.pc = "open" /\ UNCHANGED <<at, files, watch, events, queued>>
  BY OpenDirIs DEF treeVars, kernelVars
<1>3. Calls = {Top} \cup Rest
  BY <1>2, CallsAre
<1>4. ASSUME NEW f \in files, NEW y \in Dirs, NEW s \in Calls, OnTheWay(y, f), Scans(s, y, f)
      PROVE  FileCovered(f)'
  <2>1. CASE s = Top
    <3>1. Top.fn = "add_upload_file" /\ Top.path = at[y]
      BY <1>4, <2>1 DEF Scans, WillRead
    <3>2. y = d
      BY <1>1, <3>1, OneAtAPath
    <3>3. Towards(y, f) \in Entries(y)
      BY <1>4, TowardsIs
    <3>4. Scans(g, y, f)
      BY <1>1, <3>1, <3>2, <3>3 DEF Scans, WillRead
    <3> QED
      BY <1>1, <1>2, <1>4, <3>4, ScansCovers
  <2>2. CASE s \in Rest
    BY <1>1, <1>2, <1>4, <2>2, ScansCovers
  <2> QED
    BY <1>3, <2>1, <2>2
<1> QED
  BY <1>2, <1>4, FilesScanned

\* The path of a file.
LEMMA FileIsAt ==
  ASSUME TypeOK, TreeOK, NEW f \in files
  PROVE  f \in FileAt(Append(at[f[1]], f[2]))
<1>1. f[1] \in Dirs /\ f[2] \in FileNames /\ at[f[1]] \in Seq(DirNames)
  BY AtTyped DEF TypeOK, TreeOK
<1> DEFINE p == at[f[1]]
           V == DirNames \cup FileNames
<1>2. p \in Seq(V) /\ f[2] \in V
  BY <1>1
<1> HIDE DEF p, V
<1>3. Append(p, f[2]) # <<>> /\ Front(Append(p, f[2])) = p /\ Last(Append(p, f[2])) = f[2]
  BY <1>2, AppendParts
<1> QED
  BY <1>3 DEF FileAt, p

LEMMA FilesReadEntry ==
  ASSUME ShapeInv, FilesOK, NEW name \in DirNames \cup FileNames, ReadEntry(name)
  PROVE  FilesOK'
<1> USE DEF ShapeInv
<1>1. /\ stack # <<>> /\ Top.pc = "read" /\ UNCHANGED <<at, files, watch, events>>
      /\ queued' = (IF Top.fn = "add_upload_file" THEN queued \cup FileAt(Append(Top.path, name)) ELSE queued)
      /\ DirAt(Append(Top.path, name)) # {} => \E t \in Calls' :
           t.fn = Top.fn /\ t.pc = "enter" /\ t.path = Append(Top.path, name)
  BY ReadEntryIs DEF treeVars, kernelVars
<1>2. PICK g \in Frames :
        /\ g.fn = Top.fn /\ g.pc = "read" /\ g.path = Top.path /\ g.ino = Top.ino /\ g.must = Top.must
        /\ g.seen = Top.seen \cup {name} /\ {g} \cup Rest \subseteq Calls'
  BY ReadEntryIs
<1>3. Calls = {Top} \cup Rest
  BY <1>1, CallsAre
<1>4. ASSUME NEW f \in files, NEW y \in Dirs, OnTheWay(y, f), Scans(Top, y, f)
      PROVE  FileCovered(f)'
  <2>1. Top.fn = "add_upload_file" /\ WillRead(Top, y, Towards(y, f)) /\ Top.path = at[y]
    BY <1>1, <1>4 DEF Scans, WillRead
  <2>2. CASE name = Towards(y, f) /\ y = f[1]
    <3>1. f \in FileAt(Append(Top.path, name))
      BY <2>1, <2>2, FileIsAt DEF Towards
    <3> QED
      BY <1>1, <2>1, <3>1 DEF FileCovered
  <2>3. CASE name = Towards(y, f) /\ y # f[1]
    <3>1. PICK x \in Dirs : OnTheWay(x, f) /\ at[x] = Append(at[y], Towards(y, f))
      BY <1>4, <2>3, TowardsIs
    <3>2. x \in DirAt(Append(Top.path, name))
      BY <2>1, <2>3, <3>1 DEF DirAt
    <3>3. PICK t \in Calls' : t.fn = Top.fn /\ t.pc = "enter" /\ t.path = Append(Top.path, name)
      BY <1>1, <3>2
    <3>4. Scans(t, x, f)
      BY <2>1, <2>3, <3>1, <3>3 DEF Scans
    <3> QED
      BY <1>1, <3>1, <3>4, ScansCovers
  <2>4. CASE name # Towards(y, f)
    <3>1. Scans(g, y, f)
      BY <1>1, <1>2, <2>1, <2>4 DEF Scans, WillRead
    <3> QED
      BY <1>1, <1>2, <1>4, <3>1, ScansCovers
  <2> QED
    BY <2>2, <2>3, <2>4
<1>5. ASSUME NEW f \in files, NEW y \in Dirs, NEW s \in Calls, OnTheWay(y, f), Scans(s, y, f)
      PROVE  FileCovered(f)'
  BY <1>1, <1>2, <1>3, <1>4, <1>5, ScansCovers
<1>6. queued \subseteq queued'
  BY <1>1
<1> QED
  BY <1>1, <1>5, <1>6, FilesScanned

LEMMA FilesEndDir ==
  ASSUME ShapeInv, FilesOK, EndDir
  PROVE  FilesOK'
<1> USE DEF ShapeInv
<1>1. /\ stack # <<>> /\ Top.pc = "read" /\ Top.must \cap Entries(Top.ino) \subseteq Top.seen
      /\ UNCHANGED <<at, files, watch, events, queued>> /\ Calls' = Rest
  BY EndDirIs DEF treeVars, kernelVars
<1>2. Calls = {Top} \cup Rest
  BY <1>1, CallsAre
<1>3. ASSUME NEW f \in files, NEW y \in Dirs, OnTheWay(y, f), Scans(Top, y, f)
      PROVE  FALSE
  <2>1. WillRead(Top, y, Towards(y, f))
    BY <1>1, <1>3 DEF Scans
  <2>2. Towards(y, f) \in Entries(y)
    BY <1>3, TowardsIs
  <2> QED
    BY <1>1, <2>1, <2>2 DEF WillRead
<1>4. ASSUME NEW f \in files, NEW y \in Dirs, NEW s \in Calls, OnTheWay(y, f), Scans(s, y, f)
      PROVE  FileCovered(f)'
  BY <1>1, <1>2, <1>3, <1>4, ScansCovers
<1> QED
  BY <1>1, <1>4, FilesScanned

LEMMA FilesStart ==
  ASSUME ShapeInv, FilesOK, Start
  PROVE  FilesOK'
<1> USE DEF ShapeInv
<1>1. ~started /\ UNCHANGED <<at, files, watch>>
  BY DEF Start, treeVars, kernelVars
<1>2. ASSUME NEW f \in files
      PROVE  FileCovered(f)'
  <2>1. f[1] \in Dirs /\ OnTheWay(f[1], f)
    BY OnTheWayIs
  <2>2. OnTheWay(f[1], f)' /\ watch'[f[1]] = 0
    BY <1>1, <2>1 DEF OnTheWay, Exists, StackOK
  <2> QED
    BY <2>1, <2>2 DEF FileCovered, WillScan
<1> QED
  BY <1>1, <1>2 DEF FilesOK

LEMMA FilesHandleEvent ==
  ASSUME ShapeInv, PathsOK, FilesOK, HandleEvent
  PROVE  FilesOK'
<1> USE DEF ShapeInv
<1>1. Calls = {} /\ UNCHANGED <<at, files>>
  BY HandleEventIs DEF treeVars
<1>2. watch' = watch /\ Pending \subseteq Pending' \cup {events[1]}
  BY HandleEventWatches
<1>3. \A x : In(x)' = In(x)
  BY <1>1 DEF In, DirAt
<1>4. queued \subseteq queued'
  BY HandledIs DEF Handled
<1>5. ASSUME NEW f \in files
      PROVE  FileCovered(f)'
  <2>1. FileCovered(f) /\ f[1] \in Dirs
    BY DEF FilesOK, TypeOK
  <2>2. CASE f \in queued
    BY <1>4, <2>2 DEF FileCovered
  <2>3. CASE Told(f)
    <3> DEFINE v == [wd |-> watch[f[1]], what |-> "add", name |-> f[2], isdir |-> FALSE]
    <3>1. watch[f[1]] # 0 /\ v \in Pending
      BY <2>3 DEF Told
    <3>2. CASE v \in Pending'
      <4>1. Told(f)'
        BY <1>1, <1>2, <3>1, <3>2 DEF Told
      <4> QED
        BY <4>1 DEF FileCovered
    <3>3. CASE v = events[1]
      <4>1. events[1].wd = watch[f[1]] /\ events[1].what = "add" /\ events[1].name = f[2] /\ ~events[1].isdir
        BY <3>3
      <4>2. Handled(events[1], Append(at[f[1]], f[2]), TRUE)
        BY <2>1, <3>1, <4>1, EventResolved
      <4>3. f \in FileAt(Append(at[f[1]], f[2]))
        BY FileIsAt
      <4>4. f \in queued'
        BY <4>1, <4>2, <4>3 DEF Handled
      <4> QED
        BY <4>4 DEF FileCovered
    <3> QED
      BY <1>2, <3>1, <3>2, <3>3
  <2>4. ASSUME NEW y \in Dirs, OnTheWay(y, f), WillScan(y, f)
        PROVE  FileCovered(f)'
    <3>1. OnTheWay(y, f)' /\ Exists(y)
      BY <1>1, <2>4 DEF OnTheWay, Exists
    <3>2. CASE watch[y] = 0
      BY <1>2, <3>1, <3>2 DEF FileCovered, WillScan
    <3>3. CASE Announced(y)
      <4>1. PICK p \in In(y) :
              watch[p] # 0 /\ [wd |-> watch[p], what |-> "add", name |-> Last(at[y]), isdir |-> TRUE] \in Pending
        BY <3>3 DEF Announced
      <4> DEFINE v == [wd |-> watch[p], what |-> "add", name |-> Last(at[y]), isdir |-> TRUE]
      <4>2. CASE v \in Pending'
        <5>1. Announced(y)'
          BY <1>1, <1>2, <1>3, <4>1, <4>2 DEF Announced
        <5> QED
          BY <3>1, <5>1 DEF FileCovered, WillScan
      <4>3. CASE events[1] = v
        <5>1. PICK s \in Calls' : s.fn = "add_upload_file" /\ s.path = at[y] /\ s.pc = "enter"
          BY <3>1, <4>1, <4>3, NewDirectoryScanned
        <5>2. Scans(s, y, f)
          BY <5>1 DEF Scans
        <5> QED
          BY <1>1, <2>4, <5>2, ScansCovers
      <4> QED
        BY <1>2, <4>1, <4>2, <4>3
    <3> QED
      BY <1>1, <2>4, <3>2, <3>3 DEF WillScan
  <2> QED
    BY <2>1, <2>2, <2>3, <2>4 DEF FileCovered
<1> QED
  BY <1>1, <1>5 DEF FilesOK

LEMMA FilesNext ==
  ASSUME ShapeInv, PathsOK, FilesOK, [Next]_vars, renamed' = 0, ~exited'
  PROVE  FilesOK'
<1>1. CASE monitor_handle
  <2>1. ASSUME NEW name \in DirNames \cup FileNames, ReadEntry(name)
        PROVE  FilesOK'
    BY <2>1, FilesReadEntry
  <2> QED
    BY <1>1, <2>1, FilesStart, FilesAddWatch, FilesFindWd, FilesOpenDir, FilesEndDir, FilesHandleEvent
    DEF monitor_handle
<1>2. CASE Others
  <2>1. ASSUME NEW d \in Dirs, NEW e \in Dirs, NEW name \in NewNames, Mkdir(d, e, name)
        PROVE  FilesOK'
    BY <2>1, FilesMkdir
  <2>2. ASSUME NEW d \in Dirs, NEW e \in Dirs, NEW name \in DirNames, RenameDir(d, e, name)
        PROVE  FilesOK'
    BY <2>2, RenameDirShape
  <2>3. ASSUME NEW d \in Dirs, NEW name \in FileNames, CreateFile(d, name)
        PROVE  FilesOK'
    BY <2>3, FilesCreateFile
  <2>4. ASSUME NEW e \in Dirs, Rmdir(e)
        PROVE  FilesOK'
    BY <2>4, FilesRmdir
  <2>5. ASSUME NEW f \in files, ConsumeFile(f)
        PROVE  FilesOK'
    <3>1. UNCHANGED <<at, watch, events, stack>> /\ files' = files \ {f} /\ queued' = queued \ {f}
      BY <2>5 DEF ConsumeFile, kernelVars
    <3> QED
      BY <3>1, FilesSame
  <2> QED
    BY <1>2, <2>1, <2>2, <2>3, <2>4, <2>5 DEF Others
<1>3. CASE UNCHANGED vars
  BY <1>3, FilesSame DEF vars, treeVars, kernelVars, monVars
<1> QED
  BY <1>1, <1>2, <1>3 DEF Next

-----------------------------------------------------------------------------
(***************************************************************************)
(* The invariant holds, and says what the properties say.                  *)
(***************************************************************************)
\* What others did to the tree, and that the process has ended, stays.
LEMMA UndisturbedBefore ==
  ASSUME ShapeInv, [Next]_vars, Undisturbed'
  PROVE  Undisturbed
<1> USE DEF ShapeInv
<1>1. renamed \in Nat /\ early \in BOOLEAN /\ exited \in BOOLEAN
  BY DEF TypeOK
<1>2. ASSUME UNCHANGED boundVars, exited => exited'
      PROVE  Undisturbed
  BY <1>2 DEF Undisturbed, boundVars
<1>3. CASE monitor_handle
  <2>1. CASE Start \/ EndDir
    BY <1>2, <2>1 DEF Start, EndDir
  <2>2. CASE AddWatch
    BY <1>2, <2>2 DEF AddWatch, Exit
  <2>3. CASE FindWd
    BY <1>2, <2>3 DEF FindWd, Exit
  <2>4. CASE OpenDir
    BY <1>2, <2>4 DEF OpenDir, Exit
  <2>5. CASE HandleEvent
    BY <1>2, <2>5, HandledIs, HandleEventIs
  <2>6. ASSUME NEW name \in DirNames \cup FileNames, ReadEntry(name)
        PROVE  Undisturbed
    BY <1>2, <2>6 DEF ReadEntry
  <2> QED
    BY <1>3, <2>1, <2>2, <2>3, <2>4, <2>5, <2>6 DEF monitor_handle
<1>4. CASE Others
  <2>1. ASSUME NEW d \in Dirs, NEW e \in Dirs, NEW name \in NewNames, Mkdir(d, e, name)
        PROVE  Undisturbed
    BY <2>1 DEF Mkdir, Undisturbed, monVars
  <2>2. ASSUME NEW d \in Dirs, NEW e \in Dirs, NEW name \in DirNames, RenameDir(d, e, name)
        PROVE  Undisturbed
    BY <2>2, RenameDirShape DEF Undisturbed
  <2>3. ASSUME NEW d \in Dirs, NEW name \in FileNames, CreateFile(d, name)
        PROVE  Undisturbed
    BY <2>3 DEF CreateFile, Undisturbed, monVars, boundVars
  <2>4. ASSUME NEW e \in Dirs, Rmdir(e)
        PROVE  Undisturbed
    BY <2>4 DEF Rmdir, Undisturbed, monVars
  <2>5. ASSUME NEW f \in files, ConsumeFile(f)
        PROVE  Undisturbed
    BY <2>5 DEF ConsumeFile, Undisturbed
  <2> QED
    BY <1>4, <2>1, <2>2, <2>3, <2>4, <2>5 DEF Others
<1>5. CASE UNCHANGED vars
  BY <1>5 DEF vars, boundVars, monVars, Undisturbed
<1> QED
  BY <1>3, <1>4, <1>5 DEF Next

LEMMA WatchInit == Init => WatchInv
<1> SUFFICES ASSUME Init PROVE WatchInv
  OBVIOUS
<1>1. ShapeInv
  BY ShapeInit
<1>2. Pending = {} /\ Listed = {}
  BY DEF Init, Pending, Listed
<1>3. PathsOK /\ DirsOK /\ FilesOK
  BY <1>2 DEF Init, PathsOK, DirsOK, DirCovered, FilesOK
<1> QED
  BY <1>1, <1>3 DEF WatchInv

LEMMA WatchNext == ASSUME WatchInv, [Next]_vars PROVE WatchInv'
<1>1. ShapeInv /\ ShapeInv'
  BY ShapeNext DEF WatchInv
<1>2. ASSUME Undisturbed'
      PROVE  PathsOK' /\ DirsOK' /\ FilesOK'
  <2>1. PathsOK /\ DirsOK /\ FilesOK
    BY <1>1, <1>2, UndisturbedBefore DEF WatchInv
  <2>2. renamed' = 0 /\ ~early' /\ ~exited'
    BY <1>2 DEF Undisturbed
  <2> QED
    BY <1>1, <2>1, <2>2, PathsNext, DirsNext, FilesNext
<1> QED
  BY <1>1, <1>2 DEF WatchInv

\* The invariant holds in every reachable state: whatever is not yet watched or
\* queued has an event in the queue or a call on the stack that will come to it.
THEOREM Watches == Spec => []WatchInv
BY WatchInit, WatchNext, PTL DEF Spec

LEMMA SettledIs ==
  ASSUME WatchInv, Settled
  PROVE  ShapeInv /\ PathsOK /\ DirsOK /\ FilesOK /\ started /\ Calls = {} /\ Pending = {}
<1>1. ShapeInv /\ PathsOK /\ DirsOK /\ FilesOK /\ started
  BY DEF WatchInv, Settled, Quiet, Undisturbed
<1>2. Calls = {} /\ Pending = {}
  BY DEF Settled, Quiet, Calls, Pending
<1> QED
  BY <1>1, <1>2

\* A highest directory without a watch would have nobody left to add it.
LEMMA AllWatched ==
  ASSUME WatchInv, Settled, NEW d \in Dirs, Exists(d)
  PROVE  watch[d] # 0
<1>1. ShapeInv /\ PathsOK /\ DirsOK /\ started /\ Calls = {} /\ Pending = {}
  BY SettledIs
<1> USE DEF ShapeInv
<1> DEFINE Unwatched(n) == \E x \in Dirs : Exists(x) /\ watch[x] = 0 /\ Len(at[x]) = n
           T == {n \in Nat : Unwatched(n)}
<1>2. \A x \in Dirs : Exists(x) => Len(at[x]) \in Nat
  BY <1>1, AtTyped, LenProperties
<1>3. CASE T = {}
  BY <1>2, <1>3
<1>4. CASE T # {}
  <2>1. T \in SUBSET Nat
    OBVIOUS
  <2> HIDE DEF T
  <2>2. PICK m \in T : \A n \in T : m <= n
    BY <1>4, <2>1, LeastNatural
  <2>3. PICK x \in Dirs : Exists(x) /\ watch[x] = 0 /\ Len(at[x]) = m
    BY <2>2 DEF T
  <2>4. DirCovered(x)
    BY <1>1, <2>3 DEF DirsOK
  <2>5. PICK p \in In(x) : watch[p] = 0
    BY <1>1, <2>3, <2>4 DEF DirCovered, Announced
  <2>6. p \in Dirs /\ Exists(p) /\ at[p] \in Seq(DirNames) /\ at[x] = Append(at[p], Last(at[x])) /\ Last(at[x]) \in DirNames
    BY <1>1, <2>3, <2>5, InIs
  <2>7. Len(at[x]) = Len(at[p]) + 1 /\ Len(at[p]) \in Nat
    BY <2>6, AppendParts, LenProperties
  <2>8. Len(at[p]) \in T
    BY <2>5, <2>6, <2>7 DEF T
  <2>9. m <= Len(at[p]) /\ m \in Nat
    BY <2>1, <2>2, <2>8
  <2> QED
    BY <2>3, <2>7, <2>9
<1> QED
  BY <1>3, <1>4

LEMMA WatchInvDirs == WatchInv => EveryDirWatched
<1> SUFFICES ASSUME WatchInv PROVE EveryDirWatched
  OBVIOUS
<1>1. TypeOK
  BY DEF WatchInv, ShapeInv
<1>2. ASSUME Settled, NEW d \in Dirs, Exists(d)
      PROVE  /\ watch[d] # 0 /\ NodesOfWd(watch[d]) # {}
             /\ wd_list[First(NodesOfWd(watch[d]))].path = at[d]
  <2>1. watch[d] # 0 /\ PathsOK /\ WdOK
    BY <1>2, AllWatched, SettledIs DEF ShapeInv
  <2>2. NodesOfWd(watch[d]) # {}
    BY <2>1 DEF WdOK, NodesOfWd
  <2> DEFINE j == First(NodesOfWd(watch[d]))
  <2>3. j \in 1..Len(wd_list) /\ wd_list[j].wd = watch[d]
    BY <1>1, <2>2, KnownPath
  <2> HIDE DEF j
  <2>4. wd_list[j].path = at[d]
    BY <2>1, <2>3 DEF PathsOK, Listed
  <2> QED
    BY <2>1, <2>2, <2>4 DEF j
<1> QED
  BY <1>1, <1>2 DEF EveryDirWatched

LEMMA WatchInvFiles == WatchInv => EveryFileQueued
<1> SUFFICES ASSUME WatchInv, Settled, NEW f \in files PROVE f \in queued
  BY DEF EveryFileQueued
<1>1. FileCovered(f) /\ Calls = {} /\ Pending = {}
  BY SettledIs DEF FilesOK
<1>2. \A y \in Dirs : OnTheWay(y, f) => watch[y] # 0
  BY AllWatched DEF OnTheWay
<1> QED
  BY <1>1, <1>2 DEF FileCovered, Told, WillScan, Announced

(***************************************************************************)
(* Once monitor_handle has read every event, each directory has a watch,   *)
(* and the first node with its descriptor in wd_list has its path, however *)
(* many directories were made and removed during the scans, if none was    *)
(* renamed or made again too early.  The state keeps its types over any    *)
(* change, a rename included.                                              *)
(***************************************************************************)
THEOREM DirsAreWatched == Spec => []EveryDirWatched
BY Watches, WatchInvDirs, PTL

(***************************************************************************)
(* Once monitor_handle has read every event, each marker file below        *)
(* monitor-dir has had its queue node, under the same condition: the scan  *)
(* for files after the watches (monitor.c:776) leaves no gap before them.  *)
(***************************************************************************)
THEOREM FilesAreQueued == Spec => []EveryFileQueued
BY Watches, WatchInvFiles, PTL

=============================================================================
