--------------------------- MODULE YamlMemoryProofs ---------------------------
(***************************************************************************)
(* Proofs about the queue and the stacks of the YAML library as they lie   *)
(* in memory: they behave as the sequences that the scanner and the parser *)
(* have in their place, however often the block is moved or extended.      *)
(***************************************************************************)
EXTENDS YamlQueue, SequenceTheorems, TLAPS

VARIABLE stack

\* The stack of the same values.
Memory == INSTANCE YamlStack

-----------------------------------------------------------------------------
(* The queue. *)

\* The fields of a queue, and when it is sound, from its parts.
LEMMA Parts ==
  ASSUME NEW slots, NEW head, NEW tail, NEW end
  PROVE  LET q == Queue(slots, head, tail, end) IN
         q.slots = slots /\ q.head = head /\ q.tail = tail /\ q.end = end
BY DEF Queue

LEMMA SoundParts ==
  ASSUME NEW end \in Nat \ {0}, NEW head \in 0..end, NEW tail \in head..end,
         NEW slots \in [0..(end - 1) -> Values \cup {Garbage}],
         \A i \in head..(tail - 1) : slots[i] \in Values
  PROVE  Sound(Queue(slots, head, tail, end))
BY Parts DEF Sound

\* yaml_queue_extend as the macros use it: there is a free slot, and no token was lost or changed.
LEMMA RoomMade ==
  ASSUME NEW q, Sound(q)
  PROVE  /\ Sound(Room(q))
         /\ Room(q).tail < Room(q).end
         /\ Contents(Room(q)) = Contents(q)
         /\ Room(q).tail - Room(q).head = q.tail - q.head
<1> DEFINE d == Doubled(q)
<1>1. CASE q.tail # q.end
  BY <1>1 DEF Room, Sound
<1>2. CASE q.tail = q.end /\ q.head = 0
  <2>1. d = Queue([i \in 0..(2 * q.end - 1) |-> IF i < q.end THEN q.slots[i] ELSE Garbage],
                  0, q.tail, 2 * q.end)
    BY <1>2 DEF Doubled
  <2>2. d.tail # d.end /\ d.head = 0 /\ d.tail = q.tail /\ d.end = 2 * q.end
    BY <1>2, <2>1 DEF Queue, Sound
  <2>3. Room(q) = d
    BY <1>2, <2>2 DEF Room, Moved
  <2>4. Sound(d)
    BY <1>2, <2>1 DEF Sound, Queue
  <2>5. Contents(d) = Contents(q)
    BY <1>2, <2>1 DEF Sound, Queue, Contents
  <2> QED
    BY <1>2, <2>2, <2>3, <2>4, <2>5 DEF Sound
<1>3. CASE q.tail = q.end /\ q.head # 0
  <2> DEFINE m == Queue([i \in 0..(q.end - 1) |->
                           IF i < q.tail - q.head THEN q.slots[q.head + i] ELSE q.slots[i]],
                        0, q.tail - q.head, q.end)
  <2>1. Room(q) = m
    BY <1>3 DEF Room, Doubled, Moved
  <2>2. m.head = 0 /\ m.tail = q.tail - q.head /\ m.end = q.end
    BY DEF Queue
  <2>3. Sound(m)
    <3> DEFINE s == [i \in 0..(q.end - 1) |-> IF i < q.tail - q.head THEN q.slots[q.head + i] ELSE q.slots[i]]
    <3>1. s \in [0..(q.end - 1) -> Values \cup {Garbage}]
      BY <1>3 DEF Sound
    <3>2. \A i \in 0..(q.tail - q.head - 1) : s[i] \in Values
      <4> SUFFICES ASSUME NEW i \in 0..(q.tail - q.head - 1) PROVE s[i] \in Values
        OBVIOUS
      <4>1. q.head + i \in q.head..(q.tail - 1) /\ i \in 0..(q.end - 1) /\ i < q.tail - q.head
        BY <1>3 DEF Sound
      <4> QED
        BY <4>1 DEF Sound
    <3>3. q.end \in Nat \ {0} /\ q.tail - q.head \in 0..q.end /\ 0 \in 0..q.end
      BY DEF Sound
    <3> HIDE DEF s
    <3>4. Sound(Queue(s, 0, q.tail - q.head, q.end))
      BY <3>1, <3>2, <3>3, SoundParts
    <3> QED
      BY <3>4 DEF s
  <2>4. Contents(m) = Contents(q)
    BY <1>3, <2>2 DEF Sound, Queue, Contents
  <2> HIDE DEF m
  <2> QED
    BY <1>3, <2>1, <2>2, <2>3, <2>4 DEF Sound
<1> QED
  BY <1>1, <1>2, <1>3 DEF Sound

\* The contents are a sequence of tokens, one for each slot between head and tail.
LEMMA ContentsSeq ==
  ASSUME NEW q, Sound(q)
  PROVE  /\ Contents(q) \in Seq(Values)
         /\ Len(Contents(q)) = q.tail - q.head
         /\ \A i \in 1..(q.tail - q.head) : Contents(q)[i] = q.slots[q.head + i - 1]
<1>1. q.tail - q.head \in Nat
  BY DEF Sound
<1>2. ASSUME NEW i \in 1..(q.tail - q.head) PROVE q.slots[q.head + i - 1] \in Values
  <2>1. q.head + i - 1 \in q.head..(q.tail - 1)
    BY DEF Sound
  <2> QED
    BY <2>1 DEF Sound
<1> QED
  BY <1>1, <1>2 DEF Contents

\* ENQUEUE appends.
LEMMA EnqueueStep ==
  ASSUME Sound(queue), NEW v \in Values, Enqueue(v)
  PROVE  Sound(queue') /\ Abstract!Enqueue(v)
<1> DEFINE r == Room(queue)
           t == r.tail + 1
           s == [i \in 0..(r.end - 1) |-> IF i = r.tail THEN v ELSE r.slots[i]]
<1>1. Sound(r) /\ r.tail < r.end /\ Contents(r) = Contents(queue)
  BY RoomMade
<1>2. queue' = Queue(s, r.head, t, r.end)
  BY DEF Enqueue
<1> HIDE DEF r
<1>3. /\ r.head \in Nat /\ r.tail \in Nat /\ r.end \in Nat \ {0} /\ r.head <= r.tail
      /\ r.slots \in [0..(r.end - 1) -> Values \cup {Garbage}]
      /\ \A i \in r.head..(r.tail - 1) : r.slots[i] \in Values
  BY <1>1 DEF Sound
<1>4. s \in [0..(r.end - 1) -> Values \cup {Garbage}]
  BY <1>3
<1>5. \A i \in 0..(r.end - 1) : s[i] = IF i = r.tail THEN v ELSE r.slots[i]
  OBVIOUS
<1>5a. t \in r.head..r.end /\ t - 1 = r.tail /\ r.head \in 0..r.end
  BY <1>1, <1>3
<1> HIDE DEF s, t
<1>6. ASSUME NEW i \in r.head..(t - 1) PROVE s[i] \in Values
  <2>1. i \in 0..(r.end - 1) /\ (i # r.tail => i \in r.head..(r.tail - 1))
    BY <1>1, <1>3, <1>5a
  <2> QED
    BY <1>3, <1>5, <2>1
<1>7. Sound(queue')
  BY <1>2, <1>3, <1>4, <1>6, <1>5a, SoundParts
<1>8. queue'.slots = s /\ queue'.head = r.head /\ queue'.tail = t
  BY <1>2, Parts
<1> DEFINE c == Contents(r)
           n == r.tail - r.head
<1>9. c \in Seq(Values) /\ Len(c) = n /\ n \in Nat /\ \A i \in 1..n : c[i] = r.slots[r.head + i - 1]
  BY <1>1, <1>3, ContentsSeq
<1>10. /\ Contents(queue') \in Seq(Values) /\ Len(Contents(queue')) = t - r.head
       /\ \A i \in 1..(t - r.head) : Contents(queue')[i] = s[r.head + i - 1]
  BY <1>7, <1>8, ContentsSeq
<1> HIDE DEF c
<1>11. ASSUME NEW i \in 1..(n + 1) PROVE Contents(queue')[i] = IF i <= n THEN c[i] ELSE v
  <2> DEFINE k == r.head + i - 1
  <2>1. k \in 0..(r.end - 1) /\ i \in 1..(t - r.head) /\ (k = r.tail <=> i = n + 1)
    BY <1>1, <1>3, <1>5a
  <2>2. Contents(queue')[i] = IF k = r.tail THEN v ELSE r.slots[k]
    BY <1>5, <1>10, <2>1
  <2>3. i <= n => c[i] = r.slots[k] /\ i # n + 1
    BY <1>9
  <2> QED
    BY <1>9, <2>1, <2>2, <2>3
<1>12. Contents(queue') = Append(c, v)
  <2>1. Len(Contents(queue')) = n + 1
    BY <1>3, <1>10, <1>5a
  <2> HIDE DEF n
  <2>2. /\ Append(c, v) \in Seq(Values) /\ Len(Append(c, v)) = n + 1
        /\ \A i \in 1..(n + 1) : Append(c, v)[i] = IF i <= n THEN c[i] ELSE v
    BY <1>9
  <2> QED
    BY <1>10, <1>11, <2>1, <2>2, SeqEqual
<1> QED
  BY <1>1, <1>7, <1>12 DEF Abstract!Enqueue, c

\* DEQUEUE takes the first token.
LEMMA DequeueStep ==
  ASSUME Sound(queue), Dequeue
  PROVE  Sound(queue') /\ Abstract!Dequeue
<1>1. /\ queue' = Queue(queue.slots, queue.head + 1, queue.tail, queue.end)
      /\ queue.head # queue.tail
  BY DEF Dequeue, Empty
<1>2. /\ queue.head \in Nat /\ queue.tail \in Nat /\ queue.end \in Nat \ {0}
      /\ queue.head < queue.tail /\ queue.tail <= queue.end
      /\ queue.slots \in [0..(queue.end - 1) -> Values \cup {Garbage}]
      /\ \A i \in queue.head..(queue.tail - 1) : queue.slots[i] \in Values
  BY <1>1 DEF Sound
<1>3. Sound(queue')
  <2>1. queue.head + 1 \in 0..queue.end /\ queue.tail \in (queue.head + 1)..queue.end
    BY <1>2
  <2>2. \A i \in (queue.head + 1)..(queue.tail - 1) : queue.slots[i] \in Values
    BY <1>2
  <2> QED
    BY <1>1, <1>2, <2>1, <2>2, SoundParts
<1> DEFINE c == Contents(queue)
           n == queue.tail - queue.head
<1>4. c \in Seq(Values) /\ Len(c) = n /\ n \in Nat \ {0} /\ \A i \in 1..n : c[i] = queue.slots[queue.head + i - 1]
  BY <1>2, ContentsSeq
<1>5. queue'.slots = queue.slots /\ queue'.head = queue.head + 1 /\ queue'.tail = queue.tail
  BY <1>1, Parts
<1>6. /\ Contents(queue') \in Seq(Values) /\ Len(Contents(queue')) = n - 1
      /\ \A i \in 1..(n - 1) : Contents(queue')[i] = queue.slots[queue.head + i]
  <2>1. queue.tail - (queue.head + 1) = n - 1
    BY <1>2
  <2>2. /\ Contents(queue') \in Seq(Values) /\ Len(Contents(queue')) = n - 1
        /\ \A i \in 1..(n - 1) : Contents(queue')[i] = queue.slots[(queue.head + 1) + i - 1]
    BY <1>3, <1>5, <2>1, ContentsSeq
  <2>3. \A i \in 1..(n - 1) : (queue.head + 1) + i - 1 = queue.head + i
    BY <1>2
  <2> QED
    BY <2>2, <2>3
<1>7. \A i \in 1..(n - 1) : c[i + 1] = queue.slots[queue.head + i]
  <2> SUFFICES ASSUME NEW i \in 1..(n - 1) PROVE c[i + 1] = queue.slots[queue.head + i]
    OBVIOUS
  <2>1. i + 1 \in 1..n /\ queue.head + (i + 1) - 1 = queue.head + i
    BY <1>2
  <2> QED
    BY <1>4, <2>1
<1> HIDE DEF c, n
<1>8. c # <<>> /\ Contents(queue') = Tail(c)
  <2>1. /\ Tail(c) \in Seq(Values) /\ Len(Tail(c)) = n - 1
        /\ \A i \in 1..(n - 1) : Tail(c)[i] = c[i + 1]
    BY <1>4
  <2>2. \A i \in 1..(n - 1) : Contents(queue')[i] = Tail(c)[i]
    BY <1>6, <1>7, <2>1
  <2> QED
    BY <1>4, <1>6, <2>1, <2>2, SeqEqual
<1> QED
  BY <1>3, <1>8 DEF Abstract!Dequeue, c

\* QUEUE_INSERT puts the token in its place, and the tokens behind it keep their order.
LEMMA InsertStep ==
  ASSUME Sound(queue), NEW v \in Values, NEW index \in Nat, Insert(index, v)
  PROVE  Sound(queue') /\ Abstract!Insert(index, v)
<1> DEFINE r == Room(queue)
           at == r.head + index
           t == r.tail + 1
           s == [i \in 0..(r.end - 1) |->
                   IF i = at THEN v
                   ELSE IF i > at /\ i <= r.tail THEN r.slots[i - 1] ELSE r.slots[i]]
<1>1. /\ Sound(r) /\ r.tail < r.end /\ Contents(r) = Contents(queue)
      /\ r.tail - r.head = queue.tail - queue.head
  BY RoomMade
<1>2. index \in 0..(r.tail - r.head) /\ queue' = Queue(s, r.head, t, r.end)
  BY <1>1 DEF Insert
<1> HIDE DEF r
<1>3. /\ r.head \in Nat /\ r.tail \in Nat /\ r.end \in Nat \ {0} /\ r.head <= r.tail
      /\ r.slots \in [0..(r.end - 1) -> Values \cup {Garbage}]
      /\ \A i \in r.head..(r.tail - 1) : r.slots[i] \in Values
  BY <1>1 DEF Sound
<1>4. at \in r.head..r.tail
  BY <1>2, <1>3
<1>5. \A i \in 0..(r.end - 1) :
        s[i] = IF i = at THEN v ELSE IF i > at /\ i <= r.tail THEN r.slots[i - 1] ELSE r.slots[i]
  OBVIOUS
<1>6. s \in [0..(r.end - 1) -> Values \cup {Garbage}]
  <2>1. ASSUME NEW i \in 0..(r.end - 1) PROVE s[i] \in Values \cup {Garbage}
    <3>1. i > at => i - 1 \in 0..(r.end - 1)
      BY <1>3, <1>4
    <3> QED
      BY <1>3, <1>5, <3>1
  <2> QED
    BY <2>1
<1>5a. t \in r.head..r.end /\ t - 1 = r.tail /\ r.head \in 0..r.end
  BY <1>1, <1>3
<1> HIDE DEF s, at, t
<1>7. ASSUME NEW i \in r.head..(t - 1) PROVE s[i] \in Values
  <2>1. i \in 0..(r.end - 1) /\ i \in r.head..r.tail
    BY <1>1, <1>3, <1>5a
  <2>2. CASE i = at
    BY <1>5, <2>1, <2>2
  <2>3. CASE i > at
    <3>1. i - 1 \in r.head..(r.tail - 1) /\ i <= r.tail /\ i # at
      BY <1>3, <1>4, <2>1, <2>3
    <3> QED
      BY <1>3, <1>5, <2>1, <2>3, <3>1
  <2>4. CASE i < at
    <3>1. i \in r.head..(r.tail - 1) /\ ~(i > at) /\ i # at
      BY <1>3, <1>4, <2>1, <2>4
    <3> QED
      BY <1>3, <1>5, <2>1, <3>1
  <2> QED
    BY <1>3, <1>4, <2>1, <2>2, <2>3, <2>4
<1>8. Sound(queue')
  BY <1>2, <1>3, <1>6, <1>7, <1>5a, SoundParts
<1>9. queue'.slots = s /\ queue'.head = r.head /\ queue'.tail = t
  BY <1>2, Parts
<1> DEFINE c == Contents(r)
           n == r.tail - r.head
<1>10. c \in Seq(Values) /\ Len(c) = n /\ n \in Nat /\ \A i \in 1..n : c[i] = r.slots[r.head + i - 1]
  BY <1>1, <1>3, ContentsSeq
<1>11. /\ Contents(queue') \in Seq(Values) /\ Len(Contents(queue')) = n + 1
       /\ \A i \in 1..(n + 1) : Contents(queue')[i] = s[r.head + i - 1]
  <2>1. t - r.head = n + 1
    BY <1>3, <1>5a
  <2>2. /\ Contents(queue') \in Seq(Values) /\ Len(Contents(queue')) = t - r.head
        /\ \A i \in 1..(t - r.head) : Contents(queue')[i] = s[r.head + i - 1]
    BY <1>8, <1>9, ContentsSeq
  <2> QED
    BY <2>1, <2>2
<1> HIDE DEF c
<1>12. ASSUME NEW i \in 1..(n + 1)
       PROVE  Contents(queue')[i] = IF i <= index THEN c[i] ELSE IF i = index + 1 THEN v ELSE c[i - 1]
  <2> DEFINE k == r.head + i - 1
  <2>1. k \in 0..(r.end - 1) /\ Contents(queue')[i] = s[k]
    BY <1>1, <1>3, <1>11
  <2>2. CASE i = index + 1
    <3>1. k = at
      BY <1>3, <2>2 DEF at
    <3> QED
      BY <1>2, <1>5, <2>1, <2>2, <3>1
  <2>3. CASE i <= index
    <3>1. ~(k > at) /\ k # at /\ i \in 1..n
      BY <1>2, <1>3, <2>3 DEF at
    <3>2. s[k] = r.slots[k]
      BY <1>5, <2>1, <3>1
    <3> QED
      BY <1>10, <2>1, <2>3, <3>1, <3>2
  <2>4. CASE i > index + 1
    <3>1. k > at /\ k <= r.tail /\ k # at /\ i - 1 \in 1..n /\ r.head + (i - 1) - 1 = k - 1
      BY <1>2, <1>3, <2>4 DEF at
    <3>2. s[k] = r.slots[k - 1]
      BY <1>5, <2>1, <3>1
    <3>3. c[i - 1] = r.slots[k - 1]
      BY <1>10, <3>1
    <3> QED
      BY <1>2, <2>1, <2>4, <3>2, <3>3
  <2> QED
    BY <1>2, <2>2, <2>3, <2>4
<1>13. index \in 0..n
  BY <1>2
<1> HIDE DEF n
<1>14. Contents(queue') = InsertAt(c, index + 1, v)
  <2> DEFINE a == SubSeq(c, 1, index)
             b == SubSeq(c, index + 1, n)
  <2>1. a \in Seq(Values) /\ Len(a) = index /\ \A i \in 1..index : a[i] = c[i]
    BY <1>10, <1>13, SubSeqProperties
  <2>2. b \in Seq(Values) /\ Len(b) = n - index /\ \A i \in 1..(n - index) : b[i] = c[index + i]
    <3>1. index + 1 \in Int /\ n \in Int /\ \A i \in (index + 1)..n : c[i] \in Values
      BY <1>10, <1>13
    <3>2. /\ b \in Seq(Values)
          /\ Len(b) = IF index + 1 <= n THEN n - (index + 1) + 1 ELSE 0
          /\ \A i \in 1..(n - (index + 1) + 1) : b[i] = c[index + 1 + i - 1]
      BY <3>1, SubSeqProperties
    <3>3. n - (index + 1) + 1 = n - index /\ \A i \in 1..(n - index) : index + 1 + i - 1 = index + i
      BY <1>10, <1>13
    <3> QED
      BY <1>10, <1>13, <3>2, <3>3
  <2>3. InsertAt(c, index + 1, v) = a \o <<v>> \o b
    BY <1>10, <1>13 DEF InsertAt
  <2> HIDE DEF a, b
  <2> DEFINE av == a \o <<v>>
  <2>4. /\ av \in Seq(Values) /\ Len(av) = index + 1
        /\ \A i \in 1..(index + 1) : av[i] = IF i <= index THEN c[i] ELSE v
    BY <2>1, ConcatProperties
  <2> HIDE DEF av
  <2>5. /\ av \o b \in Seq(Values) /\ Len(av \o b) = n + 1
        /\ \A i \in 1..(n + 1) : (av \o b)[i] = IF i <= index + 1 THEN av[i] ELSE b[i - (index + 1)]
    <3>1. /\ av \o b \in Seq(Values) /\ Len(av \o b) = Len(av) + Len(b)
          /\ \A i \in 1..(Len(av) + Len(b)) : (av \o b)[i] = IF i <= Len(av) THEN av[i] ELSE b[i - Len(av)]
      BY <2>2, <2>4, ConcatProperties
    <3>2. Len(av) + Len(b) = n + 1
      BY <1>10, <1>13, <2>2, <2>4
    <3> QED
      BY <2>4, <3>1, <3>2
  <2> HIDE DEF c
  <2>6. ASSUME NEW i \in 1..(n + 1) PROVE Contents(queue')[i] = (av \o b)[i]
    <3>1. CASE i <= index + 1
      BY <1>12, <1>13, <2>4, <2>5, <3>1
    <3>2. CASE i > index + 1
      <4>1. i - (index + 1) \in 1..(n - index) /\ index + (i - (index + 1)) = i - 1
        BY <1>10, <1>13, <3>2
      <4>2. b[i - (index + 1)] = c[i - 1]
        BY <2>2, <4>1
      <4> QED
        BY <1>12, <1>13, <2>5, <3>2, <4>2
    <3>3. i <= index + 1 \/ i > index + 1
      BY <1>10, <1>13
    <3> QED
      BY <3>1, <3>2, <3>3
  <2> QED
    BY <1>11, <2>3, <2>5, <2>6, SeqEqual DEF av
<1> QED
  <2>1. Contents(queue) = c
    BY <1>1 DEF c
  <2> QED
    BY <1>8, <1>10, <1>13, <1>14, <2>1 DEF Abstract!Insert, Abstract!InsertAt, InsertAt

\* Every state of the queue is sound.
THEOREM QueueStaysSound ==
  ASSUME InitialSize \in Nat \ {0}
  PROVE  Spec => []QueueSound
<1>1. Init => QueueSound
  BY DEF Init, QueueSound, Sound, Queue
<1>2. QueueSound /\ [Next]_queue => QueueSound'
  <2> SUFFICES ASSUME Sound(queue), [Next]_queue PROVE Sound(queue')
    BY DEF QueueSound
  <2>1. CASE \E v \in Values : Enqueue(v)
    BY <2>1, EnqueueStep
  <2>2. CASE Dequeue
    BY <2>2, DequeueStep
  <2>3. CASE \E v \in Values, index \in Nat : Insert(index, v)
    BY <2>3, InsertStep
  <2>4. CASE UNCHANGED queue
    BY <2>4 DEF Sound
  <2> QED
    BY <2>1, <2>2, <2>3, <2>4 DEF Next
<1> QED
  BY <1>1, <1>2, PTL DEF Spec

\* The queue in memory implements the sequence YamlScanner has in its place.
THEOREM QueueIsSequence ==
  ASSUME InitialSize \in Nat \ {0}
  PROVE  Spec => ImplementsTokenQueue
<1>1. Init => Abstract!Init
  BY DEF Init, Abstract!Init, Contents, Queue
<1>2. QueueSound /\ [Next]_queue => [Abstract!Next]_(Contents(queue))
  <2> SUFFICES ASSUME Sound(queue), [Next]_queue PROVE [Abstract!Next]_(Contents(queue))
    BY DEF QueueSound
  <2>1. CASE \E v \in Values : Enqueue(v)
    BY <2>1, EnqueueStep DEF Abstract!Next
  <2>2. CASE Dequeue
    BY <2>2, DequeueStep DEF Abstract!Next
  <2>3. CASE \E v \in Values, index \in Nat : Insert(index, v)
    BY <2>3, InsertStep DEF Abstract!Next
  <2>4. CASE UNCHANGED queue
    BY <2>4 DEF Contents
  <2> QED
    BY <2>1, <2>2, <2>3, <2>4 DEF Next
<1> QED
  BY <1>1, <1>2, QueueStaysSound, PTL DEF Spec, Abstract!Spec, ImplementsTokenQueue

-----------------------------------------------------------------------------
(* The stacks. *)

\* The fields of a stack, and when it is sound, from its parts.
LEMMA StackParts ==
  ASSUME NEW slots, NEW top, NEW end
  PROVE  LET s == Memory!Stack(slots, top, end) IN s.slots = slots /\ s.top = top /\ s.end = end
BY DEF Memory!Stack

LEMMA StackSoundParts ==
  ASSUME NEW end \in Nat \ {0}, NEW top \in 0..end,
         NEW slots \in [0..(end - 1) -> Values \cup {Garbage}],
         \A i \in 0..(top - 1) : slots[i] \in Values
  PROVE  Memory!Sound(Memory!Stack(slots, top, end))
BY StackParts DEF Memory!Sound

\* The contents are a sequence of values, one for each slot below the top.
LEMMA StackContentsSeq ==
  ASSUME NEW s, Memory!Sound(s)
  PROVE  /\ Memory!Contents(s) \in Seq(Values) /\ Len(Memory!Contents(s)) = s.top
         /\ \A i \in 1..s.top : Memory!Contents(s)[i] = s.slots[i - 1]
<1>1. ASSUME NEW i \in 1..s.top PROVE s.slots[i - 1] \in Values
  <2>1. i - 1 \in 0..(s.top - 1)
    BY DEF Memory!Sound
  <2> QED
    BY <2>1 DEF Memory!Sound
<1> QED
  BY <1>1 DEF Memory!Contents, Memory!Sound

\* yaml_stack_extend as PUSH uses it: there is a free slot, and no value was lost or changed.
LEMMA StackRoomMade ==
  ASSUME NEW s, Memory!Sound(s)
  PROVE  /\ Memory!Sound(Memory!Room(s)) /\ Memory!Room(s).top < Memory!Room(s).end
         /\ Memory!Contents(Memory!Room(s)) = Memory!Contents(s)
<1>1. CASE s.top # s.end
  BY <1>1 DEF Memory!Room, Memory!Sound
<1>2. CASE s.top = s.end
  <2> DEFINE new == [i \in 0..(2 * s.end - 1) |-> IF i < s.end THEN s.slots[i] ELSE Garbage]
  <2>1. Memory!Room(s) = Memory!Stack(new, s.top, 2 * s.end)
    BY <1>2 DEF Memory!Room, Memory!Extended
  <2>2. s.end \in Nat \ {0} /\ 2 * s.end \in Nat \ {0} /\ s.top \in 0..(2 * s.end) /\ s.top < 2 * s.end
    BY <1>2 DEF Memory!Sound
  <2>3. new \in [0..(2 * s.end - 1) -> Values \cup {Garbage}] /\ \A i \in 0..(s.top - 1) : new[i] = s.slots[i]
    BY <1>2, <2>2 DEF Memory!Sound
  <2> HIDE DEF new
  <2>4. Memory!Sound(Memory!Room(s))
    BY <2>1, <2>2, <2>3, StackSoundParts DEF Memory!Sound
  <2>5. Memory!Room(s).slots = new /\ Memory!Room(s).top = s.top /\ Memory!Room(s).end = 2 * s.end
    BY <2>1, StackParts
  <2>6. ASSUME NEW i \in 1..s.top PROVE new[i - 1] = s.slots[i - 1]
    <3>1. i - 1 \in 0..(s.top - 1)
      BY <2>2
    <3> QED
      BY <2>3, <3>1
  <2>7. Memory!Contents(Memory!Room(s)) = Memory!Contents(s)
    BY <2>5, <2>6 DEF Memory!Contents
  <2> QED
    BY <2>2, <2>4, <2>5, <2>7
<1> QED
  BY <1>1, <1>2

\* PUSH appends.
LEMMA PushStep ==
  ASSUME Memory!Sound(stack), NEW v \in Values, Memory!Push(v)
  PROVE  Memory!Sound(stack') /\ Memory!Contents(stack') = Append(Memory!Contents(stack), v)
<1> DEFINE r == Memory!Room(stack)
           n == r.top
           t == n + 1
           s == [i \in 0..(r.end - 1) |-> IF i = n THEN v ELSE r.slots[i]]
<1>1. Memory!Sound(r) /\ n < r.end /\ Memory!Contents(r) = Memory!Contents(stack)
  BY StackRoomMade
<1>2. stack' = Memory!Stack(s, t, r.end)
  BY DEF Memory!Push
<1> HIDE DEF r
<1>3. /\ n \in Nat /\ r.end \in Nat \ {0} /\ r.slots \in [0..(r.end - 1) -> Values \cup {Garbage}]
      /\ \A i \in 0..(n - 1) : r.slots[i] \in Values
  BY <1>1 DEF Memory!Sound
<1>4. t \in 0..r.end /\ t - 1 = n
  BY <1>1, <1>3
<1>5. /\ s \in [0..(r.end - 1) -> Values \cup {Garbage}]
      /\ \A i \in 0..(r.end - 1) : s[i] = IF i = n THEN v ELSE r.slots[i]
  BY <1>3
<1> HIDE DEF s, t
<1>6. ASSUME NEW i \in 0..(t - 1) PROVE s[i] \in Values
  <2>1. i \in 0..(r.end - 1) /\ (i # n => i \in 0..(n - 1))
    BY <1>1, <1>3, <1>4
  <2> QED
    BY <1>3, <1>5, <2>1
<1>7. Memory!Sound(stack')
  BY <1>2, <1>3, <1>4, <1>5, <1>6, StackSoundParts
<1>8. stack'.slots = s /\ stack'.top = t
  BY <1>2, StackParts
<1> DEFINE c == Memory!Contents(r)
<1>9. c \in Seq(Values) /\ Len(c) = n /\ \A i \in 1..n : c[i] = r.slots[i - 1]
  BY <1>1, StackContentsSeq
<1>10. /\ Memory!Contents(stack') \in Seq(Values) /\ Len(Memory!Contents(stack')) = t
       /\ \A i \in 1..t : Memory!Contents(stack')[i] = s[i - 1]
  BY <1>7, <1>8, StackContentsSeq
<1> HIDE DEF c, n
<1>11. ASSUME NEW i \in 1..t PROVE Memory!Contents(stack')[i] = IF i <= n THEN c[i] ELSE v
  <2>1. i - 1 \in 0..(r.end - 1) /\ (i - 1 = n <=> i = t) /\ (i <= n <=> i # t)
    BY <1>1, <1>3, <1>4
  <2>2. Memory!Contents(stack')[i] = IF i - 1 = n THEN v ELSE r.slots[i - 1]
    BY <1>5, <1>10, <2>1
  <2>3. i <= n => c[i] = r.slots[i - 1]
    BY <1>3, <1>9
  <2> QED
    BY <2>1, <2>2, <2>3
<1>12. Memory!Contents(stack') = Append(c, v)
  <2>1. /\ Append(c, v) \in Seq(Values) /\ Len(Append(c, v)) = t
        /\ \A i \in 1..t : Append(c, v)[i] = IF i <= n THEN c[i] ELSE v
    BY <1>3, <1>9 DEF t
  <2> QED
    BY <1>10, <1>11, <2>1, SeqEqual
<1> QED
  BY <1>1, <1>7, <1>12 DEF c

\* POP takes the value that was pushed last.
LEMMA PopStep ==
  ASSUME Memory!Sound(stack), Memory!Pop
  PROVE  /\ Memory!Sound(stack')
         /\ Memory!Contents(stack) # <<>> /\ Memory!Contents(stack') = Front(Memory!Contents(stack))
<1> DEFINE n == stack.top
           t == n - 1
<1>1. stack' = Memory!Stack(stack.slots, t, stack.end) /\ n # 0
  BY DEF Memory!Pop, Memory!Empty
<1>2. /\ n \in Nat /\ stack.end \in Nat \ {0} /\ t \in 0..stack.end
      /\ stack.slots \in [0..(stack.end - 1) -> Values \cup {Garbage}]
      /\ \A i \in 0..(t - 1) : stack.slots[i] \in Values
  BY <1>1 DEF Memory!Sound
<1> HIDE DEF t
<1>3. Memory!Sound(stack')
  BY <1>1, <1>2, StackSoundParts
<1>4. stack'.slots = stack.slots /\ stack'.top = t
  BY <1>1, StackParts
<1> DEFINE c == Memory!Contents(stack)
<1>5. c \in Seq(Values) /\ Len(c) = n /\ \A i \in 1..n : c[i] = stack.slots[i - 1]
  BY StackContentsSeq
<1>6. /\ Memory!Contents(stack') \in Seq(Values) /\ Len(Memory!Contents(stack')) = t
      /\ \A i \in 1..t : Memory!Contents(stack')[i] = stack.slots[i - 1]
  BY <1>3, <1>4, StackContentsSeq
<1> HIDE DEF c, n
<1>7. n - 1 = t /\ \A i \in 1..t : i \in 1..n
  BY <1>1, <1>2 DEF t
<1>8. Front(c) \in Seq(Values) /\ Len(Front(c)) = t /\ \A i \in 1..t : Front(c)[i] = c[i]
  <2>1. c # <<>>
    BY <1>1, <1>5
  <2> QED
    BY <1>2, <1>5, <1>7, <2>1 DEF Front
<1>9. Memory!Contents(stack') = Front(c)
  BY <1>5, <1>6, <1>7, <1>8, SeqEqual
<1> QED
  BY <1>1, <1>3, <1>5, <1>9 DEF c

\* The stack in memory is sound in every state, and behaves as a sequence.
THEOREM StackIsSequence ==
  ASSUME InitialSize \in Nat \ {0}
  PROVE  Memory!Spec => Memory!IsSequence
<1>1. Memory!Init => Memory!Sound(stack) /\ Memory!Contents(stack) = <<>>
  BY DEF Memory!Init, Memory!Sound, Memory!Contents, Memory!Stack
<1>2. Memory!Sound(stack) /\ [Memory!Next]_stack
        => Memory!Sound(stack)' /\ [Memory!SequenceStep]_(Memory!Contents(stack))
  <2> SUFFICES ASSUME Memory!Sound(stack), [Memory!Next]_stack
               PROVE  Memory!Sound(stack') /\ [Memory!SequenceStep]_(Memory!Contents(stack))
    OBVIOUS
  <2>1. CASE \E v \in Values : Memory!Push(v)
    BY <2>1, PushStep DEF Memory!SequenceStep
  <2>2. CASE Memory!Pop
    BY <2>2, PopStep DEF Memory!SequenceStep, Front, Memory!Front
  <2>3. CASE UNCHANGED stack
    BY <2>3 DEF Memory!Sound, Memory!Contents
  <2> QED
    BY <2>1, <2>2, <2>3 DEF Memory!Next
<1> QED
  BY <1>1, <1>2, PTL DEF Memory!Spec, Memory!IsSequence
=============================================================================
