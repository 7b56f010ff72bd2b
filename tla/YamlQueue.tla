------------------------------ MODULE YamlQueue ------------------------------
(***************************************************************************)
(* The queue of tokens as it lies in memory: ENQUEUE, DEQUEUE and          *)
(* QUEUE_INSERT of yaml/yaml_private.h and yaml_queue_extend of            *)
(* yaml/api.c.  Four pointers into one allocated block become positions    *)
(* from its start; a slot nobody has written since the block was allocated *)
(* holds Garbage.  A slot outside of the block does not exist, so that a   *)
(* write there is lost.                                                    *)
(*                                                                         *)
(* When realloc fails the macros return 0 and change nothing: no step.     *)
(***************************************************************************)
EXTENDS Integers, Sequences, SequencesExt

CONSTANTS
  Values,       \* the tokens
  InitialSize,  \* INITIAL_QUEUE_SIZE
  Garbage       \* what a slot holds that was never written

VARIABLE queue  \* [slots, head, tail, end]

Queue(slots, head, tail, end) == [slots |-> slots, head |-> head, tail |-> tail, end |-> end]

\* QUEUE_INIT
Init == queue = Queue([i \in 0..(InitialSize - 1) |-> Garbage], 0, 0, InitialSize)

\* QUEUE_EMPTY
Empty(q) == q.head = q.tail

\* yaml_queue_extend, first half: a block that is full from its start on is made twice as long.
Doubled(q) ==
  IF q.head = 0 /\ q.tail = q.end
  THEN Queue([i \in 0..(2 * q.end - 1) |-> IF i < q.end THEN q.slots[i] ELSE Garbage],
             q.head, q.tail, 2 * q.end)
  ELSE q

\* yaml_queue_extend, second half: at the end of the block the tokens are moved to its start.
Moved(q) ==
  IF q.tail = q.end
  THEN Queue([i \in 0..(q.end - 1) |-> IF i < q.tail - q.head THEN q.slots[q.head + i] ELSE q.slots[i]],
             0, q.tail - q.head, q.end)
  ELSE q

\* The test that ENQUEUE and QUEUE_INSERT begin with.
Room(q) == IF q.tail # q.end THEN q ELSE Moved(Doubled(q))

Enqueue(v) ==
  LET r == Room(queue) IN
  queue' = Queue([i \in 0..(r.end - 1) |-> IF i = r.tail THEN v ELSE r.slots[i]], r.head, r.tail + 1, r.end)

Dequeue ==
  /\ ~Empty(queue)
  /\ queue' = Queue(queue.slots, queue.head + 1, queue.tail, queue.end)

\* The memmove of the tokens from index on, by one slot, and the token in its place.
Insert(index, v) ==
  /\ index \in 0..(queue.tail - queue.head)
  /\ LET r == Room(queue)
         at == r.head + index
     IN  queue' = Queue([i \in 0..(r.end - 1) |->
                           IF i = at THEN v
                           ELSE IF i > at /\ i <= r.tail THEN r.slots[i - 1] ELSE r.slots[i]],
                        r.head, r.tail + 1, r.end)

Next ==
  \/ \E v \in Values : Enqueue(v)
  \/ Dequeue
  \/ \E v \in Values, index \in Nat : Insert(index, v)

Spec == Init /\ [][Next]_queue

-----------------------------------------------------------------------------
(* What it promises. *)

\* The tokens that are in the queue, from its head on.
Contents(q) == [i \in 1..(q.tail - q.head) |-> q.slots[q.head + i - 1]]

\* The pointers are in order and inside of the block, and every slot between head and tail was written.
Sound(q) ==
  /\ q.head \in Nat /\ q.tail \in Nat /\ q.end \in Nat \ {0}
  /\ q.head <= q.tail /\ q.tail <= q.end
  /\ q.slots \in [0..(q.end - 1) -> Values \cup {Garbage}]
  /\ \A i \in q.head..(q.tail - 1) : q.slots[i] \in Values

QueueSound == Sound(queue)

Abstract == INSTANCE TokenQueue WITH tokens <- Contents(queue)

\* However tokens are added, taken and inserted, and wherever the block is full, moved or doubled:
\* the queue is the sequence the scanner takes it for.
ImplementsTokenQueue == Abstract!Spec
=============================================================================
