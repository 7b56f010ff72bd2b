------------------------------ MODULE YamlStack ------------------------------
(***************************************************************************)
(* The stacks of the YAML library as they lie in memory: PUSH and POP of   *)
(* yaml/yaml_private.h and yaml_stack_extend of yaml/api.c.  YamlParser    *)
(* has sequences in their place (states, marks), YamlScanner too (indents, *)
(* simple_keys).  As in YamlQueue pointers are positions from the start of *)
(* the block, a slot nobody has written since it was allocated holds       *)
(* Garbage, and when realloc fails nothing changes.                        *)
(*                                                                         *)
(* POP does not look whether there is anything to take.  Here it is taken  *)
(* for granted that there is: StacksMatch of YamlParser says so.           *)
(***************************************************************************)
EXTENDS Integers, Sequences, SequencesExt

CONSTANTS
  Values,       \* what is pushed
  InitialSize,  \* INITIAL_STACK_SIZE
  Garbage       \* what a slot holds that was never written

VARIABLE stack  \* [slots, top, end]

Stack(slots, top, end) == [slots |-> slots, top |-> top, end |-> end]

\* STACK_INIT
Init == stack = Stack([i \in 0..(InitialSize - 1) |-> Garbage], 0, InitialSize)

\* STACK_EMPTY
Empty(s) == s.top = 0

\* yaml_stack_extend: the block is made twice as long.
Extended(s) ==
  Stack([i \in 0..(2 * s.end - 1) |-> IF i < s.end THEN s.slots[i] ELSE Garbage], s.top, 2 * s.end)

\* The test that PUSH begins with.
Room(s) == IF s.top # s.end THEN s ELSE Extended(s)

Push(v) ==
  LET r == Room(stack) IN
  stack' = Stack([i \in 0..(r.end - 1) |-> IF i = r.top THEN v ELSE r.slots[i]], r.top + 1, r.end)

Pop ==
  /\ ~Empty(stack)
  /\ stack' = Stack(stack.slots, stack.top - 1, stack.end)

Next == Pop \/ \E v \in Values : Push(v)

Spec == Init /\ [][Next]_stack

-----------------------------------------------------------------------------
(* What it promises. *)

\* The values on the stack, the bottom one first.
Contents(s) == [i \in 1..s.top |-> s.slots[i - 1]]

\* The top is inside of the block, and every slot below it was written.
Sound(s) ==
  /\ s.end \in Nat \ {0} /\ s.top \in 0..s.end
  /\ s.slots \in [0..(s.end - 1) -> Values \cup {Garbage}]
  /\ \A i \in 0..(s.top - 1) : s.slots[i] \in Values

\* A step of the sequence that stands for the stack: a value is added to its end or taken from it.
SequenceStep ==
  \/ \E v \in Values : Contents(stack)' = Append(Contents(stack), v)
  \/ Contents(stack) # <<>> /\ Contents(stack)' = Front(Contents(stack))

\* The stack in memory is the sequence the parser and the scanner take it for, also when it is extended.
IsSequence == Contents(stack) = <<>> /\ [][SequenceStep]_(Contents(stack))
=============================================================================
