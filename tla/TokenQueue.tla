------------------------------ MODULE TokenQueue ------------------------------
(***************************************************************************)
(* What YamlScanner takes the queue of tokens for: a sequence to whose end *)
(* tokens are added, from whose head they are taken, and into which KEY    *)
(* and BLOCK-MAPPING-START are put at the place of a simple key.           *)
(***************************************************************************)
EXTENDS Naturals, Sequences, SequencesExt

CONSTANT Values

VARIABLE tokens

Init == tokens = <<>>

Enqueue(v) == tokens' = Append(tokens, v)

Dequeue == tokens # <<>> /\ tokens' = Tail(tokens)

\* index counts from the head: 0 is before it, the length is behind the last one.
Insert(index, v) == index \in 0..Len(tokens) /\ tokens' = InsertAt(tokens, index + 1, v)

Next ==
  \/ \E v \in Values : Enqueue(v)
  \/ Dequeue
  \/ \E v \in Values, index \in Nat : Insert(index, v)

Spec == Init /\ [][Next]_tokens
=============================================================================
