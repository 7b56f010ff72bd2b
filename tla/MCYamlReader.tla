---------------------------- MODULE MCYamlReader ----------------------------
(***************************************************************************)
(* Files for YamlReader: a byte order mark or none, some letters, so that  *)
(* the end of a block falls anywhere in what follows, and up to two        *)
(* sequences, good and bad ones.                                           *)
(***************************************************************************)
EXTENDS YamlReader

\* a, e acute, euro sign, an emoji, the mark in the middle of a file; then
\* wrong leads, trails, lengths and ranges, and sequences that are cut off.
Utf8Units ==
  { <<97>>, <<195, 169>>, <<226, 130, 172>>, <<240, 159, 152, 128>>, <<239, 187, 191>>,
    <<255>>, <<128>>, <<7>>, <<0>>, <<192, 175>>, <<237, 160, 128>>, <<244, 144, 128, 128>>,
    <<195>>, <<226, 130>>, <<240, 159, 152>>, <<226, 97, 97>>, <<240, 159, 97, 97>> }

\* a, the euro sign, an emoji; both surrogates alone, a control, half a unit.
Units16 == { <<0, 97>>, <<32, 172>>, <<216, 61, 222, 0>>, <<222, 0>>, <<216, 61>>, <<0, 7>> }
Swapped(s) == [i \in DOMAIN s |-> s[IF i % 2 = 1 THEN i + 1 ELSE i - 1]]

Tails(units) == {<<>>} \cup units \cup {u \o v : u, v \in units}

Letters(letter, counts) == {FlattenSeq([i \in 1..n |-> letter]) : n \in counts}

MCFiles ==
  {m \o l \o t : m \in {<<>>, Bom.utf8}, l \in Letters(<<97>>, {0, 5, 6, 7, 8}), t \in Tails(Utf8Units)}
  \cup {Bom.utf16be \o l \o t :
          l \in Letters(<<0, 97>>, {0, 1, 2, 3}), t \in Tails(Units16 \cup {<<97>>})}
  \cup {Bom.utf16le \o l \o t :
          l \in Letters(<<97, 0>>, {0, 1, 2, 3}), t \in Tails({Swapped(u) : u \in Units16} \cup {<<97>>})}
=============================================================================
