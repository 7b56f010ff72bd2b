----------------------------- MODULE EventStream -----------------------------
(***************************************************************************)
(* What yaml_parser_parse promises its callers: ConfYamlParse of           *)
(* utils/conf-yaml-loader.c, the composer of yaml/loader.c and the asserts *)
(* of both ("STREAM-START is expected", "Could not happen").  The events   *)
(* of a stream are bracketed: a stream holds documents, a document holds   *)
(* one root node, a mapping holds as many keys as values.                  *)
(*                                                                         *)
(* event is the type of the event the last call returned, "NO" before the  *)
(* first call and after one that failed: a call that returns an event      *)
(* makes the move this event announces, and one that fails makes none.     *)
(*                                                                         *)
(* open is what the reader of the events has open, innermost last.  An     *)
(* entry says which event may come next at that level: the root node of    *)
(* the document, nothing but its end, an item of a sequence, the key or    *)
(* the value of a mapping.                                                 *)
(***************************************************************************)
EXTENDS Sequences, SequencesExt

VARIABLES phase, open, event

streamVars == <<phase, open, event>>

Expected == {"root", "done", "item", "key", "value"}

Types ==
  {"NO", "STREAM-START", "STREAM-END", "DOCUMENT-START", "DOCUMENT-END", "ALIAS", "SCALAR",
   "SEQUENCE-START", "SEQUENCE-END", "MAPPING-START", "MAPPING-END"}

TypeOK ==
  /\ phase \in {"before", "between", "document", "after"}
  /\ open \in Seq(Expected)
  /\ event \in Types

Init == phase = "before" /\ open = <<>> /\ event = "NO"

\* The moves.

StreamStart ==
  phase = "before" /\ phase' = "between" /\ UNCHANGED open

DocumentStart ==
  phase = "between" /\ phase' = "document" /\ open' = <<"root">>

\* What the level expects once the node it waited for has been read.
Past == [root |-> "done", item |-> "item", key |-> "value", value |-> "key"]

Filled == [open EXCEPT ![Len(open)] = Past[@]]

NodeExpected == phase = "document" /\ open # <<>> /\ Last(open) # "done"

\* A scalar or an alias.
Leaf == NodeExpected /\ open' = Filled /\ UNCHANGED phase

\* A collection: its level opens with first.
CollectionStart(first) ==
  NodeExpected /\ open' = Append(Filled, first) /\ UNCHANGED phase

SequenceStart == CollectionStart("item")
MappingStart == CollectionStart("key")

CollectionEnd(level) ==
  /\ phase = "document" /\ Len(open) > 1 /\ Last(open) = level
  /\ open' = Front(open)
  /\ UNCHANGED phase

SequenceEnd == CollectionEnd("item")
MappingEnd == CollectionEnd("key")

DocumentEnd ==
  phase = "document" /\ open = <<"done">> /\ phase' = "between" /\ open' = <<>>

StreamEnd ==
  phase = "between" /\ phase' = "after" /\ UNCHANGED open

\* Which event announces which move.
Move(type) ==
  CASE type = "STREAM-START"        -> StreamStart
    [] type = "STREAM-END"          -> StreamEnd
    [] type = "DOCUMENT-START"      -> DocumentStart
    [] type = "DOCUMENT-END"        -> DocumentEnd
    [] type \in {"SCALAR", "ALIAS"} -> Leaf
    [] type = "SEQUENCE-START"      -> SequenceStart
    [] type = "MAPPING-START"       -> MappingStart
    [] type = "SEQUENCE-END"        -> SequenceEnd
    [] type = "MAPPING-END"         -> MappingEnd
    [] type = "NO"                  -> UNCHANGED <<phase, open>>

Next == \E type \in Types : event' = type /\ Move(type)

Spec == Init /\ [][Next]_streamVars
=============================================================================
