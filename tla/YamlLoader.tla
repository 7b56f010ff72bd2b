------------------------------ MODULE YamlLoader ------------------------------
(***************************************************************************)
(* yaml/loader.c: yaml_parser_load composes a document of the events of    *)
(* YamlParser.  The C functions call each other for nested nodes, and each *)
(* of them calls yaml_parser_parse; here frames is that stack of calls and *)
(* a step is one call of yaml_parser_parse with what is done with its      *)
(* event.  A node is known by its index in nodes; index 0 is a failure.    *)
(***************************************************************************)
EXTENDS YamlParser

VARIABLES
  nodes,     \* document->nodes: [kind, children]; a mapping has key, value, key, value ...
  aliases,   \* parser->aliases: [anchor, index]
  frames,    \* the open calls of load_sequence, load_mapping: [index, key]
  loaded     \* how far the calls of yaml_parser_load are

loaderVars == <<nodes, aliases, frames, loaded>>
vars == <<parserVars, loaderVars>>

LoaderInit ==
  /\ Init
  /\ nodes = <<>> /\ aliases = <<>> /\ frames = <<>>
  /\ loaded = "nothing"

Call(kind) == IF kind = "SEQUENCE-START" THEN "sequence" ELSE "mapping"

Node_(kind) == [kind |-> kind, children |-> <<>>]

\* The innermost call gets the index of a node its event began: an item, a key, or the value of a pair.
Attach(ns, fs, index) ==
  IF fs = <<>> THEN nodes' = ns /\ frames' = fs
  ELSE LET f == Last(fs) IN
       IF ns[f.index].kind = "sequence"
       THEN nodes' = [ns EXCEPT ![f.index].children = Append(@, index)] /\ frames' = fs
       ELSE IF f.key = 0
       THEN nodes' = ns /\ frames' = [fs EXCEPT ![Len(fs)].key = index]
       ELSE /\ nodes' = [ns EXCEPT ![f.index].children = @ \o <<f.key, index>>]
            /\ frames' = [fs EXCEPT ![Len(fs)].key = 0]

Registered(anchor) == {i \in 1..Len(aliases) : aliases[i].anchor = anchor}

\* Mutant: the index is that of the next node.
RegisterAnchor_Next(anchor, index) ==
  /\ Registered(anchor) = {}
  /\ aliases' = IF anchor = None THEN aliases ELSE Append(aliases, [anchor |-> anchor, index |-> index + 1])

\* yaml_parser_register_anchor
RegisterAnchor(anchor, index) ==
  /\ Registered(anchor) = {}
  /\ aliases' = IF anchor = None THEN aliases ELSE Append(aliases, [anchor |-> anchor, index |-> index])

\* yaml_parser_delete_aliases, yaml_document_delete
DeleteAliases == aliases' = <<>>
DeleteDocument == nodes' = <<>>

\* error: in yaml_parser_load.
LoadStops(how) == DeleteAliases /\ DeleteDocument /\ frames' = <<>> /\ loaded' = how
LoadFails == LoadStops("failed")

NodeTypes == {"ALIAS", "SCALAR", "SEQUENCE-START", "MAPPING-START"}

\* The events the code is ready for at this point; it has asserts for the others.
Awaits ==
  CASE loaded = "nothing" -> {"STREAM-START"}
    [] loaded \in {"started", "done"} -> {"DOCUMENT-START", "STREAM-END"}
    [] loaded = "document" /\ frames = <<>> -> IF nodes = <<>> THEN NodeTypes ELSE {"DOCUMENT-END"}
    [] OTHER -> NodeTypes \cup
                  (IF nodes[Last(frames).index].kind = "sequence" THEN {"SEQUENCE-END"}
                   ELSE IF Last(frames).key = 0 THEN {"MAPPING-END"} ELSE {})

LoadAlias(e) ==
  /\ e.type = "ALIAS"
  /\ \/ /\ Registered(e.anchor) # {}
        /\ Attach(nodes, frames, aliases[CHOOSE i \in Registered(e.anchor) : TRUE].index)
        /\ UNCHANGED aliases /\ UNCHANGED loaded
     \/ Registered(e.anchor) = {} /\ LoadFails

LoadScalar(e) ==
  /\ e.type = "SCALAR"
  /\ \/ /\ RegisterAnchor(e.anchor, Len(nodes) + 1)
        /\ Attach(Append(nodes, Node_("scalar")), frames, Len(nodes) + 1)
        /\ UNCHANGED loaded
     \/ (Registered(e.anchor) # {} \/ MemoryFails) /\ LoadFails

\* load_sequence and load_mapping as far as their loop.
LoadCollection(e) ==
  /\ e.type \in {"SEQUENCE-START", "MAPPING-START"}
  /\ \/ /\ RegisterAnchor(e.anchor, Len(nodes) + 1)
        /\ nodes' = Append(nodes, Node_(Call(e.type)))
        /\ frames' = Append(frames, [index |-> Len(nodes) + 1, key |-> 0])
        /\ UNCHANGED loaded
     \/ (Registered(e.anchor) # {} \/ MemoryFails) /\ LoadFails

\* Mutant: the call returns the number of its node counted from one.
LoadEnd_FromOne(e) ==
  /\ e.type \in {"SEQUENCE-END", "MAPPING-END"}
  /\ Attach(nodes, Front(frames), Last(frames).index + 1)
  /\ UNCHANGED aliases /\ UNCHANGED loaded

\* The loop of the innermost call ends, and the call returns its index.
LoadEnd(e) ==
  /\ e.type \in {"SEQUENCE-END", "MAPPING-END"}
  /\ Attach(nodes, Front(frames), Last(frames).index)
  /\ UNCHANGED aliases /\ UNCHANGED loaded

\* Mutant: an empty document at the end of the stream does not tell the caller to stop.
LoadStreamEnd_GoesOn(e) ==
  e.type = "STREAM-END" /\ loaded' = "done" /\ nodes' = <<>> /\ UNCHANGED <<aliases, frames>>

\* The end of the stream is an empty document.
LoadStreamEnd(e) ==
  e.type = "STREAM-END" /\ loaded' = "ended" /\ DeleteDocument /\ UNCHANGED <<aliases, frames>>

\* yaml_parser_load with its document's first event; the stream start comes before the first one.
\* Its caller has deleted the document before, and the arrays of both begin empty.
LoadDocument(e) ==
  \/ /\ e.type = "STREAM-START"
     /\ loaded' = "started"
     /\ UNCHANGED <<nodes, aliases, frames>>
  \/ LoadStreamEnd(e)
  \/ /\ e.type = "DOCUMENT-START"
     /\ \/ /\ loaded' = "document" /\ DeleteDocument /\ DeleteAliases
           /\ UNCHANGED frames
        \/ MemoryFails /\ LoadFails
  \/ /\ e.type = "DOCUMENT-END"
     /\ loaded' = "done" /\ DeleteAliases
     /\ UNCHANGED <<nodes, frames>>

Ended == {"failed", "aborted", "ended"}

\* The caller calls yaml_parser_load until a call fails or there is no document left.
Load ==
  /\ loaded \notin Ended
  /\ Parse
  /\ LET e == event' IN
     \/ /\ e.type \in Awaits
        /\ LoadDocument(e) \/ LoadAlias(e) \/ LoadScalar(e) \/ LoadCollection(e) \/ LoadEnd(e)
     \/ /\ e.type \notin Awaits
        /\ LoadStops(IF e.type = "NO" THEN "failed" ELSE "aborted")

LoaderScan == Scan /\ UNCHANGED loaderVars

LoaderNext == LoaderScan \/ Load

\* One thread runs it all, and goes on as long as there is something to do.
LoaderSpec == LoaderInit /\ [][LoaderNext]_vars /\ WF_vars(LoaderNext)

-----------------------------------------------------------------------------
(* Properties. *)

LoaderTypeOK ==
  /\ \A i \in 1..Len(nodes) : nodes[i].kind \in {"scalar", "sequence", "mapping"}
  /\ \A i \in 1..Len(frames) : frames[i].index \in 1..Len(nodes) /\ frames[i].key \in 0..Len(nodes)
  /\ loaded \in {"nothing", "started", "document", "done"} \cup Ended

\* No assert of the composer ("STREAM-START is expected", "Could not happen", ...) ever fails.
AssertsHold == loaded # "aborted"

\* A document is one tree below its root, and what else points to a node does so through an anchor of
\* this document: the index of a child is that of a node, a node behind the root is a child of exactly
\* one node before it unless it is anchored, and a mapping has as many values as keys.
Parents(j) == {i \in 1..(j - 1) : \E k \in 1..Len(nodes[i].children) : nodes[i].children[k] = j}

DocumentLinked ==
  /\ \A i \in 1..Len(nodes) :
       /\ \A k \in 1..Len(nodes[i].children) : nodes[i].children[k] \in 1..Len(nodes)
       /\ nodes[i].kind = "mapping" => Len(nodes[i].children) % 2 = 0
  /\ loaded = "done" =>
       nodes # <<>> /\ \A j \in 2..Len(nodes) : Parents(j) # {}
  /\ \A i \in 1..Len(aliases) : aliases[i].index \in 1..Len(nodes)
  /\ \A j \in 2..Len(nodes) :
       Cardinality(Parents(j)) > 1 /\ loaded = "document" => \E i \in 1..Len(aliases) : aliases[i].index = j

\* The document as far as it is composed.
DocumentSound == LoaderTypeOK /\ AssertsHold /\ DocumentLinked

\* Loading comes to an end: all documents, or a failure.
LoadingEnds == <>(loaded \in Ended)
=============================================================================
