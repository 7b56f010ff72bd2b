------------------------------ MODULE YamlDumper ------------------------------
(***************************************************************************)
(* yaml/dumper.c: yaml_emitter_dump turns a document of the composer back  *)
(* into events.  A first pass counts how often a node is referred to and   *)
(* gives those that are referred to twice an anchor; a second one writes   *)
(* every node where it is met first and an alias where it is met again,    *)
(* so that shared nodes stay shared and a node within itself comes to an   *)
(* end.  Any call of yaml_malloc or yaml_emitter_emit may fail.            *)
(*                                                                         *)
(* A document is nodes of YamlLoader, and the functions work on emitters.  *)
(* What yaml_emitter_emit makes of an event (emitter.c) is left out.       *)
(***************************************************************************)
EXTENDS Naturals, Sequences, SequencesExt

Emitters ==
  [ opened : BOOLEAN, closed : BOOLEAN, last_anchor_id : Nat,
    anchors : Seq([references : Nat, anchor : Nat, serialized : BOOLEAN]),  \* <<>> is NULL
    events : Seq([type : STRING, anchor : Nat]),   \* those that were emitted; anchor 0 is none
    ok : BOOLEAN,                                  \* has no call failed?
    calls : Nat,                                   \* how many calls will still succeed
    released : Seq(Nat) ]                          \* the nodes whose strings were freed or given to an event

Emitter(calls) ==
  [ opened |-> FALSE, closed |-> FALSE, last_anchor_id |-> 0, anchors |-> <<>>, events |-> <<>>,
    ok |-> TRUE, calls |-> calls, released |-> <<>> ]

\* yaml_malloc
Allocate(m) ==
  IF m.ok /\ m.calls > 0 THEN [m EXCEPT !.calls = @ - 1] ELSE [m EXCEPT !.ok = FALSE]

\* yaml_emitter_emit: the event, with the strings of its node, is the emitter's from now on.
Emit(m, type, anchor, strings) ==
  LET a == Allocate(m) IN
  IF ~m.ok THEN m
  ELSE [a EXCEPT !.events = IF a.ok THEN Append(@, [type |-> type, anchor |-> anchor]) ELSE @,
                 !.released = @ \o strings]

Open(m) ==
  LET e == Emit(m, "STREAM-START", 0, <<>>) IN
  IF m.opened THEN m ELSE [e EXCEPT !.opened = e.ok]

Close(m) ==
  LET e == Emit(m, "STREAM-END", 0, <<>>) IN
  IF m.closed THEN m ELSE [e EXCEPT !.closed = e.ok]

\* Mutant: a node that is referred to twice only gets no anchor.
AnchorNode_Third(nodes, root, emitter) ==
  LET anchor_node[i \in 1..Len(nodes), m \in Emitters] ==
        LET counted == [m EXCEPT !.anchors[i].references = @ + 1]
            references == counted.anchors[i].references
        IN
        CASE references = 1 -> FoldLeft(LAMBDA n, c : anchor_node[c, n], counted, nodes[i].children)
          [] references = 3 -> [counted EXCEPT !.anchors[i].anchor = m.last_anchor_id + 1, !.last_anchor_id = @ + 1]
          [] OTHER -> counted
  IN anchor_node[root, emitter]

\* The first pass: the second reference to a node gives it an anchor, and only the first goes on below it.
AnchorNode(nodes, root, emitter) ==
  LET anchor_node[i \in 1..Len(nodes), m \in Emitters] ==
        LET counted == [m EXCEPT !.anchors[i].references = @ + 1]
            references == counted.anchors[i].references
        IN
        CASE references = 1 -> FoldLeft(LAMBDA n, c : anchor_node[c, n], counted, nodes[i].children)
          [] references = 2 -> [counted EXCEPT !.anchors[i].anchor = m.last_anchor_id + 1, !.last_anchor_id = @ + 1]
          [] OTHER -> counted
  IN anchor_node[root, emitter]

Serialized(m, i) == [m EXCEPT !.anchors[i].serialized = TRUE]

\* Mutant: the node counts as written before its anchor is made.
Marked_Early(m, i) == IF m.anchors[i].anchor = 0 THEN Serialized(m, i) ELSE Allocate(Serialized(m, i))

\* The text of the anchor is made, then the node counts as written.
Marked(m, i) ==
  LET made == IF m.anchors[i].anchor = 0 THEN m ELSE Allocate(m) IN
  IF made.ok THEN Serialized(made, i) ELSE made

\* The second pass.
DumpNode(nodes, root, emitter) ==
  LET dump_node[i \in 1..Len(nodes), m \in Emitters] ==
        LET marked == Marked(m, i)
            anchor == m.anchors[i].anchor
            written(type) == Emit(marked, type, anchor, <<i>>)
            collection(first, last) ==
              Emit(FoldLeft(LAMBDA n, c : dump_node[c, n], written(first), nodes[i].children), last, 0, <<>>)
        IN
        CASE ~m.ok -> m
          [] m.ok /\ ~marked.ok -> marked
          [] m.ok /\ marked.ok /\ m.anchors[i].serialized -> Emit(marked, "ALIAS", anchor, <<>>)
          [] OTHER -> CASE nodes[i].kind = "scalar" -> written("SCALAR")
                        [] nodes[i].kind = "sequence" -> collection("SEQUENCE-START", "SEQUENCE-END")
                        [] nodes[i].kind = "mapping" -> collection("MAPPING-START", "MAPPING-END")
  IN dump_node[root, emitter]

\* Mutant: the strings of every node are freed.
DeleteDocumentAndAnchors_All(nodes, m) ==
  [m EXCEPT !.released = @ \o [i \in 1..Len(nodes) |-> i], !.anchors = <<>>, !.last_anchor_id = 0]

\* yaml_document_delete when there are no anchors yet; else the strings of the nodes that were not written are freed.
DeleteDocumentAndAnchors(nodes, m) ==
  LET all == [i \in 1..Len(nodes) |-> i]
      left == SelectSeq(all, LAMBDA i : ~m.anchors[i].serialized)
  IN
  IF m.anchors = <<>> THEN [m EXCEPT !.released = @ \o all]
  ELSE [m EXCEPT !.released = @ \o left, !.anchors = <<>>, !.last_anchor_id = 0]

\* A document with nodes, with the emitter open.
DumpDocument(nodes, m) ==
  LET allocated == Allocate(m)
      anchored == [allocated EXCEPT !.anchors =
                     [i \in 1..Len(nodes) |-> [references |-> 0, anchor |-> 0, serialized |-> FALSE]]]
      started == Emit(anchored, "DOCUMENT-START", 0, <<>>)
  IN
  IF ~allocated.ok THEN allocated
  ELSE IF ~started.ok THEN started
  ELSE Emit(DumpNode(nodes, 1, AnchorNode(nodes, 1, started)), "DOCUMENT-END", 0, <<>>)

\* yaml_emitter_dump: the document without nodes closes the stream.
Dump(nodes, m) ==
  LET open == Open(m)
      dumped == IF ~open.ok THEN open
                ELSE IF nodes = <<>> THEN Close(open)
                ELSE DumpDocument(nodes, open)
  IN DeleteDocumentAndAnchors(nodes, dumped)

-----------------------------------------------------------------------------
(* What it owes. *)

\* The documents a reader of the events finds: a node gets the next index where it begins, an alias
\* stands for the latest node with its anchor, and the names are forgotten with the document.
Read(events) ==
  LET attached(r, i) ==
        IF r.open = <<>> THEN r ELSE [r EXCEPT !.nodes[Last(r.open)].children = Append(@, i)]
      begun(r, e, kind) ==
        LET i == Len(r.nodes) + 1
            a == attached(r, i)
        IN  [a EXCEPT !.nodes = Append(@, [kind |-> kind, children |-> <<>>]),
                      !.names = Append(@, e.anchor),
                      !.open = IF kind = "scalar" THEN @ ELSE Append(@, i)]
      named(r, anchor) == SelectLastInSeq(r.names, LAMBDA a : a = anchor /\ a # 0)
      read(r, e) ==
        CASE e.type = "SCALAR"         -> begun(r, e, "scalar")
          [] e.type = "SEQUENCE-START" -> begun(r, e, "sequence")
          [] e.type = "MAPPING-START"  -> begun(r, e, "mapping")
          [] e.type = "ALIAS"          -> attached(r, named(r, e.anchor))
          [] e.type \in {"SEQUENCE-END", "MAPPING-END"} -> [r EXCEPT !.open = Front(@)]
          [] e.type = "DOCUMENT-END" ->
               [r EXCEPT !.done = Append(@, r.nodes), !.nodes = <<>>, !.names = <<>>]
          [] OTHER -> r
  IN FoldLeft(read, [done |-> <<>>, nodes |-> <<>>, names |-> <<>>, open |-> <<>>], events).done
=============================================================================
