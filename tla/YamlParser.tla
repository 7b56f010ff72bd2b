------------------------------ MODULE YamlParser ------------------------------
(***************************************************************************)
(* yaml/parser.c: the parser that turns the tokens of the scanner into the *)
(* events ConfYamlParse and the composer read.  It keeps the state to go   *)
(* on with, the stack of the states to come back to (states) and the stack *)
(* of the marks where the open collections begin (marks).                  *)
(*                                                                         *)
(* One call of yaml_parser_parse is one step.  In a call the parser peeks  *)
(* at tokens one after the other; tokens holds those the scanner has       *)
(* delivered and no finished call has taken.  A call that needs one more   *)
(* waits for Scan.  The scanner is any that begins with STREAM-START, ends *)
(* with STREAM-END and may fail: YamlText puts the real one in its place.  *)
(*                                                                         *)
(* A token is [type, val]: val is the name of an anchor or alias, the      *)
(* style of a scalar, the handle of a tag, "good" or "bad" for %YAML.      *)
(* A mark is the number of the token it belongs to.  A string of the heap  *)
(* is <<number of its token, field>>; <<0, i>> is one the parser made.     *)
(***************************************************************************)
EXTENDS Naturals, Sequences, FiniteSets, SequencesExt

CONSTANTS
  Tokens,       \* the tokens Scan may deliver between STREAM-START and STREAM-END
  MaxTokens,    \* bound: tokens of a stream
  MemoryFails,  \* may yaml_malloc fail?
  None          \* NULL

ASSUME TokensAssumption ==
  /\ \A t \in Tokens : t.type \notin {"STREAM-START", "STREAM-END"}
  /\ MaxTokens \in Nat /\ MemoryFails \in BOOLEAN

VARIABLES
  tokens,          \* the tokens delivered and not yet taken
  scanned,         \* how many tokens were delivered
  state,           \* parser->state
  states,          \* parser->states
  marks,           \* parser->marks
  tag_directives,  \* the handles in parser->tag_directives
  error,           \* parser->error
  event,           \* the event of the last call
  loose,           \* strings that no token, no event and no stack holds
  twice            \* was a string freed twice, or freed and given away?

parserVars == <<tokens, scanned, state, states, marks, tag_directives, error, event, loose, twice>>

Token(type, val) == [type |-> type, val |-> val]

NoEvent == [type |-> "NO", anchor |-> None, strs |-> {}]

Init ==
  /\ tokens = <<>> /\ scanned = 0
  /\ state = "STREAM_START" /\ states = <<>> /\ marks = <<>>
  /\ tag_directives = {} /\ error = "none" /\ event = NoEvent
  /\ loose = {} /\ twice = FALSE

-----------------------------------------------------------------------------
(* Tokens. *)

\* The k-th token of this call is known and of (not of) one of the types.
Is(k, types) == k <= Len(tokens) /\ tokens[k].type \in types
Not(k, types) == k <= Len(tokens) /\ tokens[k].type \notin types

\* The number, and so the start mark, of the k-th token.
Number(k) == scanned - Len(tokens) + k

\* The heap strings of the k-th token.
StringsOf(k) ==
  CASE tokens[k].type \in {"ANCHOR", "ALIAS", "SCALAR"} -> {<<Number(k), 1>>}
    [] tokens[k].type \in {"TAG", "TAG-DIRECTIVE"}      -> {<<Number(k), 1>>, <<Number(k), 2>>}
    [] OTHER                                            -> {}

Strings(n) == UNION {StringsOf(k) : k \in 1..n}

\* How many tokens from the k-th on are of these types.
Run(k, types) ==
  CHOOSE n \in 0..Len(tokens) :
    /\ \A i \in k..(k + n - 1) : Is(i, types)
    /\ ~Is(k + n, types)

PropertyTypes == {"ANCHOR", "TAG"}
Directives == {"VERSION-DIRECTIVE", "TAG-DIRECTIVE"}

FirstStates == {"BLOCK_SEQUENCE_FIRST_ENTRY", "BLOCK_MAPPING_FIRST_KEY",
                "FLOW_SEQUENCE_FIRST_ENTRY", "FLOW_MAPPING_FIRST_KEY"}

\* The tokens a call skips to peek at the next one, besides the first token of a collection.
Leading ==
  CASE state = "IMPLICIT_DOCUMENT_START" -> Directives
    [] state = "DOCUMENT_START" -> Directives \cup {"DOCUMENT-END"}
    [] state \in {"BLOCK_SEQUENCE_FIRST_ENTRY", "BLOCK_SEQUENCE_ENTRY", "INDENTLESS_SEQUENCE_ENTRY"} ->
         PropertyTypes \cup {"BLOCK-ENTRY"}
    [] state \in {"BLOCK_MAPPING_FIRST_KEY", "BLOCK_MAPPING_KEY", "FLOW_MAPPING_FIRST_KEY"} ->
         PropertyTypes \cup {"KEY"}
    [] state = "FLOW_MAPPING_KEY" -> PropertyTypes \cup {"FLOW-ENTRY", "KEY"}
    [] state = "FLOW_SEQUENCE_ENTRY" -> PropertyTypes \cup {"FLOW-ENTRY"}
    [] state \in {"BLOCK_MAPPING_VALUE", "FLOW_MAPPING_VALUE", "FLOW_SEQUENCE_ENTRY_MAPPING_VALUE"} ->
         PropertyTypes \cup {"VALUE"}
    [] state \in {"STREAM_START", "DOCUMENT_END", "FLOW_MAPPING_EMPTY_VALUE",
                  "FLOW_SEQUENCE_ENTRY_MAPPING_END"} -> {}
    [] OTHER -> PropertyTypes

Running == error = "none" /\ state # "END"

\* PEEK_TOKEN finds no token.
Wants ==
  /\ Running
  /\ tokens # <<>> =>
       \/ Len(tokens) = 1 /\ state \in FirstStates
       \/ Last(tokens).type \in Leading

Scan ==
  /\ Wants
  /\ scanned < MaxTokens
  /\ \E t \in IF scanned = 0 THEN {Token("STREAM-START", None)}
              ELSE Tokens \cup {Token("STREAM-END", None)} :
       tokens' = Append(tokens, t)
  /\ scanned' = scanned + 1
  /\ UNCHANGED <<state, states, marks, tag_directives, error, event, loose, twice>>

\* yaml_event_delete, which the caller calls for every event: how many strings it frees.
EventDeletes(type) ==
  CASE type = "DOCUMENT-START"                     -> {2 * i : i \in 0..MaxTokens}  \* handle and prefix
    [] type = "ALIAS"                              -> {1}
    [] type = "SCALAR"                             -> 1..3                          \* value, anchor, tag
    [] type \in {"SEQUENCE-START", "MAPPING-START"} -> 0..2
    [] OTHER                                       -> {0}

-----------------------------------------------------------------------------
(* The two ways a call ends.  n tokens were skipped, made are the strings  *)
(* the call allocated, freed those it freed.                               *)

Ledger(n, made, freed, given) ==
  /\ loose' = ((Strings(n) \cup made) \ freed) \ given
  /\ twice' = (twice \/ freed \cap given # {} \/ ~(freed \cup given \subseteq Strings(n) \cup made))
  /\ tokens' = SubSeq(tokens, n + 1, Len(tokens))
  /\ UNCHANGED scanned

\* The call fills in the event and returns 1.
Emit(type, anchor, n, made, freed, given) ==
  /\ event' = [type |-> type, anchor |-> anchor, strs |-> given]
  /\ Ledger(n, made, freed, given)
  /\ UNCHANGED error

\* The call sets parser->error and returns 0: no call does anything after that.
Fail(kind, n, made, freed) ==
  /\ error' = kind /\ event' = NoEvent
  /\ Ledger(n, made, freed, {})
  /\ UNCHANGED <<state, states, marks, tag_directives>>

\* The stacks and the state after a call: c is how they stand when it ends.
Goto(next, c) ==
  state' = next /\ states' = c.states /\ marks' = c.marks /\ UNCHANGED tag_directives

\* state = POP(states)
GoBack(c) == Goto(Last(c.states), [c EXCEPT !.states = Front(@)])

\* A call as it stands: n tokens skipped, the stacks.
Here(n) == [n |-> n, states |-> states, marks |-> marks]

Push(c, s) == [c EXCEPT !.states = Append(@, s)]

\* The call for the first entry pushes the mark of the opening token and skips it.
Entered(first) ==
  IF first THEN [n |-> 1, states |-> states, marks |-> Append(marks, Number(1))] ELSE Here(0)

\* Mutant: the mark stays on the stack.
Close_KeepsMark(type, c) == Emit(type, None, c.n + 1, {}, {}, {}) /\ GoBack(c)

\* The end of a collection pops the state and the mark and takes the token.
Close(type, c) ==
  /\ Emit(type, None, c.n + 1, {}, {}, {})
  /\ GoBack([c EXCEPT !.marks = Front(@)])

EmptyScalar(c, n, next) ==
  \/ Emit("SCALAR", None, n, {<<0, 1>>}, {}, {<<0, 1>>}) /\ Goto(next, c)
  \/ MemoryFails /\ Fail("memory", n, {}, {})

-----------------------------------------------------------------------------
(* yaml_parser_parse_node, called where c stands. *)

\* An anchor and a tag in either order, at most one of each.
Properties(n) ==
  IF ~Is(n + 1, PropertyTypes) THEN 0
  ELSE IF Is(n + 2, PropertyTypes) /\ tokens[n + 2].type # tokens[n + 1].type THEN 2 ELSE 1

\* The place of the property of this type, 0 when the node has none.
Place(n, type) ==
  IF \E k \in (n + 1)..(n + Properties(n)) : tokens[k].type = type
  THEN CHOOSE k \in (n + 1)..(n + Properties(n)) : tokens[k].type = type
  ELSE 0

AnchorOf(n) == IF Place(n, "ANCHOR") = 0 THEN None ELSE tokens[Place(n, "ANCHOR")].val

\* "verbatim" and "nonspecific" tags have an empty handle.
TagKnown(n) ==
  Place(n, "TAG") # 0 =>
    tokens[Place(n, "TAG")].val \in {"verbatim", "nonspecific"} \cup tag_directives

TagJoined(n) == Place(n, "TAG") # 0 /\ tokens[Place(n, "TAG")].val \in tag_directives

\* The locals anchor and tag once the handle is resolved: tag is the suffix, or a new string.
AnchorString(n) == IF Place(n, "ANCHOR") = 0 THEN {} ELSE {<<Number(Place(n, "ANCHOR")), 1>>}
TagString(n) ==
  IF Place(n, "TAG") = 0 THEN {}
  ELSE IF TagJoined(n) THEN {<<0, 2>>} ELSE {<<Number(Place(n, "TAG")), 2>>}

Resolved(n) == AnchorString(n) \cup TagString(n)
ResolvedMade(n) == IF TagJoined(n) THEN {<<0, 2>>} ELSE {}
\* Mutant: the suffix goes with the handle, though the event has it.
ResolvedFreed_Suffix(n) == IF Place(n, "TAG") = 0 THEN {} ELSE StringsOf(Place(n, "TAG"))

ResolvedFreed(n) ==
  IF Place(n, "TAG") = 0 THEN {}
  ELSE IF TagJoined(n) THEN StringsOf(Place(n, "TAG")) ELSE {<<Number(Place(n, "TAG")), 1>>}

NodeEvent(type, n, taken, value) ==
  Emit(type, AnchorOf(n), taken, ResolvedMade(n) \cup (value \cap {<<0, 1>>}), ResolvedFreed(n),
       Resolved(n) \cup value)

\* error: frees the anchor, the handle, the suffix and the tag, those that are not NULL.
NodeError(kind, c, resolved) ==
  LET props == {StringsOf(k) : k \in (c.n + 1)..(c.n + Properties(c.n))} IN
  Fail(kind, c.n + Properties(c.n), IF resolved THEN ResolvedMade(c.n) ELSE {}, 
       IF resolved THEN ResolvedFreed(c.n) \cup Resolved(c.n) ELSE UNION props)

Alias(c) ==
  /\ Is(c.n + 1, {"ALIAS"})
  /\ Emit("ALIAS", tokens[c.n + 1].val, c.n + 1, {}, {}, StringsOf(c.n + 1))
  /\ GoBack(c)

\* The first token behind the properties.
Content(c) == c.n + Properties(c.n) + 1

ScalarNode(c) ==
  /\ Is(Content(c), {"SCALAR"})
  /\ NodeEvent("SCALAR", c.n, Content(c), StringsOf(Content(c)))
  /\ GoBack(c)

\* A collection begins; its opening token stays for the call for the first entry.
FirstState ==
  [FLOW_SEQUENCE |-> "FLOW_SEQUENCE_FIRST_ENTRY", FLOW_MAPPING |-> "FLOW_MAPPING_FIRST_KEY",
   BLOCK_SEQUENCE |-> "BLOCK_SEQUENCE_FIRST_ENTRY", BLOCK_MAPPING |-> "BLOCK_MAPPING_FIRST_KEY",
   INDENTLESS |-> "INDENTLESS_SEQUENCE_ENTRY"]

\* Mutant: the opening token is taken with the properties.
Collection_SkipsToken(c, token, type, kind) ==
  /\ Is(Content(c), {token})
  /\ NodeEvent(type, c.n, Content(c), {})
  /\ Goto(FirstState[kind], c)

Collection(c, token, type, kind) ==
  /\ Is(Content(c), {token})
  /\ NodeEvent(type, c.n, Content(c) - 1, {})
  /\ Goto(FirstState[kind], c)

\* Properties with nothing behind them are an empty scalar.
Opening(block, indentless) ==
  {"SCALAR", "FLOW-SEQUENCE-START", "FLOW-MAPPING-START"}
    \cup (IF block THEN {"BLOCK-SEQUENCE-START", "BLOCK-MAPPING-START"} ELSE {})
    \cup (IF indentless THEN {"BLOCK-ENTRY"} ELSE {})

BareProperties(c, block, indentless) ==
  /\ Properties(c.n) > 0
  /\ Not(Content(c), Opening(block, indentless))
  /\ \/ NodeEvent("SCALAR", c.n, Content(c) - 1, {<<0, 1>>}) /\ GoBack(c)
     \/ MemoryFails /\ NodeError("memory", c, TRUE)

Node(c, block, indentless) ==
  \/ Alias(c)
  \/ /\ Not(Content(c), IF Properties(c.n) = 0 THEN {"ALIAS"} ELSE {})
     /\ \/ ~TagKnown(c.n) /\ NodeError("parser", c, FALSE)
        \/ MemoryFails /\ TagJoined(c.n) /\ NodeError("memory", c, FALSE)
        \/ /\ TagKnown(c.n)
           /\ \/ ScalarNode(c)
              \/ Collection(c, "FLOW-SEQUENCE-START", "SEQUENCE-START", "FLOW_SEQUENCE")
              \/ Collection(c, "FLOW-MAPPING-START", "MAPPING-START", "FLOW_MAPPING")
              \/ block /\ Collection(c, "BLOCK-SEQUENCE-START", "SEQUENCE-START", "BLOCK_SEQUENCE")
              \/ block /\ Collection(c, "BLOCK-MAPPING-START", "MAPPING-START", "BLOCK_MAPPING")
              \/ indentless /\ Collection(c, "BLOCK-ENTRY", "SEQUENCE-START", "INDENTLESS")
              \/ BareProperties(c, block, indentless)
              \/ /\ Properties(c.n) = 0
                 /\ Not(c.n + 1, Opening(block, indentless))
                 /\ NodeError("parser", c, TRUE)

-----------------------------------------------------------------------------
(* yaml_parser_parse_stream_start, _document_start, _document_content and *)
(* _document_end. *)

ParseStreamStart ==
  /\ state = "STREAM_START"
  /\ \/ /\ Is(1, {"STREAM-START"})
        /\ Emit("STREAM-START", None, 1, {}, {}, {})
        /\ Goto("IMPLICIT_DOCUMENT_START", Here(1))
     \/ Not(1, {"STREAM-START"}) /\ Fail("parser", 0, {}, {})

DefaultHandles == {"!", "!!"}
InDocumentStart == state \in {"IMPLICIT_DOCUMENT_START", "DOCUMENT_START"}
Implicit == state = "IMPLICIT_DOCUMENT_START"

\* Extra document end indicators.
Ends == IF Implicit THEN 0 ELSE Run(1, {"DOCUMENT-END"})

\* Mutant: the state to come back to is that of the next document.
ImplicitDocument_NoEnd ==
  /\ Implicit
  /\ Not(1, Directives \cup {"DOCUMENT-START", "STREAM-END"})
  /\ Emit("DOCUMENT-START", None, 0, {}, {}, {})
  /\ state' = "BLOCK_NODE" /\ states' = Append(states, "DOCUMENT_START") /\ UNCHANGED marks
  /\ tag_directives' = tag_directives \cup DefaultHandles

ImplicitDocument ==
  /\ Implicit
  /\ Not(1, Directives \cup {"DOCUMENT-START", "STREAM-END"})
  /\ \/ /\ Emit("DOCUMENT-START", None, 0, {}, {}, {})
        /\ state' = "BLOCK_NODE" /\ states' = Append(states, "DOCUMENT_END") /\ UNCHANGED marks
        /\ tag_directives' = tag_directives \cup DefaultHandles
     \/ MemoryFails /\ Fail("memory", 0, {}, {})

Declared(n, k, type) == {i \in (n + 1)..(k - 1) : tokens[i].type = type}

\* The stack once yaml_parser_append_tag_directive has copied the directives between n and k to it.
Appended(n, k) == tag_directives \cup {tokens[i].val : i \in Declared(n, k, "TAG-DIRECTIVE")}

\* process_directives refuses the k-th token, a directive behind the tokens up to n.
BadDirective(n, k) ==
  \/ /\ tokens[k].type = "VERSION-DIRECTIVE"
     /\ tokens[k].val = "bad" \/ Declared(n, k, "VERSION-DIRECTIVE") # {}
  \/ tokens[k].type = "TAG-DIRECTIVE" /\ tokens[k].val \in Appended(n, k)

ExplicitDocument ==
  LET d == Run(Ends + 1, Directives)
      bad == {k \in (Ends + 1)..(Ends + d) : BadDirective(Ends, k)}
      last == Ends + d + 1
  IN
  \/ /\ bad # {}
     /\ LET k == CHOOSE k \in bad : \A j \in bad : k <= j IN Fail("parser", k - 1, {}, Strings(k - 1))
  \/ /\ bad = {}
     /\ Is(last, {"DOCUMENT-START"})
     /\ Emit("DOCUMENT-START", None, last, {}, {}, Strings(last))
     /\ state' = "DOCUMENT_CONTENT" /\ states' = Append(states, "DOCUMENT_END") /\ UNCHANGED marks
     /\ tag_directives' = Appended(Ends, last) \cup DefaultHandles
  \/ /\ bad = {}
     /\ Not(last, {"DOCUMENT-START"} \cup (IF d = 0 THEN {"STREAM-END"} ELSE {}))
     /\ ~(Implicit /\ d = 0)
     /\ Fail("parser", last - 1, {}, Strings(last - 1))
  \/ /\ MemoryFails /\ bad = {} /\ last <= Len(tokens)
     /\ ~Is(Ends + 1, {"STREAM-END"})
     /\ Fail("memory", last - 1, {}, Strings(last - 1))

StreamEnd ==
  /\ Is(Ends + 1, {"STREAM-END"})
  /\ Emit("STREAM-END", None, Ends + 1, {}, {}, {})
  /\ Goto("END", Here(Ends + 1))

ParseDocumentStart ==
  InDocumentStart /\ (ImplicitDocument \/ ExplicitDocument \/ StreamEnd)

ParseDocumentContent ==
  /\ state = "DOCUMENT_CONTENT"
  /\ \/ /\ Is(1, Directives \cup {"DOCUMENT-START", "DOCUMENT-END", "STREAM-END"})
        /\ EmptyScalar([Here(0) EXCEPT !.states = Front(@)], 0, Last(states))
     \/ /\ Not(1, Directives \cup {"DOCUMENT-START", "DOCUMENT-END", "STREAM-END"})
        /\ Node(Here(0), TRUE, FALSE)

\* The stack of tag directives is emptied.
ParseDocumentEnd ==
  /\ state = "DOCUMENT_END"
  /\ tokens # <<>>
  /\ Emit("DOCUMENT-END", None, IF Is(1, {"DOCUMENT-END"}) THEN 1 ELSE 0, {}, {}, {})
  /\ state' = "DOCUMENT_START" /\ tag_directives' = {} /\ UNCHANGED <<states, marks>>

ParseRootNode == state = "BLOCK_NODE" /\ Node(Here(0), TRUE, FALSE)

-----------------------------------------------------------------------------
(* Block collections. *)

\* Behind an indicator: a node that ends in back, or nothing before one of stops.
NodeOrEmpty(c, stops, back, block, indentless) ==
  \/ Not(c.n + 1, stops) /\ Node(Push(c, back), block, indentless)
  \/ Is(c.n + 1, stops) /\ EmptyScalar(c, c.n, back)

After(c) == [c EXCEPT !.n = @ + 1]

\* "did not find expected ...", with the mark of the collection popped for the message.
Refuse(c) == Fail("parser", c.n, {}, {})

ParseBlockSequenceEntry ==
  /\ state \in {"BLOCK_SEQUENCE_FIRST_ENTRY", "BLOCK_SEQUENCE_ENTRY"}
  /\ LET c == Entered(state = "BLOCK_SEQUENCE_FIRST_ENTRY") IN
     \/ /\ Is(c.n + 1, {"BLOCK-ENTRY"})
        /\ NodeOrEmpty(After(c), {"BLOCK-ENTRY", "BLOCK-END"}, "BLOCK_SEQUENCE_ENTRY", TRUE, FALSE)
     \/ Is(c.n + 1, {"BLOCK-END"}) /\ Close("SEQUENCE-END", c)
     \/ Not(c.n + 1, {"BLOCK-ENTRY", "BLOCK-END"}) /\ Refuse(c)

\* The end of a sequence without indentation takes no token and pops no mark.
ParseIndentlessSequenceEntry ==
  /\ state = "INDENTLESS_SEQUENCE_ENTRY"
  /\ \/ /\ Is(1, {"BLOCK-ENTRY"})
        /\ NodeOrEmpty(Here(1), {"BLOCK-ENTRY", "KEY", "VALUE", "BLOCK-END"}, 
                       "INDENTLESS_SEQUENCE_ENTRY", TRUE, FALSE)
     \/ /\ Not(1, {"BLOCK-ENTRY"})
        /\ Emit("SEQUENCE-END", None, 0, {}, {}, {})
        /\ GoBack(Here(0))

PairStops == {"KEY", "VALUE", "BLOCK-END"}

ParseBlockMappingKey ==
  /\ state \in {"BLOCK_MAPPING_FIRST_KEY", "BLOCK_MAPPING_KEY"}
  /\ LET c == Entered(state = "BLOCK_MAPPING_FIRST_KEY") IN
     \/ Is(c.n + 1, {"KEY"}) /\ NodeOrEmpty(After(c), PairStops, "BLOCK_MAPPING_VALUE", TRUE, TRUE)
     \/ Is(c.n + 1, {"BLOCK-END"}) /\ Close("MAPPING-END", c)
     \/ Not(c.n + 1, {"KEY", "BLOCK-END"}) /\ Refuse(c)

ParseBlockMappingValue ==
  /\ state = "BLOCK_MAPPING_VALUE"
  /\ \/ Is(1, {"VALUE"}) /\ NodeOrEmpty(Here(1), PairStops, "BLOCK_MAPPING_KEY", TRUE, TRUE)
     \/ Not(1, {"VALUE"}) /\ EmptyScalar(Here(0), 0, "BLOCK_MAPPING_KEY")

-----------------------------------------------------------------------------
(* Flow collections. *)

\* Where the next entry is looked for: behind the ',' unless it is the first.
EntryAt(c, first) == IF ~first /\ Is(c.n + 1, {"FLOW-ENTRY"}) THEN After(c) ELSE c

ParseFlowSequenceEntry ==
  /\ state \in {"FLOW_SEQUENCE_FIRST_ENTRY", "FLOW_SEQUENCE_ENTRY"}
  /\ LET first == state = "FLOW_SEQUENCE_FIRST_ENTRY"
         c == Entered(first)
         e == EntryAt(c, first)
     IN
     \/ ~first /\ Not(c.n + 1, {"FLOW-ENTRY", "FLOW-SEQUENCE-END"}) /\ Refuse(c)
     \/ /\ first \/ e # c
        /\ \/ /\ Is(e.n + 1, {"KEY"})     \* a pair in the sequence is a mapping of its own
              /\ Emit("MAPPING-START", None, e.n + 1, {}, {}, {})
              /\ Goto("FLOW_SEQUENCE_ENTRY_MAPPING_KEY", e)
           \/ /\ Not(e.n + 1, {"KEY", "FLOW-SEQUENCE-END"})
              /\ Node(Push(e, "FLOW_SEQUENCE_ENTRY"), FALSE, FALSE)
     \/ Is(e.n + 1, {"FLOW-SEQUENCE-END"}) /\ Close("SEQUENCE-END", e)

\* No node behind KEY: the token that is there instead is skipped, whatever it is.
ParseFlowSequenceEntryMappingKey ==
  /\ state = "FLOW_SEQUENCE_ENTRY_MAPPING_KEY"
  /\ \/ /\ Not(1, {"VALUE", "FLOW-ENTRY", "FLOW-SEQUENCE-END"})
        /\ Node(Push(Here(0), "FLOW_SEQUENCE_ENTRY_MAPPING_VALUE"), FALSE, FALSE)
     \/ /\ Is(1, {"VALUE", "FLOW-ENTRY", "FLOW-SEQUENCE-END"})
        /\ EmptyScalar(Here(0), 1, "FLOW_SEQUENCE_ENTRY_MAPPING_VALUE")

\* Mutant: the pair is left without its end.
ParseFlowSequenceEntryMappingValue_NoEnd ==
  /\ state = "FLOW_SEQUENCE_ENTRY_MAPPING_VALUE"
  /\ \/ /\ Is(1, {"VALUE"})
        /\ NodeOrEmpty(Here(1), {"FLOW-ENTRY", "FLOW-SEQUENCE-END"}, "FLOW_SEQUENCE_ENTRY", FALSE, FALSE)
     \/ Not(1, {"VALUE"}) /\ EmptyScalar(Here(0), 0, "FLOW_SEQUENCE_ENTRY")

ParseFlowSequenceEntryMappingValue ==
  /\ state = "FLOW_SEQUENCE_ENTRY_MAPPING_VALUE"
  /\ \/ /\ Is(1, {"VALUE"})
        /\ NodeOrEmpty(Here(1), {"FLOW-ENTRY", "FLOW-SEQUENCE-END"},
                       "FLOW_SEQUENCE_ENTRY_MAPPING_END", FALSE, FALSE)
     \/ Not(1, {"VALUE"}) /\ EmptyScalar(Here(0), 0, "FLOW_SEQUENCE_ENTRY_MAPPING_END")

\* Mutant: the pair is ended as the sequence around it is.
ParseFlowSequenceEntryMappingEnd_Sequence ==
  /\ state = "FLOW_SEQUENCE_ENTRY_MAPPING_END"
  /\ tokens # <<>>
  /\ Emit("SEQUENCE-END", None, 0, {}, {}, {})
  /\ Goto("FLOW_SEQUENCE_ENTRY", Here(0))

ParseFlowSequenceEntryMappingEnd ==
  /\ state = "FLOW_SEQUENCE_ENTRY_MAPPING_END"
  /\ tokens # <<>>
  /\ Emit("MAPPING-END", None, 0, {}, {}, {})
  /\ Goto("FLOW_SEQUENCE_ENTRY", Here(0))

ParseFlowMappingKey ==
  /\ state \in {"FLOW_MAPPING_FIRST_KEY", "FLOW_MAPPING_KEY"}
  /\ LET first == state = "FLOW_MAPPING_FIRST_KEY"
         c == Entered(first)
         e == EntryAt(c, first)
     IN
     \/ ~first /\ Not(c.n + 1, {"FLOW-ENTRY", "FLOW-MAPPING-END"}) /\ Refuse(c)
     \/ /\ first \/ e # c
        /\ \/ /\ Is(e.n + 1, {"KEY"})
              /\ NodeOrEmpty(After(e), {"VALUE", "FLOW-ENTRY", "FLOW-MAPPING-END"},
                             "FLOW_MAPPING_VALUE", FALSE, FALSE)
           \/ /\ Not(e.n + 1, {"KEY", "FLOW-MAPPING-END"})   \* a key without KEY has no value
              /\ Node(Push(e, "FLOW_MAPPING_EMPTY_VALUE"), FALSE, FALSE)
     \/ Is(e.n + 1, {"FLOW-MAPPING-END"}) /\ Close("MAPPING-END", e)

ParseFlowMappingValue ==
  \/ /\ state = "FLOW_MAPPING_EMPTY_VALUE" /\ tokens # <<>>
     /\ EmptyScalar(Here(0), 0, "FLOW_MAPPING_KEY")
  \/ /\ state = "FLOW_MAPPING_VALUE"
     /\ \/ /\ Is(1, {"VALUE"})
           /\ NodeOrEmpty(Here(1), {"FLOW-ENTRY", "FLOW-MAPPING-END"}, "FLOW_MAPPING_KEY", FALSE, FALSE)
        \/ Not(1, {"VALUE"}) /\ EmptyScalar(Here(0), 0, "FLOW_MAPPING_KEY")

-----------------------------------------------------------------------------
\* PEEK_TOKEN fails because the scanner does: what the call holds is freed.
ScannerFails ==
  /\ Wants
  /\ Fail("scanner", Len(tokens), {}, Strings(Len(tokens)))

\* yaml_parser_parse: nothing more after an error or the end of the stream.
Parse ==
  /\ Running
  /\ \/ ParseStreamStart \/ ParseDocumentStart \/ ParseDocumentContent \/ ParseDocumentEnd
     \/ ParseRootNode
     \/ ParseBlockSequenceEntry \/ ParseIndentlessSequenceEntry
     \/ ParseBlockMappingKey \/ ParseBlockMappingValue
     \/ ParseFlowSequenceEntry \/ ParseFlowSequenceEntryMappingKey
     \/ ParseFlowSequenceEntryMappingValue \/ ParseFlowSequenceEntryMappingEnd
     \/ ParseFlowMappingKey \/ ParseFlowMappingValue
     \/ ScannerFails

Next == Scan \/ Parse

Spec == Init /\ [][Next]_parserVars

-----------------------------------------------------------------------------
(* Properties. *)

\* The states inside a collection that has a mark.
Marked ==
  {"BLOCK_SEQUENCE_ENTRY", "BLOCK_MAPPING_KEY", "BLOCK_MAPPING_VALUE", "FLOW_SEQUENCE_ENTRY",
   "FLOW_SEQUENCE_ENTRY_MAPPING_KEY", "FLOW_SEQUENCE_ENTRY_MAPPING_VALUE",
   "FLOW_SEQUENCE_ENTRY_MAPPING_END", "FLOW_MAPPING_KEY", "FLOW_MAPPING_VALUE",
   "FLOW_MAPPING_EMPTY_VALUE"}

\* The states a node may end in; they are what the stack holds.
ReturnStates == {"DOCUMENT_END", "INDENTLESS_SEQUENCE_ENTRY"} \cup (Marked \ {"FLOW_SEQUENCE_ENTRY_MAPPING_KEY"})

OutsideDocument == {"STREAM_START", "IMPLICIT_DOCUMENT_START", "DOCUMENT_START", "END"}

InDocument == {"BLOCK_NODE", "DOCUMENT_CONTENT"} \cup FirstStates \cup Marked \cup ReturnStates

TypeOK ==
  /\ \A i \in 1..Len(tokens) : tokens[i] \in Tokens \cup {Token("STREAM-START", None), Token("STREAM-END", None)}
  /\ scanned \in 0..MaxTokens /\ Len(tokens) <= scanned
  /\ state \in OutsideDocument \cup InDocument
  /\ \A i \in 1..Len(states) : states[i] \in ReturnStates
  /\ \A i \in 1..Len(marks) : marks[i] \in 1..scanned
  /\ error \in {"none", "scanner", "parser", "memory"}
  /\ twice \in BOOLEAN

\* POP takes whatever lies below an empty stack, so no call may meet one.  A call inside a document
\* finds a state to go back to, the bottom one for the end of the document, and one mark for each
\* open collection but those without indentation, the outer ones first; outside, nothing is left.
StacksMatch ==
  /\ state \in OutsideDocument \cup {"DOCUMENT_END"} => states = <<>>
  /\ state \in InDocument \ {"DOCUMENT_END"} =>
       /\ states # <<>>
       /\ \A i \in 1..Len(states) : states[i] = "DOCUMENT_END" <=> i = 1
  /\ Len(marks) = Cardinality({i \in 1..Len(states) : states[i] \in Marked})
                    + (IF state \in Marked THEN 1 ELSE 0)
  /\ \A i \in 2..Len(marks) : marks[i - 1] < marks[i]

\* The calls for a first entry use the token without a look whether there is one: it is there, and
\* it is the one that opened the collection.
FirstTokenThere ==
  Running /\ state \in FirstStates =>
    tokens # <<>> /\ FirstState[
      CASE tokens[1].type = "BLOCK-SEQUENCE-START" -> "BLOCK_SEQUENCE"
        [] tokens[1].type = "BLOCK-MAPPING-START"  -> "BLOCK_MAPPING"
        [] tokens[1].type = "FLOW-SEQUENCE-START"  -> "FLOW_SEQUENCE"
        [] tokens[1].type = "FLOW-MAPPING-START"   -> "FLOW_MAPPING"
        [] OTHER                                   -> "INDENTLESS"] = state

\* What every call finds when it begins.
StacksSound == TypeOK /\ StacksMatch /\ FirstTokenThere

\* Whatever call fails, and however, each string is freed once or belongs to one token or event, and
\* an event has no more strings than yaml_event_delete frees with an event of its type.
StringsHeldOnce ==
  /\ loose = {} /\ ~twice
  /\ Cardinality(event.strs) \in EventDeletes(event.type)

\* What the reader of the events has open when the parser is in this state.
Frames ==
  [s \in OutsideDocument \cup InDocument |->
     CASE s \in {"BLOCK_SEQUENCE_FIRST_ENTRY", "BLOCK_SEQUENCE_ENTRY", "INDENTLESS_SEQUENCE_ENTRY",
                 "FLOW_SEQUENCE_FIRST_ENTRY", "FLOW_SEQUENCE_ENTRY"} -> <<"item">>
       [] s \in {"BLOCK_MAPPING_FIRST_KEY", "BLOCK_MAPPING_KEY",
                 "FLOW_MAPPING_FIRST_KEY", "FLOW_MAPPING_KEY"} -> <<"key">>
       [] s \in {"BLOCK_MAPPING_VALUE", "FLOW_MAPPING_VALUE", "FLOW_MAPPING_EMPTY_VALUE"} -> <<"value">>
       [] s \in {"FLOW_SEQUENCE_ENTRY_MAPPING_KEY", "FLOW_SEQUENCE_ENTRY_MAPPING_END"} -> <<"item", "key">>
       [] s = "FLOW_SEQUENCE_ENTRY_MAPPING_VALUE" -> <<"item", "value">>
       [] s = "DOCUMENT_END" -> <<"done">>
       [] OTHER -> <<>>]

Stream ==
  INSTANCE EventStream WITH
    event <- event.type,
    phase <- CASE state = "STREAM_START" -> "before"
               [] state \in {"IMPLICIT_DOCUMENT_START", "DOCUMENT_START"} -> "between"
               [] state = "END" -> "after"
               [] OTHER -> "document",
    open <- IF state \in {"BLOCK_NODE", "DOCUMENT_CONTENT"} THEN <<"root">>
            ELSE FlattenSeq([i \in 1..Len(states) |-> Frames[states[i]]]) \o Frames[state]

\* The events the calls return are those of a stream, whatever the tokens are and whatever fails: a
\* call returns the event that announces the move of the parser's state and stack of states, no move
\* is made behind the back of the reader of the events, and what is not a call moves nothing.
EventsAreAStream == Stream!Spec /\ [][Scan \/ Stream!Next]_parserVars
=============================================================================
