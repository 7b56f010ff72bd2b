------------------------------- MODULE YamlText -------------------------------
(***************************************************************************)
(* The YAML pipeline as the program runs it: the scanner of YamlScanner    *)
(* below the parser and the composer of YamlLoader.  The parser asks for a *)
(* token when a call needs one more (PEEK_TOKEN calls yaml_parser_fetch_   *)
(* more_tokens) and takes it from the queue; a call that has the tokens it *)
(* needs is one step, and fails when the scanner has failed.  What comes   *)
(* of it is what yaml_emitter_dump (YamlDumper) is given.                  *)
(***************************************************************************)
EXTENDS YamlScanner

CONSTANTS
  None,       \* NULL
  Documents   \* texts, with what is to be loaded where that is known: [text, known, nodes, leaves]

VARIABLES
  document,   \* the document the text is of
  taken,      \* the tokens the current call of the parser has taken
  state, states, marks, tag_directives, parser_error, event, loose, twice,
  nodes, aliases, frames, loaded

pipeVars == <<document, taken, state, states, marks, tag_directives, parser_error, event, loose,
              twice, nodes, aliases, frames, loaded>>
textVars == <<scannerVars, pipeVars>>

\* What the parser sees of a token: the anchor, the handle of the tag, whether it knows the version.
ParserToken(t) ==
  [type |-> t.type,
   val  |-> CASE t.type \in {"ANCHOR", "ALIAS"} -> FoldLeft(LAMBDA a, b : a \o b, "", t.value[1])
              [] t.type = "TAG" /\ t.value[1] = <<>> ->
                   IF t.value[2] = <<"!">> THEN "nonspecific" ELSE "verbatim"
              [] t.type \in {"TAG", "TAG-DIRECTIVE"} /\ t.value[1] # <<>> ->
                   FoldLeft(LAMBDA a, b : a \o b, "", t.value[1])
              [] t.type = "VERSION-DIRECTIVE" -> IF t.value = <<<<"1">>, <<"1">>>> THEN "good" ELSE "bad"
              [] OTHER -> None]

L == INSTANCE YamlLoader WITH
       Tokens <- {}, MaxTokens <- 1000, MemoryFails <- FALSE,
       tokens <- taken, scanned <- Len(out), error <- parser_error

D == INSTANCE YamlDumper

TextInit == document \in Documents /\ text = document.text /\ Started /\ L!LoaderInit

Running == loaded \notin L!Ended

\* The parser sees that it needs a token, and has one fetched.
Scan == Running /\ L!Wants /\ (Fetch \/ LookFails) /\ UNCHANGED pipeVars

\* The token is at the head of the queue.
Deliver ==
  /\ Running /\ L!Wants /\ Take
  /\ taken' = Append(taken, ParserToken(Head(queue)))
  /\ UNCHANGED <<document, state, states, marks, tag_directives, parser_error, event, loose,
                 twice, nodes, aliases, frames, loaded>>

\* A call of the parser runs, and the composer takes its event.
Call == (L!Wants => error # "none") /\ UNCHANGED scannerVars /\ UNCHANGED document /\ L!Load

\* The caller stops at the end of the stream, or when a call fails; nothing else may stop it.
Stop == ~Running /\ UNCHANGED textVars

TextNext == Scan \/ Deliver \/ Call \/ Stop

TextSpec == TextInit /\ [][TextNext]_textVars

-----------------------------------------------------------------------------
(* Properties. *)

Leaves == [i \in 1..Len(SelectSeq(out, LAMBDA t : t.type = "SCALAR")) |->
             SelectSeq(out, LAMBDA t : t.type = "SCALAR")[i].value[2]]

\* A document that was written by the rules is loaded as it was written, node for node and character
\* for character, whatever its style, indentation, line breaks and comments are; and no text makes an
\* assert of the composer fail.
LoadedAsWritten ==
  /\ document.known =>
       /\ loaded # "failed"
       /\ loaded = "done" => nodes = document.nodes /\ Leaves = document.leaves
  /\ loaded # "aborted"

\* yaml_emitter_dump turns a document into events a reader finds the same document in, with its shared
\* nodes shared and its cycles closed, and forgets its anchors before the next document; and whichever
\* of its calls is the first to fail, the strings of every node are released once.
DumpedIsLoaded ==
  loaded = "done" =>
    LET calls == 5 * Len(nodes) + 4
        once == <<nodes>>
        again == <<nodes, nodes, <<>>>>
        dumped[documents \in {once, again}, n \in 0..(2 * calls)] ==
          FoldLeft(LAMBDA m, d : D!Dump(d, m), D!Emitter(n), documents)
        both == dumped[again, 2 * calls]
    IN
    /\ both.ok
    /\ D!Read(both.events) = <<nodes, nodes>>
    /\ Head(both.events).type = "STREAM-START" /\ Last(both.events).type = "STREAM-END"
    /\ \A n \in 0..calls : LET released == dumped[once, n].released IN
         IsInjective(released) /\ ToSet(released) = DOMAIN nodes

=============================================================================
