------------------------------ MODULE YamlScanner ------------------------------
(***************************************************************************)
(* yaml/scanner.c: the scanner that cuts the characters of a text into the *)
(* tokens of YamlParser.  A step is one call of yaml_parser_fetch_next_    *)
(* token, which eats white space, closes the blocks the column has left    *)
(* and fetches one token, or the parser taking the first token of the      *)
(* queue (PEEK_TOKEN, SKIP_TOKEN, yaml_parser_scan).                       *)
(*                                                                         *)
(* The hard part are the simple keys.  Whether "a" is a key is only known  *)
(* at the ':' behind it, so the scanner remembers where a key might have   *)
(* begun, one place per flow level, holds the queue back while that place  *)
(* is at its head, and inserts KEY (and BLOCK-MAPPING-START) there later.  *)
(*                                                                         *)
(* A text is a sequence of characters, one string each; letters that no    *)
(* rule tells apart are all in Letters.  A mark is what parser->mark is.   *)
(* After an error nothing is scanned any more, so the mark of the message  *)
(* is left out; running out of memory is with YamlParser.                  *)
(***************************************************************************)
EXTENDS Integers, Sequences, FiniteSets, SequencesExt, FiniteSetsExt, TLC

CONSTANTS
  Texts,       \* the texts to scan
  Letters,     \* the characters a-z, A-Z and _ of the texts
  KeyLength    \* how long a simple key may be: 1024 characters

ASSUME ScannerAssumption ==
  /\ \A t \in Texts : \A i \in 1..Len(t) : t[i] # "NUL"
  /\ KeyLength \in Nat

VARIABLES
  text,                  \* what the reader delivers
  mark,                  \* parser->mark: where the scanner is
  queue,                 \* parser->tokens
  out,                   \* the tokens the parser took; tokens_parsed is their number
  indent, indents,       \* the column of the innermost block, the columns of those around it
  flow_level,            \* how many flow collections are open
  simple_keys,           \* the place of a possible key, for each flow level
  simple_key_allowed,    \* may a simple key begin here?
  stream_start_produced,
  error                  \* parser->error; "abort" when an assert failed

scannerVars == <<text, mark, queue, out, indent, indents, flow_level, simple_keys,
                 simple_key_allowed, stream_start_produced, error>>

Mark(index, line, column) == [index |-> index, line |-> line, column |-> column]

NoKey == [possible |-> FALSE, required |-> FALSE, token_number |-> 0, mark |-> Mark(0, 0, 0)]

\* The scanner before its first call.
Started ==
  /\ mark = Mark(0, 0, 0) /\ queue = <<>> /\ out = <<>>
  /\ indent = 0 /\ indents = <<>> /\ flow_level = 0
  /\ simple_keys = <<>> /\ simple_key_allowed = FALSE
  /\ stream_start_produced = FALSE /\ error = "none"

Init == text \in Texts /\ Started

-----------------------------------------------------------------------------
(* Characters: the IS_ macros of yaml_private.h.  A text ends with NUL.    *)

Digit == {"0", "1", "2", "3", "4", "5", "6", "7", "8", "9"}
Alpha == Digit \cup Letters \cup {"-"}
Blank == {" ", "\t"}
Break == {"\r", "\n", "NEL", "LS"}          \* PS is as LS
BreakZ == Break \cup {"NUL"}
BlankZ == Blank \cup BreakZ
HexDigits == << {"0"}, {"1"}, {"2"}, {"3"}, {"4"}, {"5"}, {"6"}, {"7"}, {"8"}, {"9"},
                {"a", "A"}, {"b", "B"}, {"c", "C"}, {"d", "D"}, {"e", "E"}, {"f", "F"} >>
Hex == UNION Range(HexDigits)
HexValue(c) == CHOOSE v \in 0..15 : c \in HexDigits[v + 1]
UriCharacters ==
  Alpha \cup {";", "/", "?", ":", "@", "&", "=", "+", "$", ",", ".", "!", "~", "*", "'", "(", ")", "[", "]", "%"}

\* CHECK_AT: the k-th character behind m.
At(m, k) == IF m.index + k < Len(text) THEN text[m.index + k + 1] ELSE "NUL"

Here(m, set) == At(m, 0) \in set

\* How many characters in a row, from m on, are in (not in) the set.
Count(m, set) == CHOOSE n \in 0..Len(text) : At(m, n) \notin set /\ \A k \in 0..(n - 1) : At(m, k) \in set
CountTo(m, set) == CHOOSE n \in 0..Len(text) : At(m, n) \in set /\ \A k \in 0..(n - 1) : At(m, k) \notin set

Piece(m, n) == [k \in 1..n |-> At(m, k - 1)]

\* SKIP and READ, n times.
Skip(m, n) == [m EXCEPT !.index = @ + n, !.column = @ + n]

IsCrLf(m) == At(m, 0) = "\r" /\ At(m, 1) = "\n"

\* Mutant: the two characters of a CR LF are two lines.
SkipLine_Two(m) == IF Here(m, Break) THEN Mark(m.index + 1, m.line + 1, 0) ELSE m

\* SKIP_LINE, and READ_LINE but for the characters.
SkipLine(m) ==
  IF Here(m, Break) THEN Mark(m.index + (IF IsCrLf(m) THEN 2 ELSE 1), m.line + 1, 0) ELSE m

\* What READ_LINE copies.
LineBreak(m) == IF ~Here(m, Break) THEN <<>> ELSE IF Here(m, {"LS"}) THEN <<"LS">> ELSE <<"\n">>

SkipBlanks(m) == Skip(m, Count(m, Blank))
SkipComment(m) == IF Here(m, {"#"}) THEN Skip(m, CountTo(m, BreakZ)) ELSE m

\* "---" or "..." at the beginning of a line.
DocumentIndicator(m) ==
  /\ m.column = 0 /\ Here(m, {"-", "."})
  /\ At(m, 1) = At(m, 0) /\ At(m, 2) = At(m, 0) /\ At(m, 3) \in BlankZ

Marks == [index : Nat, line : Nat, column : Nat]

-----------------------------------------------------------------------------
(* The scanner within a call: s is its state as far as the call has come.  *)

Now == [mark |-> mark, queue |-> queue, indent |-> indent, indents |-> indents, flow |-> flow_level,
        keys |-> simple_keys, allowed |-> simple_key_allowed, error |-> "none"]

Token(type, from, to, value) == [type |-> type, from |-> from, to |-> to, value |-> value]

Fail(s) == [s EXCEPT !.error = IF @ = "none" THEN "scanner" ELSE @]
Abort(s) == [s EXCEPT !.error = IF @ = "none" THEN "abort" ELSE @]

Enqueue(s, token) == [s EXCEPT !.queue = Append(@, token)]

Allow(s, allowed) == [s EXCEPT !.allowed = allowed]

\* SKIP n times, and the token for what was skipped.
Consume(s, n, type) ==
  [Enqueue(s, Token(type, s.mark, Skip(s.mark, n), <<>>)) EXCEPT !.mark = Skip(@, n)]

\* What a scan_ function found: a token and the mark behind it.
Scanned(s, found) ==
  IF found.ok THEN [Enqueue(s, found.token) EXCEPT !.mark = found.at] ELSE Fail(s)

\* The call is over; one that fails leaves everything but the error behind.
Become(s) ==
  IF s.error = "none"
  THEN /\ mark' = s.mark /\ queue' = s.queue /\ indent' = s.indent /\ indents' = s.indents
       /\ flow_level' = s.flow /\ simple_keys' = s.keys /\ simple_key_allowed' = s.allowed
       /\ UNCHANGED <<text, out, stream_start_produced, error>>
  ELSE /\ error' = s.error
       /\ UNCHANGED <<text, mark, queue, out, indent, indents, flow_level, simple_keys,
                      simple_key_allowed, stream_start_produced>>

-----------------------------------------------------------------------------
(* Simple keys and indentation. *)

\* Mutant: a key may go over the end of its line.
Stale_Length(s) == {i \in 1..Len(s.keys) : s.keys[i].possible /\ s.keys[i].mark.index + KeyLength < s.mark.index}

Stale(s) ==
  {i \in 1..Len(s.keys) :
     /\ s.keys[i].possible
     /\ s.keys[i].mark.line < s.mark.line \/ s.keys[i].mark.index + KeyLength < s.mark.index}

StaleSimpleKeys(s) ==
  IF \E i \in Stale(s) : s.keys[i].required THEN Fail(s)
  ELSE [s EXCEPT !.keys = [i \in 1..Len(@) |-> IF i \in Stale(s) THEN [@[i] EXCEPT !.possible = FALSE] ELSE @[i]]]

RemoveSimpleKey(s) ==
  IF Last(s.keys).possible /\ Last(s.keys).required THEN Fail(s)
  ELSE [s EXCEPT !.keys[Len(s.keys)].possible = FALSE]

SaveSimpleKey(s) ==
  LET required == s.flow = 0 /\ s.indent = s.mark.column
      key == [possible |-> TRUE, required |-> required,
              token_number |-> Len(out) + Len(s.queue), mark |-> s.mark]
  IN
  IF required /\ ~s.allowed THEN Abort(s)
  ELSE IF s.allowed THEN [RemoveSimpleKey(s) EXCEPT !.keys[Len(s.keys)] = key] ELSE s

\* Mutant: the place for the key of the level stays.
DecreaseFlowLevel_KeepsKey(s) == IF s.flow = 0 THEN s ELSE [s EXCEPT !.flow = @ - 1]

IncreaseFlowLevel(s) == [s EXCEPT !.keys = Append(@, NoKey), !.flow = @ + 1]
DecreaseFlowLevel(s) == IF s.flow = 0 THEN s ELSE [s EXCEPT !.keys = Front(@), !.flow = @ - 1]

\* Mutant: a block begins at the column of the one around it.
RollIndent_Equal(s, column, number, type, at) ==
  IF s.flow > 0 \/ s.indent > column THEN s
  ELSE [s EXCEPT !.indents = Append(@, s.indent), !.indent = column,
                 !.queue = InsertAt(@, number - Len(out) + 1, Token(type, at, at, <<>>))]

\* number is the place in the queue, counted from the first token of the stream.
RollIndent(s, column, number, type, at) ==
  IF s.flow > 0 \/ s.indent >= column THEN s
  ELSE [s EXCEPT !.indents = Append(@, s.indent), !.indent = column,
                 !.queue = InsertAt(@, number - Len(out) + 1, Token(type, at, at, <<>>))]

RollIndentHere(s, type) == RollIndent(s, s.mark.column, Len(out) + Len(s.queue), type, s.mark)

\* Levels are popped down to the innermost that is not right of the column; -1 never is.
UnrollIndent(s, column) ==
  LET levels == Append(s.indents, s.indent)
      kept == Max({i \in 1..Len(levels) : levels[i] <= column})
  IN
  IF s.flow > 0 THEN s
  ELSE [s EXCEPT !.queue = @ \o [i \in 1..(Len(levels) - kept) |-> Token("BLOCK-END", s.mark, s.mark, <<>>)],
                 !.indent = levels[kept],
                 !.indents = SubSeq(@, 1, kept - 1)]

-----------------------------------------------------------------------------
(* yaml_parser_scan_to_next_token: [mark, allowed] at the next token. *)

SkipToToken[m \in Marks, allowed \in BOOLEAN] ==
  LET bom == IF m.column = 0 /\ Here(m, {"BOM"}) THEN Skip(m, 1) ELSE m
      tabs == IF flow_level > 0 \/ ~allowed THEN {"\t"} ELSE {}
      end == SkipComment(Skip(bom, Count(bom, {" "} \cup tabs)))
  IN
  IF Here(end, Break) THEN SkipToToken[SkipLine(end), allowed \/ flow_level = 0]
  ELSE [mark |-> end, allowed |-> allowed]

\* yaml_parser_fetch_next_token as far as its first look at the characters of the token.
AtToken ==
  LET next == SkipToToken[mark, simple_key_allowed]
      s == StaleSimpleKeys([Now EXCEPT !.mark = next.mark, !.allowed = next.allowed])
  IN UnrollIndent(s, s.mark.column)

-----------------------------------------------------------------------------
(* Directives, anchors and tags: the scan_ functions give [ok, at, token], *)
(* or [ok, at, string] when they read a part of one.                       *)

Failed(m) == [ok |-> FALSE, at |-> m, string |-> <<>>, token |-> Token("NO", m, m, <<>>)]
Read(m, n) == [ok |-> TRUE, at |-> Skip(m, n), string |-> Piece(m, n)]
Found(type, from, to, value) == [ok |-> TRUE, at |-> to, token |-> Token(type, from, to, value)]

\* yaml_parser_scan_uri_escapes: the octets of one character, the first of which says how many.
Octet(m) == 16 * HexValue(At(m, 1)) + HexValue(At(m, 2))
IsOctet(m) == Here(m, {"%"}) /\ At(m, 1) \in Hex /\ At(m, 2) \in Hex

Width(octet) ==
  CASE octet \in 0..127 -> 1 [] octet \in 192..223 -> 2 [] octet \in 224..239 -> 3
    [] octet \in 240..247 -> 4 [] OTHER -> 0

\* The code appends the octets without extending the string: it has room for 16,
\* more than the texts ever escape.
ScanUriEscapes(m) ==
  LET width == IF IsOctet(m) THEN Width(Octet(m)) ELSE 0 IN
  IF width > 0 /\ \A i \in 1..(width - 1) : IsOctet(Skip(m, 3 * i)) /\ Octet(Skip(m, 3 * i)) \in 128..191
  THEN [Read(m, 3 * width) EXCEPT !.string = [i \in 1..width |-> ToString(Octet(Skip(m, 3 * (i - 1))))]]
  ELSE Failed(m)

\* yaml_parser_scan_tag_uri, from m on to the first character that is none of a URI's.
UriFrom[m \in Marks, string \in Seq(STRING)] ==
  LET next == IF Here(m, {"%"}) THEN ScanUriEscapes(m) ELSE Read(m, 1) IN
  IF ~Here(m, UriCharacters) THEN [ok |-> TRUE, at |-> m, string |-> string]
  ELSE IF next.ok THEN UriFrom[next.at, string \o next.string]
  ELSE next

\* head is what the scanner took for a handle; it counts although its '!' is not copied.
ScanTagUri(m, head) ==
  IF head = <<>> /\ ~Here(m, UriCharacters) THEN Failed(m)
  ELSE UriFrom[m, IF head = <<>> THEN <<>> ELSE Tail(head)]

\* '!', '!!' or '!name!'; in a tag also '!name', which is no handle after all.
ScanTagHandle(m, directive) ==
  LET n == 1 + Count(Skip(m, 1), Alpha)
      closed == At(m, n) = "!"
  IN
  IF ~Here(m, {"!"}) \/ (directive /\ ~closed /\ n > 1) THEN Failed(m)
  ELSE Read(m, IF closed THEN n + 1 ELSE n)

IsHandle(head) == Len(head) > 1 /\ Last(head) = "!"

\* The tag, once its parts are read.
TagOf(m, verbatim, head, uri) ==
  LET end == IF verbatim THEN Skip(uri.at, 1) ELSE uri.at
      value == CASE verbatim -> <<<<>>, uri.string>>
                 [] ~verbatim /\ IsHandle(head) -> <<head, uri.string>>
                 [] ~verbatim /\ ~IsHandle(head) /\ uri.string = <<>> -> <<<<>>, <<"!">>>>
                 [] OTHER -> <<<<"!">>, uri.string>>
  IN
  IF uri.ok /\ (verbatim => Here(uri.at, {">"})) /\ Here(end, BlankZ)
  THEN Found("TAG", m, end, value) ELSE Failed(m)

ScanTag(m) ==
  LET handle == ScanTagHandle(m, FALSE) IN
  IF At(m, 1) = "<" THEN TagOf(m, TRUE, <<>>, ScanTagUri(Skip(m, 2), <<>>))
  ELSE TagOf(m, FALSE, handle.string,
             ScanTagUri(handle.at, IF IsHandle(handle.string) THEN <<>> ELSE handle.string))

ScanAnchor(m, type) ==
  LET n == Count(Skip(m, 1), Alpha)
      end == Skip(m, n + 1)
  IN
  IF n > 0 /\ Here(end, BlankZ \cup {"?", ":", ",", "]", "}", "%", "@", "GRAVE"})
  THEN Found(type, m, end, <<Piece(Skip(m, 1), n)>>) ELSE Failed(m)

\* A version number of at most nine digits; leading zeros do not count.
ScanVersionNumber(m) ==
  LET n == Count(m, Digit)
      zeros == Count(m, {"0"})
  IN
  IF n \in 1..9 THEN [Read(m, n) EXCEPT !.string = SubSeq(@, 1 + Min({zeros, n - 1}), n)] ELSE Failed(m)

ScanVersion(m, from) ==
  LET major == ScanVersionNumber(SkipBlanks(m))
      minor == ScanVersionNumber(Skip(major.at, 1))
  IN
  IF major.ok /\ Here(major.at, {"."}) /\ minor.ok
  THEN Found("VERSION-DIRECTIVE", from, minor.at, <<major.string, minor.string>>) ELSE Failed(m)

ScanTagDirective(m, from) ==
  LET handle == ScanTagHandle(SkipBlanks(m), TRUE)
      prefix == ScanTagUri(SkipBlanks(handle.at), <<>>)
  IN
  IF handle.ok /\ Here(handle.at, Blank) /\ prefix.ok /\ Here(prefix.at, BlankZ)
  THEN Found("TAG-DIRECTIVE", from, prefix.at, <<handle.string, prefix.string>>) ELSE Failed(m)

\* The rest of the line may hold a comment; its end is eaten.
RestOfLine(m, found) ==
  LET end == SkipComment(SkipBlanks(found.at)) IN
  IF found.ok /\ Here(end, BreakZ) THEN [found EXCEPT !.at = SkipLine(end)] ELSE Failed(m)

ScanDirective(m) ==
  LET n == Count(Skip(m, 1), Alpha)
      name == Piece(Skip(m, 1), n)
      behind == Skip(m, n + 1)
  IN
  RestOfLine(m, CASE ~Here(behind, BlankZ) -> Failed(m)
                  [] Here(behind, BlankZ) /\ name = <<"Y", "A", "M", "L">> -> ScanVersion(behind, m)
                  [] Here(behind, BlankZ) /\ name = <<"T", "A", "G">> -> ScanTagDirective(behind, m)
                  [] OTHER -> Failed(m))

-----------------------------------------------------------------------------
(* Scalars.  What lies between two pieces of one is kept in a record: the  *)
(* blanks, or the first line break and the breaks behind it.               *)

Gaps == [breaks : BOOLEAN, white : Seq(STRING), first : Seq(STRING), more : Seq(STRING)]
NoGap == [breaks |-> FALSE, white |-> <<>>, first |-> <<>>, more |-> <<>>]

\* Mutant: all line breaks are kept.
Fold_Keeps(gap) == IF ~gap.breaks THEN gap.white ELSE gap.first \o gap.more

\* Line breaks fold: one becomes a space, of several all but the first stay; LS and PS never fold.
Fold(gap) ==
  IF ~gap.breaks THEN gap.white
  ELSE IF gap.first = <<"\n">> THEN (IF gap.more = <<>> THEN <<" ">> ELSE gap.more)
  ELSE gap.first \o gap.more

\* The blanks and breaks from m on; no tab may stand left of column once a line has ended.
ReadGap[m \in Marks, gap \in Gaps, column \in Nat] ==
  CASE Here(m, Break) ->
         ReadGap[SkipLine(m),
                 IF gap.breaks THEN [gap EXCEPT !.more = @ \o LineBreak(m)]
                 ELSE [gap EXCEPT !.breaks = TRUE, !.first = LineBreak(m), !.white = <<>>],
                 column]
    [] Here(m, {"\t"}) /\ gap.breaks /\ m.column < column -> [ok |-> FALSE, at |-> m, gap |-> gap]
    [] Here(m, Blank) /\ ~(Here(m, {"\t"}) /\ gap.breaks /\ m.column < column) ->
         ReadGap[Skip(m, 1), IF gap.breaks THEN gap ELSE [gap EXCEPT !.white = Append(@, At(m, 0))], column]
    [] OTHER -> [ok |-> TRUE, at |-> m, gap |-> gap]

Scalar(style, from, to, string) == Token("SCALAR", from, to, <<<<style>>, string>>)

\* A plain scalar may end at such a character; in a flow collection ':' must then stand alone.
PlainEnds(m) ==
  \/ Here(m, BlankZ)
  \/ Here(m, {":"}) /\ At(m, 1) \in BlankZ
  \/ flow_level > 0 /\ Here(m, {",", ":", "?", "[", "]", "{", "}"})

PlainRun(m) == CHOOSE n \in 0..Len(text) : PlainEnds(Skip(m, n)) /\ \A k \in 0..(n - 1) : ~PlainEnds(Skip(m, k))

\* A plain scalar from m on: so far is its text, end where that ends, and gap lies behind that.
PlainFrom[m \in Marks, string \in Seq(STRING), end \in Marks, gap \in Gaps, column \in Nat] ==
  LET stop == Skip(m, PlainRun(m))
      moved == stop # m
      longer == IF moved THEN string \o Fold(gap) \o Piece(m, stop.index - m.index) ELSE string
      next == ReadGap[stop, NoGap, column]
      last == IF moved THEN stop ELSE end
      Plain(ok, at, breaks) == [ok |-> ok, at |-> at, string |-> longer, end |-> last, breaks |-> breaks]
  IN
  IF DocumentIndicator(m) \/ Here(m, {"#"})
  THEN [ok |-> TRUE, at |-> m, string |-> string, end |-> end, breaks |-> gap.breaks]
  ELSE IF flow_level > 0 /\ Here(stop, {":"}) /\ At(stop, 1) \notin BlankZ THEN Plain(FALSE, stop, FALSE)
  ELSE IF ~Here(stop, Blank \cup Break) THEN Plain(TRUE, stop, ~moved /\ gap.breaks)
  ELSE IF ~next.ok \/ (flow_level = 0 /\ next.at.column < column) THEN Plain(next.ok, next.at, next.gap.breaks)
  ELSE PlainFrom[next.at, longer, last, next.gap, column]

ScanPlainScalar(s) ==
  LET found == PlainFrom[s.mark, <<>>, s.mark, NoGap, s.indent + 1] IN
  IF ~found.ok THEN Fail(s)
  ELSE [Enqueue(s, Scalar("plain", s.mark, found.end, found.string)) EXCEPT
          !.mark = found.at, !.allowed = @ \/ found.breaks]

\* What an escape stands for; the hexadecimal ones and the escaped line break are below.
Escapes ==
  [c \in {"0", "a", "b", "t", "\t", "n", "v", "f", "r", "e", " ", "\"", "'", "\\", "N", "_", "L", "P"} |->
     CASE c = "0" -> "NUL" [] c = "a" -> "BEL" [] c = "b" -> "BS" [] c \in {"t", "\t"} -> "\t" [] c = "n" -> "\n"
       [] c = "v" -> "VT" [] c = "f" -> "FF" [] c = "r" -> "\r" [] c = "e" -> "ESC" [] c = "N" -> "NEL"
       [] c = "_" -> "NBSP" [] c \in {"L", "P"} -> "LS" [] OTHER -> c]

CodeLength(c) == CASE c = "x" -> 2 [] c = "u" -> 4 [] c = "U" -> 8 [] OTHER -> 0

\* The value of n digits, cut off where it is too large for a character anyway (16^6 > 10FFFF).
CodeAt(m, n) == FoldLeft(LAMBDA v, c : Min({16 * v + HexValue(c), 16777216}), 0, Piece(m, n))
IsCode(v) == v <= 1114111 /\ v \notin 55296..57343

ScanEscape(m) ==
  LET c == At(m, 1)
      n == CodeLength(c)
      digits == Skip(m, 2)
  IN
  CASE c \in DOMAIN Escapes -> [Read(m, 2) EXCEPT !.string = <<Escapes[c]>>]
    [] n > 0 /\ (\A k \in 1..n : At(digits, k - 1) \in Hex) /\ IsCode(CodeAt(digits, n)) ->
         [Read(m, n + 2) EXCEPT !.string = <<ToString(CodeAt(digits, n))>>]
    [] OTHER -> Failed(m)

\* A quoted scalar up to a blank, the right quote or an escaped line break.
QuotedRun[m \in Marks, quote \in STRING, string \in Seq(STRING)] ==
  LET escape == quote = "\"" /\ Here(m, {"\\"})
      twice == quote = "'" /\ Here(m, {"'"}) /\ At(m, 1) = "'"
      next == IF escape THEN ScanEscape(m)
              ELSE IF twice THEN [Read(m, 2) EXCEPT !.string = <<"'">>]
              ELSE Read(m, 1)
  IN
  IF Here(m, BlankZ) \/ (Here(m, {quote}) /\ ~twice) \/ (escape /\ At(m, 1) \in Break)
  THEN [ok |-> TRUE, at |-> m, string |-> string]
  ELSE IF next.ok THEN QuotedRun[next.at, quote, string \o next.string]
  ELSE next

\* The rest of a quoted scalar; nothing stands for an escaped line break.
QuotedFrom[m \in Marks, quote \in STRING, string \in Seq(STRING)] ==
  LET run == QuotedRun[m, quote, string]
      broken == Here(run.at, {"\\"})
      gap == ReadGap[IF broken THEN SkipLine(Skip(run.at, 1)) ELSE run.at, [NoGap EXCEPT !.breaks = broken], 0]
  IN
  IF DocumentIndicator(m) \/ Here(m, {"NUL"}) \/ ~run.ok THEN Failed(m)
  ELSE IF Here(run.at, {quote}) THEN run
  ELSE QuotedFrom[gap.at, quote, run.string \o Fold(gap.gap)]

\* The scalar whose right quote is found.
QuotedOf(m, quote, found) ==
  LET end == Skip(found.at, 1) IN
  IF found.ok THEN [ok |-> TRUE, at |-> end, token |-> Scalar(quote, m, end, found.string)] ELSE Failed(m)

ScanFlowScalar(m, quote) == QuotedOf(m, quote, QuotedFrom[Skip(m, 1), quote, <<>>])

\* What a block scalar begins with: how the breaks at its end are kept, the indentation asked for.
Chomping(m) == Here(m, {"+", "-"})
Sign(m) == IF Chomping(m) THEN At(m, 0) ELSE " "

BlockHeader(m) ==
  LET signed == Chomping(m)
      first == IF signed THEN Skip(m, 1) ELSE m
      given == Here(first, Digit)
      second == IF given THEN Skip(first, 1) ELSE first
      end == IF ~signed /\ given /\ Chomping(second) THEN Skip(second, 1) ELSE second
      last == SkipComment(SkipBlanks(end))
  IN
  [ok |-> ~Here(first, {"0"}) /\ Here(last, BreakZ),
   at |-> SkipLine(last),
   chomping |-> IF signed THEN Sign(m) ELSE IF given THEN Sign(second) ELSE " ",
   increment |-> IF given THEN HexValue(At(first, 0)) ELSE 0]

\* yaml_parser_scan_block_scalar_breaks: empty lines and the indentation of the line behind them.
\* column 0 means that it is not known yet: the widest of these lines gives it, but at least least.
BlockBreaks[m \in Marks, column \in Nat, least \in Nat, widest \in Nat, breaks \in Seq(STRING), end \in Marks] ==
  LET spaces == Count(m, {" "})
      left == IF column = 0 THEN spaces ELSE IF m.column < column THEN column - m.column ELSE 0
      at == Skip(m, Min({spaces, left}))
      widest1 == Max({widest, at.column})
  IN
  IF Here(at, {"\t"}) /\ (column = 0 \/ at.column < column) THEN [ok |-> FALSE]
  ELSE IF Here(at, Break)
  THEN BlockBreaks[SkipLine(at), column, least, widest1, breaks \o LineBreak(at), SkipLine(at)]
  ELSE [ok |-> TRUE, at |-> at, breaks |-> breaks, end |-> end,
        column |-> IF column = 0 THEN Max({widest1, least, 1}) ELSE column]

\* The lines from m on, behind string, the break first and the empty lines more; blank tells whether
\* the line before began with a blank.  A line break that folds is dropped or becomes a space.
BlockLines[m \in Marks, column \in Nat, literal, blank \in BOOLEAN, string, first, more \in Seq(STRING), end \in Marks] ==
  LET folds == ~literal /\ first = <<"\n">> /\ ~blank /\ ~Here(m, Blank)
      break == IF ~folds THEN first ELSE IF more = <<>> THEN <<" ">> ELSE <<>>
      line == Piece(m, CountTo(m, BreakZ))
      stop == Skip(m, Len(line))
      next == BlockBreaks[SkipLine(stop), column, 0, 0, <<>>, SkipLine(stop)]
  IN
  IF m.column # column \/ Here(m, {"NUL"})
  THEN [ok |-> TRUE, at |-> m, string |-> string, first |-> first, more |-> more, end |-> end]
  ELSE IF next.ok
  THEN BlockLines[next.at, column, literal, Here(m, Blank), string \o break \o more \o line,
                  LineBreak(stop), next.breaks, next.end]
  ELSE [ok |-> FALSE]

\* Chomping: the break of the last line unless it is '-', the empty lines behind it only if it is '+'.
Chomped(chomping, first, more) ==
  (IF chomping = "-" THEN <<>> ELSE first) \o (IF chomping = "+" THEN more ELSE <<>>)

\* The block is indented relative to the innermost open one; '-' drops and '+' keeps the breaks behind it.
BlockBehind(s, literal, head) ==
  LET m == s.mark
      column == IF head.increment = 0 THEN 0 ELSE Max({s.indent, 0}) + head.increment
      start == BlockBreaks[head.at, column, s.indent + 1, 0, <<>>, head.at]
      body == BlockLines[start.at, start.column, literal, FALSE, <<>>, <<>>, start.breaks, start.end]
  IN
  IF head.ok /\ start.ok /\ body.ok
  THEN [ok |-> TRUE, at |-> body.at,
        token |-> Scalar(IF literal THEN "literal" ELSE "folded", m, body.end,
                        body.string \o Chomped(head.chomping, body.first, body.more))]
  ELSE Failed(m)

ScanBlockScalar(s, literal) == BlockBehind(s, literal, BlockHeader(Skip(s.mark, 1)))

-----------------------------------------------------------------------------
(* The fetchers: what becomes of s, which stands at the token. *)

\* Everything before ends at column -1, and no key may follow.
ToMargin(s) == Allow(RemoveSimpleKey(UnrollIndent(s, -1)), FALSE)

FetchStreamEnd(s) ==
  LET end == IF s.mark.column = 0 THEN s.mark ELSE Mark(s.mark.index, s.mark.line + 1, 0)
  IN Consume(ToMargin([s EXCEPT !.mark = end]), 0, "STREAM-END")

FetchDirective(s) == Scanned(ToMargin(s), ScanDirective(s.mark))

FetchDocumentIndicator(s) ==
  Consume(ToMargin(s), 3, IF Here(s.mark, {"-"}) THEN "DOCUMENT-START" ELSE "DOCUMENT-END")

FetchFlowCollectionStart(s) ==
  Consume(Allow(IncreaseFlowLevel(SaveSimpleKey(s)), TRUE), 1,
          IF Here(s.mark, {"["}) THEN "FLOW-SEQUENCE-START" ELSE "FLOW-MAPPING-START")

FetchFlowCollectionEnd(s) ==
  Consume(Allow(DecreaseFlowLevel(RemoveSimpleKey(s)), FALSE), 1,
          IF Here(s.mark, {"]"}) THEN "FLOW-SEQUENCE-END" ELSE "FLOW-MAPPING-END")

\* Mutant: the ',' is not skipped.
FetchFlowEntry_Stays(s) == Consume(Allow(RemoveSimpleKey(s), TRUE), 0, "FLOW-ENTRY")

FetchFlowEntry(s) == Consume(Allow(RemoveSimpleKey(s), TRUE), 1, "FLOW-ENTRY")

\* An indicator that may open a block where it stands, if one may begin there.
Opened(s, type) ==
  IF s.flow = 0 /\ ~s.allowed THEN Fail(s) ELSE RollIndentHere(s, type)

FetchBlockEntry(s) ==
  Consume(Allow(RemoveSimpleKey(Opened(s, "BLOCK-SEQUENCE-START")), TRUE), 1, "BLOCK-ENTRY")

FetchKey(s) ==
  Consume(Allow(RemoveSimpleKey(Opened(s, "BLOCK-MAPPING-START")), s.flow = 0), 1, "KEY")

\* The ':' of a simple key: KEY is put where the key began, and before it the start of the block.
SimpleKeyFound(s) ==
  LET key == Last(s.keys)
      keyed == [s EXCEPT !.queue = InsertAt(@, key.token_number - Len(out) + 1, Token("KEY", key.mark, key.mark, <<>>))]
      rolled == RollIndent(keyed, key.mark.column, key.token_number, "BLOCK-MAPPING-START", key.mark)
  IN Allow([rolled EXCEPT !.keys[Len(s.keys)].possible = FALSE], FALSE)

FetchValue(s) ==
  Consume(IF Last(s.keys).possible THEN SimpleKeyFound(s)
          ELSE Allow(Opened(s, "BLOCK-MAPPING-START"), s.flow = 0), 1, "VALUE")

\* Anchors, aliases, tags, quoted and plain scalars: each may be a key, none may follow it at once.
Keyed(s) == Allow(SaveSimpleKey(s), FALSE)

FetchAnchor(s) == Scanned(Keyed(s), ScanAnchor(s.mark, IF Here(s.mark, {"*"}) THEN "ALIAS" ELSE "ANCHOR"))

FetchTag(s) == Scanned(Keyed(s), ScanTag(s.mark))

FetchFlowScalar(s) == Scanned(Keyed(s), ScanFlowScalar(s.mark, At(s.mark, 0)))

FetchPlainScalar(s) == ScanPlainScalar(Keyed(s))

FetchBlockScalar(s) ==
  Scanned(Allow(RemoveSimpleKey(s), TRUE), ScanBlockScalar(s, Here(s.mark, {"|"})))

FetchStreamStart ==
  /\ indent' = -1
  /\ simple_keys' = Append(simple_keys, NoKey)
  /\ simple_key_allowed' = TRUE /\ stream_start_produced' = TRUE
  /\ queue' = Append(queue, Token("STREAM-START", mark, mark, <<>>))
  /\ UNCHANGED <<text, mark, out, indents, flow_level, error>>

Indicators ==
  {"-", "?", ":", ",", "[", "]", "{", "}", "#", "&", "*", "!", "|", ">", "'", "\"", "%", "@", "GRAVE"}

\* '-', '?' and ':' begin a plain scalar when no blank follows, the last two not in a flow collection.
StartsPlain(s) ==
  \/ ~Here(s.mark, BlankZ \cup Indicators)
  \/ Here(s.mark, {"-"}) /\ At(s.mark, 1) \notin Blank
  \/ s.flow = 0 /\ Here(s.mark, {"?", ":"}) /\ At(s.mark, 1) \notin BlankZ

\* '?' or ':' as an indicator; '-' is one only with a blank behind it.
Stands(s, c) == Here(s.mark, {c}) /\ (s.flow > 0 \/ At(s.mark, 1) \in BlankZ)

\* What is fetched at the token; s is not in error.
FetchToken(s) ==
  LET m == s.mark
      special == Here(m, {"NUL"}) \/ (m.column = 0 /\ Here(m, {"%"})) \/ DocumentIndicator(m)
      entry == Here(m, {"-"}) /\ At(m, 1) \in BlankZ
      known == \/ Here(m, {"[", "{", "]", "}", ",", "*", "&", "!", "'", "\""})
               \/ entry \/ Stands(s, "?") \/ Stands(s, ":")
               \/ s.flow = 0 /\ Here(m, {"|", ">"})
  IN
  \/ /\ special
     /\ \/ Here(m, {"NUL"}) /\ Become(FetchStreamEnd(s))
        \/ Here(m, {"%"}) /\ Become(FetchDirective(s))
        \/ DocumentIndicator(m) /\ Become(FetchDocumentIndicator(s))
  \/ /\ ~special
     /\ \/ Here(m, {"[", "{"}) /\ Become(FetchFlowCollectionStart(s))
        \/ Here(m, {"]", "}"}) /\ Become(FetchFlowCollectionEnd(s))
        \/ Here(m, {","}) /\ Become(FetchFlowEntry(s))
        \/ entry /\ Become(FetchBlockEntry(s))
        \/ Stands(s, "?") /\ Become(FetchKey(s))
        \/ Stands(s, ":") /\ Become(FetchValue(s))
        \/ Here(m, {"*", "&"}) /\ Become(FetchAnchor(s))
        \/ Here(m, {"!"}) /\ Become(FetchTag(s))
        \/ s.flow = 0 /\ Here(m, {"|", ">"}) /\ Become(FetchBlockScalar(s))
        \/ Here(m, {"'", "\""}) /\ Become(FetchFlowScalar(s))
        \/ ~known /\ StartsPlain(s) /\ Become(FetchPlainScalar(s))
        \/ ~known /\ ~StartsPlain(s) /\ Become(Fail(s))

FetchNextToken ==
  \/ ~stream_start_produced /\ FetchStreamStart
  \/ /\ stream_start_produced
     /\ \E s \in {AtToken} :
          \/ s.error # "none" /\ Become(s)
          \/ s.error = "none" /\ FetchToken(s)

-----------------------------------------------------------------------------
(* yaml_parser_fetch_more_tokens, as the parser calls it to see the next token. *)

Ended == out # <<>> /\ Last(out).type = "STREAM-END"

\* The simple keys as the call finds them: those the scanner has gone past are possible no more.
Looked == StaleSimpleKeys(Now)

\* Mutant: the head of the queue is given away although a key may begin there.
NeedsMore_Empty == queue = <<>>

NeedsMore ==
  \/ queue = <<>>
  \/ Looked.error = "none" /\ \E i \in 1..Len(simple_keys) :
       Looked.keys[i].possible /\ Looked.keys[i].token_number = Len(out)

Fetch == error = "none" /\ ~Ended /\ NeedsMore /\ FetchNextToken

\* The call finds a key that is required and gone.
LookFails == error = "none" /\ ~Ended /\ queue # <<>> /\ Looked.error # "none" /\ Become(Looked)

\* The parser takes the first token.
Take ==
  /\ error = "none" /\ ~Ended /\ ~NeedsMore /\ Looked.error = "none"
  /\ out' = Append(out, Head(queue)) /\ queue' = Tail(queue)
  /\ simple_keys' = Looked.keys
  /\ UNCHANGED <<text, mark, indent, indents, flow_level, simple_key_allowed, stream_start_produced, error>>

Next == Fetch \/ LookFails \/ Take

Spec == Init /\ [][Next]_scannerVars

-----------------------------------------------------------------------------
(* Properties. *)

\* All tokens fetched so far.
Produced == out \o queue

TypeOK ==
  /\ mark \in Marks /\ mark.index <= Len(text)
  /\ indent \in -1..Len(text) /\ \A i \in 1..Len(indents) : indents[i] \in -1..Len(text)
  /\ flow_level = Max({0, Len(simple_keys) - 1})
  /\ \A i \in 1..Len(simple_keys) : simple_keys[i].token_number \in Nat /\ simple_keys[i].mark \in Marks
  /\ \A i \in 1..Len(Produced) : Produced[i].from \in Marks /\ Produced[i].to \in Marks
  /\ error \in {"none", "scanner", "abort"}

\* The assert of yaml_parser_save_simple_key ("Impossible.") never fails.
AssertHolds == error # "abort"

\* QUEUE_INSERT counts from the head of the queue: a possible key has its token still in the queue, and
\* the token that begins where the key does is the one its number says, whatever was inserted meanwhile.
KeysAtTheirTokens ==
  \A i \in 1..Len(simple_keys) : simple_keys[i].possible =>
    LET n == simple_keys[i].token_number - Len(out) + 1 IN
    n \in 1..Len(queue) /\ queue[n].from = simple_keys[i].mark

\* The blocks the tokens leave open are the levels of the indentation stack, each where its first
\* token stands, each right of the one around it; a BLOCK-END has a block to end.
Blocks ==
  FoldLeft(LAMBDA open, t :
             IF t.type \in {"BLOCK-SEQUENCE-START", "BLOCK-MAPPING-START"} THEN Append(open, t.from.column)
             ELSE IF t.type # "BLOCK-END" THEN open
             ELSE IF open = <<>> THEN <<-2>> ELSE Front(open),
           <<>>, Produced)

BlocksAreIndents ==
  stream_start_produced =>
    /\ <<-1>> \o Blocks = Append(indents, indent)
    /\ \A i \in 1..Len(indents) : indents[i] < Append(indents, indent)[i + 1]

\* The mark of each token counts what lies before it: its line is the number of breaks, its column the
\* distance to the last of them (a CR LF is one break), and the tokens lie one behind the other.
Lines(n) == {i \in 1..n : text[i] \in Break /\ ~(text[i] = "\r" /\ i < Len(text) /\ text[i + 1] = "\n")}
TrueMark(m) == m.line = Cardinality(Lines(m.index)) /\ m.column = m.index - Max({0} \cup Lines(m.index))

MarksTrue ==
  \A i \in 1..Len(Produced) :
    LET t == Produced[i] IN
    /\ t.type \notin {"STREAM-END", "BLOCK-END"} => TrueMark(t.from) /\ TrueMark(t.to)
    /\ t.from.index <= t.to.index
    /\ i > 1 => Produced[i - 1].to.index <= t.from.index

\* The depth of a token: how many collections and pairs around it are open.
Depth(i) ==
  Cardinality({j \in 1..i : Produced[j].type \in {"BLOCK-SEQUENCE-START", "BLOCK-MAPPING-START",
                                                  "FLOW-SEQUENCE-START", "FLOW-MAPPING-START"}})
  - Cardinality({j \in 1..(i - 1) : Produced[j].type \in {"BLOCK-END", "FLOW-SEQUENCE-END", "FLOW-MAPPING-END"}})

\* A KEY without a '?' is put before a node that ends on the line it begins, within KeyLength, at a ':':
\* the VALUE that belongs to it is the next token of its depth that is none of the node's.
SimpleKeys == {i \in 1..Len(Produced) : Produced[i].type = "KEY" /\ Produced[i].from = Produced[i].to}

SimpleKeysShort ==
  \A i \in SimpleKeys :
    \E j \in (i + 1)..Len(Produced) :
      /\ Produced[j].type = "VALUE" /\ Depth(j) = Depth(i)
      /\ \A k \in (i + 1)..(j - 1) : Depth(k) = Depth(i) => Produced[k].type \notin {"KEY", "VALUE"}
      /\ Produced[j].from.line = Produced[i].from.line
      /\ Produced[j].from.index <= Produced[i].from.index + KeyLength

\* What the queue relies on when a KEY is put into it.
TokensSound == TypeOK /\ MarksTrue /\ KeysAtTheirTokens /\ SimpleKeysShort

\* No fetch goes on without eating a character, but for the stream's first and last token, and each of
\* these comes once: a text is scanned in as many steps as it has characters.
Fetched == Produced' # Produced
Ends(type) == Cardinality({i \in 1..Len(Produced) : Produced[i].type = type})

ScannerAdvances ==
  [][Fetched => \/ mark'.index > mark.index
                \/ Ends("STREAM-START") = 0 /\ Ends("STREAM-START")' = 1
                \/ Ends("STREAM-END") = 0 /\ Ends("STREAM-END")' = 1]_scannerVars
=============================================================================
