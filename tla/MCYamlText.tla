------------------------------ MODULE MCYamlText ------------------------------
EXTENDS YamlText

Chars(s) == [i \in 1..Len(s) |-> SubSeq(s, i, i)]

MCLetters == {"a", "b", "c", "e", "k", "A", "G", "L", "M", "T", "Y", "_"}

-----------------------------------------------------------------------------
\* Short texts: every word of up to n letters of an alphabet, behind a prefix.
Words(alphabet, n) == UNION {[1..k -> alphabet] : k \in 0..n}
Behind(prefixes, alphabet, n) == {Chars(p) \o w : p \in prefixes, w \in Words(alphabet, n)}

ShortTexts ==
  Behind({""}, {"a", ":", "-", "?", " ", "\n"}, 4)
  \cup Behind({"a: b\n", "- a\n", "- - 'a'\n", "a:\n  b\n"}, {"a", ":", "-", " ", "\n"}, 3)
  \cup Behind({"", "[", "{a: "}, {"[", "]", "{", "}", ",", ":", "a"}, 3)
  \cup Behind({"a: [", "- {", "[a, "}, {"]", "}", "'", "?", ":", "\n", " "}, 3)
  \cup Behind({"a: |", "- >", "a:\n b: >1"}, {"-", "+", "0", "\n", " ", "a", "#"}, 3)
  \cup Behind({"- |\n", "a: >\n a\n"}, {"\n", " ", "\t", "a", "LS"}, 3)
  \cup Behind({"'", "\"", "- 'a\n"}, {"'", "\"", "\\", "\n", " ", "a"}, 3)
  \cup Behind({"%", "%YAML 1", "%TAG !"}, {"!", " ", ".", "1", "a", "\n"}, 3)
  \cup Behind({"!", "!<", "!a", "- &", "- *"}, {"!", ">", "a", "%", "<", " "}, 2)
  \cup Behind({"a", "\r\n", "- a\r", "--", "... \n"}, {"-", ".", "\r", "\n", "BOM", "#", "\t"}, 2)
  \cup {Chars(t) : t \in {
         "\"\\x41\\u0041 \\U00110000\"", "\"\\uD800\"", "\"\\x4\"", "!%C3%A9 a", "!%C3%41 a", "!a%2 b",
         "%TAG !e! a\n--- !e!a b\n", "%YAML 1.1\n%YAML 1.1\n---\n", "%YAML 0000000001.1 # c\n--- a\n",
         "a a a: b\n", "[a, b, c]: a\n", "- a a a a: b\n", "&a a: *a\n? *a\n", "- &a [*a]\n- !!a\n",
         "? a\n: b\n? - a\n  - b\n: c\n", "a: b\n...\n---\nb: c\n", "a: @\n",
         "- &a [a, *a]\n- *a\n- *a\n", "&a {a: &b [*a], k: *b}\n", "[&a a, *a, &a k, *a]", "[&b a, &a k, *a, *b, *a]", "--- >\n a\n\n\n  b\n c\n"}}

-----------------------------------------------------------------------------
\* Documents: a tree, written in a style, and what the composer must make of it.
Scalar_(v) == [kind |-> "scalar", value |-> Chars(v), children |-> <<>>]
Sequence_(cs) == [kind |-> "sequence", value |-> <<>>, children |-> cs]
Mapping_(cs) == [kind |-> "mapping", value |-> <<>>, children |-> cs]

Leaf == {Scalar_("a"), Scalar_("b c"), Scalar_("b: - #")}
Keys == {Scalar_("a"), Scalar_("k")}
Small == {Scalar_("a"), Sequence_(<<Scalar_("a"), Scalar_("b c")>>), Mapping_(<<Scalar_("k"), Scalar_("b: - #")>>)}
Middle == Small \cup {Sequence_(<<c>>) : c \in Small} \cup {Mapping_(<<Scalar_("a"), c>>) : c \in Small}

Trees ==
  Leaf \cup Middle
  \cup {Sequence_(<<c, d>>) : c \in Middle, d \in Small}
  \cup {Mapping_(<<Scalar_("a"), c, Scalar_("k"), d>>) : c \in Middle, d \in Small}

\* compact: a block in a sequence begins behind the '-'; loose: a sequence in a mapping is not indented;
\* wide: levels of two columns; gap: what stands between two lines; quote: how scalars are written.
Styles ==
  [compact : BOOLEAN, loose : BOOLEAN, wide : {TRUE}, gap : {""}, quote : {"plain", "folded"}, flow : {FALSE}]
  \cup [compact : {TRUE}, loose : {FALSE}, wide : {FALSE}, gap : {"", "\n # c\n"}, quote : {"'", "|"}, flow : {FALSE}]
  \cup [compact : {FALSE}, loose : {FALSE}, wide : {FALSE}, gap : {"", "\n"}, quote : {"\"", "lines"}, flow : {TRUE}]

Spaces(n) == [i \in 1..n |-> " "]
NewLine(s, n) == <<"\n">> \o Chars(s.gap) \o Spaces(n)

\* Blanks within a scalar are written as line breaks where that is the same.
Broken(v, n) == FlattenSeq([i \in 1..Len(v) |-> IF v[i] = " " THEN <<"\n">> \o Spaces(n) ELSE <<v[i]>>])

Special(v) == \E i \in 1..Len(v) : v[i] \in {":", "#"}

Quoted(v, q) == <<q>> \o v \o <<q>>

\* A scalar on its own, with the lines behind the first at column n.
Written(v, s, n) ==
  CASE s.quote = "|"      -> Chars("|-\n") \o Spaces(n) \o v
    [] s.quote = "folded" -> Chars(">-\n") \o Spaces(n) \o v
    [] s.quote = "lines"  -> Quoted(Broken(v, n), "\"")
    [] s.quote = "plain" /\ ~Special(v) -> Broken(v, n)
    [] s.quote = "plain" /\ Special(v) -> Quoted(v, "'")
    [] OTHER -> Quoted(v, s.quote)

RECURSIVE Flow(_, _, _), Block(_, _, _, _)

Joined(ts) == FlattenSeq([i \in 1..Len(ts) |-> IF i = 1 THEN ts[i] ELSE <<",", " ">> \o ts[i]])

Flow(t, s, n) ==
  CASE t.kind = "scalar" -> Written(t.value, s, n)
    [] t.kind = "sequence" ->
         <<"[">> \o Joined([i \in 1..Len(t.children) |-> NewLine(s, n) \o Flow(t.children[i], s, n)]) \o <<"]">>
    [] OTHER ->
         <<"{">> \o Joined([i \in 1..(Len(t.children) \div 2) |->
                     t.children[2 * i - 1].value \o <<":", " ">> \o Flow(t.children[2 * i], s, n)]) \o <<"}">>

\* A node behind the indicator of a block at column parent; dash tells whether that is a '-'.
Block(t, s, parent, dash) ==
  LET inline == dash /\ s.compact
      column == IF inline THEN parent + 2
                ELSE IF parent >= 0 /\ ~dash /\ s.loose /\ t.kind = "sequence" THEN parent
                ELSE IF parent >= 0 /\ s.wide THEN parent + 2 ELSE parent + 1
      line(i) == IF i = 1 /\ inline THEN <<" ">> ELSE IF i = 1 /\ parent = -1 THEN <<>> ELSE NewLine(s, column)
  IN
  IF t.kind = "scalar" \/ s.flow THEN <<" ">> \o Flow(t, s, parent + 2)
  ELSE IF t.kind = "sequence"
  THEN FlattenSeq([i \in 1..Len(t.children) |-> line(i) \o <<"-">> \o Block(t.children[i], s, column, TRUE)])
  ELSE FlattenSeq([i \in 1..(Len(t.children) \div 2) |->
         line(i) \o t.children[2 * i - 1].value \o <<":">> \o Block(t.children[2 * i], s, column, FALSE)])

Text(t, s) == Block(t, s, -1, FALSE) \o <<"\n">>

\* The nodes in the order they begin; first is the index of the first one.
RECURSIVE Preorder(_)
Preorder(t) == <<t>> \o FlattenSeq([i \in 1..Len(t.children) |-> Preorder(t.children[i])])

RECURSIVE Size(_)
Size(t) == 1 + FoldLeft(LAMBDA n, c : n + Size(c), 0, t.children)

RECURSIVE Nodes(_, _)
Nodes(t, first) ==
  LET child(i) == first + 1 + FoldLeft(LAMBDA n, c : n + Size(c), 0, SubSeq(t.children, 1, i - 1)) IN
  <<[kind |-> t.kind, children |-> [i \in 1..Len(t.children) |-> child(i)]]>>
    \o FlattenSeq([i \in 1..Len(t.children) |-> Nodes(t.children[i], child(i))])

TreeLeaves(t) == LET p == SelectSeq(Preorder(t), LAMBDA n : n.kind = "scalar") IN [i \in 1..Len(p) |-> p[i].value]

MCDocuments ==
  {[text |-> Text(t, s), known |-> TRUE, nodes |-> Nodes(t, 1), leaves |-> TreeLeaves(t)] : t \in Trees, s \in Styles}
  \cup {[text |-> t, known |-> FALSE, nodes |-> <<>>, leaves |-> <<>>] : t \in ShortTexts}

MCTexts == {d.text : d \in MCDocuments}
=============================================================================
