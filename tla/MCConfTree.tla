----------------------------- MODULE MCConfTree -----------------------------
(***************************************************************************)
(* Instances of ConfTree for TLC: files as the events the parser delivers, *)
(* and what each of them says.                                             *)
(***************************************************************************)
EXTENDS ConfTree

\* A file as a value: a scalar, a mapping (pairs of key and value) or a sequence.
S(v) == [k |-> "scalar", v |-> v]
M(pairs) == [k |-> "map", e |-> pairs]
Q(items) == [k |-> "seq", e |-> items]

Ev(t) == <<[t |-> t]>>
Sc(v) == <<[t |-> "scalar", v |-> v]>>

\* The events the parser delivers for it.
RECURSIVE Events(_)
Events(x) ==
  CASE x.k = "scalar" -> Sc(x.v)
    [] x.k = "map" -> Ev("mapstart") \o FlattenSeq([i \in DOMAIN x.e |-> Sc(x.e[i][1]) \o Events(x.e[i][2])]) \o Ev("mapend")
    [] OTHER -> Ev("seqstart") \o FlattenSeq([i \in DOMAIN x.e |-> Events(x.e[i])]) \o Ev("seqend")

\* What it says, as pairs of path and value: an item of a sequence that is a
\* mapping is named by its first key.
Kept == {"address-groups", "port-groups"}
Key(p, key) == IF (p # <<>> /\ Last(p) \in Kept) \/ key \notin DOMAIN Dashed THEN key ELSE Dashed[key]

RECURSIVE Means(_, _)
Means(p, x) ==
  CASE x.k = "scalar" -> << <<p, x.v>> >>
    [] x.k = "map" -> FlattenSeq([i \in DOMAIN x.e |-> Means(Append(p, Key(p, x.e[i][1])), x.e[i][2])])
    [] OTHER -> FlattenSeq([i \in DOMAIN x.e |->
                  LET q == Append(p, ToString(i - 1)) IN
                  (IF x.e[i].k = "map" THEN << <<q, Key(<<>>, x.e[i].e[1][1])>> >> ELSE <<>>) \o Means(q, x.e[i])])

Start(ok) == <<[t |-> "document", yaml11 |-> ok]>>
File(x) == [events |-> Start(TRUE) \o Events(x) \o Ev("streamend"), means |-> Means(<<>>, x)]
\* The parser gives up after some events; the version line is missing.
Cut(x, n) == [events |-> SubSeq(File(x).events, 1, n) \o Ev("error"), means |-> <<>>]
NoVersion(x) == [events |-> Start(FALSE) \o Events(x) \o Ev("streamend"), means |-> <<>>]

MCDashed == "a_b" :> "a-b" @@ "c_d" :> "c-d"

Item(name) == M(<< <<name, S("")>>, <<"addr", S("x")>> >>)
Servers(a, b) == << <<"servers", Q(<<Item(a), Item(b)>>)>> >>
Groups(a) == << <<"monitor-group", Q(<<Item(a)>>)>> >>
Plain == M(<< <<"k", S("x")>>, <<"a_b", M(<< <<"c_d", S("y")>>, <<"k", S("z")>> >>)>> >>)
Twice == M(<< <<"k", S("x")>>, <<"m", M(<< <<"k", S("x")>> >>)>>, <<"k", S("y")>>, <<"m", M(<< <<"k", S("z")>> >>)>> >>)
Items == M(<< <<"k", Q(<<S("x"), Item("c_d"), S("y")>>)>>, <<"m", S("z")>> >>)
Address == M(<< <<"address-groups", M(<< <<"a_b", S("x")>>, <<"a_b", S("y")>>, <<"k", M(<< <<"c_d", S("z")>> >>)>> >>)>> >>)
Db == M(<< <<"DBServer", M(<< <<"DBHost", S("x")>>, <<"DBUser", S("y")>>, <<"DBPassWord", S("z")>>, <<"DBName", S("w")>> >>)>> >>)
NoHost == M(<< <<"DBServer", M(<< <<"DBUser", S("y")>> >>)>> >>)
NoUser == M(<< <<"DBServer", M(<< <<"DBHost", S("x")>>, <<"DBPassWord", S("z")>>, <<"DBName", S("w")>> >>)>> >>)
TwiceMangled == M(<< <<"a_b", S("x")>>, <<"a_b", S("y")>> >>)

SectionFiles == {File(M(Servers("a_b", b) \o Groups(c))) : b, c \in {"a_b", "s1", "s2"}}

MCDocs == {File(Plain), File(Twice), File(Items), File(Address), File(Db), File(NoHost), NoVersion(Plain)}
            \cup {Cut(Items, n) : n \in {3, 6, 9}} \cup SectionFiles

\* Files that show a disagreement; no run loads them.
NoUserDoc == {File(NoUser)}
MangledDoc == {File(TwiceMangled)}

ValSymmetry == Permutations(Vals)

MCPaths == {<<"k">>, <<"k", "0">>, <<"a-b">>, <<"a-b", "k">>}
=============================================================================
