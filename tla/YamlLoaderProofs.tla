-------------------------- MODULE YamlLoaderProofs --------------------------
(***************************************************************************)
(* Proofs about the parser of tokens and the composer.  The stacks of the  *)
(* parser match its state, so that no POP meets an empty stack, and every  *)
(* string has one owner; its events are a stream, so that no assert of the *)
(* composer fails; and the document that is composed is linked as it       *)
(* should be; all of it whatever the tokens are and whatever call fails.   *)
(***************************************************************************)
EXTENDS YamlLoader, FiniteSetTheorems, SequenceTheorems, WellFoundedInduction, TLAPS

-----------------------------------------------------------------------------
(***************************************************************************)
(* Sequences and numbers.                                                  *)
(***************************************************************************)
\* A set of naturals that is not empty has a least element.
LEMMA LeastNatural ==
  ASSUME NEW T \in SUBSET Nat, T # {}
  PROVE  \E m \in T : \A n \in T : m <= n
<1> DEFINE R == OpToRel(<, Nat)
<1>1. \E x \in T : \A y \in T : ~(<<y, x>> \in R)
  <2>1. IsWellFoundedOn(R, Nat)
    BY NatLessThanWellFounded
  <2> HIDE DEF R
  <2> QED  BY <2>1, WFMin
<1>2. \A x, y \in Nat : <<y, x>> \in R <=> y < x
  BY DEF OpToRel
<1>3. PICK x \in T : \A y \in T : ~(<<y, x>> \in R)
  BY <1>1
<1> HIDE DEF R
<1>4. \A y \in T : y \in Nat /\ x \in Nat /\ ~(y < x)
  BY <1>2, <1>3
<1>5. \A y \in T : x <= y
  BY <1>4
<1> QED  BY <1>5

LEMMA FrontLast ==
  ASSUME NEW S, NEW s \in Seq(S), s # <<>>
  PROVE  /\ Front(s) \in Seq(S) /\ Last(s) \in S
         /\ Len(s) \in Nat \ {0} /\ Len(Front(s)) = Len(s) - 1 /\ Last(s) = s[Len(s)]
         /\ \A i \in 1..Len(Front(s)) : Front(s)[i] = s[i]
         /\ Append(Front(s), Last(s)) = s
<1>1. Len(s) \in Nat \ {0}
  BY EmptySeq
<1>2. \A i \in 1..Len(s) : s[i] \in S
  BY ElementOfSeq
<1>3. /\ Front(s) \in Seq(S)
      /\ Len(Front(s)) = Len(s) - 1
      /\ \A i \in 1..(Len(s) - 1) : Front(s)[i] = s[i]
  <2> DEFINE n == Len(s) - 1
  <2>1. n \in Int /\ 1 \in Int /\ \A i \in 1..n : s[i] \in S
    BY <1>1, <1>2
  <2>2. n \in Nat
    BY <1>1
  <2>3. /\ SubSeq(s, 1, n) \in Seq(S)
        /\ Len(SubSeq(s, 1, n)) = n
        /\ \A i \in 1..n : SubSeq(s, 1, n)[i] = s[i]
    <3> HIDE DEF n
    <3>1. /\ SubSeq(s, 1, n) \in Seq(S)
          /\ Len(SubSeq(s, 1, n)) = IF 1 <= n THEN n - 1 + 1 ELSE 0
          /\ \A i \in 1..(n - 1 + 1) : SubSeq(s, 1, n)[i] = s[1 + i - 1]
      BY <2>1, SubSeqProperties
    <3> QED  BY <2>2, <3>1
  <2> QED  BY <2>3 DEF Front
<1>4. Last(s) \in S
  BY <1>1, <1>2 DEF Last
<1>5. Append(Front(s), Last(s)) = s
  <2>1. /\ Append(Front(s), Last(s)) \in Seq(S)
        /\ Len(Append(Front(s), Last(s))) = Len(s)
        /\ \A i \in 1..(Len(s) - 1) : Append(Front(s), Last(s))[i] = s[i]
        /\ Append(Front(s), Last(s))[Len(s)] = s[Len(s)]
    BY <1>1, <1>3, <1>4, AppendProperties DEF Last
  <2> QED  BY <1>1, <2>1, SeqEqual
<1> QED  BY <1>1, <1>3, <1>4, <1>5 DEF Last

-----------------------------------------------------------------------------
(***************************************************************************)
(* The stacks.  Counted is how many of the states belong to a collection   *)
(* that has a mark, Placed what StacksMatch says of any state and stacks.  *)
(***************************************************************************)
Positions(s) == {i \in 1..Len(s) : s[i] \in Marked}
Counted(s) == Cardinality(Positions(s))

Bottomed(s) == s # <<>> /\ \A i \in 1..Len(s) : s[i] = "DOCUMENT_END" <=> i = 1

MarksBelow(ms, limit) ==
  /\ ms \in Seq(Nat)
  /\ \A i \in 1..Len(ms) : ms[i] \in 1..limit
  /\ \A i \in 2..Len(ms) : ms[i - 1] < ms[i]

Placed(next, ss, ms, limit) ==
  /\ next \in OutsideDocument \cup InDocument
  /\ ss \in Seq(ReturnStates)
  /\ next \in OutsideDocument \cup {"DOCUMENT_END"} => ss = <<>>
  /\ next \in InDocument \ {"DOCUMENT_END"} => Bottomed(ss)
  /\ Len(ms) = Counted(ss) + (IF next \in Marked THEN 1 ELSE 0)
  /\ MarksBelow(ms, limit)

LEMMA CountType ==
  ASSUME NEW s \in Seq(ReturnStates)
  PROVE  IsFiniteSet(Positions(s)) /\ Counted(s) \in Nat /\ Positions(s) \subseteq 1..Len(s)
<1>1. Positions(s) \in SUBSET (1..Len(s)) /\ Len(s) \in Int
  BY LenProperties DEF Positions
<1>2. IsFiniteSet(1..Len(s))
  BY <1>1, FS_Interval
<1> QED  BY <1>1, <1>2, FS_Subset, FS_CardinalityType DEF Counted

LEMMA CountEmpty == Counted(<<>>) = 0
<1>1. Positions(<<>>) = {}
  BY DEF Positions
<1> QED  BY <1>1, FS_EmptySet DEF Counted

LEMMA CountPush ==
  ASSUME NEW s \in Seq(ReturnStates), NEW x \in ReturnStates
  PROVE  Counted(Append(s, x)) = Counted(s) + (IF x \in Marked THEN 1 ELSE 0)
<1> DEFINE t == Append(s, x)
<1>1. /\ Len(s) \in Nat /\ Len(t) = Len(s) + 1
      /\ \A i \in 1..Len(s) : t[i] = s[i]
      /\ t[Len(s) + 1] = x
  BY LenProperties, AppendProperties
<1> HIDE DEF t
<1>2. CASE x \in Marked
  <2>1. Positions(t) = Positions(s) \cup {Len(s) + 1} /\ Len(s) + 1 \notin Positions(s)
    BY <1>1, <1>2 DEF Positions
  <2> QED  BY <1>2, <2>1, CountType, FS_AddElement DEF Counted, t
<1>3. CASE x \notin Marked
  <2>1. Positions(t) = Positions(s)
    BY <1>1, <1>3 DEF Positions
  <2> QED  BY <1>3, <2>1, CountType DEF Counted, t
<1> QED  BY <1>2, <1>3

LEMMA CountPop ==
  ASSUME NEW s \in Seq(ReturnStates), s # <<>>
  PROVE  Counted(s) = Counted(Front(s)) + (IF Last(s) \in Marked THEN 1 ELSE 0)
BY FrontLast, CountPush

LEMMA MarksWeaken ==
  ASSUME NEW ms, NEW a \in Nat, NEW b \in Nat, a <= b, MarksBelow(ms, a)
  PROVE  MarksBelow(ms, b)
BY DEF MarksBelow

LEMMA MarksPush ==
  ASSUME NEW ms, NEW a \in Nat, MarksBelow(ms, a)
  PROVE  MarksBelow(Append(ms, a + 1), a + 1) /\ Len(Append(ms, a + 1)) = Len(ms) + 1
<1> DEFINE t == Append(ms, a + 1)
<1>1. ms \in Seq(Nat) /\ Len(ms) \in Nat /\ a + 1 \in Nat
  BY LenProperties DEF MarksBelow
<1>2. /\ t \in Seq(Nat) /\ Len(t) = Len(ms) + 1
      /\ \A i \in 1..Len(ms) : t[i] = ms[i]
      /\ t[Len(ms) + 1] = a + 1
  BY <1>1, AppendProperties
<1> HIDE DEF t
<1>3. \A i \in 1..Len(ms) : ms[i] \in 1..a
  BY DEF MarksBelow
<1>4. \A i \in 1..Len(t) : t[i] \in 1..(a + 1)
  BY <1>1, <1>2, <1>3
<1>5. \A i \in 2..Len(t) : t[i - 1] < t[i]
  <2> SUFFICES ASSUME NEW i \in 2..Len(t) PROVE t[i - 1] < t[i]
    OBVIOUS
  <2>1. CASE i = Len(ms) + 1
    <3>1. i - 1 \in 1..Len(ms)
      BY <1>1, <2>1
    <3> QED  BY <1>1, <1>2, <1>3, <2>1, <3>1
  <2>2. CASE i # Len(ms) + 1
    <3>1. i \in 2..Len(ms) /\ i - 1 \in 1..Len(ms) /\ i \in 1..Len(ms)
      BY <1>1, <1>2, <2>2
    <3>2. ms[i - 1] < ms[i]
      BY <3>1 DEF MarksBelow
    <3> QED  BY <1>2, <3>1, <3>2
  <2> QED  BY <2>1, <2>2
<1> QED  BY <1>2, <1>4, <1>5 DEF t, MarksBelow

LEMMA MarksPop ==
  ASSUME NEW ms, NEW a \in Nat, MarksBelow(ms, a), ms # <<>>
  PROVE  MarksBelow(Front(ms), a) /\ Len(Front(ms)) = Len(ms) - 1
<1>1. ms \in Seq(Nat)
  BY DEF MarksBelow
<1>2. /\ Front(ms) \in Seq(Nat) /\ Len(ms) \in Nat \ {0} /\ Len(Front(ms)) = Len(ms) - 1
      /\ \A i \in 1..Len(Front(ms)) : Front(ms)[i] = ms[i]
  BY <1>1, FrontLast
<1>3. \A i \in 1..Len(Front(ms)) : Front(ms)[i] \in 1..a
  BY <1>2 DEF MarksBelow
<1>4. \A i \in 2..Len(Front(ms)) : Front(ms)[i - 1] < Front(ms)[i]
  <2> SUFFICES ASSUME NEW i \in 2..Len(Front(ms)) PROVE Front(ms)[i - 1] < Front(ms)[i]
    OBVIOUS
  <2>1. i \in 2..Len(ms) /\ i - 1 \in 1..Len(Front(ms)) /\ i \in 1..Len(Front(ms))
    BY <1>2
  <2> QED  BY <1>2, <2>1 DEF MarksBelow
<1> QED  BY <1>2, <1>3, <1>4 DEF MarksBelow

-----------------------------------------------------------------------------
(***************************************************************************)
(* Tokens and their strings.                                               *)
(***************************************************************************)
TokenSet == Tokens \cup {Token("STREAM-START", None), Token("STREAM-END", None)}

\* The tokens as far as they are scanned and not taken.
Scanned ==
  /\ tokens \in Seq(TokenSet) /\ scanned \in 0..MaxTokens /\ Len(tokens) <= scanned

WithStrings == {"ANCHOR", "ALIAS", "SCALAR", "TAG", "TAG-DIRECTIVE"}

LEMMA ScannedFacts ==
  ASSUME Scanned
  PROVE  /\ Len(tokens) \in Nat /\ scanned \in Nat /\ MaxTokens \in Nat
         /\ scanned - Len(tokens) \in Nat
         /\ \A k \in 1..Len(tokens) : Number(k) \in Nat \ {0}
         /\ \A k, j \in 1..Len(tokens) : Number(k) = Number(j) => k = j
BY LenProperties, TokensAssumption DEF Scanned, Number

LEMMA StringsOfToken ==
  ASSUME NEW k
  PROVE  /\ tokens[k].type \notin WithStrings => StringsOf(k) = {}
         /\ tokens[k].type \in {"ANCHOR", "ALIAS", "SCALAR"} => StringsOf(k) = {<<Number(k), 1>>}
         /\ tokens[k].type \in {"TAG", "TAG-DIRECTIVE"} =>
              StringsOf(k) = {<<Number(k), 1>>, <<Number(k), 2>>}
         /\ StringsOf(k) \subseteq {<<Number(k), 1>>, <<Number(k), 2>>}
BY DEF StringsOf, WithStrings

LEMMA StringsUpTo ==
  /\ Strings(0) = {}
  /\ \A n \in Nat : Strings(n + 1) = Strings(n) \cup StringsOf(n + 1)
<1>1. Strings(0) = {}
  BY DEF Strings
<1>2. ASSUME NEW n \in Nat PROVE Strings(n + 1) = Strings(n) \cup StringsOf(n + 1)
  <2>1. \A k : k \in 1..(n + 1) <=> k \in 1..n \/ k = n + 1
    BY <1>2
  <2> QED  BY <2>1 DEF Strings
<1> QED  BY <1>1, <1>2

\* The strings of the tokens belong to the tokens that are there.
LEMMA StringsAreOfTokens ==
  ASSUME Scanned, NEW n \in 0..Len(tokens), NEW x \in Strings(n)
  PROVE  \E k \in 1..n : k \in 1..Len(tokens) /\ x \in {<<Number(k), 1>>, <<Number(k), 2>>}
<1>1. PICK k \in 1..n : x \in StringsOf(k)
  BY DEF Strings
<1>2. k \in 1..Len(tokens)
  BY ScannedFacts
<1> QED  BY <1>1, <1>2, StringsOfToken

LEMMA Taken_ ==
  ASSUME Scanned, NEW n \in 0..Len(tokens), tokens' = SubSeq(tokens, n + 1, Len(tokens)), scanned' = scanned
  PROVE  /\ Scanned' /\ Len(tokens') = Len(tokens) - n
         /\ n < Len(tokens) => tokens' # <<>> /\ tokens'[1] = tokens[n + 1]
<1>1. Len(tokens) \in Nat /\ n \in Nat /\ n <= Len(tokens)
  BY ScannedFacts
<1>2. \A i \in (n + 1)..Len(tokens) : tokens[i] \in TokenSet
  BY <1>1, ElementOfSeq DEF Scanned
<1> DEFINE a == n + 1
           b == Len(tokens)
           t == SubSeq(tokens, a, b)
<1>3. a \in Int /\ b \in Int /\ \A i \in a..b : tokens[i] \in TokenSet
  BY <1>1, <1>2
<1>4. /\ t \in Seq(TokenSet)
      /\ Len(t) = IF a <= b THEN b - a + 1 ELSE 0
      /\ \A i \in 1..(b - a + 1) : t[i] = tokens[a + i - 1]
  <2> HIDE DEF a, b
  <2> QED  BY <1>3, SubSeqProperties
<1>5. Len(t) = Len(tokens) - n
  <2> HIDE DEF t
  <2> QED  BY <1>1, <1>4
<1>6. n < Len(tokens) => 1 \in 1..(b - a + 1) /\ a + 1 - 1 = n + 1
  BY <1>1
<1>7. n < Len(tokens) => t[1] = tokens[n + 1] /\ t # <<>>
  <2> HIDE DEF t
  <2> QED  BY <1>1, <1>4, <1>5, <1>6
<1>8. tokens' = t /\ t \in Seq(TokenSet) /\ Len(t) <= scanned
  <2> HIDE DEF t
  <2>1. Len(t) <= scanned
    BY <1>1, <1>5 DEF Scanned
  <2> QED  BY <1>4, <2>1 DEF t
<1>9. Scanned'
  <2> HIDE DEF t
  <2> QED  BY <1>8 DEF Scanned, TokenSet
<1> HIDE DEF t
<1> QED  BY <1>5, <1>7, <1>8, <1>9

-----------------------------------------------------------------------------
(***************************************************************************)
(* The inductive invariant: StacksSound with the type of what is on the    *)
(* stacks, every mark that of a token that was taken, and StringsHeldOnce. *)
(***************************************************************************)
Outcomes == {"none", "scanner", "parser", "memory"}

ParserInv ==
  /\ Scanned /\ error \in Outcomes /\ twice \in BOOLEAN
  /\ Placed(state, states, marks, scanned - Len(tokens))
  /\ FirstTokenThere
  /\ StringsHeldOnce

LEMMA SoundFromInv ==
  ASSUME ParserInv
  PROVE  StacksSound
<1> USE ScannedFacts DEF ParserInv
<1>1. TypeOK
  <2>1. \A i \in 1..Len(tokens) : tokens[i] \in TokenSet
    BY ElementOfSeq DEF Scanned
  <2>2. \A i \in 1..Len(states) : states[i] \in ReturnStates
    BY ElementOfSeq DEF Placed
  <2>3. \A i \in 1..Len(marks) : marks[i] \in 1..scanned
    BY DEF Placed, MarksBelow
  <2> QED  BY <2>1, <2>2, <2>3 DEF TypeOK, TokenSet, Scanned, Placed, StringsHeldOnce, Outcomes
<1>2. StacksMatch
  BY DEF Placed, Bottomed, Counted, Positions, MarksBelow, StacksMatch
<1> QED  BY <1>1, <1>2 DEF StacksSound

LEMMA InitInv == Init => ParserInv
<1> SUFFICES ASSUME Init PROVE ParserInv
  OBVIOUS
<1>1. Scanned /\ Len(tokens) = 0
  BY TokensAssumption, EmptySeq DEF Init, Scanned
<1>2. Placed(state, states, marks, scanned - Len(tokens))
  <2>1. MarksBelow(marks, scanned - Len(tokens)) /\ Len(marks) = 0 /\ states \in Seq(ReturnStates)
    BY EmptySeq DEF Init, MarksBelow
  <2> QED  BY <1>1, <2>1, CountEmpty DEF Init, Placed, OutsideDocument, Marked, InDocument, FirstStates, ReturnStates
<1>3. FirstTokenThere
  BY DEF Init, FirstTokenThere, FirstStates
<1>4. StringsHeldOnce
  BY FS_EmptySet DEF Init, StringsHeldOnce, NoEvent, EventDeletes
<1> QED  BY <1>1, <1>2, <1>3, <1>4 DEF Init, ParserInv, Outcomes

LEMMA ScanInv ==
  ASSUME ParserInv, Scan
  PROVE  ParserInv'
<1>1. PICK t \in TokenSet : tokens' = Append(tokens, t)
  BY DEF Scan, TokenSet
<1>2. scanned' = scanned + 1 /\ scanned < MaxTokens /\ UNCHANGED <<state, states, marks, error, event, loose, twice>>
  BY DEF Scan
<1>3. /\ tokens' \in Seq(TokenSet) /\ Len(tokens') = Len(tokens) + 1
      /\ tokens # <<>> => tokens'[1] = tokens[1]
      /\ tokens' # <<>>
  <2>1. tokens # <<>> => 1 \in 1..Len(tokens)
    BY EmptySeq DEF ParserInv, Scanned
  <2> QED  BY <1>1, <2>1, AppendProperties DEF ParserInv, Scanned
<1>4. Scanned'
  BY <1>2, <1>3, ScannedFacts DEF ParserInv, Scanned, TokenSet
<1>5. scanned' - Len(tokens') = scanned - Len(tokens)
  BY <1>2, <1>3, ScannedFacts DEF ParserInv
<1>6. Placed(state, states, marks, scanned - Len(tokens))'
  BY <1>2, <1>5 DEF ParserInv, Placed, MarksBelow, Counted, Positions, Bottomed
<1>7. FirstTokenThere'
  BY <1>2, <1>3 DEF ParserInv, FirstTokenThere, Running
<1>8. StringsHeldOnce'
  BY <1>2 DEF ParserInv, StringsHeldOnce, EventDeletes
<1> QED  BY <1>2, <1>4, <1>6, <1>7, <1>8 DEF ParserInv

-----------------------------------------------------------------------------
(***************************************************************************)
(* The ways a call ends.                                                   *)
(***************************************************************************)
\* Each string of the tokens taken, and each that was made, is freed or given to the event.
Settled(n, made, freed, given) ==
  freed \cap given = {} /\ freed \cup given = Strings(n) \cup made

LEMMA FailInv ==
  ASSUME ParserInv, NEW kind \in Outcomes \ {"none"}, NEW n \in 0..Len(tokens), NEW made, NEW freed,
         Fail(kind, n, made, freed), Settled(n, made, freed, {})
  PROVE  ParserInv'
<1>1. /\ tokens' = SubSeq(tokens, n + 1, Len(tokens)) /\ scanned' = scanned
      /\ error' = kind /\ event' = NoEvent
      /\ UNCHANGED <<state, states, marks>>
      /\ loose' = {} /\ ~twice' /\ twice' \in BOOLEAN
  BY DEF Fail, Ledger, Settled, ParserInv, StringsHeldOnce
<1>2. Scanned' /\ Len(tokens') = Len(tokens) - n
  BY <1>1, Taken_ DEF ParserInv
<1>3. Placed(state, states, marks, scanned - Len(tokens))'
  <2>1. MarksBelow(marks, scanned - Len(tokens) + n)
    BY ScannedFacts, MarksWeaken DEF ParserInv, Placed
  <2>2. scanned' - Len(tokens') = scanned - Len(tokens) + n
    BY <1>1, <1>2, ScannedFacts DEF ParserInv
  <2> QED  BY <1>1, <2>1, <2>2 DEF ParserInv, Placed, MarksBelow, Counted, Positions, Bottomed
<1>4. FirstTokenThere'
  BY <1>1 DEF FirstTokenThere, Running
<1>5. StringsHeldOnce'
  BY <1>1, FS_EmptySet DEF StringsHeldOnce, NoEvent, EventDeletes
<1> QED  BY <1>1, <1>2, <1>3, <1>4, <1>5 DEF ParserInv

\* The token that opens the collection of each of the first states.
Opener ==
  [BLOCK_SEQUENCE_FIRST_ENTRY |-> "BLOCK-SEQUENCE-START", BLOCK_MAPPING_FIRST_KEY |-> "BLOCK-MAPPING-START",
   FLOW_SEQUENCE_FIRST_ENTRY |-> "FLOW-SEQUENCE-START", FLOW_MAPPING_FIRST_KEY |-> "FLOW-MAPPING-START"]

LEMMA FirstTokens ==
  FirstTokenThere <=>
    (Running /\ state \in FirstStates => tokens # <<>> /\ tokens[1].type = Opener[state])
BY DEF FirstTokenThere, FirstStates, FirstState, Opener

LEMMA EmitInv ==
  ASSUME ParserInv, NEW type, NEW anchor, NEW n \in 0..Len(tokens), NEW made, NEW freed, NEW given,
         Emit(type, anchor, n, made, freed, given), Settled(n, made, freed, given),
         Cardinality(given) \in EventDeletes(type),
         Placed(state', states', marks', scanned - Len(tokens) + n),
         state' \in FirstStates => n < Len(tokens) /\ tokens[n + 1].type = Opener[state']
  PROVE  ParserInv'
<1>1. /\ tokens' = SubSeq(tokens, n + 1, Len(tokens)) /\ scanned' = scanned
      /\ error' = error /\ event' = [type |-> type, anchor |-> anchor, strs |-> given]
      /\ loose' = {} /\ ~twice' /\ twice' \in BOOLEAN
  BY DEF Emit, Ledger, Settled, ParserInv, StringsHeldOnce
<1>2. /\ Scanned' /\ Len(tokens') = Len(tokens) - n
      /\ n < Len(tokens) => tokens' # <<>> /\ tokens'[1] = tokens[n + 1]
  BY <1>1, Taken_ DEF ParserInv
<1>3. Placed(state, states, marks, scanned - Len(tokens))'
  <2>1. scanned' - Len(tokens') = scanned - Len(tokens) + n
    BY <1>1, <1>2, ScannedFacts DEF ParserInv
  <2> QED  BY <2>1 DEF Placed, MarksBelow, Counted, Positions, Bottomed
<1>4. FirstTokenThere'
  BY <1>2 DEF FirstTokenThere, FirstStates, FirstState, Opener
<1>5. StringsHeldOnce'
  BY <1>1 DEF StringsHeldOnce, EventDeletes
<1> QED  BY <1>1, <1>2, <1>3, <1>4, <1>5 DEF ParserInv

-----------------------------------------------------------------------------
(***************************************************************************)
(* A call on its way.  Where a node is read, the top of the stack is the   *)
(* state to come back to (AtNode); between the entries of a collection its *)
(* mark is on top and its state is not on the stack (InCollection).        *)
(***************************************************************************)
Calls == [n : Nat, states : Seq(ReturnStates), marks : Seq(Nat)]

Underway(c) ==
  /\ c \in Calls /\ c.n <= Len(tokens) /\ Strings(c.n) = {}
  /\ Bottomed(c.states)
  /\ MarksBelow(c.marks, scanned - Len(tokens) + c.n)

AtNode(c) == Underway(c) /\ Len(c.marks) = Counted(c.states)
InCollection(c) == Underway(c) /\ Len(c.marks) = Counted(c.states) + 1

LEMMA HereUnderway ==
  ASSUME ParserInv, state \in InDocument \ {"DOCUMENT_END"}
  PROVE  /\ Here(0) = [n |-> 0, states |-> states, marks |-> marks] /\ Underway(Here(0))
         /\ state \in Marked => InCollection(Here(0))
         /\ state \notin Marked => AtNode(Here(0))
<1>1. states \in Seq(ReturnStates) /\ marks \in Seq(Nat) /\ Bottomed(states)
      /\ MarksBelow(marks, scanned - Len(tokens) + 0)
      /\ Len(marks) = Counted(states) + (IF state \in Marked THEN 1 ELSE 0)
      /\ Counted(states) \in Nat
  BY ScannedFacts, CountType DEF ParserInv, Placed, MarksBelow
<1>2. Underway([n |-> 0, states |-> states, marks |-> marks])
  BY <1>1, ScannedFacts, StringsUpTo DEF Underway, Calls, ParserInv
<1> QED  BY <1>1, <1>2 DEF Here, AtNode, InCollection

LEMMA AfterUnderway ==
  ASSUME ParserInv, NEW c, Underway(c), NEW types, Is(c.n + 1, types), types \cap WithStrings = {}
  PROVE  /\ Underway(After(c)) /\ After(c).n = c.n + 1
         /\ After(c).states = c.states /\ After(c).marks = c.marks
         /\ InCollection(c) => InCollection(After(c))
         /\ AtNode(c) => AtNode(After(c))
<1>1. /\ After(c) = [n |-> c.n + 1, states |-> c.states, marks |-> c.marks]
      /\ After(c) \in Calls
  BY DEF After, Underway, Calls
<1>2. c.n \in Nat /\ c.n + 1 <= Len(tokens) /\ tokens[c.n + 1].type \notin WithStrings
  BY DEF Is, Underway, Calls
<1>3. Strings(c.n + 1) = {}
  BY <1>2, StringsUpTo, StringsOfToken DEF Underway
<1>4. MarksBelow(c.marks, scanned - Len(tokens) + (c.n + 1))
  BY <1>2, ScannedFacts, MarksWeaken DEF Underway, ParserInv
<1>5. Underway(After(c))
  BY <1>1, <1>2, <1>3, <1>4 DEF Underway
<1> QED  BY <1>1, <1>5 DEF InCollection, AtNode

\* The token that opens a collection is there when its first entry is read.
LEMMA EnteredInCollection ==
  ASSUME ParserInv, Running, state \in FirstStates
  PROVE  InCollection(Entered(TRUE)) /\ Entered(TRUE).n = 1
<1> DEFINE c == [n |-> 1, states |-> states, marks |-> Append(marks, Number(1))]
<1>1. tokens # <<>> /\ tokens[1].type = Opener[state]
  BY FirstTokens DEF ParserInv
<1>2. Len(tokens) \in Nat \ {0} /\ 0 + 1 = 1
  BY <1>1, EmptySeq DEF ParserInv, Scanned
<1>3. Strings(1) = {}
  <2>1. tokens[1].type \notin WithStrings
    BY <1>1 DEF Opener, FirstStates, WithStrings
  <2> QED  BY <1>2, <2>1, StringsUpTo, StringsOfToken
<1>4. /\ states \in Seq(ReturnStates) /\ Bottomed(states) /\ Len(marks) = Counted(states)
      /\ MarksBelow(marks, scanned - Len(tokens))
  <2>1. state \in InDocument \ {"DOCUMENT_END"} /\ state \notin Marked
    BY DEF InDocument, FirstStates, Marked
  <2> QED  BY <2>1, CountType DEF ParserInv, Placed
<1>5. Number(1) = scanned - Len(tokens) + 1
  BY DEF Number
<1>6. /\ MarksBelow(Append(marks, Number(1)), scanned - Len(tokens) + 1)
      /\ Len(Append(marks, Number(1))) = Counted(states) + 1
      /\ Append(marks, Number(1)) \in Seq(Nat)
  BY <1>4, <1>5, ScannedFacts, MarksPush DEF ParserInv, MarksBelow
<1>7. InCollection(c)
  BY <1>2, <1>3, <1>4, <1>6 DEF InCollection, Underway, Calls
<1>8. Entered(TRUE) = c /\ c.n = 1
  BY DEF Entered
<1> HIDE DEF c
<1> QED  BY <1>7, <1>8, Zenon

LEMMA EnteredOrHere ==
  ASSUME ParserInv, Running, NEW S, S \subseteq Marked, NEW s \in FirstStates, state \in S \cup {s}
  PROVE  InCollection(Entered(state = s))
<1>1. CASE state = s
  BY <1>1, EnteredInCollection
<1>2. CASE state # s
  <2>1. state \in Marked /\ state \in InDocument \ {"DOCUMENT_END"}
    BY <1>2 DEF Marked, InDocument
  <2> QED  BY <1>2, <2>1, HereUnderway DEF Entered
<1> QED  BY <1>1, <1>2

\* The state to come back to is pushed before a node is read.
LEMMA PushAtNode ==
  ASSUME NEW c, NEW s \in ReturnStates \ {"DOCUMENT_END"},
         \/ InCollection(c) /\ s \in Marked
         \/ AtNode(c) /\ s \notin Marked
  PROVE  AtNode(Push(c, s)) /\ Push(c, s).n = c.n
<1> DEFINE t == Append(c.states, s)
<1>1. Underway(c) /\ c.states \in Seq(ReturnStates) /\ Counted(c.states) \in Nat
  BY CountType DEF InCollection, AtNode, Underway, Calls
<1>2. Push(c, s) = [n |-> c.n, states |-> t, marks |-> c.marks]
  <2>1. c \in [n : Nat, states : Seq(ReturnStates), marks : Seq(Nat)]
    BY <1>1 DEF Underway, Calls
  <2>2. c = [n |-> c.n, states |-> c.states, marks |-> c.marks]
    BY <2>1
  <2>3. \A a, b, d, u : LET r == [n |-> a, states |-> b, marks |-> d] IN
          [r EXCEPT !.states = Append(@, u)] = [n |-> a, states |-> Append(b, u), marks |-> d]
    OBVIOUS
  <2> QED  BY <2>2, <2>3 DEF Push
<1>3. /\ t \in Seq(ReturnStates) /\ Len(t) = Len(c.states) + 1 /\ t # <<>>
      /\ \A i \in 1..Len(c.states) : t[i] = c.states[i]
      /\ t[Len(c.states) + 1] = s
      /\ Len(c.states) \in Nat \ {0}
  BY <1>1, AppendProperties, EmptySeq DEF Underway, Bottomed
<1>4. Len(c.marks) = Counted(t)
  BY <1>1, CountPush DEF InCollection, AtNode
<1> HIDE DEF t
<1>5. Bottomed(t)
  BY <1>1, <1>3 DEF Underway, Bottomed
<1> QED  BY <1>1, <1>2, <1>3, <1>4, <1>5 DEF AtNode, Underway, Calls

\* POP of the state to come back to.
LEMMA PoppedPlaced ==
  ASSUME NEW ss \in Seq(ReturnStates), Bottomed(ss), NEW ms, Len(ms) = Counted(ss),
         NEW limit, MarksBelow(ms, limit)
  PROVE  Placed(Last(ss), Front(ss), ms, limit) /\ Last(ss) \notin FirstStates
<1>1. /\ Front(ss) \in Seq(ReturnStates) /\ Last(ss) \in ReturnStates
      /\ Len(ss) \in Nat \ {0} /\ Len(Front(ss)) = Len(ss) - 1 /\ Last(ss) = ss[Len(ss)]
      /\ \A i \in 1..Len(Front(ss)) : Front(ss)[i] = ss[i]
  BY FrontLast DEF Bottomed
<1>2. Last(ss) = "DOCUMENT_END" <=> Len(ss) = 1
  BY <1>1 DEF Bottomed
<1>3. Len(ss) = 1 => Front(ss) = <<>>
  BY <1>1, EmptySeq
<1>4. Len(ss) # 1 => Bottomed(Front(ss))
  <2>1. Len(ss) # 1 => Front(ss) # <<>>
    BY <1>1, EmptySeq
  <2> QED  BY <1>1, <2>1 DEF Bottomed
<1>5. Last(ss) \notin OutsideDocument /\ Last(ss) \notin FirstStates /\ Last(ss) \in InDocument
  BY <1>1 DEF OutsideDocument, FirstStates, InDocument, ReturnStates, Marked
<1>6. Len(ms) = Counted(Front(ss)) + (IF Last(ss) \in Marked THEN 1 ELSE 0)
  BY CountPop DEF Bottomed
<1> QED  BY <1>1, <1>2, <1>3, <1>4, <1>5, <1>6 DEF Placed

\* A state of a collection, or the first one of a node, with the stacks of the call.
LEMMA GoOnPlaced ==
  ASSUME ParserInv, NEW c, NEW n \in Nat, c.n <= n, NEW next,
         \/ AtNode(c) /\ next \in FirstStates \cup {"INDENTLESS_SEQUENCE_ENTRY"}
         \/ InCollection(c) /\ next \in Marked
  PROVE  Placed(next, c.states, c.marks, scanned - Len(tokens) + n)
<1>1. Underway(c) /\ c.n \in Nat /\ scanned - Len(tokens) \in Nat /\ Counted(c.states) \in Nat
  BY ScannedFacts, CountType DEF AtNode, InCollection, Underway, Calls, ParserInv
<1>2. MarksBelow(c.marks, scanned - Len(tokens) + n)
  <2>1. /\ scanned - Len(tokens) + c.n \in Nat /\ scanned - Len(tokens) + n \in Nat
        /\ scanned - Len(tokens) + c.n <= scanned - Len(tokens) + n
    BY <1>1
  <2> QED  BY <1>1, <2>1, MarksWeaken DEF Underway
<1>3. next \in InDocument \ {"DOCUMENT_END"} /\ next \notin OutsideDocument
  BY DEF InDocument, FirstStates, Marked, ReturnStates, OutsideDocument
<1>4. next \in FirstStates \cup {"INDENTLESS_SEQUENCE_ENTRY"} => next \notin Marked
  BY DEF FirstStates, Marked
<1>5. Len(c.marks) = Counted(c.states) + (IF next \in Marked THEN 1 ELSE 0)
  BY <1>1, <1>4 DEF AtNode, InCollection
<1> QED  BY <1>1, <1>2, <1>3, <1>5 DEF Placed, Underway, Calls

LEMMA CallUpdates ==
  ASSUME NEW c \in Calls
  PROVE  /\ [c EXCEPT !.states = Front(@)] = [n |-> c.n, states |-> Front(c.states), marks |-> c.marks]
         /\ [c EXCEPT !.marks = Front(@)] = [n |-> c.n, states |-> c.states, marks |-> Front(c.marks)]
<1>1. c = [n |-> c.n, states |-> c.states, marks |-> c.marks]
  BY DEF Calls
<1>2. \A a, b, d : LET r == [n |-> a, states |-> b, marks |-> d] IN
        /\ [r EXCEPT !.states = Front(@)] = [n |-> a, states |-> Front(b), marks |-> d]
        /\ [r EXCEPT !.marks = Front(@)] = [n |-> a, states |-> b, marks |-> Front(d)]
  OBVIOUS
<1> QED  BY <1>1, <1>2

LEMMA GoBackPlaced ==
  ASSUME ParserInv, NEW c, AtNode(c), NEW n \in Nat, c.n <= n, GoBack(c)
  PROVE  /\ Placed(state', states', marks', scanned - Len(tokens) + n)
         /\ state' \notin FirstStates
<1>1. /\ c \in Calls /\ c.n \in Nat /\ c.states \in Seq(ReturnStates) /\ Bottomed(c.states)
      /\ MarksBelow(c.marks, scanned - Len(tokens) + c.n)
  BY DEF AtNode, Underway, Calls
<1>2. state' = Last(c.states) /\ states' = Front(c.states) /\ marks' = c.marks
  BY <1>1, CallUpdates DEF GoBack, Goto
<1>3. MarksBelow(c.marks, scanned - Len(tokens) + n)
  <2>1. /\ scanned - Len(tokens) + c.n \in Nat /\ scanned - Len(tokens) + n \in Nat
        /\ scanned - Len(tokens) + c.n <= scanned - Len(tokens) + n
    BY <1>1, ScannedFacts DEF ParserInv
  <2> QED  BY <1>1, <2>1, MarksWeaken
<1> QED  BY <1>1, <1>2, <1>3, PoppedPlaced DEF AtNode

\* The end of a collection: its mark goes, and the state below it is the next one.
LEMMA CloseInv ==
  ASSUME ParserInv, NEW c, InCollection(c), NEW types, Is(c.n + 1, types), types \cap WithStrings = {},
         NEW type \in {"SEQUENCE-END", "MAPPING-END"}, Close(type, c)
  PROVE  ParserInv'
<1> DEFINE d == [c EXCEPT !.marks = Front(@)]
<1>1. /\ c \in Calls /\ c.n \in Nat /\ c.n + 1 <= Len(tokens) /\ Len(tokens) \in Nat
      /\ MarksBelow(c.marks, scanned - Len(tokens) + c.n) /\ Counted(c.states) \in Nat
      /\ Len(c.marks) = Counted(c.states) + 1 /\ c.marks \in Seq(Nat) /\ c.marks # <<>>
  <2>1. /\ c \in Calls /\ c.n \in Nat /\ c.n + 1 <= Len(tokens) /\ c.states \in Seq(ReturnStates)
        /\ MarksBelow(c.marks, scanned - Len(tokens) + c.n) /\ c.marks \in Seq(Nat)
        /\ Len(c.marks) = Counted(c.states) + 1
    BY DEF InCollection, Underway, Calls, Is
  <2>2. Counted(c.states) \in Nat
    BY <2>1, CountType
  <2>3. c.marks # <<>>
    BY <2>1, <2>2, EmptySeq
  <2> QED  BY <2>1, <2>2, <2>3, ScannedFacts DEF ParserInv
<1>2. d = [n |-> c.n, states |-> c.states, marks |-> Front(c.marks)]
  BY <1>1, CallUpdates
<1>3. /\ MarksBelow(Front(c.marks), scanned - Len(tokens) + c.n)
      /\ Len(Front(c.marks)) = Counted(c.states)
  <2>1. scanned - Len(tokens) + c.n \in Nat
    BY <1>1, ScannedFacts DEF ParserInv
  <2> QED  BY <1>1, <2>1, MarksPop
<1>4. AtNode(d) /\ d.n = c.n
  BY <1>1, <1>2, <1>3 DEF AtNode, InCollection, Underway, Calls, MarksBelow
<1>5. Emit(type, None, c.n + 1, {}, {}, {}) /\ GoBack(d)
  BY DEF Close
<1> HIDE DEF d
<1>6. /\ Placed(state', states', marks', scanned - Len(tokens) + (c.n + 1))
      /\ state' \notin FirstStates
  BY <1>1, <1>4, <1>5, GoBackPlaced
<1>7. Settled(c.n + 1, {}, {}, {})
  <2>1. Strings(c.n) = {} /\ tokens[c.n + 1].type \notin WithStrings
    BY DEF InCollection, Underway, Is
  <2> QED  BY <1>1, <2>1, StringsUpTo, StringsOfToken DEF Settled
<1>8. Cardinality({}) \in EventDeletes(type)
  BY FS_EmptySet DEF EventDeletes
<1>9. c.n + 1 \in 0..Len(tokens)
  BY <1>1
<1> QED  BY <1>5, <1>6, <1>7, <1>8, <1>9, EmitInv

\* The empty scalar in the place of a node.
LEMMA EmptyScalarInv ==
  ASSUME ParserInv, NEW c, NEW n \in 0..Len(tokens), Strings(n) = {}, NEW next, next \notin FirstStates,
         Placed(next, c.states, c.marks, scanned - Len(tokens) + n),
         EmptyScalar(c, n, next)
  PROVE  ParserInv'
<1>1. CASE Emit("SCALAR", None, n, {<<0, 1>>}, {}, {<<0, 1>>}) /\ Goto(next, c)
  <2>1. Settled(n, {<<0, 1>>}, {}, {<<0, 1>>})
    BY DEF Settled
  <2>2. Cardinality({<<0, 1>>}) \in EventDeletes("SCALAR")
    <3>1. Cardinality({<<0, 1>>}) = 1
      BY FS_Singleton
    <3>2. EventDeletes("SCALAR") = 1..3
      BY DEF EventDeletes
    <3> QED  BY <3>1, <3>2
  <2>3. Placed(state', states', marks', scanned - Len(tokens) + n) /\ state' \notin FirstStates
    BY <1>1 DEF Goto
  <2> QED  BY <1>1, <2>1, <2>2, <2>3, EmitInv
<1>2. CASE Fail("memory", n, {}, {})
  <2>1. Settled(n, {}, {}, {})
    BY DEF Settled
  <2> QED  BY <1>2, <2>1, FailInv DEF Outcomes
<1> QED  BY <1>1, <1>2 DEF EmptyScalar

LEMMA RefuseInv ==
  ASSUME ParserInv, NEW c, Underway(c), Refuse(c)
  PROVE  ParserInv'
<1>1. c.n \in 0..Len(tokens) /\ Settled(c.n, {}, {}, {})
  BY ScannedFacts DEF Underway, Calls, Settled, ParserInv
<1> QED  BY <1>1, FailInv DEF Refuse, Outcomes

-----------------------------------------------------------------------------
(***************************************************************************)
(* yaml_parser_parse_node: anchor and tag, and who gets their strings.     *)
(***************************************************************************)
\* What each event of a node has to hand over beside its properties.
LEMMA SmallSets ==
  ASSUME NEW A, NEW B, NEW C, A = {} \/ \E x : A = {x}, B = {} \/ \E x : B = {x}, \E x : C = {x},
         (A \cup B) \cap C = {}
  PROVE  Cardinality(A \cup B) \in 0..2 /\ Cardinality((A \cup B) \cup C) \in 1..3
<1>1. IsFiniteSet(A) /\ Cardinality(A) \in 0..1
  <2>1. CASE A = {}
    BY <2>1, FS_EmptySet
  <2>2. CASE A # {}
    <3>1. PICK x : A = {x}
      BY <2>2
    <3>2. IsFiniteSet({x}) /\ Cardinality({x}) = 1
      BY FS_Singleton
    <3> QED  BY <3>1, <3>2
  <2> QED  BY <2>1, <2>2
<1>2. IsFiniteSet(A \cup B) /\ Cardinality(A \cup B) \in 0..2
  <2>1. CASE B = {}
    <3>1. A \cup B = A
      BY <2>1
    <3> QED  BY <1>1, <3>1
  <2>2. CASE B # {}
    <3>1. PICK x : B = {x}
      BY <2>2
    <3> QED  BY <1>1, <3>1, FS_AddElement
  <2> QED  BY <2>1, <2>2
<1>3. PICK x : C = {x}
  OBVIOUS
<1>4. x \notin A \cup B
  BY <1>3
<1> QED  BY <1>2, <1>3, <1>4, FS_AddElement

LEMMA PropertyFacts ==
  ASSUME Scanned, NEW n \in 0..Len(tokens)
  PROVE  /\ Properties(n) \in 0..2 /\ n + Properties(n) \in 0..Len(tokens)
         /\ \A k \in (n + 1)..(n + Properties(n)) :
              k \in 1..Len(tokens) /\ tokens[k].type \in PropertyTypes
         /\ \A k, j \in (n + 1)..(n + Properties(n)) : tokens[k].type = tokens[j].type => k = j
<1>1. Len(tokens) \in Nat /\ n \in Nat
  BY ScannedFacts
<1>2. CASE Properties(n) = 0
  BY <1>1, <1>2
<1>3. CASE Properties(n) = 1
  <2>1. n + 1 <= Len(tokens) /\ tokens[n + 1].type \in PropertyTypes
    BY <1>3 DEF Properties, Is
  <2> QED  BY <1>1, <1>3, <2>1
<1>4. CASE Properties(n) = 2
  <2>1. /\ n + 2 <= Len(tokens) /\ tokens[n + 1].type \in PropertyTypes /\ tokens[n + 2].type \in PropertyTypes
        /\ tokens[n + 2].type # tokens[n + 1].type
    BY <1>4 DEF Properties, Is
  <2>2. \A k \in (n + 1)..(n + 2) : k = n + 1 \/ k = n + 2
    BY <1>1
  <2>3. n + 1 \in 1..Len(tokens) /\ n + 2 \in 1..Len(tokens)
    BY <1>1, <2>1
  <2> QED  BY <1>1, <1>4, <2>1, <2>2, <2>3
<1>5. Properties(n) \in 0..2
  BY DEF Properties
<1> QED  BY <1>2, <1>3, <1>4, <1>5

\* Place finds the property of its type.
LEMMA PlaceFacts ==
  ASSUME Scanned, NEW n \in 0..Len(tokens), NEW type
  PROVE  \/ /\ Place(n, type) = 0
            /\ \A k \in (n + 1)..(n + Properties(n)) : tokens[k].type # type
         \/ /\ Place(n, type) \in (n + 1)..(n + Properties(n))
            /\ tokens[Place(n, type)].type = type
            /\ Place(n, type) # 0
            /\ \A k \in (n + 1)..(n + Properties(n)) : tokens[k].type = type => k = Place(n, type)
<1>1. CASE \E k \in (n + 1)..(n + Properties(n)) : tokens[k].type = type
  <2>1. /\ Place(n, type) \in (n + 1)..(n + Properties(n))
        /\ tokens[Place(n, type)].type = type
    BY <1>1 DEF Place
  <2>2. Place(n, type) # 0
    BY <2>1, PropertyFacts
  <2> QED  BY <2>1, <2>2, PropertyFacts
<1>2. CASE ~ \E k \in (n + 1)..(n + Properties(n)) : tokens[k].type = type
  BY <1>2 DEF Place
<1> QED  BY <1>1, <1>2

\* The strings of the properties are those of the anchor and those of the tag.
LEMMA PropertyStrings ==
  ASSUME Scanned, NEW n \in 0..Len(tokens)
  PROVE  /\ UNION {StringsOf(k) : k \in (n + 1)..(n + Properties(n))}
              = AnchorString(n) \cup (IF Place(n, "TAG") = 0 THEN {} ELSE StringsOf(Place(n, "TAG")))
         /\ Strings(n + Properties(n))
              = Strings(n) \cup UNION {StringsOf(k) : k \in (n + 1)..(n + Properties(n))}
<1> DEFINE P == (n + 1)..(n + Properties(n))
           A == Place(n, "ANCHOR")
           T == Place(n, "TAG")
<1>1. \A k \in P : tokens[k].type = "ANCHOR" \/ tokens[k].type = "TAG"
  BY PropertyFacts DEF PropertyTypes
<1>2. \/ A = 0 /\ \A k \in P : tokens[k].type # "ANCHOR"
      \/ A \in P /\ A # 0 /\ tokens[A].type = "ANCHOR" /\ \A k \in P : tokens[k].type = "ANCHOR" => k = A
  BY PlaceFacts
<1>3. \/ T = 0 /\ \A k \in P : tokens[k].type # "TAG"
      \/ T \in P /\ T # 0 /\ tokens[T].type = "TAG" /\ \A k \in P : tokens[k].type = "TAG" => k = T
  BY PlaceFacts
<1>4. A # 0 => AnchorString(n) = StringsOf(A)
  BY <1>2, StringsOfToken DEF AnchorString
<1>5. A = 0 => AnchorString(n) = {}
  BY DEF AnchorString
<1>6. UNION {StringsOf(k) : k \in P} = AnchorString(n) \cup (IF T = 0 THEN {} ELSE StringsOf(T))
  <2> HIDE DEF P, A, T
  <2>1. ASSUME NEW k \in P PROVE (k = A /\ A # 0) \/ (k = T /\ T # 0)
    BY <1>1, <1>2, <1>3
  <2>2. ASSUME A # 0 PROVE A \in P
    BY <1>2, <2>2
  <2>3. ASSUME T # 0 PROVE T \in P
    BY <1>3, <2>3
  <2>4. \A x : (\E k \in P : x \in StringsOf(k)) <=>
                (A # 0 /\ x \in StringsOf(A)) \/ (T # 0 /\ x \in StringsOf(T))
    BY <2>1, <2>2, <2>3
  <2> QED  BY <1>4, <1>5, <2>4
<1>7. Strings(n + Properties(n)) = Strings(n) \cup UNION {StringsOf(k) : k \in P}
  <2>1. \A k : k \in 1..(n + Properties(n)) <=> k \in 1..n \/ k \in P
    <3>1. n \in Nat /\ Properties(n) \in Nat
      BY PropertyFacts, ScannedFacts
    <3> QED  BY <3>1
  <2> QED  BY <2>1 DEF Strings
<1> QED  BY <1>6, <1>7

\* The strings of the properties and of the tag that was joined: the event gets what Resolved
\* names, the rest is freed.
LEMMA ResolvedFacts ==
  ASSUME Scanned, NEW n \in 0..Len(tokens), Strings(n) = {}
  PROVE  /\ ResolvedMade(n) \cup Strings(n + Properties(n)) = ResolvedFreed(n) \cup Resolved(n)
         /\ ResolvedFreed(n) \cap Resolved(n) = {}
         /\ AnchorString(n) = {} \/ \E x : AnchorString(n) = {x}
         /\ TagString(n) = {} \/ \E x : TagString(n) = {x}
         /\ \A x \in ResolvedFreed(n) \cup Resolved(n) :
              /\ x # <<0, 1>>
              /\ \A k \in 1..Len(tokens) : k > n + Properties(n) => x # <<Number(k), 1>>
<1> DEFINE P == (n + 1)..(n + Properties(n))
           A == Place(n, "ANCHOR")
           T == Place(n, "TAG")
<1>1. Strings(n + Properties(n)) = AnchorString(n) \cup (IF T = 0 THEN {} ELSE StringsOf(T))
  BY PropertyStrings
<1>2. /\ A = 0 \/ (A \in P /\ A \in 1..Len(tokens) /\ tokens[A].type = "ANCHOR")
      /\ T = 0 \/ (T \in P /\ T \in 1..Len(tokens) /\ tokens[T].type = "TAG")
  BY PlaceFacts, PropertyFacts
<1>3. A # 0 /\ T # 0 => Number(A) # Number(T)
  BY <1>2, ScannedFacts
<1>4. /\ A # 0 => Number(A) \in Nat \ {0}
      /\ T # 0 => Number(T) \in Nat \ {0}
      /\ \A k \in 1..Len(tokens) : k > n + Properties(n) =>
           (A # 0 => Number(k) # Number(A)) /\ (T # 0 => Number(k) # Number(T)) /\ Number(k) # 0
  <2>1. /\ A # 0 => Number(A) \in Nat \ {0}
        /\ T # 0 => Number(T) \in Nat \ {0}
    BY <1>2, ScannedFacts
  <2>2. ASSUME NEW k \in 1..Len(tokens), k > n + Properties(n)
        PROVE  k \notin P
    BY <2>2, PropertyFacts, ScannedFacts
  <2>3. ASSUME NEW k \in 1..Len(tokens), k > n + Properties(n)
        PROVE  (A # 0 => Number(k) # Number(A)) /\ (T # 0 => Number(k) # Number(T)) /\ Number(k) # 0
    <3> HIDE DEF P, A, T
    <3> QED  BY <1>2, <2>2, <2>3, ScannedFacts
  <2> HIDE DEF A, T
  <2> QED  BY <2>1, <2>3
<1>5. T # 0 => StringsOf(T) = {<<Number(T), 1>>, <<Number(T), 2>>}
  BY <1>2, StringsOfToken
<1>6. /\ A # 0 => AnchorString(n) = {<<Number(A), 1>>}
      /\ A = 0 => AnchorString(n) = {}
  BY DEF AnchorString
<1>7. \/ /\ T = 0 /\ TagString(n) = {} /\ ResolvedMade(n) = {} /\ ResolvedFreed(n) = {}
      \/ /\ T # 0 /\ TagString(n) = {<<0, 2>>} /\ ResolvedMade(n) = {<<0, 2>>}
         /\ ResolvedFreed(n) = {<<Number(T), 1>>, <<Number(T), 2>>}
      \/ /\ T # 0 /\ TagString(n) = {<<Number(T), 2>>} /\ ResolvedMade(n) = {}
         /\ ResolvedFreed(n) = {<<Number(T), 1>>}
  <2>1. T # 0 \/ ~TagJoined(n)
    BY DEF TagJoined
  <2> QED  BY <1>5, <2>1 DEF TagString, ResolvedMade, ResolvedFreed
<1> HIDE DEF A, T
<1>8. Resolved(n) = AnchorString(n) \cup TagString(n)
  BY DEF Resolved
<1>9. ResolvedMade(n) \cup Strings(n + Properties(n)) = ResolvedFreed(n) \cup Resolved(n)
  BY <1>1, <1>5, <1>7, <1>8
<1>10. ResolvedFreed(n) \cap Resolved(n) = {}
  <2>1. CASE A = 0
    BY <1>4, <1>6, <1>7, <1>8, <2>1
  <2>2. CASE A # 0
    BY <1>3, <1>4, <1>6, <1>7, <1>8, <2>2
  <2> QED  BY <2>1, <2>2
<1>11. ASSUME NEW x \in ResolvedFreed(n) \cup Resolved(n)
       PROVE  /\ x # <<0, 1>>
              /\ \A k \in 1..Len(tokens) : k > n + Properties(n) => x # <<Number(k), 1>>
  <2>1. \/ x = <<0, 2>>
        \/ A # 0 /\ x = <<Number(A), 1>>
        \/ T # 0 /\ (x = <<Number(T), 1>> \/ x = <<Number(T), 2>>)
    BY <1>6, <1>7, <1>8, <1>11
  <2> QED  BY <1>4, <2>1
<1> QED  BY <1>6, <1>7, <1>9, <1>10, <1>11

\* The event of a node, with the string of its value where it has one.
LEMMA NodeEventInv ==
  ASSUME ParserInv, NEW c, AtNode(c), NEW type, NEW value, NEW taken \in 0..Len(tokens),
         NodeEvent(type, c.n, taken, value),
         \/ value = {} /\ taken = c.n + Properties(c.n) /\ type \in {"SEQUENCE-START", "MAPPING-START"}
         \/ value = {<<0, 1>>} /\ taken = c.n + Properties(c.n) /\ type = "SCALAR"
         \/ value = {<<Number(taken), 1>>} /\ taken = c.n + Properties(c.n) + 1 /\ type = "SCALAR"
            /\ tokens[taken].type = "SCALAR",
         Placed(state', states', marks', scanned - Len(tokens) + taken),
         state' \in FirstStates => taken < Len(tokens) /\ tokens[taken + 1].type = Opener[state']
  PROVE  ParserInv'
<1> DEFINE n == c.n
           p == n + Properties(n)
           made == ResolvedMade(n) \cup (value \cap {<<0, 1>>})
           given == Resolved(n) \cup value
<1>1. n \in 0..Len(tokens) /\ Strings(n) = {} /\ Scanned /\ p \in 0..Len(tokens) /\ Len(tokens) \in Nat
  BY PropertyFacts, ScannedFacts DEF AtNode, Underway, Calls, ParserInv
<1>2. Emit(type, AnchorOf(n), taken, made, ResolvedFreed(n), given)
  BY DEF NodeEvent
<1> HIDE DEF n
<1>3. /\ ResolvedMade(n) \cup Strings(p) = ResolvedFreed(n) \cup Resolved(n)
      /\ ResolvedFreed(n) \cap Resolved(n) = {}
      /\ AnchorString(n) = {} \/ \E x : AnchorString(n) = {x}
      /\ TagString(n) = {} \/ \E x : TagString(n) = {x}
      /\ \A x \in ResolvedFreed(n) \cup Resolved(n) :
           x # <<0, 1>> /\ \A k \in 1..Len(tokens) : k > p => x # <<Number(k), 1>>
  BY <1>1, ResolvedFacts
<1>4. Resolved(n) = AnchorString(n) \cup TagString(n)
  BY DEF Resolved
<1>5. /\ Strings(taken) = Strings(p) \cup (value \ {<<0, 1>>})
      /\ (ResolvedFreed(n) \cup Resolved(n)) \cap value = {}
  <2>1. CASE value = {}
    BY <2>1 DEF n
  <2>2. CASE value = {<<0, 1>>}
    <3>1. Strings(taken) = Strings(p)
      <4>1. taken \in 1..Len(tokens) => Number(taken) # 0
        BY <1>1, ScannedFacts
      <4>2. ASSUME value = {<<Number(taken), 1>>}, taken = p + 1 PROVE FALSE
        <5>1. taken \in 1..Len(tokens)
          BY <1>1, <4>2
        <5>2. <<Number(taken), 1>> \in {<<0, 1>>}
          BY <2>2, <4>2
        <5> QED  BY <4>1, <5>1, <5>2
      <4> QED  BY <4>2, <2>2 DEF n
    <3> QED  BY <1>3, <2>2, <3>1
  <2>3. CASE value = {<<Number(taken), 1>>} /\ taken = p + 1 /\ tokens[taken].type = "SCALAR"
    <3>1. taken \in 1..Len(tokens) /\ Number(taken) # 0
      BY <1>1, <2>3, ScannedFacts
    <3>2. Strings(taken) = Strings(p) \cup {<<Number(taken), 1>>}
      BY <1>1, <2>3, StringsUpTo, StringsOfToken
    <3>3. taken > p
      BY <1>1, <2>3
    <3> QED  BY <1>3, <2>3, <3>1, <3>2, <3>3
  <2> QED  BY <2>1, <2>2, <2>3 DEF n
<1>6. Settled(taken, made, ResolvedFreed(n), given)
  BY <1>3, <1>5 DEF Settled
<1>7. Cardinality(given) \in EventDeletes(type)
  <2>1. CASE value = {}
    <3>1. Cardinality(given) \in 0..2
      <4>1. given = AnchorString(n) \cup TagString(n)
        BY <1>4, <2>1
      <4>2. (AnchorString(n) \cup TagString(n)) \cap {<<0, 1>>} = {}
        BY <1>3, <1>4
      <4> HIDE DEF given
      <4> QED  BY <1>3, <4>1, <4>2, SmallSets
    <3>2. type \in {"SEQUENCE-START", "MAPPING-START"}
      BY <2>1
    <3>3. EventDeletes(type) = 0..2
      BY <3>2 DEF EventDeletes
    <3> QED  BY <3>1, <3>3
  <2>2. CASE value # {}
    <3>1. \E x : value = {x}
      BY <2>2
    <3>2. (AnchorString(n) \cup TagString(n)) \cap value = {}
      BY <1>4, <1>5
    <3>3. given = (AnchorString(n) \cup TagString(n)) \cup value
      BY <1>4
    <3>4. type = "SCALAR"
      BY <2>2
    <3>5. EventDeletes(type) = 1..3
      BY <3>4 DEF EventDeletes
    <3> HIDE DEF given
    <3> QED  BY <1>3, <3>1, <3>2, <3>3, <3>5, SmallSets
  <2> QED  BY <2>1, <2>2
<1> HIDE DEF made, given
<1> QED  BY <1>2, <1>6, <1>7, EmitInv

LEMMA ContentFacts ==
  ASSUME ParserInv, NEW c, AtNode(c)
  PROVE  /\ Len(tokens) \in Nat /\ c.n \in 0..Len(tokens) /\ Properties(c.n) \in 0..2
         /\ c.n + Properties(c.n) \in 0..Len(tokens)
         /\ Content(c) = c.n + Properties(c.n) + 1
<1>1. Len(tokens) \in Nat /\ c.n \in 0..Len(tokens) /\ Scanned
  BY ScannedFacts DEF AtNode, Underway, Calls, ParserInv
<1>2. Properties(c.n) \in 0..2 /\ c.n + Properties(c.n) \in 0..Len(tokens)
  <2> DEFINE n == c.n
  <2>1. n \in 0..Len(tokens)
    BY <1>1
  <2> HIDE DEF n
  <2>2. Properties(n) \in 0..2 /\ n + Properties(n) \in 0..Len(tokens)
    BY <1>1, <2>1, PropertyFacts
  <2> QED  BY <2>2 DEF n
<1> QED  BY <1>1, <1>2 DEF Content

LEMMA NodeErrorInv ==
  ASSUME ParserInv, NEW c, AtNode(c), NEW kind \in {"parser", "memory"}, NEW resolved \in BOOLEAN,
         NodeError(kind, c, resolved)
  PROVE  ParserInv'
<1> DEFINE n == c.n
           p == n + Properties(n)
           made == IF resolved THEN ResolvedMade(n) ELSE {}
           freed == IF resolved THEN ResolvedFreed(n) \cup Resolved(n)
                    ELSE UNION {StringsOf(k) : k \in (n + 1)..p}
<1>1. n \in 0..Len(tokens) /\ Strings(n) = {} /\ Scanned /\ p \in 0..Len(tokens)
  BY PropertyFacts, ScannedFacts DEF AtNode, Underway, Calls, ParserInv
<1>2. Fail(kind, p, made, freed)
  BY DEF NodeError
<1> HIDE DEF n
<1>3. Settled(p, made, freed, {})
  <2>1. Strings(p) = UNION {StringsOf(k) : k \in (n + 1)..p}
    BY <1>1, PropertyStrings
  <2>2. ResolvedMade(n) \cup Strings(p) = ResolvedFreed(n) \cup Resolved(n)
    BY <1>1, ResolvedFacts
  <2> QED  BY <2>1, <2>2 DEF Settled
<1> HIDE DEF made, freed
<1> QED  BY <1>1, <1>2, <1>3, FailInv DEF Outcomes

LEMMA AliasInv ==
  ASSUME ParserInv, NEW c, AtNode(c), Alias(c)
  PROVE  ParserInv'
<1> DEFINE k == c.n + 1
<1>1. c.n \in Nat /\ k \in 0..Len(tokens) /\ tokens[k].type = "ALIAS" /\ Strings(c.n) = {}
  BY ScannedFacts DEF AtNode, Underway, Calls, Alias, Is, ParserInv
<1>2. Emit("ALIAS", tokens[k].val, k, {}, {}, StringsOf(k)) /\ GoBack(c)
  BY DEF Alias
<1>3. StringsOf(k) = {<<Number(k), 1>>} /\ Strings(k) = StringsOf(k)
  BY <1>1, StringsOfToken, StringsUpTo
<1>4. Settled(k, {}, {}, StringsOf(k))
  BY <1>3 DEF Settled
<1>5. Cardinality(StringsOf(k)) \in EventDeletes("ALIAS")
  <2>1. Cardinality({<<Number(k), 1>>}) = 1
    BY FS_Singleton
  <2>2. EventDeletes("ALIAS") = {1}
    BY DEF EventDeletes
  <2> QED  BY <1>3, <2>1, <2>2
<1>6. k \in Nat /\ c.n <= k
  BY <1>1
<1> HIDE DEF k
<1>7. Placed(state', states', marks', scanned - Len(tokens) + k) /\ state' \notin FirstStates
  BY <1>2, <1>6, GoBackPlaced
<1> QED  BY <1>1, <1>2, <1>4, <1>5, <1>7, EmitInv

LEMMA ScalarNodeInv ==
  ASSUME ParserInv, NEW c, AtNode(c), ScalarNode(c)
  PROVE  ParserInv'
<1> DEFINE k == Content(c)
<1>1. /\ c.n \in Nat /\ k \in 1..Len(tokens) /\ tokens[k].type = "SCALAR"
      /\ k = c.n + Properties(c.n) + 1 /\ c.n <= k
  BY ContentFacts DEF ScalarNode, Is
<1>2. NodeEvent("SCALAR", c.n, k, {<<Number(k), 1>>}) /\ GoBack(c)
  BY <1>1, StringsOfToken DEF ScalarNode
<1> HIDE DEF k
<1>3. k \in Nat /\ k \in 0..Len(tokens)
  BY <1>1, ScannedFacts DEF ParserInv
<1>4. Placed(state', states', marks', scanned - Len(tokens) + k) /\ state' \notin FirstStates
  BY <1>1, <1>2, <1>3, GoBackPlaced
<1> QED  BY <1>1, <1>2, <1>3, <1>4, NodeEventInv

\* The opening token stays, for the call for the first entry.
LEMMA CollectionInv ==
  ASSUME ParserInv, NEW c, AtNode(c), NEW type \in {"SEQUENCE-START", "MAPPING-START"},
         NEW token, NEW kind \in DOMAIN FirstState, Collection(c, token, type, kind),
         FirstState[kind] \in FirstStates => token = Opener[FirstState[kind]]
  PROVE  ParserInv'
<1> DEFINE k == Content(c) - 1
           next == FirstState[kind]
<1>1. /\ c.n \in Nat /\ k \in Nat /\ c.n <= k /\ k < Len(tokens) /\ Len(tokens) \in Nat
      /\ tokens[k + 1].type = token /\ k = c.n + Properties(c.n)
  BY ContentFacts DEF Collection, Is
<1>2. NodeEvent(type, c.n, k, {}) /\ Goto(next, c)
  BY DEF Collection
<1>3. next \in FirstStates \cup {"INDENTLESS_SEQUENCE_ENTRY"}
  BY DEF FirstState, FirstStates
<1> HIDE DEF k, next
<1>4. state' = next /\ states' = c.states /\ marks' = c.marks
  BY <1>2 DEF Goto
<1>5. Placed(next, c.states, c.marks, scanned - Len(tokens) + k)
  BY <1>1, <1>3, GoOnPlaced
<1>6. state' \in FirstStates => k < Len(tokens) /\ tokens[k + 1].type = Opener[state']
  BY <1>1, <1>4 DEF next
<1>7. k \in 0..Len(tokens)
  BY <1>1
<1> QED  BY <1>1, <1>2, <1>4, <1>5, <1>6, <1>7, NodeEventInv

LEMMA BarePropertiesInv ==
  ASSUME ParserInv, NEW c, AtNode(c), NEW block, NEW indentless, BareProperties(c, block, indentless)
  PROVE  ParserInv'
<1> DEFINE k == Content(c) - 1
<1>1. c.n \in Nat /\ k \in Nat /\ c.n <= k /\ k \in 0..Len(tokens) /\ k = c.n + Properties(c.n)
  BY ContentFacts
<1>2. CASE NodeEvent("SCALAR", c.n, k, {<<0, 1>>}) /\ GoBack(c)
  <2> HIDE DEF k
  <2>1. Placed(state', states', marks', scanned - Len(tokens) + k) /\ state' \notin FirstStates
    BY <1>1, <1>2, GoBackPlaced
  <2> QED  BY <1>1, <1>2, <2>1, NodeEventInv
<1>3. CASE NodeError("memory", c, TRUE)
  BY <1>3, NodeErrorInv
<1> QED  BY <1>2, <1>3 DEF BareProperties

\* yaml_parser_parse_node keeps the invariant wherever a node may stand.
LEMMA NodeInv ==
  ASSUME ParserInv, NEW c, AtNode(c), NEW block \in BOOLEAN, NEW indentless \in BOOLEAN,
         Node(c, block, indentless)
  PROVE  ParserInv'
<1>1. CASE Alias(c)
  BY <1>1, AliasInv
<1>2. CASE NodeError("parser", c, FALSE) \/ NodeError("memory", c, FALSE) \/ NodeError("parser", c, TRUE)
  BY <1>2, NodeErrorInv
<1>3. CASE ScalarNode(c)
  BY <1>3, ScalarNodeInv
<1>4. CASE Collection(c, "FLOW-SEQUENCE-START", "SEQUENCE-START", "FLOW_SEQUENCE")
  BY <1>4, CollectionInv DEF FirstState, Opener
<1>5. CASE Collection(c, "FLOW-MAPPING-START", "MAPPING-START", "FLOW_MAPPING")
  BY <1>5, CollectionInv DEF FirstState, Opener
<1>6. CASE Collection(c, "BLOCK-SEQUENCE-START", "SEQUENCE-START", "BLOCK_SEQUENCE")
  BY <1>6, CollectionInv DEF FirstState, Opener
<1>7. CASE Collection(c, "BLOCK-MAPPING-START", "MAPPING-START", "BLOCK_MAPPING")
  BY <1>7, CollectionInv DEF FirstState, Opener
<1>8. CASE Collection(c, "BLOCK-ENTRY", "SEQUENCE-START", "INDENTLESS")
  BY <1>8, CollectionInv DEF FirstState, FirstStates
<1>9. CASE BareProperties(c, block, indentless)
  BY <1>9, BarePropertiesInv
<1> QED  BY <1>1, <1>2, <1>3, <1>4, <1>5, <1>6, <1>7, <1>8, <1>9 DEF Node

-----------------------------------------------------------------------------
(***************************************************************************)
(* The calls inside of collections.                                        *)
(***************************************************************************)
LEMMA NodeOrEmptyInv ==
  ASSUME ParserInv, NEW c, NEW stops, NEW back \in ReturnStates \ {"DOCUMENT_END"},
         \/ InCollection(c) /\ back \in Marked
         \/ AtNode(c) /\ back = "INDENTLESS_SEQUENCE_ENTRY",
         NEW block \in BOOLEAN, NEW indentless \in BOOLEAN,
         NodeOrEmpty(c, stops, back, block, indentless)
  PROVE  ParserInv'
<1>1. CASE Node(Push(c, back), block, indentless)
  <2>1. AtNode(Push(c, back))
    BY PushAtNode DEF Marked
  <2> QED  BY <1>1, <2>1, NodeInv
<1>2. CASE EmptyScalar(c, c.n, back)
  <2>1. Underway(c) /\ back \notin FirstStates
    BY DEF AtNode, InCollection, ReturnStates, FirstStates, Marked
  <2>2. c.n \in Nat /\ c.n \in 0..Len(tokens) /\ c.n <= c.n /\ Strings(c.n) = {}
    BY <2>1, ScannedFacts DEF Underway, Calls, ParserInv
  <2>3. Placed(back, c.states, c.marks, scanned - Len(tokens) + c.n)
    BY <2>2, GoOnPlaced
  <2> QED  BY <1>2, <2>1, <2>2, <2>3, EmptyScalarInv
<1> QED  BY <1>1, <1>2 DEF NodeOrEmpty

\* A call that stands at its second token.
LEMMA HereAfter ==
  ASSUME ParserInv, state \in InDocument \ {"DOCUMENT_END"}, NEW types, Is(1, types), types \cap WithStrings = {}
  PROVE  /\ Here(1) = After(Here(0))
         /\ state \in Marked => InCollection(Here(1))
         /\ state \notin Marked => AtNode(Here(1))
<1>1. Here(0).n = 0 /\ 0 + 1 = 1 /\ Here(1) = After(Here(0))
  BY DEF Here, After
<1> QED  BY <1>1, HereUnderway, AfterUnderway

LEMMA EntryAtInCollection ==
  ASSUME ParserInv, NEW c, InCollection(c), NEW first
  PROVE  InCollection(EntryAt(c, first))
<1>1. {"FLOW-ENTRY"} \cap WithStrings = {}
  BY DEF WithStrings
<1> QED  BY <1>1, AfterUnderway DEF EntryAt, InCollection

LEMMA BlockSequenceInv ==
  ASSUME ParserInv, Running, ParseBlockSequenceEntry
  PROVE  ParserInv'
<1> DEFINE c == Entered(state = "BLOCK_SEQUENCE_FIRST_ENTRY")
<1>1. InCollection(c)
  <2>1. {"BLOCK_SEQUENCE_ENTRY"} \subseteq Marked /\ "BLOCK_SEQUENCE_FIRST_ENTRY" \in FirstStates
        /\ state \in {"BLOCK_SEQUENCE_ENTRY"} \cup {"BLOCK_SEQUENCE_FIRST_ENTRY"}
    BY DEF ParseBlockSequenceEntry, Marked, FirstStates
  <2> QED  BY <2>1, EnteredOrHere
<1>2. \/ /\ Is(c.n + 1, {"BLOCK-ENTRY"})
         /\ NodeOrEmpty(After(c), {"BLOCK-ENTRY", "BLOCK-END"}, "BLOCK_SEQUENCE_ENTRY", TRUE, FALSE)
      \/ Is(c.n + 1, {"BLOCK-END"}) /\ Close("SEQUENCE-END", c)
      \/ Refuse(c)
  BY DEF ParseBlockSequenceEntry
<1>3. {"BLOCK-ENTRY"} \cap WithStrings = {} /\ {"BLOCK-END"} \cap WithStrings = {}
      /\ "BLOCK_SEQUENCE_ENTRY" \in Marked /\ "BLOCK_SEQUENCE_ENTRY" \in ReturnStates \ {"DOCUMENT_END"}
  BY DEF WithStrings, Marked, ReturnStates
<1>4. Underway(c)
  BY <1>1 DEF InCollection
<1> HIDE DEF c
<1>5. Is(c.n + 1, {"BLOCK-ENTRY"}) => InCollection(After(c))
  BY <1>1, <1>3, <1>4, AfterUnderway
<1> QED  BY <1>1, <1>2, <1>3, <1>4, <1>5, NodeOrEmptyInv, CloseInv, RefuseInv

LEMMA IndentlessSequenceInv ==
  ASSUME ParserInv, Running, ParseIndentlessSequenceEntry
  PROVE  ParserInv'
<1>1. state \in InDocument \ {"DOCUMENT_END"} /\ state \notin Marked
  BY DEF ParseIndentlessSequenceEntry, InDocument, ReturnStates, Marked
<1>2. CASE /\ Is(1, {"BLOCK-ENTRY"})
           /\ NodeOrEmpty(Here(1), {"BLOCK-ENTRY", "KEY", "VALUE", "BLOCK-END"},
                          "INDENTLESS_SEQUENCE_ENTRY", TRUE, FALSE)
  <2>1. {"BLOCK-ENTRY"} \cap WithStrings = {} /\ "INDENTLESS_SEQUENCE_ENTRY" \in ReturnStates \ {"DOCUMENT_END"}
    BY DEF WithStrings, ReturnStates
  <2>2. AtNode(Here(1))
    BY <1>1, <1>2, <2>1, HereAfter
  <2> QED  BY <1>2, <2>1, <2>2, NodeOrEmptyInv
<1>3. CASE Emit("SEQUENCE-END", None, 0, {}, {}, {}) /\ GoBack(Here(0))
  <2>1. AtNode(Here(0)) /\ 0 \in Nat /\ Here(0).n <= 0 /\ 0 \in 0..Len(tokens)
    BY <1>1, HereUnderway, ScannedFacts DEF Here, ParserInv
  <2>2. Placed(state', states', marks', scanned - Len(tokens) + 0) /\ state' \notin FirstStates
    BY <1>3, <2>1, GoBackPlaced
  <2>3. Settled(0, {}, {}, {}) /\ Cardinality({}) \in EventDeletes("SEQUENCE-END")
    BY StringsUpTo, FS_EmptySet DEF Settled, EventDeletes
  <2> QED  BY <1>3, <2>1, <2>2, <2>3, EmitInv
<1> QED  BY <1>2, <1>3 DEF ParseIndentlessSequenceEntry

LEMMA BlockMappingKeyInv ==
  ASSUME ParserInv, Running, ParseBlockMappingKey
  PROVE  ParserInv'
<1> DEFINE c == Entered(state = "BLOCK_MAPPING_FIRST_KEY")
<1>1. InCollection(c)
  <2>1. {"BLOCK_MAPPING_KEY"} \subseteq Marked /\ "BLOCK_MAPPING_FIRST_KEY" \in FirstStates
        /\ state \in {"BLOCK_MAPPING_KEY"} \cup {"BLOCK_MAPPING_FIRST_KEY"}
    BY DEF ParseBlockMappingKey, Marked, FirstStates
  <2> QED  BY <2>1, EnteredOrHere
<1>2. \/ Is(c.n + 1, {"KEY"}) /\ NodeOrEmpty(After(c), PairStops, "BLOCK_MAPPING_VALUE", TRUE, TRUE)
      \/ Is(c.n + 1, {"BLOCK-END"}) /\ Close("MAPPING-END", c)
      \/ Refuse(c)
  BY DEF ParseBlockMappingKey
<1>3. {"KEY"} \cap WithStrings = {} /\ {"BLOCK-END"} \cap WithStrings = {}
      /\ "BLOCK_MAPPING_VALUE" \in Marked /\ "BLOCK_MAPPING_VALUE" \in ReturnStates \ {"DOCUMENT_END"}
  BY DEF WithStrings, Marked, ReturnStates
<1>4. Underway(c)
  BY <1>1 DEF InCollection
<1> HIDE DEF c
<1>5. Is(c.n + 1, {"KEY"}) => InCollection(After(c))
  BY <1>1, <1>3, <1>4, AfterUnderway
<1> QED  BY <1>1, <1>2, <1>3, <1>4, <1>5, NodeOrEmptyInv, CloseInv, RefuseInv

\* Nothing stands in the place of a node, and no token is taken for it.
LEMMA EmptyHereInv ==
  ASSUME ParserInv, state \in Marked, NEW next \in Marked, EmptyScalar(Here(0), 0, next)
  PROVE  ParserInv'
<1>1. state \in InDocument \ {"DOCUMENT_END"} /\ next \notin FirstStates
  BY DEF InDocument, Marked, FirstStates
<1>2. InCollection(Here(0)) /\ Here(0).n <= 0 /\ 0 \in Nat /\ 0 \in 0..Len(tokens)
  BY <1>1, HereUnderway, ScannedFacts DEF Here, ParserInv
<1>3. Placed(next, Here(0).states, Here(0).marks, scanned - Len(tokens) + 0)
  BY <1>2, GoOnPlaced
<1> QED  BY <1>1, <1>2, <1>3, StringsUpTo, EmptyScalarInv

\* A value, behind its indicator or missing.
LEMMA ValueInv ==
  ASSUME ParserInv, state \in Marked, NEW stops, NEW next \in Marked \cap ReturnStates,
         NEW block \in BOOLEAN, NEW indentless \in BOOLEAN,
         \/ Is(1, {"VALUE"}) /\ NodeOrEmpty(Here(1), stops, next, block, indentless)
         \/ EmptyScalar(Here(0), 0, next)
  PROVE  ParserInv'
<1>1. CASE Is(1, {"VALUE"}) /\ NodeOrEmpty(Here(1), stops, next, block, indentless)
  <2>1. {"VALUE"} \cap WithStrings = {} /\ state \in InDocument \ {"DOCUMENT_END"}
        /\ next \in ReturnStates \ {"DOCUMENT_END"}
    BY DEF WithStrings, InDocument, Marked
  <2>2. InCollection(Here(1))
    BY <1>1, <2>1, HereAfter
  <2> QED  BY <1>1, <2>1, <2>2, NodeOrEmptyInv
<1>2. CASE EmptyScalar(Here(0), 0, next)
  BY <1>2, EmptyHereInv
<1> QED  BY <1>1, <1>2

LEMMA ValuesInv ==
  ASSUME ParserInv, Running,
         ParseBlockMappingValue \/ ParseFlowSequenceEntryMappingValue \/ ParseFlowMappingValue
  PROVE  ParserInv'
<1>1. CASE ParseBlockMappingValue
  <2>1. state \in Marked /\ "BLOCK_MAPPING_KEY" \in Marked \cap ReturnStates
    BY <1>1 DEF ParseBlockMappingValue, Marked, ReturnStates
  <2> QED  BY <1>1, <2>1, ValueInv DEF ParseBlockMappingValue
<1>2. CASE ParseFlowSequenceEntryMappingValue
  <2>1. state \in Marked /\ "FLOW_SEQUENCE_ENTRY_MAPPING_END" \in Marked \cap ReturnStates
    BY <1>2 DEF ParseFlowSequenceEntryMappingValue, Marked, ReturnStates
  <2> QED  BY <1>2, <2>1, ValueInv DEF ParseFlowSequenceEntryMappingValue
<1>3. CASE ParseFlowMappingValue
  <2>1. state \in Marked /\ "FLOW_MAPPING_KEY" \in Marked \cap ReturnStates
    BY <1>3 DEF ParseFlowMappingValue, Marked, ReturnStates
  <2> QED  BY <1>3, <2>1, ValueInv, EmptyHereInv DEF ParseFlowMappingValue
<1> QED  BY <1>1, <1>2, <1>3

LEMMA FlowSequenceInv ==
  ASSUME ParserInv, Running, ParseFlowSequenceEntry
  PROVE  ParserInv'
<1> DEFINE first == state = "FLOW_SEQUENCE_FIRST_ENTRY"
           c == Entered(first)
           e == EntryAt(c, first)
<1>1. InCollection(c)
  <2>1. {"FLOW_SEQUENCE_ENTRY"} \subseteq Marked /\ "FLOW_SEQUENCE_FIRST_ENTRY" \in FirstStates
        /\ state \in {"FLOW_SEQUENCE_ENTRY"} \cup {"FLOW_SEQUENCE_FIRST_ENTRY"}
    BY DEF ParseFlowSequenceEntry, Marked, FirstStates
  <2> QED  BY <2>1, EnteredOrHere
<1>2. InCollection(e)
  BY <1>1, EntryAtInCollection
<1>3. \/ Refuse(c)
      \/ /\ Is(e.n + 1, {"KEY"})
         /\ Emit("MAPPING-START", None, e.n + 1, {}, {}, {})
         /\ Goto("FLOW_SEQUENCE_ENTRY_MAPPING_KEY", e)
      \/ Node(Push(e, "FLOW_SEQUENCE_ENTRY"), FALSE, FALSE)
      \/ Is(e.n + 1, {"FLOW-SEQUENCE-END"}) /\ Close("SEQUENCE-END", e)
  BY DEF ParseFlowSequenceEntry
<1>4. Underway(c) /\ Underway(e)
  BY <1>1, <1>2 DEF InCollection
<1> HIDE DEF c, e
<1>5. CASE Refuse(c)
  BY <1>4, <1>5, RefuseInv
<1>6. CASE /\ Is(e.n + 1, {"KEY"})
           /\ Emit("MAPPING-START", None, e.n + 1, {}, {}, {})
           /\ Goto("FLOW_SEQUENCE_ENTRY_MAPPING_KEY", e)
  <2>1. /\ e.n \in Nat /\ e.n + 1 \in 0..Len(tokens) /\ Strings(e.n) = {}
        /\ tokens[e.n + 1].type \notin WithStrings /\ e.n <= e.n + 1 /\ e.n + 1 \in Nat
    <3>1. e.n \in Nat /\ Strings(e.n) = {}
      BY <1>4 DEF Underway, Calls
    <3>2. e.n + 1 <= Len(tokens) /\ tokens[e.n + 1].type = "KEY"
      BY <1>6 DEF Is
    <3>3. Len(tokens) \in Nat
      BY ScannedFacts DEF ParserInv
    <3>4. "KEY" \notin WithStrings
      BY DEF WithStrings
    <3> QED  BY <3>1, <3>2, <3>3, <3>4
  <2>2. Settled(e.n + 1, {}, {}, {})
    BY <2>1, StringsUpTo, StringsOfToken DEF Settled
  <2>3. Cardinality({}) \in EventDeletes("MAPPING-START")
    BY FS_EmptySet DEF EventDeletes
  <2>4. "FLOW_SEQUENCE_ENTRY_MAPPING_KEY" \in Marked /\ "FLOW_SEQUENCE_ENTRY_MAPPING_KEY" \notin FirstStates
    BY DEF Marked, FirstStates
  <2>5. Placed("FLOW_SEQUENCE_ENTRY_MAPPING_KEY", e.states, e.marks, scanned - Len(tokens) + (e.n + 1))
    BY <1>2, <2>1, <2>4, GoOnPlaced
  <2>6. Placed(state', states', marks', scanned - Len(tokens) + (e.n + 1)) /\ state' \notin FirstStates
    BY <1>6, <2>4, <2>5 DEF Goto
  <2> QED  BY <1>6, <2>1, <2>2, <2>3, <2>6, EmitInv
<1>7. CASE Node(Push(e, "FLOW_SEQUENCE_ENTRY"), FALSE, FALSE)
  <2>1. "FLOW_SEQUENCE_ENTRY" \in Marked /\ "FLOW_SEQUENCE_ENTRY" \in ReturnStates \ {"DOCUMENT_END"}
    BY DEF Marked, ReturnStates
  <2>2. AtNode(Push(e, "FLOW_SEQUENCE_ENTRY"))
    BY <1>2, <2>1, PushAtNode
  <2> QED  BY <1>7, <2>2, NodeInv
<1>8. CASE Is(e.n + 1, {"FLOW-SEQUENCE-END"}) /\ Close("SEQUENCE-END", e)
  <2>1. {"FLOW-SEQUENCE-END"} \cap WithStrings = {}
    BY DEF WithStrings
  <2> QED  BY <1>2, <1>8, <2>1, CloseInv
<1> QED  BY <1>3, <1>5, <1>6, <1>7, <1>8

LEMMA FlowMappingKeyInv ==
  ASSUME ParserInv, Running, ParseFlowMappingKey
  PROVE  ParserInv'
<1> DEFINE first == state = "FLOW_MAPPING_FIRST_KEY"
           c == Entered(first)
           e == EntryAt(c, first)
           stops == {"VALUE", "FLOW-ENTRY", "FLOW-MAPPING-END"}
<1>1. InCollection(c)
  <2>1. {"FLOW_MAPPING_KEY"} \subseteq Marked /\ "FLOW_MAPPING_FIRST_KEY" \in FirstStates
        /\ state \in {"FLOW_MAPPING_KEY"} \cup {"FLOW_MAPPING_FIRST_KEY"}
    BY DEF ParseFlowMappingKey, Marked, FirstStates
  <2> QED  BY <2>1, EnteredOrHere
<1>2. InCollection(e)
  BY <1>1, EntryAtInCollection
<1>3. \/ Refuse(c)
      \/ /\ Is(e.n + 1, {"KEY"})
         /\ NodeOrEmpty(After(e), stops, "FLOW_MAPPING_VALUE", FALSE, FALSE)
      \/ Node(Push(e, "FLOW_MAPPING_EMPTY_VALUE"), FALSE, FALSE)
      \/ Is(e.n + 1, {"FLOW-MAPPING-END"}) /\ Close("MAPPING-END", e)
  BY DEF ParseFlowMappingKey
<1>4. Underway(c) /\ Underway(e)
  BY <1>1, <1>2 DEF InCollection
<1> HIDE DEF c, e, stops
<1>5. {"KEY"} \cap WithStrings = {} /\ {"FLOW-MAPPING-END"} \cap WithStrings = {}
      /\ {"FLOW_MAPPING_VALUE", "FLOW_MAPPING_EMPTY_VALUE"} \subseteq Marked
      /\ {"FLOW_MAPPING_VALUE", "FLOW_MAPPING_EMPTY_VALUE"} \subseteq ReturnStates \ {"DOCUMENT_END"}
  BY DEF WithStrings, Marked, ReturnStates
<1>6. CASE Refuse(c)
  BY <1>4, <1>6, RefuseInv
<1>7. CASE Is(e.n + 1, {"KEY"}) /\ NodeOrEmpty(After(e), stops, "FLOW_MAPPING_VALUE", FALSE, FALSE)
  <2>1. InCollection(After(e))
    BY <1>2, <1>4, <1>5, <1>7, AfterUnderway
  <2> QED  BY <1>5, <1>7, <2>1, NodeOrEmptyInv
<1>8. CASE Node(Push(e, "FLOW_MAPPING_EMPTY_VALUE"), FALSE, FALSE)
  <2>1. AtNode(Push(e, "FLOW_MAPPING_EMPTY_VALUE"))
    BY <1>2, <1>5, PushAtNode
  <2> QED  BY <1>8, <2>1, NodeInv
<1>9. CASE Is(e.n + 1, {"FLOW-MAPPING-END"}) /\ Close("MAPPING-END", e)
  BY <1>2, <1>5, <1>9, CloseInv
<1> QED  BY <1>3, <1>6, <1>7, <1>8, <1>9

\* A pair in a flow sequence.
LEMMA FlowPairInv ==
  ASSUME ParserInv, Running, ParseFlowSequenceEntryMappingKey \/ ParseFlowSequenceEntryMappingEnd
  PROVE  ParserInv'
<1>1. state \in Marked /\ state \in InDocument \ {"DOCUMENT_END"}
  BY DEF ParseFlowSequenceEntryMappingKey, ParseFlowSequenceEntryMappingEnd, Marked, InDocument
<1>2. InCollection(Here(0)) /\ Here(0).n = 0
  BY <1>1, HereUnderway DEF Here
<1>3. CASE Node(Push(Here(0), "FLOW_SEQUENCE_ENTRY_MAPPING_VALUE"), FALSE, FALSE)
  <2>1. /\ "FLOW_SEQUENCE_ENTRY_MAPPING_VALUE" \in Marked
        /\ "FLOW_SEQUENCE_ENTRY_MAPPING_VALUE" \in ReturnStates \ {"DOCUMENT_END"}
    BY DEF Marked, ReturnStates
  <2>2. AtNode(Push(Here(0), "FLOW_SEQUENCE_ENTRY_MAPPING_VALUE"))
    BY <1>2, <2>1, PushAtNode
  <2> QED  BY <1>3, <2>2, NodeInv
<1>4. CASE /\ Is(1, {"VALUE", "FLOW-ENTRY", "FLOW-SEQUENCE-END"})
           /\ EmptyScalar(Here(0), 1, "FLOW_SEQUENCE_ENTRY_MAPPING_VALUE")
  <2>1. 1 \in 0..Len(tokens) /\ tokens[1].type \notin WithStrings /\ 0 + 1 = 1 /\ 0 \in Nat /\ 1 \in Nat
    BY <1>4, ScannedFacts DEF Is, WithStrings, ParserInv
  <2>2. Strings(1) = {}
    BY <2>1, StringsUpTo, StringsOfToken
  <2>3. /\ "FLOW_SEQUENCE_ENTRY_MAPPING_VALUE" \in Marked
        /\ "FLOW_SEQUENCE_ENTRY_MAPPING_VALUE" \notin FirstStates
    BY DEF Marked, FirstStates
  <2>4. Placed("FLOW_SEQUENCE_ENTRY_MAPPING_VALUE", Here(0).states, Here(0).marks, scanned - Len(tokens) + 1)
    <3>1. Here(0).n <= 1
      BY <1>2
    <3> QED  BY <1>2, <2>1, <2>3, <3>1, GoOnPlaced
  <2> QED  BY <1>4, <2>1, <2>2, <2>3, <2>4, EmptyScalarInv
<1>5. CASE Emit("MAPPING-END", None, 0, {}, {}, {}) /\ Goto("FLOW_SEQUENCE_ENTRY", Here(0))
  <2>1. 0 \in Nat /\ 0 \in 0..Len(tokens) /\ Here(0).n <= 0
    BY <1>2, ScannedFacts DEF ParserInv
  <2>2. "FLOW_SEQUENCE_ENTRY" \in Marked /\ "FLOW_SEQUENCE_ENTRY" \notin FirstStates
    BY DEF Marked, FirstStates
  <2>3. Placed("FLOW_SEQUENCE_ENTRY", Here(0).states, Here(0).marks, scanned - Len(tokens) + 0)
    BY <1>2, <2>1, <2>2, GoOnPlaced
  <2>4. Placed(state', states', marks', scanned - Len(tokens) + 0) /\ state' \notin FirstStates
    BY <1>5, <2>2, <2>3 DEF Goto
  <2>5. Settled(0, {}, {}, {}) /\ Cardinality({}) \in EventDeletes("MAPPING-END")
    BY StringsUpTo, FS_EmptySet DEF Settled, EventDeletes
  <2> QED  BY <1>5, <2>1, <2>4, <2>5, EmitInv
<1> QED  BY <1>3, <1>4, <1>5 DEF ParseFlowSequenceEntryMappingKey, ParseFlowSequenceEntryMappingEnd

-----------------------------------------------------------------------------
(***************************************************************************)
(* The documents.                                                          *)
(***************************************************************************)

LEMMA RunFacts ==
  ASSUME Scanned, NEW k \in Nat \ {0}, NEW types
  PROVE  /\ Run(k, types) \in 0..Len(tokens)
         /\ \A i \in k..(k + Run(k, types) - 1) : Is(i, types)
         /\ ~Is(k + Run(k, types), types)
         /\ Run(k, types) = 0 \/ k + Run(k, types) - 1 <= Len(tokens)
<1> DEFINE T == {n \in 0..Len(tokens) : ~Is(k + n, types)}
           Q(n) == /\ \A i \in k..(k + n - 1) : Is(i, types)
                   /\ ~Is(k + n, types)
<1>1. Len(tokens) \in Nat
  BY ScannedFacts
<1>2. Len(tokens) \in T /\ T \in SUBSET Nat
  BY <1>1 DEF Is
<1>3. PICK m \in T : \A n \in T : m <= n
  BY <1>2, LeastNatural
<1>4. m \in 0..Len(tokens) /\ Q(m)
  <2>1. ASSUME NEW i \in k..(k + m - 1)
        PROVE  Is(i, types)
    <3>1. i - k \in 0..Len(tokens) /\ i - k < m /\ k + (i - k) = i
      BY <1>1, <1>3
    <3>2. i - k \notin T
      BY <1>3, <3>1
    <3> QED  BY <3>1, <3>2
  <2> QED  BY <1>3, <2>1
<1>5. Run(k, types) = CHOOSE n \in 0..Len(tokens) : Q(n)
  BY DEF Run
<1> HIDE DEF Q
<1>6. Run(k, types) \in 0..Len(tokens) /\ Q(Run(k, types))
  BY <1>4, <1>5
<1>7. Run(k, types) = 0 \/ Is(k + Run(k, types) - 1, types)
  BY <1>1, <1>6 DEF Q
<1> QED  BY <1>1, <1>6, <1>7 DEF Q, Is

LEMMA NoStrings ==
  ASSUME NEW n, \A k \in 1..n : tokens[k].type \notin WithStrings
  PROVE  Strings(n) = {}
BY StringsOfToken DEF Strings

\* The tokens of the end of a document have no strings.
LEMMA EndsFacts ==
  ASSUME ParserInv
  PROVE  /\ Ends \in 0..Len(tokens) /\ Len(tokens) \in Nat
         /\ \A k \in 1..Ends : tokens[k].type = "DOCUMENT-END"
<1>1. Len(tokens) \in Nat
  BY ScannedFacts DEF ParserInv
<1>2. CASE Implicit
  BY <1>1, <1>2 DEF Ends
<1>3. CASE ~Implicit
  <2>1. Ends = Run(1, {"DOCUMENT-END"})
    BY <1>3 DEF Ends
  <2> QED  BY <1>1, <2>1, RunFacts DEF ParserInv, Is
<1> QED  BY <1>1, <1>2, <1>3

LEMMA BetweenDocuments ==
  ASSUME ParserInv, state \in OutsideDocument \cup {"DOCUMENT_END"}
  PROVE  /\ states = <<>> /\ marks \in Seq(Nat) /\ Len(marks) = 0
         /\ scanned - Len(tokens) \in Nat
<1>1. state \notin Marked
  BY DEF OutsideDocument, Marked
<1>2. states = <<>> /\ MarksBelow(marks, scanned - Len(tokens))
      /\ Len(marks) = Counted(states) + (IF state \in Marked THEN 1 ELSE 0)
  BY DEF ParserInv, Placed
<1> QED  BY <1>1, <1>2, CountEmpty, ScannedFacts DEF MarksBelow, ParserInv

\* A call between two documents, or for the end of one, goes on outside.
LEMMA OutsidePlaced ==
  ASSUME ParserInv, state \in OutsideDocument \cup {"DOCUMENT_END"},
         NEW next \in OutsideDocument, NEW limit
  PROVE  Placed(next, states, marks, limit) /\ next \notin FirstStates
<1>1. next \notin Marked /\ next \notin InDocument /\ next \notin FirstStates
  BY DEF OutsideDocument, InDocument, Marked, ReturnStates, FirstStates
<1>2. states = <<>> /\ marks \in Seq(Nat) /\ Len(marks) = 0
  BY BetweenDocuments
<1>3. MarksBelow(marks, limit)
  BY <1>2 DEF MarksBelow
<1>4. states \in Seq(ReturnStates)
  BY <1>2, EmptySeq
<1> QED  BY <1>1, <1>2, <1>3, <1>4, CountEmpty DEF Placed

\* The start of a document pushes the state for its end.
LEMMA DocumentPlaced ==
  ASSUME ParserInv, InDocumentStart, NEW next \in {"BLOCK_NODE", "DOCUMENT_CONTENT"}, NEW limit
  PROVE  Placed(next, Append(states, "DOCUMENT_END"), marks, limit) /\ next \notin FirstStates
<1> DEFINE ss == Append(states, "DOCUMENT_END")
<1>1. next \notin Marked /\ next \in InDocument /\ next \notin FirstStates
      /\ next \notin OutsideDocument \cup {"DOCUMENT_END"}
      /\ "DOCUMENT_END" \in ReturnStates /\ "DOCUMENT_END" \notin Marked
  BY DEF OutsideDocument, InDocument, Marked, ReturnStates, FirstStates
<1>2. states = <<>> /\ marks \in Seq(Nat) /\ Len(marks) = 0
  BY BetweenDocuments DEF InDocumentStart, OutsideDocument
<1>3. MarksBelow(marks, limit)
  BY <1>2 DEF MarksBelow
<1>4. states \in Seq(ReturnStates) /\ Len(states) = 0
  BY <1>2, EmptySeq
<1>5. ss \in Seq(ReturnStates) /\ Len(ss) = 1 /\ ss[1] = "DOCUMENT_END"
  BY <1>1, <1>4, AppendProperties
<1>6. Counted(ss) = 0
  <2>1. Counted(states) = 0
    BY <1>2, CountEmpty
  <2>2. Counted(ss) = Counted(states) + (IF "DOCUMENT_END" \in Marked THEN 1 ELSE 0)
    BY <1>1, <1>4, CountPush
  <2> HIDE DEF ss
  <2> QED  BY <1>1, <2>1, <2>2
<1> HIDE DEF ss
<1>7. Bottomed(ss)
  <2>1. ss # <<>>
    BY <1>5, EmptySeq
  <2>2. \A i \in 1..Len(ss) : i = 1
    BY <1>5
  <2> QED  BY <1>5, <2>1, <2>2 DEF Bottomed
<1> QED  BY <1>1, <1>2, <1>3, <1>5, <1>6, <1>7 DEF Placed

LEMMA StreamStartInv ==
  ASSUME ParserInv, ParseStreamStart
  PROVE  ParserInv'
<1>1. state \in OutsideDocument /\ "IMPLICIT_DOCUMENT_START" \in OutsideDocument
  BY DEF ParseStreamStart, OutsideDocument
<1>2. CASE Is(1, {"STREAM-START"}) /\ Emit("STREAM-START", None, 1, {}, {}, {})
           /\ Goto("IMPLICIT_DOCUMENT_START", Here(1))
  <2>1. 1 \in 0..Len(tokens) /\ tokens[1].type = "STREAM-START"
    BY <1>2, ScannedFacts DEF Is, ParserInv
  <2>2. Strings(1) = {}
    BY <2>1, NoStrings DEF WithStrings
  <2>3. Settled(1, {}, {}, {}) /\ Cardinality({}) \in EventDeletes("STREAM-START")
    BY <2>2, FS_EmptySet DEF Settled, EventDeletes
  <2>4. state' = "IMPLICIT_DOCUMENT_START" /\ states' = states /\ marks' = marks
    BY <1>2 DEF Goto, Here
  <2>5. Placed(state', states', marks', scanned - Len(tokens) + 1) /\ state' \notin FirstStates
    BY <1>1, <2>4, OutsidePlaced
  <2> QED  BY <1>2, <2>1, <2>3, <2>5, EmitInv
<1>3. CASE Fail("parser", 0, {}, {})
  <2>1. Settled(0, {}, {}, {}) /\ 0 \in 0..Len(tokens) /\ "parser" \in Outcomes \ {"none"}
    BY StringsUpTo, ScannedFacts DEF Settled, Outcomes, ParserInv
  <2> QED  BY <1>3, <2>1, FailInv
<1> QED  BY <1>2, <1>3 DEF ParseStreamStart

LEMMA ImplicitDocumentInv ==
  ASSUME ParserInv, InDocumentStart, ImplicitDocument
  PROVE  ParserInv'
<1>1. 0 \in 0..Len(tokens) /\ Settled(0, {}, {}, {}) /\ "memory" \in Outcomes \ {"none"}
  BY StringsUpTo, ScannedFacts DEF Settled, Outcomes, ParserInv
<1>2. CASE /\ Emit("DOCUMENT-START", None, 0, {}, {}, {})
           /\ state' = "BLOCK_NODE" /\ states' = Append(states, "DOCUMENT_END") /\ UNCHANGED marks
  <2>1. Cardinality({}) \in EventDeletes("DOCUMENT-START")
    <3>1. 0 \in 0..MaxTokens /\ 2 * 0 = 0
      BY TokensAssumption
    <3>2. 0 \in {2 * i : i \in 0..MaxTokens}
      BY <3>1
    <3> QED  BY <3>2, FS_EmptySet DEF EventDeletes
  <2>2. Placed(state', states', marks', scanned - Len(tokens) + 0) /\ state' \notin FirstStates
    BY <1>2, DocumentPlaced
  <2> QED  BY <1>1, <1>2, <2>1, <2>2, EmitInv
<1>3. CASE Fail("memory", 0, {}, {})
  BY <1>1, <1>3, FailInv
<1> QED  BY <1>2, <1>3 DEF ImplicitDocument

\* The event of an explicit document gets two strings from each %TAG.
LEMMA DirectiveStrings ==
  ASSUME Scanned, NEW n \in 0..Len(tokens),
         \A k \in 1..n : tokens[k].type \in WithStrings => tokens[k].type = "TAG-DIRECTIVE"
  PROVE  Cardinality(Strings(n)) \in EventDeletes("DOCUMENT-START")
<1> DEFINE D == {Number(k) : k \in {i \in 1..n : tokens[i].type = "TAG-DIRECTIVE"}}
<1>1. Strings(n) = D \X {1, 2}
  <2>1. ASSUME NEW x \in Strings(n)
        PROVE  x \in D \X {1, 2}
    <3>1. PICK k \in 1..n : x \in StringsOf(k)
      BY DEF Strings
    <3>2. tokens[k].type = "TAG-DIRECTIVE"
      BY <3>1, StringsOfToken
    <3>3. Number(k) \in D
      BY <3>2
    <3>4. x \in {<<Number(k), 1>>, <<Number(k), 2>>}
      BY <3>1, StringsOfToken
    <3> HIDE DEF D
    <3> QED  BY <3>3, <3>4
  <2>2. ASSUME NEW x \in D \X {1, 2}
        PROVE  x \in Strings(n)
    <3>1. PICK a \in D, b \in {1, 2} : x = <<a, b>>
      OBVIOUS
    <3>2. PICK k \in 1..n : tokens[k].type = "TAG-DIRECTIVE" /\ a = Number(k)
      BY <3>1
    <3>3. x \in StringsOf(k)
      BY <3>1, <3>2, StringsOfToken
    <3> QED  BY <3>3 DEF Strings
  <2> QED  BY <2>1, <2>2
<1>2. D \subseteq 1..MaxTokens
  BY ScannedFacts DEF Scanned, Number
<1> HIDE DEF D
<1>3. IsFiniteSet(1..MaxTokens) /\ Cardinality(1..MaxTokens) = MaxTokens /\ MaxTokens \in Nat
  <2>1. MaxTokens \in Nat /\ 1 \in Int /\ MaxTokens \in Int
    BY TokensAssumption
  <2>2. IsFiniteSet(1..MaxTokens) /\ Cardinality(1..MaxTokens) = IF 1 > MaxTokens THEN 0 ELSE MaxTokens - 1 + 1
    BY <2>1, FS_Interval
  <2> QED  BY <2>1, <2>2
<1>4. IsFiniteSet(D) /\ Cardinality(D) \in 0..MaxTokens
  <2>1. IsFiniteSet(D) /\ Cardinality(D) <= MaxTokens
    BY <1>2, <1>3, FS_Subset
  <2> QED  BY <1>3, <2>1, FS_CardinalityType
<1>5. IsFiniteSet({1, 2}) /\ Cardinality({1, 2}) = 2
  <2>2. PICK b \in Int : b = 2
    OBVIOUS
  <2>3. IsFiniteSet(1..b) /\ Cardinality(1..b) = IF 1 > b THEN 0 ELSE b - 1 + 1
    BY FS_Interval
  <2>4. {1, 2} = 1..b /\ ~(1 > b) /\ b - 1 + 1 = 2
    BY <2>2
  <2> QED  BY <2>3, <2>4
<1>6. Cardinality(D \X {1, 2}) = Cardinality(D) * 2
  BY <1>4, <1>5, FS_Product
<1>7. Cardinality(D) * 2 = 2 * Cardinality(D)
  BY <1>4
<1> QED  BY <1>1, <1>4, <1>6, <1>7 DEF EventDeletes

LEMMA ExplicitDocumentInv ==
  ASSUME ParserInv, InDocumentStart, ExplicitDocument
  PROVE  ParserInv'
<1> DEFINE d == Run(Ends + 1, Directives)
           bad == {k \in (Ends + 1)..(Ends + d) : BadDirective(Ends, k)}
           last == Ends + d + 1
<1>1. /\ Ends \in 0..Len(tokens) /\ Len(tokens) \in Nat
      /\ \A k \in 1..Ends : tokens[k].type = "DOCUMENT-END"
  BY EndsFacts
<1>2. /\ d \in 0..Len(tokens) /\ Ends + d \in 0..Len(tokens)
      /\ \A k \in (Ends + 1)..(Ends + d) : tokens[k].type \in Directives
  <2>1. Ends + 1 \in Nat \ {0}
    BY <1>1
  <2>2. /\ d \in 0..Len(tokens)
        /\ \A i \in (Ends + 1)..(Ends + 1 + d - 1) : Is(i, Directives)
        /\ d = 0 \/ Ends + 1 + d - 1 <= Len(tokens)
    BY <2>1, RunFacts DEF ParserInv
  <2> HIDE DEF d
  <2> QED  BY <1>1, <2>2 DEF Is
<1>3. Scanned /\ "parser" \in Outcomes \ {"none"} /\ "memory" \in Outcomes \ {"none"}
  BY DEF ParserInv, Outcomes
<1>4. ASSUME NEW n \in 0..Len(tokens), NEW kind \in {"parser", "memory"}, Fail(kind, n, {}, Strings(n))
      PROVE  ParserInv'
  <2>1. Settled(n, {}, Strings(n), {})
    BY DEF Settled
  <2> QED  BY <1>3, <1>4, <2>1, FailInv
<1>5. \/ /\ bad # {}
         /\ LET k == CHOOSE k \in bad : \A j \in bad : k <= j IN Fail("parser", k - 1, {}, Strings(k - 1))
      \/ /\ Is(last, {"DOCUMENT-START"})
         /\ Emit("DOCUMENT-START", None, last, {}, {}, Strings(last))
         /\ state' = "DOCUMENT_CONTENT" /\ states' = Append(states, "DOCUMENT_END") /\ UNCHANGED marks
      \/ Fail("parser", last - 1, {}, Strings(last - 1))
      \/ Fail("memory", last - 1, {}, Strings(last - 1))
  BY DEF ExplicitDocument
<1>6. CASE /\ bad # {}
           /\ LET k == CHOOSE k \in bad : \A j \in bad : k <= j IN Fail("parser", k - 1, {}, Strings(k - 1))
  <2> DEFINE k == CHOOSE k \in bad : \A j \in bad : k <= j
  <2>1. bad \in SUBSET Nat /\ bad # {}
    BY <1>1, <1>2, <1>6
  <2>2. \E m \in bad : \A j \in bad : m <= j
    BY <2>1, LeastNatural
  <2>3. k \in bad
    BY <2>2
  <2>4. k - 1 \in 0..Len(tokens)
    BY <1>1, <1>2, <2>3
  <2>5. Fail("parser", k - 1, {}, Strings(k - 1))
    BY <1>6
  <2> HIDE DEF k
  <2> QED  BY <1>4, <2>4, <2>5
<1>7. last - 1 = Ends + d /\ last \in Nat
  BY <1>1, <1>2
<1>8. CASE /\ Is(last, {"DOCUMENT-START"})
           /\ Emit("DOCUMENT-START", None, last, {}, {}, Strings(last))
           /\ state' = "DOCUMENT_CONTENT" /\ states' = Append(states, "DOCUMENT_END") /\ UNCHANGED marks
  <2>1. last \in 0..Len(tokens) /\ tokens[last].type = "DOCUMENT-START"
    BY <1>1, <1>7, <1>8 DEF Is
  <2>2. ASSUME NEW k \in 1..last, tokens[k].type \in WithStrings
        PROVE  tokens[k].type = "TAG-DIRECTIVE"
    <3>1. k \in 1..Ends \/ k \in (Ends + 1)..(Ends + d) \/ k = last
      BY <1>1, <1>2
    <3>2. tokens[k].type \in {"DOCUMENT-END", "DOCUMENT-START"} \cup Directives
      BY <1>1, <1>2, <2>1, <3>1
    <3> QED  BY <2>2, <3>2 DEF WithStrings, Directives
  <2> HIDE DEF last
  <2>3. Cardinality(Strings(last)) \in EventDeletes("DOCUMENT-START")
    BY <1>3, <2>1, <2>2, DirectiveStrings
  <2>4. Settled(last, {}, {}, Strings(last))
    BY DEF Settled
  <2>5. Placed(state', states', marks', scanned - Len(tokens) + last) /\ state' \notin FirstStates
    BY <1>8, DocumentPlaced
  <2> QED  BY <1>8, <2>1, <2>3, <2>4, <2>5, EmitInv
<1>9. CASE Fail("parser", last - 1, {}, Strings(last - 1)) \/ Fail("memory", last - 1, {}, Strings(last - 1))
  <2>1. last - 1 \in 0..Len(tokens)
    BY <1>2, <1>7
  <2> HIDE DEF last
  <2> QED  BY <1>4, <1>9, <2>1
<1> HIDE DEF last, bad
<1> QED  BY <1>5, <1>6, <1>8, <1>9

LEMMA StreamEndInv ==
  ASSUME ParserInv, InDocumentStart, StreamEnd
  PROVE  ParserInv'
<1>1. /\ Ends \in 0..Len(tokens) /\ Len(tokens) \in Nat
      /\ \A k \in 1..Ends : tokens[k].type = "DOCUMENT-END"
  BY EndsFacts
<1>2. Ends + 1 \in 0..Len(tokens) /\ tokens[Ends + 1].type = "STREAM-END"
  BY <1>1 DEF StreamEnd, Is
<1>3. Strings(Ends + 1) = {}
  <2>1. ASSUME NEW k \in 1..(Ends + 1)
        PROVE  tokens[k].type \notin WithStrings
    <3>1. k \in 1..Ends \/ k = Ends + 1
      BY <1>1
    <3>2. tokens[k].type \in {"DOCUMENT-END", "STREAM-END"}
      BY <1>1, <1>2, <3>1
    <3> QED  BY <3>2 DEF WithStrings
  <2> QED  BY <2>1, NoStrings
<1>4. Settled(Ends + 1, {}, {}, {}) /\ Cardinality({}) \in EventDeletes("STREAM-END")
  BY <1>3, FS_EmptySet DEF Settled, EventDeletes
<1>5. /\ Emit("STREAM-END", None, Ends + 1, {}, {}, {})
      /\ state' = "END" /\ states' = states /\ marks' = marks
  BY DEF StreamEnd, Goto, Here
<1>6. Placed(state', states', marks', scanned - Len(tokens) + (Ends + 1)) /\ state' \notin FirstStates
  BY <1>5, OutsidePlaced DEF InDocumentStart, OutsideDocument
<1> QED  BY <1>2, <1>4, <1>5, <1>6, EmitInv

LEMMA DocumentContentInv ==
  ASSUME ParserInv, ParseDocumentContent \/ ParseRootNode
  PROVE  ParserInv'
<1>1. state \in InDocument \ {"DOCUMENT_END"} /\ state \notin Marked
  BY DEF ParseDocumentContent, ParseRootNode, InDocument, Marked
<1>2. AtNode(Here(0)) /\ Here(0) = [n |-> 0, states |-> states, marks |-> marks]
  BY <1>1, HereUnderway
<1>3. CASE Node(Here(0), TRUE, FALSE)
  BY <1>2, <1>3, NodeInv
<1>4. CASE EmptyScalar([Here(0) EXCEPT !.states = Front(@)], 0, Last(states))
  <2> DEFINE c == [n |-> 0, states |-> Front(states), marks |-> marks]
  <2>1. Here(0) \in Calls
    BY <1>2 DEF AtNode, Underway
  <2>2. [Here(0) EXCEPT !.states = Front(@)] = c
    BY <1>2, <2>1, CallUpdates
  <2>3. EmptyScalar(c, 0, Last(states))
    BY <1>4, <2>2
  <2>4. /\ states \in Seq(ReturnStates) /\ Bottomed(states) /\ Len(marks) = Counted(states)
        /\ MarksBelow(marks, scanned - Len(tokens)) /\ scanned - Len(tokens) + 0 = scanned - Len(tokens)
        /\ 0 \in 0..Len(tokens)
    BY <1>1, <1>2, ScannedFacts DEF AtNode, Underway, ParserInv, Placed
  <2>5. Placed(Last(states), c.states, c.marks, scanned - Len(tokens) + 0) /\ Last(states) \notin FirstStates
    BY <2>4, PoppedPlaced
  <2> HIDE DEF c
  <2> QED  BY <2>3, <2>4, <2>5, StringsUpTo, EmptyScalarInv
<1> QED  BY <1>3, <1>4 DEF ParseDocumentContent, ParseRootNode

LEMMA DocumentEndInv ==
  ASSUME ParserInv, ParseDocumentEnd
  PROVE  ParserInv'
<1> DEFINE n == IF Is(1, {"DOCUMENT-END"}) THEN 1 ELSE 0
<1>1. n \in 0..Len(tokens) /\ Strings(n) = {}
  <2>1. Len(tokens) \in Nat /\ Strings(0) = {}
    BY ScannedFacts, StringsUpTo DEF ParserInv
  <2>2. CASE Is(1, {"DOCUMENT-END"})
    <3>1. tokens[1].type = "DOCUMENT-END" /\ 1 <= Len(tokens)
      BY <2>2 DEF Is
    <3>2. Strings(1) = {}
      BY <3>1, NoStrings DEF WithStrings
    <3> QED  BY <2>1, <2>2, <3>1, <3>2
  <2> QED  BY <2>1, <2>2
<1>2. /\ Emit("DOCUMENT-END", None, n, {}, {}, {})
      /\ state' = "DOCUMENT_START" /\ states' = states /\ marks' = marks
      /\ state = "DOCUMENT_END"
  BY DEF ParseDocumentEnd
<1> HIDE DEF n
<1>3. Settled(n, {}, {}, {}) /\ Cardinality({}) \in EventDeletes("DOCUMENT-END")
  BY <1>1, FS_EmptySet DEF Settled, EventDeletes
<1>4. Placed(state', states', marks', scanned - Len(tokens) + n) /\ state' \notin FirstStates
  BY <1>2, OutsidePlaced DEF OutsideDocument
<1> QED  BY <1>1, <1>2, <1>3, <1>4, EmitInv

LEMMA ScannerFailsInv ==
  ASSUME ParserInv, ScannerFails
  PROVE  ParserInv'
<1>1. Len(tokens) \in 0..Len(tokens) /\ "scanner" \in Outcomes \ {"none"}
  BY ScannedFacts DEF ParserInv, Outcomes
<1>2. Settled(Len(tokens), {}, Strings(Len(tokens)), {})
  BY DEF Settled
<1> QED  BY <1>1, <1>2, FailInv DEF ScannerFails

-----------------------------------------------------------------------------
(***************************************************************************)
(* Every step, of the parser alone and of the parser under the composer.   *)
(***************************************************************************)

LEMMA ParseInv ==
  ASSUME ParserInv, Parse
  PROVE  ParserInv'
<1>1. Running
  BY DEF Parse
<1>2. CASE ParseDocumentStart
  BY <1>2, ImplicitDocumentInv, ExplicitDocumentInv, StreamEndInv DEF ParseDocumentStart
<1>3. CASE ParseStreamStart \/ ParseDocumentContent \/ ParseRootNode \/ ParseDocumentEnd
  BY <1>3, StreamStartInv, DocumentContentInv, DocumentEndInv
<1>4. CASE ParseBlockSequenceEntry \/ ParseIndentlessSequenceEntry \/ ParseBlockMappingKey
  BY <1>1, <1>4, BlockSequenceInv, IndentlessSequenceInv, BlockMappingKeyInv
<1>5. CASE ParseBlockMappingValue \/ ParseFlowSequenceEntryMappingValue \/ ParseFlowMappingValue
  BY <1>1, <1>5, ValuesInv
<1>6. CASE \/ ParseFlowSequenceEntry \/ ParseFlowMappingKey
           \/ ParseFlowSequenceEntryMappingKey \/ ParseFlowSequenceEntryMappingEnd
  BY <1>1, <1>6, FlowSequenceInv, FlowMappingKeyInv, FlowPairInv
<1>7. CASE ScannerFails
  BY <1>7, ScannerFailsInv
<1> QED  BY <1>2, <1>3, <1>4, <1>5, <1>6, <1>7 DEF Parse

LEMMA StepInv ==
  ASSUME ParserInv, [Next]_parserVars
  PROVE  ParserInv'
<1>1. CASE Scan
  BY <1>1, ScanInv
<1>2. CASE Parse
  BY <1>2, ParseInv
<1>3. CASE UNCHANGED parserVars
  BY <1>3 DEF parserVars, ParserInv, Scanned, Placed, Counted, Positions, Bottomed, MarksBelow,
              FirstTokenThere, StringsHeldOnce, Running, InDocument, OutsideDocument, Marked,
              ReturnStates, FirstStates, TokenSet, Token, EventDeletes
<1> QED  BY <1>1, <1>2, <1>3 DEF Next

LEMMA LoaderStepIsParserStep ==
  ASSUME [LoaderNext]_vars
  PROVE  [Next]_parserVars
<1>1. CASE LoaderScan
  BY <1>1 DEF LoaderScan, Next
<1>2. CASE Load
  BY <1>2 DEF Load, Next
<1>3. CASE UNCHANGED vars
  BY <1>3 DEF vars
<1> QED  BY <1>1, <1>2, <1>3 DEF LoaderNext

\* The parser with any caller, one that stops after the first document included, keeps its stacks as
\* every call expects them: POP meets no empty stack, the bottom state is that for the end of the
\* document, there is one mark for each open collection that has one, and the call for a first entry
\* finds the token it takes unseen (yaml_parser_state_machine and the calls it makes).
THEOREM ParserStacks == Spec => []StacksSound
<1>1. Spec => []ParserInv
  BY InitInv, StepInv, PTL DEF Spec
<1> QED  BY <1>1, SoundFromInv, PTL

\* The same under the composer, which is how yaml_parser_load calls the parser.
THEOREM StacksMatchState == LoaderSpec => []StacksSound
<1>1. LoaderInit => ParserInv
  BY InitInv DEF LoaderInit
<1>2. ParserInv /\ [LoaderNext]_vars => ParserInv'
  BY LoaderStepIsParserStep, StepInv
<1>3. LoaderSpec => []ParserInv
  BY <1>1, <1>2, PTL DEF LoaderSpec
<1> QED  BY <1>3, SoundFromInv, PTL

\* Whatever the tokens are and whatever call fails, by the scanner, by a refusal or for lack of memory,
\* each string of a token is freed once or given to one event, nothing is lost or freed twice, and an
\* event has as many strings as yaml_event_delete frees for its type (the error: labels of
\* yaml_parser_parse_node and yaml_parser_process_directives).
THEOREM StringsHaveOneOwner == LoaderSpec => []StringsHeldOnce
<1>1. LoaderInit => ParserInv
  BY InitInv DEF LoaderInit
<1>2. ParserInv /\ [LoaderNext]_vars => ParserInv'
  BY LoaderStepIsParserStep, StepInv
<1>3. ParserInv => StringsHeldOnce
  BY DEF ParserInv
<1> QED  BY <1>1, <1>2, <1>3, PTL DEF LoaderSpec


-----------------------------------------------------------------------------
(***************************************************************************)
(* FlattenSeq.  flatten is the recursive function inside of it: it exists  *)
(* because the least index where it does not is none, and two of them      *)
(* agree because the least index where they differ is none.                *)
(***************************************************************************)
Flattens(f, q, m) ==
  \A i \in 1..m : f[i] = IF i = 1 THEN q[i] ELSE f[i - 1] \o q[i]

LEMMA FlattenExists ==
  ASSUME NEW V, NEW q \in Seq(Seq(V))
  PROVE  \A m \in 0..Len(q) : \E f \in [1..m -> Seq(V)] : Flattens(f, q, m)
<1> DEFINE T == {m \in 0..Len(q) : ~ \E f \in [1..m -> Seq(V)] : Flattens(f, q, m)}
<1>1. Len(q) \in Nat /\ T \in SUBSET Nat /\ \A i \in 1..Len(q) : q[i] \in Seq(V)
  BY LenProperties, ElementOfSeq
<1>2. ASSUME T # {}
      PROVE  FALSE
  <2>1. PICK m \in T : \A n \in T : m <= n
    BY <1>1, <1>2, LeastNatural
  <2>2. m # 0
    <3>1. [i \in 1..0 |-> <<>>] \in [1..0 -> Seq(V)] /\ Flattens([i \in 1..0 |-> <<>>], q, 0)
      BY DEF Flattens
    <3> QED  BY <2>1, <3>1
  <2>3. m \in 1..Len(q) /\ m - 1 \in 0..Len(q) /\ m - 1 \notin T
    <3>1. m \in 0..Len(q)
      BY <2>1
    <3> HIDE DEF T
    <3> QED  BY <1>1, <2>1, <2>2, <3>1
  <2>4. PICK f \in [1..(m - 1) -> Seq(V)] : Flattens(f, q, m - 1)
    BY <2>3
  <2> DEFINE last == IF m = 1 THEN q[m] ELSE f[m - 1] \o q[m]
             g == [i \in 1..m |-> IF i < m THEN f[i] ELSE last]
  <2>5. last \in Seq(V)
    <3>1. CASE m = 1
      BY <1>1, <2>3, <3>1
    <3>2. CASE m # 1
      <4>1. f[m - 1] \in Seq(V) /\ q[m] \in Seq(V)
        BY <1>1, <2>3, <3>2
      <4> QED  BY <3>2, <4>1, ConcatProperties
    <3> QED  BY <3>1, <3>2
  <2> HIDE DEF last
  <2>6. g \in [1..m -> Seq(V)]
    BY <2>3, <2>5
  <2>7. Flattens(g, q, m)
    <3>1. ASSUME NEW i \in 1..m
          PROVE  g[i] = IF i = 1 THEN q[i] ELSE g[i - 1] \o q[i]
      <4>1. CASE i < m
        <5>1. i \in 1..(m - 1) /\ g[i] = f[i]
          BY <2>3, <4>1
        <5>2. i = 1 \/ (i - 1 \in 1..m /\ g[i - 1] = f[i - 1])
          BY <2>3, <4>1
        <5>3. f[i] = IF i = 1 THEN q[i] ELSE f[i - 1] \o q[i]
          BY <2>4, <5>1 DEF Flattens
        <5> QED  BY <5>1, <5>2, <5>3
      <4>2. CASE i = m
        BY <2>3, <4>2 DEF last
      <4> QED  BY <2>3, <4>1, <4>2
    <3> HIDE DEF g
    <3> QED  BY <3>1 DEF Flattens
  <2> QED  BY <2>1, <2>6, <2>7
<1> QED  BY <1>2

LEMMA FlattenUnique ==
  ASSUME NEW q, NEW f, NEW g, NEW m \in Nat, Flattens(f, q, m), Flattens(g, q, m)
  PROVE  \A i \in 1..m : f[i] = g[i]
<1> DEFINE T == {i \in 1..m : f[i] # g[i]}
<1>1. ASSUME T # {}
      PROVE  FALSE
  <2>1. PICK i \in T : \A n \in T : i <= n
    <3>1. T \in SUBSET Nat
      OBVIOUS
    <3> QED  BY <1>1, <3>1, LeastNatural
  <2>2. i = 1 \/ (i - 1 \in 1..m /\ f[i - 1] = g[i - 1])
    BY <2>1
  <2> QED  BY <2>1, <2>2 DEF Flattens
<1> QED  BY <1>1

LEMMA FlattenIs ==
  ASSUME NEW V, NEW q \in Seq(Seq(V)), Len(q) > 0
  PROVE  \E f \in [1..Len(q) -> Seq(V)] : Flattens(f, q, Len(q)) /\ FlattenSeq(q) = f[Len(q)]
<1> DEFINE n == Len(q)
           F == CHOOSE f : f = [i \in 1..n |-> IF i = 1 THEN q[i] ELSE f[i - 1] \o q[i]]
<1>1. n \in Nat
  BY LenProperties
<1>2. PICK f \in [1..n -> Seq(V)] : Flattens(f, q, n)
  BY <1>1, FlattenExists
<1>3. f = [i \in 1..n |-> IF i = 1 THEN q[i] ELSE f[i - 1] \o q[i]]
  BY <1>2 DEF Flattens
<1>4. F = [i \in 1..n |-> IF i = 1 THEN q[i] ELSE F[i - 1] \o q[i]]
  BY <1>3
<1>5. FlattenSeq(q) = F[n]
  BY DEF FlattenSeq
<1> HIDE DEF F
<1>6. Flattens(F, q, n)
  BY <1>4 DEF Flattens
<1>7. F[n] = f[n]
  BY <1>1, <1>2, <1>6, FlattenUnique
<1> QED  BY <1>2, <1>5, <1>7

LEMMA FlattenAppend ==
  ASSUME NEW V, NEW q \in Seq(Seq(V)), NEW x \in Seq(V)
  PROVE  /\ FlattenSeq(q) \in Seq(V)
         /\ FlattenSeq(Append(q, x)) = FlattenSeq(q) \o x
<1> DEFINE p == Append(q, x)
           n == Len(q)
<1>1. /\ n \in Nat /\ p \in Seq(Seq(V)) /\ Len(p) = n + 1 /\ p[n + 1] = x
      /\ \A i \in 1..n : p[i] = q[i]
  BY LenProperties, AppendProperties
<1> HIDE DEF p
<1>2. PICK g \in [1..(n + 1) -> Seq(V)] : Flattens(g, p, n + 1) /\ FlattenSeq(p) = g[n + 1]
  <2>1. Len(p) > 0
    BY <1>1
  <2> QED  BY <1>1, <2>1, FlattenIs
<1>3. CASE n = 0
  <2>1. q = <<>> /\ FlattenSeq(q) = <<>>
    BY <1>3, EmptySeq DEF FlattenSeq
  <2>2. FlattenSeq(p) = x
    BY <1>1, <1>2, <1>3 DEF Flattens
  <2>3. <<>> \o x = x /\ <<>> \in Seq(V)
    BY ConcatEmptySeq, EmptySeq
  <2> QED  BY <2>1, <2>2, <2>3 DEF p
<1>4. CASE n > 0
  <2>1. PICK f \in [1..n -> Seq(V)] : Flattens(f, q, n) /\ FlattenSeq(q) = f[n]
    BY <1>4, FlattenIs
  <2>2. Flattens(g, q, n)
    <3>1. \A i \in 1..n : i \in 1..(n + 1) /\ p[i] = q[i]
      BY <1>1
    <3> QED  BY <1>2, <3>1 DEF Flattens
  <2>3. n \in 1..n /\ n \in Nat /\ n + 1 \in 1..(n + 1) /\ n + 1 # 1 /\ (n + 1) - 1 = n
    BY <1>1, <1>4
  <2>4. g[n] = f[n] /\ f[n] \in Seq(V)
    <3>1. \A i \in 1..n : g[i] = f[i]
      <4>1. n \in Nat /\ Flattens(f, q, n) /\ Flattens(g, q, n)
        BY <2>1, <2>2, <2>3
      <4>2. \A h1, h2 : \A m \in Nat :
              Flattens(h1, q, m) /\ Flattens(h2, q, m) => \A i \in 1..m : h1[i] = h2[i]
        BY FlattenUnique
      <4> HIDE DEF n
      <4> QED  BY <4>1, <4>2
    <3> QED  BY <2>1, <2>3, <3>1
  <2>5. g[n + 1] = g[n] \o x
    BY <1>1, <1>2, <2>3 DEF Flattens
  <2> QED  BY <1>2, <2>1, <2>4, <2>5 DEF p
<1> QED  BY <1>1, <1>3, <1>4

-----------------------------------------------------------------------------
(***************************************************************************)
(* What the reader of the events has open: Levels belong to the states of  *)
(* the stack, OpenOf to a state and a stack.                               *)
(***************************************************************************)
Levels(ss) == FlattenSeq([i \in 1..Len(ss) |-> Frames[ss[i]]])
OpenOf(s, ss) == IF s \in {"BLOCK_NODE", "DOCUMENT_CONTENT"} THEN <<"root">> ELSE Levels(ss) \o Frames[s]
PhaseOf(s) ==
  CASE s = "STREAM_START" -> "before"
    [] s \in {"IMPLICIT_DOCUMENT_START", "DOCUMENT_START"} -> "between"
    [] s = "END" -> "after"
    [] OTHER -> "document"

Open == OpenOf(state, states)
Phase == PhaseOf(state)

Expected == {"root", "done", "item", "key", "value"}

LEMMA FramesTable ==
  /\ \A s \in {"BLOCK_SEQUENCE_FIRST_ENTRY", "BLOCK_SEQUENCE_ENTRY", "INDENTLESS_SEQUENCE_ENTRY",
               "FLOW_SEQUENCE_FIRST_ENTRY", "FLOW_SEQUENCE_ENTRY"} : Frames[s] = <<"item">>
  /\ \A s \in {"BLOCK_MAPPING_FIRST_KEY", "BLOCK_MAPPING_KEY",
               "FLOW_MAPPING_FIRST_KEY", "FLOW_MAPPING_KEY"} : Frames[s] = <<"key">>
  /\ \A s \in {"BLOCK_MAPPING_VALUE", "FLOW_MAPPING_VALUE", "FLOW_MAPPING_EMPTY_VALUE"} :
       Frames[s] = <<"value">>
  /\ \A s \in {"FLOW_SEQUENCE_ENTRY_MAPPING_KEY", "FLOW_SEQUENCE_ENTRY_MAPPING_END"} :
       Frames[s] = <<"item", "key">>
  /\ Frames["FLOW_SEQUENCE_ENTRY_MAPPING_VALUE"] = <<"item", "value">>
  /\ Frames["DOCUMENT_END"] = <<"done">>
  /\ \A s \in OutsideDocument : Frames[s] = <<>>
BY DEF Frames, OutsideDocument, InDocument, FirstStates, Marked, ReturnStates

LEMMA FramesType ==
  /\ \A s \in OutsideDocument \cup InDocument : Frames[s] \in Seq(Expected)
  /\ \A s \in InDocument \ {"BLOCK_NODE", "DOCUMENT_CONTENT"} : Frames[s] # <<>>
  /\ ReturnStates \subseteq InDocument \ {"BLOCK_NODE", "DOCUMENT_CONTENT"}
<1>1. ASSUME NEW s \in InDocument \ {"BLOCK_NODE", "DOCUMENT_CONTENT"}
      PROVE  Frames[s] \in Seq(Expected) /\ Frames[s] # <<>>
  <2>1. \/ s \in {"BLOCK_SEQUENCE_FIRST_ENTRY", "BLOCK_SEQUENCE_ENTRY", "INDENTLESS_SEQUENCE_ENTRY",
                  "FLOW_SEQUENCE_FIRST_ENTRY", "FLOW_SEQUENCE_ENTRY"}
        \/ s \in {"BLOCK_MAPPING_FIRST_KEY", "BLOCK_MAPPING_KEY",
                  "FLOW_MAPPING_FIRST_KEY", "FLOW_MAPPING_KEY"}
        \/ s \in {"BLOCK_MAPPING_VALUE", "FLOW_MAPPING_VALUE", "FLOW_MAPPING_EMPTY_VALUE"}
        \/ s \in {"FLOW_SEQUENCE_ENTRY_MAPPING_KEY", "FLOW_SEQUENCE_ENTRY_MAPPING_END"}
        \/ s = "FLOW_SEQUENCE_ENTRY_MAPPING_VALUE"
        \/ s = "DOCUMENT_END"
    BY DEF InDocument, FirstStates, Marked, ReturnStates
  <2>2. \/ \E x \in Expected : Frames[s] = <<x>>
        \/ \E x, y \in Expected : Frames[s] = <<x, y>>
    BY <2>1, FramesTable DEF Expected
  <2>3. \A x, y \in Expected : /\ <<x>> \in Seq(Expected) /\ <<x>> # <<>>
                             /\ <<x, y>> \in Seq(Expected) /\ <<x, y>> # <<>>
    OBVIOUS
  <2> QED  BY <2>2, <2>3
<1>2. \A s \in OutsideDocument \cup {"BLOCK_NODE", "DOCUMENT_CONTENT"} : Frames[s] = <<>>
  BY FramesTable DEF Frames, OutsideDocument, InDocument
<1>3. ReturnStates \subseteq InDocument \ {"BLOCK_NODE", "DOCUMENT_CONTENT"}
  BY DEF InDocument, Marked, ReturnStates
<1>4. ASSUME NEW s \in OutsideDocument \cup InDocument
      PROVE  Frames[s] \in Seq(Expected)
  <2>1. <<>> \in Seq(Expected)
    BY EmptySeq
  <2>2. CASE s \in OutsideDocument \cup {"BLOCK_NODE", "DOCUMENT_CONTENT"}
    BY <1>2, <2>1, <2>2
  <2>3. CASE s \in InDocument \ {"BLOCK_NODE", "DOCUMENT_CONTENT"}
    BY <1>1, <2>3
  <2> QED  BY <2>2, <2>3
<1> QED  BY <1>1, <1>3, <1>4

LEMMA LevelsFacts ==
  /\ Levels(<<>>) = <<>>
  /\ \A ss \in Seq(ReturnStates) : Levels(ss) \in Seq(Expected)
  /\ \A ss \in Seq(ReturnStates), s \in ReturnStates : Levels(Append(ss, s)) = Levels(ss) \o Frames[s]
<1> DEFINE F(ss) == [i \in 1..Len(ss) |-> Frames[ss[i]]]
<1>1. Levels(<<>>) = <<>>
  <2>1. Len(<<>>) = 0 /\ F(<<>>) = <<>>
    BY EmptySeq
  <2> QED  BY <2>1 DEF Levels, FlattenSeq
<1>2. ASSUME NEW ss \in Seq(ReturnStates)
      PROVE  F(ss) \in Seq(Seq(Expected)) /\ Len(F(ss)) = Len(ss)
  <2>1. Len(ss) \in Nat /\ \A i \in 1..Len(ss) : ss[i] \in ReturnStates
    BY LenProperties, ElementOfSeq
  <2>2. \A i \in 1..Len(ss) : Frames[ss[i]] \in Seq(Expected)
    BY <2>1, FramesType DEF InDocument
  <2> QED  BY <2>1, <2>2
<1>3. ASSUME NEW ss \in Seq(ReturnStates)
      PROVE  Levels(ss) \in Seq(Expected)
  <2>1. <<>> \in Seq(Expected)
    BY EmptySeq
  <2>2. F(ss) \in Seq(Seq(Expected))
    BY <1>2
  <2> HIDE DEF F
  <2>3. FlattenSeq(F(ss)) \in Seq(Expected)
    BY <2>1, <2>2, FlattenAppend
  <2> QED  BY <2>3 DEF Levels, F
<1>4. ASSUME NEW ss \in Seq(ReturnStates), NEW s \in ReturnStates
      PROVE  Levels(Append(ss, s)) = Levels(ss) \o Frames[s]
  <2> DEFINE t == Append(ss, s)
  <2>1. /\ t \in Seq(ReturnStates) /\ Len(t) = Len(ss) + 1 /\ Len(ss) \in Nat
        /\ \A i \in 1..Len(ss) : t[i] = ss[i]
        /\ t[Len(ss) + 1] = s
    BY LenProperties, AppendProperties
  <2> HIDE DEF t
  <2>2. F(ss) \in Seq(Seq(Expected)) /\ Len(F(ss)) = Len(ss) /\ F(t) \in Seq(Seq(Expected)) /\ Len(F(t)) = Len(t)
    BY <1>2, <2>1
  <2>3. Frames[s] \in Seq(Expected)
    BY FramesType DEF InDocument
  <2>4. F(t) = Append(F(ss), Frames[s])
    <3> DEFINE u == Append(F(ss), Frames[s])
    <3>1. /\ u \in Seq(Seq(Expected)) /\ Len(u) = Len(ss) + 1
          /\ \A i \in 1..Len(ss) : u[i] = F(ss)[i]
          /\ u[Len(ss) + 1] = Frames[s]
      BY <2>2, <2>3, AppendProperties
    <3>2. ASSUME NEW i \in 1..(Len(ss) + 1)
          PROVE  F(t)[i] = u[i]
      <4>1. CASE i \in 1..Len(ss)
        <5>1. F(t)[i] = Frames[t[i]] /\ F(ss)[i] = Frames[ss[i]]
          BY <2>1, <4>1
        <5> HIDE DEF F, u
        <5> QED  BY <2>1, <3>1, <4>1, <5>1
      <4>2. CASE i = Len(ss) + 1
        <5>1. F(t)[i] = Frames[t[i]]
          BY <2>1, <4>2
        <5> HIDE DEF F, u
        <5> QED  BY <2>1, <3>1, <4>2, <5>1
      <4> QED  BY <2>1, <4>1, <4>2
    <3> HIDE DEF F, u
    <3>3. F(t) = u
      BY <2>1, <2>2, <3>1, <3>2, SeqEqual
    <3> QED  BY <3>3 DEF u
  <2> HIDE DEF F
  <2>5. FlattenSeq(F(t)) = FlattenSeq(F(ss)) \o Frames[s]
    BY <2>2, <2>3, <2>4, FlattenAppend
  <2> QED  BY <2>5 DEF Levels, F, t
<1> QED  BY <1>1, <1>3, <1>4

\* A level is filled by a node that is read to its end.
FillLast(o) == [o EXCEPT ![Len(o)] = Stream!Past[@]]

LEMMA FillTable ==
  /\ FillLast(<<"item">>) = <<"item">> /\ FillLast(<<"key">>) = <<"value">>
  /\ FillLast(<<"value">>) = <<"key">> /\ FillLast(<<"root">>) = <<"done">>
  /\ FillLast(<<"item", "key">>) = <<"item", "value">>
  /\ FillLast(<<"item", "value">>) = <<"item", "key">>
BY DEF FillLast, Stream!Past

LEMMA LastOfConcat ==
  ASSUME NEW f \in Seq(Expected), NEW g \in Seq(Expected), g # <<>>
  PROVE  /\ f \o g \in Seq(Expected) /\ f \o g # <<>>
         /\ Last(f \o g) = Last(g)
         /\ FillLast(f \o g) = f \o FillLast(g)
<1> DEFINE o == f \o g
<1>1. /\ Len(f) \in Nat /\ Len(g) \in Nat \ {0}
      /\ o \in Seq(Expected) /\ Len(o) = Len(f) + Len(g)
      /\ \A i \in 1..(Len(f) + Len(g)) : o[i] = IF i <= Len(f) THEN f[i] ELSE g[i - Len(f)]
  BY LenProperties, EmptySeq, ConcatProperties
<1> HIDE DEF o
<1>2. o # <<>>
  BY <1>1, EmptySeq
<1>3. o[Len(o)] = g[Len(g)]
  BY <1>1
<1>4. \A x \in Expected : Stream!Past[x] \in Expected \/ x = "done"
  BY DEF Expected, Stream!Past
<1> DEFINE p == Stream!Past[g[Len(g)]]
           fg == [i \in 1..Len(g) |-> IF i = Len(g) THEN p ELSE g[i]]
           fo == [i \in 1..Len(o) |-> IF i = Len(o) THEN p ELSE o[i]]
<1>5. FillLast(g) = fg /\ FillLast(o) = fo
  <2>1. /\ g = [i \in 1..Len(g) |-> g[i]] /\ o = [i \in 1..Len(o) |-> o[i]]
    BY <1>1, LenProperties
  <2>2. FillLast(g) = [i \in 1..Len(g) |-> IF i = Len(g) THEN Stream!Past[g[Len(g)]] ELSE g[i]]
    BY <2>1 DEF FillLast
  <2>3. FillLast(o) = [i \in 1..Len(o) |-> IF i = Len(o) THEN Stream!Past[o[Len(o)]] ELSE o[i]]
    BY <2>1 DEF FillLast
  <2> QED  BY <1>3, <2>2, <2>3
<1> DEFINE W == Expected \cup {p}
<1>6. f \in Seq(W) /\ fg \in Seq(W) /\ Len(fg) = Len(g) /\ fo \in Seq(W) /\ Len(fo) = Len(o)
  <2>1. /\ \A i \in 1..Len(f) : f[i] \in Expected
        /\ \A i \in 1..Len(g) : g[i] \in Expected
        /\ \A i \in 1..Len(o) : o[i] \in Expected
    BY <1>1, ElementOfSeq
  <2>2. f = [i \in 1..Len(f) |-> f[i]]
    BY <1>1, LenProperties
  <2>3. \A i \in 1..Len(f) : f[i] \in W
    BY <2>1
  <2> HIDE DEF p
  <2>4. \A i \in 1..Len(g) : fg[i] \in W
    BY <2>1
  <2>5. \A i \in 1..Len(o) : fo[i] \in W
    BY <2>1
  <2> HIDE DEF W
  <2>6. fg \in Seq(W) /\ Len(fg) = Len(g)
    BY <1>1, <2>4
  <2>7. fo \in Seq(W) /\ Len(fo) = Len(o)
    BY <1>1, <2>5
  <2>8. f \in Seq(W)
    BY <1>1, <2>2, <2>3
  <2> QED  BY <2>6, <2>7, <2>8
<1> DEFINE r == f \o fg
<1>7. /\ r \in Seq(W) /\ Len(r) = Len(f) + Len(g)
      /\ \A i \in 1..(Len(f) + Len(g)) : r[i] = IF i <= Len(f) THEN f[i] ELSE fg[i - Len(f)]
  <2> HIDE DEF W, fg, fo
  <2>1. \A a, b \in Seq(W) :
          /\ a \o b \in Seq(W) /\ Len(a \o b) = Len(a) + Len(b)
          /\ \A i \in 1..(Len(a) + Len(b)) : (a \o b)[i] = IF i <= Len(a) THEN a[i] ELSE b[i - Len(a)]
    BY ConcatProperties
  <2>2. /\ r \in Seq(W) /\ Len(r) = Len(f) + Len(fg)
        /\ \A i \in 1..(Len(f) + Len(fg)) : r[i] = IF i <= Len(f) THEN f[i] ELSE fg[i - Len(f)]
    BY <1>6, <2>1
  <2> HIDE DEF r
  <2> QED  BY <1>6, <2>2
<1>8. ASSUME NEW i \in 1..Len(o)
      PROVE  fo[i] = r[i]
  <2> HIDE DEF r, p
  <2>0. i \in 1..(Len(f) + Len(g)) /\ i \in Int
    BY <1>1
  <2>1. CASE i <= Len(f)
    <3>1. fo[i] = o[i] /\ o[i] = f[i] /\ r[i] = f[i]
      <4>1. i # Len(o)
        BY <1>1, <2>1
      <4>2. fo[i] = o[i]
        BY <4>1
      <4> HIDE DEF fo, fg, W
      <4> QED  BY <1>1, <1>7, <2>0, <2>1, <4>2
    <3> QED  BY <3>1
  <2>2. CASE i > Len(f)
    <3>1. i - Len(f) \in 1..Len(g) /\ (i - Len(f) = Len(g) <=> i = Len(o))
      BY <1>1, <2>0, <2>2
    <3>2. o[i] = g[i - Len(f)]
      BY <1>1, <2>0, <2>2
    <3>3. r[i] = fg[i - Len(f)]
      <4> HIDE DEF fo, fg, W
      <4> QED  BY <1>1, <1>7, <2>0, <2>2
    <3>4. fo[i] = IF i = Len(o) THEN p ELSE o[i]
      OBVIOUS
    <3>5. fg[i - Len(f)] = IF i - Len(f) = Len(g) THEN p ELSE g[i - Len(f)]
      BY <3>1
    <3> HIDE DEF fo, fg, W
    <3> QED  BY <3>1, <3>2, <3>3, <3>4, <3>5
  <2> QED  BY <1>1, <2>1, <2>2
<1>9. fo = r
  <2> HIDE DEF r, fo, W
  <2> QED  BY <1>1, <1>6, <1>7, <1>8, SeqEqual
<1> QED  BY <1>1, <1>2, <1>3, <1>5, <1>9 DEF Last, o

\* The reader of the events waits for a node, and goes on with these levels once it is read.
Waits(levels) ==
  Phase = "document" /\ Open # <<>> /\ Last(Open) # "done" /\ levels = FillLast(Open)

\* The node a call reads is the one the reader waits for.
Ready(c) == c.states \in Seq(ReturnStates) /\ c.states # <<>> /\ Waits(Levels(c.states))

Moves(type) ==
  CASE type = "STREAM-START" -> Stream!StreamStart
    [] type = "STREAM-END" -> Stream!StreamEnd
    [] type = "DOCUMENT-START" -> Stream!DocumentStart
    [] type = "DOCUMENT-END" -> Stream!DocumentEnd
    [] type \in {"SCALAR", "ALIAS"} -> Stream!Leaf
    [] type = "SEQUENCE-START" -> Stream!SequenceStart
    [] type = "MAPPING-START" -> Stream!MappingStart
    [] type = "SEQUENCE-END" -> Stream!SequenceEnd
    [] type = "MAPPING-END" -> Stream!MappingEnd
    [] OTHER -> FALSE

Roots == {"BLOCK_NODE", "DOCUMENT_CONTENT"}

\* A root node is read with nothing below it but the state for the end of the document.
RootAtBottom == state \in Roots => states = <<"DOCUMENT_END">>

\* A call fails, or its event is one the reader of the events may get.
StreamStep ==
  \/ event'.type = "NO" /\ error' # "none" /\ UNCHANGED <<state, states>>
  \/ /\ Moves(event'.type)
     /\ UNCHANGED error
     /\ state' \in Roots => states' = <<"DOCUMENT_END">>

LEMMA StreamIs ==
  /\ Stream!Leaf <=> Waits(Open') /\ Phase' = Phase
  /\ Stream!SequenceStart <=>
       \E levels : Waits(levels) /\ Open' = Append(levels, "item") /\ Phase' = Phase
  /\ Stream!MappingStart <=>
       \E levels : Waits(levels) /\ Open' = Append(levels, "key") /\ Phase' = Phase
  /\ Stream!SequenceEnd <=>
       Phase = "document" /\ Len(Open) > 1 /\ Last(Open) = "item" /\ Open' = Front(Open) /\ Phase' = Phase
  /\ Stream!MappingEnd <=>
       Phase = "document" /\ Len(Open) > 1 /\ Last(Open) = "key" /\ Open' = Front(Open) /\ Phase' = Phase
  /\ Stream!StreamStart <=> Phase = "before" /\ Phase' = "between" /\ Open' = Open
  /\ Stream!StreamEnd <=> Phase = "between" /\ Phase' = "after" /\ Open' = Open
  /\ Stream!DocumentStart <=> Phase = "between" /\ Phase' = "document" /\ Open' = <<"root">>
  /\ Stream!DocumentEnd <=> Phase = "document" /\ Open = <<"done">> /\ Phase' = "between" /\ Open' = <<>>
  /\ Stream!Init <=> Phase = "before" /\ Open = <<>> /\ event.type = "NO"
<1>1. Open = (IF state \in {"BLOCK_NODE", "DOCUMENT_CONTENT"} THEN <<"root">>
              ELSE FlattenSeq([i \in 1..Len(states) |-> Frames[states[i]]]) \o Frames[state])
  BY DEF Open, OpenOf, Levels
<1>2. Phase = (CASE state = "STREAM_START" -> "before"
                [] state \in {"IMPLICIT_DOCUMENT_START", "DOCUMENT_START"} -> "between"
                [] state = "END" -> "after"
                [] OTHER -> "document")
  BY DEF Phase, PhaseOf
<1>3. Open' = (IF state' \in {"BLOCK_NODE", "DOCUMENT_CONTENT"} THEN <<"root">>
               ELSE FlattenSeq([i \in 1..Len(states') |-> Frames[states'[i]]]) \o Frames[state'])
  BY DEF Open, OpenOf, Levels
<1>4. Phase' = (CASE state' = "STREAM_START" -> "before"
                 [] state' \in {"IMPLICIT_DOCUMENT_START", "DOCUMENT_START"} -> "between"
                 [] state' = "END" -> "after"
                 [] OTHER -> "document")
  BY DEF Phase, PhaseOf
<1>5. Stream!NodeExpected <=> Phase = "document" /\ Open # <<>> /\ Last(Open) # "done"
  BY <1>1, <1>2 DEF Stream!NodeExpected, Stream!Last, Last
<1>6. Stream!Filled = FillLast(Open)
  BY <1>1 DEF Stream!Filled, FillLast
<1>7. Stream!Leaf <=> Waits(Open') /\ Phase' = Phase
  BY <1>2, <1>3, <1>4, <1>5, <1>6 DEF Stream!Leaf, Waits
<1>8. /\ Stream!SequenceStart <=>
           \E levels : Waits(levels) /\ Open' = Append(levels, "item") /\ Phase' = Phase
      /\ Stream!MappingStart <=>
           \E levels : Waits(levels) /\ Open' = Append(levels, "key") /\ Phase' = Phase
  BY <1>2, <1>3, <1>4, <1>5, <1>6
     DEF Stream!SequenceStart, Stream!MappingStart, Stream!CollectionStart, Waits
<1>9. /\ Stream!SequenceEnd <=>
           Phase = "document" /\ Len(Open) > 1 /\ Last(Open) = "item" /\ Open' = Front(Open) /\ Phase' = Phase
      /\ Stream!MappingEnd <=>
           Phase = "document" /\ Len(Open) > 1 /\ Last(Open) = "key" /\ Open' = Front(Open) /\ Phase' = Phase
  BY <1>1, <1>2, <1>3, <1>4 DEF Stream!SequenceEnd, Stream!MappingEnd, Stream!CollectionEnd,
                                  Stream!Last, Last, Stream!Front, Front
<1>10. /\ Stream!StreamStart <=> Phase = "before" /\ Phase' = "between" /\ Open' = Open
       /\ Stream!StreamEnd <=> Phase = "between" /\ Phase' = "after" /\ Open' = Open
       /\ Stream!DocumentStart <=> Phase = "between" /\ Phase' = "document" /\ Open' = <<"root">>
       /\ Stream!DocumentEnd <=> Phase = "document" /\ Open = <<"done">> /\ Phase' = "between" /\ Open' = <<>>
  BY <1>1, <1>2, <1>3, <1>4
     DEF Stream!StreamStart, Stream!StreamEnd, Stream!DocumentStart, Stream!DocumentEnd
<1>11. Stream!Init <=> Phase = "before" /\ Open = <<>> /\ event.type = "NO"
  BY <1>1, <1>2 DEF Stream!Init
<1> QED  BY <1>7, <1>8, <1>9, <1>10, <1>11

-----------------------------------------------------------------------------
(***************************************************************************)
(* How the calls move the levels.                                          *)
(***************************************************************************)
LEMMA InsideFacts ==
  ASSUME ParserInv
  PROVE  /\ state \in OutsideDocument \cup InDocument /\ states \in Seq(ReturnStates)
         /\ Levels(states) \in Seq(Expected)
         /\ state \in InDocument => Phase = "document"
         /\ state \in InDocument \ {"DOCUMENT_END"} => states # <<>>
<1>1. /\ state \in OutsideDocument \cup InDocument /\ states \in Seq(ReturnStates)
      /\ state \in InDocument \ {"DOCUMENT_END"} => states # <<>>
  BY DEF ParserInv, Placed, Bottomed
<1>2. state \in InDocument => state \notin OutsideDocument
  BY DEF InDocument, OutsideDocument, FirstStates, Marked, ReturnStates
<1>3. state \in InDocument => Phase = "document"
  BY <1>2 DEF Phase, PhaseOf, OutsideDocument
<1> QED  BY <1>1, <1>3, LevelsFacts

\* The state a finished node ends in, and the stack below it.
LEMMA BackOpen ==
  ASSUME NEW ss \in Seq(ReturnStates), NEW s \in ReturnStates, state' = s, states' = ss
  PROVE  Open' = Levels(Append(ss, s)) /\ Phase' = "document" /\ state' \notin Roots
<1>1. s \notin Roots /\ s \notin OutsideDocument
  BY DEF Roots, OutsideDocument, ReturnStates, Marked
<1>2. Open' = Levels(ss) \o Frames[s]
  BY <1>1 DEF Open, OpenOf, Roots, Levels
<1>3. Phase' = "document"
  BY <1>1 DEF Phase, PhaseOf, OutsideDocument
<1> QED  BY <1>1, <1>2, <1>3, LevelsFacts

LEMMA LeafStep ==
  ASSUME NEW ss \in Seq(ReturnStates), NEW s \in ReturnStates, state' = s, states' = ss,
         Waits(Levels(Append(ss, s))), event'.type \in {"SCALAR", "ALIAS"}, UNCHANGED error
  PROVE  StreamStep
<1>1. Open' = Levels(Append(ss, s)) /\ Phase' = "document" /\ state' \notin Roots
  BY BackOpen
<1>2. Stream!Leaf
  BY <1>1, StreamIs DEF Waits
<1> QED  BY <1>1, <1>2 DEF StreamStep, Moves

LEMMA LeafBack ==
  ASSUME NEW c, c \in Calls, Ready(c), GoBack(c), event'.type \in {"SCALAR", "ALIAS"}, UNCHANGED error
  PROVE  StreamStep
<1>1. /\ Front(c.states) \in Seq(ReturnStates) /\ Last(c.states) \in ReturnStates
      /\ Append(Front(c.states), Last(c.states)) = c.states
  BY FrontLast DEF Ready
<1>2. state' = Last(c.states) /\ states' = Front(c.states)
  BY CallUpdates DEF GoBack, Goto
<1> QED  BY <1>1, <1>2, LeafStep DEF Ready

LEMMA EmptyScalarStep ==
  ASSUME NEW c, c.states \in Seq(ReturnStates), NEW n, NEW next \in ReturnStates,
         Waits(Levels(Append(c.states, next))), EmptyScalar(c, n, next)
  PROVE  StreamStep
<1>1. CASE Emit("SCALAR", None, n, {<<0, 1>>}, {}, {<<0, 1>>}) /\ Goto(next, c)
  <2>1. /\ event'.type = "SCALAR" /\ UNCHANGED error
        /\ state' = next /\ states' = c.states
    BY <1>1 DEF Emit, Goto
  <2> QED  BY <2>1, LeafStep
<1>2. CASE Fail("memory", n, {}, {})
  BY <1>2 DEF Fail, StreamStep, NoEvent
<1> QED  BY <1>1, <1>2 DEF EmptyScalar

LEMMA CollectionStep ==
  ASSUME NEW c, Ready(c), NEW token, NEW kind \in DOMAIN FirstState, NEW type,
         type = IF kind \in {"FLOW_SEQUENCE", "BLOCK_SEQUENCE", "INDENTLESS"} THEN "SEQUENCE-START" ELSE "MAPPING-START",
         Collection(c, token, type, kind)
  PROVE  StreamStep
<1> DEFINE next == FirstState[kind]
<1>1. event'.type = type /\ UNCHANGED error /\ state' = next /\ states' = c.states
  BY DEF Collection, NodeEvent, Emit, Goto
<1>2. next \in FirstStates \cup {"INDENTLESS_SEQUENCE_ENTRY"}
      /\ Frames[next] = IF type = "SEQUENCE-START" THEN <<"item">> ELSE <<"key">>
  BY FramesTable DEF FirstState, FirstStates
<1>3. next \notin Roots /\ next \notin OutsideDocument
  BY <1>2 DEF Roots, OutsideDocument, FirstStates
<1> HIDE DEF next
<1>4. Open' = Levels(c.states) \o Frames[next]
  BY <1>1, <1>3 DEF Open, OpenOf, Roots, Levels
<1>5. Phase' = "document" /\ Phase = "document"
  BY <1>1, <1>3 DEF Phase, PhaseOf, OutsideDocument, Ready, Waits
<1>6. Levels(c.states) \in Seq(Expected) /\ "item" \in Expected /\ "key" \in Expected
  BY LevelsFacts DEF Ready, Expected
<1>7. CASE type = "SEQUENCE-START"
  <2>1. Open' = Append(Levels(c.states), "item")
    BY <1>2, <1>4, <1>6, <1>7, AppendIsConcat
  <2>2. Stream!SequenceStart
    BY <1>5, <2>1, StreamIs DEF Ready
  <2> QED  BY <1>1, <1>3, <1>7, <2>2 DEF StreamStep, Moves
<1>8. CASE type = "MAPPING-START"
  <2>1. Open' = Append(Levels(c.states), "key")
    BY <1>2, <1>4, <1>6, <1>8, AppendIsConcat
  <2>2. Stream!MappingStart
    BY <1>5, <2>1, StreamIs DEF Ready
  <2> QED  BY <1>1, <1>3, <1>8, <2>2 DEF StreamStep, Moves
<1> QED  BY <1>7, <1>8

LEMMA NodeStep ==
  ASSUME NEW c, c \in Calls, Ready(c), NEW block \in BOOLEAN, NEW indentless \in BOOLEAN,
         Node(c, block, indentless)
  PROVE  StreamStep
<1>1. ASSUME NEW kind, NEW resolved, NodeError(kind, c, resolved), kind \in {"parser", "memory"}
      PROVE  StreamStep
  BY <1>1 DEF NodeError, Fail, StreamStep, NoEvent
<1>2. CASE Alias(c)
  <2>1. event'.type = "ALIAS" /\ UNCHANGED error /\ GoBack(c)
    BY <1>2 DEF Alias, Emit
  <2> QED  BY <2>1, LeafBack
<1>3. CASE ScalarNode(c)
  <2>1. event'.type = "SCALAR" /\ UNCHANGED error /\ GoBack(c)
    BY <1>3 DEF ScalarNode, NodeEvent, Emit
  <2> QED  BY <2>1, LeafBack
<1>4. CASE \/ Collection(c, "FLOW-SEQUENCE-START", "SEQUENCE-START", "FLOW_SEQUENCE")
           \/ Collection(c, "FLOW-MAPPING-START", "MAPPING-START", "FLOW_MAPPING")
           \/ Collection(c, "BLOCK-SEQUENCE-START", "SEQUENCE-START", "BLOCK_SEQUENCE")
           \/ Collection(c, "BLOCK-MAPPING-START", "MAPPING-START", "BLOCK_MAPPING")
           \/ Collection(c, "BLOCK-ENTRY", "SEQUENCE-START", "INDENTLESS")
  <2>1. {"FLOW_SEQUENCE", "FLOW_MAPPING", "BLOCK_SEQUENCE", "BLOCK_MAPPING", "INDENTLESS"}
          \subseteq DOMAIN FirstState
    BY DEF FirstState
  <2> QED  BY <1>4, <2>1, CollectionStep
<1>5. CASE BareProperties(c, block, indentless)
  <2>1. CASE NodeEvent("SCALAR", c.n, Content(c) - 1, {<<0, 1>>}) /\ GoBack(c)
    <3>1. event'.type = "SCALAR" /\ UNCHANGED error
      BY <2>1 DEF NodeEvent, Emit
    <3> QED  BY <2>1, <3>1, LeafBack
  <2>2. CASE NodeError("memory", c, TRUE)
    BY <1>1, <2>2
  <2> QED  BY <1>5, <2>1, <2>2 DEF BareProperties
<1> QED  BY <1>1, <1>2, <1>3, <1>4, <1>5 DEF Node

LEMMA PushIs ==
  ASSUME NEW c \in Calls, NEW s
  PROVE  Push(c, s) = [n |-> c.n, states |-> Append(c.states, s), marks |-> c.marks]
<1>1. \A a, b, d, u :
        LET r == [n |-> a, states |-> b, marks |-> d] IN
          [r EXCEPT !.states = Append(@, u)] = [n |-> a, states |-> Append(b, u), marks |-> d]
  OBVIOUS
<1>2. c = [n |-> c.n, states |-> c.states, marks |-> c.marks]
  BY DEF Calls
<1> QED  BY <1>1, <1>2 DEF Push

LEMMA NodePushStep ==
  ASSUME NEW c \in Calls, NEW back \in ReturnStates, Waits(Levels(Append(c.states, back))),
         NEW block \in BOOLEAN, NEW indentless \in BOOLEAN, Node(Push(c, back), block, indentless)
  PROVE  StreamStep
<1>1. c.states \in Seq(ReturnStates)
  BY DEF Calls
<1>2. Append(c.states, back) \in Seq(ReturnStates) /\ Append(c.states, back) # <<>>
  BY <1>1, AppendProperties
<1>3. Push(c, back) = [n |-> c.n, states |-> Append(c.states, back), marks |-> c.marks]
  BY PushIs
<1>4. Push(c, back) \in Calls /\ Ready(Push(c, back))
  BY <1>2, <1>3 DEF Calls, Ready
<1> QED  BY <1>4, NodeStep

LEMMA NodeOrEmptyStep ==
  ASSUME NEW c \in Calls, NEW stops, NEW back \in ReturnStates, Waits(Levels(Append(c.states, back))),
         NEW block \in BOOLEAN, NEW indentless \in BOOLEAN, NodeOrEmpty(c, stops, back, block, indentless)
  PROVE  StreamStep
<1>1. CASE Node(Push(c, back), block, indentless)
  BY <1>1, NodePushStep
<1>2. CASE EmptyScalar(c, c.n, back)
  BY <1>2, EmptyScalarStep DEF Calls
<1> QED  BY <1>1, <1>2 DEF NodeOrEmpty

\* What a call inside a collection may push: the state that waits for what follows the node.
LEMMA WaitsInside ==
  ASSUME ParserInv, state \in InDocument \ {"DOCUMENT_END"}, state \notin Roots, NEW back \in ReturnStates,
         Last(Frames[state]) # "done", Frames[back] = FillLast(Frames[state])
  PROVE  Waits(Levels(Append(states, back)))
<1>1. Frames[state] \in Seq(Expected) /\ Levels(states) \in Seq(Expected) /\ states \in Seq(ReturnStates)
  <2>1. state \in OutsideDocument \cup InDocument /\ Levels(states) \in Seq(Expected) /\ states \in Seq(ReturnStates)
    BY InsideFacts
  <2> QED  BY <2>1, FramesType
<1>2. Frames[state] # <<>>
  <2>1. state \in InDocument \ {"BLOCK_NODE", "DOCUMENT_CONTENT"}
    BY DEF Roots
  <2> QED  BY <2>1, FramesType
<1>3. Open = Levels(states) \o Frames[state]
  BY DEF Open, OpenOf, Roots
<1>4. /\ Open # <<>> /\ Last(Open) = Last(Frames[state])
      /\ FillLast(Open) = Levels(states) \o Frames[back]
  BY <1>1, <1>2, <1>3, LastOfConcat
<1>5. Levels(Append(states, back)) = Levels(states) \o Frames[back]
  BY <1>1, LevelsFacts
<1> QED  BY <1>4, <1>5, InsideFacts DEF Waits

LEMMA FrontOfAppend ==
  ASSUME NEW V, NEW s \in Seq(V), NEW x \in V
  PROVE  Front(Append(s, x)) = s /\ Last(Append(s, x)) = x /\ Len(Append(s, x)) = Len(s) + 1
<1> DEFINE t == Append(s, x)
<1>1. /\ t \in Seq(V) /\ t # <<>> /\ Len(t) = Len(s) + 1 /\ Len(s) \in Nat
      /\ \A i \in 1..Len(s) : t[i] = s[i]
      /\ t[Len(s) + 1] = x
  BY LenProperties, AppendProperties
<1> HIDE DEF t
<1>2. /\ Front(t) \in Seq(V) /\ Len(Front(t)) = Len(t) - 1 /\ Last(t) = t[Len(t)]
      /\ \A i \in 1..Len(Front(t)) : Front(t)[i] = t[i]
  BY <1>1, FrontLast
<1>3. Front(t) = s
  <2>1. Len(Front(t)) = Len(s) /\ \A i \in 1..Len(s) : Front(t)[i] = s[i]
    BY <1>1, <1>2
  <2> QED  BY <1>2, <2>1, SeqEqual
<1>4. Last(t) = x
  BY <1>1, <1>2
<1> QED  BY <1>1, <1>3, <1>4 DEF t

LEMMA CloseStep ==
  ASSUME ParserInv, state \in InDocument \ {"DOCUMENT_END"}, state \notin Roots, NEW type,
         \/ type = "SEQUENCE-END" /\ Frames[state] = <<"item">>
         \/ type = "MAPPING-END" /\ Frames[state] = <<"key">>,
         event'.type = type, UNCHANGED error, state' = Last(states), states' = Front(states)
  PROVE  StreamStep
<1> DEFINE lev == IF type = "SEQUENCE-END" THEN "item" ELSE "key"
<1>1. Frames[state] = <<lev>> /\ lev \in Expected
  BY DEF Expected
<1>2. /\ Front(states) \in Seq(ReturnStates) /\ Last(states) \in ReturnStates
      /\ Append(Front(states), Last(states)) = states
      /\ Phase = "document" /\ Levels(states) \in Seq(Expected)
  BY InsideFacts, FrontLast
<1>3. Open' = Levels(states) /\ Phase' = "document" /\ state' \notin Roots
  BY <1>2, BackOpen
<1>4. Open = Append(Levels(states), lev)
  <2>1. Open = Levels(states) \o <<lev>>
    BY <1>1 DEF Open, OpenOf, Roots
  <2> HIDE DEF lev
  <2> QED  BY <1>1, <1>2, <2>1, AppendIsConcat
<1>5. Levels(states) # <<>>
  <2> DEFINE f == Front(states)
             l == Last(states)
  <2>1. /\ f \in Seq(ReturnStates) /\ l \in ReturnStates /\ states = Append(f, l)
        /\ Levels(f) \in Seq(Expected) /\ Frames[l] \in Seq(Expected) /\ Frames[l] # <<>>
    BY <1>2, LevelsFacts, FramesType
  <2> HIDE DEF f, l
  <2>2. Levels(states) = Levels(f) \o Frames[l]
    BY <2>1, LevelsFacts
  <2> QED  BY <2>1, <2>2, LastOfConcat
<1>6. Len(Levels(states)) > 0
  BY <1>2, <1>5, EmptySeq, LenProperties
<1>7. Front(Open) = Levels(states) /\ Last(Open) = lev /\ Len(Open) > 1
  <2> HIDE DEF lev
  <2>1. Front(Open) = Levels(states) /\ Last(Open) = lev /\ Len(Open) = Len(Levels(states)) + 1
    BY <1>1, <1>2, <1>4, FrontOfAppend
  <2> QED  BY <1>2, <1>6, <2>1, LenProperties
<1>8. CASE type = "SEQUENCE-END"
  <2>1. Stream!SequenceEnd
    BY <1>2, <1>3, <1>7, <1>8, StreamIs
  <2> QED  BY <1>3, <1>8, <2>1 DEF StreamStep, Moves
<1>9. CASE type = "MAPPING-END"
  <2>1. Stream!MappingEnd
    BY <1>2, <1>3, <1>7, <1>9, StreamIs
  <2> QED  BY <1>3, <1>9, <2>1 DEF StreamStep, Moves
<1> QED  BY <1>8, <1>9

\* A pair in a flow sequence is a mapping inside of it.
LEMMA PairLevels ==
  ASSUME NEW f \in Seq(Expected)
  PROVE  /\ f \o <<"item", "key">> = Append(f \o <<"item">>, "key")
         /\ f \o <<"item">> \in Seq(Expected) /\ Len(f \o <<"item">>) > 0
<1>1. <<"item">> \in Seq(Expected) /\ <<"key">> \in Seq(Expected) /\ <<"item">> # <<>>
      /\ "key" \in Expected
  BY DEF Expected
<1>2. f \o <<"item">> \in Seq(Expected) /\ f \o <<"item">> # <<>>
  BY <1>1, LastOfConcat
<1>3. Append(f \o <<"item">>, "key") = (f \o <<"item">>) \o <<"key">>
  <2>1. \A q \in Seq(Expected), x \in Expected : Append(q, x) = q \o <<x>>
    BY AppendIsConcat
  <2> QED  BY <1>1, <1>2, <2>1
<1>4. (f \o <<"item">>) \o <<"key">> = f \o (<<"item">> \o <<"key">>)
  BY <1>1, ConcatAssociative
<1>5. <<"item">> \o <<"key">> = <<"item", "key">>
  <2> DEFINE a == <<"item">>
             b == <<"key">>
             d == <<"item", "key">>
  <2>1. a \in Seq(Expected) /\ b \in Seq(Expected) /\ d \in Seq(Expected)
        /\ Len(a) = 1 /\ Len(b) = 1 /\ Len(d) = 2 /\ a[1] = "item" /\ b[1] = "key"
        /\ d[1] = "item" /\ d[2] = "key"
    BY <1>1
  <2> HIDE DEF a, b, d
  <2>2. /\ a \o b \in Seq(Expected) /\ Len(a \o b) = Len(a) + Len(b)
        /\ \A i \in 1..(Len(a) + Len(b)) : (a \o b)[i] = IF i <= Len(a) THEN a[i] ELSE b[i - Len(a)]
    BY <2>1, ConcatProperties
  <2>3. \A i \in 1..2 : (a \o b)[i] = d[i]
    BY <2>1, <2>2
  <2>4. a \o b = d
    BY <2>1, <2>2, <2>3, SeqEqual
  <2> QED  BY <2>4 DEF a, b, d
<1> QED  BY <1>2, <1>3, <1>4, <1>5, EmptySeq, LenProperties

LEMMA KeptStates ==
  ASSUME NEW c \in Calls
  PROVE  /\ After(c) \in Calls /\ After(c).states = c.states
         /\ \A first : EntryAt(c, first) \in Calls /\ EntryAt(c, first).states = c.states
         /\ \A s \in ReturnStates :
              Push(c, s) \in Calls /\ Push(c, s).states = Append(c.states, s)
<1>1. c = [n |-> c.n, states |-> c.states, marks |-> c.marks] /\ c.n \in Nat
      /\ c.states \in Seq(ReturnStates) /\ c.marks \in Seq(Nat)
  BY DEF Calls
<1>2. After(c) = [n |-> c.n + 1, states |-> c.states, marks |-> c.marks]
  BY <1>1 DEF After
<1>3. ASSUME NEW s \in ReturnStates
      PROVE  Push(c, s) \in Calls /\ Push(c, s).states = Append(c.states, s)
  <2>1. Push(c, s) = [n |-> c.n, states |-> Append(c.states, s), marks |-> c.marks]
    BY PushIs
  <2>2. Append(c.states, s) \in Seq(ReturnStates)
    BY <1>1, AppendProperties
  <2> QED  BY <1>1, <2>1, <2>2 DEF Calls
<1> QED  BY <1>1, <1>2, <1>3 DEF Calls, EntryAt

\* The calls of ParserInv hold the stacks of the state.
LEMMA StateCalls ==
  ASSUME ParserInv
  PROVE  /\ Here(0) \in Calls /\ Here(0).states = states
         /\ Here(1) \in Calls /\ Here(1).states = states
         /\ \A first : Entered(first) \in Calls /\ Entered(first).states = states
<1>1. states \in Seq(ReturnStates) /\ marks \in Seq(Nat)
  BY DEF ParserInv, Placed, MarksBelow
<1>2. Number(1) \in Nat
  BY ScannedFacts DEF ParserInv, Number
<1>3. Append(marks, Number(1)) \in Seq(Nat)
  BY <1>1, <1>2, AppendProperties
<1> QED  BY <1>1, <1>3 DEF Here, Entered, Calls

-----------------------------------------------------------------------------
(***************************************************************************)
(* The calls, one after the other.                                         *)
(***************************************************************************)
\* The states a node may be read in, each with those it may end in.
NodeEnds ==
  [s \in {"BLOCK_SEQUENCE_FIRST_ENTRY", "BLOCK_SEQUENCE_ENTRY", "INDENTLESS_SEQUENCE_ENTRY",
          "FLOW_SEQUENCE_FIRST_ENTRY", "FLOW_SEQUENCE_ENTRY", "BLOCK_MAPPING_FIRST_KEY",
          "BLOCK_MAPPING_KEY", "FLOW_MAPPING_FIRST_KEY", "FLOW_MAPPING_KEY", "BLOCK_MAPPING_VALUE",
          "FLOW_MAPPING_VALUE", "FLOW_MAPPING_EMPTY_VALUE", "FLOW_SEQUENCE_ENTRY_MAPPING_KEY",
          "FLOW_SEQUENCE_ENTRY_MAPPING_VALUE"} |->
     CASE s \in {"BLOCK_SEQUENCE_FIRST_ENTRY", "BLOCK_SEQUENCE_ENTRY"} -> {"BLOCK_SEQUENCE_ENTRY"}
       [] s = "INDENTLESS_SEQUENCE_ENTRY" -> {"INDENTLESS_SEQUENCE_ENTRY"}
       [] s \in {"FLOW_SEQUENCE_FIRST_ENTRY", "FLOW_SEQUENCE_ENTRY"} -> {"FLOW_SEQUENCE_ENTRY"}
       [] s \in {"BLOCK_MAPPING_FIRST_KEY", "BLOCK_MAPPING_KEY"} -> {"BLOCK_MAPPING_VALUE"}
       [] s \in {"FLOW_MAPPING_FIRST_KEY", "FLOW_MAPPING_KEY"} ->
            {"FLOW_MAPPING_VALUE", "FLOW_MAPPING_EMPTY_VALUE"}
       [] s = "BLOCK_MAPPING_VALUE" -> {"BLOCK_MAPPING_KEY"}
       [] s \in {"FLOW_MAPPING_VALUE", "FLOW_MAPPING_EMPTY_VALUE"} -> {"FLOW_MAPPING_KEY"}
       [] s = "FLOW_SEQUENCE_ENTRY_MAPPING_KEY" -> {"FLOW_SEQUENCE_ENTRY_MAPPING_VALUE"}
       [] OTHER -> {"FLOW_SEQUENCE_ENTRY_MAPPING_END"}]

LEMMA EndsTable ==
  ASSUME NEW s \in DOMAIN NodeEnds, NEW back \in NodeEnds[s]
  PROVE  /\ s \in InDocument \ {"DOCUMENT_END"} /\ s \notin Roots /\ back \in ReturnStates
         /\ \/ Frames[s] = <<"item">> /\ Frames[back] = <<"item">>
            \/ Frames[s] = <<"key">> /\ Frames[back] = <<"value">>
            \/ Frames[s] = <<"value">> /\ Frames[back] = <<"key">>
            \/ Frames[s] = <<"item", "key">> /\ Frames[back] = <<"item", "value">>
            \/ Frames[s] = <<"item", "value">> /\ Frames[back] = <<"item", "key">>
<1>1. s \in InDocument \ {"DOCUMENT_END"} /\ s \notin Roots
  BY DEF NodeEnds, InDocument, Marked, FirstStates, ReturnStates, Roots
<1>2. \/ s \in {"BLOCK_SEQUENCE_FIRST_ENTRY", "BLOCK_SEQUENCE_ENTRY"} /\ back = "BLOCK_SEQUENCE_ENTRY"
      \/ s = "INDENTLESS_SEQUENCE_ENTRY" /\ back = "INDENTLESS_SEQUENCE_ENTRY"
      \/ s \in {"FLOW_SEQUENCE_FIRST_ENTRY", "FLOW_SEQUENCE_ENTRY"} /\ back = "FLOW_SEQUENCE_ENTRY"
      \/ s \in {"BLOCK_MAPPING_FIRST_KEY", "BLOCK_MAPPING_KEY"} /\ back = "BLOCK_MAPPING_VALUE"
      \/ s \in {"FLOW_MAPPING_FIRST_KEY", "FLOW_MAPPING_KEY"} /\
           back \in {"FLOW_MAPPING_VALUE", "FLOW_MAPPING_EMPTY_VALUE"}
      \/ s = "BLOCK_MAPPING_VALUE" /\ back = "BLOCK_MAPPING_KEY"
      \/ s \in {"FLOW_MAPPING_VALUE", "FLOW_MAPPING_EMPTY_VALUE"} /\ back = "FLOW_MAPPING_KEY"
      \/ s = "FLOW_SEQUENCE_ENTRY_MAPPING_KEY" /\ back = "FLOW_SEQUENCE_ENTRY_MAPPING_VALUE"
      \/ s = "FLOW_SEQUENCE_ENTRY_MAPPING_VALUE" /\ back = "FLOW_SEQUENCE_ENTRY_MAPPING_END"
  BY DEF NodeEnds
<1>3. back \in ReturnStates
  BY <1>2 DEF ReturnStates, Marked
<1> QED  BY <1>1, <1>2, <1>3, FramesTable

LEMMA WaitsForNode ==
  ASSUME ParserInv, state \in DOMAIN NodeEnds, NEW back \in NodeEnds[state]
  PROVE  back \in ReturnStates /\ Waits(Levels(Append(states, back)))
<1>1. /\ state \in InDocument \ {"DOCUMENT_END"} /\ state \notin Roots /\ back \in ReturnStates
      /\ \/ Frames[state] = <<"item">> /\ Frames[back] = <<"item">>
         \/ Frames[state] = <<"key">> /\ Frames[back] = <<"value">>
         \/ Frames[state] = <<"value">> /\ Frames[back] = <<"key">>
         \/ Frames[state] = <<"item", "key">> /\ Frames[back] = <<"item", "value">>
         \/ Frames[state] = <<"item", "value">> /\ Frames[back] = <<"item", "key">>
  BY EndsTable
<1>2. /\ Last(<<"item">>) # "done" /\ Last(<<"key">>) # "done" /\ Last(<<"value">>) # "done"
      /\ Last(<<"item", "key">>) # "done" /\ Last(<<"item", "value">>) # "done"
  BY DEF Last
<1>3. Last(Frames[state]) # "done" /\ Frames[back] = FillLast(Frames[state])
  BY <1>1, <1>2, FillTable
<1> QED  BY <1>1, <1>3, WaitsInside

LEMMA NodeInside ==
  ASSUME ParserInv, state \in DOMAIN NodeEnds, NEW back \in NodeEnds[state],
         NEW c \in Calls, c.states = states, NEW block \in BOOLEAN, NEW indentless \in BOOLEAN,
         \/ Node(Push(c, back), block, indentless)
         \/ \E stops : NodeOrEmpty(c, stops, back, block, indentless)
         \/ \E n : EmptyScalar(c, n, back)
  PROVE  StreamStep
<1>1. back \in ReturnStates /\ Waits(Levels(Append(c.states, back))) /\ c.states \in Seq(ReturnStates)
  BY WaitsForNode DEF Calls
<1>2. CASE Node(Push(c, back), block, indentless)
  BY <1>1, <1>2, NodePushStep
<1>3. CASE \E stops : NodeOrEmpty(c, stops, back, block, indentless)
  BY <1>1, <1>3, NodeOrEmptyStep
<1>4. CASE \E n : EmptyScalar(c, n, back)
  BY <1>1, <1>4, EmptyScalarStep
<1> QED  BY <1>2, <1>3, <1>4

LEMMA CloseCall ==
  ASSUME ParserInv, NEW c \in Calls, c.states = states, NEW type,
         \/ type = "SEQUENCE-END" /\ state \in {"BLOCK_SEQUENCE_FIRST_ENTRY", "BLOCK_SEQUENCE_ENTRY",
              "FLOW_SEQUENCE_FIRST_ENTRY", "FLOW_SEQUENCE_ENTRY"}
         \/ type = "MAPPING-END" /\ state \in {"BLOCK_MAPPING_FIRST_KEY", "BLOCK_MAPPING_KEY",
              "FLOW_MAPPING_FIRST_KEY", "FLOW_MAPPING_KEY"},
         Close(type, c)
  PROVE  StreamStep
<1> DEFINE b == [n |-> c.n, states |-> c.states, marks |-> Front(c.marks)]
<1>1. event'.type = type /\ UNCHANGED error /\ GoBack(b)
  BY CallUpdates DEF Close, Emit
<1>2. state' = Last(states) /\ states' = Front(states)
  <2>1. \A x, y, z : LET r == [n |-> x, states |-> y, marks |-> z] IN
          [r EXCEPT !.states = Front(@)].states = Front(y)
    OBVIOUS
  <2> QED  BY <1>1, <2>1 DEF GoBack, Goto
<1>3. state \in InDocument \ {"DOCUMENT_END"} /\ state \notin Roots
  BY DEF InDocument, Marked, FirstStates, ReturnStates, Roots
<1>4. \/ type = "SEQUENCE-END" /\ Frames[state] = <<"item">>
      \/ type = "MAPPING-END" /\ Frames[state] = <<"key">>
  BY FramesTable
<1> QED  BY <1>1, <1>2, <1>3, <1>4, CloseStep

LEMMA RefuseStep ==
  ASSUME NEW kind \in {"scanner", "parser", "memory"}, NEW n, NEW made, NEW freed, Fail(kind, n, made, freed)
  PROVE  StreamStep
BY DEF Fail, StreamStep, NoEvent

LEMMA BlockSequenceStep == ASSUME ParserInv, ParseBlockSequenceEntry PROVE StreamStep
<1> DEFINE c == Entered(state = "BLOCK_SEQUENCE_FIRST_ENTRY")
           back == "BLOCK_SEQUENCE_ENTRY"
<1>1. /\ state \in {"BLOCK_SEQUENCE_FIRST_ENTRY", "BLOCK_SEQUENCE_ENTRY"}
      /\ \/ NodeOrEmpty(After(c), {"BLOCK-ENTRY", "BLOCK-END"}, back, TRUE, FALSE)
         \/ Close("SEQUENCE-END", c)
         \/ Fail("parser", c.n, {}, {})
  BY DEF ParseBlockSequenceEntry, Refuse
<1>2. c \in Calls /\ c.states = states
  BY StateCalls
<1> HIDE DEF c
<1>3. After(c) \in Calls /\ After(c).states = states
  BY <1>2, KeptStates
<1>4. state \in DOMAIN NodeEnds /\ back \in NodeEnds[state]
  BY <1>1 DEF NodeEnds
<1>5. CASE NodeOrEmpty(After(c), {"BLOCK-ENTRY", "BLOCK-END"}, back, TRUE, FALSE)
  <2> HIDE DEF back
  <2> QED  BY <1>3, <1>4, <1>5, NodeInside
<1>6. CASE Close("SEQUENCE-END", c)
  BY <1>1, <1>2, <1>6, CloseCall
<1>7. CASE Fail("parser", c.n, {}, {})
  BY <1>7, RefuseStep
<1> QED  BY <1>1, <1>5, <1>6, <1>7

LEMMA BlockMappingStep == ASSUME ParserInv, ParseBlockMappingKey PROVE StreamStep
<1> DEFINE c == Entered(state = "BLOCK_MAPPING_FIRST_KEY")
           back == "BLOCK_MAPPING_VALUE"
<1>1. /\ state \in {"BLOCK_MAPPING_FIRST_KEY", "BLOCK_MAPPING_KEY"}
      /\ \/ NodeOrEmpty(After(c), PairStops, back, TRUE, TRUE)
         \/ Close("MAPPING-END", c)
         \/ Fail("parser", c.n, {}, {})
  BY DEF ParseBlockMappingKey, Refuse
<1>2. c \in Calls /\ c.states = states
  BY StateCalls
<1> HIDE DEF c
<1>3. After(c) \in Calls /\ After(c).states = states
  BY <1>2, KeptStates
<1>4. state \in DOMAIN NodeEnds /\ back \in NodeEnds[state]
  BY <1>1 DEF NodeEnds
<1>5. CASE NodeOrEmpty(After(c), PairStops, back, TRUE, TRUE)
  <2> HIDE DEF back
  <2> QED  BY <1>3, <1>4, <1>5, NodeInside
<1>6. CASE Close("MAPPING-END", c)
  BY <1>1, <1>2, <1>6, CloseCall
<1>7. CASE Fail("parser", c.n, {}, {})
  BY <1>7, RefuseStep
<1> QED  BY <1>1, <1>5, <1>6, <1>7

LEMMA FlowMappingStep == ASSUME ParserInv, ParseFlowMappingKey PROVE StreamStep
<1> DEFINE first == state = "FLOW_MAPPING_FIRST_KEY"
           c == Entered(first)
           e == EntryAt(c, first)
<1>1. /\ state \in {"FLOW_MAPPING_FIRST_KEY", "FLOW_MAPPING_KEY"}
      /\ \/ NodeOrEmpty(After(e), {"VALUE", "FLOW-ENTRY", "FLOW-MAPPING-END"},
                        "FLOW_MAPPING_VALUE", FALSE, FALSE)
         \/ Node(Push(e, "FLOW_MAPPING_EMPTY_VALUE"), FALSE, FALSE)
         \/ Close("MAPPING-END", e)
         \/ Fail("parser", c.n, {}, {})
  BY DEF ParseFlowMappingKey, Refuse
<1>2. c \in Calls /\ c.states = states
  BY StateCalls
<1>3. e \in Calls /\ e.states = states
  <2> HIDE DEF c
  <2> QED  BY <1>2, KeptStates
<1> HIDE DEF c, e
<1>4. After(e) \in Calls /\ After(e).states = states
  BY <1>3, KeptStates
<1>5. /\ state \in DOMAIN NodeEnds
      /\ "FLOW_MAPPING_VALUE" \in NodeEnds[state] /\ "FLOW_MAPPING_EMPTY_VALUE" \in NodeEnds[state]
  BY <1>1 DEF NodeEnds
<1>6. CASE NodeOrEmpty(After(e), {"VALUE", "FLOW-ENTRY", "FLOW-MAPPING-END"},
                       "FLOW_MAPPING_VALUE", FALSE, FALSE)
  BY <1>4, <1>5, <1>6, NodeInside
<1>7. CASE Node(Push(e, "FLOW_MAPPING_EMPTY_VALUE"), FALSE, FALSE)
  BY <1>3, <1>5, <1>7, NodeInside
<1>8. CASE Close("MAPPING-END", e)
  BY <1>1, <1>3, <1>8, CloseCall
<1>9. CASE Fail("parser", c.n, {}, {})
  BY <1>9, RefuseStep
<1> QED  BY <1>1, <1>6, <1>7, <1>8, <1>9

LEMMA FlowSequenceStep == ASSUME ParserInv, ParseFlowSequenceEntry PROVE StreamStep
<1> DEFINE first == state = "FLOW_SEQUENCE_FIRST_ENTRY"
           c == Entered(first)
           e == EntryAt(c, first)
<1>1. /\ state \in {"FLOW_SEQUENCE_FIRST_ENTRY", "FLOW_SEQUENCE_ENTRY"}
      /\ \/ /\ Emit("MAPPING-START", None, e.n + 1, {}, {}, {})
            /\ Goto("FLOW_SEQUENCE_ENTRY_MAPPING_KEY", e)
         \/ Node(Push(e, "FLOW_SEQUENCE_ENTRY"), FALSE, FALSE)
         \/ Close("SEQUENCE-END", e)
         \/ Fail("parser", c.n, {}, {})
  BY DEF ParseFlowSequenceEntry, Refuse
<1>2. c \in Calls /\ c.states = states
  BY StateCalls
<1>3. e \in Calls /\ e.states = states
  <2> HIDE DEF c
  <2> QED  BY <1>2, KeptStates
<1> HIDE DEF c, e
<1>5. state \in DOMAIN NodeEnds /\ "FLOW_SEQUENCE_ENTRY" \in NodeEnds[state]
  BY <1>1 DEF NodeEnds
<1>6. CASE /\ Emit("MAPPING-START", None, e.n + 1, {}, {}, {})
           /\ Goto("FLOW_SEQUENCE_ENTRY_MAPPING_KEY", e)
  <2>1. /\ event'.type = "MAPPING-START" /\ UNCHANGED error
        /\ state' = "FLOW_SEQUENCE_ENTRY_MAPPING_KEY" /\ states' = states
    BY <1>3, <1>6 DEF Emit, Goto
  <2>2. Frames[state] = <<"item">> /\ Frames["FLOW_SEQUENCE_ENTRY_MAPPING_KEY"] = <<"item", "key">>
    BY <1>1, FramesTable
  <2>3. Open = Levels(states) \o <<"item">> /\ Open' = Levels(states) \o <<"item", "key">>
    BY <1>1, <2>1, <2>2 DEF Open, OpenOf, Roots, Levels
  <2>4. /\ Levels(states) \in Seq(Expected) /\ Phase = "document" /\ Phase' = "document"
        /\ state' \notin Roots
    <3>1. state \in InDocument
      BY <1>1 DEF InDocument, FirstStates, Marked
    <3>2. Levels(states) \in Seq(Expected) /\ Phase = "document"
      BY <3>1, InsideFacts
    <3>3. Phase' = "document" /\ state' \notin Roots
      BY <2>1 DEF Phase, PhaseOf, Roots
    <3> QED  BY <3>2, <3>3
  <2>5. Open' = Append(Open, "key")
    BY <2>3, <2>4, PairLevels
  <2>6. Waits(Open)
    <3>1. <<"item">> \in Seq(Expected) /\ <<"item">> # <<>> /\ Last(<<"item">>) = "item"
      BY DEF Expected, Last
    <3>2. Open # <<>> /\ Last(Open) = "item" /\ FillLast(Open) = Levels(states) \o FillLast(<<"item">>)
      BY <2>3, <2>4, <3>1, LastOfConcat
    <3> QED  BY <2>3, <2>4, <3>2, FillTable DEF Waits
  <2>7. Stream!MappingStart
    BY <2>4, <2>5, <2>6, StreamIs
  <2> QED  BY <2>1, <2>4, <2>7 DEF StreamStep, Moves
<1>7. CASE Node(Push(e, "FLOW_SEQUENCE_ENTRY"), FALSE, FALSE)
  BY <1>3, <1>5, <1>7, NodeInside
<1>8. CASE Close("SEQUENCE-END", e)
  BY <1>1, <1>3, <1>8, CloseCall
<1>9. CASE Fail("parser", c.n, {}, {})
  BY <1>9, RefuseStep
<1> QED  BY <1>1, <1>6, <1>7, <1>8, <1>9

LEMMA IndentlessStep == ASSUME ParserInv, ParseIndentlessSequenceEntry PROVE StreamStep
<1>1. /\ state = "INDENTLESS_SEQUENCE_ENTRY"
      /\ \/ NodeOrEmpty(Here(1), {"BLOCK-ENTRY", "KEY", "VALUE", "BLOCK-END"},
                        "INDENTLESS_SEQUENCE_ENTRY", TRUE, FALSE)
         \/ Emit("SEQUENCE-END", None, 0, {}, {}, {}) /\ GoBack(Here(0))
  BY DEF ParseIndentlessSequenceEntry
<1>2. state \in DOMAIN NodeEnds /\ "INDENTLESS_SEQUENCE_ENTRY" \in NodeEnds[state]
  BY <1>1 DEF NodeEnds
<1>3. CASE NodeOrEmpty(Here(1), {"BLOCK-ENTRY", "KEY", "VALUE", "BLOCK-END"},
                       "INDENTLESS_SEQUENCE_ENTRY", TRUE, FALSE)
  BY <1>2, <1>3, StateCalls, NodeInside
<1>4. CASE Emit("SEQUENCE-END", None, 0, {}, {}, {}) /\ GoBack(Here(0))
  <2>1. event'.type = "SEQUENCE-END" /\ UNCHANGED error
    BY <1>4 DEF Emit
  <2>2. state' = Last(states) /\ states' = Front(states)
    BY <1>4, StateCalls, CallUpdates DEF GoBack, Goto
  <2>3. /\ state \in InDocument \ {"DOCUMENT_END"} /\ state \notin Roots
        /\ Frames[state] = <<"item">>
    BY <1>1, FramesTable DEF InDocument, ReturnStates, Roots
  <2> QED  BY <2>1, <2>2, <2>3, CloseStep
<1> QED  BY <1>1, <1>3, <1>4

LEMMA ValueStep ==
  ASSUME ParserInv,
         \/ ParseBlockMappingValue \/ ParseFlowMappingValue
         \/ ParseFlowSequenceEntryMappingKey \/ ParseFlowSequenceEntryMappingValue
  PROVE  StreamStep
<1>1. Here(0) \in Calls /\ Here(0).states = states /\ Here(1) \in Calls /\ Here(1).states = states
  BY StateCalls
<1>2. CASE ParseBlockMappingValue
  <2>1. state \in DOMAIN NodeEnds /\ "BLOCK_MAPPING_KEY" \in NodeEnds[state]
    BY <1>2 DEF NodeEnds, ParseBlockMappingValue
  <2>2. \/ NodeOrEmpty(Here(1), PairStops, "BLOCK_MAPPING_KEY", TRUE, TRUE)
        \/ EmptyScalar(Here(0), 0, "BLOCK_MAPPING_KEY")
    BY <1>2 DEF ParseBlockMappingValue
  <2> QED  BY <1>1, <2>1, <2>2, NodeInside
<1>3. CASE ParseFlowMappingValue
  <2>1. state \in DOMAIN NodeEnds /\ "FLOW_MAPPING_KEY" \in NodeEnds[state]
    BY <1>3 DEF NodeEnds, ParseFlowMappingValue
  <2>2. \/ NodeOrEmpty(Here(1), {"FLOW-ENTRY", "FLOW-MAPPING-END"}, "FLOW_MAPPING_KEY", FALSE, FALSE)
        \/ EmptyScalar(Here(0), 0, "FLOW_MAPPING_KEY")
    BY <1>3 DEF ParseFlowMappingValue
  <2> QED  BY <1>1, <2>1, <2>2, NodeInside
<1>4. CASE ParseFlowSequenceEntryMappingKey
  <2>1. state \in DOMAIN NodeEnds /\ "FLOW_SEQUENCE_ENTRY_MAPPING_VALUE" \in NodeEnds[state]
    BY <1>4 DEF NodeEnds, ParseFlowSequenceEntryMappingKey
  <2>2. \/ Node(Push(Here(0), "FLOW_SEQUENCE_ENTRY_MAPPING_VALUE"), FALSE, FALSE)
        \/ EmptyScalar(Here(0), 1, "FLOW_SEQUENCE_ENTRY_MAPPING_VALUE")
    BY <1>4 DEF ParseFlowSequenceEntryMappingKey
  <2> QED  BY <1>1, <2>1, <2>2, NodeInside
<1>5. CASE ParseFlowSequenceEntryMappingValue
  <2>1. state \in DOMAIN NodeEnds /\ "FLOW_SEQUENCE_ENTRY_MAPPING_END" \in NodeEnds[state]
    BY <1>5 DEF NodeEnds, ParseFlowSequenceEntryMappingValue
  <2>2. \/ NodeOrEmpty(Here(1), {"FLOW-ENTRY", "FLOW-SEQUENCE-END"},
                       "FLOW_SEQUENCE_ENTRY_MAPPING_END", FALSE, FALSE)
        \/ EmptyScalar(Here(0), 0, "FLOW_SEQUENCE_ENTRY_MAPPING_END")
    BY <1>5 DEF ParseFlowSequenceEntryMappingValue
  <2> QED  BY <1>1, <2>1, <2>2, NodeInside
<1> QED  BY <1>2, <1>3, <1>4, <1>5

\* The end of a pair in a flow sequence pops no state.
LEMMA PairEndStep == ASSUME ParserInv, ParseFlowSequenceEntryMappingEnd PROVE StreamStep
<1>1. /\ state = "FLOW_SEQUENCE_ENTRY_MAPPING_END" /\ event'.type = "MAPPING-END" /\ UNCHANGED error
      /\ state' = "FLOW_SEQUENCE_ENTRY" /\ states' = states
  BY DEF ParseFlowSequenceEntryMappingEnd, Emit, Goto, Here
<1>2. Frames[state] = <<"item", "key">> /\ Frames["FLOW_SEQUENCE_ENTRY"] = <<"item">>
  BY <1>1, FramesTable
<1>3. Open = Levels(states) \o <<"item", "key">> /\ Open' = Levels(states) \o <<"item">>
  BY <1>1, <1>2 DEF Open, OpenOf, Roots, Levels
<1>4. /\ Levels(states) \in Seq(Expected) /\ Phase = "document" /\ Phase' = "document"
      /\ state' \notin Roots
  <2>1. state \in InDocument
    BY <1>1 DEF InDocument, Marked
  <2>2. Levels(states) \in Seq(Expected) /\ Phase = "document"
    BY <2>1, InsideFacts
  <2>3. Phase' = "document" /\ state' \notin Roots
    BY <1>1 DEF Phase, PhaseOf, Roots
  <2> QED  BY <2>2, <2>3
<1>5. /\ Open = Append(Levels(states) \o <<"item">>, "key")
      /\ Levels(states) \o <<"item">> \in Seq(Expected) /\ Len(Levels(states) \o <<"item">>) > 0
  BY <1>3, <1>4, PairLevels
<1>6. "key" \in Expected
  BY DEF Expected
<1>7. Front(Open) = Open' /\ Last(Open) = "key" /\ Len(Open) > 1
  <2> DEFINE f == Levels(states) \o <<"item">>
  <2>1. f \in Seq(Expected) /\ Len(f) > 0 /\ Open = Append(f, "key") /\ Open' = f
    BY <1>3, <1>5
  <2> HIDE DEF f
  <2>2. Front(Open) = f /\ Last(Open) = "key" /\ Len(Open) = Len(f) + 1
    BY <1>6, <2>1, FrontOfAppend
  <2> QED  BY <2>1, <2>2, LenProperties
<1>8. Stream!MappingEnd
  BY <1>4, <1>7, StreamIs
<1> QED  BY <1>1, <1>4, <1>8 DEF StreamStep, Moves

-----------------------------------------------------------------------------
(***************************************************************************)
(* The beginning and the end of the stream, and of a document.             *)
(***************************************************************************)
LEMMA OutsideOpen ==
  ASSUME ParserInv, state \in OutsideDocument
  PROVE  states = <<>> /\ Open = <<>>
<1>1. states = <<>>
  BY DEF ParserInv, Placed
<1>2. Levels(states) = <<>> /\ Frames[state] = <<>> /\ state \notin Roots
  BY <1>1, LevelsFacts, FramesTable DEF OutsideDocument, Roots
<1>3. <<>> \o <<>> = <<>>
  BY EmptySeq, ConcatEmptySeq
<1> QED  BY <1>1, <1>2, <1>3 DEF Open, OpenOf, Roots

LEMMA StreamStartStep == ASSUME ParserInv, ParseStreamStart PROVE StreamStep
<1>1. CASE Emit("STREAM-START", None, 1, {}, {}, {}) /\ Goto("IMPLICIT_DOCUMENT_START", Here(1))
  <2>1. /\ state = "STREAM_START" /\ state' = "IMPLICIT_DOCUMENT_START" /\ states' = states
        /\ event'.type = "STREAM-START" /\ UNCHANGED error
    BY <1>1 DEF ParseStreamStart, Emit, Goto, Here
  <2>2. Phase = "before" /\ Phase' = "between" /\ state' \notin Roots
    BY <2>1 DEF Phase, PhaseOf, Roots
  <2>3. Open' = Open
    BY <2>1, FramesTable DEF Open, OpenOf, Levels, OutsideDocument
  <2>4. Stream!StreamStart
    BY <2>2, <2>3, StreamIs
  <2> QED  BY <2>1, <2>2, <2>4 DEF StreamStep, Moves
<1>2. CASE Fail("parser", 0, {}, {})
  BY <1>2, RefuseStep
<1> QED  BY <1>1, <1>2 DEF ParseStreamStart

\* What the two ways a document begins have in common.
LEMMA DocumentBegins ==
  ASSUME ParserInv, InDocumentStart, event'.type = "DOCUMENT-START", UNCHANGED error,
         state' \in Roots, states' = Append(states, "DOCUMENT_END")
  PROVE  StreamStep
<1>1. states = <<>>
  BY OutsideOpen DEF InDocumentStart, OutsideDocument
<1>2. states' = <<"DOCUMENT_END">>
  BY <1>1
<1>3. Phase = "between" /\ Phase' = "document" /\ Open' = <<"root">>
  BY DEF Phase, PhaseOf, Open, OpenOf, InDocumentStart, Roots
<1>4. Stream!DocumentStart
  BY <1>3, StreamIs
<1> QED  BY <1>2, <1>4 DEF StreamStep, Moves

LEMMA DocumentStartStep == ASSUME ParserInv, ParseDocumentStart PROVE StreamStep
<1>1. InDocumentStart /\ (ImplicitDocument \/ ExplicitDocument \/ StreamEnd)
  BY DEF ParseDocumentStart
<1>2. ASSUME NEW kind \in {"parser", "memory"}, NEW n, NEW freed, Fail(kind, n, {}, freed)
      PROVE  StreamStep
  BY <1>2, RefuseStep
<1>3. CASE ImplicitDocument
  <2>1. CASE /\ Emit("DOCUMENT-START", None, 0, {}, {}, {})
             /\ state' = "BLOCK_NODE" /\ states' = Append(states, "DOCUMENT_END")
    <3>1. event'.type = "DOCUMENT-START" /\ UNCHANGED error /\ state' \in Roots
      BY <2>1 DEF Emit, Roots
    <3> QED  BY <1>1, <2>1, <3>1, DocumentBegins
  <2>2. CASE Fail("memory", 0, {}, {})
    BY <1>2, <2>2
  <2> QED  BY <1>3, <2>1, <2>2 DEF ImplicitDocument
<1>4. CASE ExplicitDocument
  <2>1. \/ \E n : Fail("parser", n, {}, Strings(n))
        \/ \E n : Fail("memory", n, {}, Strings(n))
        \/ \E n : /\ Emit("DOCUMENT-START", None, n, {}, {}, Strings(n))
                  /\ state' = "DOCUMENT_CONTENT" /\ states' = Append(states, "DOCUMENT_END")
    BY <1>4, Zenon DEF ExplicitDocument
  <2>2. CASE \E n : /\ Emit("DOCUMENT-START", None, n, {}, {}, Strings(n))
                    /\ state' = "DOCUMENT_CONTENT" /\ states' = Append(states, "DOCUMENT_END")
    <3>1. event'.type = "DOCUMENT-START" /\ UNCHANGED error /\ state' \in Roots
      BY <2>2 DEF Emit, Roots
    <3> QED  BY <1>1, <2>2, <3>1, DocumentBegins
  <2> QED  BY <1>2, <2>1, <2>2
<1>5. CASE StreamEnd
  <2>1. /\ event'.type = "STREAM-END" /\ UNCHANGED error /\ state' = "END" /\ states' = states
    BY <1>5 DEF StreamEnd, Emit, Goto, Here
  <2>2. Open = <<>> /\ states = <<>>
    BY <1>1, OutsideOpen DEF InDocumentStart, OutsideDocument
  <2>3. Phase = "between" /\ Phase' = "after" /\ state' \notin Roots
    BY <1>1, <2>1 DEF Phase, PhaseOf, InDocumentStart, Roots
  <2>4. Open' = Open
    <3>1. Frames[state] = <<>> /\ Frames[state'] = <<>> /\ state \notin Roots
      BY <1>1, <2>1, FramesTable DEF InDocumentStart, OutsideDocument, Roots
    <3> QED  BY <2>1, <2>3, <3>1 DEF Open, OpenOf, Levels, Roots
  <2>5. Stream!StreamEnd
    BY <2>3, <2>4, StreamIs
  <2> QED  BY <2>1, <2>3, <2>5 DEF StreamStep, Moves
<1> QED  BY <1>1, <1>3, <1>4, <1>5

\* The root node is the one the reader waits for.
LEMMA RootReady ==
  ASSUME ParserInv, RootAtBottom, state \in Roots
  PROVE  /\ Here(0) \in Calls /\ Ready(Here(0)) /\ states = <<"DOCUMENT_END">>
         /\ Waits(Levels(Append(<<>>, "DOCUMENT_END")))
<1>1. states = <<"DOCUMENT_END">> /\ Append(<<>>, "DOCUMENT_END") = <<"DOCUMENT_END">>
  BY DEF RootAtBottom
<1>2. "DOCUMENT_END" \in ReturnStates /\ <<>> \in Seq(ReturnStates)
  BY EmptySeq DEF ReturnStates
<1>3. Levels(Append(<<>>, "DOCUMENT_END")) = <<"done">>
  <2>1. Levels(Append(<<>>, "DOCUMENT_END")) = Levels(<<>>) \o Frames["DOCUMENT_END"]
    BY <1>2, LevelsFacts
  <2>2. Levels(<<>>) = <<>> /\ Frames["DOCUMENT_END"] = <<"done">>
    BY LevelsFacts, FramesTable
  <2>3. <<"done">> \in Seq(Expected)
    BY DEF Expected
  <2>4. <<>> \o <<"done">> = <<"done">>
    BY <2>3, ConcatEmptySeq
  <2> QED  BY <2>1, <2>2, <2>4
<1>4. Open = <<"root">> /\ Phase = "document"
  BY DEF Open, OpenOf, Roots, Phase, PhaseOf
<1>5. <<"root">> # <<>> /\ Last(<<"root">>) = "root"
  BY DEF Last
<1>6. Waits(<<"done">>)
  BY <1>4, <1>5, FillTable DEF Waits
<1>7. Here(0) \in Calls /\ Here(0).states = states
  BY StateCalls
<1>8. states \in Seq(ReturnStates) /\ states # <<>>
  <2>1. state \in InDocument \ {"DOCUMENT_END"}
    BY DEF InDocument, Roots
  <2> QED  BY <2>1, InsideFacts
<1> QED  BY <1>1, <1>3, <1>6, <1>7, <1>8 DEF Ready

LEMMA RootNodeStep ==
  ASSUME ParserInv, RootAtBottom, ParseRootNode \/ ParseDocumentContent
  PROVE  StreamStep
<1>1. state \in Roots
  BY DEF ParseRootNode, ParseDocumentContent, Roots
<1>2. /\ Here(0) \in Calls /\ Ready(Here(0)) /\ states = <<"DOCUMENT_END">>
      /\ Waits(Levels(Append(<<>>, "DOCUMENT_END")))
  BY <1>1, RootReady
<1>3. CASE Node(Here(0), TRUE, FALSE)
  BY <1>2, <1>3, NodeStep
<1>4. CASE EmptyScalar([Here(0) EXCEPT !.states = Front(@)], 0, Last(states))
  <2>1. Here(0) = [n |-> 0, states |-> states, marks |-> marks]
    BY DEF Here
  <2>2. [Here(0) EXCEPT !.states = Front(@)].states = Front(states)
    BY <1>2, <2>1, CallUpdates
  <2>3. Front(states) = <<>> /\ Last(states) = "DOCUMENT_END"
    <3>1. "DOCUMENT_END" \in ReturnStates /\ <<>> \in Seq(ReturnStates)
          /\ states = Append(<<>>, "DOCUMENT_END")
      BY <1>2, EmptySeq DEF ReturnStates
    <3> QED  BY <3>1, FrontOfAppend
  <2> DEFINE c == [Here(0) EXCEPT !.states = Front(@)]
  <2>4. c.states = <<>> /\ <<>> \in Seq(ReturnStates) /\ "DOCUMENT_END" \in ReturnStates
        /\ EmptyScalar(c, 0, "DOCUMENT_END")
    BY <1>4, <2>2, <2>3, EmptySeq DEF ReturnStates
  <2> HIDE DEF c
  <2> QED  BY <1>2, <2>4, EmptyScalarStep
<1> QED  BY <1>3, <1>4 DEF ParseRootNode, ParseDocumentContent

LEMMA DocumentEndStep == ASSUME ParserInv, ParseDocumentEnd PROVE StreamStep
<1>1. /\ state = "DOCUMENT_END" /\ event'.type = "DOCUMENT-END" /\ UNCHANGED error
      /\ state' = "DOCUMENT_START" /\ states' = states
  BY DEF ParseDocumentEnd, Emit
<1>2. states = <<>>
  BY <1>1 DEF ParserInv, Placed
<1>3. /\ Levels(states) = <<>> /\ Levels(states') = <<>>
      /\ Frames[state] = <<"done">> /\ Frames[state'] = <<>>
  BY <1>1, <1>2, LevelsFacts, FramesTable DEF OutsideDocument
<1>4. <<"done">> \in Seq(Expected) /\ <<>> \in Seq(Expected)
  BY EmptySeq DEF Expected
<1>5. <<>> \o <<"done">> = <<"done">> /\ <<>> \o <<>> = <<>>
  BY <1>4, ConcatEmptySeq
<1>6. Open = <<"done">>
  BY <1>1, <1>3, <1>5 DEF Open, OpenOf
<1>7. Open' = <<>>
  <2>1. Open' = Levels(states') \o Frames[state']
    BY <1>1 DEF Open, OpenOf, Levels
  <2> QED  BY <1>3, <1>5, <2>1
<1>8. Phase = "document" /\ Phase' = "between" /\ state' \notin Roots
  BY <1>1 DEF Phase, PhaseOf, Roots
<1>9. Stream!DocumentEnd
  BY <1>6, <1>7, <1>8, StreamIs
<1> QED  BY <1>1, <1>8, <1>9 DEF StreamStep, Moves

-----------------------------------------------------------------------------
(***************************************************************************)
(* Every call is a step of the stream.                                     *)
(***************************************************************************)
LEMMA ParseStep == ASSUME ParserInv, RootAtBottom, Parse PROVE StreamStep
<1>1. CASE ScannerFails
  BY <1>1, RefuseStep DEF ScannerFails
<1> QED  BY <1>1, StreamStartStep, DocumentStartStep, RootNodeStep, DocumentEndStep,
            BlockSequenceStep, IndentlessStep, BlockMappingStep, ValueStep,
            FlowSequenceStep, FlowMappingStep, PairEndStep
         DEF Parse

LEMMA MovesNext == ASSUME Moves(event'.type) PROVE Stream!Next
<1>1. event'.type \in Stream!Types
  BY DEF Moves, Stream!Types
<1>2. Stream!Move(event'.type)
  BY DEF Moves, Stream!Move
<1> QED  BY <1>1, <1>2 DEF Stream!Next

LEMMA StandsNext == ASSUME event'.type = "NO", UNCHANGED <<state, states>> PROVE Stream!Next
<1>1. "NO" \in Stream!Types
  BY DEF Stream!Types
<1>2. Stream!Move("NO")
  BY DEF Stream!Move
<1> QED  BY <1>1, <1>2 DEF Stream!Next

StreamInv == ParserInv /\ RootAtBottom

LEMMA StreamInit == Init => StreamInv /\ Stream!Init
<1> SUFFICES ASSUME Init PROVE StreamInv /\ Stream!Init
  OBVIOUS
<1>1. ParserInv
  BY InitInv
<1>2. state = "STREAM_START" /\ event.type = "NO"
  BY DEF Init, NoEvent
<1>3. Open = <<>> /\ Phase = "before" /\ state \notin Roots
  BY <1>1, <1>2, OutsideOpen DEF OutsideDocument, Phase, PhaseOf, Roots
<1> QED  BY <1>1, <1>2, <1>3, StreamIs DEF StreamInv, RootAtBottom

LEMMA StreamUnmoved == ASSUME UNCHANGED <<state, states, event>> PROVE UNCHANGED Stream!streamVars
BY DEF Stream!streamVars

LEMMA StreamNext ==
  StreamInv /\ [Next]_parserVars =>
    StreamInv' /\ [Stream!Next]_(Stream!streamVars) /\ [Scan \/ Stream!Next]_parserVars
<1> SUFFICES ASSUME StreamInv, [Next]_parserVars
             PROVE  /\ StreamInv' /\ [Stream!Next]_(Stream!streamVars)
                    /\ [Scan \/ Stream!Next]_parserVars
  OBVIOUS
<1>1. ParserInv'
  BY StepInv DEF StreamInv
<1>2. UNCHANGED <<state, states>> => RootAtBottom'
  BY DEF StreamInv, RootAtBottom
<1>3. CASE Scan \/ UNCHANGED parserVars
  <2>1. UNCHANGED <<state, states, event>>
    BY <1>3 DEF Scan, parserVars
  <2> QED  BY <1>1, <1>2, <1>3, <2>1, StreamUnmoved DEF StreamInv
<1>4. CASE Parse
  <2>1. CASE event'.type = "NO" /\ UNCHANGED <<state, states>>
    BY <1>1, <1>2, <2>1, StandsNext DEF StreamInv
  <2>2. CASE Moves(event'.type) /\ (state' \in Roots => states' = <<"DOCUMENT_END">>)
    <3>1. RootAtBottom'
      BY <2>2 DEF RootAtBottom
    <3> QED  BY <1>1, <2>2, <3>1, MovesNext DEF StreamInv
  <2> QED  BY <1>4, <2>1, <2>2, ParseStep DEF StreamInv, StreamStep
<1> QED  BY <1>3, <1>4 DEF Next

-----------------------------------------------------------------------------
(***************************************************************************)
(* Theorems about the events.                                              *)
(***************************************************************************)
\* Whatever the tokens are and whatever fails, the events yaml_parser_parse returns are those of a
\* stream, from the first call to the last, with any caller: every call returns the event that announces
\* the move it makes of the parser's stack of states, as EventStream says, and one that fails moves nothing.
THEOREM EventsOfParser == Spec => EventsAreAStream
<1>1. Spec => /\ Stream!Init /\ [][Stream!Next]_(Stream!streamVars)
              /\ [][Scan \/ Stream!Next]_parserVars
  BY StreamInit, StreamNext, PTL DEF Spec
<1> QED  BY <1>1 DEF EventsAreAStream, Stream!Spec

\* The same with the composer as the caller.
THEOREM EventsForLoader == LoaderSpec => EventsAreAStream
<1>1. LoaderInit => StreamInv /\ Stream!Init
  BY StreamInit DEF LoaderInit
<1>2. StreamInv /\ [LoaderNext]_vars =>
        StreamInv' /\ [Stream!Next]_(Stream!streamVars) /\ [Scan \/ Stream!Next]_parserVars
  BY LoaderStepIsParserStep, StreamNext
<1>3. LoaderSpec => /\ Stream!Init /\ [][Stream!Next]_(Stream!streamVars)
                    /\ [][Scan \/ Stream!Next]_parserVars
  BY <1>1, <1>2, PTL DEF LoaderSpec
<1> QED  BY <1>3 DEF EventsAreAStream, Stream!Spec

-----------------------------------------------------------------------------
(***************************************************************************)
(* The document: the invariant of the composer.                            *)
(***************************************************************************)
Kinds == {"scalar", "sequence", "mapping"}
Nodes == [kind : Kinds, children : Seq(Nat)]
OpenCalls == [index : Nat \ {0}, key : Nat]

Links(ns, i) == {ns[i].children[k] : k \in 1..Len(ns[i].children)}
ParentsIn(ns, j) == {i \in 1..(j - 1) : j \in Links(ns, i)}
AliasIndexes(al) == {al[i].index : i \in 1..Len(al)}

IsSeq(s) == \E S : s \in Seq(S)

\* The nodes a document is made of, and the calls that are open on them, the outer ones first.
Linked(ns) ==
  /\ ns \in Seq(Nodes)
  /\ \A i \in 1..Len(ns) :
       /\ Links(ns, i) \subseteq 1..Len(ns)
       /\ ns[i].kind = "mapping" => Len(ns[i].children) % 2 = 0

Framed(ns, fs) ==
  /\ fs \in Seq(OpenCalls)
  /\ \A i \in 1..Len(fs) :
       /\ fs[i].index \in 1..Len(ns) /\ fs[i].key \in 0..Len(ns)
       /\ ns[fs[i].index].kind \in {"sequence", "mapping"}
       /\ ns[fs[i].index].kind = "sequence" => fs[i].key = 0
  /\ \A i, m \in 1..Len(fs) : i < m => fs[i].index < fs[m].index

\* x is a node that is about to be attached to the innermost call.
InHand(fs, x, j) == fs # <<>> /\ x = j
HasKey(fs, j) == \E i \in 1..Len(fs) : fs[i].key = j

Parented(ns, fs, x) ==
  \A j \in 2..Len(ns) :
    \/ ParentsIn(ns, j) # {}
    \/ \E i \in 2..Len(fs) : fs[i].index = j
    \/ \E i \in 1..Len(fs) : fs[i].key = j /\ fs[i].index < j
    \/ InHand(fs, x, j) /\ fs[Len(fs)].index < j

Single(ns, fs, al, x) ==
  \A j \in (2..Len(ns)) \ AliasIndexes(al) :
    /\ \A a, b \in ParentsIn(ns, j) : a = b
    /\ InHand(fs, x, j) => ParentsIn(ns, j) = {} /\ ~HasKey(fs, j)
    /\ HasKey(fs, j) => ParentsIn(ns, j) = {}
    /\ \A i, m \in 1..Len(fs) : fs[i].key = j /\ fs[m].key = j => i = m
    /\ \A i \in 2..Len(fs) :
         fs[i].index = j => ParentsIn(ns, j) = {} /\ ~HasKey(fs, j) /\ ~InHand(fs, x, j)

Tree(ns, fs, al, x) ==
  Linked(ns) /\ Framed(ns, fs) /\ Parented(ns, fs, x) /\ Single(ns, fs, al, x)
  /\ AliasIndexes(al) \subseteq 1..Len(ns)

LevelOf(kind, key, inner) ==
  IF kind = "sequence" THEN "item" ELSE IF key = 0 <=> inner THEN "key" ELSE "value"

Matches(ns, fs, open, inner) ==
  /\ Len(open) = Len(fs) + 1
  /\ open[1] = IF fs = <<>> /\ ns = <<>> THEN "root" ELSE "done"
  /\ \A i \in 1..Len(fs) :
       open[i + 1] = LevelOf(ns[fs[i].index].kind, fs[i].key, inner /\ i = Len(fs))

LoaderInv ==
  /\ IsSeq(aliases)
  /\ loaded \in {"nothing", "started", "document", "done", "failed", "ended"}
  /\ loaded = "nothing" => Phase = "before" /\ nodes = <<>> /\ aliases = <<>> /\ frames = <<>>
  /\ loaded = "started" => Phase = "between" /\ nodes = <<>> /\ aliases = <<>> /\ frames = <<>>
  /\ loaded = "document" => /\ Phase = "document" /\ Tree(nodes, frames, aliases, 0)
                            /\ Matches(nodes, frames, Open, TRUE)
  /\ loaded = "done" => /\ Phase = "between" /\ aliases = <<>> /\ frames = <<>> /\ nodes # <<>>
                        /\ Linked(nodes) /\ Parented(nodes, <<>>, 0)
  /\ loaded \in {"failed", "ended"} => nodes = <<>> /\ aliases = <<>> /\ frames = <<>>

-----------------------------------------------------------------------------
(***************************************************************************)
(* What Attach does: ms and gs are the nodes and the calls after it.       *)
(***************************************************************************)
Attached(ns, fs, x, ms, gs) ==
  LET n == Len(fs)
      a == fs[n].index
  IN
  /\ ms \in Seq(Nodes) /\ Len(ms) = Len(ns)
  /\ \A i \in 1..Len(ns) : ms[i].kind = ns[i].kind /\ (i # a => ms[i] = ns[i])
  /\ gs \in Seq(OpenCalls) /\ Len(gs) = n
  /\ \A i \in 1..n : gs[i].index = fs[i].index /\ (i # n => gs[i] = fs[i])
  /\ \/ /\ ns[a].kind = "sequence"
        /\ Links(ms, a) = Links(ns, a) \cup {x}
        /\ gs[n].key = fs[n].key
     \/ ns[a].kind # "sequence" /\ fs[n].key = 0 /\ ms = ns /\ gs[n].key = x
     \/ /\ ns[a].kind # "sequence" /\ fs[n].key # 0
        /\ Links(ms, a) = Links(ns, a) \cup {fs[n].key, x}
        /\ Len(ms[a].children) = Len(ns[a].children) + 2
        /\ gs[n].key = 0

LEMMA LinksAppend ==
  ASSUME NEW s \in Seq(Nat), NEW x \in Nat, NEW y \in Nat
  PROVE  /\ {Append(s, x)[k] : k \in 1..Len(Append(s, x))} = {s[k] : k \in 1..Len(s)} \cup {x}
         /\ {(s \o <<y, x>>)[k] : k \in 1..Len(s \o <<y, x>>)} = {s[k] : k \in 1..Len(s)} \cup {y, x}
         /\ Append(s, x) \in Seq(Nat) /\ s \o <<y, x>> \in Seq(Nat) /\ Len(s \o <<y, x>>) = Len(s) + 2
<1> DEFINE t == Append(s, x)
           z == <<y, x>>
           u == s \o z
<1>1. /\ t \in Seq(Nat) /\ Len(s) \in Nat /\ Len(t) = Len(s) + 1
      /\ \A i \in 1..Len(s) : t[i] = s[i]
      /\ t[Len(s) + 1] = x
  BY LenProperties, AppendProperties
<1>2. z \in Seq(Nat) /\ Len(z) = 2 /\ z[1] = y /\ z[2] = x
  OBVIOUS
<1> HIDE DEF z, t
<1>3. /\ u \in Seq(Nat) /\ Len(u) = Len(s) + Len(z)
      /\ \A i \in 1..(Len(s) + Len(z)) : u[i] = IF i <= Len(s) THEN s[i] ELSE z[i - Len(s)]
  BY <1>2, ConcatProperties
<1> HIDE DEF u
<1>4. /\ \A i \in 1..Len(s) : u[i] = s[i]
      /\ u[Len(s) + 1] = y /\ u[Len(s) + 2] = x
  <2>1. \A i \in 1..Len(s) : i \in 1..(Len(s) + Len(z)) /\ i <= Len(s)
    BY <1>1, <1>2
  <2>2. /\ Len(s) + 1 \in 1..(Len(s) + Len(z)) /\ ~(Len(s) + 1 <= Len(s)) /\ (Len(s) + 1) - Len(s) = 1
        /\ Len(s) + 2 \in 1..(Len(s) + Len(z)) /\ ~(Len(s) + 2 <= Len(s)) /\ (Len(s) + 2) - Len(s) = 2
    BY <1>1, <1>2
  <2>3. u[Len(s) + 1] = z[1] /\ u[Len(s) + 2] = z[2]
    BY <1>3, <2>2
  <2> QED  BY <1>2, <1>3, <2>1, <2>3
<1>5. {t[k] : k \in 1..Len(t)} = {s[k] : k \in 1..Len(s)} \cup {x}
  <2>1. \A k \in 1..Len(t) : k \in 1..Len(s) \/ k = Len(s) + 1
    BY <1>1
  <2>2. \A k \in 1..Len(s) : k \in 1..Len(t)
    BY <1>1
  <2>3. Len(s) + 1 \in 1..Len(t)
    BY <1>1
  <2> QED  BY <1>1, <2>1, <2>2, <2>3
<1>6. {u[k] : k \in 1..Len(u)} = {s[k] : k \in 1..Len(s)} \cup {y, x}
  <2>1. \A k \in 1..Len(u) : k \in 1..Len(s) \/ k = Len(s) + 1 \/ k = Len(s) + 2
    BY <1>1, <1>2, <1>3
  <2>2. \A k \in 1..Len(s) : k \in 1..Len(u)
    BY <1>1, <1>2, <1>3
  <2>3. Len(s) + 1 \in 1..Len(u) /\ Len(s) + 2 \in 1..Len(u)
    BY <1>1, <1>2, <1>3
  <2> QED  BY <1>4, <2>1, <2>2, <2>3
<1> QED  BY <1>1, <1>2, <1>3, <1>5, <1>6 DEF t, u, z

LEMMA NodeSet ==
  ASSUME NEW ns \in Seq(Nodes), NEW a \in 1..Len(ns), NEW c \in Seq(Nat), NEW ms,
         ms = [ns EXCEPT ![a] = [kind |-> ns[a].kind, children |-> c]]
  PROVE  /\ ms \in Seq(Nodes) /\ Len(ms) = Len(ns)
         /\ \A i \in 1..Len(ns) : ms[i].kind = ns[i].kind /\ (i # a => ms[i] = ns[i])
         /\ ms[a].children = c
<1> DEFINE e == [kind |-> ns[a].kind, children |-> c]
<1>1. ns[a] \in Nodes
  BY ElementOfSeq
<1>2. e \in Nodes /\ e.kind = ns[a].kind /\ e.children = c
  BY <1>1 DEF Nodes
<1> HIDE DEF e
<1>3. /\ ms \in Seq(Nodes) /\ Len(ms) = Len(ns)
      /\ \A i \in 1..Len(ns) : ms[i] = IF i = a THEN e ELSE ns[i]
  <2>1. ms = [ns EXCEPT ![a] = e]
    BY DEF e
  <2> QED  BY <1>2, <2>1, ExceptSeq
<1> QED  BY <1>2, <1>3

LEMMA CallSet ==
  ASSUME NEW fs \in Seq(OpenCalls), fs # <<>>, NEW v \in Nat, NEW gs,
         gs = [fs EXCEPT ![Len(fs)] = [index |-> fs[Len(fs)].index, key |-> v]]
  PROVE  /\ gs \in Seq(OpenCalls) /\ Len(gs) = Len(fs)
         /\ \A i \in 1..Len(fs) : gs[i].index = fs[i].index /\ (i # Len(fs) => gs[i] = fs[i])
         /\ gs[Len(fs)].key = v
<1> DEFINE n == Len(fs)
           e == [index |-> fs[n].index, key |-> v]
<1>1. n \in 1..n /\ n \in Nat
  BY EmptySeq, LenProperties
<1> HIDE DEF n
<1>2. fs[n] \in OpenCalls
  BY <1>1, ElementOfSeq DEF n
<1>3. e \in OpenCalls /\ e.index = fs[n].index /\ e.key = v
  BY <1>2 DEF OpenCalls
<1> HIDE DEF e
<1>4. /\ gs \in Seq(OpenCalls) /\ Len(gs) = Len(fs)
      /\ \A i \in 1..n : gs[i] = IF i = n THEN e ELSE fs[i]
  <2>1. gs = [fs EXCEPT ![n] = e] /\ n \in 1..Len(fs)
    BY <1>1 DEF e, n
  <2> QED  BY <1>3, <2>1, ExceptSeq DEF n
<1> QED  BY <1>1, <1>3, <1>4 DEF n

LEMMA AttachIs ==
  ASSUME NEW ns \in Seq(Nodes), NEW fs \in Seq(OpenCalls), fs # <<>>, fs[Len(fs)].index \in 1..Len(ns),
         NEW x \in Nat, Attach(ns, fs, x)
  PROVE  Attached(ns, fs, x, nodes', frames')
<1> DEFINE n == Len(fs)
           a == fs[n].index
           k == fs[n].key
           old == ns[a].children
<1>1. n \in 1..n /\ Last(fs) = fs[n]
  BY EmptySeq, LenProperties DEF Last
<1>2. a \in 1..Len(ns) /\ k \in Nat /\ old \in Seq(Nat)
  <2>1. fs[n] \in OpenCalls
    BY <1>1, ElementOfSeq
  <2>2. ns[a] \in Nodes
    BY ElementOfSeq
  <2> QED  BY <2>1, <2>2 DEF OpenCalls, Nodes
<1>3. \A c : [ns EXCEPT ![a].children = c] = [ns EXCEPT ![a] = [kind |-> ns[a].kind, children |-> c]]
  <2>1. ns[a] \in [kind : Kinds, children : Seq(Nat)]
    BY <1>2, ElementOfSeq DEF Nodes
  <2>2. \A r \in [kind : Kinds, children : Seq(Nat)] : \A c :
          [r EXCEPT !.children = c] = [kind |-> r.kind, children |-> c]
    OBVIOUS
  <2>3. \A c : [ns[a] EXCEPT !.children = c] = [kind |-> ns[a].kind, children |-> c]
    BY <2>1, <2>2
  <2> QED  BY <2>3
<1>4. \A v : [fs EXCEPT ![n].key = v] = [fs EXCEPT ![n] = [index |-> fs[n].index, key |-> v]]
  <2>1. fs[n] \in [index : Nat \ {0}, key : Nat]
    BY <1>1, ElementOfSeq DEF OpenCalls
  <2>2. \A r \in [index : Nat \ {0}, key : Nat] : \A v : [r EXCEPT !.key = v] = [index |-> r.index, key |-> v]
    OBVIOUS
  <2>3. \A v : [fs[n] EXCEPT !.key = v] = [index |-> fs[n].index, key |-> v]
    BY <2>1, <2>2
  <2> QED  BY <2>3
<1>5. CASE ns[a].kind = "sequence"
  <2>1. nodes' = [ns EXCEPT ![a].children = Append(old, x)] /\ frames' = fs
    BY <1>1, <1>5 DEF Attach
  <2> DEFINE c == Append(old, x)
  <2>2. c \in Seq(Nat) /\ {c[m] : m \in 1..Len(c)} = {old[m] : m \in 1..Len(old)} \cup {x}
    BY <1>2, LinksAppend
  <2> HIDE DEF c
  <2>3. nodes' = [ns EXCEPT ![a] = [kind |-> ns[a].kind, children |-> c]]
    BY <1>3, <2>1 DEF c
  <2>4. /\ nodes' \in Seq(Nodes) /\ Len(nodes') = Len(ns)
        /\ \A i \in 1..Len(ns) : nodes'[i].kind = ns[i].kind /\ (i # a => nodes'[i] = ns[i])
        /\ nodes'[a].children = c
    <3> HIDE DEF a
    <3>1. \A ms : ms = [ns EXCEPT ![a] = [kind |-> ns[a].kind, children |-> c]] =>
            /\ ms \in Seq(Nodes) /\ Len(ms) = Len(ns)
            /\ \A i \in 1..Len(ns) : ms[i].kind = ns[i].kind /\ (i # a => ms[i] = ns[i])
            /\ ms[a].children = c
      BY <1>2, <2>2, NodeSet
    <3> QED  BY <2>3, <3>1
  <2>5. Links(nodes', a) = Links(ns, a) \cup {x}
    BY <2>2, <2>4 DEF Links
  <2> QED  BY <1>1, <1>5, <2>1, <2>4, <2>5 DEF Attached
<1>6. CASE ns[a].kind # "sequence" /\ k = 0
  <2>1. nodes' = ns /\ frames' = [fs EXCEPT ![n].key = x]
    BY <1>1, <1>6 DEF Attach
  <2>2. frames' = [fs EXCEPT ![n] = [index |-> fs[n].index, key |-> x]]
    BY <1>4, <2>1
  <2>3. /\ frames' \in Seq(OpenCalls) /\ Len(frames') = n
        /\ \A i \in 1..n : frames'[i].index = fs[i].index /\ (i # n => frames'[i] = fs[i])
        /\ frames'[n].key = x
    BY <2>2, CallSet
  <2> QED  BY <1>6, <2>1, <2>3 DEF Attached
<1>7. CASE ns[a].kind # "sequence" /\ k # 0
  <2>1. /\ nodes' = [ns EXCEPT ![a].children = old \o <<k, x>>]
        /\ frames' = [fs EXCEPT ![n].key = 0]
    BY <1>1, <1>7 DEF Attach
  <2> DEFINE c == old \o <<k, x>>
  <2>2. /\ c \in Seq(Nat) /\ {c[m] : m \in 1..Len(c)} = {old[m] : m \in 1..Len(old)} \cup {k, x}
        /\ Len(c) = Len(old) + 2
    <3> HIDE DEF old, k
    <3> QED  BY <1>2, LinksAppend
  <2> HIDE DEF c
  <2>3. nodes' = [ns EXCEPT ![a] = [kind |-> ns[a].kind, children |-> c]]
    BY <1>3, <2>1 DEF c
  <2>4. /\ nodes' \in Seq(Nodes) /\ Len(nodes') = Len(ns)
        /\ \A i \in 1..Len(ns) : nodes'[i].kind = ns[i].kind /\ (i # a => nodes'[i] = ns[i])
        /\ nodes'[a].children = c
    <3> HIDE DEF a
    <3>1. \A ms : ms = [ns EXCEPT ![a] = [kind |-> ns[a].kind, children |-> c]] =>
            /\ ms \in Seq(Nodes) /\ Len(ms) = Len(ns)
            /\ \A i \in 1..Len(ns) : ms[i].kind = ns[i].kind /\ (i # a => ms[i] = ns[i])
            /\ ms[a].children = c
      BY <1>2, <2>2, NodeSet
    <3> QED  BY <2>3, <3>1
  <2>5. Links(nodes', a) = Links(ns, a) \cup {k, x}
    BY <2>2, <2>4 DEF Links
  <2> DEFINE v == 0
  <2>6. frames' = [fs EXCEPT ![n] = [index |-> fs[n].index, key |-> v]] /\ v \in Nat
    BY <1>4, <2>1
  <2>7. /\ frames' \in Seq(OpenCalls) /\ Len(frames') = n
        /\ \A i \in 1..n : frames'[i].index = fs[i].index /\ (i # n => frames'[i] = fs[i])
        /\ frames'[n].key = v
    <3> HIDE DEF v
    <3> QED  BY <2>6, CallSet
  <2> QED  BY <1>7, <2>2, <2>4, <2>5, <2>7 DEF Attached
<1> QED  BY <1>5, <1>6, <1>7

\* Attaching the node in hand leaves a tree with none in hand.
LEMMA AttachTree ==
  ASSUME NEW ns, NEW fs, NEW al, NEW x \in 1..Len(ns), NEW ms, NEW gs, fs # <<>>,
         Tree(ns, fs, al, x), Attached(ns, fs, x, ms, gs)
  PROVE  Tree(ms, gs, al, 0)
<1> DEFINE n == Len(fs)
           a == fs[n].index
           k == fs[n].key
           N == Len(ns)
           L(i) == Links(ns, i)
           M(i) == Links(ms, i)
           P(j) == ParentsIn(ns, j)
           Q(j) == ParentsIn(ms, j)
<1>1. /\ n \in Nat \ {0} /\ N \in Nat /\ fs \in Seq(OpenCalls) /\ ns \in Seq(Nodes)
      /\ a \in 1..N /\ k \in 0..N /\ x \in 1..N /\ x \in Nat
      /\ ns[a].kind \in {"sequence", "mapping"}
      /\ ns[a].kind = "sequence" => k = 0
  <2>1. fs \in Seq(OpenCalls) /\ ns \in Seq(Nodes)
    BY DEF Tree, Framed, Linked
  <2>2. n \in Nat \ {0} /\ N \in Nat
    BY <2>1, EmptySeq, LenProperties
  <2>3. n \in 1..n
    BY <2>2
  <2> QED  BY <2>1, <2>2, <2>3 DEF Tree, Framed
<1>2. /\ ms \in Seq(Nodes) /\ Len(ms) = N
      /\ \A i \in 1..N : ms[i].kind = ns[i].kind /\ (i # a => ms[i] = ns[i])
      /\ gs \in Seq(OpenCalls) /\ Len(gs) = n
      /\ \A i \in 1..n : gs[i].index = fs[i].index /\ (i # n => gs[i] = fs[i])
  BY DEF Attached
<1>3. PICK Add :
        /\ M(a) = L(a) \cup Add
        /\ \/ ns[a].kind = "sequence" /\ Add = {x} /\ gs[n].key = k
           \/ ns[a].kind # "sequence" /\ Add = {} /\ k = 0 /\ gs[n].key = x /\ ms[a] = ns[a]
           \/ /\ ns[a].kind # "sequence" /\ Add = {k, x} /\ k # 0 /\ gs[n].key = 0
              /\ Len(ms[a].children) = Len(ns[a].children) + 2
  <2>1. CASE ns[a].kind = "sequence"
    BY <2>1 DEF Attached
  <2>2. CASE ns[a].kind # "sequence" /\ k = 0
    <3>1. M(a) = L(a) \cup {}
      BY <2>2 DEF Attached
    <3> QED  BY <2>2, <3>1 DEF Attached
  <2>3. CASE ns[a].kind # "sequence" /\ k # 0
    BY <2>3 DEF Attached
  <2> QED  BY <2>1, <2>2, <2>3
<1>4. \A i \in 1..N : i # a => M(i) = L(i)
  BY <1>2 DEF Links
<1> HIDE DEF L, M
<1>5. \A i \in 1..N : L(i) \subseteq 1..N
  BY DEF Tree, Linked, L
<1>6. Add \subseteq 1..N
  BY <1>1, <1>3
<1>7. \A j : P(j) = {i \in 1..(j - 1) : j \in L(i)} /\ Q(j) = {i \in 1..(j - 1) : j \in M(i)}
  BY DEF ParentsIn, L, M
<1>8. /\ \A j \in 1..N : P(j) \subseteq Q(j) /\ Q(j) \subseteq P(j) \cup {a}
      /\ \A j \in 1..N : j \notin Add => Q(j) = P(j)
      /\ \A j \in Add : a < j => a \in Q(j)
  <2>1. \A j \in 1..N : \A i \in 1..(j - 1) : i \in 1..N
    BY <1>1
  <2>2. \A j \in 1..N : P(j) \subseteq Q(j)
    BY <1>3, <1>4, <1>7, <2>1
  <2>3. \A j \in 1..N : Q(j) \subseteq P(j) \cup {a}
    BY <1>3, <1>4, <1>7, <2>1
  <2>4. \A j \in 1..N : j \notin Add => Q(j) = P(j)
    <3>1. ASSUME NEW j \in 1..N, j \notin Add
          PROVE  \A i \in 1..(j - 1) : j \in M(i) <=> j \in L(i)
      BY <1>3, <1>4, <2>1, <3>1
    <3> QED  BY <1>7, <3>1
  <2>5. \A j \in Add : a < j => a \in Q(j)
    <3>1. ASSUME NEW j \in Add, a < j
          PROVE  a \in 1..(j - 1)
      BY <1>1, <1>6, <3>1
    <3> QED  BY <1>3, <1>7, <3>1
  <2> QED  BY <2>2, <2>3, <2>4, <2>5
<1> HIDE DEF P, Q, n, N
<1>9. Linked(ms)
  <2>1. \A i \in 1..N : M(i) \subseteq 1..N
    BY <1>3, <1>4, <1>5, <1>6
  <2>2. ASSUME NEW i \in 1..N, ms[i].kind = "mapping"
        PROVE  Len(ms[i].children) % 2 = 0
    <3>1. ns[i].kind = "mapping" /\ Len(ns[i].children) % 2 = 0
      BY <1>2, <2>2 DEF Tree, Linked, N
    <3>2. CASE ms[i] = ns[i]
      BY <3>1, <3>2
    <3>3. CASE Len(ms[i].children) = Len(ns[i].children) + 2
      <4>1. ns[i] \in Nodes
        BY <1>1, ElementOfSeq DEF N
      <4>2. Len(ns[i].children) \in Nat
        BY <4>1, LenProperties DEF Nodes
      <4>3. \A m \in Nat : m % 2 = 0 => (m + 2) % 2 = 0
        OBVIOUS
      <4> HIDE DEF N
      <4> QED  BY <3>1, <3>3, <4>2, <4>3
    <3>4. CASE i # a
      BY <1>2, <3>2, <3>4
    <3>5. CASE i = a
      <4>1. ns[a].kind # "sequence"
        BY <3>1, <3>5
      <4> QED  BY <1>3, <3>2, <3>3, <3>5, <4>1
    <3> QED  BY <3>4, <3>5
  <2> QED  BY <1>2, <2>1, <2>2 DEF Linked, M
<1>10. Framed(ms, gs)
  <2>1. ASSUME NEW i \in 1..n
        PROVE  /\ gs[i].index \in 1..N /\ gs[i].key \in 0..N
               /\ ms[gs[i].index].kind \in {"sequence", "mapping"}
               /\ ms[gs[i].index].kind = "sequence" => gs[i].key = 0
    <3>1. /\ fs[i].index \in 1..N /\ fs[i].key \in 0..N
          /\ ns[fs[i].index].kind \in {"sequence", "mapping"}
          /\ ns[fs[i].index].kind = "sequence" => fs[i].key = 0
      BY DEF Tree, Framed, n, N
    <3>2. gs[i].index = fs[i].index /\ ms[fs[i].index].kind = ns[fs[i].index].kind
      BY <1>2, <3>1
    <3>3. CASE i # n
      BY <1>2, <3>1, <3>2, <3>3
    <3>4. CASE i = n
      <4>1. gs[n].key \in 0..N /\ (ns[a].kind = "sequence" => gs[n].key = 0)
        BY <1>1, <1>3
      <4> QED  BY <3>1, <3>2, <3>4, <4>1
    <3> QED  BY <3>3, <3>4
  <2>2. \A i, m \in 1..n : i < m => gs[i].index < gs[m].index
    BY <1>2 DEF Tree, Framed, n
  <2> QED  BY <1>2, <2>1, <2>2 DEF Framed
<1>11. Parented(ms, gs, 0)
  <2>1. ASSUME NEW j \in 2..N
        PROVE  \/ Q(j) # {}
               \/ \E i \in 2..n : gs[i].index = j
               \/ \E i \in 1..n : gs[i].key = j /\ gs[i].index < j
    <3>1. j \in 1..N /\ j # 0 /\ n \in 1..n
      BY <1>1
    <3>2. \/ P(j) # {}
          \/ \E i \in 2..n : fs[i].index = j
          \/ \E i \in 1..n : fs[i].key = j /\ fs[i].index < j
          \/ x = j /\ a < j
      BY DEF Tree, Parented, InHand, P, n, N
    <3>3. CASE P(j) # {}
      BY <1>8, <3>1, <3>3
    <3>4. CASE \E i \in 2..n : fs[i].index = j
      BY <1>1, <1>2, <3>4
    <3>5. CASE \E i \in 1..n : fs[i].key = j /\ fs[i].index < j
      <4>1. PICK i \in 1..n : fs[i].key = j /\ fs[i].index < j
        BY <3>5
      <4>2. CASE i # n
        BY <1>2, <4>1, <4>2
      <4>3. CASE i = n
        <5>1. k = j /\ a < j
          BY <4>1, <4>3
        <5>2. CASE gs[n].key = k
          BY <1>2, <3>1, <5>1, <5>2
        <5>3. CASE k \in Add
          BY <1>8, <5>1, <5>3
        <5> QED  BY <1>3, <3>1, <5>1, <5>2, <5>3
      <4> QED  BY <4>2, <4>3
    <3>6. CASE x = j /\ a < j
      <4>1. CASE x \in Add
        BY <1>8, <3>6, <4>1
      <4>2. CASE gs[n].key = x
        BY <1>2, <3>1, <3>6, <4>2
      <4> QED  BY <1>3, <4>1, <4>2
    <3> QED  BY <3>2, <3>3, <3>4, <3>5, <3>6
  <2> QED  BY <1>2, <2>1 DEF Parented, Q
<1>12. Single(ms, gs, al, 0)
  <2>1. ASSUME NEW j \in (2..N) \ AliasIndexes(al)
        PROVE  /\ \A b, c \in Q(j) : b = c
               /\ HasKey(gs, j) => Q(j) = {}
               /\ \A i, m \in 1..n : gs[i].key = j /\ gs[m].key = j => i = m
               /\ \A i \in 2..n : gs[i].index = j => Q(j) = {} /\ ~HasKey(gs, j)
    <3>1. j \in 1..N /\ j # 0 /\ n \in 1..n
      BY <1>1
    <3>2. /\ \A b, c \in P(j) : b = c
          /\ x = j => P(j) = {} /\ ~HasKey(fs, j)
          /\ HasKey(fs, j) => P(j) = {}
          /\ \A i, m \in 1..n : fs[i].key = j /\ fs[m].key = j => i = m
          /\ \A i \in 2..n : fs[i].index = j => P(j) = {} /\ ~HasKey(fs, j) /\ x # j
      BY DEF Tree, Single, InHand, P, n, N
    <3>3. \A i \in 1..n : fs[i].key = j => HasKey(fs, j)
      BY DEF HasKey, n
    <3>4. HasKey(gs, j) => \E i \in 1..n : gs[i].key = j
      BY <1>2 DEF HasKey
    <3>5. j \in Add => P(j) = {}
      BY <1>3, <3>1, <3>2, <3>3
    <3>6. \A b, c \in Q(j) : b = c
      BY <1>8, <3>1, <3>2, <3>5
    <3>7. \A i \in 1..n : gs[i].key = j =>
             \/ fs[i].key = j /\ j \notin Add
             \/ i = n /\ x = j /\ Add = {}
      <4>1. ASSUME NEW i \in 1..n, gs[i].key = j, i # n
            PROVE  fs[i].key = j /\ j \notin Add
        <5>1. fs[i].key = j /\ HasKey(fs, j)
          BY <1>2, <3>3, <4>1
        <5>2. x # j
          BY <3>2, <5>1
        <5>3. k # j
          BY <3>1, <3>2, <4>1, <5>1
        <5> QED  BY <1>3, <5>1, <5>2, <5>3
      <4>2. ASSUME gs[n].key = j
            PROVE  \/ k = j /\ j \notin Add
                   \/ x = j /\ Add = {}
        <5>1. CASE gs[n].key = k /\ Add = {x}
          <6>1. x # j
            BY <3>1, <3>2, <3>3, <4>2, <5>1
          <6> QED  BY <4>2, <5>1, <6>1
        <5> QED  BY <1>3, <3>1, <4>2, <5>1
      <4> QED  BY <4>1, <4>2
    <3>8. HasKey(gs, j) => Q(j) = {}
      <4>1. ASSUME NEW i \in 1..n, gs[i].key = j
            PROVE  j \notin Add /\ P(j) = {}
        BY <3>2, <3>3, <3>7, <4>1
      <4> QED  BY <1>8, <3>1, <3>4, <4>1
    <3>9. \A i, m \in 1..n : gs[i].key = j /\ gs[m].key = j => i = m
      BY <3>2, <3>3, <3>7
    <3>10. ASSUME NEW i \in 2..n, gs[i].index = j
           PROVE  Q(j) = {} /\ ~HasKey(gs, j)
      <4>1. P(j) = {} /\ ~HasKey(fs, j) /\ x # j
        <5>1. i \in 1..n
          BY <1>1
        <5> QED  BY <1>2, <3>2, <3>10, <5>1
      <4>2. j \notin Add
        BY <1>3, <3>1, <3>3, <4>1
      <4> QED  BY <1>8, <3>1, <3>3, <3>4, <3>7, <4>1, <4>2
    <3> QED  BY <3>6, <3>8, <3>9, <3>10
  <2>2. \A j \in 2..N : ~InHand(gs, 0, j)
    BY <1>1 DEF InHand
  <2> QED  BY <1>2, <2>1, <2>2 DEF Single, Q
<1> QED  BY <1>2, <1>9, <1>10, <1>11, <1>12 DEF Tree, N

LEMMA AttachMatches ==
  ASSUME NEW ns, NEW fs, NEW o, NEW x \in 1..Len(ns), NEW ms, NEW gs, fs # <<>>,
         Framed(ns, fs), Attached(ns, fs, x, ms, gs), Matches(ns, fs, o, FALSE)
  PROVE  Matches(ms, gs, o, TRUE)
<1> DEFINE n == Len(fs)
           a == fs[n].index
           k == fs[n].key
<1>1. /\ n \in Nat \ {0} /\ x # 0
      /\ Len(gs) = n /\ gs # <<>>
      /\ \A i \in 1..n : gs[i].index = fs[i].index /\ (i # n => gs[i] = fs[i])
      /\ \A i \in 1..n : fs[i].index \in 1..Len(ns)
      /\ \A i \in 1..Len(ns) : ms[i].kind = ns[i].kind
  <2>1. fs \in Seq(OpenCalls) /\ gs \in Seq(OpenCalls) /\ Len(gs) = n
    BY DEF Framed, Attached
  <2>2. n \in Nat \ {0}
    BY <2>1, EmptySeq
  <2>3. gs # <<>>
    BY <2>1, <2>2, EmptySeq
  <2>4. \A i \in 1..n : gs[i].index = fs[i].index /\ (i # n => gs[i] = fs[i])
    BY DEF Attached
  <2>5. \A i \in 1..n : fs[i].index \in 1..Len(ns)
    BY DEF Framed
  <2>6. \A i \in 1..Len(ns) : ms[i].kind = ns[i].kind
    BY DEF Attached
  <2> QED  BY <2>1, <2>2, <2>3, <2>4, <2>5, <2>6
<1>2. \/ ns[a].kind = "sequence"
      \/ ns[a].kind # "sequence" /\ k = 0 /\ gs[n].key # 0
      \/ ns[a].kind # "sequence" /\ k # 0 /\ gs[n].key = 0
  BY <1>1 DEF Attached
<1>3. /\ Len(o) = n + 1 /\ o[1] = "done"
      /\ \A i \in 1..n : o[i + 1] = LevelOf(ns[fs[i].index].kind, fs[i].key, FALSE)
  <2>1. \A i \in 1..n : (FALSE /\ i = n) = FALSE
    OBVIOUS
  <2> QED  BY <2>1 DEF Matches
<1> HIDE DEF n
<1>4. ASSUME NEW i \in 1..n
      PROVE  o[i + 1] = LevelOf(ms[gs[i].index].kind, gs[i].key, TRUE /\ i = n)
  <2>1. CASE i # n
    <3>1. gs[i] = fs[i] /\ ms[fs[i].index].kind = ns[fs[i].index].kind
      BY <1>1, <2>1
    <3>2. (TRUE /\ i = n) = FALSE
      BY <2>1
    <3>3. o[i + 1] = LevelOf(ns[fs[i].index].kind, fs[i].key, FALSE)
      BY <1>3
    <3> QED  BY <3>1, <3>2, <3>3, Zenon
  <2>2. CASE i = n
    <3>1. n \in 1..n
      BY <1>1
    <3>2. gs[n].index = a /\ ms[a].kind = ns[a].kind
      BY <1>1, <3>1
    <3>3. o[n + 1] = LevelOf(ns[a].kind, k, FALSE)
      BY <1>3, <3>1
    <3>4. LevelOf(ns[a].kind, k, FALSE) = LevelOf(ns[a].kind, gs[n].key, TRUE)
      BY <1>2 DEF LevelOf
    <3> QED  BY <2>2, <3>2, <3>3, <3>4
  <2> QED  BY <2>1, <2>2
<1> QED  BY <1>1, <1>3, <1>4 DEF Matches

\* The node in hand goes to the innermost call, or is the root.
LEMMA AttachKeeps ==
  ASSUME NEW ns, NEW fs, NEW al, NEW x \in 1..Len(ns), NEW o,
         Tree(ns, fs, al, x), Matches(ns, fs, o, FALSE), Attach(ns, fs, x)
  PROVE  Tree(nodes', frames', al, 0) /\ Matches(nodes', frames', o, TRUE)
<1>1. CASE fs = <<>>
  <2>1. nodes' = ns /\ frames' = fs
    BY <1>1 DEF Attach
  <2>2. Tree(ns, fs, al, 0)
    BY <1>1 DEF Tree, Parented, Single, InHand
  <2>3. Len(fs) = 0 /\ ns # <<>>
    <3>1. ns \in Seq(Nodes) /\ Len(ns) # 0
      BY LenProperties DEF Tree, Linked
    <3> QED  BY <1>1, <3>1, EmptySeq
  <2>4. Matches(ns, fs, o, TRUE)
    BY <2>3 DEF Matches
  <2> QED  BY <2>1, <2>2, <2>4
<1>2. CASE fs # <<>>
  <2>1. /\ ns \in Seq(Nodes) /\ fs \in Seq(OpenCalls) /\ Framed(ns, fs)
        /\ fs[Len(fs)].index \in 1..Len(ns) /\ x \in Nat
    <3>1. ns \in Seq(Nodes) /\ fs \in Seq(OpenCalls) /\ Framed(ns, fs)
      BY DEF Tree, Linked, Framed
    <3>2. Len(fs) \in 1..Len(fs)
      BY <1>2, <3>1, EmptySeq
    <3>3. fs[Len(fs)].index \in 1..Len(ns)
      BY <3>1, <3>2 DEF Framed
    <3> QED  BY <3>1, <3>3, LenProperties
  <2>2. Attached(ns, fs, x, nodes', frames')
    BY <1>2, <2>1, AttachIs
  <2>3. \A ms, gs : Attached(ns, fs, x, ms, gs) =>
                      Tree(ms, gs, al, 0) /\ Matches(ms, gs, o, TRUE)
    BY <1>2, <2>1, AttachTree, AttachMatches
  <2> QED  BY <2>2, <2>3
<1> QED  BY <1>1, <1>2

-----------------------------------------------------------------------------
(***************************************************************************)
(* A node comes into hand: a new one, an old one through its alias, or the *)
(* one whose call ends.                                                    *)
(***************************************************************************)
LEMMA AliasAppend ==
  ASSUME NEW al, IsSeq(al), NEW r
  PROVE  IsSeq(Append(al, r)) /\ AliasIndexes(Append(al, r)) = AliasIndexes(al) \cup {r.index}
<1>1. PICK S : al \in Seq(S)
  BY DEF IsSeq
<1> DEFINE T == S \cup {r}
           t == Append(al, r)
<1>2. al \in Seq(T)
  <2>1. Len(al) \in Nat /\ al = [i \in 1..Len(al) |-> al[i]] /\ \A i \in 1..Len(al) : al[i] \in T
    BY <1>1, LenProperties
  <2> QED  BY <2>1
<1>3. r \in T
  OBVIOUS
<1> HIDE DEF T
<1>4. /\ t \in Seq(T) /\ Len(t) = Len(al) + 1 /\ Len(al) \in Nat
      /\ \A i \in 1..Len(al) : t[i] = al[i]
      /\ t[Len(al) + 1] = r
  BY <1>2, <1>3, LenProperties, AppendProperties
<1> HIDE DEF t
<1>5. AliasIndexes(t) = AliasIndexes(al) \cup {r.index}
  <2>1. \A i \in 1..Len(t) : i \in 1..Len(al) \/ i = Len(al) + 1
    BY <1>4
  <2>2. Len(al) + 1 \in 1..Len(t) /\ \A i \in 1..Len(al) : i \in 1..Len(t)
    BY <1>4
  <2> QED  BY <1>4, <2>1, <2>2 DEF AliasIndexes
<1> QED  BY <1>4, <1>5 DEF IsSeq, t

LEMMA AliasInHand ==
  ASSUME NEW ns, NEW fs, NEW al, NEW x \in AliasIndexes(al), Tree(ns, fs, al, 0)
  PROVE  Tree(ns, fs, al, x) /\ x \in 1..Len(ns)
<1>1. Parented(ns, fs, x)
  <2>1. \A j \in 2..Len(ns) : ~InHand(fs, 0, j)
    BY LenProperties DEF InHand, Tree, Linked
  <2> QED  BY <2>1 DEF Tree, Parented
<1>2. Single(ns, fs, al, x)
  <2>1. \A j \in (2..Len(ns)) \ AliasIndexes(al) : ~InHand(fs, x, j) /\ ~InHand(fs, 0, j)
    BY LenProperties DEF InHand, Tree, Linked
  <2> QED  BY <2>1 DEF Tree, Single
<1> QED  BY <1>1, <1>2 DEF Tree

LEMMA NewInHand ==
  ASSUME NEW ns, NEW fs, NEW al, NEW bl, NEW kind \in Kinds, Tree(ns, fs, al, 0), fs = <<>> => ns = <<>>,
         AliasIndexes(bl) \in {AliasIndexes(al), AliasIndexes(al) \cup {Len(ns) + 1}}
  PROVE  /\ Tree(Append(ns, Node_(kind)), fs, bl, Len(ns) + 1)
         /\ Len(Append(ns, Node_(kind))) = Len(ns) + 1
         /\ \A i \in 1..Len(ns) : Append(ns, Node_(kind))[i] = ns[i]
         /\ Append(ns, Node_(kind))[Len(ns) + 1].kind = kind
<1> DEFINE N == Len(ns)
           e == Node_(kind)
           ms == Append(ns, e)
<1>1. ns \in Seq(Nodes) /\ N \in Nat /\ fs \in Seq(OpenCalls) /\ Len(fs) \in Nat
  BY LenProperties DEF Tree, Linked, Framed
<1>2. e \in Nodes /\ e.kind = kind /\ e.children = <<>> /\ Len(e.children) = 0
  <2>1. <<>> \in Seq(Nat) /\ Len(<<>>) = 0
    BY EmptySeq
  <2> QED  BY <2>1 DEF Node_, Nodes
<1> HIDE DEF e
<1>3. /\ ms \in Seq(Nodes) /\ Len(ms) = N + 1
      /\ \A i \in 1..N : ms[i] = ns[i]
      /\ ms[N + 1] = e
  BY <1>1, <1>2, AppendProperties
<1> HIDE DEF ms, N
<1>4. /\ \A i \in 1..N : Links(ms, i) = Links(ns, i) /\ Links(ns, i) \subseteq 1..N
      /\ Links(ms, N + 1) = {}
  <2>1. \A i \in 1..N : Links(ns, i) \subseteq 1..N
    BY DEF Tree, Linked, N
  <2>2. \A i \in 1..N : Links(ms, i) = Links(ns, i)
    BY <1>3 DEF Links
  <2>3. Links(ms, N + 1) = {}
    BY <1>2, <1>3 DEF Links
  <2> QED  BY <2>1, <2>2, <2>3
<1>5. \A j \in 1..N : ParentsIn(ms, j) = ParentsIn(ns, j)
  <2>1. \A j \in 1..N : \A i \in 1..(j - 1) : i \in 1..N
    BY <1>1
  <2> QED  BY <1>4, <2>1 DEF ParentsIn
<1>6. ParentsIn(ms, N + 1) = {}
  <2>1. \A i \in 1..((N + 1) - 1) : N + 1 \notin Links(ms, i)
    BY <1>1, <1>4
  <2> QED  BY <2>1 DEF ParentsIn
<1>7. Linked(ms)
  <2>1. ASSUME NEW i \in 1..(N + 1)
        PROVE  /\ Links(ms, i) \subseteq 1..(N + 1)
               /\ ms[i].kind = "mapping" => Len(ms[i].children) % 2 = 0
    <3>1. CASE i \in 1..N
      <4>1. ns[i].kind = "mapping" => Len(ns[i].children) % 2 = 0
        BY <3>1 DEF Tree, Linked, N
      <4>2. ms[i] = ns[i]
        BY <1>3, <3>1
      <4>3. Links(ms, i) \subseteq 1..(N + 1)
        BY <1>1, <1>4, <3>1
      <4> QED  BY <4>1, <4>2, <4>3
    <3>2. CASE i = N + 1
      <4>1. 0 % 2 = 0
        OBVIOUS
      <4>2. Links(ms, i) = {} /\ Len(ms[i].children) = 0
        BY <1>2, <1>3, <1>4, <3>2
      <4> QED  BY <4>1, <4>2
    <3>3. i \in 1..N \/ i = N + 1
      BY <1>1
    <3> QED  BY <3>1, <3>2, <3>3
  <2> QED  BY <1>3, <2>1 DEF Linked
<1>8. Framed(ms, fs) /\ \A i \in 1..Len(fs) : fs[i].index < N + 1 /\ fs[i].key # N + 1
  <2>1. ASSUME NEW i \in 1..Len(fs)
        PROVE  /\ fs[i].index \in 1..N /\ fs[i].key \in 0..N
               /\ ns[fs[i].index].kind \in {"sequence", "mapping"}
               /\ ns[fs[i].index].kind = "sequence" => fs[i].key = 0
    BY DEF Tree, Framed, N
  <2>2. \A i, m \in 1..Len(fs) : i < m => fs[i].index < fs[m].index
    BY DEF Tree, Framed
  <2>3. \A i \in 1..Len(fs) :
          /\ fs[i].index \in 1..(N + 1) /\ fs[i].key \in 0..(N + 1)
          /\ ms[fs[i].index].kind \in {"sequence", "mapping"}
          /\ ms[fs[i].index].kind = "sequence" => fs[i].key = 0
    BY <1>1, <1>3, <2>1
  <2> QED  BY <1>1, <1>3, <2>1, <2>2, <2>3 DEF Framed
<1>9. fs # <<>> => Len(fs) \in 1..Len(fs)
  BY <1>1, EmptySeq
<1>10. fs = <<>> => N = 0
  BY EmptySeq DEF N
<1>11. Parented(ms, fs, N + 1)
  <2>1. ASSUME NEW j \in 2..(N + 1)
        PROVE  \/ ParentsIn(ms, j) # {}
               \/ \E i \in 2..Len(fs) : fs[i].index = j
               \/ \E i \in 1..Len(fs) : fs[i].key = j /\ fs[i].index < j
               \/ InHand(fs, N + 1, j) /\ fs[Len(fs)].index < j
    <3>1. CASE j = N + 1
      <4>1. fs # <<>>
        BY <1>1, <1>10, <3>1
      <4> QED  BY <1>8, <1>9, <3>1, <4>1 DEF InHand
    <3>2. CASE j # N + 1
      <4>1. j \in 2..N /\ j \in 1..N /\ j # 0
        BY <1>1, <3>2
      <4>2. \/ ParentsIn(ns, j) # {}
            \/ \E i \in 2..Len(fs) : fs[i].index = j
            \/ \E i \in 1..Len(fs) : fs[i].key = j /\ fs[i].index < j
            \/ InHand(fs, 0, j) /\ fs[Len(fs)].index < j
        BY <4>1 DEF Tree, Parented, N
      <4> QED  BY <1>5, <4>1, <4>2 DEF InHand
    <3> QED  BY <3>1, <3>2
  <2> QED  BY <1>3, <2>1 DEF Parented
<1>12. Single(ms, fs, bl, N + 1)
  <2>1. ASSUME NEW j \in (2..(N + 1)) \ AliasIndexes(bl)
        PROVE  /\ \A a, b \in ParentsIn(ms, j) : a = b
               /\ InHand(fs, N + 1, j) => ParentsIn(ms, j) = {} /\ ~HasKey(fs, j)
               /\ HasKey(fs, j) => ParentsIn(ms, j) = {}
               /\ \A i, m \in 1..Len(fs) : fs[i].key = j /\ fs[m].key = j => i = m
               /\ \A i \in 2..Len(fs) :
                    fs[i].index = j => ParentsIn(ms, j) = {} /\ ~HasKey(fs, j) /\ ~InHand(fs, N + 1, j)
    <3>1. CASE j = N + 1
      <4>1. ~HasKey(fs, j)
        BY <1>8, <3>1 DEF HasKey
      <4>2. \A i \in 1..Len(fs) : fs[i].index # j /\ fs[i].key # j
        <5>1. \A i \in 1..Len(fs) : fs[i].index \in Nat
          BY DEF Tree, Framed
        <5> QED  BY <1>1, <1>8, <3>1, <5>1
      <4>3. \A i \in 2..Len(fs) : i \in 1..Len(fs)
        BY <1>1
      <4> QED  BY <1>6, <3>1, <4>1, <4>2, <4>3
    <3>2. CASE j # N + 1
      <4>1. j \in (2..N) \ AliasIndexes(al) /\ j \in 1..N
        BY <1>1, <3>2
      <4>2. ParentsIn(ms, j) = ParentsIn(ns, j) /\ ~InHand(fs, N + 1, j)
        BY <1>5, <3>2, <4>1 DEF InHand
      <4>3. /\ \A a, b \in ParentsIn(ns, j) : a = b
            /\ HasKey(fs, j) => ParentsIn(ns, j) = {}
            /\ \A i, m \in 1..Len(fs) : fs[i].key = j /\ fs[m].key = j => i = m
            /\ \A i \in 2..Len(fs) : fs[i].index = j => ParentsIn(ns, j) = {} /\ ~HasKey(fs, j)
        BY <4>1 DEF Tree, Single, N
      <4> QED  BY <4>2, <4>3
    <3> QED  BY <3>1, <3>2
  <2> QED  BY <1>3, <2>1 DEF Single
<1>13. AliasIndexes(bl) \subseteq 1..(N + 1)
  BY <1>1 DEF Tree, N
<1> QED  BY <1>2, <1>3, <1>7, <1>8, <1>11, <1>12, <1>13 DEF Tree, ms, N, e

\* The innermost call, of the node in hand, begins.
LEMMA NodeInHand ==
  ASSUME NEW ns, NEW fs, NEW al, NEW bl, NEW kind \in Kinds, Tree(ns, fs, al, 0), fs = <<>> => ns = <<>>,
         NEW ms, ms = Append(ns, Node_(kind)), NEW x, x = Len(ns) + 1,
         AliasIndexes(bl) \in {AliasIndexes(al), AliasIndexes(al) \cup {x}}
  PROVE  Tree(ms, fs, bl, x) /\ Len(ms) = x /\ (\A i \in 1..Len(ns) : ms[i] = ns[i]) /\ ms[x].kind = kind
BY NewInHand

LEMMA CallOpens ==
  ASSUME NEW ms, NEW fs, NEW al, NEW x, x = Len(ms), Tree(ms, fs, al, x), fs = <<>> => x = 1, x > 0,
         ms[x].kind \in {"sequence", "mapping"}, \A i \in 1..Len(fs) : fs[i].index < x
  PROVE  Tree(ms, Append(fs, [index |-> x, key |-> 0]), al, 0)
<1> DEFINE n == Len(fs)
           c == [index |-> x, key |-> 0]
           gs == Append(fs, c)
<1>1. ms \in Seq(Nodes) /\ x \in Nat \ {0} /\ fs \in Seq(OpenCalls) /\ n \in Nat
  BY LenProperties DEF Tree, Linked, Framed
<1>2. c \in OpenCalls /\ c.index = x /\ c.key = 0
  BY <1>1 DEF OpenCalls
<1> HIDE DEF c
<1>3. /\ gs \in Seq(OpenCalls) /\ Len(gs) = n + 1 /\ gs # <<>>
      /\ \A i \in 1..n : gs[i] = fs[i]
      /\ gs[n + 1] = c
  BY <1>1, <1>2, AppendProperties
<1> HIDE DEF gs
<1>4. fs = <<>> <=> n = 0
  BY <1>1, EmptySeq
<1>5. \A i \in 1..n : i \in 1..(n + 1)
  BY <1>1
<1>6. \A i \in 1..(n + 1) : i \in 1..n \/ i = n + 1
  BY <1>1
<1> HIDE DEF n
<1>7. Framed(ms, gs)
  <2>1. \A i \in 1..n :
          /\ fs[i].index \in 1..x /\ fs[i].key \in 0..x
          /\ ms[fs[i].index].kind \in {"sequence", "mapping"}
          /\ ms[fs[i].index].kind = "sequence" => fs[i].key = 0
    BY DEF Tree, Framed, n
  <2>2. \A i, m \in 1..n : i < m => fs[i].index < fs[m].index
    BY DEF Tree, Framed, n
  <2>3. \A i \in 1..n : fs[i].index < x
    BY DEF n
  <2>4. ASSUME NEW i \in 1..(n + 1)
        PROVE  /\ gs[i].index \in 1..x /\ gs[i].key \in 0..x
               /\ ms[gs[i].index].kind \in {"sequence", "mapping"}
               /\ ms[gs[i].index].kind = "sequence" => gs[i].key = 0
    <3>1. CASE i \in 1..n
      BY <1>3, <2>1, <3>1
    <3>2. CASE i = n + 1
      BY <1>1, <1>2, <1>3, <3>2
    <3> QED  BY <1>6, <3>1, <3>2
  <2>5. ASSUME NEW i \in 1..(n + 1), NEW m \in 1..(n + 1), i < m
        PROVE  gs[i].index < gs[m].index
    <3>1. i \in 1..n
      BY <1>1, <2>5 DEF n
    <3>2. CASE m \in 1..n
      BY <1>3, <2>2, <2>5, <3>1, <3>2
    <3>3. CASE m = n + 1
      BY <1>2, <1>3, <2>3, <3>1, <3>3
    <3> QED  BY <1>6, <3>2, <3>3
  <2> QED  BY <1>3, <2>4, <2>5 DEF Framed
<1>8. \A j : j # 0 => (HasKey(gs, j) <=> HasKey(fs, j))
  BY <1>2, <1>3, <1>5, <1>6 DEF HasKey, n
<1>9. ASSUME fs # <<>>
      PROVE  n + 1 \in 2..(n + 1)
  BY <1>1, <1>4, <1>9 DEF n
<1>10. Parented(ms, gs, 0)
  <2>1. ASSUME NEW j \in 2..x
        PROVE  \/ ParentsIn(ms, j) # {}
               \/ \E i \in 2..(n + 1) : gs[i].index = j
               \/ \E i \in 1..(n + 1) : gs[i].key = j /\ gs[i].index < j
    <3>1. \/ ParentsIn(ms, j) # {}
          \/ \E i \in 2..n : fs[i].index = j
          \/ \E i \in 1..n : fs[i].key = j /\ fs[i].index < j
          \/ fs # <<>> /\ x = j
      BY DEF Tree, Parented, InHand, n
    <3>2. CASE \E i \in 2..n : fs[i].index = j
      <4>1. \A i \in 2..n : i \in 1..n /\ i \in 2..(n + 1)
        BY <1>1 DEF n
      <4> QED  BY <1>3, <3>2, <4>1
    <3>3. CASE \E i \in 1..n : fs[i].key = j /\ fs[i].index < j
      BY <1>3, <1>5, <3>3
    <3>4. CASE fs # <<>> /\ x = j
      BY <1>2, <1>3, <1>9, <3>4
    <3> QED  BY <3>1, <3>2, <3>3, <3>4
  <2> QED  BY <1>3, <2>1 DEF Parented
<1>11. Single(ms, gs, al, 0)
  <2>1. ASSUME NEW j \in (2..x) \ AliasIndexes(al)
        PROVE  /\ \A a, b \in ParentsIn(ms, j) : a = b
               /\ InHand(gs, 0, j) => ParentsIn(ms, j) = {} /\ ~HasKey(gs, j)
               /\ HasKey(gs, j) => ParentsIn(ms, j) = {}
               /\ \A i, m \in 1..(n + 1) : gs[i].key = j /\ gs[m].key = j => i = m
               /\ \A i \in 2..(n + 1) :
                    gs[i].index = j => ParentsIn(ms, j) = {} /\ ~HasKey(gs, j) /\ ~InHand(gs, 0, j)
    <3>1. /\ \A a, b \in ParentsIn(ms, j) : a = b
          /\ fs # <<>> /\ x = j => ParentsIn(ms, j) = {} /\ ~HasKey(fs, j)
          /\ HasKey(fs, j) => ParentsIn(ms, j) = {}
          /\ \A i, m \in 1..n : fs[i].key = j /\ fs[m].key = j => i = m
          /\ \A i \in 2..n : fs[i].index = j => ParentsIn(ms, j) = {} /\ ~HasKey(fs, j)
      BY DEF Tree, Single, InHand, n
    <3>2. j # 0 /\ ~InHand(gs, 0, j)
      BY <1>1 DEF InHand
    <3>3. \A i, m \in 1..(n + 1) : gs[i].key = j /\ gs[m].key = j => i = m
      BY <1>2, <1>3, <1>6, <3>1, <3>2
    <3>4. ASSUME NEW i \in 2..(n + 1), gs[i].index = j
          PROVE  ParentsIn(ms, j) = {} /\ ~HasKey(gs, j)
      <4>1. CASE i \in 2..n
        <5>1. i \in 1..n
          BY <1>1, <4>1 DEF n
        <5> QED  BY <1>3, <1>8, <3>1, <3>2, <3>4, <4>1, <5>1
      <4>2. CASE i = n + 1
        <5>1. fs # <<>>
          BY <1>1, <1>4, <4>2 DEF n
        <5> QED  BY <1>2, <1>3, <1>8, <3>1, <3>2, <3>4, <4>2, <5>1
      <4>3. i \in 2..n \/ i = n + 1
        BY <1>1 DEF n
      <4> QED  BY <4>1, <4>2, <4>3
    <3> QED  BY <1>8, <3>1, <3>2, <3>3, <3>4
  <2> QED  BY <1>3, <2>1 DEF Single
<1> QED  BY <1>7, <1>10, <1>11 DEF Tree, gs, c

\* The innermost call ends, and its node is the one in hand.
LEMMA CallEnds ==
  ASSUME NEW ns, NEW fs, NEW al, Tree(ns, fs, al, 0), fs # <<>>, Last(fs).key = 0
  PROVE  Tree(ns, Front(fs), al, Last(fs).index) /\ Last(fs).index \in 1..Len(ns) /\ ns # <<>>
<1> DEFINE n == Len(fs)
           gs == Front(fs)
           x == fs[n].index
<1>1. fs \in Seq(OpenCalls) /\ ns \in Seq(Nodes)
  BY DEF Tree, Linked, Framed
<1>2. /\ gs \in Seq(OpenCalls) /\ Len(gs) = n - 1 /\ n \in Nat \ {0}
      /\ Last(fs) = fs[n] /\ \A i \in 1..(n - 1) : gs[i] = fs[i]
  BY <1>1, FrontLast
<1> HIDE DEF gs, n
<1>3. n \in 1..n /\ \A i \in 1..(n - 1) : i \in 1..n /\ i < n
  BY <1>2
<1>4. /\ \A i \in 1..n :
           /\ fs[i].index \in 1..Len(ns) /\ fs[i].key \in 0..Len(ns)
           /\ ns[fs[i].index].kind \in {"sequence", "mapping"}
           /\ ns[fs[i].index].kind = "sequence" => fs[i].key = 0
      /\ \A i, m \in 1..n : i < m => fs[i].index < fs[m].index
  BY DEF Tree, Framed, n
<1>5. x \in 1..Len(ns) /\ fs[n].key = 0 /\ Len(ns) \in Nat /\ ns # <<>>
  <2>1. x \in 1..Len(ns) /\ Len(ns) \in Nat /\ fs[n].key = 0
    BY <1>1, <1>2, <1>3, <1>4, LenProperties
  <2> QED  BY <2>1, EmptySeq
<1>6. Framed(ns, gs)
  BY <1>2, <1>3, <1>4 DEF Framed
<1>7. \A j : HasKey(gs, j) => HasKey(fs, j)
  BY <1>2, <1>3 DEF HasKey, n
<1>8. gs # <<>> => n \in 2..n /\ n - 1 \in 1..(n - 1)
  BY <1>2, EmptySeq
<1>9. gs = <<>> => n = 1
  BY <1>2, EmptySeq
<1>10. Parented(ns, gs, x)
  <2>1. ASSUME NEW j \in 2..Len(ns)
        PROVE  \/ ParentsIn(ns, j) # {}
               \/ \E i \in 2..(n - 1) : gs[i].index = j
               \/ \E i \in 1..(n - 1) : gs[i].key = j /\ gs[i].index < j
               \/ InHand(gs, x, j) /\ gs[n - 1].index < j
    <3>1. \/ ParentsIn(ns, j) # {}
          \/ \E i \in 2..n : fs[i].index = j
          \/ \E i \in 1..n : fs[i].key = j /\ fs[i].index < j
      <4>1. ~InHand(fs, 0, j)
        BY <1>5 DEF InHand
      <4> QED  BY <4>1 DEF Tree, Parented, n
    <3>2. CASE \E i \in 2..n : fs[i].index = j
      <4>1. PICK i \in 2..n : fs[i].index = j
        BY <3>2
      <4>2. CASE i = n
        <5>1. n - 1 \in 1..(n - 1) /\ gs # <<>>
          BY <1>2, <1>9, <4>1, <4>2
        <5>2. gs[n - 1].index < x
          BY <1>2, <1>3, <1>4, <5>1
        <5> QED  BY <4>1, <4>2, <5>1, <5>2 DEF InHand
      <4>3. CASE i # n
        <5>1. i \in 2..(n - 1) /\ i \in 1..(n - 1)
          BY <1>2, <4>1, <4>3
        <5> QED  BY <1>2, <4>1, <5>1
      <4> QED  BY <4>2, <4>3
    <3>3. CASE \E i \in 1..n : fs[i].key = j /\ fs[i].index < j
      <4>1. PICK i \in 1..n : fs[i].key = j /\ fs[i].index < j
        BY <3>3
      <4>2. i # n
        BY <1>5, <4>1
      <4>3. i \in 1..(n - 1)
        BY <1>2, <4>1, <4>2
      <4> QED  BY <1>2, <4>1, <4>3
    <3> QED  BY <3>1, <3>2, <3>3
  <2> QED  BY <1>2, <2>1 DEF Parented
<1>11. Single(ns, gs, al, x)
  <2>1. ASSUME NEW j \in (2..Len(ns)) \ AliasIndexes(al)
        PROVE  /\ \A a, b \in ParentsIn(ns, j) : a = b
               /\ InHand(gs, x, j) => ParentsIn(ns, j) = {} /\ ~HasKey(gs, j)
               /\ HasKey(gs, j) => ParentsIn(ns, j) = {}
               /\ \A i, m \in 1..(n - 1) : gs[i].key = j /\ gs[m].key = j => i = m
               /\ \A i \in 2..(n - 1) :
                    gs[i].index = j => ParentsIn(ns, j) = {} /\ ~HasKey(gs, j) /\ ~InHand(gs, x, j)
    <3>1. /\ \A a, b \in ParentsIn(ns, j) : a = b
          /\ HasKey(fs, j) => ParentsIn(ns, j) = {}
          /\ \A i, m \in 1..n : fs[i].key = j /\ fs[m].key = j => i = m
          /\ \A i \in 2..n : fs[i].index = j => ParentsIn(ns, j) = {} /\ ~HasKey(fs, j)
      BY DEF Tree, Single, n
    <3>2. InHand(gs, x, j) => ParentsIn(ns, j) = {} /\ ~HasKey(gs, j)
      BY <1>7, <1>8, <3>1 DEF InHand
    <3>3. ASSUME NEW i \in 2..(n - 1), gs[i].index = j
          PROVE  ParentsIn(ns, j) = {} /\ ~HasKey(gs, j) /\ ~InHand(gs, x, j)
      <4>1. i \in 2..n /\ i \in 1..(n - 1) /\ i \in 1..n /\ i < n
        BY <1>2
      <4>2. fs[i].index = j /\ fs[i].index < x
        BY <1>2, <1>3, <1>4, <3>3, <4>1
      <4>3. x # j
        BY <1>5, <4>2
      <4> QED  BY <1>7, <3>1, <4>1, <4>2, <4>3 DEF InHand
    <3>4. \A i, m \in 1..(n - 1) : gs[i].key = j /\ gs[m].key = j => i = m
      BY <1>2, <1>3, <3>1
    <3> QED  BY <1>7, <3>1, <3>2, <3>3, <3>4
  <2> QED  BY <1>2, <2>1 DEF Single
<1> QED  BY <1>2, <1>5, <1>6, <1>10, <1>11 DEF Tree, gs, n

-----------------------------------------------------------------------------
(***************************************************************************)
(* The calls of the composer are what the reader of the events has open.   *)
(***************************************************************************)
\* Every level but the first is one whose node is read.
Outer(ns, fs, p) ==
  /\ p \in Seq(Expected) /\ Len(p) = Len(fs) + 1 /\ p[1] = "done"
  /\ \A i \in 1..Len(fs) : p[i + 1] = LevelOf(ns[fs[i].index].kind, fs[i].key, FALSE)

LEMMA OpenType ==
  ASSUME ParserInv
  PROVE  Open \in Seq(Expected)
<1>1. <<"root">> \in Seq(Expected)
  BY DEF Expected
<1>2. Levels(states) \in Seq(Expected) /\ Frames[state] \in Seq(Expected)
  BY InsideFacts, FramesType
<1>3. Levels(states) \o Frames[state] \in Seq(Expected)
  BY <1>2, ConcatProperties
<1> QED  BY <1>1, <1>3 DEF Open, OpenOf

LEMMA FillIs ==
  ASSUME NEW o \in Seq(Expected), o # <<>>, Last(o) # "done"
  PROVE  /\ FillLast(o) \in Seq(Expected) /\ Len(FillLast(o)) = Len(o)
         /\ \A i \in 1..Len(o) : FillLast(o)[i] = IF i = Len(o) THEN Stream!Past[o[i]] ELSE o[i]
<1> DEFINE n == Len(o)
           v == Stream!Past[o[n]]
<1>1. n \in 1..n /\ Last(o) = o[n] /\ o[n] \in Expected
  <2>1. n \in Nat \ {0} /\ Last(o) = o[n] /\ Last(o) \in Expected
    BY FrontLast
  <2> QED  BY <2>1
<1>2. v \in Expected
  BY <1>1 DEF Expected, Stream!Past
<1>3. FillLast(o) = [o EXCEPT ![n] = v]
  BY DEF FillLast
<1> HIDE DEF v
<1>4. /\ FillLast(o) \in Seq(Expected) /\ Len(FillLast(o)) = n
      /\ \A i \in 1..n : FillLast(o)[i] = IF i = n THEN v ELSE o[i]
  BY <1>1, <1>2, <1>3, ExceptSeq
<1> QED  BY <1>4 DEF v

LEMMA FillOuter ==
  ASSUME NEW ns, NEW fs, NEW o \in Seq(Expected), Framed(ns, fs), Matches(ns, fs, o, TRUE), Last(o) # "done"
  PROVE  Outer(ns, fs, FillLast(o)) /\ (fs = <<>> => ns = <<>>)
<1> DEFINE n == Len(fs)
           p == FillLast(o)
<1>1. fs \in Seq(OpenCalls) /\ n \in Nat /\ (fs = <<>> <=> n = 0)
  BY EmptySeq, LenProperties DEF Framed
<1>2. Len(o) = n + 1 /\ o # <<>> /\ Last(o) = o[n + 1]
  <2>1. Len(o) = n + 1
    BY DEF Matches
  <2>2. o # <<>>
    BY <1>1, <2>1, EmptySeq
  <2> QED  BY <2>1, <2>2, FrontLast
<1>3. /\ p \in Seq(Expected) /\ Len(p) = n + 1
      /\ \A i \in 1..(n + 1) : p[i] = IF i = n + 1 THEN Stream!Past[o[i]] ELSE o[i]
  BY <1>2, FillIs
<1>4. /\ o[1] = IF n = 0 /\ ns = <<>> THEN "root" ELSE "done"
      /\ \A i \in 1..n : o[i + 1] = LevelOf(ns[fs[i].index].kind, fs[i].key, TRUE /\ i = n)
  BY <1>1 DEF Matches
<1> HIDE DEF p, n
<1>5. n = 0 => ns = <<>> /\ p[1] = "done"
  BY <1>2, <1>3, <1>4 DEF Stream!Past
<1>6. n # 0 => p[1] = "done"
  BY <1>1, <1>3, <1>4
<1>7. ASSUME NEW i \in 1..n
      PROVE  p[i + 1] = LevelOf(ns[fs[i].index].kind, fs[i].key, FALSE)
  <2>1. o[i + 1] = LevelOf(ns[fs[i].index].kind, fs[i].key, TRUE /\ i = n) /\ i + 1 \in 1..(n + 1)
    BY <1>1, <1>4
  <2>2. CASE i = n
    <3>1. p[i + 1] = Stream!Past[o[i + 1]] /\ (TRUE /\ i = n) = TRUE
      BY <1>3, <2>1, <2>2
    <3> QED  BY <2>1, <3>1 DEF LevelOf, Stream!Past
  <2>3. CASE i # n
    <3>1. p[i + 1] = o[i + 1] /\ (TRUE /\ i = n) = FALSE
      BY <1>1, <1>3, <2>1, <2>3
    <3> QED  BY <2>1, <3>1
  <2> QED  BY <2>2, <2>3
<1> QED  BY <1>1, <1>3, <1>5, <1>6, <1>7 DEF Outer, p, n

LEMMA OuterMatches ==
  ASSUME NEW ns, NEW ms, NEW fs, NEW p, Framed(ns, fs), Outer(ns, fs, p), ms # <<>>,
         \A i \in 1..Len(ns) : ms[i] = ns[i]
  PROVE  Matches(ms, fs, p, FALSE) /\ Outer(ms, fs, p)
<1>1. \A i \in 1..Len(fs) : ms[fs[i].index] = ns[fs[i].index]
  BY DEF Framed
<1>2. \A i \in 1..Len(fs) : (FALSE /\ i = Len(fs)) = FALSE
  OBVIOUS
<1> QED  BY <1>1, <1>2 DEF Matches, Outer

LEMMA OpensMatch ==
  ASSUME NEW ms, NEW fs \in Seq(OpenCalls), NEW p, NEW x \in Nat \ {0}, Outer(ms, fs, p), NEW lev \in Expected,
         \/ ms[x].kind = "sequence" /\ lev = "item"
         \/ ms[x].kind = "mapping" /\ lev = "key"
  PROVE  Matches(ms, Append(fs, [index |-> x, key |-> 0]), Append(p, lev), TRUE)
<1> DEFINE n == Len(fs)
           c == [index |-> x, key |-> 0]
           gs == Append(fs, c)
           q == Append(p, lev)
<1>1. c \in OpenCalls /\ c.index = x /\ c.key = 0 /\ n \in Nat
  BY LenProperties DEF OpenCalls
<1> HIDE DEF c
<1>2. /\ gs \in Seq(OpenCalls) /\ Len(gs) = n + 1 /\ gs # <<>>
      /\ \A i \in 1..n : gs[i] = fs[i]
      /\ gs[n + 1] = c
  BY <1>1, AppendProperties
<1>3. /\ q \in Seq(Expected) /\ Len(q) = n + 2
      /\ \A i \in 1..(n + 1) : q[i] = p[i]
      /\ q[n + 2] = lev
  <2>1. p \in Seq(Expected) /\ Len(p) = n + 1
    BY DEF Outer
  <2>2. /\ q \in Seq(Expected) /\ Len(q) = Len(p) + 1
        /\ \A i \in 1..Len(p) : q[i] = p[i]
        /\ q[Len(p) + 1] = lev
    BY <2>1, AppendProperties
  <2>3. (n + 1) + 1 = n + 2
    BY <1>1
  <2> HIDE DEF q, n
  <2> QED  BY <2>1, <2>2, <2>3
<1>4. p[1] = "done" /\ \A i \in 1..n : p[i + 1] = LevelOf(ms[fs[i].index].kind, fs[i].key, FALSE)
  BY DEF Outer
<1> HIDE DEF n, gs, q
<1>5. q[1] = "done"
  BY <1>1, <1>3, <1>4
<1>6. ASSUME NEW i \in 1..(n + 1)
      PROVE  q[i + 1] = LevelOf(ms[gs[i].index].kind, gs[i].key, TRUE /\ i = n + 1)
  <2>1. CASE i = n + 1
    <3>1. q[i + 1] = lev /\ gs[i] = c /\ (TRUE /\ i = n + 1) = TRUE
      BY <1>1, <1>2, <1>3, <2>1
    <3> QED  BY <1>1, <3>1 DEF LevelOf
  <2>2. CASE i # n + 1
    <3>1. i \in 1..n /\ i + 1 \in 1..(n + 1)
      BY <1>1, <2>2
    <3>2. q[i + 1] = p[i + 1] /\ gs[i] = fs[i] /\ (TRUE /\ i = n + 1) = FALSE
      BY <1>2, <1>3, <2>2, <3>1
    <3> QED  BY <1>4, <3>1, <3>2
  <2> QED  BY <2>1, <2>2
<1>7. Len(q) = Len(gs) + 1
  BY <1>1, <1>2, <1>3
<1> QED  BY <1>2, <1>5, <1>6, <1>7 DEF Matches, gs, q, c

LEMMA FrontMatches ==
  ASSUME NEW ns, NEW fs \in Seq(OpenCalls), NEW o \in Seq(Expected), fs # <<>>, ns # <<>>,
         Matches(ns, fs, o, TRUE)
  PROVE  Matches(ns, Front(fs), Front(o), FALSE)
<1> DEFINE n == Len(fs)
           gs == Front(fs)
           p == Front(o)
<1>1. n \in Nat \ {0} /\ Len(gs) = n - 1 /\ \A i \in 1..(n - 1) : gs[i] = fs[i]
  BY FrontLast
<1>2. /\ Len(o) = n + 1 /\ o[1] = "done"
      /\ \A i \in 1..n : o[i + 1] = LevelOf(ns[fs[i].index].kind, fs[i].key, TRUE /\ i = n)
  BY DEF Matches
<1>3. Len(p) = n /\ \A i \in 1..n : p[i] = o[i]
  <2>1. o # <<>>
    BY <1>1, <1>2, EmptySeq
  <2>2. Len(p) = Len(o) - 1 /\ \A i \in 1..Len(p) : p[i] = o[i]
    BY <2>1, FrontLast
  <2>3. (n + 1) - 1 = n
    BY <1>1
  <2> HIDE DEF p, n
  <2> QED  BY <1>2, <2>2, <2>3
<1> HIDE DEF n, gs, p
<1>4. p[1] = "done" /\ Len(p) = Len(gs) + 1
  BY <1>1, <1>2, <1>3
<1>5. ASSUME NEW i \in 1..(n - 1)
      PROVE  p[i + 1] = LevelOf(ns[gs[i].index].kind, gs[i].key, FALSE /\ i = n - 1)
  <2>1. i \in 1..n /\ i + 1 \in 1..n /\ i # n
    BY <1>1
  <2>2. (FALSE /\ i = n - 1) = FALSE /\ (TRUE /\ i = n) = FALSE
    BY <2>1
  <2>3. p[i + 1] = o[i + 1] /\ gs[i] = fs[i]
    BY <1>1, <1>3, <2>1
  <2> QED  BY <1>2, <2>1, <2>2, <2>3
<1> QED  BY <1>1, <1>4, <1>5 DEF Matches, gs, p, n

-----------------------------------------------------------------------------
(***************************************************************************)
(* The events of a node.                                                   *)
(***************************************************************************)
LEMMA EmptyIsSeq == IsSeq(<<>>) /\ AliasIndexes(<<>>) = {}
<1>1. <<>> \in Seq(Nat) /\ Len(<<>>) = 0
  BY EmptySeq
<1> QED  BY <1>1 DEF IsSeq, AliasIndexes

LEMMA StopsKeep == ASSUME LoadStops("failed") PROVE LoaderInv'
BY EmptyIsSeq DEF LoadStops, DeleteAliases, DeleteDocument, LoaderInv, IsSeq

Composing ==
  /\ StreamInv /\ IsSeq(aliases) /\ loaded = "document" /\ Phase = "document"
  /\ Tree(nodes, frames, aliases, 0) /\ Matches(nodes, frames, Open, TRUE)

Composed ==
  /\ IsSeq(aliases) /\ loaded = "document" /\ Phase = "document"
  /\ Tree(nodes, frames, aliases, 0) /\ Matches(nodes, frames, Open, TRUE)

LEMMA ReadLevels ==
  ASSUME Composing, NEW levels, Waits(levels)
  PROVE  Outer(nodes, frames, levels) /\ (frames = <<>> => nodes = <<>>)
<1>1. Open \in Seq(Expected)
  BY OpenType DEF Composing, StreamInv
<1>2. Framed(nodes, frames) /\ Matches(nodes, frames, Open, TRUE)
  BY DEF Composing, Tree
<1>3. Last(Open) # "done" /\ levels = FillLast(Open)
  BY DEF Waits
<1> HIDE DEF Open
<1> QED  BY <1>1, <1>2, <1>3, FillOuter

LEMMA Registers ==
  ASSUME IsSeq(aliases), NEW anchor, NEW index, RegisterAnchor(anchor, index)
  PROVE  /\ IsSeq(aliases')
         /\ AliasIndexes(aliases') \in {AliasIndexes(aliases), AliasIndexes(aliases) \cup {index}}
<1>1. CASE anchor = None
  <2>1. aliases' = aliases
    BY <1>1 DEF RegisterAnchor
  <2> QED  BY <2>1
<1>2. CASE anchor # None
  <2> DEFINE r == [anchor |-> anchor, index |-> index]
  <2>1. aliases' = Append(aliases, r) /\ r.index = index
    BY <1>2 DEF RegisterAnchor
  <2> HIDE DEF r
  <2> QED  BY <2>1, AliasAppend
<1> QED  BY <1>1, <1>2

LEMMA AliasKeeps == ASSUME Composing, Stream!Leaf, NEW e, LoadAlias(e), UNCHANGED loaded PROVE Composed'
<1>1. Waits(Open') /\ Phase' = Phase
  BY StreamIs
<1> DEFINE o == Open'
<1>2. Outer(nodes, frames, o)
  BY <1>1, ReadLevels
<1>3. Registered(e.anchor) # {}
  BY DEF LoadAlias, LoadFails, LoadStops, Composing
<1> DEFINE x == aliases[CHOOSE i \in Registered(e.anchor) : TRUE].index
<1>4. Attach(nodes, frames, x) /\ aliases' = aliases
  BY <1>3 DEF LoadAlias
<1>5. x \in AliasIndexes(aliases)
  BY <1>3 DEF AliasIndexes, Registered
<1> HIDE DEF x, o
<1>6. Tree(nodes, frames, aliases, x) /\ x \in 1..Len(nodes)
  BY <1>5, AliasInHand DEF Composing
<1>7. nodes # <<>>
  BY <1>6, EmptySeq
<1>8. Matches(nodes, frames, o, FALSE)
  BY <1>2, <1>6, <1>7, OuterMatches DEF Tree
<1>9. Tree(nodes', frames', aliases, 0) /\ Matches(nodes', frames', o, TRUE)
  BY <1>4, <1>6, <1>8, AttachKeeps
<1> QED  BY <1>1, <1>4, <1>9 DEF Composing, Composed, o

LEMMA ScalarKeeps == ASSUME Composing, Stream!Leaf, NEW e, LoadScalar(e), UNCHANGED loaded PROVE Composed'
<1>1. Waits(Open') /\ Phase' = Phase
  BY StreamIs
<1> DEFINE o == Open'
           x == Len(nodes) + 1
           ms == Append(nodes, Node_("scalar"))
           bl == aliases'
<1>2. Outer(nodes, frames, o) /\ (frames = <<>> => nodes = <<>>)
  BY <1>1, ReadLevels
<1>3. RegisterAnchor(e.anchor, x) /\ Attach(ms, frames, x)
  BY DEF LoadScalar, LoadFails, LoadStops, Composing
<1>4. IsSeq(bl) /\ AliasIndexes(bl) \in {AliasIndexes(aliases), AliasIndexes(aliases) \cup {x}}
  BY <1>3, Registers DEF Composing
<1> HIDE DEF o, bl
<1>5. Tree(ms, frames, bl, x) /\ Len(ms) = x /\ \A i \in 1..Len(nodes) : ms[i] = nodes[i]
  BY <1>2, <1>4, NewInHand DEF Composing, Kinds
<1>6. Len(nodes) \in Nat /\ Framed(nodes, frames)
  BY LenProperties DEF Composing, Tree, Linked
<1>7. x \in 1..Len(ms) /\ ms # <<>>
  <2>1. x \in 1..Len(ms) /\ Len(ms) # 0
    BY <1>5, <1>6
  <2> QED  BY <2>1, EmptySeq
<1> HIDE DEF ms, x
<1>8. Matches(ms, frames, o, FALSE)
  BY <1>2, <1>5, <1>6, <1>7, OuterMatches
<1>9. Tree(nodes', frames', bl, 0) /\ Matches(nodes', frames', o, TRUE)
  BY <1>3, <1>5, <1>7, <1>8, AttachKeeps
<1> QED  BY <1>1, <1>4, <1>9 DEF Composing, Composed, o, bl

LEMMA CollectionKeeps ==
  ASSUME Composing, NEW e, LoadCollection(e), UNCHANGED loaded,
         \/ e.type = "SEQUENCE-START" /\ Stream!SequenceStart
         \/ e.type = "MAPPING-START" /\ Stream!MappingStart
  PROVE  Composed'
<1> DEFINE o == Open'
           x == Len(nodes) + 1
           kind == Call(e.type)
           ms == Append(nodes, Node_(kind))
           c == [index |-> x, key |-> 0]
           bl == aliases'
           lev == IF kind = "sequence" THEN "item" ELSE "key"
<1>1. PICK levels : Waits(levels) /\ o = Append(levels, lev) /\ Phase' = Phase
  BY StreamIs DEF Call
<1>2. Outer(nodes, frames, levels) /\ (frames = <<>> => nodes = <<>>)
  BY <1>1, ReadLevels
<1>3. RegisterAnchor(e.anchor, x) /\ nodes' = ms /\ frames' = Append(frames, c)
  BY DEF LoadCollection, LoadFails, LoadStops, Composing
<1>4. IsSeq(bl) /\ AliasIndexes(bl) \in {AliasIndexes(aliases), AliasIndexes(aliases) \cup {x}}
  BY <1>3, Registers DEF Composing
<1>5. kind \in {"sequence", "mapping"} /\ kind \in Kinds /\ lev \in Expected
  BY DEF Call, Kinds, Expected
<1> HIDE DEF o, bl, kind
<1>6. /\ Tree(ms, frames, bl, x) /\ Len(ms) = x /\ \A i \in 1..Len(nodes) : ms[i] = nodes[i]
      /\ ms[x].kind = kind
  <2>1. Tree(nodes, frames, aliases, 0) /\ (frames = <<>> => nodes = <<>>) /\ kind \in Kinds
    BY <1>2, <1>5 DEF Composing
  <2>2. ms = Append(nodes, Node_(kind)) /\ x = Len(nodes) + 1
    OBVIOUS
  <2> HIDE DEF ms, x
  <2>3. AliasIndexes(bl) \in {AliasIndexes(aliases), AliasIndexes(aliases) \cup {x}}
    BY <1>4
  <2>4. Tree(ms, frames, bl, x)
    BY <2>1, <2>2, <2>3, NodeInHand
  <2>5. Len(ms) = x
    BY <2>1, <2>2, <2>3, NodeInHand
  <2>6. \A i \in 1..Len(nodes) : ms[i] = nodes[i]
    BY <2>1, <2>2, <2>3, NodeInHand
  <2>7. ms[x].kind = kind
    BY <2>1, <2>2, <2>3, NodeInHand
  <2> QED  BY <2>4, <2>5, <2>6, <2>7
<1>7. /\ Len(nodes) \in Nat /\ Framed(nodes, frames) /\ frames \in Seq(OpenCalls)
      /\ frames = <<>> => x = 1
  <2>1. Len(nodes) \in Nat /\ Framed(nodes, frames) /\ frames \in Seq(OpenCalls)
    BY LenProperties DEF Composing, Tree, Linked, Framed
  <2>2. frames = <<>> => Len(nodes) = 0
    BY <1>2, EmptySeq
  <2> QED  BY <2>1, <2>2
<1>8. x \in Nat \ {0} /\ x > 0 /\ ms # <<>> /\ \A i \in 1..Len(frames) : frames[i].index < x
  <2>1. Len(ms) # 0 /\ x \in Nat \ {0} /\ x > 0
    BY <1>6, <1>7
  <2>2. ms # <<>>
    BY <2>1, EmptySeq
  <2>3. \A i \in 1..Len(frames) : frames[i].index < x
    BY <1>7 DEF Framed
  <2> QED  BY <2>1, <2>2, <2>3
<1> HIDE DEF ms, x
<1>9. Tree(ms, Append(frames, c), bl, 0)
  BY <1>5, <1>6, <1>7, <1>8, CallOpens
<1>10. Outer(ms, frames, levels)
  BY <1>2, <1>6, <1>7, <1>8, OuterMatches
<1>11. Matches(ms, Append(frames, c), Append(levels, lev), TRUE)
  BY <1>5, <1>6, <1>7, <1>8, <1>10, OpensMatch
<1> QED  BY <1>1, <1>3, <1>4, <1>9, <1>11 DEF Composing, Composed, o, bl

LEMMA EndFacts ==
  ASSUME Composing, Len(Open) > 1, NEW level \in {"item", "key"}, Last(Open) = level
  PROVE  /\ frames # <<>> /\ Last(frames).key = 0 /\ Open \in Seq(Expected)
         /\ nodes[Last(frames).index].kind = IF level = "item" THEN "sequence" ELSE "mapping"
<1> DEFINE n == Len(frames)
           o == Open
<1>1. o \in Seq(Expected) /\ Len(o) = n + 1 /\ frames \in Seq(OpenCalls) /\ n \in Nat \ {0}
  <2>1. o \in Seq(Expected)
    BY OpenType DEF Composing, StreamInv
  <2>2. Len(o) = n + 1 /\ frames \in Seq(OpenCalls)
    BY DEF Composing, Matches, Tree, Framed
  <2>3. n \in Nat
    BY <2>2, LenProperties
  <2> QED  BY <2>1, <2>2, <2>3
<1>2. frames # <<>> /\ Last(frames) = frames[n] /\ n \in 1..n
  <2>1. frames # <<>> /\ frames \in Seq(OpenCalls)
    BY <1>1, EmptySeq
  <2>2. Last(frames) = frames[n]
    BY <2>1, FrontLast
  <2> QED  BY <1>1, <2>1, <2>2
<1>3. Last(o) = o[n + 1]
  <2>1. o # <<>>
    BY <1>1, EmptySeq
  <2> QED  BY <1>1, <2>1, FrontLast
<1>4. /\ nodes[frames[n].index].kind \in {"sequence", "mapping"}
      /\ nodes[frames[n].index].kind = "sequence" => frames[n].key = 0
  BY <1>2 DEF Composing, Tree, Framed
<1>5. o[n + 1] = LevelOf(nodes[frames[n].index].kind, frames[n].key, TRUE)
  <2>1. o[n + 1] = LevelOf(nodes[frames[n].index].kind, frames[n].key, TRUE /\ n = n)
    BY <1>2 DEF Composing, Matches
  <2> QED  BY <2>1
<1> QED  BY <1>1, <1>2, <1>3, <1>4, <1>5 DEF LevelOf

LEMMA EndKeeps ==
  ASSUME Composing, NEW e, LoadEnd(e), Stream!SequenceEnd \/ Stream!MappingEnd
  PROVE  Composed'
<1> DEFINE o == Open'
           x == Last(frames).index
<1>1. PICK level \in {"item", "key"} :
        Len(Open) > 1 /\ Last(Open) = level /\ o = Front(Open) /\ Phase' = Phase
  BY StreamIs
<1>2. frames # <<>> /\ Last(frames).key = 0 /\ Open \in Seq(Expected)
  BY <1>1, EndFacts
<1>3. Attach(nodes, Front(frames), x) /\ aliases' = aliases /\ loaded' = loaded
  BY DEF LoadEnd
<1>4. Tree(nodes, Front(frames), aliases, x) /\ x \in 1..Len(nodes) /\ nodes # <<>>
  BY <1>2, CallEnds DEF Composing
<1>5. Matches(nodes, Front(frames), Front(Open), FALSE)
  <2>1. frames \in Seq(OpenCalls) /\ Matches(nodes, frames, Open, TRUE)
    BY DEF Composing, Tree, Framed
  <2> HIDE DEF Open
  <2> QED  BY <1>2, <1>4, <2>1, FrontMatches
<1> HIDE DEF x, o
<1>6. Tree(nodes', frames', aliases, 0) /\ Matches(nodes', frames', o, TRUE)
  BY <1>1, <1>3, <1>4, <1>5, AttachKeeps
<1> QED  BY <1>1, <1>3, <1>6 DEF Composing, Composed, o

-----------------------------------------------------------------------------
(***************************************************************************)
(* The composer awaits every event that comes: the asserts hold.           *)
(***************************************************************************)
LEMMA InDocumentOf ==
  ASSUME StreamInv, LoaderInv, loaded \notin Ended
  PROVE  /\ loaded = "nothing" <=> Phase = "before"
         /\ loaded \in {"started", "done"} <=> Phase = "between"
         /\ loaded = "document" <=> Phase = "document"
         /\ Phase = "document" => Composing
BY DEF LoaderInv, Ended, Composing

LEMMA RootLevels ==
  ASSUME Composing
  PROVE  /\ frames = <<>> <=> Len(Open) = 1
         /\ frames = <<>> /\ nodes = <<>> => Open = <<"root">>
         /\ frames = <<>> /\ nodes # <<>> => Open = <<"done">>
<1> DEFINE o == Open
<1>1. o \in Seq(Expected)
  BY OpenType DEF Composing, StreamInv
<1>2. frames \in Seq(OpenCalls) /\ Len(o) = Len(frames) + 1
      /\ o[1] = (IF frames = <<>> /\ nodes = <<>> THEN "root" ELSE "done")
  BY DEF Composing, Tree, Framed, Matches
<1>3. frames = <<>> <=> Len(frames) = 0
  BY <1>2, EmptySeq
<1>4. Len(frames) \in Nat
  BY <1>2, LenProperties
<1> HIDE DEF o
<1>5. ASSUME Len(o) = 1, NEW x, o[1] = x
      PROVE  o = <<x>>
  BY <1>1, <1>5
<1> QED  BY <1>2, <1>3, <1>4, <1>5 DEF o

LEMMA NodeAwaited ==
  ASSUME Composing, NEW levels, Waits(levels)
  PROVE  NodeTypes \subseteq Awaits
<1>1. frames = <<>> => nodes = <<>>
  BY ReadLevels
<1>2. loaded = "document"
  BY DEF Composing
<1> QED  BY <1>1, <1>2 DEF Awaits

LEMMA MovesAwaited ==
  ASSUME StreamInv, LoaderInv, loaded \notin Ended, NEW type, Moves(type)
  PROVE  type \in Awaits
<1>1. CASE type = "STREAM-START"
  <2>1. Phase = "before"
    BY <1>1, StreamIs DEF Moves
  <2> QED  BY <1>1, <2>1, InDocumentOf DEF Awaits
<1>2. CASE type \in {"STREAM-END", "DOCUMENT-START"}
  <2>1. Phase = "between"
    BY <1>2, StreamIs DEF Moves
  <2>2. loaded \in {"started", "done"}
    BY <2>1, InDocumentOf
  <2> QED  BY <1>2, <2>2 DEF Awaits
<1>3. CASE type \in NodeTypes
  <2>1. PICK levels : Waits(levels)
    BY <1>3, StreamIs DEF Moves, NodeTypes
  <2>2. Composing
    BY <2>1, InDocumentOf DEF Waits
  <2> QED  BY <1>3, <2>1, <2>2, NodeAwaited
<1>4. CASE type = "DOCUMENT-END"
  <2>1. Phase = "document" /\ Open = <<"done">>
    BY <1>4, StreamIs DEF Moves
  <2>2. Composing
    BY <2>1, InDocumentOf
  <2>3. frames = <<>>
    <3>1. Len(Open) = 1
      BY <2>1
    <3> QED  BY <2>2, <3>1, RootLevels
  <2>4. nodes # <<>>
    BY <2>1, <2>2, <2>3, RootLevels
  <2> QED  BY <1>4, <2>2, <2>3, <2>4 DEF Awaits, Composing
<1>5. CASE type \in {"SEQUENCE-END", "MAPPING-END"}
  <2> DEFINE level == IF type = "SEQUENCE-END" THEN "item" ELSE "key"
  <2>1. Phase = "document" /\ Len(Open) > 1 /\ Last(Open) = level
    BY <1>5, StreamIs DEF Moves
  <2>2. Composing
    BY <2>1, InDocumentOf
  <2>3. /\ frames # <<>> /\ Last(frames).key = 0
        /\ nodes[Last(frames).index].kind = IF level = "item" THEN "sequence" ELSE "mapping"
    <3>1. level \in {"item", "key"}
      OBVIOUS
    <3> HIDE DEF level
    <3> QED  BY <2>1, <2>2, <3>1, EndFacts
  <2> QED  BY <1>5, <2>2, <2>3 DEF Awaits, Composing
<1>6. type \in NodeTypes \cup {"STREAM-START", "STREAM-END", "DOCUMENT-START", "DOCUMENT-END",
                              "SEQUENCE-END", "MAPPING-END"}
  BY DEF Moves, NodeTypes
<1> QED  BY <1>1, <1>2, <1>3, <1>4, <1>5, <1>6

-----------------------------------------------------------------------------
(***************************************************************************)
(* The steps of the composer.                                              *)
(***************************************************************************)
LEMMA NoTree ==
  /\ Tree(<<>>, <<>>, <<>>, 0)
  /\ \A o : o = <<"root">> => Matches(<<>>, <<>>, o, TRUE)
<1>1. /\ <<>> \in Seq(Nodes) /\ <<>> \in Seq(OpenCalls) /\ Len(<<>>) = 0
      /\ 1..0 = {} /\ 2..0 = {}
  BY EmptySeq
<1>2. Tree(<<>>, <<>>, <<>>, 0)
  BY <1>1, EmptyIsSeq DEF Tree, Linked, Framed, Parented, Single
<1>3. ASSUME NEW o, o = <<"root">>
      PROVE  Matches(<<>>, <<>>, o, TRUE)
  BY <1>1, <1>3 DEF Matches
<1> QED  BY <1>2, <1>3

LEMMA DocumentKeeps ==
  ASSUME StreamInv, LoaderInv, loaded \notin Ended, NEW e, Moves(e.type), LoadDocument(e)
  PROVE  LoaderInv'
<1>1. CASE e.type = "STREAM-START" /\ loaded' = "started" /\ UNCHANGED <<nodes, aliases, frames>>
  <2>1. Phase = "before" /\ Phase' = "between"
    BY <1>1, StreamIs DEF Moves
  <2>2. loaded = "nothing"
    BY <2>1, InDocumentOf
  <2> QED  BY <1>1, <2>1, <2>2, EmptyIsSeq DEF LoaderInv
<1>2. CASE LoadStreamEnd(e)
  <2>1. Phase = "between" /\ Phase' = "after"
    BY <1>2, StreamIs DEF Moves, LoadStreamEnd
  <2>2. loaded \in {"started", "done"}
    BY <2>1, InDocumentOf
  <2>3. loaded' = "ended" /\ nodes' = <<>> /\ aliases' = <<>> /\ frames' = <<>>
    BY <1>2, <2>2 DEF LoadStreamEnd, DeleteDocument, LoaderInv
  <2> QED  BY <2>3, EmptyIsSeq DEF LoaderInv
<1>3. CASE /\ e.type = "DOCUMENT-START" /\ loaded' = "document" /\ DeleteDocument /\ DeleteAliases
           /\ UNCHANGED frames
  <2> DEFINE o == Open'
  <2>1. Phase = "between" /\ Phase' = "document" /\ o = <<"root">>
    BY <1>3, StreamIs DEF Moves
  <2>2. loaded \in {"started", "done"}
    BY <2>1, InDocumentOf
  <2>3. nodes' = <<>> /\ aliases' = <<>> /\ frames' = <<>>
    BY <1>3, <2>2 DEF DeleteDocument, DeleteAliases, LoaderInv
  <2> HIDE DEF o
  <2>4. Tree(nodes', frames', aliases', 0) /\ Matches(nodes', frames', o, TRUE)
    BY <2>1, <2>3, NoTree
  <2> QED  BY <1>3, <2>1, <2>3, <2>4, EmptyIsSeq DEF LoaderInv, o
<1>4. CASE LoadFails
  BY <1>4, StopsKeep DEF LoadFails
<1>5. CASE e.type = "DOCUMENT-END" /\ loaded' = "done" /\ DeleteAliases /\ UNCHANGED <<nodes, frames>>
  <2>1. Phase = "document" /\ Open = <<"done">> /\ Phase' = "between"
    BY <1>5, StreamIs DEF Moves
  <2>2. Composing
    BY <2>1, InDocumentOf
  <2>3. Len(Open) = 1 /\ Open # <<"root">>
    BY <2>1
  <2>4. frames = <<>> /\ nodes # <<>>
    BY <2>2, <2>3, RootLevels
  <2>5. Linked(nodes) /\ Parented(nodes, <<>>, 0)
    BY <2>2, <2>4 DEF Composing, Tree
  <2>6. aliases' = <<>> /\ nodes' = nodes /\ frames' = frames /\ loaded' = "done"
    BY <1>5 DEF DeleteAliases
  <2> QED  BY <2>1, <2>4, <2>5, <2>6, EmptyIsSeq DEF LoaderInv
<1> QED  BY <1>1, <1>2, <1>3, <1>4, <1>5 DEF LoadDocument

LEMMA ComposedKeeps == ASSUME Composed' PROVE LoaderInv'
BY DEF Composed, LoaderInv

LEMMA LoadKeeps == ASSUME StreamInv, LoaderInv, Load PROVE LoaderInv'
<1> DEFINE e == event'
<1>1. loaded \notin Ended /\ Parse
  BY DEF Load
<1>2. CASE e.type = "NO"
  <2>1. "NO" \notin Awaits
    BY DEF Awaits, NodeTypes
  <2>2. LoadStops("failed")
    BY <1>2, <2>1 DEF Load
  <2> QED  BY <2>2, StopsKeep
<1>3. CASE e.type # "NO"
  <2>1. Moves(e.type)
    BY <1>1, <1>3, ParseStep DEF StreamStep, StreamInv
  <2>2. e.type \in Awaits
    BY <1>1, <2>1, MovesAwaited
  <2>3. LoadDocument(e) \/ LoadAlias(e) \/ LoadScalar(e) \/ LoadCollection(e) \/ LoadEnd(e)
    BY <2>2 DEF Load
  <2> HIDE DEF e
  <2>4. CASE LoadDocument(e)
    BY <1>1, <2>1, <2>4, DocumentKeeps
  <2>5. CASE LoadFails
    BY <2>5, StopsKeep DEF LoadFails
  <2>6. ASSUME Phase = "document"
        PROVE  Composing
    BY <1>1, <2>6, InDocumentOf
  <2>7. CASE LoadAlias(e) /\ ~LoadFails
    <3>1. Stream!Leaf /\ UNCHANGED loaded
      BY <2>1, <2>7 DEF Moves, LoadAlias
    <3>2. Composing
      BY <2>6, <3>1, StreamIs DEF Waits
    <3> QED  BY <2>7, <3>1, <3>2, AliasKeeps, ComposedKeeps
  <2>8. CASE LoadScalar(e) /\ ~LoadFails
    <3>1. Stream!Leaf /\ UNCHANGED loaded
      BY <2>1, <2>8 DEF Moves, LoadScalar
    <3>2. Composing
      BY <2>6, <3>1, StreamIs DEF Waits
    <3> QED  BY <2>8, <3>1, <3>2, ScalarKeeps, ComposedKeeps
  <2>9. CASE LoadCollection(e) /\ ~LoadFails
    <3>1. UNCHANGED loaded /\ (\/ e.type = "SEQUENCE-START" /\ Stream!SequenceStart
                               \/ e.type = "MAPPING-START" /\ Stream!MappingStart)
      BY <2>1, <2>9 DEF Moves, LoadCollection
    <3>2. Composing
      BY <2>6, <3>1, StreamIs DEF Waits
    <3> QED  BY <2>9, <3>1, <3>2, CollectionKeeps, ComposedKeeps
  <2>10. CASE LoadEnd(e)
    <3>1. Stream!SequenceEnd \/ Stream!MappingEnd
      BY <2>1, <2>10 DEF Moves, LoadEnd
    <3>2. Composing
      BY <2>6, <3>1, StreamIs
    <3> QED  BY <2>10, <3>1, <3>2, EndKeeps, ComposedKeeps
  <2> QED  BY <2>3, <2>4, <2>5, <2>7, <2>8, <2>9, <2>10
<1> QED  BY <1>2, <1>3

LEMMA LoaderStepKeeps == StreamInv /\ LoaderInv /\ [LoaderNext]_vars => LoaderInv'
<1> SUFFICES ASSUME StreamInv, LoaderInv, [LoaderNext]_vars
             PROVE  LoaderInv'
  OBVIOUS
<1>1. CASE Load
  BY <1>1, LoadKeeps
<1>2. CASE UNCHANGED <<state, states>> /\ UNCHANGED loaderVars
  <2>1. Phase' = Phase /\ Open' = Open
    BY <1>2 DEF Phase, Open
  <2>2. nodes' = nodes /\ aliases' = aliases /\ frames' = frames /\ loaded' = loaded
    BY <1>2 DEF loaderVars
  <2> QED  BY <2>1, <2>2 DEF LoaderInv
<1> QED  BY <1>1, <1>2 DEF LoaderNext, LoaderScan, Scan, vars, parserVars

-----------------------------------------------------------------------------
(***************************************************************************)
(* What the invariant says of the document.                                *)
(***************************************************************************)
LEMMA LinkedSound ==
  ASSUME Linked(nodes)
  PROVE  /\ \A i \in 1..Len(nodes) : nodes[i].kind \in Kinds
         /\ \A i \in 1..Len(nodes) :
              /\ \A k \in 1..Len(nodes[i].children) : nodes[i].children[k] \in 1..Len(nodes)
              /\ nodes[i].kind = "mapping" => Len(nodes[i].children) % 2 = 0
<1>1. \A i \in 1..Len(nodes) : nodes[i] \in Nodes
  BY ElementOfSeq DEF Linked
<1> QED  BY <1>1 DEF Linked, Links, Nodes

LEMMA ParentsAre == \A j : Parents(j) = ParentsIn(nodes, j)
BY DEF Parents, ParentsIn, Links

LEMMA SingleSound ==
  ASSUME NEW j, Parents(j) \in SUBSET Int, \A a, b \in Parents(j) : a = b
  PROVE  ~(Cardinality(Parents(j)) > 1)
<1> DEFINE P == Parents(j)
<1>1. CASE P = {}
  BY <1>1, FS_EmptySet
<1>2. CASE P # {}
  <2>1. PICK a : P = {a}
    BY <1>2
  <2> HIDE DEF P
  <2>2. Cardinality(P) = 1
    BY <2>1, FS_Singleton
  <2> QED  BY <2>2 DEF P
<1> QED  BY <1>1, <1>2

LEMMA TreeSound ==
  ASSUME loaded = "document", Tree(nodes, frames, aliases, 0)
  PROVE  LoaderTypeOK /\ DocumentLinked
<1>1. Linked(nodes) /\ Framed(nodes, frames) /\ Single(nodes, frames, aliases, 0)
      /\ AliasIndexes(aliases) \subseteq 1..Len(nodes)
  BY DEF Tree
<1>2. LoaderTypeOK
  BY <1>1, LinkedSound DEF LoaderTypeOK, Framed, Kinds
<1>3. \A i \in 1..Len(aliases) : aliases[i].index \in 1..Len(nodes)
  BY <1>1 DEF AliasIndexes
<1>4. ASSUME NEW j \in 2..Len(nodes), Cardinality(Parents(j)) > 1
      PROVE  \E i \in 1..Len(aliases) : aliases[i].index = j
  <2>1. CASE j \in AliasIndexes(aliases)
    BY <2>1 DEF AliasIndexes
  <2>2. CASE j \notin AliasIndexes(aliases)
    <3>1. \A a, b \in Parents(j) : a = b
      BY <1>1, <2>2, ParentsAre DEF Single
    <3>2. Parents(j) \in SUBSET Int
      BY DEF Parents
    <3> QED  BY <1>4, <3>1, <3>2, SingleSound
  <2> QED  BY <2>1, <2>2
<1> QED  BY <1>1, <1>2, <1>3, <1>4, LinkedSound DEF DocumentLinked

LEMMA DoneSound ==
  ASSUME loaded = "done", aliases = <<>>, frames = <<>>, nodes # <<>>, Linked(nodes), Parented(nodes, <<>>, 0)
  PROVE  LoaderTypeOK /\ DocumentLinked
<1>1. Len(aliases) = 0 /\ Len(frames) = 0
  OBVIOUS
<1>2. ASSUME NEW j \in 2..Len(nodes)
      PROVE  Parents(j) # {}
  <2>1. Len(<<>>) = 0 /\ ~InHand(<<>>, 0, j)
    BY EmptySeq DEF InHand
  <2>2. ParentsIn(nodes, j) # {}
    BY <2>1 DEF Parented
  <2> QED  BY <2>2, ParentsAre
<1>3. LoaderTypeOK
  BY <1>1, LinkedSound DEF LoaderTypeOK, Kinds
<1>4. /\ \A i \in 1..Len(nodes) :
           /\ \A k \in 1..Len(nodes[i].children) : nodes[i].children[k] \in 1..Len(nodes)
           /\ nodes[i].kind = "mapping" => Len(nodes[i].children) % 2 = 0
  BY LinkedSound
<1>5. /\ nodes # <<>> /\ (\A j \in 2..Len(nodes) : Parents(j) # {})
      /\ \A i \in 1..Len(aliases) : aliases[i].index \in 1..Len(nodes)
  BY <1>1, <1>2
<1>6. \A j \in 2..Len(nodes) :
        Cardinality(Parents(j)) > 1 /\ loaded = "document" => \E i \in 1..Len(aliases) : aliases[i].index = j
  OBVIOUS
<1>7. DocumentLinked
  BY <1>4, <1>5, <1>6 DEF DocumentLinked
<1> QED  BY <1>3, <1>7

LEMMA EmptySound ==
  ASSUME loaded \in {"nothing", "started", "failed", "ended"}, nodes = <<>>, aliases = <<>>, frames = <<>>
  PROVE  LoaderTypeOK /\ DocumentLinked
<1>1. Len(nodes) = 0 /\ Len(aliases) = 0 /\ Len(frames) = 0
  OBVIOUS
<1> QED  BY <1>1 DEF LoaderTypeOK, DocumentLinked, Ended

LEMMA DocumentFromInv == LoaderInv => DocumentSound
<1> SUFFICES ASSUME LoaderInv PROVE DocumentSound
  OBVIOUS
<1>1. AssertsHold
  BY DEF LoaderInv, AssertsHold
<1>2. LoaderTypeOK /\ DocumentLinked
  BY TreeSound, DoneSound, EmptySound DEF LoaderInv
<1> QED  BY <1>1, <1>2 DEF DocumentSound

\* Whatever the tokens are and whatever call fails, no assert of yaml_parser_load and the functions it
\* calls fails, and the document they compose is one tree: each child is a node of it, a mapping has as
\* many values as keys, each node behind the root has a parent before it once the document is complete,
\* and only an anchored node has two.
THEOREM DocumentIsSound == LoaderSpec => []DocumentSound
<1>1. LoaderInit => StreamInv /\ LoaderInv
  <2> SUFFICES ASSUME LoaderInit PROVE StreamInv /\ LoaderInv
    OBVIOUS
  <2>1. StreamInv /\ Phase = "before"
    BY StreamInit, StreamIs DEF LoaderInit
  <2> QED  BY <2>1, EmptyIsSeq DEF LoaderInit, LoaderInv
<1>2. StreamInv /\ LoaderInv /\ [LoaderNext]_vars => StreamInv' /\ LoaderInv'
  BY LoaderStepIsParserStep, StreamNext, LoaderStepKeeps
<1> QED  BY <1>1, <1>2, DocumentFromInv, PTL DEF LoaderSpec
=============================================================================
