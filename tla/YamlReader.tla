----------------------------- MODULE YamlReader -----------------------------
(***************************************************************************)
(* yaml/reader.c below the scanner: the octets of the configuration file   *)
(* are read in blocks into raw_buffer, the encoding is taken from the byte *)
(* order mark, and characters are decoded, checked and put into buffer in  *)
(* UTF-8, until the scanner has the characters it asked for.  A block ends *)
(* wherever raw_buffer is full, also in the middle of a character.         *)
(*                                                                         *)
(* Around it ConfYamlLoadFile: the parser is set up, the file is opened,   *)
(* the scanner asks for characters (CACHE) and goes past them (SKIP, READ) *)
(* until it meets the NUL at the end or gives up, and all is released.     *)
(***************************************************************************)
EXTENDS Integers, Sequences, SequencesExt

CONSTANTS
  Files,         \* what the configuration file holds: sequences of octets
  RawSize,       \* INPUT_RAW_BUFFER_SIZE
  BufferSize,    \* INPUT_BUFFER_SIZE
  Lengths,       \* the numbers of characters the scanner asks for
  InputFails,    \* may reading the file fail?
  MemoryFails    \* may malloc return NULL?

(***************************************************************************)
(* "The length is supposed to be significantly less that the buffer size"  *)
(* (reader.c:138): what is left of a call before, of up to four octets a   *)
(* character, and a whole raw buffer (two octets give three) and the NUL   *)
(* have room.                                                              *)
(***************************************************************************)
ASSUME SizeAssumption ==
  /\ RawSize \in Nat /\ BufferSize \in Nat /\ RawSize >= 4
  /\ \A l \in Lengths : l \in Nat \ {0} /\ 2 * BufferSize >= 8 * (l - 1) + 3 * RawSize + 2
  /\ InputFails \in BOOLEAN /\ MemoryFails \in BOOLEAN

VARIABLES
  pc,            \* where ConfYamlLoadFile and what it calls are
  held,          \* the blocks the parser owns, and the open file
  file, pos,     \* the file, and how much of it fread has returned
  eof, encoding, \* parser->eof, parser->encoding
  offset,        \* parser->offset: octets decoded
  raw, raw_skip, \* raw_buffer: the octets from pointer to last; pointer - start
  buffer, skip,  \* buffer: the octets from pointer to last; pointer - start
  unread,        \* characters in buffer
  asked,         \* the length the scanner asked for
  first,         \* no block has been read in this call of update_buffer
  error,         \* [problem, offset] of set_reader_error, problem "none" before
  chars, passed  \* history: characters decoded; octets the scanner went past

fileVars == <<file, pos, eof>>
rawVars  == <<raw, raw_skip, offset, encoding>>
bufVars  == <<buffer, skip, unread, chars, passed>>
callVars == <<asked, first, error>>
vars == <<pc, held, fileVars, rawVars, bufVars, callVars>>

NoError == [problem |-> "none", offset |-> 0]

Init ==
  /\ pc = "new" /\ held = {}
  /\ file \in Files /\ pos = 0 /\ eof = FALSE
  /\ encoding = "any" /\ offset = 0
  /\ raw = <<>> /\ raw_skip = 0
  /\ buffer = <<>> /\ skip = 0 /\ unread = 0
  /\ chars = <<>> /\ passed = <<>>
  /\ asked = 0 /\ first = TRUE /\ error = NoError

-----------------------------------------------------------------------------
(***************************************************************************)
(* Octets and characters.                                                  *)
(***************************************************************************)
Bom == [utf16le |-> <<255, 254>>, utf16be |-> <<254, 255>>, utf8 |-> <<239, 187, 191>>]

\* Length of a UTF-8 sequence by its leading octet, 0 for none.
Width(o) ==
  CASE o < 128 -> 1
    [] o \in 192..223 -> 2
    [] o \in 224..239 -> 3
    [] o \in 240..247 -> 4
    [] OTHER -> 0

Trailing(o) == o \in 128..191

\* The characters YAML allows.
Allowed(v) ==
  \/ v \in {9, 10, 13, 133} \/ v \in 32..126 \/ v \in 160..55295
  \/ v \in 57344..65533 \/ v \in 65536..1114111

\* The octets a character is put into buffer with.
Utf8(v) ==
  CASE v < 128   -> <<v>>
    [] v \in 128..2047 -> <<192 + v \div 64, 128 + (v % 64)>>
    [] v \in 2048..65535 -> <<224 + v \div 4096, 128 + ((v \div 64) % 64), 128 + (v % 64)>>
    [] OTHER -> <<240 + v \div 262144, 128 + ((v \div 4096) % 64), 128 + ((v \div 64) % 64), 128 + (v % 64)>>

Good(v, w)   == [is |-> "char", value |-> v, width |-> w, at |-> 0]
Bad(what, k) == [is |-> what, value |-> 0, width |-> 0, at |-> k]

\* Mutant: the end of the block is taken for that of the file.
Incomplete_Block(what) == Bad(what, 0)

\* The sequence is cut off: by the end of the file, or only by that of the block.
Incomplete(what) == Bad(IF eof THEN what ELSE "incomplete", 0)

\* The value of a UTF-8 sequence of w octets.
Value(w) ==
  FoldLeft(LAMBDA v, o : 64 * v + (o % 64),
           CASE w = 1 -> raw[1] [] w = 2 -> raw[1] % 32 [] w = 3 -> raw[1] % 16 [] OTHER -> raw[1] % 8,
           SubSeq(raw, 2, w))

DecodeUtf8 ==
  LET w == Width(raw[1])
      wrong == {k \in 2..w : ~Trailing(raw[k])}
  IN
  IF w = 0 THEN Bad("invalid leading UTF-8 octet", 0)
  ELSE IF w > Len(raw) THEN Incomplete("incomplete UTF-8 octet sequence")
  ELSE IF wrong # {}
  THEN Bad("invalid trailing UTF-8 octet", (CHOOSE k \in wrong : \A j \in wrong : k <= j) - 1)
  ELSE IF Len(Utf8(Value(w))) # w THEN Bad("invalid length of a UTF-8 sequence", 0)
  ELSE IF Value(w) \in 55296..57343 \/ Value(w) > 1114111 THEN Bad("invalid Unicode character", 0)
  ELSE Good(Value(w), w)

\* The unit of UTF-16 that begins behind k octets.
Unit(k) ==
  IF encoding = "utf16le" THEN raw[k + 1] + 256 * raw[k + 2] ELSE raw[k + 2] + 256 * raw[k + 1]

HighSurrogate(u) == u \in 55296..56319
LowSurrogate(u)  == u \in 56320..57343

\* Mutant: a surrogate pair is looked at when its first unit is there.
PairFits_Half == Len(raw) >= 2

PairFits == Len(raw) >= 4

DecodeUtf16 ==
  IF Len(raw) < 2 THEN Incomplete("incomplete UTF-16 character")
  ELSE IF LowSurrogate(Unit(0)) THEN Bad("unexpected low surrogate area", 0)
  ELSE IF ~HighSurrogate(Unit(0)) THEN Good(Unit(0), 2)
  ELSE IF ~PairFits THEN Incomplete("incomplete UTF-16 surrogate pair")
  ELSE IF Len(raw) < 4 \/ ~LowSurrogate(Unit(2)) THEN Bad("expected low surrogate area", 2)
  ELSE Good(65536 + 1024 * (Unit(0) % 1024) + (Unit(2) % 1024), 4)

\* The next character of the block, "incomplete" when the block has no more.
Decoded ==
  LET d == IF raw = <<>> THEN Bad("incomplete", 0)
           ELSE IF encoding = "utf8" THEN DecodeUtf8 ELSE DecodeUtf16 IN
  IF d.is = "char" /\ ~Allowed(d.value) THEN Bad("control characters are not allowed", 0) ELSE d

-----------------------------------------------------------------------------
(***************************************************************************)
(* The blocks of the parser, in the order yaml_parser_initialize makes     *)
(* them.  yaml_free of NULL does nothing, and BUFFER_DEL leaves NULL.      *)
(***************************************************************************)
Blocks == <<"raw_buffer", "buffer", "tokens", "indents", "simple_keys", "states", "marks",
            "tag_directives">>

Release(blocks) == held' = held \ blocks

\* Mutant: the last stack is forgotten when the parser is deleted.
yaml_parser_delete_NotLast == Release({Blocks[i] : i \in 1..(Len(Blocks) - 1)})

yaml_parser_delete == Release(ToSet(Blocks))

otherVars == <<fileVars, rawVars, bufVars, callVars>>

\* yaml_parser_initialize: all blocks, or those before the one that fails are released again.
Initialize ==
  /\ pc = "new"
  /\ \/ held' = ToSet(Blocks) /\ pc' = "open"
     \/ MemoryFails /\ held' = {} /\ pc' = "returned"
  /\ UNCHANGED otherVars

Open ==
  /\ pc = "open"
  /\ \/ held' = held \cup {"infile"} /\ pc' = "idle"
     \/ InputFails /\ yaml_parser_delete /\ pc' = "returned"
  /\ UNCHANGED otherVars

\* ConfYamlParse returns: at the end, after an error of the reader, or because the
\* scanner, the parser or the loader refuses what it has seen so far.
Delete ==
  /\ pc \in {"idle", "have", "failed"}
  /\ yaml_parser_delete
  /\ pc' = "close"
  /\ UNCHANGED otherVars

Close ==
  /\ pc = "close"
  /\ Release({"infile"})
  /\ pc' = "returned"
  /\ UNCHANGED otherVars

-----------------------------------------------------------------------------
(***************************************************************************)
(* What the scanner does.                                                  *)
(***************************************************************************)
\* CACHE, and the early returns of yaml_parser_update_buffer.
Ask(l) ==
  /\ (pc = "idle") \/ (pc = "have" /\ l > asked)
  /\ asked' = l
  /\ first' = TRUE
  /\ IF unread >= l \/ (eof /\ raw = <<>>) THEN pc' = "have"
     ELSE pc' = IF encoding = "any" THEN "determine" ELSE "move"
  /\ UNCHANGED <<held, fileVars, rawVars, bufVars, error>>

\* SKIP or READ: one character of those that were asked for, never the NUL.
Skip ==
  /\ pc = "have" /\ unread > 0 /\ Head(buffer) # 0
  /\ LET w == Width(Head(buffer)) IN
       /\ passed' = passed \o SubSeq(buffer, 1, w)
       /\ buffer' = SubSeq(buffer, w + 1, Len(buffer))
       /\ skip' = skip + w
  /\ unread' = unread - 1
  /\ asked' = asked - 1
  /\ pc' = IF asked = 1 THEN "idle" ELSE "have"
  /\ UNCHANGED <<held, fileVars, rawVars, chars, first, error>>

-----------------------------------------------------------------------------
(***************************************************************************)
(* yaml_parser_update_raw_buffer.  yaml_file_read_handler is fread, which  *)
(* returns less than it was asked for only at the end of the file.         *)
(***************************************************************************)
RawFull == raw_skip = 0 /\ Len(raw) = RawSize

UpdateRawBuffer(next) ==
  \/ /\ RawFull \/ eof
     /\ pc' = next
     /\ UNCHANGED <<fileVars, raw, raw_skip, error>>
  \/ /\ ~RawFull /\ ~eof
     /\ LET room == RawSize - Len(raw)
            n == IF Len(file) - pos < room THEN Len(file) - pos ELSE room
        IN /\ raw' = raw \o SubSeq(file, pos + 1, pos + n)
           /\ pos' = pos + n
           /\ eof' = (n = 0)
     /\ raw_skip' = 0
     /\ pc' = next
     /\ UNCHANGED <<file, error>>
  \/ /\ ~RawFull /\ ~eof /\ InputFails
     /\ raw_skip' = 0
     /\ error' = [problem |-> "input error", offset |-> offset]
     /\ pc' = "failed"
     /\ UNCHANGED <<fileVars, raw>>

\* The longest mark has three octets.
MarkShort == Len(raw) < 3

\* yaml_parser_determine_encoding: its loop, then the mark.
ReadForMark ==
  /\ pc = "determine" /\ ~eof /\ MarkShort
  /\ UpdateRawBuffer("determine")
  /\ UNCHANGED <<held, offset, encoding, bufVars, asked, first>>

DetermineEncoding ==
  /\ pc = "determine" /\ (eof \/ ~MarkShort)
  /\ encoding' = IF IsPrefix(Bom.utf16le, raw) THEN "utf16le"
                 ELSE IF IsPrefix(Bom.utf16be, raw) THEN "utf16be" ELSE "utf8"
  /\ LET n == IF IsPrefix(Bom[encoding'], raw) THEN Len(Bom[encoding']) ELSE 0 IN
       /\ raw' = SubSeq(raw, n + 1, Len(raw))
       /\ raw_skip' = raw_skip + n
       /\ offset' = offset + n
  /\ pc' = "move"
  /\ UNCHANGED <<held, fileVars, bufVars, callVars>>

-----------------------------------------------------------------------------
(***************************************************************************)
(* yaml_parser_update_buffer.                                              *)
(***************************************************************************)
\* The unread octets move to the beginning of the buffer.
MoveUnread ==
  /\ pc = "move"
  /\ skip' = 0
  /\ pc' = "fill"
  /\ UNCHANGED <<held, fileVars, rawVars, buffer, unread, chars, passed, callVars>>

\* Mutant: a block is read only when nothing is left of the one before.
NeedsBlock_Empty == raw = <<>>

NeedsBlock == ~first \/ raw = <<>>

Fill ==
  /\ pc = "fill"
  /\ first' = FALSE
  /\ \/ NeedsBlock /\ UpdateRawBuffer("decode")
     \/ ~NeedsBlock /\ pc' = "decode" /\ UNCHANGED <<fileVars, raw, raw_skip, error>>
  /\ UNCHANGED <<held, offset, encoding, bufVars, asked>>

Put(octets) ==
  /\ buffer' = buffer \o octets
  /\ unread' = unread + 1

DecodeCharacter ==
  /\ pc = "decode" /\ Decoded.is = "char"
  /\ LET d == Decoded IN
       /\ raw' = SubSeq(raw, d.width + 1, Len(raw))
       /\ raw_skip' = raw_skip + d.width
       /\ offset' = offset + d.width
       /\ Put(Utf8(d.value))
       /\ chars' = Append(chars, d.value)
  /\ UNCHANGED <<pc, held, fileVars, encoding, skip, passed, callVars>>

\* yaml_parser_set_reader_error: nothing of the bad sequence is taken.
DecodeError ==
  /\ pc = "decode" /\ Decoded.is \notin {"char", "incomplete"}
  /\ error' = [problem |-> Decoded.is, offset |-> offset + Decoded.at]
  /\ pc' = "failed"
  /\ UNCHANGED <<held, fileVars, rawVars, bufVars, asked, first>>

\* The block is decoded: at the end of the file a NUL follows, else go on until there is enough.
EndOfBlock ==
  /\ pc = "decode" /\ Decoded.is = "incomplete"
  /\ \/ eof /\ Put(<<0>>) /\ pc' = "have"
     \/ /\ ~eof
        /\ pc' = IF unread < asked THEN "fill" ELSE "have"
        /\ UNCHANGED <<buffer, unread>>
  /\ UNCHANGED <<held, fileVars, rawVars, skip, chars, passed, callVars>>

yaml_parser_update_buffer ==
  ReadForMark \/ DetermineEncoding \/ MoveUnread \/ Fill \/ DecodeCharacter \/ DecodeError \/ EndOfBlock

ConfYamlLoadFile == Initialize \/ Open \/ Delete \/ Close

Next == ConfYamlLoadFile \/ (\E l \in Lengths : Ask(l)) \/ Skip \/ yaml_parser_update_buffer

Spec == Init /\ [][Next]_vars /\ WF_vars(Next)

-----------------------------------------------------------------------------
(***************************************************************************)
(* Properties.                                                             *)
(***************************************************************************)
\* How RFC 3629 and RFC 2781 write a character, apart from how it was read.
Encoded(v) ==
  LET unit(u) == IF encoding = "utf16le" THEN <<u % 256, u \div 256>> ELSE <<u \div 256, u % 256>> IN
  IF encoding \in {"any", "utf8"} THEN Utf8(v)
  ELSE IF v < 65536 THEN unit(v)
  ELSE unit(55296 + (v - 65536) \div 1024) \o unit(56320 + ((v - 65536) % 1024))

Mark == IF encoding # "any" /\ IsPrefix(Bom[encoding], file) THEN Bom[encoding] ELSE <<>>

WithoutNul == IF buffer # <<>> /\ Last(buffer) = 0 THEN Front(buffer) ELSE buffer

(***************************************************************************)
(* The scanner gets the file as it was written, wherever the blocks end:   *)
(* the characters taken from it so far, written again, are its octets up   *)
(* to offset, all of them are allowed, and the scanner went past some of   *)
(* them and has the others, in order and in UTF-8.                         *)
(***************************************************************************)
ReadsAsWritten ==
  /\ encoding # "any" =>
       Mark \o FlattenSeq([i \in 1..Len(chars) |-> Encoded(chars[i])]) = SubSeq(file, 1, offset)
  /\ \A i \in 1..Len(chars) : Allowed(chars[i])
  /\ passed \o WithoutNul = FlattenSeq([i \in 1..Len(chars) |-> Utf8(chars[i])])
  /\ raw = SubSeq(file, offset + 1, pos)

(***************************************************************************)
(* A call that succeeded left the characters that were asked for, or the   *)
(* NUL, which is there only when the whole file was decoded; unread counts *)
(* them, and neither buffer was ever written past its end.                 *)
(***************************************************************************)
EnoughOrEnd ==
  /\ pc = "have" => unread >= asked \/ (buffer # <<>> /\ Last(buffer) = 0)
  /\ buffer # <<>> /\ Last(buffer) = 0 => offset = Len(file)
  /\ unread = Len(SelectSeq(buffer, LAMBDA o : ~Trailing(o)))
  /\ raw_skip + Len(raw) <= RawSize
  /\ skip + Len(buffer) <= BufferSize

(***************************************************************************)
(* A file is refused only for what it holds: no allowed character begins   *)
(* at the sequence that is reported, as the file has it and not as the     *)
(* block shows it.  The characters tried are those of the files.           *)
(***************************************************************************)
Tried == {10, 97, 133, 233, 8364, 65279, 65533, 65536, 128512}

RefusedForCause ==
  error.problem \notin {"none", "input error"} =>
    \A v \in Tried : ~IsPrefix(Encoded(v), SubSeq(file, offset + 1, Len(file)))

ReaderSound == ReadsAsWritten /\ EnoughOrEnd /\ RefusedForCause

(***************************************************************************)
(* Loading comes to an end with any file: no call of the reader waits for  *)
(* octets that will not come, and whatever fails, the parser's blocks and  *)
(* the file are released.                                                  *)
(***************************************************************************)
ReadingEnds == <>(pc = "returned" /\ held = {})
=============================================================================
