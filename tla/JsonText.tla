------------------------------- MODULE JsonText -------------------------------
(***************************************************************************)
(* How a request or an answer becomes a line of text and a tree again:     *)
(* the printer and the parser of libraries/cjson/cJSON.c, and the newline  *)
(* that vm_message_calibration ends a message with and the other side      *)
(* reads up to.                                                            *)
(*                                                                         *)
(* A text is a sequence of symbols.  A byte is its own symbol; null, false *)
(* and true, a number, the mark a file may begin with, and the uXXXX of an *)
(* escape are one symbol each, wide as many bytes.                         *)
(***************************************************************************)
EXTENDS Integers, SequencesExt

CONSTANTS
    Word,           \* the strings of the documents, sequences of bytes
    Number,         \* the numbers of the documents
    Unit,           \* the UTF-16 units that somebody escapes
    Typed,          \* the symbols that somebody else's program puts in
    IntMax,         \* INT_MAX, for valueint and for the size of a buffer
    NestingLimit,   \* CJSON_NESTING_LIMIT
    FirstSize,      \* default_buffer_size
    MaxItems        \* bound: the items of a container

Newline == 10
Space == 32
Quote == 34
Star == 42
Comma == 44
Slash == 47
Colon == 58
Back == 92
Open(type) == IF type = "array" THEN 91 ELSE 123
Close(type) == Open(type) + 2

Mark == 259
Null == 260
False == 261
True == 262
BadHex == 999
Hex(unit) == 1000 + unit
Digits(number) == 100000 + number

Width(symbol) ==
    IF symbol = False \/ symbol \in BadHex..66535 THEN 5
    ELSE IF symbol \in {Null, True} THEN 4
    ELSE IF symbol = Mark THEN 3 ELSE 1

Size(s) == FoldSeq(LAMBDA symbol, n : n + Width(symbol), 0, s)

Blank(symbol) == symbol <= Space

-------------------------------------------------------------------------------
(* Documents: what a tree of cells says.                                   *)

Container == {"array", "object"}

Doc(type, value, keys, items) ==
    [type |-> type, value |-> value, keys |-> keys, items |-> items]

Simple(type) == Doc(type, <<>>, <<>>, <<>>)

String(s) == Doc("string", s, <<>>, <<>>)

\* valueint and valuedouble
Numeral(n) ==
    LET valueint == IF n >= IntMax THEN IntMax ELSE IF n < -IntMax THEN -IntMax - 1 ELSE n
    IN  Doc("number", <<valueint, n>>, <<>>, <<>>)

Leaf == {Simple("null"), Simple("true")} \cup {String(s) : s \in Word}
        \cup {Numeral(n) : n \in Number}

RECURSIVE Depth(_)
Depth(doc) ==
    IF doc.type \notin Container THEN 0
    ELSE 1 + FoldSeq(LAMBDA d, n : IF Depth(d) > n THEN Depth(d) ELSE n, 0, doc.items)

-------------------------------------------------------------------------------
(* Printing, as the writes into the buffer, each after a call of ensure.   *)

Write(out, needed, nul) == [out |-> out, needed |-> needed, nul |-> nul]

Short == <<8, 9, 10, 12, 13>>       \* \b \t \n \f \r ...
Letter == <<98, 116, 110, 102, 114>>   \* ... and the letters they are escaped by

\* Slip: a newline is left as it is.
EscapeLess(byte) ==
    IF byte \in {Quote, Back} THEN <<Back, byte>>
    ELSE IF byte < 32 /\ byte # Newline THEN <<Back, Hex(byte)>>
    ELSE <<byte>>

Escape(byte) ==
    IF byte \in {Quote, Back} THEN <<Back, byte>>
    ELSE IF byte \in ToSet(Short) THEN <<Back, Letter[CHOOSE n \in 1..5 : Short[n] = byte]>>
    ELSE IF byte < 32 THEN <<Back, Hex(byte)>>
    ELSE <<byte>>

Escaped(s) == FlattenSeq([n \in DOMAIN s |-> Escape(s[n])])

PrintString(s) ==
    <<Write(<<Quote>> \o Escaped(s) \o <<Quote>>, Size(Escaped(s)) + 3, TRUE)>>

Tabs(n) == [m \in 1..n |-> 9]

If(condition, s) == IF condition THEN s ELSE <<>>

RECURSIVE PrintValue(_, _, _)

PrintArray(doc, format, depth) ==
    LET item(n) ==
            PrintValue(doc.items[n], format, depth + 1)
            \o If(n < Len(doc.items),
                  LET out == <<Comma>> \o If(format, <<Space>>)
                  IN  <<Write(out, Len(out) + 1, TRUE)>>)
    IN  <<Write(<<Open("array")>>, 1, FALSE)>>
        \o FlattenSeq([n \in 1..Len(doc.items) |-> item(n)])
        \o <<Write(<<Close("array")>>, 2, TRUE)>>

\* Slip: room is kept for the brace alone that ends an object.
PrintObjectShort(doc, format, depth) ==
    LET item(n) ==
            If(format, <<Write(Tabs(depth + 1), depth + 1, FALSE)>>)
            \o PrintString(doc.keys[n]) \o <<Write(<<Colon>>, 1, FALSE)>>
            \o PrintValue(doc.items[n], format, depth + 1)
            \o <<Write(If(n < Len(doc.items), <<Comma>>), 1, TRUE)>>
    IN  <<Write(<<Open("object")>>, 2, FALSE)>>
        \o FlattenSeq([n \in 1..Len(doc.items) |-> item(n)])
        \o <<Write(If(format, Tabs(depth)) \o <<Close("object")>>, 1, TRUE)>>

PrintObject(doc, format, depth) ==
    LET opening == <<Open("object")>> \o If(format, <<Newline>>)
        colon == <<Colon>> \o If(format, <<9>>)
        ending(n) == If(n < Len(doc.items), <<Comma>>) \o If(format, <<Newline>>)
        item(n) ==
            If(format, <<Write(Tabs(depth + 1), depth + 1, FALSE)>>)
            \o PrintString(doc.keys[n])
            \o <<Write(colon, Len(colon), FALSE)>>
            \o PrintValue(doc.items[n], format, depth + 1)
            \o <<Write(ending(n), Len(ending(n)) + 1, TRUE)>>
    IN  <<Write(opening, Len(opening) + 1, FALSE)>>
        \o FlattenSeq([n \in 1..Len(doc.items) |-> item(n)])
        \o <<Write(If(format, Tabs(depth)) \o <<Close("object")>>,
                   IF format THEN depth + 2 ELSE 2, TRUE)>>

PrintValue(doc, format, depth) ==
    CASE doc.type = "null" -> <<Write(<<Null>>, 5, TRUE)>>
      [] doc.type = "false" -> <<Write(<<False>>, 6, TRUE)>>
      [] doc.type = "true" -> <<Write(<<True>>, 5, TRUE)>>
      [] doc.type = "number" -> <<Write(<<Digits(doc.value[2])>>, 2, TRUE)>>
      [] doc.type = "string" -> PrintString(doc.value)
      [] doc.type = "array" -> PrintArray(doc, format, depth)
      [] doc.type = "object" -> PrintObject(doc, format, depth)

Writes(doc, format) == PrintValue(doc, format, 0)

TextOf(writes) == FlattenSeq([n \in DOMAIN writes |-> writes[n].out])

Printed(doc, format) == TextOf(Writes(doc, format))

\* The length of the buffer after ensure, or 0 where it returns NULL.
Ensure(length, offset, noalloc, needed) ==
    LET all == needed + offset + 1 IN
    IF (length > 0 /\ offset >= length) \/ needed > IntMax THEN 0
    ELSE IF all <= length THEN length
    ELSE IF noalloc \/ all > IntMax THEN 0
    ELSE IF all > IntMax \div 2 THEN IntMax ELSE 2 * all

\* The buffer after the first n writes; fits tells whether none of them ran over it.
RECURSIVE Filled(_, _, _, _)
Filled(writes, n, length, noalloc) ==
    IF n = 0 THEN [length |-> length, offset |-> 0, ok |-> TRUE, fits |-> TRUE]
    ELSE LET before == Filled(writes, n - 1, length, noalloc)
             new == Ensure(before.length, before.offset, noalloc, writes[n].needed)
             offset == before.offset + Size(writes[n].out)
         IN  IF ~before.ok \/ new = 0 THEN [before EXCEPT !.ok = FALSE]
             ELSE [length |-> new, offset |-> offset, ok |-> TRUE,
                   fits |-> before.fits
                            /\ offset + (IF writes[n].nul THEN 1 ELSE 0) <= new]

PrintAllocated(doc, format) ==
    Filled(Writes(doc, format), Len(Writes(doc, format)), FirstSize, FALSE)

PrintPreallocated(doc, length, format) ==
    Filled(Writes(doc, format), Len(Writes(doc, format)), length, TRUE)

\* vm_message_calibration, and what reading a line takes from the stream.
Calibrated(doc) == Printed(doc, FALSE) \o <<Newline>>

FirstLine(s) ==
    LET ends == {n \in DOMAIN s : s[n] = Newline}
    IN  IF ends = {} THEN s ELSE SubSeq(s, 1, Min(ends) - 1)

-------------------------------------------------------------------------------
(* Parsing.  c is the buffer: a text with the byte 0 after it; at is the   *)
(* place of the next symbol.  A result has the place it has come to.       *)

CanAccess(c, at) == at <= Len(c)

Is(c, at, symbol) == CanAccess(c, at) /\ c[at] = symbol

Failed == [ok |-> FALSE, doc |-> Simple("invalid"), at |-> 0]

Done(doc, at) == [ok |-> TRUE, doc |-> doc, at |-> at]

\* It stops on the last byte of the buffer at the latest.
SkipBlanks(c, at) ==
    LET next == {n \in at..Len(c) : ~Blank(c[n])}
    IN  IF next # {} THEN Min(next) ELSE IF CanAccess(c, at) THEN Len(c) ELSE at

SkipMark(c) == IF Len(c) >= 3 /\ c[1] = Mark THEN 2 ELSE 1

ParseHex(symbol) == IF symbol = BadHex THEN 0 ELSE symbol - 1000

High(unit) == unit \in 55296..56319
Low(unit) == unit \in 56320..57343

Utf8(code) ==
    LET more(n) == 128 + ((code \div (64 ^ n)) % 64) IN
    IF code < 128 THEN <<code>>
    ELSE IF code < 2048 THEN <<192 + code \div 64, more(0)>>
    ELSE IF code < 65536 THEN <<224 + code \div 4096, more(1), more(0)>>
    ELSE <<240 + code \div 262144, more(2), more(1), more(0)>>

Pair(first, second) == 65536 + ((first % 1024) * 1024) + (second % 1024)

\* The bytes for the escape at n and its length, which is 0 where it is no such escape.
Utf16(s, n) ==
    LET hex(m) == m <= Len(s) /\ s[m] \in BadHex..66535
        first == ParseHex(s[n + 1])
        second == ParseHex(s[n + 3])
        none == [out |-> <<>>, length |-> 0]
    IN  IF ~hex(n + 1) \/ Low(first) THEN none
        ELSE IF ~High(first) THEN [out |-> Utf8(first), length |-> 2]
        ELSE IF ~hex(n + 3) \/ s[n + 2] # Back \/ ~Low(second) THEN none
        ELSE [out |-> Utf8(Pair(first, second)), length |-> 4]

RECURSIVE EndOfString(_, _)
EndOfString(c, at) ==
    IF ~CanAccess(c, at) THEN 0
    ELSE IF c[at] = Quote THEN at
    ELSE IF c[at] # Back THEN EndOfString(c, at + 1)
    ELSE IF CanAccess(c, at + 1) THEN EndOfString(c, at + 2) ELSE 0

\* The bytes of a literal from n on.
RECURSIVE Unescaped(_, _)
Unescaped(s, n) ==
    LET symbol == s[n + 1]
        short == IF symbol \in {Quote, Back, Slash} THEN <<symbol>>
                 ELSE <<Short[CHOOSE m \in 1..5 : Letter[m] = symbol]>>
        this == IF s[n] # Back THEN [out |-> <<s[n]>>, length |-> 1]
                ELSE IF n < Len(s) /\ symbol \in {Quote, Back, Slash} \cup ToSet(Letter)
                     THEN [out |-> short, length |-> 2]
                ELSE Utf16(s, n)
        rest == Unescaped(s, n + this.length)
    IN  IF n > Len(s) THEN [ok |-> TRUE, out |-> <<>>]
        ELSE IF this.length = 0 THEN [ok |-> FALSE, out |-> <<>>]
        ELSE [ok |-> rest.ok, out |-> this.out \o rest.out]

\* What a string of C is to its readers.
CString(s) ==
    IF 0 \in ToSet(s) THEN SubSeq(s, 1, SelectInSeq(s, LAMBDA b : b = 0) - 1) ELSE s

ParseString(c, at) ==
    LET end == EndOfString(c, at + 1)
        s == Unescaped(SubSeq(c, at + 1, end - 1), 1)
    IN  IF ~Is(c, at, Quote) \/ end = 0 THEN Failed
        ELSE IF ~s.ok THEN Failed
        ELSE Done(String(CString(s.out)), end + 1)

ParseNumber(c, at) == Done(Numeral(c[at] - 100000), at + 1)

RECURSIVE ParseValue(_, _, _)

\* The items after the place at, up to the closing symbol: each after a key, if keyed.
RECURSIVE ParseItems(_, _, _, _)
ParseItems(c, at, depth, type) ==
    LET keyed == type = "object"
        first == SkipBlanks(c, at + 1)
        key == ParseString(c, first)
        colon == SkipBlanks(c, key.at)
        value == ParseValue(c, IF keyed THEN SkipBlanks(c, colon + 1) ELSE first, depth)
        next == SkipBlanks(c, value.at)
        keys == If(keyed, <<key.doc.value>>)
        rest == ParseItems(c, next, depth, type)
    IN  IF keyed /\ ~key.ok THEN Failed
        ELSE IF keyed /\ ~Is(c, colon, Colon) THEN Failed
        ELSE IF ~value.ok THEN Failed
        ELSE IF Is(c, next, Comma)
             THEN IF rest.ok
                  THEN Done(Doc(type, <<>>, keys \o rest.doc.keys,
                                <<value.doc>> \o rest.doc.items), rest.at)
                  ELSE Failed
        ELSE IF Is(c, next, Close(type)) THEN Done(Doc(type, <<>>, keys, <<value.doc>>), next + 1)
        ELSE Failed

ParseContainer(c, at, depth, type) ==
    LET first == SkipBlanks(c, at + 1) IN
    IF depth >= NestingLimit THEN Failed
    ELSE IF Is(c, first, Close(type)) THEN Done(Simple(type), first + 1)
    ELSE IF ~CanAccess(c, first) THEN Failed
    ELSE ParseItems(c, first - 1, depth + 1, type)

ParseValue(c, at, depth) ==
    IF Is(c, at, Null) THEN Done(Simple("null"), at + 1)
    ELSE IF Is(c, at, False) THEN Done(Simple("false"), at + 1)
    ELSE IF Is(c, at, True) THEN Done(Simple("true"), at + 1)
    ELSE IF Is(c, at, Quote) THEN ParseString(c, at)
    ELSE IF CanAccess(c, at) /\ c[at] > 90000 THEN ParseNumber(c, at)
    ELSE IF Is(c, at, Open("array")) THEN ParseContainer(c, at, depth, "array")
    ELSE IF Is(c, at, Open("object")) THEN ParseContainer(c, at, depth, "object")
    ELSE Failed

\* cJSON_Parse of a text: what comes after the value is not looked at.
Parse(text) ==
    LET c == text \o <<0>>
    IN  ParseValue(c, SkipBlanks(c, SkipMark(c)), 0)

\* cJSON_ParseWithOpts of a text, where nothing may come after the value.
ParseWhole(text) ==
    LET c == text \o <<0>>
        value == Parse(text)
    IN  IF value.ok /\ c[SkipBlanks(c, value.at)] = 0 THEN value ELSE Failed

-------------------------------------------------------------------------------
(* cJSON_Minify.                                                           *)

\* The place after the literal whose first quote is before n.
RECURSIVE AfterString(_, _)
AfterString(s, n) ==
    IF n > Len(s) THEN n
    ELSE IF s[n] = Quote THEN n + 1
    ELSE IF s[n] = Back /\ n < Len(s) /\ s[n + 1] = Quote THEN AfterString(s, n + 2)
    ELSE AfterString(s, n + 1)

\* The place after a comment that begins at n.
AfterComment(s, n) ==
    LET ends == {m \in n + 2..Len(s) :
                    IF s[n + 1] = Slash THEN s[m] = Newline
                    ELSE s[m] = Slash /\ s[m - 1] = Star /\ m > n + 2}
    IN  IF ends = {} THEN Len(s) + 1 ELSE Min(ends) + 1

RECURSIVE MinifiedFrom(_, _)
MinifiedFrom(s, n) ==
    IF n > Len(s) THEN <<>>
    ELSE IF s[n] \in {Space, 9, 10, 13} THEN MinifiedFrom(s, n + 1)
    ELSE IF s[n] = Slash
         THEN IF n < Len(s) /\ s[n + 1] \in {Slash, Star}
              THEN MinifiedFrom(s, AfterComment(s, n)) ELSE MinifiedFrom(s, n + 1)
    ELSE IF s[n] = Quote
         THEN LET next == AfterString(s, n + 1) IN SubSeq(s, n, next - 1) \o MinifiedFrom(s, next)
    ELSE <<s[n]>> \o MinifiedFrom(s, n + 1)

Minify(text) == MinifiedFrom(text, 1)

-------------------------------------------------------------------------------
(* A program puts a document together and prints it; the other side parses *)
(* the text, which may come from another program, with another symbol.     *)

VARIABLES
    doc,        \* the document
    text        \* a text there is of it, or <<>>

vars == <<doc, text>>

RECURSIVE Nodes(_)
Nodes(d) == 1 + FoldSeq(LAMBDA item, n : n + Nodes(item), 0, d.items)

Key == {w \in Word : Len(w) <= 1}

Init ==
    /\ doc \in Leaf \cup {Simple(type) : type \in Container}
    /\ text = <<>>

\* The document becomes the first item of a new container.
Wrap(type) ==
    /\ text = <<>> /\ Nodes(doc) <= MaxItems
    /\ \E key \in Key :
          doc' = Doc(type, <<>>, If(type = "object", <<key>>), <<doc>>)
    /\ UNCHANGED text

\* A leaf is added at the end of the document.
AddLeaf ==
    /\ text = <<>> /\ doc.type \in Container /\ Nodes(doc) <= MaxItems
    /\ \E leaf \in Leaf, key \in Key :
          doc' = Doc(doc.type, <<>>, doc.keys \o If(doc.type = "object", <<key>>),
                     Append(doc.items, leaf))
    /\ UNCHANGED text

PrintDoc(format) ==
    /\ text = <<>> /\ PrintAllocated(doc, format).ok
    /\ text' = Printed(doc, format)
    /\ UNCHANGED doc

\* Two numbers side by side would be another number, so no edit brings them together.
NoDigitsMeet(s) == ~\E n \in 1..Len(s) - 1 : s[n] > 90000 /\ s[n + 1] > 90000

\* Another program's text: one symbol is put in, left out or another one.
OtherText ==
    /\ text = Printed(doc, FALSE)
    /\ \E n \in DOMAIN text :
          \/ text' = RemoveAt(text, n)
          \/ \E symbol \in Typed : text' \in {InsertAt(text, n, symbol), ReplaceAt(text, n, symbol)}
    /\ NoDigitsMeet(text')
    /\ UNCHANGED doc

\* A program that escapes more than it has to.
EscapedText ==
    /\ text = <<>> /\ doc = String(<<>>)
    /\ \E u, v \in Unit : text' = <<Quote, Back, u, Back, v, Quote>>
    /\ UNCHANGED doc

Discard == text # <<>> /\ text' = <<>> /\ UNCHANGED doc

Next ==
    \/ \E type \in Container : Wrap(type)
    \/ AddLeaf
    \/ \E format \in BOOLEAN : PrintDoc(format)
    \/ OtherText
    \/ EscapedText
    \/ Discard

Spec == Init /\ [][Next]_vars

-------------------------------------------------------------------------------
(* What a text means, without a parser: a value is what its parts are, by  *)
(* the grammar of JSON, with a mark in front and a limit to the nesting.   *)
(* A string is told as its readers in C see it, up to a zero byte.         *)

White == {9, 10, 13, Space}

RECURSIVE Trim(_)
Trim(s) ==
    IF s = <<>> THEN s
    ELSE IF s[1] \in White THEN Trim(Tail(s))
    ELSE IF s[Len(s)] \in White THEN Trim(Front(s)) ELSE s

\* An odd number of backslashes is right before n.
IsEscaped(s, n) ==
    LET run == {m \in 1..n - 1 : \A i \in m..n - 1 : s[i] = Back}
    IN  Cardinality(run) % 2 = 1

CodeAt(s, n) == s[n] - 1000

\* What the symbol at n of a literal stands for: nothing, where it is no part of one,
\* as a u after which there are no four digits.
Stands(s, n) ==
    LET unit(m) == m \in DOMAIN s /\ IsEscaped(s, m) /\ s[m] \in Hex(0)..Hex(65535)
        pair(m) == unit(m) /\ unit(m + 2) /\ High(CodeAt(s, m)) /\ Low(CodeAt(s, m + 2))
    IN  IF ~IsEscaped(s, n) THEN {IF s[n] = Back THEN <<>> ELSE <<s[n]>>}
        ELSE IF ~unit(n)
             THEN {<<s[n]>> : x \in {s[n]} \cap {Quote, Back, Slash}}
                  \cup {<<Short[m]>> : m \in {m \in 1..5 : Letter[m] = s[n]}}
        ELSE IF pair(n)
             THEN {Utf8(65536 + (CodeAt(s, n) - 55296) * 1024 + (CodeAt(s, n + 2) - 56320))}
        ELSE IF pair(n - 2) THEN {<<>>}
        ELSE IF High(CodeAt(s, n)) \/ Low(CodeAt(s, n)) THEN {} ELSE {Utf8(CodeAt(s, n))}

StringMeaning(s) ==
    LET inner == SubSeq(s, 2, Len(s) - 1) IN
    IF /\ Len(s) > 1 /\ s[1] = Quote /\ s[Len(s)] = Quote
       /\ ~IsEscaped(inner, Len(inner) + 1)
       /\ \A n \in DOMAIN inner : inner[n] = Quote => IsEscaped(inner, n)
       /\ \A n \in DOMAIN inner : Stands(inner, n) # {}
    THEN {String(CString(FlattenSeq(
             [n \in DOMAIN inner |-> CHOOSE out \in Stands(inner, n) : TRUE])))}
    ELSE {}

RECURSIVE Meaning(_, _)

\* The lists of one key and one value each that s is, with keys only in objects.
RECURSIVE Members(_, _, _)
Members(s, type, levels) ==
    LET splits(symbol) == {n \in DOMAIN s : s[n] = symbol}
        before(n) == Trim(SubSeq(s, 1, n - 1))
        after(n) == SubSeq(s, n + 1, Len(s))
        one == IF type = "array"
               THEN {Doc(type, <<>>, <<>>, <<d>>) : d \in Meaning(Trim(s), levels)}
               ELSE UNION {{Doc(type, <<>>, <<k.value>>, <<d>>) :
                               k \in StringMeaning(before(n)), d \in Meaning(Trim(after(n)), levels)} :
                           n \in splits(Colon)}
        more == UNION {{Doc(type, <<>>, x.keys \o y.keys, x.items \o y.items) :
                           x \in {m \in Members(SubSeq(s, 1, n - 1), type, levels) : Len(m.items) = 1},
                           y \in Members(after(n), type, levels)} :
                       n \in splits(Comma)}
    IN  one \cup more

Meaning(s, levels) ==
    LET inner == SubSeq(s, 2, Len(s) - 1)
        encloses(type) == Len(s) > 1 /\ s[1] = Open(type) /\ s[Len(s)] = Close(type)
        simple == CASE s = <<Null>> -> {Simple("null")}
                    [] s = <<False>> -> {Simple("false")}
                    [] s = <<True>> -> {Simple("true")}
                    [] OTHER -> {}
    IN  simple
        \cup StringMeaning(s)
        \cup (IF Len(s) = 1 /\ s[1] > 90000 THEN {Numeral(s[1] - 100000)} ELSE {})
        \cup UNION {IF Trim(inner) = <<>> THEN {Simple(type)} ELSE Members(inner, type, levels - 1) :
                    type \in {t \in Container : encloses(t) /\ levels > 0}}

-------------------------------------------------------------------------------
(* Properties.                                                             *)

Body(s) == IF s # <<>> /\ s[1] = Mark THEN Tail(s) ELSE s

\* What a text, or some beginning of it, means.
MeaningOf(s) == Meaning(Trim(Body(s)), NestingLimit)
MeaningsIn(s) ==
    UNION {Meaning(Trim(SubSeq(Body(s), 1, n)), NestingLimit) : n \in 0..Len(Body(s))}

Read(value) == IF value.ok THEN {value.doc} ELSE {}

\* A message that vm_send puts into a stream is one line of it, whatever its strings
\* contain, and the other side makes the same document of it.
WhatIsSentIsRead ==
    text = <<>> /\ Depth(doc) <= NestingLimit =>
        Read(Parse(FirstLine(Calibrated(doc) \o Calibrated(Simple("null"))))) = {doc}

\* An escape whose digits are not hexadecimal.
Malformed(s) == \E n \in DOMAIN s : s[n] = BadHex /\ IsEscaped(s, n)

\* A text is taken for what it means and for nothing else: an array or object that is
\* not finished, a comma or a colon too many, half of a pair are refused.  Only what
\* follows a value may be anything, for cJSON_Parse.  Malformed escapes are exempt.
TextsAreUnderstood ==
    ~Malformed(text) =>
        Read(Parse(text)) = MeaningsIn(text) /\ Read(ParseWhole(text)) = MeaningOf(text)

\* The fault that the exemption is for: a malformed escape has no meaning, parse_hex4
\* calls its digits invalid, and the 0 that it returns for them is taken for a character.
\* The text is read as if the digits were 0000, which ends the string, and in no other way.
MalformedIsReadAsZero ==
    LET zeros == [n \in DOMAIN text |-> IF text[n] = BadHex THEN Hex(0) ELSE text[n]]
    IN  Malformed(text) => /\ MeaningsIn(text) = {}
                           /\ Read(Parse(text)) = MeaningsIn(zeros)

\* A string is never longer than the memory that parse_string took for it from the
\* length of its literal and the number of its escapes.
StringsFit ==
    LET c == text \o <<0>> IN
    \A n \in DOMAIN text :
        LET end == EndOfString(c, n + 1)
            literal == SubSeq(c, n + 1, end - 1)
            escapes == {m \in DOMAIN literal : literal[m] = Back /\ ~IsEscaped(literal, m)}
        IN  text[n] = Quote /\ end # 0 =>
               Size(Unescaped(literal, 1).out) <= 1 + Size(literal) - Cardinality(escapes)

\* An escape is the UTF-8 of the character that UTF-16 has there, in its shortest form;
\* a malformed one is no character.
EscapesAreUtf8 ==
    \A n \in DOMAIN text :
        LET b == Utf16(text, n).out
            first == CodeAt(text, n + 1)
            code == IF Len(b) < 4 THEN first
                    ELSE 65536 + (first - 55296) * 1024 + CodeAt(text, n + 3) - 56320
            tail == FoldLeft(LAMBDA sum, byte : sum * 64 + byte - 128, 0, Tail(b))
        IN  text[n] = Back /\ b # <<>> /\ text[n + 1] # BadHex =>
               /\ \A m \in 2..Len(b) : b[m] \in 128..191
               /\ Len(b) = CASE code < 128 -> 1 [] code < 2048 -> 2 [] code < 65536 -> 3 [] OTHER -> 4
               /\ code = (b[1] - <<0, 192, 224, 240>>[Len(b)]) * 64 ^ (Len(b) - 1) + tail

\* No write runs over the buffer that ensure gave for it; and a text of some length
\* is printed into a buffer with 5 bytes more, as cJSON.h says.
WritesFit ==
    text = <<>> => \A format \in BOOLEAN :
        LET size == Size(Printed(doc, format)) + 1 IN
        /\ PrintAllocated(doc, format).fits
        /\ \A length \in 0..size + 5 : PrintPreallocated(doc, length, format).fits
        /\ size + 5 <= IntMax => PrintPreallocated(doc, size + 5, format).ok

\* The shortest comment, one with a slash and a quote in it, and one up to a newline.
Comment == {<<Slash, Star, Star, Slash>>, <<Slash, Star, Slash, Quote, Star, Slash>>,
            <<Slash, Slash, Quote, Star, Slash, Newline>>}

\* Minify takes the blanks and the comments, wherever they are outside of strings, out
\* of a text and leaves it its meaning, as long as no string in it ends in a backslash.
MinifyKeepsMeaning ==
    LET pretty == Printed(doc, TRUE)
        quotes == {n \in DOMAIN pretty : pretty[n] = Quote /\ ~IsEscaped(pretty, n)}
        outside(n) == Cardinality({q \in quotes : q < n}) % 2 = 0
        commented(c) == FlattenSeq([n \in DOMAIN pretty |->
                                       If(outside(n), c) \o <<pretty[n]>>]) \o c
    IN  text = <<>> /\ (\A n \in quotes \ {1} : pretty[n - 1] # Back) =>
           \A c \in Comment \cup {<<>>} : Minify(commented(c)) = Printed(doc, FALSE)

\* A document keeps its meaning on its way through text: what is sent is one line and
\* read as what it was, and every text, of this program or another, is read as what it
\* means, escapes and blanks included; but malformed escapes have none and are read.
TextsKeepMeaning ==
    /\ WhatIsSentIsRead
    /\ TextsAreUnderstood /\ MalformedIsReadAsZero /\ EscapesAreUtf8
    /\ MinifyKeepsMeaning

\* Printing and parsing stay within the memory that they asked for.
BuffersHold == WritesFit /\ StringsFit
===============================================================================
