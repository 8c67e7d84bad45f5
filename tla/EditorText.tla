----------------------------- MODULE EditorText -----------------------------
(***************************************************************************)
(* Texts on their way in and out of the tools: the frames and the JSON of  *)
(* the language server (lsp/json.c, lsp/lsp_main.c), file URIs, positions  *)
(* in a buffer, the buffer completed for a completion (lib3b.c), and the   *)
(* words of a command line (build.c).                                      *)
(*                                                                         *)
(* A text is a sequence of symbols, as in Reader; "HI" stands for a byte   *)
(* above 127, "SOH" for a control character that has no escape of its own  *)
(* and "BS" for a backspace; the four digits of \u are one symbol.         *)
(***************************************************************************)
EXTENDS Reader, FiniteSets

CONSTANTS JsonMaxDepth,       \* how deep JSON is parsed
          MaxContentLength,   \* the longest body that is read
          DelimStack          \* how many open brackets are remembered by kind

(***************************************************************************)
(* JSON.  A value is a kind with what that kind has: a text, a number, or  *)
(* items with, in an object, their keys.                                   *)
(***************************************************************************)
JsonValue(k) == [k |-> k, string |-> << >>, number |-> 0, items |-> << >>, keys |-> << >>]
json_new_number(n) == [JsonValue("number") EXCEPT !.number = n]
json_new_string(s) == [JsonValue("string") EXCEPT !.string = s]
json_array_push(array, item) == [array EXCEPT !.items = Append(@, item)]
json_obj_set(object, key, value) == [object EXCEPT !.keys = Append(@, key), !.items = Append(@, value)]
\* The first member of that name.
json_obj_get(object, key) ==
  IF object.k # "object" \/ key \notin Range(object.keys) THEN JsonValue("none")
  ELSE object.items[CHOOSE i \in DOMAIN object.keys : object.keys[i] = key /\ \A j \in 1 .. i - 1 : object.keys[j] # key]

\* Mutant: a backslash is written as it is.
EscapeQuotes(c) == IF c = "\"" THEN << "\\", "\"" >> ELSE << c >>
Escape(c) ==
  CASE c \in {"\"", "\\"} -> << "\\", c >>
    [] c = "\n" -> << "\\", "n" >> [] c = "\r" -> << "\\", "r" >> [] c = "\t" -> << "\\", "t" >>
    [] c = "SOH" -> << "\\", "u", "0001" >>
    [] OTHER -> << c >>
write_escaped_string(s) == << "\"" >> \o FlattenSeq([i \in DOMAIN s |-> Escape(s[i])]) \o << "\"" >>
Figures == << "0", "1", "2", "3", "4", "5", "6", "7", "8", "9" >>
Decimal(n) == IF n < 10 THEN << Figures[n + 1] >> ELSE << Figures[(n \div 10) + 1], Figures[(n % 10) + 1] >>
RECURSIVE json_write(_)
Separated(parts) == FlattenSeq([i \in DOMAIN parts |-> IF i = 1 THEN parts[i] ELSE << "," >> \o parts[i]])
json_write(v) ==
  CASE v.k \in {"null", "true", "false"} -> << v.k >>
    [] v.k = "number" -> IF v.number < 0 THEN << "-" >> \o Decimal(-v.number) ELSE Decimal(v.number)
    [] v.k = "string" -> write_escaped_string(v.string)
    [] v.k = "array"  -> << "[" >> \o Separated([i \in DOMAIN v.items |-> json_write(v.items[i])]) \o << "]" >>
    [] v.k = "object" ->
         << "{" >> \o Separated([i \in DOMAIN v.items |-> write_escaped_string(v.keys[i]) \o << ":" >> \o json_write(v.items[i])]) \o << "}" >>

Cursor(text) == [text |-> text, p |-> 1, depth |-> 0, ok |-> TRUE]
peek(c) == IF c.p <= Len(c.text) THEN c.text[c.p] ELSE Nul
Past(c, n) == [c EXCEPT !.p = @ + n]
Bad(c) == [c EXCEPT !.ok = FALSE]
JsonSpaces == {" ", "\t", "\n", "\r"}
RECURSIVE skip_ws(_)
skip_ws(c) == IF peek(c) \in JsonSpaces THEN skip_ws(Past(c, 1)) ELSE c
Got(c, v) == [c |-> c, v |-> v]
Lost(c) == Got(Bad(c), JsonValue("none"))

\* The bytes of a code point.  A byte above 127 is taken for a code point, and becomes two.
append_utf8(cp) == IF cp = "HI" THEN << "HI", "HI" >> ELSE << cp >>
Escaped == [e \in {"\"", "\\", "/", "b", "f", "n", "r", "t"} |->
             CASE e = "b" -> "BS" [] e = "f" -> "\f" [] e = "n" -> "\n" [] e = "r" -> "\r" [] e = "t" -> "\t" [] OTHER -> e]
parse_hex4 == [h \in {"0001", "0041", "d83d", "de00"} |-> IF h = "0001" THEN << "SOH" >> ELSE IF h = "0041" THEN << "A" >> ELSE << "HI", "HI", "HI", "HI" >>]
RECURSIVE parse_string_body(_, _)
\* Behind a \u: a high surrogate needs its low one, a low one alone is taken.
ParseUnicode(c, buf) ==
  CASE peek(c) \notin DOMAIN parse_hex4 -> Lost(c)
    [] peek(c) = "d83d" ->
         IF SubSeq(c.text, c.p + 1, c.p + 3) = << "\\", "u", "de00" >> THEN parse_string_body(Past(c, 4), buf \o parse_hex4["d83d"]) ELSE Lost(c)
    [] peek(c) = "de00" -> parse_string_body(Past(c, 1), buf \o << "HI", "HI", "HI" >>)
    [] OTHER -> parse_string_body(Past(c, 1), buf \o parse_hex4[peek(c)])
parse_string_body(c, buf) ==
  CASE peek(c) \in {Nul, "SOH", "\n", "\r", "\t", "BS", "\f"} -> Lost(c)
    [] peek(c) = "\"" -> Got(Past(c, 1), json_new_string(buf))
    [] peek(c) = "\\" ->
         LET esc == Past(c, 1)
         IN  IF peek(esc) = "u" THEN ParseUnicode(Past(esc, 1), buf)
             ELSE IF peek(esc) \in DOMAIN Escaped THEN parse_string_body(Past(esc, 1), Append(buf, Escaped[peek(esc)])) ELSE Lost(esc)
    [] OTHER -> parse_string_body(Past(c, 1), buf \o append_utf8(peek(c)))
FigureOf(f) == (CHOOSE i \in DOMAIN Figures : Figures[i] = f) - 1
RECURSIVE ReadFigures(_, _)
ReadFigures(c, n) == IF peek(c) \in Range(Figures) THEN ReadFigures(Past(c, 1), 10 * n + FigureOf(peek(c))) ELSE Got(c, json_new_number(n))
Negated(got) == [got EXCEPT !.v.number = -@]
\* strtod takes the longest number; a sign alone is none.
parse_number(c) ==
  IF peek(c) = "-" THEN (IF peek(Past(c, 1)) \in Range(Figures) THEN Negated(ReadFigures(Past(c, 1), 0)) ELSE Lost(c))
  ELSE ReadFigures(c, 0)
RECURSIVE parse_value(_), ParseItems(_, _), ParseMembers(_, _)
\* After an item: another one, the end of the array, or neither.
ParseItems(got, array) ==
  IF ~got.c.ok THEN got
  ELSE LET c == skip_ws(got.c)
           a == json_array_push(array, got.v)
       IN  CASE peek(c) = "," -> ParseItems(parse_value(skip_ws(Past(c, 1))), a)
             [] peek(c) = "]" -> Got(Past(c, 1), a)
             [] OTHER -> Lost(c)
parse_array(c) ==
  IF peek(skip_ws(c)) = "]" THEN Got(Past(skip_ws(c), 1), JsonValue("array")) ELSE ParseItems(parse_value(skip_ws(c)), JsonValue("array"))
Colon(key) == IF key.c.ok /\ peek(skip_ws(key.c)) = ":" THEN parse_value(skip_ws(Past(skip_ws(key.c), 1))) ELSE Lost(key.c)
ParseKey(c) == IF peek(c) = "\"" THEN parse_string_body(Past(c, 1), << >>) ELSE Lost(c)
AfterMember(key, got, object) ==
  IF ~got.c.ok THEN got
  ELSE LET c == skip_ws(got.c)
           o == json_obj_set(object, key.v.string, got.v)
       IN  CASE peek(c) = "," -> ParseMembers(skip_ws(Past(c, 1)), o)
             [] peek(c) = "}" -> Got(Past(c, 1), o)
             [] OTHER -> Lost(c)
ParseMember(key, object) == AfterMember(key, Colon(key), object)
ParseMembers(c, object) == ParseMember(ParseKey(c), object)
parse_object(c) ==
  IF peek(skip_ws(c)) = "}" THEN Got(Past(skip_ws(c), 1), JsonValue("object")) ELSE ParseMembers(skip_ws(c), JsonValue("object"))
Outward(got) == [got EXCEPT !.c.depth = @ - 1]
Inward(c) == [Past(c, 1) EXCEPT !.depth = @ + 1]
parse_value(c0) ==
  LET c == skip_ws(c0)
  IN  CASE peek(c) = "\"" -> parse_string_body(Past(c, 1), << >>)
        [] peek(c) \in {"[", "{"} ->
             IF c.depth >= JsonMaxDepth THEN Lost(c)
             ELSE Outward(IF peek(c) = "{" THEN parse_object(Inward(c)) ELSE parse_array(Inward(c)))
        [] peek(c) = "-" \/ peek(c) \in Range(Figures) -> parse_number(c)
        [] peek(c) \in {"null", "true", "false"} -> Got(Past(c, 1), JsonValue(peek(c)))
        [] OTHER -> Lost(c)
AllRead(got) == IF got.c.ok /\ skip_ws(got.c).p = Len(got.c.text) + 1 THEN got.v ELSE JsonValue("none")
json_parse(text) == AllRead(parse_value(Cursor(text)))

(***************************************************************************)
(* Frames.  On the wire are lines of headers, each one item, and the       *)
(* symbols of bodies, each one item.                                       *)
(***************************************************************************)
HeaderLine(name, n) == [k |-> name, n |-> n, c |-> Nul]
Body(text) == [i \in DOMAIN text |-> [k |-> "byte", n |-> 0, c |-> text[i]]]
send_message(wire, v) ==
  LET text == json_write(v) IN wire \o << HeaderLine("Content-Length", Len(text)), HeaderLine("blank", 0) >> \o Body(text)
NoMessage == [ok |-> FALSE, body |-> << >>, wire |-> << >>]
Blank(wire) == { i \in DOMAIN wire : wire[i].k = "blank" /\ \A j \in 1 .. i - 1 : wire[j].k # "blank" }
LastLength(headers) ==
  LET at == { i \in DOMAIN headers : headers[i].k = "Content-Length" } IN IF at = {} THEN -1 ELSE headers[CHOOSE i \in at : \A j \in at : j <= i].n
\* The end of the input, a length that is missing or out of range, and a body cut short end the session.
Framed(rest, n) ==
  IF n < 0 \/ n > MaxContentLength \/ Len(rest) < n THEN NoMessage
  ELSE [ok |-> TRUE, body |-> [i \in 1 .. n |-> rest[i].c], wire |-> SubSeq(rest, n + 1, Len(rest))]
read_message(wire) ==
  IF Blank(wire) = {} THEN NoMessage
  ELSE LET b == CHOOSE i \in Blank(wire) : TRUE IN Framed(SubSeq(wire, b + 1, Len(wire)), LastLength(SubSeq(wire, 1, b - 1)))

(***************************************************************************)
(* File URIs.                                                              *)
(***************************************************************************)
Unsafe == [c \in {" ", "%", "#"} |-> CASE c = " " -> << "2", "0" >> [] c = "%" -> << "2", "5" >> [] c = "#" -> << "2", "3" >>]
path_to_uri(path) == << "file://" >> \o FlattenSeq([i \in DOMAIN path |-> IF path[i] \in DOMAIN Unsafe THEN << "%" >> \o Unsafe[path[i]] ELSE << path[i] >>])
HexAt(s, i) == i + 2 <= Len(s) /\ s[i + 1] \in HexDigits /\ s[i + 2] \in HexDigits
ByteOf(pair) == IF \E c \in DOMAIN Unsafe : Unsafe[c] = pair THEN CHOOSE c \in DOMAIN Unsafe : Unsafe[c] = pair ELSE "other"
RECURSIVE Unescaped(_, _)
Unescaped(s, i) ==
  IF i > Len(s) THEN << >>
  ELSE IF s[i] = "%" /\ HexAt(s, i) THEN << ByteOf(<< s[i + 1], s[i + 2] >>) >> \o Unescaped(s, i + 3)
  ELSE << s[i] >> \o Unescaped(s, i + 1)
uri_to_path(uri) == IF uri = << >> \/ Head(uri) # "file://" THEN << "none" >> ELSE Unescaped(Tail(uri), 1)

(***************************************************************************)
(* Positions.  Lines and characters of an editor count from 0, those of    *)
(* the compiler from 1; an offset is how many symbols precede it.          *)
(***************************************************************************)
NewLines(text, upto) == { i \in 1 .. upto : text[i] = "\n" }
StartOf(text, line) ==
  IF line = 0 THEN 0
  ELSE LET at == { i \in NewLines(text, Len(text)) : Cardinality(NewLines(text, i)) = line } IN IF at = {} THEN Len(text) ELSE CHOOSE i \in at : TRUE
EndOf(text, start) ==
  LET at == { i \in start + 1 .. Len(text) : text[i] = "\n" } IN IF at = {} THEN Len(text) ELSE (CHOOSE i \in at : \A j \in at : i <= j) - 1
Nearer(a, b) == IF a < b THEN a ELSE b
line_character_to_offset(text, line, character) == LET s == StartOf(text, line) IN Nearer(s + character, EndOf(text, s))
is_delim_char(c) == c \in Delims \ {"\f"}
extract_prefix(text, line, character) ==
  LET s      == StartOf(text, line)
      cursor == Nearer(s + character, EndOf(text, s))
      from   == { i \in s .. cursor : \A j \in i + 1 .. cursor : ~is_delim_char(text[j]) }
  IN  SubSeq(text, (CHOOSE i \in from : \A j \in from : i <= j) + 1, cursor)
line_col_from_offset(text, offset) ==
  FoldLeft(LAMBDA at, c : IF c = "\n" THEN [line |-> at.line + 1, col |-> 1] ELSE [at EXCEPT !.col = @ + 1],
           [line |-> 1, col |-> 1], SubSeq(text, 1, Nearer(offset, Len(text))))
end_position(text) == LET s == StartOf(text, Cardinality(NewLines(text, Len(text)))) IN [line |-> Cardinality(NewLines(text, Len(text))), character |-> Len(text) - s]

(***************************************************************************)
(* The buffer up to the cursor, with what is open closed.                  *)
(***************************************************************************)
RECURSIVE OpenAt(_, _)
\* A bracket deeper than the stack is taken for a parenthesis.
Opened(open, kind) == Append(open, IF Len(open) < DelimStack THEN kind ELSE "(")
OpenAt(lex, open) ==
  LET next == lexer_next(lex)
  IN  CASE next.tok.kind = "EOF" \/ next.lex.pos = lex.pos -> open
        [] next.tok.kind \in Openers -> OpenAt(next.lex, Opened(open, next.tok.kind))
        [] next.tok.kind \in Closers /\ open # << >> -> OpenAt(next.lex, Front(open))
        [] OTHER -> OpenAt(next.lex, open)
CloseAll(text, open) == text \o [i \in DOMAIN open |-> Closer[open[Len(open) + 1 - i]]]
patch_unclosed_delimiters(text, offset) ==
  LET cut == SubSeq(text, 1, Nearer(offset, Len(text))) IN CloseAll(cut, OpenAt(lexer_init(cut), << >>))

(***************************************************************************)
(* Words of a command line: how the output of pkg-config is split, how a   *)
(* word is quoted, and how the shell (external) reads the line.            *)
(***************************************************************************)
shell_quote(s) == << "'" >> \o FlattenSeq([i \in DOMAIN s |-> IF s[i] = "'" THEN << "'", "\\", "'", "'" >> ELSE << s[i] >>]) \o << "'" >>
Word == [out |-> << >>, buf |-> << >>, in_flag |-> FALSE, quote |-> "", escaped |-> FALSE]
InFlag(w, c) == [w EXCEPT !.buf = Append(@, c), !.in_flag = TRUE, !.escaped = FALSE]
EndFlag(w) == IF w.in_flag THEN [Word EXCEPT !.out = Append(w.out, w.buf)] ELSE w
SplitOne(w, c, last) ==
  CASE w.escaped -> InFlag(w, c)
    [] ~w.escaped /\ w.quote # "" /\ c = w.quote -> [w EXCEPT !.quote = ""]
    [] ~w.escaped /\ c = "\\" /\ w.quote # "'" /\ ~last -> [w EXCEPT !.escaped = TRUE]
    [] ~w.escaped /\ w.quote = "" /\ c \in {"'", "\""} -> [w EXCEPT !.quote = c, !.in_flag = TRUE]
    [] ~w.escaped /\ w.quote = "" /\ c \in Spaces -> EndFlag(w)
    [] OTHER -> InFlag(w, c)
pkg_config_split_flags(text) ==
  EndFlag(FoldLeftDomain(LAMBDA w, i : SplitOne(w, text[i], i = Len(text)), Word, text)).out
CommandLine(words) == FlattenSeq([i \in DOMAIN words |-> << " " >> \o shell_quote(words[i])])
\* A backslash between double quotes stays, unless it is before a quote or another backslash.
ShOne(w, c) ==
  CASE w.escaped /\ w.quote = "\"" /\ c \notin {"\"", "\\"} -> [InFlag(w, "\\") EXCEPT !.buf = Append(@, c)]
    [] w.escaped /\ (w.quote # "\"" \/ c \in {"\"", "\\"}) -> InFlag(w, c)
    [] ~w.escaped /\ w.quote # "" /\ c = w.quote -> [w EXCEPT !.quote = ""]
    [] ~w.escaped /\ c = "\\" /\ w.quote # "'" -> [w EXCEPT !.escaped = TRUE, !.in_flag = TRUE]
    [] ~w.escaped /\ w.quote = "" /\ c \in {"'", "\""} -> [w EXCEPT !.quote = c, !.in_flag = TRUE]
    [] ~w.escaped /\ w.quote = "" /\ c \in Spaces -> EndFlag(w)
    [] OTHER -> InFlag(w, c)
ShReads(text) == FoldLeft(ShOne, Word, text)
ShWords(text) == EndFlag(ShReads(text)).out
=============================================================================
