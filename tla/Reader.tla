------------------------------ MODULE Reader ------------------------------
(***************************************************************************)
(* The reader of 3b source: the lexer (lexer.c), the parser (parser.c) and *)
(* the classification of numeric atoms (atom.c).                           *)
(*                                                                         *)
(* A text is a sequence of symbols.  A symbol is one character or a whole  *)
(* word that holds no delimiter, such as "fn"; words next to each other    *)
(* run together into one atom, as characters do.  "NUL" is the zero byte,  *)
(* which is also what the lexer sees past the end.  Columns and the texts  *)
(* of messages are left out; lines are kept, because the formatter puts    *)
(* the comments back by line.                                              *)
(***************************************************************************)
EXTENDS Integers, Sequences, SequencesExt

Nul     == "NUL"
Spaces  == {" ", "\n", "\t", "\r", "\f"}
Openers == {"(", "[", "{"}
Closers == {")", "]", "}"}
Closer  == [o \in Openers |-> CASE o = "(" -> ")" [] o = "[" -> "]" [] o = "{" -> "}"]
Kind    == [o \in Openers |-> CASE o = "(" -> "list" [] o = "[" -> "vector" [] o = "{" -> "map"]

(***************************************************************************)
(* The lexer.  A lexer is its text, the position of the next symbol and    *)
(* the line it is on.                                                      *)
(***************************************************************************)
lexer_init(src)  == [src |-> src, pos |-> 1, line |-> 1]
lexer_peek(lex)  == IF lex.pos <= Len(lex.src) THEN lex.src[lex.pos] ELSE Nul
lexer_advance(lex) ==
  IF lexer_peek(lex) = Nul THEN lex
  ELSE [lex EXCEPT !.pos = @ + 1, !.line = IF lexer_peek(lex) = "\n" THEN @ + 1 ELSE @]
Delims == {Nul, "\"", ";"} \cup Spaces \cup Openers \cup Closers

RECURSIVE SkipTo(_, _)
SkipTo(lex, stops) == IF lexer_peek(lex) \in stops THEN lex ELSE SkipTo(lexer_advance(lex), stops)

RECURSIVE lexer_skip_ignorable(_)
lexer_skip_ignorable(lex) ==
  CASE lexer_peek(lex) \in Spaces -> lexer_skip_ignorable(lexer_advance(lex))
    [] lexer_peek(lex) = ";"      -> lexer_skip_ignorable(SkipTo(lex, {Nul, "\n"}))
    [] OTHER                      -> lex

Decoded(esc) ==
  CASE esc = "n" -> "\n" [] esc = "t" -> "\t" [] esc = "r" -> "\r" [] esc = "0" -> Nul [] OTHER -> esc

\* Reads from behind the opening quote.  A string that never ends is a token of its own.
RECURSIVE lexer_read_string(_, _, _)
lexer_read_string(lex, buf, line) ==
  CASE lexer_peek(lex) = Nul  -> [tok |-> [kind |-> "error", text |-> << >>, line |-> line], lex |-> lex]
    [] lexer_peek(lex) = "\"" -> [tok |-> [kind |-> "string", text |-> buf, line |-> line], lex |-> lexer_advance(lex)]
    [] lexer_peek(lex) = "\\" ->
         LET esc == lexer_advance(lex)
         IN  lexer_read_string(lexer_advance(esc), Append(buf, Decoded(lexer_peek(esc))), line)
    [] OTHER -> lexer_read_string(lexer_advance(lex), Append(buf, lexer_peek(lex)), line)

ReadToken(lex) ==
  LET c   == lexer_peek(lex)
      end == SkipTo(lex, Delims)
  IN  CASE c = Nul  -> [tok |-> [kind |-> "EOF", text |-> << >>, line |-> lex.line], lex |-> lex]
        [] c \in Openers \cup Closers -> [tok |-> [kind |-> c, text |-> << c >>, line |-> lex.line], lex |-> lexer_advance(lex)]
        [] c = "\"" -> lexer_read_string(lexer_advance(lex), << >>, lex.line)
        [] OTHER    -> [tok |-> [kind |-> "atom", text |-> SubSeq(lex.src, lex.pos, end.pos - 1), line |-> lex.line], lex |-> end]
lexer_next(lex) == ReadToken(lexer_skip_ignorable(lex))

(***************************************************************************)
(* The parser.  p is the current token, the lexer behind it and whether an *)
(* error was reported; parsing a form gives the parser that is left and    *)
(* the node.  MaxChildren is max_u16.                                      *)
(***************************************************************************)
CONSTANT MaxChildren
ASSUME MaxChildrenAssumption == MaxChildren \in Nat

NodeNil == [k |-> "nil", text |-> << >>, line |-> 0, xs |-> << >>]
Leaf(tok)     == [k |-> tok.kind, text |-> tok.text, line |-> tok.line, xs |-> << >>]
ast_push_seq(k, tok, children) ==
  [k |-> k, text |-> tok.text, line |-> tok.line,
   xs |-> SubSeq(children, 1, IF Len(children) > MaxChildren THEN MaxChildren ELSE Len(children))]

parser_advance(p) == LET r == lexer_next(p.lex) IN [p EXCEPT !.cur = r.tok, !.lex = r.lex]
parser_init(src)  == parser_advance([cur |-> << >>, lex |-> lexer_init(src), had_error |-> FALSE])
Failed(p)         == [p EXCEPT !.had_error = TRUE]
Parsed(p, node)   == [p |-> p, node |-> node]

\* Mutant: any closer ends the form.
CloseAny(p, open, children) ==
  LET stop == IF p.cur.kind \in Closers THEN parser_advance(p) ELSE Failed(p)
  IN  Parsed(IF Len(children) > MaxChildren THEN Failed(stop) ELSE stop, ast_push_seq(Kind[open.kind], open, children))
\* The end of a bracketed form: its closer is consumed, another one is left to whoever called.
Close(p, open, children) ==
  LET stop == IF p.cur.kind = Closer[open.kind] THEN parser_advance(p) ELSE Failed(p)
  IN  Parsed(IF Len(children) > MaxChildren THEN Failed(stop) ELSE stop, ast_push_seq(Kind[open.kind], open, children))

RECURSIVE parse_expr(_), parse_bracketed(_, _, _)
parse_bracketed(p, open, children) ==
  IF p.cur.kind \in Closers \cup {"EOF"} THEN Close(p, open, children)
  ELSE LET r == parse_expr(p) IN parse_bracketed(r.p, open, Append(children, r.node))
parse_expr(p) ==
  CASE p.cur.kind \in Openers            -> parse_bracketed(parser_advance(p), p.cur, << >>)
    [] p.cur.kind \in {"atom", "string"} -> Parsed(parser_advance(p), Leaf(p.cur))
    [] OTHER                             -> Parsed(Failed(parser_advance(p)), NodeNil)

RECURSIVE ParseAll(_, _)
ParseAll(p, children) ==
  IF p.cur.kind = "EOF"
  THEN [had_error |-> p.had_error, root |-> ast_push_seq("list", [text |-> << >>, line |-> 1], children)]
  ELSE LET r == parse_expr(p) IN ParseAll(r.p, Append(children, r.node))
parse_program(src) == ParseAll(parser_init(src), << >>)

(***************************************************************************)
(* Numeric atoms.  Here a symbol is one character.                         *)
(***************************************************************************)
Digits    == {"0", "1", "2", "3", "4", "5", "6", "7", "8", "9"}
HexDigits == Digits \cup {"a", "b", "c", "d", "e", "f", "A", "B", "C", "D", "E", "F"}
Signs     == {"+", "-"}
IntSuffixes   == { << "i", "6", "4" >>, << "i", "3", "2" >>, << "i", "1", "6" >>, << "i", "8" >>,
                   << "u", "6", "4" >>, << "u", "3", "2" >>, << "u", "1", "6" >>, << "u", "8" >> }
FloatSuffixes == { << "f", "3", "2" >>, << "f", "6", "4" >> }
NoSuffix      == << >>

Unsigned(a) == IF a # << >> /\ Head(a) \in Signs THEN Tail(a) ELSE a
atom_is_hex_literal(a) ==
  LET u == Unsigned(a)
  IN  Len(u) > 2 /\ u[1] = "0" /\ u[2] \in {"x", "X"} /\ \A i \in 3..Len(u) : u[i] \in HexDigits
\* No suffix ends another, so at most one fits.
numeric_suffix_kind(a) ==
  LET fits == { s \in IntSuffixes \cup FloatSuffixes : Len(a) > Len(s) /\ IsSuffix(s, a) }
  IN  IF fits = {} THEN NoSuffix ELSE CHOOSE s \in fits : TRUE
Chop(a, n) == SubSeq(a, 1, Len(a) - n)

NotNumeric == [is_numeric |-> FALSE, is_hex |-> FALSE, is_float |-> FALSE, explicit_type |-> NoSuffix, body |-> << >>]
IsExponent(t) == Unsigned(t) # << >> /\ \A i \in 1..Len(Unsigned(t)) : Unsigned(t)[i] \in Digits

\* The scan of a decimal body: an exponent needs a digit before it and ends the scan.
RECURSIVE ScanDecimal(_, _, _)
ScanDecimal(u, digit, dot) ==
  CASE u = << >>         -> [ok |-> digit, float |-> dot]
    [] u[1] \in Digits   -> ScanDecimal(Tail(u), TRUE, dot)
    [] u[1] = "."        -> ScanDecimal(Tail(u), digit, TRUE)
    [] u[1] \in {"e", "E"} /\ digit -> [ok |-> IsExponent(Tail(u)), float |-> TRUE]
    [] OTHER             -> [ok |-> FALSE, float |-> FALSE]
ClassifyBody(body, suffix) ==
  LET scan == ScanDecimal(Unsigned(body), FALSE, FALSE)
  IN  CASE atom_is_hex_literal(body) ->
             [NotNumeric EXCEPT !.is_numeric = TRUE, !.is_hex = TRUE, !.explicit_type = suffix, !.body = body]
        [] ~scan.ok \/ (scan.float /\ suffix \in IntSuffixes) -> NotNumeric
        [] OTHER -> [NotNumeric EXCEPT !.is_numeric = TRUE, !.is_float = scan.float \/ suffix \in FloatSuffixes,
                                       !.explicit_type = suffix, !.body = body]
atom_classify_numeric(a) ==
  LET suffix == numeric_suffix_kind(a)
      body   == Chop(a, Len(suffix))
  IN  CASE a = << >> -> NotNumeric
        [] suffix \in FloatSuffixes /\ atom_is_hex_literal(body) -> ClassifyBody(a, NoSuffix)
        [] OTHER -> ClassifyBody(body, suffix)
atom_looks_numeric(a) == atom_classify_numeric(a).is_numeric
=============================================================================
