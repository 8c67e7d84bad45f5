------------------------------ MODULE Format ------------------------------
(***************************************************************************)
(* The formatter (format.c): it prints the tree the parser made, on one    *)
(* line where that fits, and puts the comments back, which the tree does   *)
(* not hold, from a second scan of the text, by their lines.               *)
(*                                                                         *)
(* o is what was printed so far, the next comment to print (at) and        *)
(* whether the last thing printed was a comment behind something on its    *)
(* line (trailing); e is what does not change: the comments, the names of  *)
(* the declared types and the hanging indent.  Width is FMT_WIDTH.         *)
(***************************************************************************)
EXTENDS Reader, FiniteSetsExt

CONSTANTS Width, Hang
ASSUME WidthAssumption == Width \in Nat /\ Hang \in Nat \ {0}
Indent == 2

TypeWords == {"i32", "u64", "bool", "string", "void"}

Put(o, s) == [o EXCEPT !.out = @ \o s]
fmt_write_indent(o, n) == Put(o, [i \in 1..n |-> " "])
NewLine(o, n) == fmt_write_indent(Put(o, << "\n" >>), n)
Fresh(o)      == [o EXCEPT !.trailing = FALSE]

(***************************************************************************)
(* Comments.                                                               *)
(***************************************************************************)
RECURSIVE Trim(_)
Trim(s) == IF s # << >> /\ Last(s) \in Spaces THEN Trim(Front(s)) ELSE s
LineEnd(src, i) == Min({ j \in i..Len(src) : src[j] = "\n" } \cup {Len(src) + 1})
Bump(line, c) == IF c = "\n" THEN line + 1 ELSE line

RECURSIVE ScanComments(_, _, _, _, _)
ScanComments(src, i, line, in_str, items) ==
  CASE i > Len(src) -> items
    [] in_str /\ src[i] = "\\" /\ i < Len(src) -> ScanComments(src, i + 2, Bump(line, src[i + 1]), TRUE, items)
    [] in_str       -> ScanComments(src, i + 1, Bump(line, src[i]), src[i] # "\"", items)
    [] src[i] = "\"" -> ScanComments(src, i + 1, line, TRUE, items)
    [] src[i] = ";"  -> ScanComments(src, LineEnd(src, i), line, FALSE,
                                     Append(items, [text |-> Trim(SubSeq(src, i, LineEnd(src, i) - 1)), line |-> line]))
    [] OTHER        -> ScanComments(src, i + 1, Bump(line, src[i]), FALSE, items)
fmt_scan_comments(src) == ScanComments(src, 1, 1, FALSE, << >>)

fmt_has_pending_comment_in(e, o, start, end) == \E i \in o.at..Len(e.cs) : e.cs[i].line \in start..(end - 1)
fmt_has_comment_at_line(e, o, line)          == \E i \in o.at..Len(e.cs) : e.cs[i].line = line

\* A blank line between two comments is kept.
RECURSIVE FlushFrom(_, _, _, _, _)
FlushFrom(e, o, n, before, prev) ==
  IF o.at > Len(e.cs) \/ e.cs[o.at].line >= before THEN o
  ELSE LET gap == IF prev # 0 /\ e.cs[o.at].line > prev + 1 THEN << "\n" >> ELSE << >>
       IN  FlushFrom(e, [Put(fmt_write_indent(Put(o, gap), n), Append(e.cs[o.at].text, "\n")) EXCEPT !.at = @ + 1],
                     n, before, e.cs[o.at].line)
fmt_flush_comments_before(e, o, n, before) == FlushFrom(e, o, n, before, 0)
fmt_flush_trailing(e, o, line) ==
  IF o.at <= Len(e.cs) /\ e.cs[o.at].line = line
  THEN [Put(o, << " " >> \o e.cs[o.at].text) EXCEPT !.at = @ + 1, !.trailing = TRUE]
  ELSE Fresh(o)
\* Mutant: a closing bracket follows a comment on its line.
CloseOnTheLine(o, n, s) == Put(o, s)
\* A closing bracket behind a comment goes on a line of its own.
CloseWith(o, n, s) == Put(IF o.trailing THEN NewLine(o, n) ELSE o, s)

RECURSIVE fmt_node_end_line(_)
fmt_node_end_line(n) == IF n.xs = << >> THEN n.line ELSE fmt_node_end_line(Last(n.xs))

(***************************************************************************)
(* The names of the types a file declares.                                 *)
(***************************************************************************)
HeadWord(n) == IF n.k = "list" /\ n.xs # << >> /\ n.xs[1].k = "atom" THEN n.xs[1].text ELSE << >>
HeadIn(n, ws) == \E w \in ws : HeadWord(n) = << w >>

RECURSIVE fmt_collect_type_names_from_form(_)
fmt_collect_type_names_from_form(n) ==
  CASE HeadIn(n, {"private", "extern"}) -> UNION { fmt_collect_type_names_from_form(n.xs[i]) : i \in 2..Len(n.xs) }
    [] /\ HeadIn(n, {"struct", "union", "enum", "flags", "alias"})
       /\ Len(n.xs) >= 2 /\ n.xs[2].k = "atom" -> {n.xs[2].text}
    [] OTHER -> {}
RECURSIVE BaseName(_)
BaseName(a) == IF a # << >> /\ Last(a) = "*" THEN BaseName(Front(a)) ELSE a
fmt_is_known_type_atom(e, a) == BaseName(a) \in { << w >> : w \in TypeWords } \cup e.types
fmt_let_slot_looks_like_type(e, n) ==
  n.k = "vector" \/ HeadIn(n, {"member-type"}) \/ (n.k = "atom" /\ fmt_is_known_type_atom(e, n.text))

(***************************************************************************)
(* A form on one line.                                                     *)
(***************************************************************************)
Escape(c) ==
  CASE c = "\n" -> << "\\", "n" >> [] c = "\t" -> << "\\", "t" >> [] c = "\r" -> << "\\", "r" >>
    [] c = "\\" -> << "\\", "\\" >> [] c = "\"" -> << "\\", "\"" >> [] c = Nul -> << "\\", "0" >> [] OTHER -> << c >>
fmt_escape_string(s) == << "\"" >> \o FlattenSeq([i \in 1..Len(s) |-> Escape(s[i])]) \o << "\"" >>
OpenOf(k) == CHOOSE o \in Openers : Kind[o] = k

RECURSIVE fmt_render_inline(_)
fmt_render_seq_inline(n) ==
  << OpenOf(n.k) >> \o FlattenSeq([i \in 1..Len(n.xs) |-> (IF i > 1 THEN << " " >> ELSE << >>) \o fmt_render_inline(n.xs[i])])
    \o << Closer[OpenOf(n.k)] >>
fmt_render_inline(n) ==
  CASE n.k = "atom" -> n.text [] n.k = "string" -> fmt_escape_string(n.text) [] n.k = "nil" -> << >>
    [] OTHER -> fmt_render_seq_inline(n)
\* A form with a comment inside must be broken, or the comment would be lost.
fmt_measure_inline(e, o, n, indent) ==
  ~fmt_has_pending_comment_in(e, o, n.line, fmt_node_end_line(n)) /\ indent + Len(fmt_render_inline(n)) <= Width
Inline(o, n) == Put(o, fmt_render_inline(n))

(***************************************************************************)
(* The forms that have a layout of their own.                              *)
(***************************************************************************)
RECURSIVE fmt_node(_, _, _, _)

\* A form and the comment behind it on its last line.
Item(e, o, n, col) == fmt_flush_trailing(e, fmt_node(e, o, n, col), fmt_node_end_line(n))
\* The same on a line of its own, behind the comments before it.
Break(e, o, n, col) == fmt_write_indent(fmt_flush_comments_before(e, Put(o, << "\n" >>), col, n.line), col)
Lines(e, o, xs, col) == FoldLeft(LAMBDA acc, n : Item(e, Break(e, acc, n, col), n, col), o, xs)
Body(e, o, xs, indent) == IF xs = << >> THEN Put(o, << "\n" >>) ELSE Lines(e, Fresh(o), xs, indent + Indent)
Rest(n, i) == SubSeq(n.xs, i, Len(n.xs))

RunMax(rows, i) ==
  Max({ Len(rows[k].s) : k \in { k \in 1..Len(rows) : \A j \in (IF i < k THEN i..k ELSE k..i) : rows[j].cmt } })
PairRow(e, o, name, value, col) ==
  LET simple == fmt_measure_inline(e, o, value, col)
  IN  [name |-> name, value |-> value, simple |-> simple, s |-> IF simple THEN fmt_render_inline(value) ELSE << >>,
       cmt |-> simple /\ fmt_has_comment_at_line(e, o, fmt_node_end_line(value))]
PrintRow(e, o, rows, i, col, names) ==
  LET row   == rows[i]
      start == Put(IF i = 1 THEN o ELSE Break(e, o, row.name, col + 1), row.name.text)
      value == fmt_write_indent(start, names - Len(row.name.text) + 1)
      done  == CASE row.cmt    -> fmt_write_indent(Put(value, row.s), RunMax(rows, i) - Len(row.s))
                 [] row.simple -> Put(value, row.s)
                 [] OTHER      -> fmt_node(e, value, row.value, col + 1 + names + 1)
  IN  fmt_flush_trailing(e, done, fmt_node_end_line(row.value))
PrintPairs(e, o, rows, col, names) ==
  FoldLeft(LAMBDA acc, i : PrintRow(e, acc, rows, i, col, names), Fresh(Put(o, << "[" >>)), [i \in 1..Len(rows) |-> i])
\* Name and type pairs, one to a line; what is behind the last pair is the caller's.
fmt_pair_vector(e, o, xs, col) ==
  LET pairs == Len(xs) \div 2
      names == Max({0} \cup { Len(xs[2 * i - 1].text) : i \in 1..pairs })
  IN  PrintPairs(e, o, [i \in 1..pairs |-> PairRow(e, o, xs[2 * i - 1], xs[2 * i], col + 1 + names + 1)], col, names)

fmt_call(e, o, n, indent) ==
  LET head == fmt_render_inline(n.xs[1])
      col  == indent + 1 + Len(head) + 1
      open == Fresh(Put(o, << "(" >> \o head))
  IN  CASE fmt_measure_inline(e, o, n, indent) -> Inline(o, n)
        [] n.xs = << >>    -> Put(o, << "(", ")" >>)
        [] Len(n.xs) = 1   -> Put(open, << ")" >>)
        [] OTHER           -> CloseWith(Lines(e, Item(e, Put(open, << " " >>), n.xs[2], col), Rest(n, 3), col), indent, << ")" >>)

\* In a map of pairs a value stays on the line of its key.
SeqItem(e, o, n, i, col, step) ==
  LET start == IF i = 1 THEN o ELSE Break(e, o, n.xs[i], col)
      key   == Item(e, start, n.xs[i], col)
  IN  IF step = 2 THEN Item(e, Put(key, << " " >>), n.xs[i + 1], col) ELSE key
fmt_seq_generic(e, o, n, indent) ==
  LET step  == IF n.k = "map" /\ Len(n.xs) % 2 = 0 THEN 2 ELSE 1
      items == FoldLeft(LAMBDA acc, i : SeqItem(e, acc, n, step * (i - 1) + 1, indent + 1, step),
                        Fresh(Put(o, << OpenOf(n.k) >>)), [i \in 1..(Len(n.xs) \div step) |-> i])
  IN  IF fmt_measure_inline(e, o, n, indent) THEN Inline(o, n)
      ELSE CloseWith(items, indent, << Closer[OpenOf(n.k)] >>)

FnHeader(n) == << "(", "fn", " " >> \o n.xs[2].text \o << " " >> \o fmt_render_inline(n.xs[3]) \o << " " >> \o fmt_render_inline(n.xs[4])
FnHeaderInline(e, o, n, indent) ==
  /\ Len(n.xs[3].xs) \div 2 <= 1
  /\ ~fmt_has_pending_comment_in(e, o, n.xs[2].line, fmt_node_end_line(n.xs[4]))
  /\ indent + Len(FnHeader(n)) <= Width
FnHeaderBroken(e, o, n, col) ==
  LET open == NewLine(Put(o, << "(", "fn", " " >> \o n.xs[2].text), col)
  IN  Put(CloseWith(fmt_pair_vector(e, open, n.xs[3].xs, col), col, << "]", " " >>), fmt_render_inline(n.xs[4]))
fmt_fn(e, o, n, indent) ==
  CASE Len(n.xs) < 4 -> fmt_call(e, o, n, indent)
    [] Len(n.xs) = 4 -> Inline(o, n)
    [] OTHER -> CloseWith(Body(e, IF FnHeaderInline(e, o, n, indent) THEN Put(o, FnHeader(n))
                                  ELSE FnHeaderBroken(e, o, n, indent + e.hang), Rest(n, 5), indent), indent, << ")" >>)

\* The C spelling a declaration may pin is printed as it is.
DeclHeader(o, n) ==
  Put(o, << "(" >> \o n.xs[1].text \o << " " >> \o n.xs[2].text
         \o (IF Len(n.xs) = 4 THEN << " ", "\"" >> \o n.xs[3].text \o << "\"" >> ELSE << >>))
fmt_struct(e, o, n, indent) ==
  LET fields == Last(n.xs).xs
      col    == indent + e.hang
  IN  CASE Len(n.xs) \notin {3, 4} -> fmt_call(e, o, n, indent)
        [] Len(fields) \div 2 <= 1 /\ fmt_measure_inline(e, o, n, indent) -> Inline(o, n)
        [] OTHER -> CloseWith(fmt_pair_vector(e, NewLine(DeclHeader(o, n), col), fields, col), col, << "]", ")" >>)

RECURSIVE EnumRows(_, _, _, _, _)
EnumRows(e, o, vs, i, col) ==
  LET start == Put(IF i = 1 THEN o ELSE Break(e, o, vs[i], col + 1), vs[i].text)
      pair  == i < Len(vs) /\ vs[i + 1].k = "atom" /\ atom_looks_numeric(vs[i + 1].text)
  IN  CASE i > Len(vs) -> o
        [] pair  -> EnumRows(e, fmt_flush_trailing(e, Put(start, << " " >> \o vs[i + 1].text), vs[i + 1].line), vs, i + 2, col)
        [] OTHER -> EnumRows(e, fmt_flush_trailing(e, start, vs[i].line), vs, i + 1, col)
fmt_enum(e, o, n, indent) ==
  LET col  == indent + e.hang
      open == Fresh(Put(NewLine(DeclHeader(o, n), col), << "[" >>))
  IN  CASE Len(n.xs) \notin {3, 4} -> fmt_call(e, o, n, indent)
        [] fmt_measure_inline(e, o, n, indent) -> Inline(o, n)
        [] OTHER -> CloseWith(EnumRows(e, open, Last(n.xs).xs, 1, col), col, << "]", ")" >>)

\* The groups of a binding vector: name and value, with a type between them if one looks like it.
GroupLen(e, flat, i) ==
  IF flat[i].k \notin {"map", "vector"} /\ i < Len(flat) /\ fmt_let_slot_looks_like_type(e, flat[i + 1])
  THEN IF i + 1 < Len(flat) THEN 3 ELSE 2
  ELSE IF i < Len(flat) THEN 2 ELSE 1
RECURSIVE LetRows(_, _, _, _, _)
LetRows(e, o, flat, i, col) ==
  IF i > Len(flat) THEN o
  ELSE LET grp   == SubSeq(flat, i, i + GroupLen(e, flat, i) - 1)
           start == fmt_node(e, IF i = 1 THEN o ELSE Break(e, o, grp[1], col), grp[1], col)
           done  == FoldLeft(LAMBDA acc, n : fmt_node(e, Put(acc, << " " >>), n, col), start, Tail(grp))
       IN  LetRows(e, fmt_flush_trailing(e, done, fmt_node_end_line(Last(grp))), flat, i + Len(grp), col)
fmt_let(e, o, n, indent) ==
  LET open == Fresh(Put(o, << "(", "let", " ", "[" >>))
      col  == indent + 6
      head == CloseWith(LetRows(e, open, n.xs[2].xs, 1, col), col, << "]" >>)
  IN  IF Len(n.xs) < 3 THEN fmt_call(e, o, n, indent)
      ELSE CloseWith(Body(e, head, Rest(n, 3), indent), indent, << ")" >>)

fmt_private_extern(e, o, n, indent) ==
  CASE Len(n.xs) < 2 -> fmt_call(e, o, n, indent)
    [] Len(n.xs) = 2 /\ fmt_measure_inline(e, o, n, indent) -> Inline(o, n)
    [] OTHER -> CloseWith(Body(e, Put(o, << "(" >> \o n.xs[1].text), Rest(n, 2), indent), indent, << ")" >>)

fmt_block_form(e, o, n, indent, arity) ==
  LET head == << "(" >> \o n.xs[1].text \o (IF arity = 1 /\ Len(n.xs) > 1 THEN << " " >> \o fmt_render_inline(n.xs[2]) ELSE << >>)
  IN  IF fmt_measure_inline(e, o, n, indent) THEN Inline(o, n)
      ELSE CloseWith(Body(e, Fresh(Put(o, head)), Rest(n, 2 + arity), indent), indent, << ")" >>)

fmt_node(e, o, n, indent) ==
  CASE n.k \in {"atom", "string"}             -> Inline(o, n)
    [] HeadIn(n, {"fn"})                      -> fmt_fn(e, o, n, indent)
    [] HeadIn(n, {"struct", "union"})         -> fmt_struct(e, o, n, indent)
    [] HeadIn(n, {"enum", "flags"})           -> fmt_enum(e, o, n, indent)
    [] HeadIn(n, {"let"})                     -> fmt_let(e, o, n, indent)
    [] HeadIn(n, {"private", "extern"})       -> fmt_private_extern(e, o, n, indent)
    [] HeadIn(n, {"if", "when", "while", "for"}) -> fmt_block_form(e, o, n, indent, 1)
    [] HeadIn(n, {"do"})                      -> fmt_block_form(e, o, n, indent, 0)
    [] n.k = "list"                           -> fmt_call(e, o, n, indent)
    [] OTHER                                  -> fmt_seq_generic(e, o, n, indent)

(***************************************************************************)
(* A file.  One that does not parse is left alone (format_file_cmd).       *)
(***************************************************************************)
fmt_is_no_gap_op(n) == HeadIn(n, {"val", "var", "alias"})
TopLevel(e, o, xs, i) ==
  LET form == Item(e, fmt_flush_comments_before(e, o, 0, xs[i].line), xs[i], 0)
      gap  == i < Len(xs) /\ ~(fmt_is_no_gap_op(xs[i]) /\ fmt_is_no_gap_op(xs[i + 1]))
  IN  Put(form, IF gap THEN << "\n", "\n" >> ELSE << "\n" >>)
PrintFile(e, root) ==
  LET forms == FoldLeft(LAMBDA acc, i : TopLevel(e, acc, root.xs, i),
                        [out |-> << >>, at |-> 1, trailing |-> FALSE], [i \in 1..Len(root.xs) |-> i])
  IN  IF e.cs = << >> THEN forms.out ELSE fmt_flush_comments_before(e, forms, 0, Last(e.cs).line + 1).out
fmt_program(root, src) ==
  PrintFile([cs |-> fmt_scan_comments(src), hang |-> Hang,
             types |-> UNION { fmt_collect_type_names_from_form(root.xs[i]) : i \in 1..Len(root.xs) }], root)
=============================================================================
