----------------------------- MODULE HeaderWalk -----------------------------
(***************************************************************************)
(* What `3b translate` learns from the C headers: translate/cwalk.c walks  *)
(* the cursors libclang gives it and captures records, typedefs, enums,    *)
(* functions and constants in a unit.                                      *)
(*                                                                         *)
(* A header is [decl |-> id -> declaration, top |-> sequence of ids,       *)
(* target |-> the ids declared in a header the configuration names].       *)
(***************************************************************************)
EXTENDS TranslateConfig

(***************************************************************************)
(* libclang (external).  A type is [k, id, of, count, const, variadic], a  *)
(* record's or typedef's with the id of its declaration.                   *)
(***************************************************************************)
CxType(k) == [k |-> k, id |-> "", of |-> << >>, count |-> 0, const |-> FALSE, variadic |-> FALSE]
CxBasic(name) == [CxType("basic") EXCEPT !.id = name]
CxDecl(k, id) == [CxType(k) EXCEPT !.id = id]
CxPointer(t) == [CxType("pointer") EXCEPT !.of = << t >>]
CxArray(t, n) == [CxType("array") EXCEPT !.of = << t >>, !.count = n]
\* An array without a size: a parameter, or the last member of a record.
CxOpenArray(t) == [CxType("open") EXCEPT !.of = << t >>]
CxFunction(ret, params) == [CxType("function") EXCEPT !.of = << ret >> \o params]
CxVariadic(ret, params) == [CxFunction(ret, params) EXCEPT !.variadic = TRUE]
RecordDecl(name, fields) ==
  [c |-> "record", name |-> name, defined |-> TRUE, union |-> FALSE, packed |-> FALSE, aligned |-> 0, fields |-> fields]
FieldDecl(name, t) == [name |-> name, type |-> t, bits |-> 0]
EnumDecl(name, ms, wide) == [c |-> "enum", name |-> name, enumerators |-> ms, wide |-> wide]
TypedefDecl(name, t) == [c |-> "typedef", name |-> name, type |-> t]
FunctionDecl(name, ret, params) ==
  [c |-> "function", name |-> name, ret |-> ret, params |-> params, variadic |-> FALSE, deprecated |-> FALSE]
\* What follows a macro's name: its form, the value C gives it, and the number its digits spell in decimal.
MacroDecl(name, form, value) == [c |-> "macro", name |-> name, form |-> form, value |-> value, digits |-> value]

BasicSize(name) ==
  CASE name \in {"unsigned char", "_Bool"} -> 1 [] name = "short" -> 2 [] name \in {"int", "float"} -> 4 [] OTHER -> 8
Up(v, m) == IF v % m = 0 THEN v ELSE v + m - (v % m)
Larger(a, b) == IF a > b THEN a ELSE b
RECURSIVE CxLayout(_, _)
\* The layout of a record in the C ABI: bit-fields share units of their type, which they do not straddle.
PlaceField(acc, f, l, d) ==
  LET align == IF d.packed THEN 1 ELSE l.align
      unit  == 8 * l.size
      free  == IF d.union THEN 0 ELSE acc.bit
      at    == CASE f.bits = 0 -> Up(free, 8 * align)
                 [] ~d.packed /\ (free % unit) + f.bits > unit -> Up(free, unit)
                 [] OTHER -> free
      end   == at + (IF f.bits = 0 THEN 8 * l.size ELSE f.bits)
  IN  [bit |-> end, most |-> Larger(acc.most, end), align |-> Larger(acc.align, align), ats |-> Append(acc.ats, at \div 8)]
Placed(h, d) ==
  FoldLeft(LAMBDA acc, f : PlaceField(acc, f, CxLayout(h, f.type), d), [bit |-> 0, most |-> 0, align |-> Larger(1, d.aligned), ats |-> << >>], d.fields)
CxLayout(h, t) ==
  CASE t.k = "basic"   -> [size |-> BasicSize(t.id), align |-> BasicSize(t.id)]
    [] t.k = "array"   -> LET e == CxLayout(h, t.of[1]) IN [size |-> e.size * t.count, align |-> e.align]
    [] t.k = "open"    -> [size |-> 0, align |-> CxLayout(h, t.of[1]).align]
    [] t.k = "enum"    -> LET n == IF h.decl[t.id].wide THEN 8 ELSE 4 IN [size |-> n, align |-> n]
    [] t.k = "typedef" -> CxLayout(h, h.decl[t.id].type)
    [] t.k = "record"  -> LET p == Placed(h, h.decl[t.id]) IN [size |-> Up(Up(p.most, 8) \div 8, p.align), align |-> p.align]
    [] OTHER           -> [size |-> 8, align |-> 8]
RECURSIVE Canonical(_, _), Desugared(_, _)
Canonical(h, t) ==
  IF t.k = "typedef" THEN Canonical(h, h.decl[t.id].type) ELSE [t EXCEPT !.of = [i \in DOMAIN t.of |-> Canonical(h, t.of[i])]]
Desugared(h, t) == IF t.k = "typedef" THEN Desugared(h, h.decl[t.id].type) ELSE t
Incomplete(h, t) == t.k = "record" /\ ~h.decl[t.id].defined

(***************************************************************************)
(* The unit.                                                               *)
(***************************************************************************)
EmptyUnit ==
  [records |-> << >>, typedefs |-> << >>, functions |-> << >>, constants |-> << >>, enums |-> << >>,
   next_anon_id |-> 0, in_progress |-> << >>]
CType(k) == [k |-> k, name |-> NoName, of |-> << >>, count |-> 0, const |-> FALSE, incomplete |-> FALSE, variadic |-> FALSE]
Holds(s, name) == \E i \in DOMAIN s : s[i].name = name
AnonStems == << "Anon0", "Anon1", "Anon2", "Anon3" >>
AnonName(n) == << "", AnonStems[n + 1], "tag" >>

RECURSIVE type_from_cxtype(_, _, _), capture_record(_, _, _)
\* The types of a list, captured from left to right.
TypesFrom(h, ts, u) ==
  FoldLeft(LAMBDA acc, t : LET r == type_from_cxtype(h, t, acc.u) IN [ts |-> Append(acc.ts, r.t), u |-> r.u],
           [ts |-> << >>, u |-> u], ts)
EmptyRecord(name, d) ==
  [name |-> name, union |-> d.union, anonymous |-> FALSE, complete |-> TRUE, fields |-> << >>, packed |-> d.packed,
   align |-> 0, size |-> 0, c_align |-> 0, anons |-> 0, typedef_name |-> FALSE]
\* A member without a name is counted and left out.
visit_field(acc, f, t, at) ==
  IF f.name = NoName THEN [acc EXCEPT !.anons = @ + 1]
  ELSE [acc EXCEPT !.fields = Append(@, [name |-> f.name, type |-> t, at |-> at, bitfield |-> f.bits > 0])]
FieldTypes(d) == [i \in DOMAIN d.fields |-> d.fields[i].type]
collect_fields(h, d, rec, ts) ==
  FoldLeftDomain(LAMBDA acc, i : visit_field(acc, d.fields[i], ts[i], Placed(h, d).ats[i]), rec, d.fields)
capture_record_layout(rec, l) == [rec EXCEPT !.size = l.size, !.c_align = l.align]
Captured(h, id, rec, walked) ==
  [walked.u EXCEPT !.records = Append(@, capture_record_layout(collect_fields(h, h.decl[id], rec, walked.ts),
                                                               CxLayout(h, CxDecl("record", id))))]
Done(u) == [u EXCEPT !.in_progress = Front(@)]
capture_record(h, id, u) ==
  LET d == h.decl[id]
  IN  IF ~d.defined \/ Holds(u.records, d.name) \/ d.name \in Range(u.in_progress) THEN u
      ELSE Done(Captured(h, id, EmptyRecord(d.name, d), TypesFrom(h, FieldTypes(d), [u EXCEPT !.in_progress = Append(@, d.name)])))
capture_anon_record(h, id, u) ==
  Captured(h, id, [EmptyRecord(AnonName(u.next_anon_id), h.decl[id]) EXCEPT !.anonymous = TRUE],
           TypesFrom(h, FieldTypes(h.decl[id]), [u EXCEPT !.next_anon_id = @ + 1]))

Constant(name, body) == [name |-> name, digits |-> body.digits, hex |-> body.form \in {"hex", "hexcall"}, float |-> body.form = "float"]
Enumerator(m) == [name |-> m.name, digits |-> m.value, hex |-> FALSE, float |-> FALSE]
\* The enumerators of an anonymous enum are constants.
capture_enum(h, id, u) ==
  LET d  == h.decl[id]
      ms == [i \in DOMAIN d.enumerators |-> Enumerator(d.enumerators[i])]
  IN  CASE d.name = NoName          -> [u EXCEPT !.constants = @ \o ms]
        [] Holds(u.enums, d.name)   -> u
        [] OTHER                    -> [u EXCEPT !.enums = Append(@, [name |-> d.name, enumerators |-> ms])]

\* The types of a signature, and then those of its canonical form, which only capture.
fill_fn_pointer_signature(h, t, u) ==
  LET fn     == Desugared(h, t)
      walked == TypesFrom(h, fn.of, u)
  IN  [t |-> [CType("FunctionPointer") EXCEPT !.of = walked.ts, !.variadic = fn.variadic], u |-> TypesFrom(h, Canonical(h, t).of, walked.u).u]
PointerFrom(h, t, walked) ==
  [t |-> [CType("Pointer") EXCEPT !.of = << walked.t >>,
                                  !.incomplete = Canonical(h, t.of[1]).k = "void" \/ Incomplete(h, Canonical(h, t.of[1]))],
   u |-> walked.u]
NamedFrom(t, name, u) == [t |-> [CType("Named") EXCEPT !.name = name, !.const = t.const], u |-> u]
AnonFrom(h, t, u) == NamedFrom(t, AnonName(u.next_anon_id), capture_anon_record(h, t.id, u))
type_from_cxtype(h, t, u) ==
  CASE t.k = "void"     -> [t |-> [CType("Void") EXCEPT !.const = t.const], u |-> u]
    [] t.k = "basic"    -> NamedFrom(t, << "", t.id, "c" >>, u)
    [] t.k = "function" -> fill_fn_pointer_signature(h, t, u)
    [] t.k = "pointer"  ->
         IF Canonical(h, t.of[1]).k = "function" THEN fill_fn_pointer_signature(h, t.of[1], u)
         ELSE PointerFrom(h, t, type_from_cxtype(h, t.of[1], u))
    [] t.k = "array"    ->
         LET e == type_from_cxtype(h, t.of[1], u) IN [t |-> [CType("Array") EXCEPT !.of = << e.t >>, !.count = t.count], u |-> e.u]
    [] t.k = "open"     ->
         LET e == type_from_cxtype(h, t.of[1], u) IN [t |-> [CType("Pointer") EXCEPT !.of = << e.t >>], u |-> e.u]
    [] t.k = "record"   ->
         IF h.decl[t.id].name = NoName THEN AnonFrom(h, t, u)
         ELSE NamedFrom(t, h.decl[t.id].name, capture_record(h, t.id, u))
    [] t.k = "enum"     -> NamedFrom(t, h.decl[t.id].name, IF h.decl[t.id].name = NoName THEN u ELSE capture_enum(h, t.id, u))
    [] t.k = "typedef"  -> NamedFrom(t, h.decl[t.id].name, u)

CFunction(d, ts) ==
  [name |-> d.name, ret |-> ts[1], params |-> [i \in DOMAIN d.params |-> [name |-> d.params[i].name, type |-> ts[i + 1]]],
   variadic |-> d.variadic, deprecated |-> d.deprecated]
capture_function(h, id, u) ==
  LET d == h.decl[id]
      walked == TypesFrom(h, << d.ret >> \o FieldTypes([fields |-> d.params]), u)
  IN  IF Holds(u.functions, d.name) THEN u ELSE [walked.u EXCEPT !.functions = Append(@, CFunction(d, walked.ts))]
\* A typedef that names its own record adds nothing, unless the record is never defined: then it is a handle.
Typedef(h, d, t, u) ==
  LET self == t.k = "Named" /\ t.name = d.name
      open == self /\ Incomplete(h, Canonical(h, d.type))
      mark == [i \in DOMAIN u.records |-> IF u.records[i].name = d.name THEN [u.records[i] EXCEPT !.typedef_name = TRUE] ELSE u.records[i]]
  IN  IF self /\ ~open THEN [u EXCEPT !.records = mark]
      ELSE [u EXCEPT !.typedefs = Append(@, [name |-> d.name, type |-> t, opaque |-> open \/ (t.k = "Pointer" /\ t.incomplete)])]
capture_typedef(h, id, u) ==
  LET d == h.decl[id]
      walked == type_from_cxtype(h, d.type, u)
  IN  IF Holds(u.typedefs, d.name) THEN u ELSE Typedef(h, d, walked.t, walked.u)
\* A number, or a number inside the only parentheses of a call, with its suffixes off.
Numeric == {"dec", "hex", "octal", "float", "call", "hexcall"}
capture_macro_constant(h, id, u) ==
  IF h.decl[id].form \notin Numeric THEN u ELSE [u EXCEPT !.constants = Append(@, Constant(h.decl[id].name, h.decl[id]))]
visit_top_level(h, id, u) ==
  IF id \notin h.target THEN u
  ELSE CASE h.decl[id].c = "function" -> capture_function(h, id, u)
         [] h.decl[id].c = "record"   -> capture_record(h, id, u)
         [] h.decl[id].c = "typedef"  -> capture_typedef(h, id, u)
         [] h.decl[id].c = "enum"     -> capture_enum(h, id, u)
         [] h.decl[id].c = "macro"    -> capture_macro_constant(h, id, u)
cwalk_extract(h) == FoldLeft(LAMBDA u, id : visit_top_level(h, id, u), EmptyUnit, h.top)
=============================================================================
