----------------------------- MODULE Translate -----------------------------
(***************************************************************************)
(* `3b translate`: the package translate/emit.c writes for a unit, with    *)
(* the names translate/rename.c gives, and the command that loads the      *)
(* configuration, walks the headers, verifies and writes.                  *)
(*                                                                         *)
(* A 3b type is [k, name, of, count] with k "Named" (a primitive, "any"    *)
(* and void included), "Pointer", "Array" or "fn".  A package is a         *)
(* sequence of declarations.                                               *)
(***************************************************************************)
EXTENDS HeaderWalk

CONSTANTS IntBits, LongBits    \* the widths of i32 and u32, and of i64 and u64
ASSUME WidthAssumption == IntBits \in Nat /\ LongBits \in Nat /\ 0 < IntBits /\ IntBits < LongBits

D == INSTANCE Declarations

T3(name) == [k |-> "Named", name |-> name, of |-> << >>, count |-> 0]
Prim(n) == << "", n, "kebab" >>
PrimitiveNames == {"i8", "i16", "i32", "i64", "u8", "u16", "u32", "u64", "f32", "f64", "bool", "char", "string", "void", "any", "arena"}
is_primitive_type_name(n) == n \in { Prim(p) : p \in PrimitiveNames }
g_reserved_words == { Prim(w) : w \in PrimitiveNames \cup {"set", "print", "match"} }
is_reserved_name(n) == n \in g_reserved_words
AnyType == T3(Prim("any"))
PointerTo3(t) == [T3(NoName) EXCEPT !.k = "Pointer", !.of = << t >>]

(***************************************************************************)
(* Names.  A pattern matches the names of a prefix and captures what       *)
(* follows it; a template is a literal prefix and one styled group.        *)
(***************************************************************************)
rename_regex_matches(p, n) == p.any /\ n[1] = p.prefix
style_from_text(s) == s \in {"", "pascal", "camel", "snake", "kebab", "upper", "lower", "verbatim"}
apply_style(style, n) == IF style \in {"", "verbatim"} THEN n ELSE Styled(n, style)
expand_template(r, p, n) ==
  IF ~style_from_text(r.style) \/ r.group \notin {0, 1} THEN NoName
  ELSE LET styled == apply_style(r.style, IF r.group = 0 THEN n ELSE Stripped(n, p.prefix))
       IN  << r.lit \o styled[1], styled[2], styled[3] >>
Applies(rp, n) == rename_regex_matches(rp.pattern, n) /\ expand_template(rp.replacement, rp.pattern, n) # NoName
rename_patterns_apply(ps, n) ==
  IF \E i \in DOMAIN ps : Applies(ps[i], n)
  THEN LET p == ps[FirstOf(ps, LAMBDA rp : Applies(rp, n))] IN expand_template(p.replacement, p.pattern, n)
  ELSE NoName
camel_to_kebab(n) == Styled(n, "kebab")
Renamed(c, k, n) ==
  IF \E i \in DOMAIN c.renames[k] : c.renames[k][i].from = n
  THEN c.renames[k][FirstOf(c.renames[k], LAMBDA r : r.from = n)].to
  ELSE rename_patterns_apply(c.patterns[k], n)
Or(n, m) == IF n # NoName THEN n ELSE m
lookup_const_rename(c, n) == Or(Renamed(c, "const", Stripped(n, c.strip["const"])), Stripped(n, c.strip["const"]))
compute_type_name(c, n) == Or(Renamed(c, "type", n), Stripped(n, c.strip["type"]))
compute_public_fn_name(c, n) == Or(Renamed(c, "func", n), camel_to_kebab(Stripped(n, c.strip["func"])))
field_name_kebab(n) == camel_to_kebab(n)
\* A field whose kebab-case name an earlier one has keeps its own.
field_name_3b(r, i) ==
  IF \E j \in 1 .. i - 1 : field_name_kebab(r.fields[j].name) = field_name_kebab(r.fields[i].name)
  THEN r.fields[i].name ELSE field_name_kebab(r.fields[i].name)

(***************************************************************************)
(* Types.                                                                  *)
(***************************************************************************)
is_force_opaque(c, n) == n \in Range(c.opaque)
lookup_pin_type(c, n) == \E i \in DOMAIN c.pin : c.pin[i].c = n
IsMapped(c, n) == \E i \in DOMAIN c.type_map : c.type_map[i].c = n
lookup_type_map(c, n) == c.type_map[FirstOf(c.type_map, LAMBDA e : e.c = n)].b3
builtin_table ==
  [n \in {"void", "int", "float", "double", "unsigned char", "short", "_Bool", "size_t"} |->
    CASE n = "int" -> "i32" [] n = "float" -> "f32" [] n = "double" -> "f64" [] n = "unsigned char" -> "u8"
      [] n = "short" -> "i16" [] n = "_Bool" -> "bool" [] n = "size_t" -> "u64" [] OTHER -> n]
IsBuiltin(n) == n[3] = "c" /\ n[2] \in DOMAIN builtin_table
builtin_c_type_to_3b(n) == Prim(builtin_table[n[2]])
Of(s, n) == s[FirstOf(s, LAMBDA e : e.name = n)]
is_opaque_handle_named(u, n) == Holds(u.typedefs, n) /\ Of(u.typedefs, n).opaque
is_fn_pointer_type(u, t) ==
  t.k = "FunctionPointer" \/ (t.k = "Named" /\ Holds(u.typedefs, t.name) /\ Of(u.typedefs, t.name).type.k = "FunctionPointer")
ctype_collapses_to_any(c, u, t) ==
  t.k = "Void" \/ (t.k = "Named" /\ (is_force_opaque(c, t.name) \/ is_opaque_handle_named(u, t.name)))
RECURSIVE type_to_3b(_, _, _)
type_to_3b(c, u, t) ==
  CASE t.k = "Void"  -> T3(Prim("void"))
    [] t.k = "Array" -> [T3(NoName) EXCEPT !.k = "Array", !.of = << type_to_3b(c, u, t.of[1]) >>, !.count = t.count]
    [] t.k = "Pointer" -> IF ctype_collapses_to_any(c, u, t.of[1]) THEN AnyType ELSE PointerTo3(type_to_3b(c, u, t.of[1]))
    [] t.k = "FunctionPointer" ->
         [T3(NoName) EXCEPT !.k = "fn", !.of = [i \in DOMAIN t.of |-> IF i = 1 /\ is_fn_pointer_type(u, t.of[1]) THEN AnyType ELSE type_to_3b(c, u, t.of[i])]]
    [] is_force_opaque(c, t.name) -> AnyType
    [] lookup_pin_type(c, t.name) -> T3(compute_type_name(c, t.name))
    [] IsMapped(c, t.name)        -> T3(lookup_type_map(c, t.name))
    [] IsBuiltin(t.name)          -> T3(builtin_c_type_to_3b(t.name))
    [] OTHER                      -> T3(compute_type_name(c, t.name))
is_resolvable_named(u, c, n) ==
  \/ is_force_opaque(c, n) \/ lookup_pin_type(c, n) \/ IsMapped(c, n) \/ IsBuiltin(n)
  \/ Holds(u.records, n) \/ Holds(u.typedefs, n) \/ Holds(u.enums, n)
RECURSIVE type_references_unresolvable(_, _, _), type_references_struct_or_enum(_, _)
type_references_unresolvable(u, c, t) ==
  CASE t.k = "Named" -> ~is_resolvable_named(u, c, t.name)
    [] t.k = "Void"  -> FALSE
    [] OTHER         -> t.variadic \/ \E i \in DOMAIN t.of : type_references_unresolvable(u, c, t.of[i])
type_references_struct_or_enum(u, t) ==
  IF t.k = "Named" THEN Holds(u.records, t.name) \/ Holds(u.enums, t.name)
  ELSE \E i \in DOMAIN t.of : type_references_struct_or_enum(u, t.of[i])

(***************************************************************************)
(* The layout the emitted record will have, against the one C gave it.     *)
(***************************************************************************)
Unknown == [size |-> 0, align |-> 1, known |-> FALSE, ats |-> << >>]
Known(size, align) == [size |-> size, align |-> align, known |-> TRUE, ats |-> << >>]
MIRROR_MAX_DEPTH == 32
PrimitiveLayout(p) == IF p = "any" THEN D!BasicLayout["Pointer"] ELSE D!BasicLayout[p]
mirror_layout_of_3b_primitive(n) ==
  IF n = Prim("void") \/ ~is_primitive_type_name(n) THEN Unknown
  ELSE Known(PrimitiveLayout(n[2]).size, PrimitiveLayout(n[2]).align)
RECURSIVE mirror_layout_of_ctype(_, _, _, _)
MirrorPlaced(r, fls) ==
  FoldLeft(LAMBDA acc, fl :
      LET align == IF r.packed THEN 1 ELSE fl.align
          at    == IF r.union THEN 0 ELSE Up(acc.running, align)
      IN  [running |-> Larger(IF r.union THEN acc.running ELSE 0, at + fl.size), align |-> Larger(acc.align, align), ats |-> Append(acc.ats, at)],
    [running |-> 0, align |-> 1, ats |-> << >>], fls)
MirrorSum(r, p, fls) ==
  IF \E i \in DOMAIN fls : ~fls[i].known THEN Unknown
  ELSE LET align == Larger(IF r.packed THEN 1 ELSE p.align, r.align) IN [Known(Up(p.running, align), align) EXCEPT !.ats = p.ats]
mirror_layout_of_record(c, u, r, depth) ==
  LET fls == [i \in DOMAIN r.fields |-> mirror_layout_of_ctype(c, u, r.fields[i].type, depth + 1)]
  IN  IF depth > MIRROR_MAX_DEPTH \/ ~r.complete THEN Unknown ELSE MirrorSum(r, MirrorPlaced(r, fls), fls)
MirrorArray(e, n) == IF e.known THEN Known(Up(e.size, e.align) * n, e.align) ELSE Unknown
mirror_layout_of_ctype(c, u, t, depth) ==
  CASE depth > MIRROR_MAX_DEPTH \/ t.k = "Void" -> Unknown
    [] t.k \in {"Pointer", "FunctionPointer"} -> mirror_layout_of_3b_primitive(Prim("any"))
    [] t.k = "Array"                -> MirrorArray(mirror_layout_of_ctype(c, u, t.of[1], depth + 1), t.count)
    [] is_force_opaque(c, t.name)   -> mirror_layout_of_3b_primitive(Prim("any"))
    [] IsMapped(c, t.name)          -> mirror_layout_of_3b_primitive(lookup_type_map(c, t.name))
    [] IsBuiltin(t.name)            -> mirror_layout_of_3b_primitive(builtin_c_type_to_3b(t.name))
    [] Holds(u.records, t.name)     -> mirror_layout_of_record(c, u, Of(u.records, t.name), depth + 1)
    [] Holds(u.enums, t.name)       -> mirror_layout_of_3b_primitive(Prim("i32"))
    [] Holds(u.typedefs, t.name)    -> IF Of(u.typedefs, t.name).opaque THEN mirror_layout_of_3b_primitive(Prim("any"))
                                       ELSE mirror_layout_of_ctype(c, u, Of(u.typedefs, t.name).type, depth + 1)
    [] OTHER                        -> Unknown
Compared(c, r, m) ==
  r.complete /\ ~is_force_opaque(c, r.name) /\ (r.fields # << >> \/ r.anons > 0) /\ m.known
\* Mutant: the sizes are compared, the offsets are not.
MirrorSizes(r, m) == m.size = r.size /\ m.align = r.c_align
MirrorMatches(r, m) ==
  m.size = r.size /\ m.align = r.c_align /\ \A i \in DOMAIN r.fields : ~r.fields[i].bitfield /\ m.ats[i] = r.fields[i].at
check_record_mirror(c, u, r) ==
  LET m == mirror_layout_of_record(c, u, r, 0) IN [compared |-> Compared(c, r, m), matches |-> Compared(c, r, m) /\ MirrorMatches(r, m)]
verify_record_layouts(c, u) ==
  \A i \in DOMAIN u.records : LET k == check_record_mirror(c, u, u.records[i]) IN k.compared => k.matches
\* A type's C name is the package's and its own: it must not be one the headers have.
Mangled(c, n) == << IF n[1] = "" THEN c.package ELSE c.package \o "_" \o n[1], n[2], n[3] >>
c_type_name_exists(u, n) == Holds(u.records, n) \/ Holds(u.enums, n) \/ Holds(u.typedefs, n)
check_one_type_name(c, u, n) == ~c_type_name_exists(u, Mangled(c, compute_type_name(c, n)))
verify_type_names(c, u) ==
  /\ \A i \in DOMAIN u.records : u.records[i].complete \/ is_force_opaque(c, u.records[i].name) => check_one_type_name(c, u, u.records[i].name)
  /\ \A i \in DOMAIN u.enums : check_one_type_name(c, u, u.enums[i].name)
  /\ \A i \in DOMAIN u.typedefs : IsMapped(c, u.typedefs[i].name) \/ check_one_type_name(c, u, u.typedefs[i].name)

(***************************************************************************)
(* Writing the package.  A declaration has the 3b name it declares, the C  *)
(* name it stands for, and what its kind needs of fields (parameters of a  *)
(* function), values (variants), a type and a body.                        *)
(***************************************************************************)
NoBody == [push |-> AnyType, local |-> NoName, status |-> FALSE, fn |-> NoName, args |-> << >>, result |-> << >>]
Emitted(d, name, c) ==
  [d |-> d, name |-> name, c |-> c, fields |-> << >>, values |-> << >>, type |-> AnyType, union |-> FALSE, packed |-> FALSE,
   body |-> NoBody, rule |-> "plain"]
EmitState == [out |-> << >>, shims |-> << >>, used |-> << >>, collision_count |-> 0, warned |-> FALSE]
IsFree(es, n) == ~is_reserved_name(n) /\ n \notin Range(es.used)
try_register_name(es, n) ==
  IF IsFree(es, n) THEN [es EXCEPT !.used = Append(@, n)] ELSE [es EXCEPT !.collision_count = @ + 1]
Put(es, d) == [es EXCEPT !.out = Append(@, d)]
Declare(es, d) == IF IsFree(es, d.name) THEN Put(try_register_name(es, d.name), d) ELSE try_register_name(es, d.name)
DeclareAny(c, es, n) == Declare(es, Emitted("alias", compute_type_name(c, n), n))

(***************************************************************************)
(* Constants: the ones of a group become its variants, the others values   *)
(* of the type that holds them.                                            *)
(***************************************************************************)
Hit(g, n) == IF g.pattern # NoPattern THEN rename_regex_matches(g.pattern, n) ELSE n \in Range(g.members)
GroupsOf(c, k) == { i \in DOMAIN c.groups : Hit(c.groups[i], Stripped(k.name, c.strip["const"])) }
IsExcluded(c, kind, n) == n \in Range(c.excluded[kind])
Ambiguous(c, k) == ~IsExcluded(c, "const", k.name) /\ Cardinality(GroupsOf(c, k)) > 1
group_member_value(k) == ~k.float /\ -(2 ^ (LongBits - 1)) <= k.digits /\ k.digits < 2 ^ (LongBits - 1)
InGroup(c, k, i) == ~IsExcluded(c, "const", k.name) /\ GroupsOf(c, k) = {i} /\ group_member_value(k)
IsPlain(c, k) == ~IsExcluded(c, "const", k.name) /\ ~Ambiguous(c, k) /\ ~\E i \in DOMAIN c.groups : InGroup(c, k, i)
plain_val_type(k) ==
  CASE k.float -> "f64"
    [] ~k.float /\ k.digits < 0 ->
         IF k.digits < -(2 ^ (LongBits - 1)) THEN "none" ELSE IF k.digits < -(2 ^ (IntBits - 1)) THEN "i64" ELSE "i32"
    [] ~k.float /\ k.digits >= 2 ^ LongBits -> "none"
    [] k.hex /\ 0 <= k.digits /\ k.digits < 2 ^ LongBits -> IF k.digits >= 2 ^ IntBits THEN "u64" ELSE "u32"
    [] OTHER -> IF k.digits >= 2 ^ (LongBits - 1) THEN "u64" ELSE IF k.digits >= 2 ^ (IntBits - 1) THEN "i64" ELSE "i32"
Variants(c, ks) == [i \in DOMAIN ks |-> [name |-> lookup_const_rename(c, ks[i].name), c |-> ks[i].name, value |-> ks[i].digits]]
EmitGroup(c, es, g, ms) == IF ms = << >> THEN es ELSE Declare(es, [Emitted(g.kind, g.name, NoName) EXCEPT !.values = Variants(c, ms)])
EmitVal(c, es, k) ==
  LET d == [Emitted("val", lookup_const_rename(c, k.name), k.name) EXCEPT !.values = Variants(c, << k >>), !.type = T3(Prim(plain_val_type(k)))]
  IN  IF IsFree(es, d.name) /\ plain_val_type(k) = "none" THEN try_register_name(es, d.name) ELSE Declare(es, d)
emit_constants(c, u, es) ==
  LET lost    == Len(SelectSeq(u.constants, LAMBDA k : Ambiguous(c, k)))
      grouped == FoldLeftDomain(LAMBDA acc, i : EmitGroup(c, acc, c.groups[i], SelectSeq(u.constants, LAMBDA k : InGroup(c, k, i))),
                                [es EXCEPT !.collision_count = @ + lost], c.groups)
  IN  FoldLeft(LAMBDA acc, k : EmitVal(c, acc, k), grouped, SelectSeq(u.constants, LAMBDA k : IsPlain(c, k)))

(***************************************************************************)
(* Types.                                                                  *)
(***************************************************************************)
emit_pinned_type_aliases(c, es) ==
  FoldLeft(LAMBDA acc, e : Declare(acc, [Emitted("pinned", compute_type_name(c, e.c), e.c) EXCEPT !.type = T3(e.b3)]), es, c.pin)
emit_enum(c, es, e) ==
  IF is_force_opaque(c, e.name) THEN DeclareAny(c, es, e.name)
  ELSE Declare(es, [Emitted("enum", compute_type_name(c, e.name), e.name) EXCEPT !.values = Variants(c, e.enumerators)])
StructOf(c, u, r) ==
  [Emitted("struct", compute_type_name(c, r.name), r.name) EXCEPT
     !.fields = [i \in DOMAIN r.fields |-> [name |-> field_name_3b(r, i), type |-> type_to_3b(c, u, r.fields[i].type)]],
     !.union = r.union, !.packed = r.packed]
Warned(es, b) == [es EXCEPT !.warned = @ \/ b]
emit_record(c, u, es, r) ==
  CASE is_force_opaque(c, r.name) -> DeclareAny(c, es, r.name)
    [] ~is_force_opaque(c, r.name) /\ ~r.complete -> es
    [] OTHER -> Warned(Declare(es, StructOf(c, u, r)), \E f \in Range(r.fields) : type_references_unresolvable(u, c, f.type))
UnsupportedFnPointer(c, u, t) ==
  t.k = "FunctionPointer" /\ (type_references_unresolvable(u, c, t) \/ type_references_struct_or_enum(u, t))
emit_typedef(c, u, es, td) ==
  IF is_force_opaque(c, td.name) \/ td.opaque THEN DeclareAny(c, es, td.name)
  ELSE IF IsMapped(c, td.name) \/ lookup_pin_type(c, td.name) THEN es
  ELSE IF UnsupportedFnPointer(c, u, td.type) THEN DeclareAny(c, es, td.name)
  ELSE Declare(es, [Emitted("alias", compute_type_name(c, td.name), td.name) EXCEPT !.type = type_to_3b(c, u, td.type)])
emit_unreached_opaques(c, es) ==
  FoldLeft(LAMBDA acc, n : IF compute_type_name(c, n) \in Range(acc.used) THEN acc ELSE DeclareAny(c, acc, n), es, c.opaque)

(***************************************************************************)
(* Functions.  A wrapper binds a local, calls with variables and addresses *)
(* of variables, and results in the call's value or in those of variables. *)
(***************************************************************************)
find_outparam_rule(c, n) == { i \in DOMAIN c.outparams : c.outparams[i].func = n }
RuleOf(c, n) == c.outparams[FirstOf(c.outparams, LAMBDA r : r.func = n)]
Local(n) == << "", n, "c" >>
Synth == << "arg0", "arg1", "arg2" >>
param_name_or_synth(fn, i) == IF fn.params[i].name # NoName THEN fn.params[i].name ELSE Local(Synth[i])
Var(n)  == [addr |-> FALSE, name |-> n]
Addr(n) == [addr |-> TRUE, name |-> n]
build_call_expr(fn, at, arg) ==
  [i \in DOMAIN fn.params |-> IF i = at THEN arg ELSE Var(param_name_or_synth(fn, i))]
Parameters(c, u, fn) ==
  [i \in DOMAIN fn.params |-> [name |-> param_name_or_synth(fn, i), type |-> type_to_3b(c, u, fn.params[i].type)]]
Without(s, at) == IF at \in DOMAIN s THEN RemoveAt(s, at) ELSE s
emit_fn_header(d, c, u, fn, skip) == [d EXCEPT !.fields = @ \o Without(Parameters(c, u, fn), skip)]
Public(name, fn, rule, ret) == [Emitted("fn", name, fn.name) EXCEPT !.rule = rule, !.type = ret]
Calling(fn, at, arg) == [NoBody EXCEPT !.fn = fn.name, !.args = build_call_expr(fn, at, arg)]
emit_plain_wrapper(c, u, es, fn, name, ret) ==
  Put(es, emit_fn_header([Public(name, fn, "plain", ret) EXCEPT !.body = Calling(fn, 0, Var(NoName))], c, u, fn, 0))
IsPointerParam(fn, at) == at \in DOMAIN fn.params /\ fn.params[at].type.k = "Pointer"
ResultName(name) == << name[1], name[2], name[3] \o "Result" >>
ResultStruct(name, ret, value) ==
  [Emitted("struct", ResultName(name), NoName) EXCEPT !.fields = << [name |-> Local("status"), type |-> ret], [name |-> Local("value"), type |-> value] >>]
ConstructBody(fn, at, status) ==
  [Calling(fn, at, Addr(Local("out"))) EXCEPT !.local = Local("out"), !.status = status,
     !.result = IF status THEN << Local("status"), Local("out") >> ELSE << Local("out") >>]
\* When the name of the result's struct is taken, the status is dropped.
EmitConstruct(c, u, es, fn, name, ret, at, value, status) ==
  Put(IF fn.ret.k = "Void" THEN es ELSE Declare(es, ResultStruct(name, ret, value)),
      emit_fn_header([Public(name, fn, "construct", IF status THEN T3(ResultName(name)) ELSE value) EXCEPT !.body = ConstructBody(fn, at, status)],
                     c, u, fn, at))
emit_construct_wrapper(c, u, es, fn, name, ret, at) ==
  IF ~IsPointerParam(fn, at) THEN es
  ELSE EmitConstruct(c, u, es, fn, name, ret, at, type_to_3b(c, u, fn.params[at].type.of[1]),
                     fn.ret.k # "Void" /\ IsFree(es, ResultName(name)))
emit_mutate_wrapper(c, u, es, fn, name, at) ==
  IF at \notin DOMAIN fn.params THEN es
  ELSE Put(es, emit_fn_header([Public(name, fn, "mutate", type_to_3b(c, u, fn.params[at].type)) EXCEPT
                                 !.body = [Calling(fn, 0, Var(NoName)) EXCEPT !.result = << param_name_or_synth(fn, at) >>]],
                              c, u, fn, 0))
RECURSIVE resolve_push_elem_type_text(_, _, _)
\* The type an arena is asked for: what an alias stands for, as far as aliases lead.
resolve_push_elem_type_text(c, u, t) ==
  CASE t.k # "Named"         -> type_to_3b(c, u, t)
    [] IsMapped(c, t.name)   -> T3(lookup_type_map(c, t.name))
    [] IsBuiltin(t.name)     -> T3(builtin_c_type_to_3b(t.name))
    [] Holds(u.typedefs, t.name) /\ ~Of(u.typedefs, t.name).opaque -> resolve_push_elem_type_text(c, u, Of(u.typedefs, t.name).type)
    [] OTHER                 -> T3(compute_type_name(c, t.name))
ArenaParam == << [name |-> Local("arena"), type |-> T3(Prim("arena"))] >>
emit_arena_wrapper(c, u, es, fn, name, count, at) ==
  IF count \notin DOMAIN fn.params \/ ~IsPointerParam(fn, at) THEN es
  ELSE Put(es, emit_fn_header([Public(name, fn, "arena", PointerTo3(type_to_3b(c, u, fn.params[at].type.of[1]))) EXCEPT !.fields = ArenaParam,
                                 !.body = [Calling(fn, at, Var(Local("buf"))) EXCEPT !.local = Local("buf"), !.push = resolve_push_elem_type_text(c, u, fn.params[at].type.of[1]), !.result = << Local("buf") >>]],
                              c, u, fn, at))

(***************************************************************************)
(* Structs by value go through a C function the bridge header defines,     *)
(* which takes pointers and copies.                                        *)
(***************************************************************************)
NoRecord == [found |-> FALSE, at |-> 0]
RECURSIVE type_is_struct_by_value(_, _, _, _)
type_is_struct_by_value(u, c, t, depth) ==
  IF t.k # "Named" \/ depth > MIRROR_MAX_DEPTH THEN NoRecord
  ELSE IF is_force_opaque(c, t.name) \/ lookup_pin_type(c, t.name) \/ IsMapped(c, t.name) \/ IsBuiltin(t.name) THEN NoRecord
  ELSE IF Holds(u.records, t.name) THEN [found |-> TRUE, at |-> FirstOf(u.records, LAMBDA r : r.name = t.name)]
  ELSE IF Holds(u.typedefs, t.name) /\ ~Of(u.typedefs, t.name).opaque
       THEN type_is_struct_by_value(u, c, Of(u.typedefs, t.name).type, depth + 1)
  ELSE NoRecord
ByValue(u, c, t) == type_is_struct_by_value(u, c, t, 0)
\* Whether C can be written for the type, and a value of it in 3b.
RECURSIVE c_type_text(_, _), zero_value_3b(_, _, _, _)
c_type_text(u, t) ==
  CASE t.k = "Void"    -> TRUE
    [] t.k = "Pointer" -> c_type_text(u, t.of[1])
    [] t.k = "Named"   -> Holds(u.typedefs, t.name) \/ ~\E r \in Range(u.records) : r.name = t.name /\ r.anonymous
    [] OTHER           -> FALSE
zero_value_3b_primitive(n) == n \notin { Prim("void"), Prim("arena"), Prim("char") }
zero_value_record(c, u, r, depth) ==
  r.complete /\ r.fields # << >> /\ ~r.union /\ \A f \in Range(r.fields) : zero_value_3b(c, u, f.type, depth + 1)
zero_value_3b(c, u, t, depth) ==
  CASE depth > MIRROR_MAX_DEPTH \/ t.k \in {"Array", "Void"} -> FALSE
    [] t.k \in {"Pointer", "FunctionPointer"} -> TRUE
    [] is_force_opaque(c, t.name) -> TRUE
    [] IsMapped(c, t.name)        -> zero_value_3b_primitive(lookup_type_map(c, t.name))
    [] IsBuiltin(t.name)          -> zero_value_3b_primitive(builtin_c_type_to_3b(t.name))
    [] Holds(u.records, t.name)   -> zero_value_record(c, u, Of(u.records, t.name), depth)
    [] Holds(u.typedefs, t.name)  -> Of(u.typedefs, t.name).opaque \/ zero_value_3b(c, u, Of(u.typedefs, t.name).type, depth + 1)
    [] OTHER                      -> FALSE
byval_record_is_safe(c, u, r) == check_record_mirror(c, u, r).matches
CanBridge(c, u, t, is_ret) ==
  /\ ByValue(u, c, t).found => /\ byval_record_is_safe(c, u, u.records[ByValue(u, c, t).at])
                               /\ is_ret => zero_value_3b(c, u, t, 0)
  /\ c_type_text(u, t)
ParamNames(fn) == { param_name_or_synth(fn, i) : i \in DOMAIN fn.params }
\* Mutant: the wrapper's local is named without a look at the parameters.
RetLocalOut(fn) == Local("out")
RetLocals == << "out", "out2", "out3", "out4" >>
ret_local(fn) == Local(RetLocals[FirstOf(RetLocals, LAMBDA n : Local(n) \notin ParamNames(fn))])
plan_by_value_bridge(c, u, fn) ==
  [ok |-> CanBridge(c, u, fn.ret, TRUE) /\ \A i \in DOMAIN fn.params : CanBridge(c, u, fn.params[i].type, FALSE),
   shim_name |-> << c.package \o "_byval_" \o fn.name[1], fn.name[2], fn.name[3] >>,
   ret_by_value |-> ByValue(u, c, fn.ret).found,
   param_by_value |-> [i \in DOMAIN fn.params |-> ByValue(u, c, fn.params[i].type).found]]
emit_byval_shim(es, fn, plan) ==
  [es EXCEPT !.shims = Append(@, [name |-> plan.shim_name, fn |-> fn.name, ret |-> plan.ret_by_value, by_value |-> plan.param_by_value])]
ShimExtern(c, u, fn, plan, ret) ==
  LET ps == Parameters(c, u, fn)
      own == IF plan.ret_by_value THEN << [name |-> ret_local(fn), type |-> PointerTo3(ret)] >> ELSE << >>
  IN  [Emitted("extern", plan.shim_name, plan.shim_name) EXCEPT
         !.fields = own \o [i \in DOMAIN ps |-> IF plan.param_by_value[i] THEN [ps[i] EXCEPT !.type = PointerTo3(@)] ELSE ps[i]],
         !.type = IF plan.ret_by_value THEN T3(Prim("void")) ELSE ret]
ByvalBody(fn, plan) ==
  LET out == IF plan.ret_by_value THEN << ret_local(fn) >> ELSE << >>
  IN  [NoBody EXCEPT !.local = IF plan.ret_by_value THEN ret_local(fn) ELSE NoName, !.fn = plan.shim_name,
         !.args = [i \in DOMAIN out |-> Addr(out[i])]
                  \o [i \in DOMAIN fn.params |-> [addr |-> plan.param_by_value[i], name |-> param_name_or_synth(fn, i)]],
         !.result = out]
emit_byval_wrapper(c, u, es, fn, name, plan, ret) ==
  Put(Put(es, ShimExtern(c, u, fn, plan, ret)),
      emit_fn_header([Public(name, fn, "byval", ret) EXCEPT !.body = ByvalBody(fn, plan)], c, u, fn, 0))

IsByValue(c, u, fn) == ByValue(u, c, fn.ret).found \/ \E i \in DOMAIN fn.params : ByValue(u, c, fn.params[i].type).found
IsUnresolvable(c, u, fn) ==
  type_references_unresolvable(u, c, fn.ret) \/ \E p \in Range(fn.params) : type_references_unresolvable(u, c, p.type)
Skipped(c, u, fn) ==
  IsExcluded(c, "func", fn.name) \/ (c.skip_deprecated /\ fn.deprecated) \/ fn.variadic \/ IsUnresolvable(c, u, fn)
\* Both names are registered, the second only if the first was free.
Registered(es, a, b) == IF IsFree(es, a) THEN try_register_name(try_register_name(es, a), b) ELSE try_register_name(es, a)
BothFree(es, a, b) == IsFree(es, a) /\ IsFree(try_register_name(es, a), b)
EmitBridged(c, u, es, fn, name, plan) ==
  CASE find_outparam_rule(c, name) # {} \/ ~plan.ok -> es
    [] plan.ok /\ ~BothFree(es, plan.shim_name, name) -> Registered(es, plan.shim_name, name)
    [] OTHER -> emit_byval_wrapper(c, u, emit_byval_shim(Registered(es, plan.shim_name, name), fn, plan), fn, name, plan, type_to_3b(c, u, fn.ret))
ExternOf(c, u, fn, ret) == emit_fn_header([Emitted("extern", fn.name, fn.name) EXCEPT !.type = ret], c, u, fn, 0)
EmitWrapper(c, u, es, fn, name, ret) ==
  IF find_outparam_rule(c, name) = {} THEN emit_plain_wrapper(c, u, es, fn, name, ret)
  ELSE LET rule == RuleOf(c, name)
       IN  CASE rule.kind = "construct" -> emit_construct_wrapper(c, u, es, fn, name, ret, rule.at[1])
             [] rule.kind = "mutate"    -> emit_mutate_wrapper(c, u, es, fn, name, rule.at[1])
             [] rule.kind = "arena"     -> emit_arena_wrapper(c, u, es, fn, name, rule.at[1], rule.at[2])
EmitDirect(c, u, es, fn, name, ret) ==
  IF ~BothFree(es, fn.name, name) THEN Registered(es, fn.name, name)
  ELSE EmitWrapper(c, u, Put(Registered(es, fn.name, name), ExternOf(c, u, fn, ret)), fn, name, ret)
emit_function(c, u, es, fn) ==
  CASE Skipped(c, u, fn) -> es
    [] ~Skipped(c, u, fn) /\ IsByValue(c, u, fn) ->
         EmitBridged(c, u, es, fn, compute_public_fn_name(c, fn.name), plan_by_value_bridge(c, u, fn))
    [] OTHER -> EmitDirect(c, u, es, fn, compute_public_fn_name(c, fn.name), type_to_3b(c, u, fn.ret))

EmitTypes(c, u, es) ==
  LET enums    == FoldLeft(LAMBDA acc, e : emit_enum(c, acc, e), es, u.enums)
      records  == FoldLeft(LAMBDA acc, r : emit_record(c, u, acc, r), enums, u.records)
      typedefs == FoldLeft(LAMBDA acc, t : emit_typedef(c, u, acc, t), records, u.typedefs)
  IN  emit_unreached_opaques(c, typedefs)
emit_package(c, u) ==
  FoldLeft(LAMBDA acc, fn : emit_function(c, u, acc, fn),
           EmitTypes(c, u, emit_pinned_type_aliases(c, emit_constants(c, u, EmitState))), u.functions)

\* The command: its exit status, and what it wrote.
NotWritten == [exit |-> 1, out |-> << >>, shims |-> << >>, bridge |-> FALSE, warned |-> FALSE]
Written(es) ==
  [exit |-> IF es.collision_count = 0 THEN 0 ELSE 1, out |-> es.out, shims |-> es.shims, bridge |-> es.shims # << >>, warned |-> es.warned]
TranslateUnit(c, u) == IF ~verify_record_layouts(c, u) \/ ~verify_type_names(c, u) THEN NotWritten ELSE Written(emit_package(c, u))
cmd_translate(c, h) == IF ~c.ok THEN NotWritten ELSE TranslateUnit(c, cwalk_extract(h))

(***************************************************************************)
(* What is promised of the package.                                        *)
(***************************************************************************)
TypeDecls == {"alias", "pinned", "enum", "flags", "struct"}
OfKind(out, kinds) == SelectSeq(out, LAMBDA d : d.d \in kinds)
Declared(out) == { d.name : d \in Range(OfKind(out, TypeDecls)) }
RECURSIVE NamesIn(_)
NamesIn(t) == IF t.k = "Named" THEN {t.name} ELSE UNION { NamesIn(t.of[i]) : i \in DOMAIN t.of }
Mentioned(d) == NamesIn(d.type) \cup NamesIn(d.body.push) \cup UNION { NamesIn(f.type) : f \in Range(d.fields) }
\* Every type a declaration mentions is declared, and nothing is declared twice.
IsClosed(out) ==
  /\ \A d \in Range(out) : \A n \in Mentioned(d) : is_primitive_type_name(n) \/ n \in Declared(out)
  /\ \A i, j \in DOMAIN out : out[i].name = out[j].name => i = j

\* The package's structs as the compiler lays them out, its aliases resolved.
RECURSIVE Resolved(_, _)
Resolved(out, t) ==
  CASE t.k = "Array" -> D!ArrayOf(Resolved(out, t.of[1]), t.count)
    [] t.k # "Named" -> D!Scalar("Pointer")
    [] is_primitive_type_name(t.name) -> D!Scalar(IF t.name[2] = "any" THEN "Pointer" ELSE t.name[2])
    [] OTHER -> LET d == Of(out, t.name) IN IF d.d \in {"alias", "pinned"} THEN Resolved(out, d.type) ELSE D!Named(t.name)
Structs(out) ==
  LET ds == OfKind(out, {"struct"})
  IN  [i \in DOMAIN ds |-> [D!Decl("struct", ds[i].name) EXCEPT !.union = ds[i].union, !.packed = ds[i].packed,
         !.fields = [j \in DOMAIN ds[i].fields |-> D!Field(ds[i].fields[j].name, Resolved(out, ds[i].fields[j].type))]]]
NamedAt(fs) == SelectSeq([i \in DOMAIN fs |-> i], LAMBDA i : fs[i].name # NoName)
SameLayout(h, id, prog, s) ==
  /\ D!layout_of_struct_body(prog, s) = CxLayout(h, CxDecl("record", id))
  /\ LET named == NamedAt(h.decl[id].fields) IN D!Offsets(prog, s).ats = [i \in DOMAIN named |-> Placed(h, h.decl[id]).ats[named[i]]]
Mirrors(h, out) ==
  \A id \in DOMAIN h.decl, d \in Range(OfKind(out, {"struct"})) :
    h.decl[id].c = "record" /\ h.decl[id].name = d.c /\ d.c # NoName =>
      SameLayout(h, id, Structs(out), D!struct_table_lookup(Structs(out), d.name))

\* What happens when a wrapper is called: its parameters, the variables of its body, what C receives and what comes back.
Value(k, at) == [k |-> k, at |-> at, addr |-> FALSE]
Bound(d, n) ==
  IF n = d.body.local THEN Value("local", 0)
  ELSE LET i == CHOOSE i \in DOMAIN d.fields : d.fields[i].name = n IN Value("param", i)
Passed(d, arg) == [Bound(d, arg.name) EXCEPT !.addr = arg.addr]
\* The bridge puts the result where its first argument points, and passes on what the by-value ones point to.
Received(out, shims, d) ==
  LET args == [i \in DOMAIN d.body.args |-> Passed(d, d.body.args[i])]
  IN  IF ~\E s \in Range(shims) : s.name = d.body.fn THEN args
      ELSE LET s    == Of(shims, d.body.fn)
               rest == IF s.ret THEN Tail(args) ELSE args
           IN  [i \in DOMAIN rest |-> IF s.by_value[i] THEN [rest[i] EXCEPT !.addr = ~@] ELSE rest[i]]
Returned(d, n) == IF d.body.status /\ n = Local("status") THEN Value("call", 0) ELSE Bound(d, n)
ResultOf(d) == IF d.body.result = << >> THEN << Value("call", 0) >> ELSE [i \in DOMAIN d.body.result |-> Returned(d, d.body.result[i])]
\* What the wrapper of a function is for: parameter i of C's is its own, counted without the one the wrapper supplies.
Supplied(c, d) == IF d.rule = "construct" THEN RuleOf(c, d.name).at[1] ELSE IF d.rule = "arena" THEN RuleOf(c, d.name).at[2] ELSE 0
Own(c, d, i) == Value("param", (IF Supplied(c, d) # 0 /\ i > Supplied(c, d) THEN i - 1 ELSE i) + (IF d.rule = "arena" THEN 1 ELSE 0))
Intended(c, d, n) ==
  [i \in 1 .. n |-> IF i = Supplied(c, d) THEN [Value("local", 0) EXCEPT !.addr = d.rule = "construct"] ELSE Own(c, d, i)]
IntendedResult(c, h, d, id) ==
  CASE d.rule = "plain"     -> << Value("call", 0) >>
    [] d.rule = "mutate"    -> << Own(c, d, RuleOf(c, d.name).at[1]) >>
    [] d.rule = "construct" -> IF h.decl[id].ret.k = "void" THEN << Value("local", 0) >> ELSE << Value("call", 0), Value("local", 0) >>
    [] d.rule = "arena"     -> << Value("local", 0) >>
    [] d.rule = "byval"     -> << Value(IF Canonical(h, h.decl[id].ret).k = "record" THEN "local" ELSE "call", 0) >>
IsRecord(h, t) == Canonical(h, t).k = "record"
Reaches(c, h, res) ==
  \A d \in Range(OfKind(res.out, {"fn"})), id \in DOMAIN h.decl :
    h.decl[id].c = "function" /\ h.decl[id].name = d.c =>
      /\ Received(res.out, res.shims, d) = Intended(c, d, Len(h.decl[id].params))
      /\ ResultOf(d) = IntendedResult(c, h, d, id)
      /\ d.rule # "byval" => ~IsRecord(h, h.decl[id].ret) /\ ~\E p \in Range(h.decl[id].params) : IsRecord(h, p.type)

Holder(t, v) ==
  CASE t = "f64" -> TRUE
    [] t = "i32" -> -(2 ^ (IntBits - 1)) <= v /\ v < 2 ^ (IntBits - 1)
    [] t = "u32" -> 0 <= v /\ v < 2 ^ IntBits
    [] t = "i64" -> -(2 ^ (LongBits - 1)) <= v /\ v < 2 ^ (LongBits - 1)
    [] t = "u64" -> 0 <= v /\ v < 2 ^ LongBits
    [] OTHER     -> FALSE
ConstantsOf(h) ==
  { << h.decl[id].name, h.decl[id].value >> : id \in { i \in DOMAIN h.decl : h.decl[i].c = "macro" } }
  \cup UNION { { << m.name, m.value >> : m \in Range(h.decl[id].enumerators) } : id \in { i \in DOMAIN h.decl : h.decl[i].c = "enum" } }
Keeps(h, out) ==
  \A d \in Range(OfKind(out, {"val", "enum", "flags"})) : \A v \in Range(d.values) :
    << v.c, v.value >> \in ConstantsOf(h) /\ Holder(IF d.d = "val" THEN d.type.name[2] ELSE "i64", v.value)
=============================================================================
