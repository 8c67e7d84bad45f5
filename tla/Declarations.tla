---------------------------- MODULE Declarations ----------------------------
(***************************************************************************)
(* What a package declares, on the way to C and to bytecode: the memory    *)
(* layout the bytecode compiler computes (layout.c, bcmap.c), the order in *)
(* which codegen.c writes the declarations into a header and a source      *)
(* file, the values of enumerations and the C names of functions.          *)
(*                                                                         *)
(* A type is a kind, the name of a named type or of a handle's, the type   *)
(* an array, pointer, vector or map is of (a sequence of one) and an       *)
(* array's count.  prog is the sequence of top level declarations, the     *)
(* tables lowering made for Map and Set types in front of the declaration  *)
(* that uses them.                                                         *)
(***************************************************************************)
EXTENDS Integers, Sequences, FiniteSets, FiniteSetsExt, SequencesExt

Scalar(k)      == [k |-> k, name |-> "", of |-> << >>, count |-> 0]
Named(n)       == [Scalar("Named") EXCEPT !.name = n]
HandleTo(n)    == [Scalar("Handle") EXCEPT !.name = n]
PointerTo(t)   == [Scalar("Pointer") EXCEPT !.of = << t >>]
MapOf(t)       == [Scalar("Map") EXCEPT !.of = << t >>]
ArrayOf(t, n)  == [Scalar("Array") EXCEPT !.of = << t >>, !.count = n]

\* A declaration.  fields are a struct's, or the types a global, a function,
\* an alias or a table mentions; body is a function's, of which an extern has none.
Decl(kind, name) ==
  [kind |-> kind, name |-> name, private |-> FALSE, imported |-> FALSE, body |-> TRUE,
   union |-> FALSE, packed |-> FALSE, align |-> 0, fields |-> << >>]
Field(name, t) == [name |-> name, anon |-> FALSE, type |-> t]

StructsOf(prog) == { i \in DOMAIN prog : prog[i].kind = "struct" }
IsStruct(prog, name) == \E i \in StructsOf(prog) : prog[i].name = name
struct_table_lookup(prog, name) == prog[CHOOSE i \in StructsOf(prog) : prog[i].name = name]

(***************************************************************************)
(* Layout.  A layout is a size and an alignment.                           *)
(***************************************************************************)
L(s, a) == [size |-> s, align |-> a]
BasicLayout ==
  [k \in {"i8", "u8", "bool", "i16", "i32", "f32", "u64", "f64", "Pointer", "Vector", "Handle", "string", "arena", "Map", "Set"} |->
    CASE k \in {"i8", "u8", "bool"} -> L(1, 1) [] k = "i16" -> L(2, 2) [] k \in {"i32", "f32"} -> L(4, 4)
      [] k = "Handle" -> L(8, 4) [] k \in {"string", "arena"} -> L(16, 8) [] k \in {"Map", "Set"} -> L(32, 8)
      [] OTHER -> L(8, 8)]
round_up_to_multiple(v, m) == IF m <= 1 \/ v % m = 0 THEN v ELSE v + m - (v % m)

\* Mutant: a packed field is aligned all the same.
NextOffsetAligned(running, fl, decl) ==
  IF decl.union THEN [at |-> 0, running |-> running]
  ELSE LET at == round_up_to_multiple(running, fl.align) IN [at |-> at, running |-> at + fl.size]
layout_next_field_offset(running, fl, decl) ==
  IF decl.union THEN [at |-> 0, running |-> running]
  ELSE LET at == round_up_to_multiple(running, IF decl.packed THEN 1 ELSE fl.align)
       IN  [at |-> at, running |-> at + fl.size]

RECURSIVE layout_of(_, _)
FieldLayouts(prog, decl) == [i \in DOMAIN decl.fields |-> layout_of(prog, decl.fields[i].type)]
Offsets(prog, decl) ==
  FoldLeft(LAMBDA acc, fl : LET o == layout_next_field_offset(acc.running, fl, decl)
                            IN  [running |-> o.running, ats |-> Append(acc.ats, o.at)],
           [running |-> 0, ats |-> << >>], FieldLayouts(prog, decl))
BodyLayout(decl, fls, running) ==
  LET natural == Max({1} \cup { IF decl.packed THEN 1 ELSE fls[i].align : i \in DOMAIN fls })
      align   == IF decl.align > natural THEN decl.align ELSE natural
      raw     == IF decl.union THEN Max({0} \cup { fls[i].size : i \in DOMAIN fls }) ELSE running
  IN  L(round_up_to_multiple(raw, align), align)
layout_of_struct_body(prog, decl) == BodyLayout(decl, FieldLayouts(prog, decl), Offsets(prog, decl).running)
\* The layouts are cached; the cycles that would not end are refused before.
layout_of_named(prog, name) ==
  IF IsStruct(prog, name) THEN layout_of_struct_body(prog, struct_table_lookup(prog, name)) ELSE L(4, 4)
StrideOf(e) == round_up_to_multiple(e.size, e.align)
layout_of(prog, t) ==
  CASE t.k = "Array" -> LET e == layout_of(prog, t.of[1]) IN L(StrideOf(e) * t.count, e.align)
    [] t.k = "Named" -> layout_of_named(prog, t.name)
    [] OTHER         -> BasicLayout[t.k]

\* Where a field is: the declaration's own names first, then those of its anonymous members in turn.
NotFound == [found |-> FALSE, at |-> 0, type |-> Scalar("void")]
Own(decl, name)        == { i \in DOMAIN decl.fields : ~decl.fields[i].anon /\ decl.fields[i].name = name }
AnonStructs(prog, decl) ==
  SelectSeq([i \in DOMAIN decl.fields |-> i],
            LAMBDA i : decl.fields[i].anon /\ decl.fields[i].type.k = "Named" /\ IsStruct(prog, decl.fields[i].type.name))
RECURSIVE layout_find_field(_, _, _, _)
FindNested(prog, decl, name, base, ats) ==
  FoldLeft(LAMBDA acc, i : IF acc.found THEN acc
                           ELSE layout_find_field(prog, struct_table_lookup(prog, decl.fields[i].type.name), name, base + ats[i]),
           NotFound, AnonStructs(prog, decl))
FindIn(prog, decl, name, base, ats) ==
  IF Own(decl, name) # {} THEN LET i == Min(Own(decl, name)) IN [found |-> TRUE, at |-> base + ats[i], type |-> decl.fields[i].type]
  ELSE FindNested(prog, decl, name, base, ats)
layout_find_field(prog, decl, name, base) == FindIn(prog, decl, name, base, Offsets(prog, decl).ats)

\* The checker looks for the field's type on its own.
RECURSIVE find_field_recursive(_, _, _)
find_field_recursive(prog, decl, name) ==
  IF Own(decl, name) # {} THEN decl.fields[Min(Own(decl, name))].type
  ELSE FoldLeft(LAMBDA acc, i : IF acc # NotFound.type THEN acc
                                ELSE find_field_recursive(prog, struct_table_lookup(prog, decl.fields[i].type.name), name),
                NotFound.type, AnonStructs(prog, decl))

\* A slot of a hash table: key, value, state.
bc_hash_slot_layout(prog, key, value) ==
  LET k  == layout_of(prog, key)
      v  == layout_of(prog, value)
      at == round_up_to_multiple(k.size, v.align)
      st == round_up_to_multiple(at + v.size, 4)
      al == Max({k.align, v.align, 4})
  IN  [value |-> at, state |-> st, size |-> round_up_to_multiple(st + 4, al), align |-> al]

(***************************************************************************)
(* Structs that contain themselves are refused.                            *)
(***************************************************************************)
RECURSIVE struct_embeds_by_value(_, _, _, _)
struct_embeds_by_value(prog, target, t, depth) ==
  CASE t.k = "Array"                          -> struct_embeds_by_value(prog, target, t.of[1], depth)
    [] t.k # "Named"                          -> FALSE
    [] t.k = "Named" /\ t.name = target       -> TRUE
    [] depth > Cardinality(StructsOf(prog))   -> FALSE
    [] ~IsStruct(prog, t.name)                -> FALSE
    [] OTHER -> \E f \in Range(struct_table_lookup(prog, t.name).fields) : struct_embeds_by_value(prog, target, f.type, depth + 1)
check_struct_cycles(prog) ==
  \E i \in StructsOf(prog) : \E f \in Range(prog[i].fields) : struct_embeds_by_value(prog, prog[i].name, f.type, 0)
check_struct_decl(prog) ==
  \E i \in StructsOf(prog) : \E f \in Range(prog[i].fields) : f.anon /\ (f.type.k # "Named" \/ ~IsStruct(prog, f.type.name))

\* The types == and < can be written out for.
RECURSIVE deep_comparable(_, _, _)
type_ref_is_deep_comparable(prog, t) == deep_comparable(prog, t, 0)
deep_comparable(prog, t, depth) ==
  CASE t.k \in {"i8", "u8", "bool", "i16", "i32", "f32", "u64", "f64", "Pointer", "string"} -> TRUE
    [] t.k = "Array" -> deep_comparable(prog, t.of[1], depth)
    [] t.k # "Named" -> FALSE
    [] t.k = "Named" /\ ~IsStruct(prog, t.name) -> TRUE
    [] depth > Cardinality(StructsOf(prog))     -> FALSE
    [] OTHER -> LET decl == struct_table_lookup(prog, t.name)
                IN  ~decl.union /\ \A f \in Range(decl.fields) : ~f.anon /\ deep_comparable(prog, f.type, depth + 1)

(***************************************************************************)
(* The order of the declarations in C.                                     *)
(***************************************************************************)
\* What is declared is known by its type: a struct's, a table's or that of a handle.
RECURSIVE cg_field_requires_complete_type(_)
cg_field_requires_complete_type(t) ==
  CASE t.k \in {"Named", "Map", "Set"} -> {t}
    [] t.k = "Array" -> cg_field_requires_complete_type(t.of[1])
    [] OTHER -> {}
Identity(d) == IF d.kind = "table" THEN MapOf(d.fields[1].type) ELSE Named(d.name)
DependsOn(d) ==
  IF d.kind = "table" THEN [i \in DOMAIN d.fields |-> IF d.fields[i].type.k = "Named" THEN {d.fields[i].type} ELSE {}]
  ELSE [i \in DOMAIN d.fields |-> cg_field_requires_complete_type(d.fields[i].type)]

\* A depth-first visit; a declaration that is being visited is passed over.
RECURSIVE cg_topo_visit_struct(_, _, _)
VisitNamed(decls, acc, i, ids) ==
  LET ks == { k \in DOMAIN decls : k # i /\ Identity(decls[k]) \in ids }
  IN  IF ks = {} THEN acc ELSE cg_topo_visit_struct(decls, acc, Min(ks))
cg_topo_visit_struct(decls, acc, i) ==
  IF i \in acc.seen THEN acc
  ELSE LET done == FoldLeft(LAMBDA a, ids : VisitNamed(decls, a, i, ids),
                            [acc EXCEPT !.seen = @ \cup {i}], DependsOn(decls[i]))
       IN  [done EXCEPT !.out = Append(@, decls[i])]
\* Mutant: the declarations stay in the order of the source.
SourceOrder(decls) == decls
cg_topo_sort_structs(decls) ==
  FoldLeft(LAMBDA acc, i : cg_topo_visit_struct(decls, acc, i), [seen |-> {}, out |-> << >>], [i \in DOMAIN decls |-> i]).out

Pass(section, decls) == [i \in DOMAIN decls |-> [section |-> section, decl |-> decls[i]]]
OfKinds(decls, kinds) == SelectSeq(decls, LAMBDA d : d.kind \in kinds /\ ~d.imported)
Public(d)  == ~d.private
HasBody(d) == d.body

\* The header has what is public, the source file the rest; without a package there is no header.
TypePasses(decls, kinds) ==
  Pass("alias", OfKinds(decls, {"alias"})) \o Pass("enum", OfKinds(decls, {"enum"}))
  \o Pass("forward", OfKinds(decls, {"struct"})) \o Pass("handle", OfKinds(decls, {"pool"}))
  \o Pass("define", cg_topo_sort_structs(OfKinds(decls, kinds)))
  \o Pass("pool", OfKinds(decls, {"pool"}))
cg_program_header(prog) ==
  LET public == SelectSeq(prog, Public)
  IN  TypePasses(public, {"struct", "table"})
      \o Pass("extern", OfKinds(public, {"global"}))
      \o Pass("prototype", SelectSeq(OfKinds(public, {"fn"}), HasBody))
cg_program(prog, has_header) ==
  LET here == SelectSeq(prog, LAMBDA d : ~(has_header /\ ~d.private))
  IN  TypePasses(here, {"struct"})
      \o Pass("storage", OfKinds(prog, {"pool"}))
      \o Pass("extern", OfKinds(prog, {"global"}))
      \o Pass("prototype", SelectSeq(OfKinds(here, {"fn"}), HasBody))
      \o Pass("body", SelectSeq(OfKinds(prog, {"global", "fn"}), HasBody))
\* A file as the C compiler reads it.
CFile(prog) == cg_program_header(prog) \o cg_program(prog, TRUE)

(***************************************************************************)
(* The values of an enumeration's variants, as C declares them and as the  *)
(* bytecode compiler computes one.  A variant has a value or takes the     *)
(* next; Auto marks the latter.                                         *)
(***************************************************************************)
Auto == -1
VariantValue(v, flags, next) == IF v # Auto THEN v ELSE IF flags THEN 2 ^ next ELSE next
cg_enum_decl(variants, flags) ==
  FoldLeft(LAMBDA acc, v : LET value == VariantValue(v, flags, acc.next)
                           IN  [next |-> IF flags THEN acc.next + 1 ELSE value + 1, values |-> Append(acc.values, value)],
           [next |-> 0, values |-> << >>], variants).values
RECURSIVE NextAuto(_, _, _)
NextAuto(variants, flags, i) ==
  IF i = 1 THEN 0
  ELSE IF flags THEN NextAuto(variants, flags, i - 1) + 1
       ELSE VariantValue(variants[i - 1], flags, NextAuto(variants, flags, i - 1)) + 1
bc_enum_variant_value(variants, flags, i) == VariantValue(variants[i], flags, NextAuto(variants, flags, i))

(***************************************************************************)
(* The C names of functions.  A name is a sequence of characters.          *)
(***************************************************************************)
c_mangle_name(name) ==
  LET predicate == name # << >> /\ Last(name) = "?"
      core      == IF predicate THEN Front(name) ELSE name
  IN  [i \in DOMAIN core |-> IF core[i] \in {"-", "/"} THEN "_" ELSE core[i]]
      \o (IF predicate THEN << "_", "p" >> ELSE << >>)
Main == << "m", "a", "i", "n" >>
Prefixed(pkg, name) == c_mangle_name(pkg) \o << "_" >> \o c_mangle_name(name)

\* The name the checker reserves, and the one the generator writes.
mangled_c_fn_name(pkg, root, f) ==
  CASE f.body /\ ~f.private /\ root /\ f.name = Main -> f.name
    [] ~f.body \/ f.private \/ pkg = << >>           -> c_mangle_name(f.name)
    [] OTHER                                         -> Prefixed(pkg, f.name)
cg_is_own_public_toplevel_name(fns, name) == \E f \in fns : f.name = name /\ ~f.private /\ f.body
cg_symbol_name(fns, pkg, root, f) ==
  LET own == cg_is_own_public_toplevel_name(fns, f.name)
  IN  CASE own /\ f.name = Main /\ (root \/ pkg = << >>) -> f.name
        [] ~own \/ pkg = << >> \/ "/" \in Range(f.name)  -> c_mangle_name(f.name)
        [] OTHER                                         -> Prefixed(pkg, f.name)
check_mangled_name_collisions(fns, pkg, root) ==
  \E f, g \in fns : f.name # g.name /\ mangled_c_fn_name(pkg, root, f) = mangled_c_fn_name(pkg, root, g)

-----------------------------------------------------------------------------
(***************************************************************************)
(* The C compiler.                                                         *)
(***************************************************************************)
\* What a type must find declared (FALSE) or complete (TRUE).
RECURSIVE TypeNeeds(_, _)
TypeNeeds(t, complete) ==
  CASE t.k = "Named" -> { << t, complete >> }
    [] t.k = "Array" -> TypeNeeds(t.of[1], TRUE)
    [] t.k \in {"Pointer", "Vector"} -> TypeNeeds(t.of[1], FALSE)
    [] t.k \in {"Map", "Set", "Handle"} -> { << t, TRUE >> }
    [] OTHER -> {}
\* An anonymous member is written out in place, so its fields are what is needed.
RECURSIVE FieldNeeds(_, _)
FieldNeeds(prog, f) ==
  IF f.anon THEN UNION { FieldNeeds(prog, g) : g \in Range(struct_table_lookup(prog, f.type.name).fields) }
  ELSE TypeNeeds(f.type, TRUE)
Needs(prog, e) ==
  CASE e.section \in {"forward", "handle", "enum"} -> {}
    [] e.section \in {"pool", "storage"} -> { << Named(e.decl.name), TRUE >> }
    [] e.section \in {"extern", "prototype"} -> UNION { TypeNeeds(f.type, FALSE) : f \in Range(e.decl.fields) }
    [] OTHER -> UNION { FieldNeeds(prog, f) : f \in Range(e.decl.fields) }
Gives(e) ==
  CASE e.section = "forward" -> { << Named(e.decl.name), FALSE >> }
    [] e.section = "handle"  -> { << HandleTo(e.decl.name), TRUE >> }
    [] e.section \in {"define", "enum", "alias"} -> { << Identity(e.decl), FALSE >>, << Identity(e.decl), TRUE >> }
    [] OTHER -> {}
InOrder(prog, file) ==
  \A i \in DOMAIN file : Needs(prog, file[i]) \subseteq UNION { Gives(file[j]) : j \in 1 .. i - 1 }

\* The layout of C: every member at the least offset that is free and fits its alignment.
RECURSIVE CLayout(_, _)
CAlign(decl, fl) == IF decl.packed THEN 1 ELSE fl.align
LeastOffset(from, align) == Min({ o \in from .. from + align - 1 : o % align = 0 })
CAts(decl, fls) ==
  LET at[i \in 0 .. Len(fls)] ==
        IF i = 0 THEN [lo |-> 0, hi |-> 0]
        ELSE LET lo == IF decl.union THEN 0 ELSE LeastOffset(at[i - 1].hi, CAlign(decl, fls[i]))
             IN  [lo |-> lo, hi |-> lo + fls[i].size]
  IN  [i \in 1 .. Len(fls) |-> at[i]]
COfBody(decl, fls, ats) ==
  LET align == Max({1, decl.align} \cup { CAlign(decl, fls[i]) : i \in DOMAIN fls })
  IN  L(LeastOffset(Max({0} \cup { ats[i].hi : i \in DOMAIN ats }), align), align)
CFields(prog, decl) == [i \in DOMAIN decl.fields |-> CLayout(prog, decl.fields[i].type)]
COfStruct(decl, fls) == COfBody(decl, fls, CAts(decl, fls))
CArray(e, n) == L(e.size * n, e.align)
CLayout(prog, t) ==
  CASE t.k = "Array" -> CArray(CLayout(prog, t.of[1]), t.count)
    [] t.k = "Named" /\ IsStruct(prog, t.name) ->
         COfStruct(struct_table_lookup(prog, t.name), CFields(prog, struct_table_lookup(prog, t.name)))
    [] t.k = "Named" -> L(4, 4)
    [] OTHER -> BasicLayout[t.k]
\* The offsets of all the names a value of a struct has, those of anonymous members included.
RECURSIVE CNames(_, _, _)
CNames(prog, decl, base) ==
  UNION { LET f == decl.fields[i]
              at == base + CAts(decl, CFields(prog, decl))[i].lo
          IN  IF f.anon THEN CNames(prog, struct_table_lookup(prog, f.type.name), at) ELSE { << f.name, at, f.type >> }
          : i \in DOMAIN decl.fields }
=============================================================================
