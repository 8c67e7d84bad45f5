-------------------------- MODULE TranslateConfig --------------------------
(***************************************************************************)
(* The configuration of `3b translate`: a file of forms, which             *)
(* translate/config.c reads, or a script that calls the host functions of  *)
(* bcconfigprims.c.                                                        *)
(*                                                                         *)
(* A name is << prefix, stem, style >>: taking a prefix off or changing    *)
(* the case of its words changes one part, and names whose words agree     *)
(* become equal.                                                           *)
(***************************************************************************)
EXTENDS Integers, Sequences, FiniteSets, SequencesExt

NoName == << "", "", "" >>
Stripped(n, prefix) == IF prefix # "" /\ n[1] = prefix THEN << "", n[2], n[3] >> ELSE n
Styled(n, style) == << n[1], n[2], style >>

(***************************************************************************)
(* A form is [op, of, args]; an argument is a node                         *)
(* [k, v] with k "atom", "number" (an atom too), "string", "vector" or     *)
(* "list".  of is the part of the form's name that says what it is about.  *)
(***************************************************************************)
Kinds == {"const", "func", "type"}
EmptyConfig ==
  [package |-> "", headers |-> << >>, defines |-> << >>, strip |-> [k \in Kinds |-> ""], type_map |-> << >>,
   pin |-> << >>, groups |-> << >>, opaque |-> << >>, outparams |-> << >>, renames |-> [k \in Kinds |-> << >>],
   patterns |-> [k \in Kinds |-> << >>], excluded |-> [k \in Kinds |-> << >>], skip_deprecated |-> FALSE, ok |-> TRUE]
cfg_error(c) == [c EXCEPT !.ok = FALSE]
Checked(c, ok) == IF ok THEN c ELSE cfg_error(c)
IsAtom(n) == n.k \in {"atom", "number"}
IsString(n) == n.k = "string"
IsVector(n) == n.k = "vector"
TextsOf(nodes) == [i \in DOMAIN nodes |-> nodes[i].v]
All(nodes, P(_)) == \A i \in DOMAIN nodes : P(nodes[i])
Paired(vs) == [i \in 1 .. Len(vs) \div 2 |-> << vs[2 * i - 1], vs[2 * i] >>]
\* The nodes of a form's only vector; none when it is something else, which is an error.
VectorArg(f) == IF Len(f.args) = 1 /\ IsVector(f.args[1]) THEN f.args[1].v ELSE << >>
HasVector(f) == Len(f.args) = 1 /\ IsVector(f.args[1])

handle_package(c, f) ==
  IF Len(f.args) # 1 \/ ~IsAtom(f.args[1]) THEN cfg_error(c) ELSE [c EXCEPT !.package = f.args[1].v]
handle_headers(c, f) ==
  Checked([c EXCEPT !.headers = @ \o TextsOf(VectorArg(f))], HasVector(f) /\ All(VectorArg(f), IsString))
handle_ifdef(c, f) ==
  LET Group(i) == [platform |-> f.args[i].v, kvs |-> Paired(TextsOf(f.args[i + 1].v))]
      good == Len(f.args) >= 2 /\ Len(f.args) % 2 = 0
              /\ \A i \in DOMAIN f.args : IF i % 2 = 1 THEN IsAtom(f.args[i])
                                          ELSE IsVector(f.args[i]) /\ Len(f.args[i].v) % 2 = 0 /\ All(f.args[i].v, IsAtom)
  IN  IF ~good THEN cfg_error(c) ELSE [c EXCEPT !.defines = @ \o [j \in 1 .. Len(f.args) \div 2 |-> Group(2 * j - 1)]]
handle_strip_prefix(c, f, k) ==
  IF Len(f.args) # 1 \/ ~IsString(f.args[1]) THEN cfg_error(c) ELSE [c EXCEPT !.strip[k] = f.args[1].v]
handle_type_map(c, f) ==
  LET vs == VectorArg(f)
  IN  IF ~HasVector(f) \/ Len(vs) % 2 # 0 \/ ~All(vs, IsAtom) THEN cfg_error(c)
      ELSE [c EXCEPT !.type_map = @ \o [i \in 1 .. Len(vs) \div 2 |-> [c |-> vs[2 * i - 1].v, b3 |-> vs[2 * i].v]]]
\* Entries are two names and, if a string follows, a spelling.
PinEntries(vs) ==
  FoldLeft(LAMBDA acc, n :
      CASE IsString(n) /\ acc.half = << >> /\ acc.got # << >> /\ Last(acc.got).spelling = "" ->
             [acc EXCEPT !.got[Len(acc.got)].spelling = n.v]
        [] ~IsAtom(n) -> [acc EXCEPT !.ok = FALSE]
        [] acc.half = << >> -> [acc EXCEPT !.half = << n.v >>]
        [] OTHER -> [acc EXCEPT !.half = << >>, !.got = Append(@, [c |-> acc.half[1], b3 |-> n.v, spelling |-> ""])],
    [half |-> << >>, got |-> << >>, ok |-> TRUE], vs)
handle_pin_type(c, f) ==
  LET read == PinEntries(VectorArg(f))
  IN  Checked([c EXCEPT !.pin = @ \o read.got], HasVector(f) /\ read.ok /\ read.half = << >>)
NoPattern == [prefix |-> "", any |-> FALSE]
handle_const_group(c, f, kind) ==
  LET Group(members, pattern) == [kind |-> kind, name |-> f.args[1].v, members |-> members, pattern |-> pattern]
  IN  IF Len(f.args) # 2 \/ ~IsAtom(f.args[1]) THEN cfg_error(c)
      ELSE CASE IsVector(f.args[2]) ->
                  Checked([c EXCEPT !.groups = Append(@, Group(TextsOf(f.args[2].v), NoPattern))], All(f.args[2].v, IsAtom))
             [] f.args[2].k = "list" /\ Len(f.args[2].v) = 2 /\ IsAtom(f.args[2].v[1]) /\ IsString(f.args[2].v[2]) ->
                  Checked([c EXCEPT !.groups = Append(@, Group(<< >>, f.args[2].v[2].v))], f.args[2].v[1].v = "match")
             [] OTHER -> cfg_error(c)
handle_force_opaque(c, f) ==
  Checked([c EXCEPT !.opaque = @ \o TextsOf(VectorArg(f))], HasVector(f) /\ All(VectorArg(f), IsAtom))
find_tagged_u64(vs, tag) == { i \in 1 .. Len(vs) - 1 : vs[i].k = "atom" /\ vs[i].v = tag }
Tagged(vs, tag) == vs[1 + CHOOSE i \in find_tagged_u64(vs, tag) : \A j \in find_tagged_u64(vs, tag) : i <= j]
\* Mutant: the two indices are taken in the wrong order.
OutparamTagsSwapped(kind) == IF kind = "arena" THEN << "out-param", "count-param" >> ELSE << "param" >>
OutparamTags(kind) == IF kind = "arena" THEN << "count-param", "out-param" >> ELSE << "param" >>
handle_outparam(c, f, kind) ==
  LET tags == OutparamTags(kind)
      vs   == f.args[2].v
  IN  IF Len(f.args) # 2 \/ ~IsAtom(f.args[1]) \/ ~IsVector(f.args[2])
         \/ \E t \in Range(tags) : IF find_tagged_u64(vs, t) = {} THEN TRUE ELSE Tagged(vs, t).k # "number"
      THEN cfg_error(c)
      ELSE [c EXCEPT !.outparams = Append(@, [kind |-> kind, func |-> f.args[1].v, at |-> [i \in DOMAIN tags |-> Tagged(vs, tags[i]).v]])]
Renaming(p) == [from |-> p[1], to |-> p[2]]
handle_rename_func(c, f) ==
  IF Len(f.args) # 2 \/ ~All(f.args, IsAtom) THEN cfg_error(c)
  ELSE [c EXCEPT !.renames["func"] = Append(@, Renaming(TextsOf(f.args)))]
handle_rename_pairs(c, f, k) ==
  LET pairs == Paired(TextsOf(VectorArg(f)))
  IN  IF ~HasVector(f) \/ Len(VectorArg(f)) % 2 # 0 \/ ~All(VectorArg(f), IsAtom) THEN cfg_error(c)
      ELSE [c EXCEPT !.renames[k] = @ \o [i \in DOMAIN pairs |-> Renaming(pairs[i])]]
handle_rename_pattern(c, f, k) ==
  IF Len(f.args) # 2 \/ ~All(f.args, IsString) THEN cfg_error(c)
  ELSE [c EXCEPT !.patterns[k] = Append(@, [pattern |-> f.args[1].v, replacement |-> f.args[2].v])]
handle_name_list(c, f, k) ==
  Checked([c EXCEPT !.excluded[k] = @ \o TextsOf(VectorArg(f))], HasVector(f) /\ All(VectorArg(f), IsAtom))

config_form(c, f) ==
  CASE f.op = "package"                                -> handle_package(c, f)
    [] f.op = "headers"                                -> handle_headers(c, f)
    [] f.op = "ifdef"                                  -> handle_ifdef(c, f)
    [] f.op = "strip-prefix"                           -> handle_strip_prefix(c, f, f.of)
    [] f.op = "type-map"                               -> handle_type_map(c, f)
    [] f.op = "pin-type"                               -> handle_pin_type(c, f)
    [] f.op = "group"                                  -> handle_const_group(c, f, f.of)
    [] f.op = "force-opaque"                           -> handle_force_opaque(c, f)
    [] f.op = "outparam"                               -> handle_outparam(c, f, f.of)
    [] f.op = "rename" /\ f.of = "func"                -> handle_rename_func(c, f)
    [] f.op = "rename" /\ f.of # "func"                -> handle_rename_pairs(c, f, f.of)
    [] f.op = "rename-pattern"                         -> handle_rename_pattern(c, f, f.of)
    [] f.op = "skip-deprecated"                        -> [c EXCEPT !.skip_deprecated = TRUE]
    [] f.op = "exclude"                                -> handle_name_list(c, f, f.of)
    [] OTHER                                           -> cfg_error(c)
config_read(forms) == FoldLeft(config_form, EmptyConfig, forms)

(***************************************************************************)
(* The same from a script: a sequence of calls [fn, of, args].             *)
(***************************************************************************)
\* The group of that platform, or of that kind and name, made if there is none.
FoundOrMade(s, Same(_), new) == IF \E i \in DOMAIN s : Same(s[i]) THEN s ELSE Append(s, new)
FirstOf(s, Same(_)) == CHOOSE i \in DOMAIN s : Same(s[i]) /\ \A j \in 1 .. i - 1 : ~Same(s[j])
bc_config_add_define(c, a) ==
  LET Same(g) == g.platform = a[1]
      gs      == FoundOrMade(c.defines, Same, [platform |-> a[1], kvs |-> << >>])
  IN  [c EXCEPT !.defines = [gs EXCEPT ![FirstOf(gs, Same)].kvs = Append(@, << a[2], a[3] >>)]]
bc_config_find_or_create_const_group(c, kind, name) ==
  FoundOrMade(c.groups, LAMBDA g : g.kind = kind /\ g.name = name, [kind |-> kind, name |-> name, members |-> << >>, pattern |-> NoPattern])
bc_config_add_group_member(c, kind, a) ==
  LET gs == bc_config_find_or_create_const_group(c, kind, a[1])
  IN  [c EXCEPT !.groups = [gs EXCEPT ![FirstOf(gs, LAMBDA g : g.kind = kind /\ g.name = a[1])].members = Append(@, a[2])]]
bc_config_set_group_pattern(c, kind, a) ==
  LET gs == bc_config_find_or_create_const_group(c, kind, a[1])
  IN  [c EXCEPT !.groups = [gs EXCEPT ![FirstOf(gs, LAMBDA g : g.kind = kind /\ g.name = a[1])].pattern = a[2]]]
bc_config_set_strip_prefix(c, k, a) == [c EXCEPT !.strip[k] = a[1]]
bc_config_add_outparam(c, kind, a) ==
  [c EXCEPT !.outparams = Append(@, [kind |-> kind, func |-> a[1], at |-> Tail(a)])]
bc_config_add_rename(c, k, a) == [c EXCEPT !.renames[k] = Append(@, Renaming(a))]
bc_config_add_rename_pattern(c, k, a) == [c EXCEPT !.patterns[k] = Append(@, [pattern |-> a[1], replacement |-> a[2]])]
bc_config_add_exclude(c, k, a) == [c EXCEPT !.excluded[k] = Append(@, a[1])]
bc_config_add_pin_type(c, a) == [c EXCEPT !.pin = Append(@, [c |-> a[1], b3 |-> a[2], spelling |-> a[3]])]
config_call(c, call) ==
  CASE call.fn = "set-package"        -> [c EXCEPT !.package = call.args[1]]
    [] call.fn = "add-header"         -> [c EXCEPT !.headers = Append(@, call.args[1])]
    [] call.fn = "add-define"         -> bc_config_add_define(c, call.args)
    [] call.fn = "set-strip-prefix"   -> bc_config_set_strip_prefix(c, call.of, call.args)
    [] call.fn = "add-type-map"       -> [c EXCEPT !.type_map = Append(@, [c |-> call.args[1], b3 |-> call.args[2]])]
    [] call.fn = "add-pin-type"       -> bc_config_add_pin_type(c, call.args)
    [] call.fn = "add-group-member"   -> bc_config_add_group_member(c, call.of, call.args)
    [] call.fn = "set-group-pattern"  -> bc_config_set_group_pattern(c, call.of, call.args)
    [] call.fn = "add-force-opaque"   -> [c EXCEPT !.opaque = Append(@, call.args[1])]
    [] call.fn = "add-outparam"       -> bc_config_add_outparam(c, call.of, call.args)
    [] call.fn = "add-rename"         -> bc_config_add_rename(c, call.of, call.args)
    [] call.fn = "add-rename-pattern" -> bc_config_add_rename_pattern(c, call.of, call.args)
    [] call.fn = "add-exclude"        -> bc_config_add_exclude(c, call.of, call.args)
    [] call.fn = "set-skip-deprecated" -> [c EXCEPT !.skip_deprecated = TRUE]
load_config_script(calls) == FoldLeft(config_call, EmptyConfig, calls)

\* The defines that are passed to clang, in order.
push_active_defines(c, platform) ==
  FlattenSeq([i \in DOMAIN c.defines |-> IF c.defines[i].platform \in {"common", platform} THEN c.defines[i].kvs ELSE << >>])
=============================================================================
