------------------------------ MODULE Queries ------------------------------
(***************************************************************************)
(* What the editor asks about a place in a checked package: where the name *)
(* there is declared, what it is and which value it has, and which names   *)
(* could stand there (lib3b.c: lib3b_definition, lib3b_hover, the locals   *)
(* of lib3b_completion_context).                                           *)
(*                                                                         *)
(* The answers are read off the nodes that lowering pushed and the checker *)
(* resolved, so both are here as far as the queries depend on them: in     *)
(* which order nodes are pushed, which token each carries, and what the    *)
(* checker writes back.  A token is [file, line, col, size]; files are     *)
(* told apart by their base names alone, which are the values of file.  A  *)
(* type is [ptr, name].                                                    *)
(*                                                                         *)
(* A package is [root, annotations, lines]: its declarations in order, the *)
(* written types with their tokens, and for each file which of its lines   *)
(* hold only a comment.                                                    *)
(***************************************************************************)
EXTENDS Integers, Sequences, FiniteSets

NoToken == [file |-> "", line |-> 0, col |-> 0, size |-> 0]
Type(n) == [ptr |-> 0, name |-> n]
Pointer(n) == [ptr |-> 1, name |-> n]
Unresolved == Type("")
Nowhere == [file |-> "", line |-> 0, col |-> 0]
SpanOf(t) == IF t.size = 0 THEN 1 ELSE t.size
Covers(t, at) ==
  /\ t.line = at.line /\ t.file = at.file
  /\ at.col >= t.col /\ at.col < t.col + SpanOf(t)
Least(S) == CHOOSE i \in S : \A j \in S : i <= j

(***************************************************************************)
(* Lowering.  `own` is the token a query looks at: the callee, the type or *)
(* the field that is named, where the node's own token is a bracket.       *)
(***************************************************************************)
Node(kind, f, own, name, args) ==
  [kind |-> kind, token |-> f.token, own |-> own, name |-> name, args |-> args,
   value |-> 0, decl |-> NoToken, type |-> Unresolved]
Pushed(nodes, n) == [nodes |-> Append(nodes, n), ix |-> Len(nodes) + 1]
Identifier(nodes, f) == Pushed(nodes, Node("Identifier", f, f.token, f.name, << >>))

\* One node for each hop, and before it the same atom as the key it would be
\* if the base turned out to be a Map.
RECURSIVE lower_field_chain_core(_, _, _, _)
lower_field_chain_core(nodes, f, base, hops) ==
  IF hops = << >> THEN [nodes |-> nodes, ix |-> base]
  ELSE LET key == Identifier(nodes, hops[1])
           hop == Pushed(key.nodes, Node("DotHop", f, hops[1].token, hops[1].name, << base, key.ix >>))
       IN lower_field_chain_core(hop.nodes, f, hop.ix, Tail(hops))

RECURSIVE lower_expr(_, _), lower_args(_, _, _)
\* The arguments are pushed first, their form last.
lower_args(nodes, args, done) ==
  IF args = << >> THEN [nodes |-> nodes, args |-> done]
  ELSE LET a == lower_expr(nodes, args[1])
       IN lower_args(a.nodes, Tail(args), Append(done, a.ix))
lower_expr(nodes, f) ==
  CASE f.form = "name" -> Identifier(nodes, f)
    [] f.form = "num"  -> Pushed(nodes, [Node("IntLiteral", f, f.token, "", << >>) EXCEPT !.value = f.value])
    [] f.form = "enum" -> Pushed(nodes, [Node("EnumAccess", f, f.token, f.name, << >>) EXCEPT !.value = f.value])
    [] f.form = "op"   -> LET a == lower_args(nodes, f.args, << >>)
                          IN Pushed(a.nodes, Node("Binary", f, f.token, f.name, a.args))
    [] f.form = "call" -> LET a == lower_args(nodes, f.args, << >>)
                          IN Pushed(a.nodes, Node("Call", f, f.head, f.name, a.args))
    [] f.form = "make" -> LET a == lower_args(nodes, f.args, << >>)
                          IN Pushed(a.nodes, Node("StructLiteral", f, f.head, f.name, a.args))
    [] f.form = "let"  -> LET a == lower_args(nodes, f.args, << >>)
                          IN Pushed(a.nodes, Node("LetExpr", f, f.token, f.name, a.args))
    [] f.form = "dot"  -> LET b == lower_expr(nodes, f.args[1])
                          IN lower_field_chain_core(b.nodes, f, b.ix, f.hops)

\* The nodes of a package: of each declaration its initialiser or body, then
\* the declaration itself.  decls is where the declarations are.
RECURSIVE LowerDecls(_, _, _)
LowerDecls(root, nodes, decls) ==
  IF root = << >> THEN [nodes |-> nodes, decls |-> decls]
  ELSE LET d == root[1]
           body == lower_args(nodes, d.body, << >>)
           own == Pushed(body.nodes, [Node(d.kind, d, d.token, d.name, body.args) EXCEPT !.type = d.type])
       IN LowerDecls(Tail(root), own.nodes, Append(decls, own.ix))

(***************************************************************************)
(* Checking.  c is [nodes, found, asked]: asked is the place of a query    *)
(* for the names in scope, found what has been captured there.             *)
(***************************************************************************)
Entry(name, type, token) == [name |-> name, type |-> type, token |-> token]
Named(scope, n) == {i \in DOMAIN scope : scope[i].name = n}
Innermost(scope, n) == scope[CHOOSE i \in Named(scope, n) : \A j \in Named(scope, n) : j <= i]

\* The first node checked whose token ends at the place is the one.
scope_query_try_capture(c, scope, n) ==
  IF /\ c.found = << >>
     /\ n.token.line = c.asked.line /\ n.token.col + SpanOf(n.token) = c.asked.col
     /\ n.token.file = c.asked.file
  THEN [c EXCEPT !.found = << scope >>] ELSE c

find_toplevel_decl(root, n) ==
  LET hits == {i \in DOMAIN root : root[i].kind \in {"FunctionDecl", "StructDecl", "EnumDecl"} /\ root[i].name = n}
  IN IF hits = {} THEN 0 ELSE Least(hits)

\* The field of that name, 0 or [decl, field]: own fields before those of
\* the anonymous members.
RECURSIVE find_field_param(_, _, _)
find_field_param(root, d, n) ==
  LET fields == root[d].fields
      own == {i \in DOMAIN fields : ~fields[i].anon /\ fields[i].name = n}
      within == {i \in DOMAIN fields : /\ fields[i].anon
                                       /\ find_toplevel_decl(root, fields[i].type.name) # 0
                                       /\ find_field_param(root, find_toplevel_decl(root, fields[i].type.name), n) # << >>}
  IN IF own # {} THEN << [decl |-> d, field |-> fields[Least(own)]] >>
     ELSE IF within = {} THEN << >>
     ELSE find_field_param(root, find_toplevel_decl(root, fields[Least(within)].type.name), n)

Typed(c, ix, t) == [c EXCEPT !.nodes[ix].type = t]
\* The hop was a field: the key it might have been answers no query.
DotHopField(c, ix, field) ==
  Typed([c EXCEPT !.nodes[ix].kind = "FieldAccess", !.nodes[c.nodes[ix].args[2]].kind = "Nil"], ix, field.type)
\* The hop was a key: what it got from the Map is a call, its callee written nowhere.
DotHopKey(c, ix) ==
  Typed([c EXCEPT !.nodes[ix].kind = "Call", !.nodes[ix].name = "map-get",
                  !.nodes[ix].own = c.nodes[ix].token], ix, Pointer("i32"))

RECURSIVE check_expr(_, _, _, _), check_all(_, _, _, _)
check_all(root, c, scope, ixs) ==
  IF ixs = << >> THEN c ELSE check_all(root, check_expr(root, c, scope, ixs[1]), scope, Tail(ixs))
CheckIdentifier(root, c, scope, ix) ==
  LET n == c.nodes[ix].name
      fn == find_toplevel_decl(root, n)
  IN IF Named(scope, n) # {}
     THEN Typed([c EXCEPT !.nodes[ix].decl = Innermost(scope, n).token], ix, Innermost(scope, n).type)
     ELSE Typed(c, ix, IF fn # 0 THEN Type("fn") ELSE Unresolved)
CheckLet(root, c, scope, ix) ==
  LET n == c.nodes[ix]
      init == check_expr(root, c, scope, n.args[1])
      body == check_expr(root, init, Append(scope, Entry(n.name, init.nodes[n.args[1]].type, n.token)), n.args[2])
  IN Typed(body, ix, body.nodes[n.args[2]].type)
CheckDotHop(root, c, scope, ix) ==
  LET n == c.nodes[ix]
      base == check_expr(root, c, scope, n.args[1])
      on == base.nodes[n.args[1]].type.name
      found == IF find_toplevel_decl(root, on) = 0 THEN << >>
               ELSE find_field_param(root, find_toplevel_decl(root, on), n.name)
  IN IF on = "Map" THEN DotHopKey(check_expr(root, base, scope, n.args[2]), ix)
     ELSE IF found = << >> THEN base ELSE DotHopField(base, ix, found[1].field)
CheckNode(root, c, scope, ix, n) ==
  CASE n.kind = "Identifier"    -> CheckIdentifier(root, c, scope, ix)
    [] n.kind = "IntLiteral"    -> Typed(c, ix, Type("i32"))
    [] n.kind = "EnumAccess"    -> Typed(c, ix, Type(n.name))
    [] n.kind = "Binary"        -> Typed(check_all(root, c, scope, n.args), ix, Type("i32"))
    [] n.kind = "StructLiteral" -> Typed(check_all(root, c, scope, n.args), ix, Type(n.name))
    [] n.kind = "Call"          -> Typed(check_all(root, c, scope, n.args), ix,
                                         IF find_toplevel_decl(root, n.name) = 0 THEN Type("void")
                                         ELSE root[find_toplevel_decl(root, n.name)].type)
    [] n.kind = "LetExpr"       -> CheckLet(root, c, scope, ix)
    [] n.kind = "DotHop"        -> CheckDotHop(root, c, scope, ix)
check_expr(root, c, scope, ix) ==
  CheckNode(root, scope_query_try_capture(c, scope, c.nodes[ix]), scope, ix, c.nodes[ix])

\* Globals come into scope one after the other, parameters with their function.
RECURSIVE CheckDecls(_, _, _, _, _)
CheckDecls(root, decls, k, c, scope) ==
  IF k > Len(root) THEN c
  ELSE LET d == root[k]
           params == [i \in DOMAIN d.params |-> Entry(d.params[i].name, d.params[i].type, d.token)]
           next == check_all(root, c, IF d.kind = "FunctionDecl" THEN scope \o params ELSE scope, c.nodes[decls[k]].args)
       IN CheckDecls(root, decls, k + 1, next,
            IF d.kind \in {"ConstDecl", "VarDecl"} THEN Append(scope, Entry(d.name, d.type, d.token)) ELSE scope)

\* compile_for_query, and the compile that completion does with a scope query.
Compiled(pkg, asked) ==
  LET low == LowerDecls(pkg.root, << >>, << >>)
      c == CheckDecls(pkg.root, low.decls, 1, [nodes |-> low.nodes, found |-> << >>, asked |-> asked], << >>)
  IN [root |-> pkg.root, nodes |-> c.nodes, decls |-> low.decls, found |-> c.found,
      annotations |-> pkg.annotations, lines |-> pkg.lines]

(***************************************************************************)
(* What is at a place.                                                     *)
(***************************************************************************)
query_token_for(n) == n.own
\* Of those that cover the place the shortest, of these the first; 0 when none does.
Shortest(tokens, S) ==
  IF S = {} THEN 0
  ELSE CHOOSE i \in S : \A j \in S : \/ SpanOf(tokens[i]) < SpanOf(tokens[j])
                                     \/ SpanOf(tokens[i]) = SpanOf(tokens[j]) /\ i <= j
find_node_at_position(pb, at) ==
  LET tokens == [i \in DOMAIN pb.nodes |-> query_token_for(pb.nodes[i])]
  IN Shortest(tokens, {i \in DOMAIN tokens : pb.nodes[i].kind # "Nil" /\ Covers(tokens[i], at)})
find_type_annotation_at_position(pb, at) ==
  LET tokens == [i \in DOMAIN pb.annotations |-> pb.annotations[i].token]
  IN Shortest(tokens, {i \in DOMAIN tokens : Covers(tokens[i], at)})

\* The declaration a call, a literal or a variant names; 0 for any other node.
NamedDecl(pb, n) ==
  IF n.kind \in {"Call", "StructLiteral", "EnumAccess"} THEN find_toplevel_decl(pb.root, n.name) ELSE 0
\* The field a field access is to, with the struct that has it.
FieldOf(pb, n) ==
  LET owner == find_toplevel_decl(pb.root, pb.nodes[n.args[1]].type.name)
  IN IF n.kind # "FieldAccess" \/ owner = 0 THEN << >>
     ELSE IF pb.root[owner].kind # "StructDecl" THEN << >> ELSE find_field_param(pb.root, owner, n.name)
AnnotatedDecl(pb, at) ==
  LET ty == find_type_annotation_at_position(pb, at)
  IN IF ty = 0 THEN 0 ELSE find_toplevel_decl(pb.root, pb.annotations[ty].type.name)

\* NoToken when nothing is found.
DefinitionOfNode(pb, n) ==
  CASE n.kind = "Identifier" /\ n.decl # NoToken -> n.decl
    [] n.kind = "FieldAccess" -> IF FieldOf(pb, n) = << >> THEN NoToken ELSE FieldOf(pb, n)[1].field.token
    [] OTHER -> IF NamedDecl(pb, n) = 0 THEN NoToken ELSE pb.root[NamedDecl(pb, n)].token
lib3b_definition(pb, at) ==
  LET ix == find_node_at_position(pb, at)
      of_node == IF ix = 0 THEN NoToken ELSE DefinitionOfNode(pb, pb.nodes[ix])
      decl == AnnotatedDecl(pb, at)
  IN IF of_node # NoToken THEN of_node
     ELSE IF decl # 0 THEN pb.root[decl].token ELSE NoToken

(***************************************************************************)
(* The value of what is at a place.                                        *)
(***************************************************************************)
\* The val a reference was resolved to, by its token; 0 when it is no val.
find_toplevel_val_decl(pb, token) ==
  LET hits == {i \in DOMAIN pb.root : pb.root[i].kind = "ConstDecl" /\ pb.root[i].token = token}
  IN IF hits = {} THEN 0 ELSE Least(hits)

\* [pure, vals]: vals are the vals needed, in the order they were met first.
RECURSIVE hover_eval_is_pure(_, _, _), AllPure(_, _, _)
AllPure(pb, ixs, vals) ==
  IF ixs = << >> THEN [pure |-> TRUE, vals |-> vals]
  ELSE LET first == hover_eval_is_pure(pb, ixs[1], vals)
       IN IF first.pure THEN AllPure(pb, Tail(ixs), first.vals) ELSE first
hover_eval_is_pure(pb, ix, vals) ==
  LET n == pb.nodes[ix]
      d == find_toplevel_val_decl(pb, n.decl)
      Known == \E i \in DOMAIN vals : vals[i] = d
  IN CASE n.kind \in {"IntLiteral", "EnumAccess"} -> [pure |-> TRUE, vals |-> vals]
       [] n.kind = "Identifier" ->
            IF n.decl = NoToken \/ d = 0 THEN [pure |-> FALSE, vals |-> vals]
            ELSE IF Known THEN [pure |-> TRUE, vals |-> vals]
            ELSE IF pb.root[d].imported THEN [pure |-> FALSE, vals |-> vals]
            ELSE AllPure(pb, pb.nodes[pb.decls[d]].args, Append(vals, d))
       [] n.kind = "Binary" -> AllPure(pb, n.args, vals)
       [] OTHER -> [pure |-> FALSE, vals |-> vals]

\* Run as bytecode: << value >>, or << >> for a division by zero.
RECURSIVE Run(_, _, _)
Run(pb, globals, ix) ==
  LET n == pb.nodes[ix]
  IN CASE n.kind \in {"IntLiteral", "EnumAccess"} -> << n.value >>
       [] n.kind = "Identifier" -> << globals[find_toplevel_val_decl(pb, n.decl)] >>
       [] n.kind = "Binary" ->
            LET l == Run(pb, globals, n.args[1]) r == Run(pb, globals, n.args[2])
            IN IF l = << >> \/ r = << >> THEN << >>
               ELSE IF n.name = "+" THEN << l[1] + r[1] >>
               ELSE IF r[1] = 0 THEN << >> ELSE << l[1] \div r[1] >>
\* The initialisers run in the order of the synthesised root; one that traps
\* ends them all, and nobody asks whether it did.
RECURSIVE InitGlobals(_, _, _)
InitGlobals(pb, globals, vals) ==
  IF vals = << >> THEN globals
  ELSE LET init == pb.nodes[pb.decls[vals[1]]].args
           v == IF init = << >> THEN << 0 >> ELSE Run(pb, globals, init[1])
       IN IF v = << >> THEN globals ELSE InitGlobals(pb, [globals EXCEPT ![vals[1]] = v[1]], Tail(vals))
\* The root that is compiled declares the vals as they were met.
hover_eval_build_synthetic_root(vals) == vals
\* Numbers and variants are shown, nothing else.
hover_eval_format_result(pb, type, v) ==
  IF \/ type = Type("i32")
     \/ \E i \in DOMAIN pb.root : pb.root[i].kind = "EnumDecl" /\ type = Type(pb.root[i].name)
  THEN v ELSE << >>
hover_eval_try_append(pb, ix) ==
  LET e == hover_eval_is_pure(pb, ix, << >>)
      globals == InitGlobals(pb, [i \in DOMAIN pb.root |-> 0], hover_eval_build_synthetic_root(e.vals))
  IN IF e.pure THEN hover_eval_format_result(pb, pb.nodes[ix].type, Run(pb, globals, ix)) ELSE << >>

(***************************************************************************)
(* What is said of what is at a place.                                     *)
(***************************************************************************)
\* The comment lines that end right above a line.
RECURSIVE doc_comment_above(_, _)
doc_comment_above(lines, line) ==
  IF line > 1 /\ line - 1 \in lines THEN {line - 1} \cup doc_comment_above(lines, line - 1) ELSE {}
DocAt(pb, token) ==
  IF token = NoToken THEN {} ELSE {<< token.file, l >> : l \in doc_comment_above(pb.lines[token.file], token.line)}

Hover(kind, name, token, doc, text, value) ==
  [kind |-> kind, name |-> name, decl |-> token, doc |-> doc, text |-> text, value |-> value]
NoHover == Hover("", "", NoToken, {}, Unresolved, << >>)
builtin_shapes_for == {"print", "println"}
\* The kinds, in the order they are tried; a field's comment must not be its struct's.
HoverField(pb, n, f, value) ==
  Hover("Field", n.name, f.field.token,
        IF f.field.token.line = pb.root[f.decl].token.line THEN {} ELSE DocAt(pb, f.field.token), n.type, value)
HoverDecl(pb, d, value) ==
  Hover(pb.root[d].kind, pb.root[d].name, pb.root[d].token, DocAt(pb, pb.root[d].token), Type(pb.root[d].name), value)
HoverNode(pb, n, value) ==
  CASE n.kind = "Call" /\ n.name \in builtin_shapes_for -> Hover("Builtin", n.name, NoToken, {}, Type(n.name), value)
    [] NamedDecl(pb, n) # 0  -> HoverDecl(pb, NamedDecl(pb, n), value)
    [] n.kind = "FieldAccess" /\ FieldOf(pb, n) # << >> -> HoverField(pb, n, FieldOf(pb, n)[1], value)
    [] n.kind = "Identifier" -> Hover("Binding", n.name, n.decl, DocAt(pb, n.decl), n.type, value)
    [] OTHER -> Hover("Expression", "", NoToken, {}, n.type, value)
lib3b_hover(pb, at) ==
  LET ix == find_node_at_position(pb, at)
      ty == find_type_annotation_at_position(pb, at)
      decl == AnnotatedDecl(pb, at)
  IN IF ix # 0 THEN HoverNode(pb, pb.nodes[ix], hover_eval_try_append(pb, ix))
     ELSE IF ty = 0 THEN NoHover
     ELSE IF decl # 0 /\ pb.root[decl].kind # "FunctionDecl" THEN HoverDecl(pb, decl, << >>)
     ELSE Hover("Expression", "", NoToken, {}, pb.annotations[ty].type, << >>)

\* The names in scope, the innermost of each, without the top-level ones.
Symbols(pb) == {pb.root[i].name : i \in DOMAIN pb.root}
collect_scope_locals(pb) ==
  IF pb.found = << >> THEN {}
  ELSE {Innermost(pb.found[1], n) : n \in {pb.found[1][i].name : i \in DOMAIN pb.found[1]} \ Symbols(pb)}
=============================================================================
