----------------------------- MODULE MCInterop -----------------------------
(***************************************************************************)
(* How a program meets C and the system, for TLC: `3b translate` on small  *)
(* headers, the two ways to configure it, texts sent to an editor or a     *)
(* shell, and the os package of compiled programs and of scripts.  A       *)
(* behaviour takes up one of them, which job.what names; the functions are *)
(* applied once, with the result in answer, while the os package takes     *)
(* calls in any order.                                                     *)
(***************************************************************************)
EXTENDS Translate, OsVerbs, EditorText, TLC

CONSTANTS Parts    \* what is taken up: "record", "function", "constant", "name", "config", "message",
                   \* "buffer", "path", "words", "query", "os"

VARIABLES job, answer

None == << >>
C(n) == << "", n, "c" >>
Tag(n) == << "", n, "tag" >>

(***************************************************************************)
(* Headers of one record S beside a fixed world: a record R, typedefs, an  *)
(* enumeration, and a record that is declared and nowhere defined.         *)
(***************************************************************************)
Basic(n) == CxBasic(n)
WorldDecls ==
  [R      |-> RecordDecl(Tag("R"), << FieldDecl(C("a"), Basic("unsigned char")), FieldDecl(C("b"), Basic("int")) >>),
   U      |-> [RecordDecl(Tag("U"), << FieldDecl(C("a"), Basic("int")) >>) EXCEPT !.union = TRUE],
   Q      |-> [RecordDecl(Tag("Q"), << >>) EXCEPT !.defined = FALSE],
   anon   |-> RecordDecl(NoName, << FieldDecl(C("a"), Basic("short")) >>),
   T      |-> TypedefDecl(Tag("T"), Basic("short")),
   Handle |-> TypedefDecl(Tag("Handle"), CxPointer(CxDecl("record", "Q"))),
   Alias  |-> TypedefDecl(Tag("Alias"), CxDecl("record", "R")),
   Fn     |-> TypedefDecl(Tag("Fn"), CxPointer(CxFunction(CxType("void"), << Basic("int") >>))),
   OnR    |-> TypedefDecl(Tag("OnR"), CxPointer(CxFunction(CxType("void"), << CxPointer(CxDecl("record", "R")) >>))),
   Proc   |-> TypedefDecl(Tag("Proc"), CxFunction(Basic("int"), << CxPointer(CxDecl("typedef", "Alias")) >>)),
   Log    |-> TypedefDecl(Tag("Log"), CxPointer(CxVariadic(CxType("void"), << Basic("int") >>))),
   Far    |-> TypedefDecl(Tag("Far"), Basic("int")),
   E      |-> EnumDecl(Tag("E"), << [name |-> C("e0"), value |-> 0] >>, FALSE),
   W      |-> EnumDecl(Tag("W"), << [name |-> C("w0"), value |-> 0] >>, TRUE)]
\* Far is declared by a header the configuration does not name.
WorldTop == << "T", "Handle", "Alias", "Fn", "OnR", "Proc", "Log", "E", "W", "R", "U", "Far" >>
Header(decls, ids) ==
  [decl |-> decls @@ WorldDecls, top |-> WorldTop \o ids, target |-> DOMAIN (decls @@ WorldDecls) \ {"Far"}]
Plain == [EmptyConfig EXCEPT !.package = "p"]

FieldTypePalette ==
  [uchar |-> Basic("unsigned char"), int |-> Basic("int"), double |-> Basic("double"), array |-> CxArray(Basic("short"), 3),
   nested |-> CxDecl("record", "R"), union |-> CxDecl("record", "U"), T |-> CxDecl("typedef", "T"), Alias |-> CxDecl("typedef", "Alias"),
   Handle |-> CxDecl("typedef", "Handle"), Fn |-> CxDecl("typedef", "Fn"), Far |-> CxDecl("typedef", "Far"), enum |-> CxDecl("enum", "E"),
   wide |-> CxDecl("enum", "W"), anon |-> CxDecl("record", "anon"), pointer |-> CxPointer(CxDecl("record", "Q")),
   Log |-> CxDecl("typedef", "Log"), log |-> CxPointer(CxVariadic(Basic("int"), << Basic("int") >>)), proc |-> CxPointer(CxDecl("typedef", "Proc")),
   open |-> CxOpenArray(Basic("double"))]
FieldNames == << C("f1"), << "", "f1", "kebab" >>, C("f3") >>
\* C has an array without a size only at the end of a struct.
RecordJobs ==
  { j \in [what : {"record"}, types : [1 .. 2 -> DOMAIN FieldTypePalette] \cup [1 .. 3 -> {"T", "uchar", "int"}],
   shape : {"struct", "union", "packed", "aligned", "bits", "unnamed"}, config : {"none", "opaque", "narrow", "wide"}] :
      \A i \in DOMAIN j.types : j.types[i] = "open" => i = 2 /\ j.shape \in {"struct", "packed", "aligned"} }
RecordFields(j) ==
  [i \in DOMAIN j.types |-> [name |-> IF i = 2 /\ j.shape = "unnamed" THEN NoName ELSE FieldNames[i],
                             type |-> FieldTypePalette[j.types[i]],
                             bits |-> IF j.shape = "bits" /\ j.types[i] = "int" THEN 3 ELSE 0]]
RecordHeader(j) ==
  Header([S |-> [RecordDecl(Tag("S"), RecordFields(j)) EXCEPT !.union = j.shape = "union", !.packed = j.shape = "packed",
                                                              !.aligned = IF j.shape = "aligned" THEN 16 ELSE 0]], << "S" >>)
MapTo(b3) == << [c |-> Tag("T"), b3 |-> Prim(b3)] >>
RecordConfig(j) ==
  CASE j.config = "none"   -> Plain
    [] j.config = "opaque" -> [Plain EXCEPT !.opaque = << Tag("R"), Tag("Far") >>]
    [] j.config = "narrow" -> [Plain EXCEPT !.type_map = MapTo("u8")]
    [] j.config = "wide"   -> [Plain EXCEPT !.type_map = MapTo("i32")]

(***************************************************************************)
(* Headers of one function.                                                *)
(***************************************************************************)
ParamPalette ==
  [int |-> Basic("int"), R |-> CxDecl("record", "R"), Alias |-> CxDecl("typedef", "Alias"), intp |-> CxPointer(Basic("int")),
   Rp |-> CxPointer(CxDecl("record", "R")), Q |-> CxPointer(CxDecl("record", "Q")), Handle |-> CxDecl("typedef", "Handle"),
   Far |-> CxDecl("typedef", "Far"), Fn |-> CxDecl("typedef", "Fn"), ints |-> CxOpenArray(Basic("int")),
   log |-> CxPointer(CxVariadic(Basic("int"), << Basic("int") >>))]
RetPalette ==
  [void |-> CxType("void"), int |-> Basic("int"), R |-> CxDecl("record", "R"), U |-> CxDecl("record", "U"), Rp |-> CxPointer(CxDecl("record", "R"))]
ParamNamePalette == [plain |-> << C("x"), C("y") >>, out |-> << C("out"), C("y") >>, last |-> << NoName, C("out") >>, odd |-> << C("x"), C("status") >>]
FnName == << "lib", "getThing", "camel" >>
FnPublic == << "", "getThing", "kebab" >>
Rule(kind, at) == [kind |-> kind, func |-> FnPublic, at |-> at]
RulePalette ==
  [none |-> << >>, construct1 |-> << Rule("construct", << 1 >>) >>, construct2 |-> << Rule("construct", << 2 >>) >>,
   mutate |-> << Rule("mutate", << 1 >>) >>, arena |-> << Rule("arena", << 1, 2 >>) >>, zero |-> << Rule("construct", << 0 >>) >>]
FunctionJobs ==
  { j \in [what : {"function"}, params : UNION { [1 .. n -> DOMAIN ParamPalette] : n \in 0 .. 2 }, ret : DOMAIN RetPalette,
           names : DOMAIN ParamNamePalette, rule : DOMAIN RulePalette, config : {"none", "opaque"}] :
      /\ Len(j.params) < 2 => j.names \in {"plain", "out"}
      /\ j.rule \in {"construct2", "arena", "zero"} => j.names = "plain" }
FunctionHeader(j) ==
  Header([f |-> FunctionDecl(FnName, RetPalette[j.ret],
                             [i \in DOMAIN j.params |-> [name |-> ParamNamePalette[j.names][i], type |-> ParamPalette[j.params[i]]]])], << "f" >>)
FunctionConfig(j) ==
  [Plain EXCEPT !.strip["func"] = "lib", !.outparams = RulePalette[j.rule],
                !.opaque = IF j.config = "opaque" THEN << Tag("R"), Tag("Far") >> ELSE << >>]

(***************************************************************************)
(* Headers of constants, at the limits of the types that hold them.        *)
(***************************************************************************)
Limits ==
  {0, 1} \cup { 2 ^ IntBits + d : d \in {-1, 0} } \cup { 2 ^ (IntBits - 1) + d : d \in {-1, 0} }
  \cup { 2 ^ LongBits + d : d \in {-1, 0} } \cup { 2 ^ (LongBits - 1) + d : d \in {-1, 0} }
Negatives == { -(2 ^ (IntBits - 1)) - d : d \in {0, 1} } \cup { -(2 ^ (LongBits - 1)), -1 }
ConstantGroup(kind, name, members, pattern) == [kind |-> kind, name |-> Tag(name), members |-> members, pattern |-> pattern]
GroupPalette ==
  [none |-> << >>, listed |-> << ConstantGroup("enum", "G", << C("k1") >>, NoPattern) >>,
   matched |-> << ConstantGroup("flags", "G", << >>, [prefix |-> "", any |-> TRUE]) >>,
   both |-> << ConstantGroup("flags", "G", << >>, [prefix |-> "", any |-> TRUE]), ConstantGroup("enum", "G2", << C("k1") >>, NoPattern) >>]
ConstantJobs ==
  [what : {"constant"}, v1 : Limits \cup Negatives, form1 : {"dec", "hex", "float", "text"},
   v2 : Negatives \cup {0, 3, 2 ^ (IntBits - 1)}, form2 : {"call", "hexcall", "enumerator"},
   groups : DOMAIN GroupPalette, excluded : BOOLEAN]
ConstantHeader(j) ==
  Header([k1 |-> MacroDecl(<< "K_", "k1", "c" >>, j.form1, j.v1),
          k2 |-> IF j.form2 = "enumerator" THEN EnumDecl(NoName, << [name |-> C("k2"), value |-> j.v2] >>, FALSE)
                 ELSE MacroDecl(C("k2"), j.form2, j.v2)],
         << "k1", "k2" >>)
ConstantConfig(j) ==
  [Plain EXCEPT !.strip["const"] = "K_", !.groups = GroupPalette[j.groups], !.excluded["const"] = IF j.excluded THEN << C("k2") >> ELSE << >>]

(***************************************************************************)
(* Names: two functions and a type whose names may meet, and the rules     *)
(* that move them.                                                         *)
(***************************************************************************)
NamePalette ==
  { << "lib", "a", "camel" >>, << "", "a", "camel" >>, << "lib", "a", "kebab" >>, << "", "a", "kebab" >>, << "", "b", "camel" >>,
    << "", "print", "kebab" >>, << "", "a", "kebabResult" >> }
PatternPalette ==
  [none |-> << >>, snake |-> << [pattern |-> [prefix |-> "lib", any |-> TRUE], replacement |-> [lit |-> "x", group |-> 1, style |-> "snake"]] >>,
   broken |-> << [pattern |-> [prefix |-> "lib", any |-> TRUE], replacement |-> [lit |-> "", group |-> 2, style |-> ""]] >>]
NameJobs ==
  { j \in [what : {"name"}, f : NamePalette, g : NamePalette, s : NamePalette, strip : {"", "lib"}, pattern : DOMAIN PatternPalette,
           rename : BOOLEAN, drop : {"none", "exclude", "deprecated", "variadic"}] : j.f # j.g /\ j.s \notin {j.f, j.g} }
NameHeader(j) ==
  Header([f |-> FunctionDecl(j.f, CxType("void"), << [name |-> C("x"), type |-> CxPointer(Basic("int"))] >>),
          g |-> [FunctionDecl(j.g, Basic("int"), << [name |-> C("x"), type |-> CxPointer(CxDecl("record", "s"))] >>)
                 EXCEPT !.deprecated = j.drop = "deprecated", !.variadic = j.drop = "variadic"],
          s |-> RecordDecl(j.s, << FieldDecl(C("a"), Basic("int")) >>)], << "f", "g", "s" >>)
NameConfig(j) ==
  [Plain EXCEPT !.strip = [k \in Kinds |-> j.strip], !.patterns["func"] = PatternPalette[j.pattern],
                !.renames["type"] = IF j.rename THEN << [from |-> j.s, to |-> << "", "S", "kebab" >>] >> ELSE << >>,
                !.excluded["func"] = IF j.drop = "exclude" THEN << j.g >> ELSE << >>, !.skip_deprecated = j.drop = "deprecated",
                !.outparams = << [kind |-> "construct", func |-> << "", "a", "kebab" >>, at |-> << 1 >>] >>,
                !.pin = << [c |-> Tag("T"), b3 |-> Prim("i16"), spelling |-> ""] >>]

HeaderOf(j) ==
  CASE j.what = "record" -> RecordHeader(j) [] j.what = "function" -> FunctionHeader(j)
    [] j.what = "constant" -> ConstantHeader(j) [] j.what = "name" -> NameHeader(j)
ConfigOf(j) ==
  CASE j.what = "record" -> RecordConfig(j) [] j.what = "function" -> FunctionConfig(j)
    [] j.what = "constant" -> ConstantConfig(j) [] j.what = "name" -> NameConfig(j)
Translating(j) == j.what \in {"record", "function", "constant", "name"}
TranslateHeaders ==
  /\ Translating(job) /\ answer = None
  /\ answer' = cmd_translate(ConfigOf(job), HeaderOf(job))
  /\ UNCHANGED << job, osvars >>
Done3(j) == Translating(j) /\ answer # None

\* A package that was written without complaint declares every type it
\* mentions, and no name twice, so that it compiles; and its structs have the
\* size, the alignment and the offsets of the C records they stand for, as the
\* compiler lays them out, whatever the configuration maps or hides
\* (is_resolvable_named, try_register_name, verify_record_layouts and
\* emit_record of emit.c).  A constant of the header has its value in the
\* package, in a type that can hold it, also at the limits of the types
\* (plain_val_type and group_member_value).  A typedef of a type that only
\* another header declares is written unlooked at; such headers are left out.
MirrorsTheHeader ==
  Done3(job) => /\ Keeps(HeaderOf(job), answer.out)
                /\ (answer.exit = 0 /\ ~answer.warned => IsClosed(answer.out) /\ Mirrors(HeaderOf(job), answer.out))

OwnNames == { Local("out"), Local("status"), Local("buf"), Local("arena") }
Captures(j) ==
  /\ ConfigOf(j).outparams # << >>
  /\ \E id \in {"f", "g"} \cap DOMAIN HeaderOf(j).decl : \E p \in Range(HeaderOf(j).decl[id].params) : p.name \in OwnNames
HidesRecord(j) == ConfigOf(j).opaque # << >>
\* Calling a translated function calls C's with every argument in its place,
\* a struct by value only through the bridge, and gives back what the rule of
\* the configuration says (emit_function and the wrappers).  Left out are
\* parameters with the names the wrappers of out-parameters use for themselves
\* and parameters of a record the configuration made opaque.
CallsReachC ==
  Done3(job) => (answer.exit = 0 /\ ~Captures(job) /\ ~HidesRecord(job) => Reaches(ConfigOf(job), HeaderOf(job), answer))

(***************************************************************************)
(* Configurations: a form of the file and the calls a script makes for the *)
(* same.                                                                   *)
(***************************************************************************)
Atom(v) == [k |-> "atom", v |-> v]
Number(v) == [k |-> "number", v |-> v]
String(v) == [k |-> "string", v |-> v]
Vector(nodes) == [k |-> "vector", v |-> nodes]
List(nodes) == [k |-> "list", v |-> nodes]
Form(op, of, args) == [op |-> op, of |-> of, args |-> args]
Call(fn, of, args) == [fn |-> fn, of |-> of, args |-> args]
Entry(form, made) == [form |-> form, calls |-> made]
Member == [prefix |-> "M_", any |-> TRUE]
Template == [lit |-> "x", group |-> 1, style |-> "snake"]
Entries0 ==
  { Entry(Form("package", "", << Atom("p") >>), << Call("set-package", "", << "p" >>) >>),
    Entry(Form("headers", "", << Vector(<< String("a.h"), String("b.h") >>) >>), << Call("add-header", "", << "a.h" >>), Call("add-header", "", << "b.h" >>) >>),
    Entry(Form("ifdef", "", << Atom("linux"), Vector(<< Atom("A"), Number("1"), Atom("B"), Number("2") >>), Atom("common"), Vector(<< >>) >>),
          << Call("add-define", "", << "linux", "A", "1" >>), Call("add-define", "", << "linux", "B", "2" >>) >>),
    Entry(Form("ifdef", "", << Atom("common"), Vector(<< Atom("C"), Number("3") >>) >>), << Call("add-define", "", << "common", "C", "3" >>) >>),
    Entry(Form("type-map", "", << Vector(<< Atom("T"), Atom("i16"), Atom("W"), Atom("u8") >>) >>),
          << Call("add-type-map", "", << "T", "i16" >>), Call("add-type-map", "", << "W", "u8" >>) >>),
    Entry(Form("pin-type", "", << Vector(<< Atom("T"), Atom("i16"), Atom("W"), Atom("u8"), String("struct W") >>) >>),
          << Call("add-pin-type", "", << "T", "i16", "" >>), Call("add-pin-type", "", << "W", "u8", "struct W" >>) >>),
    Entry(Form("group", "enum", << Atom("G"), Vector(<< Atom("A"), Atom("B") >>) >>),
          << Call("add-group-member", "enum", << "G", "A" >>), Call("add-group-member", "enum", << "G", "B" >>) >>),
    Entry(Form("group", "flags", << Atom("G"), List(<< Atom("match"), String(Member) >>) >>), << Call("set-group-pattern", "flags", << "G", Member >>) >>),
    Entry(Form("force-opaque", "", << Vector(<< Atom("R"), Atom("S") >>) >>), << Call("add-force-opaque", "", << "R" >>), Call("add-force-opaque", "", << "S" >>) >>),
    Entry(Form("outparam", "construct", << Atom("f"), Vector(<< Atom("param"), Number(2) >>) >>), << Call("add-outparam", "construct", << "f", 2 >>) >>),
    Entry(Form("outparam", "arena", << Atom("f"), Vector(<< Atom("out-param"), Number(2), Atom("count-param"), Number(1) >>) >>),
          << Call("add-outparam", "arena", << "f", 1, 2 >>) >>),
    Entry(Form("rename", "func", << Atom("f"), Atom("g") >>), << Call("add-rename", "func", << "f", "g" >>) >>),
    Entry(Form("rename", "type", << Vector(<< Atom("A"), Atom("B"), Atom("C"), Atom("D") >>) >>),
          << Call("add-rename", "type", << "A", "B" >>), Call("add-rename", "type", << "C", "D" >>) >>),
    Entry(Form("rename-pattern", "const", << String(Member), String(Template) >>), << Call("add-rename-pattern", "const", << Member, Template >>) >>),
    Entry(Form("strip-prefix", "func", << String("lib") >>), << Call("set-strip-prefix", "func", << "lib" >>) >>),
    Entry(Form("skip-deprecated", "", << >>), << Call("set-skip-deprecated", "", << >>) >>),
    Entry(Form("exclude", "const", << Vector(<< Atom("A"), Atom("B") >>) >>), << Call("add-exclude", "const", << "A" >>), Call("add-exclude", "const", << "B" >>) >>) }
Malformed ==
  { Form("package", "", << String("p") >>), Form("headers", "", << Vector(<< Atom("a") >>) >>), Form("ifdef", "", << Atom("linux") >>),
    Form("ifdef", "", << Atom("linux"), Vector(<< Atom("A") >>) >>), Form("strip-prefix", "func", << Atom("lib") >>),
    Form("type-map", "", << Vector(<< Atom("T") >>) >>), Form("pin-type", "", << Vector(<< Atom("T"), String("x") >>) >>),
    Form("pin-type", "", << Vector(<< Atom("T"), Atom("i16"), String("x"), String("y") >>) >>),
    Form("group", "enum", << Atom("G") >>), Form("group", "enum", << Atom("G"), List(<< Atom("mach"), String(Member) >>) >>),
    Form("force-opaque", "", << >>), Form("outparam", "arena", << Atom("f"), Vector(<< Atom("out-param"), Number(2) >>) >>),
    Form("outparam", "mutate", << Atom("f"), Vector(<< Atom("param"), Atom("two") >>) >>),
    Form("rename", "func", << Atom("f") >>), Form("rename", "type", << Vector(<< Atom("A") >>) >>),
    Form("rename-pattern", "type", << String(Member), Atom("x") >>), Form("exclude", "func", << Atom("f") >>), Form("incldue", "", << >>) }
ConfigJobs ==
  [what : {"config"}, entries : UNION { [1 .. n -> Entries0] : n \in 1 .. 2 }, malformed : { << >> } \cup { << f >> : f \in Malformed }]
FormsOf(j) == [i \in DOMAIN j.entries |-> j.entries[i].form] \o j.malformed
CallsOf(j) == FlattenSeq([i \in DOMAIN j.entries |-> j.entries[i].calls])
Configure ==
  /\ job.what = "config" /\ answer = None
  /\ answer' = [file |-> config_read(FormsOf(job)), script |-> load_config_script(CallsOf(job))]
  /\ UNCHANGED << job, osvars >>
MCTexts == { << >>, << "a" >>, << "a", "\r", "\n" >>, << "\n", "b" >> }
MCOffsets == {-1, 0, 1}
MCListings == { << >>, << ".", "x", "..", "y", "z" >> }
\* A group, or the definitions of a platform, spread over two forms are two entries of a file's configuration and one of a script's.
Spread(j) == Len(j.entries) = 2 /\ j.entries[1].form.op = j.entries[2].form.op /\ j.entries[1].form.op \in {"group", "ifdef"}
Effective(c) == [c EXCEPT !.defines = [p \in {"linux", "windows"} |-> push_active_defines(c, p)]]
\* The two ways to configure a translation agree: what the forms of a file say
\* is what the calls of a script say, definitions reaching clang in the same
\* order, and a file with a malformed form is refused (config.c against
\* bcconfigprims.c).
ConfigsAgree ==
  job.what = "config" /\ answer # None =>
    IF job.malformed # << >> THEN ~answer.file.ok
    ELSE Spread(job) \/ Effective(answer.file) = Effective(answer.script)

(***************************************************************************)
(* Texts on their way to the editor and to the shell.                      *)
(***************************************************************************)
ShortTexts(symbols, n) == UNION { [1 .. l -> symbols] : l \in 0 .. n }
JsonStrings == ShortTexts({"a", "\"", "\\", "\n", "SOH", "/"}, 2)
JsonLeaves == { JsonValue(k) : k \in {"null", "true", "false"} } \cup { json_new_number(n) : n \in {-10, 0, 7, 42} }
              \cup { json_new_string(s) : s \in JsonStrings }
JsonPairs == { json_array_push(json_array_push(JsonValue("array"), v), json_new_number(7)) : v \in JsonLeaves }
             \cup { json_obj_set(json_obj_set(JsonValue("object"), << "a" >>, JsonValue("null")), s, v) : s \in JsonStrings, v \in JsonLeaves }
JsonNested == { json_array_push(JsonValue("array"), v) : v \in JsonPairs } \cup { JsonValue("array"), JsonValue("object") }
JsonDeeper == { json_obj_set(JsonValue("object"), << "a" >>, json_array_push(JsonValue("array"), v)) : v \in JsonPairs }
MessageJobs == [what : {"message"}, v : JsonLeaves \cup JsonPairs \cup JsonNested \cup JsonDeeper, next : { JsonValue("null"), json_new_string(<< "\"" >>) }]
RECURSIVE DepthOf(_)
DepthOf(v) == IF v.k \notin {"array", "object"} THEN 0 ELSE 1 + FoldSet(LAMBDA d, m : IF d > m THEN d ELSE m, 0, { DepthOf(v.items[i]) : i \in DOMAIN v.items })
Second(first) == IF first.ok THEN read_message(first.wire) ELSE NoMessage
Arrived(first, second) ==
  [ok |-> first.ok /\ second.ok, left |-> second.wire, first |-> json_parse(first.body), second |-> json_parse(second.body)]
Exchange ==
  /\ job.what = "message" /\ answer = None
  /\ LET first == read_message(send_message(send_message(<< >>, job.v), job.next)) IN answer' = Arrived(first, Second(first))
  /\ UNCHANGED << job, osvars >>

BufferJobs == [what : {"buffer"}, text : ShortTexts({"(", ")", "[", "\"", ";", "\n", "a", "\\"}, 4)]
PathJobs == [what : {"path"}, path : ShortTexts({"/", "a", " ", "%", "#", "2", "0"}, 4)]
LookAtBuffer ==
  /\ job.what = "buffer" /\ answer = None
  /\ answer' = [patched |-> [o \in 0 .. Len(job.text) |-> patch_unclosed_delimiters(job.text, o)],
                at |-> [o \in 0 .. Len(job.text) |-> line_col_from_offset(job.text, o)]]
  /\ UNCHANGED << job, osvars >>
ThereAndBack ==
  /\ job.what = "path" /\ answer = None
  /\ answer' = [path |-> uri_to_path(path_to_uri(job.path))]
  /\ UNCHANGED << job, osvars >>
WordJobs == [what : {"words"}, text : ShortTexts({"a", " ", "'", "\"", "\\"}, 5)]
SplitFlags ==
  /\ job.what = "words" /\ answer = None
  /\ answer' = [flags |-> pkg_config_split_flags(job.text), argv |-> ShWords(CommandLine(pkg_config_split_flags(job.text)))]
  /\ UNCHANGED << job, osvars >>

IsPlainFlags(text) ==
  /\ ShReads(text).quote = "" /\ ~ShReads(text).escaped
  /\ \A i \in DOMAIN text : text[i] = "\\" => i < Len(text) /\ text[i + 1] \in {"\"", "\\"}
Closings(n) == ShortTexts({")", "]"}, n)
Completable(text) == \E c \in Closings(Len(text)) : ~parse_program(text \o c).had_error
Shallow(text) == Cardinality({ i \in DOMAIN text : text[i] \in Openers }) <= DelimStack
PlaceAgrees(text, o, at) ==
  /\ line_character_to_offset(text, at.line - 1, at.col - 1) = o
  /\ LET p == extract_prefix(text, at.line - 1, at.col - 1)
     IN  /\ p = SubSeq(text, o - Len(p) + 1, o) /\ \A i \in DOMAIN p : ~is_delim_char(p[i])
         /\ o = Len(p) \/ is_delim_char(text[o - Len(p)])
BufferAgrees(text, a) ==
  /\ \A o \in 0 .. Len(text) :
       /\ PlaceAgrees(text, o, a.at[o])
       /\ Shallow(SubSeq(text, 1, o)) /\ Completable(SubSeq(text, 1, o)) => ~parse_program(a.patched[o]).had_error
  /\ end_position(text) = [line |-> a.at[Len(text)].line - 1, character |-> a.at[Len(text)].col - 1]

(***************************************************************************)
(* A package with its names at known places.  The file a.3b has a type, a  *)
(* val or a function on each of its first lines and, from line 20 on, the  *)
(* body of f, one atom to a line.  Each written name carries in means the  *)
(* token of the declaration it stands for, found by the rules of scope.    *)
(***************************************************************************)
Q == INSTANCE Queries
Tok(l, c, n) == [file |-> "a.3b", line |-> l, col |-> c, size |-> n]
I32 == Q!Type("i32")
Source(form, name, value, args, hops) == [form |-> form, name |-> name, value |-> value, args |-> args, hops |-> hops]
Name(n) == Source("name", n, 0, << >>, << >>)
Num(v) == Source("num", "", v, << >>, << >>)
Op(o, a, b) == Source("op", o, 0, << a, b >>, << >>)
Let(n, i, b) == Source("let", n, 0, << i, b >>, << >>)
Dot(b, path) == Source("dot", "", 0, << Name(b) >>, path)
At(f, t, head, means) == [f EXCEPT !.hops = << >>] @@ [token |-> t, head |-> head, means |-> means]
Fld(n, t, type, anon) == [name |-> n, token |-> t, type |-> type, anon |-> anon]
Par(n, type) == [name |-> n, type |-> type]
Dcl(kind, n, t, type, body, params, fields) ==
  [kind |-> kind, name |-> n, token |-> t, type |-> type, imported |-> FALSE, body |-> body, params |-> params, fields |-> fields]
\* (val b (+ a 1)) takes its value from a, and (val d (/ 1 0)) has none.
InitOfA == At(Num(3), Tok(10, 8, 1), Q!NoToken, Q!NoToken)
InitOfB == [At(Source("op", "+", 0, << >>, << >>), Tok(11, 8, 1), Q!NoToken, Q!NoToken)
              EXCEPT !.args = << At(Name("a"), Tok(11, 11, 1), Q!NoToken, Tok(10, 1, 1)), At(Num(1), Tok(11, 13, 1), Q!NoToken, Q!NoToken) >>]
InitOfD == [At(Source("op", "/", 0, << >>, << >>), Tok(12, 8, 1), Q!NoToken, Q!NoToken)
              EXCEPT !.args = << At(Num(1), Tok(12, 11, 1), Q!NoToken, Q!NoToken), At(Num(0), Tok(12, 13, 1), Q!NoToken, Q!NoToken) >>]
TopLevel(body) ==
  << [Dcl("ConstDecl", "far", [Tok(1, 1, 1) EXCEPT !.file = "lib.3b"], I32, << >>, << >>, << >>) EXCEPT !.imported = TRUE],
     Dcl("StructDecl", "T", Tok(2, 1, 1), Q!Type("T"), << >>, << >>, << Fld("x", Tok(2, 12, 1), I32, FALSE), Fld("y", Tok(3, 3, 1), I32, FALSE) >>),
     Dcl("StructDecl", "U", Tok(4, 1, 1), Q!Type("U"), << >>, << >>, << Fld("y", Tok(4, 12, 1), I32, FALSE) >>),
     Dcl("StructDecl", "S", Tok(6, 1, 1), Q!Type("S"), << >>, << >>,
         << Fld("_", Tok(6, 12, 1), Q!Type("U"), TRUE), Fld("x", Tok(6, 16, 1), I32, FALSE), Fld("t", Tok(8, 3, 1), Q!Type("T"), FALSE) >>),
     Dcl("EnumDecl", "E", Tok(9, 1, 1), Q!Type("E"), << >>, << >>, << >>),
     Dcl("ConstDecl", "a", Tok(10, 1, 1), I32, << InitOfA >>, << >>, << >>),
     Dcl("ConstDecl", "b", Tok(11, 1, 1), I32, << InitOfB >>, << >>, << >>),
     Dcl("ConstDecl", "d", Tok(12, 1, 1), I32, << InitOfD >>, << >>, << >>),
     Dcl("VarDecl", "v", Tok(13, 1, 1), I32, << >>, << >>, << >>),
     Dcl("FunctionDecl", "g", Tok(15, 1, 1), I32, << >>, << Par("k", Q!Type("E")) >>, << >>),
     Dcl("FunctionDecl", "f", Tok(16, 1, 1), I32, << body >>,
         << Par("p", Q!Type("S")), Par("q", Q!Pointer("S")), Par("m", Q!Type("Map")), Par("k", I32) >>, << >>) >>
Package(body) ==
  [root |-> TopLevel(body), lines |-> [n \in {"a.3b"} |-> {1, 5, 7, 14}] @@ [n \in {"lib.3b"} |-> {}],
   annotations |-> << [token |-> Tok(15, 10, 1), type |-> Q!Type("E")], [token |-> Tok(16, 10, 1), type |-> Q!Type("S")],
                      [token |-> Tok(16, 14, 2), type |-> Q!Pointer("S")], [token |-> Tok(16, 20, 3), type |-> I32] >>]
DeclToken == [T |-> Tok(2, 1, 1), U |-> Tok(4, 1, 1), S |-> Tok(6, 1, 1), E |-> Tok(9, 1, 1), g |-> Tok(15, 1, 1), f |-> Tok(16, 1, 1), println |-> Q!NoToken]
OuterScope ==
  [a |-> Tok(10, 1, 1), b |-> Tok(11, 1, 1), d |-> Tok(12, 1, 1), v |-> Tok(13, 1, 1), far |-> [Tok(1, 1, 1) EXCEPT !.file = "lib.3b"],
   p |-> Tok(16, 1, 1), q |-> Tok(16, 1, 1), m |-> Tok(16, 1, 1), k |-> Tok(16, 1, 1)]
FieldAt(path) ==
  CASE path = << "x" >> -> Tok(6, 16, 1) [] path = << "y" >> -> Tok(4, 12, 1) [] path = << "t" >> -> Tok(8, 3, 1)
    [] path = << "t", "x" >> -> Tok(2, 12, 1) [] path = << "t", "y" >> -> Tok(3, 3, 1)

\* The form with a line for each of its atoms from l on, and the next free line.
RECURSIVE Lay(_, _, _), LayAll(_, _, _, _)
LayAll(args, l, env, done) ==
  IF args = << >> THEN [args |-> done, next |-> l]
  ELSE LET a == Lay(args[1], l, env) IN LayAll(Tail(args), a.next, env, Append(done, a.f))
LaidHops(f, l, env) ==
  [i \in DOMAIN f.hops |-> At(Name(f.hops[i]), Tok(l + i - 1, 2, 2), Q!NoToken,
                              IF f.args[1].name = "m" THEN env[f.hops[i]] ELSE FieldAt(SubSeq(f.hops, 1, i)))]
LayLet(f, l, i, b) == [f |-> [At(f, Tok(l, 1, 1), Q!NoToken, Q!NoToken) EXCEPT !.args = << i.f, b.f >>], next |-> b.next]
Lay(f, l, env) ==
  CASE f.form = "name" -> [f |-> At(f, Tok(l, 2, 3), Q!NoToken, IF f.name \in DOMAIN env THEN env[f.name] ELSE Q!NoToken), next |-> l + 1]
    [] f.form = "num"  -> [f |-> At(f, Tok(l, 2, 1), Q!NoToken, Q!NoToken), next |-> l + 1]
    [] f.form = "enum" -> [f |-> At(f, Tok(l, 2, 3), Q!NoToken, DeclToken[f.name]), next |-> l + 1]
    [] f.form \in {"op", "call", "make"} ->
         LET a == LayAll(f.args, l + 1, env, << >>)
         IN [f |-> [At(f, Tok(l, 1, 1), Tok(l, 2, 2), IF f.form = "op" THEN Q!NoToken ELSE DeclToken[f.name]) EXCEPT !.args = a.args], next |-> a.next]
    [] f.form = "let" ->
         LET i == Lay(f.args[1], l + 1, env) IN LayLet(f, l, i, Lay(f.args[2], i.next, (f.name :> Tok(l, 1, 1)) @@ env))
    [] f.form = "dot" ->
         LET b == Lay(f.args[1], l + 1, env)
         IN [f |-> [At(f, Tok(l, 1, 1), Q!NoToken, Q!NoToken) EXCEPT !.args = << b.f >>, !.hops = LaidHops(f, b.next, env)], next |-> b.next + Len(f.hops)]

Simple == {Num(2), Name("a"), Name("b"), Name("d"), Name("v"), Name("k"), Name("g"), Name("far"), Source("enum", "E", 1, << >>, << >>)}
Compound ==
  {Op(o, x, y) : o \in {"+", "/"}, x \in {Num(2), Name("a")}, y \in Simple \cup {Num(0)}}
  \cup {Source("call", n, 0, << x >>, << >>) : n \in {"g", "println"}, x \in Simple} \cup {Source("make", "T", 0, << Num(1), x >>, << >>) : x \in Simple}
  \cup {Dot(n, path) : n \in {"p", "q"}, path \in {<< "x" >>, << "y" >>, << "t", "x" >>, << "t", "y" >>}} \cup {Dot("m", << n >>) : n \in {"a", "k"}}
Shadowing == {<< n, b >> : n \in {"a", "k", "x"}, b \in Simple} \cup {<< n, Name("x") >> : n \in {"x"}}
             \cup {<< n, Op("+", Name(n), Name("k")) >> : n \in {"a", "k", "x"}}
Bodies == Compound \cup {Let(s[1], i, s[2]) : i \in {Num(5), Name("a"), Name("k")}, s \in Shadowing}
          \cup {Let("x", Num(5), Let(n, Name("x"), b)) : n \in {"x", "a"}, b \in {Name("x"), Name("a"), Dot("p", << "x" >>), Dot("m", << "x" >>)}}
QueryJobs == {[what |-> "query", body |-> f] : f \in Bodies}

\* Every name and number of a laid form with the form it belongs to.
RECURSIVE Atoms(_)
Atoms(f) ==
  {[token |-> IF f.form \in {"call", "make"} THEN f.head ELSE f.token, f |-> f]} \cup UNION {Atoms(f.args[i]) : i \in DOMAIN f.args}
  \cup {[token |-> f.hops[i].token, f |-> [f.hops[i] EXCEPT !.form = IF f.args[1].name = "m" THEN "key" ELSE "hop"]] : i \in DOMAIN f.hops}
Start(t) == [file |-> t.file, line |-> t.line, col |-> t.col]
End(t) == [Start(t) EXCEPT !.col = @ + t.size]
LastOf(t) == [Start(t) EXCEPT !.col = @ + t.size - 1]
AnswersAt(pb, w, body) ==
  [w |-> w, definition |-> Q!lib3b_definition(pb, Start(w.token)), last |-> Q!lib3b_definition(pb, LastOf(w.token)),
   hover |-> Q!lib3b_hover(pb, Start(w.token)), offered |-> Q!collect_scope_locals(Q!Compiled(Package(body), End(w.token)))]
TypeNames == {[token |-> t, f |-> [form |-> "type", means |-> m, args |-> << >>, hops |-> << >>, token |-> t]] :
                << t, m >> \in {<< Tok(15, 10, 1), DeclToken.E >>, << Tok(16, 10, 1), DeclToken.S >>, << Tok(16, 14, 2), DeclToken.S >>, << Tok(16, 20, 3), Q!NoToken >>}}
Answers(pb, body) == {AnswersAt(pb, w, body) : w \in Atoms(body) \cup TypeNames}
AskAbout ==
  /\ job.what = "query" /\ answer = None
  /\ LET body == Lay(job.body, 20, OuterScope).f IN answer' = [queries |-> Answers(Q!Compiled(Package(body), Q!Nowhere), body)]
  /\ UNCHANGED << job, osvars >>

\* The value of a laid form that is made of numbers and vals, << >> for any other.
RECURSIVE ValueOf(_)
ValueOf(f) ==
  CASE f.form \in {"num", "enum"} -> << f.value >>
    [] f.form = "op" -> LET l == ValueOf(f.args[1]) r == ValueOf(f.args[2])
                        IN IF l = << >> \/ r = << >> THEN << >> ELSE IF f.name = "+" THEN << l[1] + r[1] >>
                           ELSE IF r[1] = 0 THEN << >> ELSE << l[1] \div r[1] >>
    [] f.form \in {"name", "key"} -> IF f.means = Tok(10, 1, 1) THEN ValueOf(InitOfA) ELSE IF f.means = Tok(11, 1, 1) THEN ValueOf(InitOfB) ELSE << >>
    [] OTHER -> << >>
\* The form names a val that takes its value from another or has none.
Unsettled(f) == \E w \in Atoms(f) : w.f.form \in {"name", "key"} /\ w.f.means \in {Tok(11, 1, 1), Tok(12, 1, 1)}
\* The body with another name written at a token.
RECURSIVE WithName(_, _, _)
WithName(f, t, n) ==
  IF f.form = "name" /\ f.token = t THEN [f EXCEPT !.name = n] ELSE [f EXCEPT !.args = [i \in DOMAIN f.args |-> WithName(f.args[i], t, n)]]
FoundIf(body, t, n) == Q!lib3b_definition(Q!Compiled(Package(WithName(body, t, n)), Q!Nowhere), Start(t))
LocalNames == {"p", "q", "m", "k", "x"}
AnswerAgrees(a, body) ==
  /\ a.definition = a.w.f.means /\ a.last = a.definition
  /\ a.hover.decl = a.definition
  /\ a.hover.kind = "Field" => a.hover.doc \cap {<< "a.3b", 1 >>, << "a.3b", 5 >>} = {}
  /\ Unsettled(a.w.f) \/ a.hover.value = ValueOf(a.w.f)
  /\ a.w.f.form = "name" =>
       /\ \A l \in a.offered : FoundIf(body, a.w.token, l.name) = l.token
       /\ \A n \in LocalNames : FoundIf(body, a.w.token, n) # Q!NoToken => \E l \in a.offered : l.name = n
QueriesAgree(body, answers) == \A a \in answers : AnswerAgrees(a, body)

\* Text that leaves one program means the same in the next.  Two messages sent
\* one after the other are framed, escaped and read back as the values they
\* were, whatever the strings in them hold, with nothing left over; a value
\* nested deeper than the parser goes, or longer than a message may be, is
\* refused.  A path is the path its URI was made from.  A flag of pkg-config
\* reaches the compiler as the one word it was split into, which is the word
\* the shell would have made of it.  Wherever the cursor stands, the editor and
\* the compiler mean the same place by it and the name that is completed ends
\* there; and when brackets can make a program of the text before the cursor
\* (and no more are open than are remembered), the brackets that are added do.
\* Of a name under the cursor the editor is told the declaration the rules of
\* scope give it, whether it asks for the definition or for what it is; the
\* value that is shown is the value of the expression; and a name that is
\* offered for completion is, once written, found where the offer said
\* (send_message, json.c, path_to_uri and the completion of lsp_main.c; the
\* queries of lib3b.c; shell_quote and pkg_config_split_flags of build.c).
\* Left out: bytes above 127, which json.c encodes again, escapes between
\* double quotes other than of a quote or a backslash, quotes that are not
\* closed, and the values of vals that need another val or divide by zero,
\* which hover computes from a zero.
TextsArrive ==
  /\ job.what = "message" /\ answer # None =>
       IF Len(json_write(job.v)) > MaxContentLength THEN ~answer.ok
       ELSE /\ answer.ok /\ answer.left = << >> /\ answer.second = job.next
            /\ answer.first = IF DepthOf(job.v) <= JsonMaxDepth THEN job.v ELSE JsonValue("none")
  /\ job.what = "path" /\ answer # None => answer.path = job.path
  /\ job.what = "words" /\ answer # None =>
       /\ answer.argv = answer.flags
       /\ IsPlainFlags(job.text) => answer.flags = ShWords(job.text)
  /\ job.what = "buffer" /\ answer # None => BufferAgrees(job.text, answer)
  /\ job.what = "query" /\ answer # None => QueriesAgree(Lay(job.body, 20, OuterScope).f, answer.queries)

-----------------------------------------------------------------------------
JobsOf ==
  [record |-> RecordJobs, function |-> FunctionJobs, constant |-> ConstantJobs, name |-> NameJobs, config |-> ConfigJobs,
   message |-> MessageJobs, buffer |-> BufferJobs, path |-> PathJobs, words |-> WordJobs, query |-> QueryJobs]
MCInit ==
  /\ answer = None
  /\ \/ job \in UNION { JobsOf[p] : p \in Parts \cap DOMAIN JobsOf } /\ OsInit /\ native = World(Absent, << >>)
     \/ job = [what |-> "os"] /\ "os" \in Parts /\ OsInit
UseOs == job.what = "os" /\ OsNext /\ UNCHANGED << job, answer >>
MCNext == TranslateHeaders \/ Configure \/ Exchange \/ LookAtBuffer \/ ThereAndBack \/ SplitFlags \/ AskAbout \/ UseOs
MCSpec == MCInit /\ [][MCNext]_<< job, answer, osvars >>
=============================================================================
