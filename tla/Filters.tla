------------------------------- MODULE Filters -------------------------------
(***************************************************************************)
(* The template filters that write a type in a target language.  What one  *)
(* writes is abstracted to whom its text names:                            *)
(*   "plain"   no declaration: a type or a value of the language           *)
(*   "local"   the declaration of that name the template is generating,    *)
(*             with the prefix the template passes                         *)
(*   "import"  the declaration in the module the schema names              *)
(*   "extern"  what the extern's own metadata says                         *)
(*   "" and "hollow"  nothing, and a container of nothing                  *)
(*   "error"   the filter fails or panics, and the template with it        *)
(*                                                                         *)
(* A filter sees of a schema a view v, a record with                       *)
(*   kind      what the validation resolved the schema to, or ""           *)
(*   local     the kind of the module's own declaration of that name       *)
(*   array, imported                                                       *)
(*   hollow    the enum it was resolved to has no members                  *)
(*   hollowLocal  so has the module's own enum of that name                *)
(***************************************************************************)
Basic == {"string", "int", "int32", "int64", "float", "float32", "float64", "bool"}
Declarations == {"enum", "struct", "interface"}
Symbols == Declarations \cup {"extern"}
Kinds == Basic \cup Symbols \cup {"bytes", "any", "void", ""}

(* A declaration is not called like a type of the language; a name without *)
(* an import is the module's own.                                          *)
Views ==
  {v \in [kind : Kinds, local : Symbols \cup {""}, array : BOOLEAN, imported : BOOLEAN,
          hollow : BOOLEAN, hollowLocal : BOOLEAN] :
     /\ v.local # "" => v.kind \in Symbols \cup {""}
     /\ ~ v.imported => (v.kind \in Symbols \cup {""} => v.local = v.kind)
                         /\ v.hollow = v.hollowLocal}

Texts == {"plain", "local", "import", "extern"}

Wrap(v, text) == IF v.array /\ text = "" THEN "hollow" ELSE text

(* Prefixed with the import if there is one, else with the template's.     *)
Qualified(v) == IF v.imported THEN "import" ELSE "local"

(* Prefixed with the template's if the module has such a name itself.      *)
LocalFirst(v) == IF v.local = v.kind THEN "local" ELSE "import"

(* e.Members[0] panics.                                                    *)
NoMember(v) == v.kind = "enum" /\ v.hollow

-----------------------------------------------------------------------------
(* C++: a kind it does not know is written as nothing.                     *)
CppReturn(v) ==
  Wrap(v, CASE v.kind \in Basic \cup {"void"} -> "plain"
            [] v.kind = "extern" -> "extern"
            [] v.kind \in Declarations -> Qualified(v)
            [] OTHER -> "")

CppDefault(v) ==
  CASE NoMember(v) -> "error"
    [] ~ NoMember(v) /\ v.array -> CppReturn(v)
    [] ~ NoMember(v) /\ ~ v.array /\ v.kind = "interface" -> "plain"
    [] OTHER -> CppReturn(v)

CppParam(v) ==
  CASE v.array -> CppReturn(v)
    [] ~ v.array /\ v.kind \in Basic -> "plain"
    [] ~ v.array /\ v.kind = "extern" -> "extern"
    [] ~ v.array /\ v.kind \in Declarations -> Qualified(v)
    [] OTHER -> "error"

CppTestValue(v) ==
  CASE v.kind \in Basic -> "plain"
    [] v.kind = "void" -> CppDefault(v)
    [] v.kind = "extern" -> "extern"
    [] v.kind \in Declarations /\ ~ NoMember(v) -> LocalFirst(v)
    [] OTHER -> "error"

CppTypeRef(v) ==
  CASE v.array -> CppReturn(v)
    [] ~ v.array /\ v.kind \in Basic \cup {"void"} -> "plain"
    [] ~ v.array /\ v.kind = "extern" -> "extern"
    [] ~ v.array /\ v.kind \in Declarations -> Qualified(v)
    [] OTHER -> ""

-----------------------------------------------------------------------------
(* Go, the only one that knows bytes and any.                              *)
GoReturnForgetsImport(v) ==
  Wrap(v, CASE v.kind \in Basic \cup {"bytes", "any"} -> "plain"
            [] v.kind = "extern" -> "extern"
            [] v.kind \in Declarations -> "local"
            [] v.kind = "void" -> ""
            [] OTHER -> "error")

GoReturn(v) ==
  Wrap(v, CASE v.kind \in Basic \cup {"bytes", "any"} -> "plain"
            [] v.kind = "extern" -> "extern"
            [] v.kind \in Declarations -> Qualified(v)
            [] v.kind = "void" -> ""
            [] OTHER -> "error")

GoDefault(v) ==
  CASE v.kind \in Basic \cup {"bytes", "any"} -> "plain"
    [] v.kind = "extern" -> "extern"
    [] v.kind = "interface" /\ ~ v.array -> "plain"
    [] v.kind \in Declarations /\ (v.array \/ (v.kind # "interface" /\ ~ NoMember(v)))
         -> Qualified(v)
    [] v.kind = "void" /\ ~ v.array -> ""
    [] OTHER -> "error"

GoParam(v) ==
  CASE v.array -> GoReturn(v)
    [] ~ v.array /\ v.kind \in Basic \cup {"bytes", "any"} -> "plain"
    [] ~ v.array /\ v.kind = "extern" -> "extern"
    [] ~ v.array /\ v.kind \in Declarations -> Qualified(v)
    [] OTHER -> "error"

-----------------------------------------------------------------------------
(* Java writes names as they are, wherever they are declared.              *)
JavaElementType(v) ==
  CASE v.kind \in Basic -> "plain"
    [] v.kind = "extern" -> "extern"
    [] v.kind \in Declarations -> "local"
    [] OTHER -> "error"

JavaReturn(v) ==
  CASE v.kind \in Basic \cup {"void"} -> "plain"
    [] v.kind = "extern" -> "extern"
    [] v.kind \in Declarations -> "local"
    [] OTHER -> "error"

JavaAsyncReturn(v) ==
  CASE v.kind \in Basic \cup {"void"} -> "plain"
    [] v.kind = "extern" -> "extern"
    [] v.kind \in Declarations -> "local"
    [] OTHER -> "error"

JavaDefault(v) ==
  CASE v.kind \in Basic -> "plain"
    [] v.kind = "extern" -> "extern"
    [] v.kind \in Declarations /\ (v.array \/ ~ NoMember(v)) -> "local"
    [] OTHER -> "error"

JavaParam(v) ==
  CASE v.array -> JavaReturn(v)
    [] ~ v.array /\ v.kind \in Basic -> "plain"
    [] ~ v.array /\ v.kind = "extern" -> "extern"
    [] ~ v.array /\ v.kind \in Declarations -> "local"
    [] OTHER -> "error"

JavaTestValue(v) ==
  CASE v.kind \in Basic \cup {"extern"} -> "plain"
    [] v.kind = "void" -> ""
    [] v.kind \in Declarations /\ ~ NoMember(v) -> "local"
    [] OTHER -> "error"

(* JNI, for the same sources; it has no signature for an extern.           *)
JniToType(v) ==
  IF v.kind \in Basic \cup Symbols \cup {"void"} THEN "plain" ELSE "error"

JniEnvNameType(v) == IF v.kind \in Basic \cup Symbols THEN "plain" ELSE "error"

JniEmptyReturn(v) ==
  CASE v.kind \in Basic \cup Symbols -> "plain"
    [] v.kind = "void" -> IF v.array THEN "plain" ELSE ""
    [] OTHER -> "error"

JniSignatureType(v) ==
  CASE v.kind \in Basic \cup {"void"} -> "plain"
    [] v.kind \in Declarations -> Qualified(v)
    [] OTHER -> "error"

-----------------------------------------------------------------------------
(* JavaScript and TypeScript know no extern; JavaScript writes no types.   *)
JsReturn(v) == IF v.kind \in Basic \cup Declarations \cup {"void"} THEN "" ELSE "error"

JsDefault(v) ==
  CASE v.array -> "plain"
    [] ~ v.array /\ v.kind \in Basic \cup {"interface", "void"} -> "plain"
    [] ~ v.array /\ v.kind \in {"enum", "struct"} /\ ~ NoMember(v) -> "local"
    [] OTHER -> "error"

JsParam(v) ==
  IF v.array \/ v.kind \in Basic \cup Declarations THEN "plain" ELSE "error"

TsReturn(v) ==
  CASE v.kind \in Basic \cup {"void"} -> "plain"
    [] v.kind \in Declarations -> "local"
    [] OTHER -> "error"

TsDefault(v) ==
  CASE v.array -> "plain"
    [] ~ v.array /\ v.kind \in Basic \cup {"struct", "interface", "void"} -> "plain"
    [] ~ v.array /\ v.kind = "enum" /\ ~ NoMember(v) -> "local"
    [] OTHER -> "error"

TsParam(v) ==
  CASE v.array -> TsReturn(v)
    [] ~ v.array /\ v.kind \in Basic -> "plain"
    [] ~ v.array /\ v.kind \in Declarations -> "local"
    [] OTHER -> "error"

-----------------------------------------------------------------------------
(* Python does not look where an interface comes from.                     *)
PyReturn(v) ==
  CASE v.kind \in Basic \cup {"void"} -> "plain"
    [] v.kind = "extern" -> "extern"
    [] v.kind \in {"enum", "struct"} -> LocalFirst(v)
    [] v.kind = "interface" -> "local"
    [] OTHER -> "error"

PyDefault(v) ==
  CASE v.array -> "plain"
    [] ~ v.array /\ v.kind \in Basic \cup {"interface", "void"} -> "plain"
    [] ~ v.array /\ v.kind = "extern" -> "extern"
    [] ~ v.array /\ v.kind \in {"enum", "struct"} /\ ~ NoMember(v) -> LocalFirst(v)
    [] OTHER -> "error"

PyParam(v) ==
  CASE v.array -> PyReturn(v)
    [] ~ v.array /\ v.kind \in Basic -> "plain"
    [] ~ v.array /\ v.kind = "extern" -> "extern"
    [] ~ v.array /\ v.kind \in {"enum", "struct"} -> LocalFirst(v)
    [] ~ v.array /\ v.kind = "interface" -> "local"
    [] OTHER -> "error"

PyTestValue(v) ==
  CASE v.kind \in Basic -> "plain"
    [] v.kind = "void" -> PyDefault(v)
    [] v.kind = "extern" -> "extern"
    [] v.kind \in Declarations /\ ~ NoMember(v) -> LocalFirst(v)
    [] OTHER -> "error"

-----------------------------------------------------------------------------
(* Qt does not go by the kind: it looks for each kind of declaration in    *)
(* turn, in the module itself and then where the schema says.              *)
Finds(v, kind) == kind \in {v.local, v.kind}

QtFound(v, kind) == IF v.local = kind THEN "local" ELSE "import"

(* The last one found is written.                                          *)
QtReturn(v) ==
  Wrap(v, CASE v.kind \in Basic \cup {"void"} -> "plain"
            [] Finds(v, "interface") -> QtFound(v, "interface")
            [] Finds(v, "struct") /\ ~ Finds(v, "interface") -> QtFound(v, "struct")
            [] Finds(v, "enum") /\ ~ Finds(v, "struct") /\ ~ Finds(v, "interface")
                 -> QtFound(v, "enum")
            [] OTHER -> IF v.kind = "extern" THEN "extern" ELSE "")

QtNoMember(v) ==
  /\ Finds(v, "enum")
  /\ IF v.local = "enum" THEN v.hollowLocal ELSE v.hollow

QtDefault(v) ==
  IF QtNoMember(v) THEN "error"
  ELSE IF v.array THEN QtReturn(v)
  ELSE CASE v.kind \in Basic \cup {"void", "interface"} -> "plain"
         [] v.kind # "interface" /\ Finds(v, "struct") -> QtFound(v, "struct")
         [] v.kind # "interface" /\ Finds(v, "enum") /\ ~ Finds(v, "struct")
              -> QtFound(v, "enum")
         [] OTHER -> IF v.kind = "extern" THEN "extern" ELSE ""

(* The first one found is written.                                         *)
QtParam(v) ==
  IF v.array THEN QtReturn(v)
  ELSE CASE v.kind \in Basic -> "plain"
         [] v.kind = "extern" -> "extern"
         [] v.kind # "extern" /\ Finds(v, "enum") -> QtFound(v, "enum")
         [] v.kind # "extern" /\ Finds(v, "struct") /\ ~ Finds(v, "enum")
              -> QtFound(v, "struct")
         [] v.kind # "extern" /\ Finds(v, "interface") /\ ~ Finds(v, "enum")
              /\ ~ Finds(v, "struct") -> QtFound(v, "interface")
         [] OTHER -> "error"

QtTestValue(v) ==
  CASE v.kind \in Basic -> "plain"
    [] v.kind = "void" -> QtDefault(v)
    [] v.kind = "extern" -> "extern"
    [] v.kind \in Declarations /\ ~ NoMember(v) -> LocalFirst(v)
    [] OTHER -> "error"

-----------------------------------------------------------------------------
(* Rust writes names as they are, and has no default for an extern.        *)
RsReturn(v) ==
  Wrap(v, CASE v.kind \in Basic \cup {"void"} -> "plain"
            [] v.kind = "extern" -> "extern"
            [] v.kind \in Declarations -> "local"
            [] OTHER -> "")

RsDefault(v) ==
  IF v.array \/ v.kind \in Basic \cup Declarations \cup {"void"} THEN "plain" ELSE ""

RsParam(v) ==
  CASE v.array -> RsReturn(v)
    [] ~ v.array /\ v.kind \in Basic -> "plain"
    [] ~ v.array /\ v.kind = "extern" -> "extern"
    [] ~ v.array /\ v.kind \in Declarations -> "local"
    [] OTHER -> "error"

RsTypeRef(v) ==
  CASE v.array -> RsReturn(v)
    [] ~ v.array /\ v.kind \in Basic \cup {"void"} -> "plain"
    [] ~ v.array /\ v.kind = "extern" -> "extern"
    [] ~ v.array /\ v.kind \in Declarations -> "local"
    [] OTHER -> ""

-----------------------------------------------------------------------------
(* Unreal: every name has its module's in it.                              *)
UeReturn(v) ==
  CASE v.kind \in Basic \cup {"void"} -> "plain"
    [] v.kind = "extern" -> "extern"
    [] v.kind \in Declarations -> Qualified(v)
    [] OTHER -> "error"

UeDefault(v) ==
  CASE v.kind \in Basic -> "plain"
    [] v.kind = "extern" -> "extern"
    [] v.kind \in Declarations /\ ~ NoMember(v) -> Qualified(v)
    [] OTHER -> "error"

UeParam(v) ==
  CASE v.array -> UeReturn(v)
    [] ~ v.array /\ v.kind \in Basic -> "plain"
    [] ~ v.array /\ v.kind = "extern" -> "extern"
    [] ~ v.array /\ v.kind \in Declarations -> Qualified(v)
    [] OTHER -> "error"

UeTestValue(v) ==
  CASE v.kind \in Basic -> "plain"
    [] v.kind = "void" -> UeDefault(v)
    [] v.kind = "extern" -> "extern"
    [] v.kind \in Declarations /\ ~ NoMember(v) -> Qualified(v)
    [] OTHER -> "error"

UeType(v) ==
  CASE v.kind \in Basic -> "plain"
    [] v.kind = "void" /\ ~ v.array -> "plain"
    [] v.kind = "extern" -> "extern"
    [] v.kind \in Declarations -> Qualified(v)
    [] OTHER -> "error"

UeConstType(v) ==
  CASE v.kind \in Basic \cup {"void"} -> "plain"
    [] v.kind = "extern" -> "extern"
    [] v.kind \in Declarations -> Qualified(v)
    [] OTHER -> "error"

UeIsStdSimpleType(v) == IF v.kind \in Basic \cup Symbols THEN "plain" ELSE "error"

-----------------------------------------------------------------------------
(* What a template may count on, of any schema it is given.               *)
(*                                                                         *)
(* Whatever a language can write as a return type its other filters can    *)
(* write too, so that no template fails or leaves a gap half way: but for  *)
(* an enum without members, and for externs in Rust's defaults and in JNI. *)
NothingLeftOut(v) ==
  v.kind \notin {"void", ""} /\ ~ NoMember(v) /\ ~ QtNoMember(v) =>
    /\ CppReturn(v) \in Texts =>
         {CppDefault(v), CppParam(v), CppTestValue(v), CppTypeRef(v)} \subseteq Texts
    /\ GoReturn(v) \in Texts => {GoDefault(v), GoParam(v)} \subseteq Texts
    /\ JavaReturn(v) \in Texts =>
         {JavaAsyncReturn(v), JavaElementType(v), JavaDefault(v), JavaParam(v),
          JavaTestValue(v), JniToType(v), JniEnvNameType(v), JniEmptyReturn(v)}
           \subseteq Texts
    /\ JavaReturn(v) \in Texts /\ v.kind # "extern" => JniSignatureType(v) \in Texts
    /\ JsReturn(v) = "" => {JsDefault(v), JsParam(v)} \subseteq Texts
    /\ TsReturn(v) \in Texts => {TsDefault(v), TsParam(v)} \subseteq Texts
    /\ PyReturn(v) \in Texts => {PyDefault(v), PyParam(v), PyTestValue(v)} \subseteq Texts
    /\ QtReturn(v) \in Texts => {QtDefault(v), QtParam(v), QtTestValue(v)} \subseteq Texts
    /\ RsReturn(v) \in Texts => {RsParam(v), RsTypeRef(v)} \subseteq Texts
    /\ RsReturn(v) \in Texts /\ v.kind # "extern" => RsDefault(v) \in Texts
    /\ UeReturn(v) \in Texts =>
         {UeDefault(v), UeParam(v), UeTestValue(v), UeType(v), UeConstType(v),
          UeIsStdSimpleType(v)} \subseteq Texts

(* In the languages that say where a name comes from, all filters name the *)
(* declaration the schema was resolved to; the C++ test value, Python and  *)
(* Qt name the module's own when it has one of that name too.              *)
RightDeclaration(v) ==
  LET Right(texts) == texts \cap {"local", "import"} \subseteq {Qualified(v)}
  IN v.kind \in Declarations =>
       /\ Right({CppReturn(v), CppDefault(v), CppParam(v), CppTypeRef(v),
                 GoReturn(v), GoDefault(v), GoParam(v), JniSignatureType(v),
                 UeReturn(v), UeDefault(v), UeParam(v), UeTestValue(v), UeType(v),
                 UeConstType(v)})
       /\ ~ v.imported \/ v.local = "" =>
            /\ Right({CppTestValue(v), QtReturn(v), QtDefault(v), QtParam(v), QtTestValue(v)})
            /\ v.kind # "interface" =>
                 Right({PyReturn(v), PyDefault(v), PyParam(v), PyTestValue(v)})

(* A symbol the validation found nothing for stops the template, but for   *)
(* C++, Qt and Rust, whose return types leave it out; as a parameter it    *)
(* stops every template unless there is an array of it.                    *)
UnresolvedIsCaught(v) ==
  v.kind = "" =>
    /\ {GoReturn(v), JavaReturn(v), JniToType(v), JsReturn(v), TsReturn(v), PyReturn(v),
        UeReturn(v)} = {"error"}
    /\ v.local = "" =>
         {CppReturn(v), QtReturn(v), RsReturn(v)} = {IF v.array THEN "hollow" ELSE ""}
    /\ v.local = "" /\ ~ v.array =>
         {CppParam(v), GoParam(v), JavaParam(v), JsParam(v), TsParam(v), PyParam(v),
          QtParam(v), RsParam(v), UeParam(v)} = {"error"}
=============================================================================
