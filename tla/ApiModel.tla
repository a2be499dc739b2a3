------------------------------ MODULE ApiModel ------------------------------
(***************************************************************************)
(* The model of an API: a system is a sequence of modules, whose symbols   *)
(* are resolved by name when the system is validated.                      *)
(***************************************************************************)
EXTENDS Integers, SequencesExt

CONSTANTS
  Nil,    \* a reference that is not there
  Text    \* names and types as documents write them

(***************************************************************************)
(* The nodes of the model.                                                 *)
(***************************************************************************)
Schema(import, type) == [import |-> import, type |-> type, array |-> FALSE, kind |-> ""]

NewTypedNode(name, readonly) ==
  [name |-> name, readonly |-> readonly, schema |-> Schema("", "void"), metas |-> {}]

NewModule(name) ==
  [name |-> name, imports |-> <<>>, externs |-> <<>>, interfaces |-> <<>>,
   structs |-> <<>>, enums |-> <<>>, metas |-> {}]

NewInterface(name, extends) ==
  [name |-> name, extends |-> extends, properties |-> <<>>, operations |-> <<>>,
   signals |-> <<>>, metas |-> {}]

NewOperation(name) == [name |-> name, params |-> <<>>, return |-> Nil, metas |-> {}]
NewSignal(name) == [name |-> name, params |-> <<>>, metas |-> {}]
NewStruct(name) == [name |-> name, fields |-> <<>>, metas |-> {}]
NewEnum(name) == [name |-> name, members |-> <<>>, metas |-> {}]
NewEnumMember(name, value) == [name |-> name, value |-> value, metas |-> {}]
NewExtern(name) == [name |-> name, metas |-> {}]

Primitives == {"bool", "int", "float", "string", "int32", "int64", "float32", "float64",
               "bytes", "any"}

(* What a schema is resolved to.                                           *)
SchemaKinds == Primitives \cup {"void", "extern", "enum", "struct", "interface", ""}

Metadata == SUBSET (Text \cup {Nil})
Schemas == [import : Text, type : Text, array : BOOLEAN, kind : SchemaKinds]
TypedNodes == [name : Text, readonly : BOOLEAN, schema : Schemas, metas : Metadata]
Externs == [name : Text, metas : Metadata]
Members == [name : Text, value : Int, metas : Metadata]
Enums == [name : Text, members : Seq(Members), metas : Metadata]
Structs == [name : Text, fields : Seq(TypedNodes), metas : Metadata]
Signals == [name : Text, params : Seq(TypedNodes), metas : Metadata]
Operations == [name : Text, params : Seq(TypedNodes), return : TypedNodes \cup {Nil},
               metas : Metadata]
Interfaces == [name : Text, extends : (Text \X Text) \cup {Nil},
               properties : Seq(TypedNodes), operations : Seq(Operations),
               signals : Seq(Signals), metas : Metadata]
Modules == [name : Text, imports : Seq(Text), externs : Seq(Externs),
            interfaces : Seq(Interfaces), structs : Seq(Structs), enums : Seq(Enums),
            metas : Metadata]

ASSUME NilAssumption ==
  /\ Nil \notin Text /\ Nil \notin Text \X Text /\ Nil \notin Int
  /\ Nil \notin Schemas /\ Nil \notin TypedNodes /\ Nil \notin Externs /\ Nil \notin Members
  /\ Nil \notin Enums /\ Nil \notin Structs /\ Nil \notin Signals /\ Nil \notin Operations
  /\ Nil \notin Interfaces /\ Nil \notin Modules

AddModule(system, m) == Append(system, m)

-----------------------------------------------------------------------------
(***************************************************************************)
(* Looking up.  A name without an import, or with the module's own name,   *)
(* is local; any other is of the first module of the system that is called *)
(* so, whether or not it has been imported.                                *)
(***************************************************************************)
Has(nodes, name) == \E i \in DOMAIN nodes : nodes[i].name = name

LookupModule(system, name) == SelectInSeq(system, LAMBDA m : m.name = name)

HomeIsHere(system, m, import) == m

Home(system, m, import) ==
  IF import = "" \/ import = m.name THEN m
  ELSE LET i == LookupModule(system, import) IN IF i = 0 THEN Nil ELSE system[i]

LookupExtern(system, m, s) ==
  LET h == Home(system, m, s.import) IN h # Nil /\ Has(h.externs, s.type)
LookupEnum(system, m, s) ==
  LET h == Home(system, m, s.import) IN h # Nil /\ Has(h.enums, s.type)
LookupStruct(system, m, s) ==
  LET h == Home(system, m, s.import) IN h # Nil /\ Has(h.structs, s.type)
LookupInterface(system, m, s) ==
  LET h == Home(system, m, s.import) IN h # Nil /\ Has(h.interfaces, s.type)

(* What a symbol is, in the order in which the kinds are tried; one that   *)
(* names nothing has no kind, and that is no error.                        *)
Symbol(system, m, s) ==
  IF LookupExtern(system, m, s) THEN "extern"
  ELSE IF LookupEnum(system, m, s) THEN "enum"
  ELSE IF LookupStruct(system, m, s) THEN "struct"
  ELSE IF LookupInterface(system, m, s) THEN "interface"
  ELSE ""

Resolve(system, m, s) ==
  CASE s.type \in {"", "void"} -> "void"
    [] s.type \in Primitives -> s.type
    [] OTHER -> Symbol(system, m, s)

-----------------------------------------------------------------------------
(***************************************************************************)
(* Validating.                                                             *)
(***************************************************************************)
Map(nodes, F(_)) == [i \in DOMAIN nodes |-> F(nodes[i])]

ValidSchema(system, m, s) ==
  [s EXCEPT !.kind = Resolve(system, m, s), !.type = IF @ = "" THEN "void" ELSE @]

ValidNode(system, m, node) ==
  [node EXCEPT !.schema = ValidSchema(system, m, @)]

ValidNodes(system, m, nodes) == Map(nodes, LAMBDA n : ValidNode(system, m, n))

(* An operation without a return type returns void.                        *)
ValidOperation(system, m, op) ==
  [op EXCEPT !.params = ValidNodes(system, m, @),
             !.return = ValidNode(system, m,
                                  IF @ = Nil THEN NewTypedNode("", FALSE) ELSE @)]

ValidSignal(system, m, signal) == [signal EXCEPT !.params = ValidNodes(system, m, @)]

ValidInterface(system, m, i) ==
  [i EXCEPT !.extends = IF @ # Nil /\ @[1] = "" THEN <<m.name, @[2]>> ELSE @,
            !.properties = ValidNodes(system, m, @),
            !.operations = Map(@, LAMBDA op : ValidOperation(system, m, op)),
            !.signals = Map(@, LAMBDA sig : ValidSignal(system, m, sig))]

ValidStruct(system, m, s) == [s EXCEPT !.fields = ValidNodes(system, m, @)]

(* Members that are all 0 are numbered.                                    *)
ValidEnum(e) ==
  IF \A i \in DOMAIN e.members : e.members[i].value = 0
    THEN [e EXCEPT !.members = [i \in DOMAIN @ |-> [@[i] EXCEPT !.value = i - 1]]]
    ELSE e

ValidModule(system, m) ==
  [m EXCEPT !.interfaces = Map(@, LAMBDA i : ValidInterface(system, m, i)),
            !.structs = Map(@, LAMBDA s : ValidStruct(system, m, s)),
            !.enums = Map(@, ValidEnum)]

Validated(system) == Map(system, LAMBDA m : ValidModule(system, m))

(* What makes Validate fail: a name that is there twice.                   *)
Distinct(nodes) ==
  \A i, j \in DOMAIN nodes : nodes[i].name = nodes[j].name => i = j

InterfaceIsValid(i) == Distinct(i.properties \o i.operations \o i.signals)
StructIsValid(s) == Distinct(s.fields)
EnumIsValid(e) == Distinct(e.members)

ModuleIsValid(m) ==
  /\ Distinct(m.externs \o m.interfaces \o m.structs \o m.enums)
  /\ \A i \in DOMAIN m.interfaces : InterfaceIsValid(m.interfaces[i])
  /\ \A i \in DOMAIN m.structs : StructIsValid(m.structs[i])
  /\ \A i \in DOMAIN m.enums : EnumIsValid(m.enums[i])

SystemIsValid(system) ==
  /\ \A i \in DOMAIN system : ModuleIsValid(system[i])
  /\ Distinct(system)
=============================================================================
