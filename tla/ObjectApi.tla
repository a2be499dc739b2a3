----------------------------- MODULE ObjectApi ------------------------------
(***************************************************************************)
(* A document in ObjectAPI's language becomes a module of the model: the   *)
(* parser makes a tree of contexts, one per rule, and ObjectApiListener is *)
(* told of each context on the way in and out and builds the module.       *)
(*                                                                         *)
(* The environment chooses the tokens.  One that does not fit is skipped,  *)
(* the one that was wanted is made up, or the rule is abandoned and its    *)
(* caller goes on after it; the tree is walked all the same.               *)
(***************************************************************************)
EXTENDS ObjectApiGrammar, ApiModel, Filters, FiniteSets

CONSTANTS
  NamesOf,    \* [rule -> set of texts]: the names documents use
  ExtendsOf,  \* the interfaces documents extend
  Values,     \* the numbers given to enum members
  IntRange,   \* the numbers an int holds
  NoNumber,   \* a number that was made up and does not parse
  Parts,      \* [text -> <<import, type>>]: strings.Split at the last dot
  Data,       \* modules in data files, loaded into the same system
  MaxOf,      \* bound: [rule -> Nat], contexts of each rule in a tree
  MaxNodes,   \* bound: contexts in a tree, [number of its declarations -> Nat]
  MaxExtras,  \* bound: optional parts and errors in a document
  MaxErrors,  \* bound: syntax errors in a document
  MaxModules  \* bound: modules in the system

MissingToken == "<missing IDENTIFIER>"

(* Documents are written in texts, and numbers are numbers; the names of   *)
(* the types are keywords, which no identifier is.                         *)
ASSUME DocumentAssumption ==
  /\ {"", "void", "tagLine", "docLine", MissingToken} \subseteq Text
  /\ NamesOf \in [DOMAIN Grammar -> SUBSET Text]
  /\ \A r \in {"extern", "enum", "struct", "interface"} :
       NamesOf[r] \cap (Primitives \cup {"void"}) = {}
  /\ \A t \in NamesOf["symbol"] \cup ExtendsOf \cup {MissingToken} : Parts[t] \in Text \X Text
  /\ Values \subseteq Int /\ IntRange \subseteq Int /\ NoNumber \notin Int /\ NoNumber # Nil
  /\ Data \subseteq Modules
  /\ MaxErrors \in Nat /\ MaxModules \in Nat \ {0}

VARIABLES
  phase,      \* "parse", "walk", "parsed", then what Validate returns, or "panicked"
  stack,      \* the rule functions running: rule, its context, its position
  tree,       \* the contexts, in the order they were entered
  errors,     \* syntax errors reported on the console
  recovering, \* in error recovery: no further report until a token matches
  rest,       \* whether input follows the document
  path,       \* the contexts the walker is in
  seen,       \* how many contexts it has entered
  o,          \* the fields of ObjectApiListener
  wrong,      \* whether one of its assertions has failed
  modules     \* System.Modules

parserVars == <<stack, tree, errors, recovering, rest>>
walkerVars == <<path, seen, o, wrong>>
vars == <<phase, parserVars, walkerVars, modules>>

Frame(rule, node) == [rule |-> rule, node |-> node, pos |-> 0]

Context(rule, parent) == [rule |-> rule, parent |-> parent, name |-> Nil, also |-> Nil]

NoFields ==
  [module |-> Nil, iface |-> Nil, extern |-> Nil, struct |-> Nil, enum |-> Nil,
   member |-> Nil, operation |-> Nil, param |-> Nil, return |-> Nil, signal |-> Nil,
   property |-> Nil, field |-> Nil, schema |-> Nil, running |-> 0]

Init ==
  /\ phase = "parse"
  /\ stack = <<Frame("document", 1)>>
  /\ tree = <<Context("document", 0)>>
  /\ errors = 0
  /\ recovering = FALSE
  /\ rest = FALSE
  /\ path = <<>>
  /\ seen = 0
  /\ o = NoFields
  /\ wrong = FALSE
  /\ modules = <<>>

-----------------------------------------------------------------------------
(***************************************************************************)
(* The parser.                                                             *)
(***************************************************************************)
Top == stack[Len(stack)]
Moves == {m \in Grammar[Top.rule].moves : m[1] = Top.pos}
MayReturn == Top.pos \in Grammar[Top.rule].returns
At(pos) == [stack EXCEPT ![Len(stack)].pos = pos]

Parsing == UNCHANGED <<phase, rest, walkerVars, modules>>

Count(rule, contexts) == Len(SelectSeq(contexts, LAMBDA x : x.rule = rule))

(* A rule function calls another.                                          *)
EnterRule(m) ==
  /\ Parsing
  /\ m[2] \in DOMAIN Grammar
  /\ Count(m[2], tree) < MaxOf[m[2]]
  /\ tree' = Append(tree, Context(m[2], Top.node))
  /\ Len(tree') <= MaxNodes[Count("declarations", tree')]
  /\ stack' = Append(At(m[3]), Frame(m[2], Len(tree) + 1))
  /\ UNCHANGED <<errors, recovering>>

(* What a labelled token may read.                                         *)
TextsOf(token) ==
  CASE token = "name" -> NamesOf[Top.rule]
    [] token = "extends" -> ExtendsOf
    [] token = "value" -> Values
    [] OTHER -> {token}

Label(token, text) ==
  CASE token = "name" -> [tree EXCEPT ![Top.node].name = text]
    [] token \in Labels \ {"name"} -> [tree EXCEPT ![Top.node].also = text]
    [] OTHER -> tree

Match(m) ==
  /\ Parsing
  /\ m[2] \notin DOMAIN Grammar
  /\ \E text \in TextsOf(m[2]) : tree' = Label(m[2], text)
  /\ stack' = At(m[3])
  /\ recovering' = FALSE
  /\ UNCHANGED errors

ReportError ==
  /\ IF recovering THEN UNCHANGED errors ELSE errors < MaxErrors /\ errors' = errors + 1
  /\ recovering' = TRUE

(* A token is wanted, by a match, a loop or a prediction, and none fits;   *)
(* where the rule may return it does so instead.                           *)
Wanting ==
  /\ ~ MayReturn
  /\ \/ Cardinality(Moves) > 1
     \/ \E m \in Moves : m[2] \notin DOMAIN Grammar

SkipToken ==
  /\ Parsing
  /\ Wanting
  /\ ReportError
  /\ UNCHANGED <<stack, tree>>

ConjureToken(m) ==
  /\ Parsing
  /\ m[2] \notin DOMAIN Grammar \cup Optional
  /\ ReportError
  /\ tree' = Label(m[2], IF m[2] = "value" THEN NoNumber ELSE MissingToken)
  /\ stack' = At(m[3])

Return ==
  /\ stack' = Front(stack)
  /\ phase' = IF Len(stack) = 1 THEN "walk" ELSE phase
  /\ UNCHANGED <<tree, rest, walkerVars, modules>>

ExitRule ==
  /\ MayReturn
  /\ Return
  /\ UNCHANGED <<errors, recovering>>

AbandonRule ==
  /\ Wanting
  /\ ReportError
  /\ Return

Extras ==
  errors + Cardinality({i \in DOMAIN tree : \/ tree[i].rule \in {"meta", "array", "import"}
                                           \/ (tree[i].rule # "meta" /\ tree[i].also # Nil)})

Parse ==
  /\ phase = "parse"
  /\ \/ \E m \in Moves : EnterRule(m) \/ Match(m) \/ ConjureToken(m)
     \/ SkipToken
     \/ ExitRule
     \/ AbandonRule
  /\ Extras' <= MaxExtras

-----------------------------------------------------------------------------
(***************************************************************************)
(* The walk.  A handler asserts that some fields are nil and others are    *)
(* not, which it only logs, and dereferences others: a nil one panics.     *)
(***************************************************************************)
Entered == path[Len(path)]

NextEnters == /\ seen < Len(tree)
              /\ tree[seen + 1].parent = IF path = <<>> THEN 0 ELSE Entered

(* parseMeta: the comments and tags in front of a declaration.             *)
Metas(n) ==
  {tree[i].also : i \in {j \in 1 .. Len(tree) : tree[j].rule = "meta" /\ tree[j].parent = n}}

Visit(nils, notNils, holds, fields) ==
  /\ IF holds
       THEN o' = fields /\ UNCHANGED phase
       ELSE phase' = "panicked" /\ UNCHANGED o
  /\ wrong' = (wrong \/ (\E f \in nils : o[f] # Nil) \/ (\E f \in notNils : o[f] = Nil))
  /\ UNCHANGED <<parserVars, modules>>

Enter(rule) == /\ phase = "walk"
               /\ NextEnters
               /\ tree[seen + 1].rule = rule
               /\ seen' = seen + 1
               /\ path' = Append(path, seen + 1)

Exit(rule) == /\ phase = "walk"
              /\ path # <<>>
              /\ ~ NextEnters
              /\ tree[Entered].rule = rule
              /\ path' = Front(path)
              /\ UNCHANGED seen

Context1 == tree[seen + 1]
HasName == Context1.name # Nil

(* Most rules set a field of the listener to a new node on the way in ...  *)
Create(rule, field, node, nils, notNils) ==
  Enter(rule) /\ Visit(nils, notNils, HasName, [o EXCEPT ![field] = node])

(* ... and on the way out append it to the node around it.                 *)
Attach(owner, list, node) == [o EXCEPT ![owner][list] = Append(@, node)]

EnterModuleRule ==
  Create("module", "module", NewModule(Context1.name), {"module"}, {})

ExitModuleRule ==
  /\ Exit("module")
  /\ Visit({}, {}, TRUE, [o EXCEPT !.module.metas = Metas(Entered)])

EnterImportRule ==
  /\ Enter("import")
  /\ Visit({}, {"module"}, HasName, Attach("module", "imports", Context1.name))

EnterExternRule ==
  Create("extern", "extern", NewExtern(Context1.name), {"extern"}, {"module"})

ExitExternRule ==
  /\ Exit("extern")
  /\ Visit({}, {"module"}, TRUE,
       [Attach("module", "externs", [o.extern EXCEPT !.metas = Metas(Entered)])
          EXCEPT !.extern = Nil])

Extended(text) == IF text = Nil THEN Nil ELSE Parts[text]

EnterInterfaceRule ==
  Create("interface", "iface", NewInterface(Context1.name, Extended(Context1.also)),
         {"iface"}, {"module"})

ExitInterfaceRule ==
  /\ Exit("interface")
  /\ Visit({}, {"module"}, TRUE,
       [Attach("module", "interfaces", [o.iface EXCEPT !.metas = Metas(Entered)])
          EXCEPT !.iface = Nil])

EnterPropertyRule ==
  Create("property", "property", NewTypedNode(Context1.name, Context1.also # Nil),
         {"property"}, {"iface", "module"})

ExitPropertyRule ==
  /\ Exit("property")
  /\ Visit({}, {}, o.schema # Nil,
       [Attach("iface", "properties",
               [o.property EXCEPT !.schema = o.schema, !.metas = Metas(Entered)])
          EXCEPT !.schema = Nil, !.property = Nil])

EnterOperationRule ==
  Create("operation", "operation", NewOperation(Context1.name),
         {"operation", "param", "return"}, {})

ExitOperationRule ==
  /\ Exit("operation")
  /\ Visit({}, {}, TRUE,
       [Attach("iface", "operations",
               [o.operation EXCEPT !.return = o.return, !.metas = Metas(Entered)])
          EXCEPT !.operation = Nil, !.param = Nil, !.return = Nil, !.schema = Nil])

EnterOperationReturnRule ==
  /\ Enter("return")
  /\ Visit({"return", "schema"}, {"module", "iface", "operation"}, TRUE,
           [o EXCEPT !.return = NewTypedNode("", FALSE)])

ExitOperationReturnRule ==
  /\ Exit("return")
  /\ Visit({}, {}, o.schema # Nil,
       [o EXCEPT !.return.schema = o.schema,
                 !.operation.return = [o.return EXCEPT !.schema = o.schema],
                 !.schema = Nil])

EnterOperationParamRule ==
  Create("param", "param", NewTypedNode(Context1.name, FALSE),
         {"param", "schema"}, {"module", "iface"})

ExitParamKeepsSchema ==
  LET param == [o.param EXCEPT !.schema = o.schema]
      taken == CASE o.operation # Nil -> Attach("operation", "params", param)
                 [] o.operation = Nil /\ o.signal # Nil -> Attach("signal", "params", param)
                 [] OTHER -> o
  IN /\ Exit("param")
     /\ Visit({}, {}, o.schema # Nil, [taken EXCEPT !.param = Nil])

ExitOperationParamRule ==
  LET param == [o.param EXCEPT !.schema = o.schema]
      taken == CASE o.operation # Nil -> Attach("operation", "params", param)
                 [] o.operation = Nil /\ o.signal # Nil -> Attach("signal", "params", param)
                 [] OTHER -> o
  IN /\ Exit("param")
     /\ Visit({}, {}, o.schema # Nil, [taken EXCEPT !.param = Nil, !.schema = Nil])

EnterSignalRule ==
  Create("signal", "signal", NewSignal(Context1.name),
         {"signal", "schema"}, {"module", "iface"})

ExitSignalRule ==
  /\ Exit("signal")
  /\ Visit({}, {}, TRUE,
       [Attach("iface", "signals", [o.signal EXCEPT !.metas = Metas(Entered)])
          EXCEPT !.schema = Nil, !.signal = Nil])

EnterStructRule ==
  Create("struct", "struct",
         [NewStruct(Context1.name) EXCEPT !.metas = Metas(seen + 1)],
         {"struct", "schema"}, {"module"})

ExitStructRule ==
  /\ Exit("struct")
  /\ Visit({}, {"struct"}, TRUE,
       [Attach("module", "structs", o.struct) EXCEPT !.schema = Nil, !.struct = Nil])

EnterStructFieldRule ==
  Create("field", "field", NewTypedNode(Context1.name, Context1.also # Nil),
         {"schema", "field"}, {"struct"})

ExitStructFieldRule ==
  /\ Exit("field")
  /\ Visit({}, {"field"}, o.schema # Nil,
       [Attach("struct", "fields",
               [o.field EXCEPT !.schema = o.schema, !.metas = Metas(Entered)])
          EXCEPT !.field = Nil, !.schema = Nil])

EnterEnumRule ==
  /\ Enter("enum")
  /\ Visit({"enum", "schema"}, {"module"}, HasName,
           [o EXCEPT !.enum = NewEnum(Context1.name), !.running = 0])

ExitEnumRule ==
  /\ Exit("enum")
  /\ Visit({}, {"enum"}, TRUE,
       [Attach("module", "enums", [o.enum EXCEPT !.metas = Metas(Entered)])
          EXCEPT !.running = 0, !.enum = Nil])

(* strconv.Atoi reads an integer that an int holds; for any other, however *)
(* well it is written, the listener panics.                                *)
NumberIsRead == Context1.also \in IntRange \cup {Nil}

EnterMemberNotCounted ==
  LET value == IF Context1.also # Nil THEN Context1.also ELSE o.running
  IN /\ Enter("member")
     /\ Visit({}, {"enum"}, HasName /\ NumberIsRead,
          [o EXCEPT !.member = NewEnumMember(Context1.name, value)])

(* A member without a number takes the next of the running ones; a number  *)
(* that is written leaves the running ones alone.                          *)
EnterEnumMemberRule ==
  LET value == IF Context1.also # Nil THEN Context1.also ELSE o.running
  IN /\ Enter("member")
     /\ Visit({}, {"enum"}, HasName /\ NumberIsRead,
          [o EXCEPT !.member = NewEnumMember(Context1.name, value),
                    !.running = IF Context1.also # Nil THEN @ ELSE @ + 1])

ExitEnumMemberRule ==
  /\ Exit("member")
  /\ Visit({}, {"member"}, TRUE,
       [Attach("enum", "members", [o.member EXCEPT !.metas = Metas(Entered)])
          EXCEPT !.member = Nil])

EnterSchemaRule ==
  Enter("schema") /\ Visit({"schema"}, {}, TRUE, [o EXCEPT !.schema = Schema("", "")])

ExitSchemaRule == Exit("schema") /\ Visit({}, {"schema", "module"}, TRUE, o)

EnterPrimitiveSchema ==
  /\ Enter("primitive")
  /\ Visit({}, {"schema"}, HasName, [o EXCEPT !.schema.type = Context1.name])

EnterSymbolUnsplit ==
  /\ Enter("symbol")
  /\ Visit({}, {"schema"}, HasName, [o EXCEPT !.schema.type = Context1.name])

EnterSymbolSchema ==
  /\ Enter("symbol")
  /\ Visit({}, {"schema"}, HasName,
       [o EXCEPT !.schema.import = Parts[Context1.name][1],
                 !.schema.type = Parts[Context1.name][2]])

EnterArrayRule ==
  Enter("array") /\ Visit({}, {"schema"}, TRUE, [o EXCEPT !.schema.array = TRUE])

(* Whatever the document rule has left in the input is never looked at.    *)
ExitDocumentRule ==
  /\ Exit("document")
  /\ rest' \in BOOLEAN
  /\ modules' = Append(modules, o.module)
  /\ o' = [o EXCEPT !.module = Nil]
  /\ phase' = "parsed"
  /\ UNCHANGED <<stack, tree, errors, recovering, wrong>>

NothingToDo ==
  /\ \/ \E r \in {"document", "header", "declarations", "members", "meta"} : Enter(r)
     \/ \E r \in {"header", "import", "declarations", "members", "primitive", "symbol",
                  "array", "meta"} : Exit(r)
  /\ UNCHANGED <<phase, parserVars, o, wrong, modules>>

Walk ==
  \/ EnterModuleRule \/ ExitModuleRule \/ EnterImportRule
  \/ EnterExternRule \/ ExitExternRule \/ EnterInterfaceRule \/ ExitInterfaceRule
  \/ EnterPropertyRule \/ ExitPropertyRule \/ EnterOperationRule \/ ExitOperationRule
  \/ EnterOperationReturnRule \/ ExitOperationReturnRule
  \/ EnterOperationParamRule \/ ExitOperationParamRule
  \/ EnterSignalRule \/ ExitSignalRule \/ EnterStructRule \/ ExitStructRule
  \/ EnterStructFieldRule \/ ExitStructFieldRule \/ EnterEnumRule \/ ExitEnumRule
  \/ EnterEnumMemberRule \/ ExitEnumMemberRule \/ EnterSchemaRule \/ ExitSchemaRule
  \/ EnterPrimitiveSchema \/ EnterSymbolSchema \/ EnterArrayRule
  \/ ExitDocumentRule \/ NothingToDo

-----------------------------------------------------------------------------
(* Other inputs of the same system, then it is validated once.             *)
ParseData(d) ==
  /\ phase = "parsed"
  /\ Len(modules) < MaxModules
  /\ modules' = AddModule(modules, d)
  /\ UNCHANGED <<phase, parserVars, walkerVars>>

Validate ==
  /\ phase = "parsed"
  /\ phase' = IF SystemIsValid(modules) THEN "valid" ELSE "invalid"
  /\ modules' = IF SystemIsValid(modules) THEN Validated(modules) ELSE modules
  /\ UNCHANGED <<parserVars, walkerVars>>

Next == Parse \/ Walk \/ (\E d \in Data : ParseData(d)) \/ Validate

Spec == Init /\ [][Next]_vars

-----------------------------------------------------------------------------
(***************************************************************************)
(* What the tree says, read off without a walk.                            *)
(***************************************************************************)
Owner(i) ==
  LET p == tree[i].parent
  IN IF tree[p].rule \in {"header", "declarations", "members"} THEN tree[p].parent ELSE p

Below(rule, n) == {i \in 2 .. Len(tree) : tree[i].rule = rule /\ Owner(i) = n}

(* Contexts in the order in which they are in the document.                *)
InOrder(S) == FlattenSeq([i \in DOMAIN tree |-> IF i \in S THEN <<i>> ELSE <<>>])

Under(rule, n) == InOrder(Below(rule, n))

The(S) == CHOOSE i \in S : TRUE

TypeAt(s) ==
  CASE Below("symbol", s) # {} -> Parts[tree[The(Below("symbol", s))].name]
    [] Below("primitive", s) # {} -> <<"", tree[The(Below("primitive", s))].name>>
    [] OTHER -> <<"", "">>

SchemaAt(n) ==
  LET s == The(Below("schema", n))
  IN [import |-> TypeAt(s)[1], type |-> TypeAt(s)[2], array |-> Below("array", s) # {},
      kind |-> ""]

TypedAt(n) ==
  [name |-> IF tree[n].rule = "return" THEN "" ELSE tree[n].name,
   readonly |-> tree[n].also # Nil, schema |-> SchemaAt(n), metas |-> Metas(n)]

OperationAt(n) ==
  [name |-> tree[n].name, params |-> Map(Under("param", n), TypedAt), metas |-> Metas(n),
   return |-> IF Below("return", n) = {} THEN Nil ELSE TypedAt(The(Below("return", n)))]

SignalAt(n) ==
  [name |-> tree[n].name, params |-> Map(Under("param", n), TypedAt), metas |-> Metas(n)]

InterfaceAt(n) ==
  [name |-> tree[n].name, extends |-> Extended(tree[n].also), metas |-> Metas(n),
   properties |-> Map(Under("property", n), TypedAt),
   operations |-> Map(Under("operation", n), OperationAt),
   signals |-> Map(Under("signal", n), SignalAt)]

StructAt(n) ==
  [name |-> tree[n].name, fields |-> Map(Under("field", n), TypedAt), metas |-> Metas(n)]

(* A member without a number counts those before it that have none.        *)
MemberAt(n) ==
  LET before == {i \in Below("member", tree[n].parent) : i < n /\ tree[i].also = Nil}
  IN [name |-> tree[n].name, metas |-> Metas(n),
      value |-> IF tree[n].also = Nil THEN Cardinality(before) ELSE tree[n].also]

EnumAt(n) ==
  [name |-> tree[n].name, members |-> Map(Under("member", n), MemberAt), metas |-> Metas(n)]

ExternAt(n) == [name |-> tree[n].name, metas |-> Metas(n)]

ModuleAt(n) ==
  [name |-> tree[n].name, metas |-> Metas(n),
   imports |-> Map(Under("import", 1), LAMBDA i : tree[i].name),
   externs |-> Map(Under("extern", 1), ExternAt),
   interfaces |-> Map(Under("interface", 1), InterfaceAt),
   structs |-> Map(Under("struct", 1), StructAt),
   enums |-> Map(Under("enum", 1), EnumAt)]

ListenerFields ==
  [module : Modules \cup {Nil}, iface : Interfaces \cup {Nil}, extern : Externs \cup {Nil},
   struct : Structs \cup {Nil}, enum : Enums \cup {Nil}, member : Members \cup {Nil},
   operation : Operations \cup {Nil}, param : TypedNodes \cup {Nil},
   return : TypedNodes \cup {Nil}, signal : Signals \cup {Nil},
   property : TypedNodes \cup {Nil}, field : TypedNodes \cup {Nil},
   schema : Schemas \cup {Nil}, running : Nat]

(***************************************************************************)
(* Properties.                                                             *)
(***************************************************************************)
(* The stack and the tree fit each other; and of the listener's fields     *)
(* those are nil, and those are not, that the listener itself asserts      *)
(* (listener.go, IsNil and IsNotNil, which only log), whatever the         *)
(* document and its syntax errors.                                         *)
TypeOK ==
  /\ phase \in {"parse", "walk", "parsed", "valid", "invalid", "panicked"}
  /\ \A i \in DOMAIN stack : /\ stack[i].rule \in DOMAIN Grammar
                             /\ tree[stack[i].node].rule = stack[i].rule
  /\ \A i \in DOMAIN tree : tree[i].rule \in DOMAIN Grammar /\ tree[i].parent \in 0 .. i - 1
  /\ errors \in 0 .. MaxErrors
  /\ recovering \in BOOLEAN /\ rest \in BOOLEAN
  /\ ~ wrong
  /\ seen \in 0 .. Len(tree)
  /\ o \in ListenerFields
  /\ modules \in Seq(Modules) /\ Len(modules) <= MaxModules

AtHugeNumber == tree[Entered].rule = "member" /\ tree[Entered].also \in Values \ IntRange

(* The listener panics only for a document with a syntax error, where a    *)
(* name or a schema is nil that the abandoned rule did not get to, or at a *)
(* member of an enum whose number no int holds: the grammar takes integers *)
(* of any length.                                                          *)
PanicsOnlyOnBadInput == phase = "panicked" => errors > 0 \/ AtHugeNumber

(* The module the walk builds is what the tree says: each member is in its *)
(* own interface, each parameter at its own operation or signal, each      *)
(* schema at the node it was written for, even after recovery.             *)
ModelIsTree ==
  phase = "parsed" =>
    Len(modules) > 0 /\ modules[1] = ModuleAt(The(Below("module", 1)))

(* Two members of an enum get one number only if one of them is written    *)
(* with a number: Module.Validate numbers them or the listener does.       *)
ClashOnlyByMixing ==
  phase = "valid" =>
    \A i \in DOMAIN Under("enum", 1) :
      LET e == modules[1].enums[i]
          members == Under("member", Under("enum", 1)[i])
      IN \A j, k \in DOMAIN members :
           /\ j # k
           /\ e.members[j].value = e.members[k].value
           => tree[members[j]].also # Nil \/ tree[members[k]].also # Nil

(* The schemas of a module, wherever they are written.                     *)
SchemasOf(m) ==
  LET operations == UNION {ToSet(i.operations) : i \in ToSet(m.interfaces)}
      signals == UNION {ToSet(i.signals) : i \in ToSet(m.interfaces)}
      typed == UNION ({ToSet(i.properties) : i \in ToSet(m.interfaces)}
                      \cup {ToSet(op.params) \cup {op.return} : op \in operations}
                      \cup {ToSet(sig.params) : sig \in signals}
                      \cup {ToSet(s.fields) : s \in ToSet(m.structs)})
  IN {t.schema : t \in typed}

Declared ==
  UNION {LET m == modules[i]
         IN {<<m.name, x.name, "extern">> : x \in ToSet(m.externs)} \cup
            {<<m.name, x.name, "enum">> : x \in ToSet(m.enums)} \cup
            {<<m.name, x.name, "struct">> : x \in ToSet(m.structs)} \cup
            {<<m.name, x.name, "interface">> : x \in ToSet(m.interfaces)}
         : i \in DOMAIN modules}

(* In a valid system a symbol is what the one declaration of that name in  *)
(* the module it names is, whether that module or declaration comes before *)
(* or after it; if there is none it has no kind.                           *)
ResolvedRight ==
  phase = "valid" =>
    \A i \in DOMAIN modules : \A s \in SchemasOf(modules[i]) :
      s.type \notin Primitives \cup {"void"} =>
        LET home == IF s.import = "" THEN modules[i].name ELSE s.import
        IN {d \in Declared : d[1] = home /\ d[2] = s.type} =
             IF s.kind = "" THEN {} ELSE {<<home, s.type, s.kind>>}

-----------------------------------------------------------------------------
(***************************************************************************)
(* What a template is given once the system is valid.                      *)
(***************************************************************************)
(* A document's names never are those of the language's own types; nothing *)
(* looks at a data file's.                                                 *)
NoTypeDeclared(m) ==
  \A nodes \in {m.externs, m.enums, m.structs, m.interfaces} :
    \A name \in Primitives \cup {"void"} : ~ Has(nodes, name)

HollowEnum(h, name) ==
  h # Nil /\ \E i \in DOMAIN h.enums : h.enums[i].name = name /\ h.enums[i].members = <<>>

View(m, s) ==
  [kind |-> s.kind, array |-> s.array, imported |-> s.import # "",
   local |-> Symbol(modules, m, Schema("", s.type)),
   hollow |-> HollowEnum(Home(modules, m, s.import), s.type),
   hollowLocal |-> HollowEnum(m, s.type)]

SeenViews ==
  UNION {{View(modules[i], s) : s \in SchemasOf(modules[i])} : i \in DOMAIN modules}

(* The validation hands to the filters of pkg/gen/filters only views they  *)
(* are written for, and whatever the documents were NothingLeftOut,        *)
(* RightDeclaration and UnresolvedIsCaught hold of their texts.            *)
FiltersAgree ==
  phase = "valid" =>
    \A v \in SeenViews : /\ v \in Views
                         /\ NothingLeftOut(v)
                         /\ RightDeclaration(v)
                         /\ UnresolvedIsCaught(v)

(* "Check documents and report errors" (docs/apigear_spec_check.md:7): a   *)
(* document that is reported as valid has no syntax error and is all read. *)
CheckReportsErrors == phase = "valid" => errors = 0 /\ ~ rest
=============================================================================
