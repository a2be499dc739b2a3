----------------------- MODULE ObjectApiInvariants -----------------------
(***************************************************************************)
(* The inductive invariant of the parser, its listener and the validation  *)
(* (ObjectApi), which its theorems rest on (ObjectApiProofs):              *)
(*                                                                         *)
(*   ParserInv    the tree is one the grammar makes, the stack is the way  *)
(*                to where the parser is, and without an error nothing is  *)
(*                missing that a rule has passed;                          *)
(*   ListenerInv  the fields of the listener are what the tree says of     *)
(*                the contexts the walker is in, as far as it has walked;  *)
(*   SystemInv    the first module is that of the document, and the valid  *)
(*                system is the validation of one whose names differ.      *)
(***************************************************************************)
EXTENDS ObjectApi

(***************************************************************************)
(* The grammar.                                                            *)
(***************************************************************************)
RuleNames ==
  {"document", "header", "module", "import", "declarations", "extern", "interface",
   "members", "property", "operation", "return", "param", "signal", "struct", "field",
   "enum", "member", "schema", "array", "primitive", "symbol", "meta"}

(* Which rules call which.                                                 *)
Calls(p, r) ==
  \/ p = "document" /\ r \in {"header", "declarations"}
  \/ p = "header" /\ r \in {"module", "import"}
  \/ p = "declarations" /\ r \in {"extern", "interface", "struct", "enum"}
  \/ p = "interface" /\ r = "members"
  \/ p = "members" /\ r \in {"property", "operation", "signal"}
  \/ p = "operation" /\ r \in {"param", "return"}
  \/ p = "signal" /\ r = "param"
  \/ p \in {"property", "field", "param", "return"} /\ r = "schema"
  \/ p = "struct" /\ r = "field"
  \/ p = "enum" /\ r = "member"
  \/ p = "schema" /\ r \in {"primitive", "symbol", "array"}
  \/ /\ p \in {"module", "extern", "interface", "property", "operation", "signal", "struct",
               "field", "enum", "member"}
     /\ r = "meta"

(* The calls a rule makes at most once, and the positions before them.     *)
Once(p, r) ==
  \/ p = "document" /\ r = "header"
  \/ p = "header" /\ r = "module"
  \/ p \in {"property", "field", "param", "return"} /\ r = "schema"
  \/ p = "operation" /\ r = "return"
  \/ p = "schema" /\ r \in {"primitive", "symbol"}

Before(p) ==
  CASE p \in {"document", "header", "schema"} -> {0}
    [] p \in {"property", "field", "operation"} -> {0, 1, 2, 3}
    [] p = "param" -> {0, 1, 2}
    [] p = "return" -> {0, 1}
    [] OTHER -> {}

(* The rules that do not return before one of these calls.                 *)
Always == {"document", "header", "property", "field", "param", "return"}

(* The positions of a rule before it has read the name it needs.           *)
Unnamed(p) ==
  CASE p \in {"module", "import", "extern", "interface", "property", "signal", "struct",
              "field", "enum"} -> {0, 1}
    [] p \in {"operation", "param", "member", "primitive", "symbol"} -> {0}
    [] OTHER -> {}

(* The tokens besides names that are kept in the context of a rule.        *)
Also(p) ==
  CASE p \in {"module", "import"} -> {"version"}
    [] p = "interface" -> {"extends"}
    [] p \in {"property", "field"} -> {"readonly"}
    [] p = "member" -> {"value"}
    [] p = "meta" -> {"tagLine", "docLine"}
    [] OTHER -> {}

(* Rules call rules of a higher rank.                                      *)
Rank(r) ==
  CASE r = "document" -> 0
    [] r \in {"header", "declarations"} -> 1
    [] r \in {"module", "import", "extern", "interface", "struct", "enum"} -> 2
    [] r \in {"members", "field", "member"} -> 3
    [] r \in {"property", "operation", "signal"} -> 4
    [] r \in {"param", "return"} -> 5
    [] r = "schema" -> 6
    [] OTHER -> 7

(* What is used of a rule of the grammar.                                  *)
MoveFits(p, m) ==
  /\ m[1] \in Nat /\ m[3] \in Nat
  /\ m[2] \in RuleNames => Calls(p, m[2])
  /\ Once(p, m[2]) => m[1] \in Before(p) /\ m[3] \notin Before(p)
  /\ m[1] \notin Before(p) => m[3] \notin Before(p)
  /\ p \in {"document", "header"} /\ m[1] \in Before(p) => Once(p, m[2])
  /\ p \in Always /\ m[1] \in Before(p) /\ m[3] \notin Before(p) => Once(p, m[2])
  /\ m[1] \notin Unnamed(p) => m[3] \notin Unnamed(p)
  /\ m[1] \in Unnamed(p) /\ m[3] \notin Unnamed(p) => m[2] = "name"
  /\ m[2] \in Labels => m[2] \in Also(p) \cup {"name"}

ReturnFits(p, pos) == pos \notin Unnamed(p) /\ (p \in Always => pos \notin Before(p))

RuleFits(p, rule) ==
  /\ \A m \in rule.moves : MoveFits(p, m)
  /\ \A pos \in rule.returns : ReturnFits(p, pos)

(***************************************************************************)
(* The tree, while it is made and when it is done.                         *)
(***************************************************************************)
NameOf(r) == NamesOf[r] \cup {MissingToken}

AlsoOf(r) ==
  CASE r = "interface" -> ExtendsOf \cup {MissingToken}
    [] r = "member" -> Values \cup {NoNumber}
    [] OTHER -> Also(r)

Names == UNION {NameOf(r) : r \in RuleNames}

Alsos == UNION {AlsoOf(r) : r \in RuleNames}

AnyName == Names \cup {Nil}

AnyAlso == Alsos \cup {Nil}

Contexts == [rule : RuleNames, parent : Nat, name : AnyName, also : AnyAlso]

Frames == [rule : RuleNames, node : Nat, pos : Nat]

Runs(frames, n) == \E k \in DOMAIN frames : frames[k].node = n

OnStack(n) == Runs(stack, n)

(* n has called a rule that it calls once.                                 *)
CallsOnce(contexts, n) ==
  \E i \in 2 .. Len(contexts) :
    contexts[i].parent = n /\ Once(contexts[n].rule, contexts[i].rule)

HasCalled(n) == CallsOnce(tree, n)

(* The context around a context called it.                                 *)
Called ==
  /\ Len(tree) >= 1 /\ tree[1].rule = "document" /\ tree[1].parent = 0
  /\ \A n \in 2 .. Len(tree) : /\ tree[n].parent \in 1 .. n - 1
                               /\ Calls(tree[tree[n].parent].rule, tree[n].rule)

(* A context is closed for good by the first one outside it.               *)
Nested ==
  \A i, j, k \in 1 .. Len(tree) :
    i < j /\ j <= k /\ tree[j].parent < i => tree[k].parent < i \/ tree[k].parent >= j

CalledOnce ==
  \A i, j \in 2 .. Len(tree) :
    /\ tree[i].parent = tree[j].parent
    /\ Once(tree[tree[i].parent].rule, tree[i].rule)
    /\ Once(tree[tree[i].parent].rule, tree[j].rule)
    => i = j

HeaderFirst ==
  /\ Len(tree) >= 2 => tree[2].rule = "header"
  /\ Len(tree) >= 3 => tree[3].rule = "module" /\ tree[3].parent = 2
  /\ \A n \in 1 .. Len(tree) :
       tree[n].rule \in {"document", "header"} /\ ~ OnStack(n) => HasCalled(n)

Written ==
  \A n \in 1 .. Len(tree) : /\ tree[n].name \in NameOf(tree[n].rule) \cup {Nil}
                            /\ tree[n].also \in AlsoOf(tree[n].rule) \cup {Nil}

StackFits ==
  /\ \A k \in 1 .. Len(stack) : /\ stack[k].node \in 1 .. Len(tree)
                                /\ tree[stack[k].node].rule = stack[k].rule
  /\ \A k, l \in 1 .. Len(stack) : k < l => stack[k].node < stack[l].node

(* No context on the stack is closed.                                      *)
StackIsOpen ==
  \A k \in 1 .. Len(stack) : \A i, j \in 1 .. Len(tree) :
    i < j /\ tree[j].parent < i => stack[k].node < i \/ stack[k].node >= j

Positions ==
  \A k \in 1 .. Len(stack) :
    /\ stack[k].pos \in Before(stack[k].rule) => ~ HasCalled(stack[k].node)
    /\ stack[k].pos \notin Before(stack[k].rule) /\ stack[k].rule \in Always
         => HasCalled(stack[k].node)

(* Without an error everything is there once a rule has passed it.         *)
Whole ==
  errors = 0 =>
    /\ ~ recovering
    /\ \A n \in 1 .. Len(tree) :
         ~ OnStack(n) => /\ Unnamed(tree[n].rule) # {} => tree[n].name # Nil
                         /\ tree[n].rule \in Always => HasCalled(n)
    /\ \A n \in 1 .. Len(tree) : tree[n].rule = "member" => tree[n].also # NoNumber
    /\ \A k \in 1 .. Len(stack) :
         Unnamed(stack[k].rule) # {} /\ stack[k].pos \notin Unnamed(stack[k].rule)
           => tree[stack[k].node].name # Nil

ParserTypes ==
  /\ tree \in Seq(Contexts)
  /\ stack \in Seq(Frames)
  /\ errors \in 0 .. MaxErrors
  /\ recovering \in BOOLEAN
  /\ phase = "parse" <=> stack # <<>>

TreeInv == Called /\ Nested /\ CalledOnce /\ HeaderFirst /\ Written /\ Whole

ParserInv == ParserTypes /\ TreeInv /\ StackFits /\ StackIsOpen /\ Positions

(* A rule calls another: one more context, one more function.              *)
GrownBy(m) ==
  LET n == Len(tree)
      k == Len(stack)
  IN /\ Len(tree') = n + 1 /\ tree' \in Seq(Contexts)
     /\ \A i \in 1 .. n : tree'[i] = tree[i]
     /\ tree'[n + 1].rule = m[2] /\ tree'[n + 1].parent = Top.node
     /\ tree'[n + 1].name = Nil /\ tree'[n + 1].also = Nil
     /\ Len(stack') = k + 1 /\ stack' \in Seq(Frames) /\ stack' # <<>>
     /\ \A l \in 1 .. k : stack'[l].rule = stack[l].rule /\ stack'[l].node = stack[l].node
     /\ \A l \in 1 .. k : l # k => stack'[l] = stack[l]
     /\ stack'[k].pos = m[3]
     /\ stack'[k + 1].rule = m[2] /\ stack'[k + 1].node = n + 1 /\ stack'[k + 1].pos = 0

(* A token is matched or made up: the text of its context is written.      *)
Reads(r, token, text) ==
  /\ token = "name" => text \in NameOf(r)
  /\ token \in Labels \ {"name"} => text \in AlsoOf(r)

WrittenBy(token) ==
  /\ tree' \in Seq(Contexts) /\ Len(tree') = Len(tree)
  /\ \A i \in 1 .. Len(tree) : /\ tree'[i].rule = tree[i].rule
                               /\ tree'[i].parent = tree[i].parent
                               /\ i # Top.node => tree'[i] = tree[i]
  /\ tree'[Top.node].name \in NameOf(Top.rule) \cup {Nil}
  /\ tree'[Top.node].also \in AlsoOf(Top.rule) \cup {Nil}
  /\ token = "name" \/ tree[Top.node].name # Nil => tree'[Top.node].name # Nil

(* The step writes and moves on.                                           *)
Writes(m) ==
  /\ m[2] \notin RuleNames
  /\ WrittenBy(m[2])
  /\ stack' = At(m[3])
  /\ phase' = phase
  /\ errors' \in 0 .. MaxErrors /\ recovering' \in BOOLEAN
  /\ errors' = 0 => /\ errors = 0 /\ ~ recovering'
                    /\ Top.rule = "member" => tree'[Top.node].also # NoNumber

(* A rule function returns.                                                *)
Pops ==
  /\ stack' = Front(stack) /\ tree' = tree
  /\ phase' = IF Len(stack) = 1 THEN "walk" ELSE phase
  /\ errors' \in 0 .. MaxErrors /\ recovering' \in BOOLEAN
  /\ Top.rule \in {"document", "header"} => HasCalled(Top.node)
  /\ errors' = 0 => /\ errors = 0 /\ recovering' = recovering
                    /\ Unnamed(Top.rule) # {} => tree[Top.node].name # Nil
                    /\ Top.rule \in Always => HasCalled(Top.node)

(***************************************************************************)
(* The walk.                                                               *)
(***************************************************************************)
Open == {path[k] : k \in DOMAIN path}

(* A tree that is complete.                                                *)
TreeDone ==
  /\ tree \in Seq(Contexts) /\ Len(tree) \in Nat /\ Len(tree) >= 3
  /\ Called /\ Nested /\ CalledOnce /\ Written
  /\ tree[2].rule = "header" /\ tree[2].parent = 1
  /\ tree[3].rule = "module" /\ tree[3].parent = 2
  /\ errors = 0 =>
       /\ \A n \in 1 .. Len(tree) : /\ Unnamed(tree[n].rule) # {} => tree[n].name # Nil
                                    /\ tree[n].rule \in Always => HasCalled(n)
       /\ \A n \in 1 .. Len(tree) : tree[n].rule = "member" => tree[n].also # NoNumber

(* The path leads from the document to the context the walker is in; what  *)
(* has been entered and is not on it has no context left.                  *)
OnPath ==
  /\ path \in Seq(Nat) /\ Len(path) \in Nat /\ DOMAIN path = 1 .. Len(path)
  /\ seen \in 0 .. Len(tree)
  /\ seen = 0 <=> path = <<>>
  /\ path # <<>> => path[1] = 1
  /\ \A k \in 1 .. Len(path) : path[k] \in 1 .. seen
  /\ \A k \in 2 .. Len(path) : tree[path[k]].parent = path[k - 1]
  /\ \A k, l \in 1 .. Len(path) :
       k < l => path[k] < path[l] /\ Rank(tree[path[k]].rule) < Rank(tree[path[l]].rule)
  /\ \A i \in 1 .. seen : i \notin Open => \A j \in seen + 1 .. Len(tree) : tree[j].parent # i
  /\ \A p \in Open : \A i \in p + 1 .. seen : tree[i].parent >= p

Ordered(n, S) == FlattenSeq([i \in 1 .. n |-> IF i \in S THEN <<i>> ELSE <<>>])

(* How the numbers of S up to each number are put in order.                *)
Grows(g, n, S) ==
  /\ g[0] = <<>>
  /\ \A k \in 1 .. n : g[k] = IF k \in S THEN Append(g[k - 1], k) ELSE g[k - 1]

(* What has grown: the numbers of S, each before the greater ones.         *)
Sorted(s, S) ==
  /\ s \in Seq(S) /\ Len(s) \in Nat
  /\ \A i, j \in 1 .. Len(s) : i < j => s[i] < s[j]
  /\ \A x \in S : \E i \in 1 .. Len(s) : s[i] = x

(***************************************************************************)
(* The fields of the listener.  What has been walked, s contexts entered   *)
(* and those of P not left yet, is the set (1 .. s) \ P.                   *)
(***************************************************************************)
Wrappers == {"header", "declarations", "members"}

Walked(s, P) == (1 .. s) \ P

List(r, n, D) == InOrder(Below(r, n) \cap D)

(* What the nodes around the walker have of what the tree says of them.    *)
TypeSoFar(s, i) ==
  CASE Below("symbol", i) \cap (1 .. s) # {} -> Parts[tree[The(Below("symbol", i))].name]
    [] Below("primitive", i) \cap (1 .. s) # {} ->
         <<"", tree[The(Below("primitive", i))].name>>
    [] OTHER -> <<"", "">>

SchemaSoFar(s, i) ==
  [import |-> TypeSoFar(s, i)[1], type |-> TypeSoFar(s, i)[2],
   array |-> Below("array", i) \cap (1 .. s) # {}, kind |-> ""]

OperationSoFar(n, D) ==
  [name |-> tree[n].name, params |-> Map(List("param", n, D), TypedAt), metas |-> {},
   return |-> IF Below("return", n) \cap D = {} THEN Nil
              ELSE TypedAt(The(Below("return", n)))]

SignalSoFar(n, D) ==
  [name |-> tree[n].name, params |-> Map(List("param", n, D), TypedAt), metas |-> {}]

InterfaceSoFar(n, D) ==
  [name |-> tree[n].name, extends |-> Extended(tree[n].also), metas |-> {},
   properties |-> Map(List("property", n, D), TypedAt),
   operations |-> Map(List("operation", n, D), OperationAt),
   signals |-> Map(List("signal", n, D), SignalAt)]

StructSoFar(n, D) ==
  [name |-> tree[n].name, fields |-> Map(List("field", n, D), TypedAt), metas |-> Metas(n)]

EnumSoFar(n, D) ==
  [name |-> tree[n].name, members |-> Map(List("member", n, D), MemberAt), metas |-> {}]

ModuleSoFar(s, P) ==
  [name |-> tree[3].name, metas |-> IF 3 \in P THEN {} ELSE Metas(3),
   imports |-> Map(List("import", 1, 1 .. s), LAMBDA i : tree[i].name),
   externs |-> Map(List("extern", 1, Walked(s, P)), ExternAt),
   interfaces |-> Map(List("interface", 1, Walked(s, P)), InterfaceAt),
   structs |-> Map(List("struct", 1, Walked(s, P)), StructAt),
   enums |-> Map(List("enum", 1, Walked(s, P)), EnumAt)]

Unnumbered(n, s) == {i \in Below("member", n) \cap (1 .. s) : tree[i].also = Nil}

(* A field is nil unless the walker is in a context of its rule.           *)
Held(P, r, v, V(_)) ==
  /\ (\A n \in P : tree[n].rule # r) => v = Nil
  /\ \A n \in P : tree[n].rule = r => v = V(n)

FieldNames ==
  {"module", "iface", "extern", "struct", "enum", "member", "operation", "param", "return",
   "signal", "property", "field", "schema", "running"}

IsFields(f) == DOMAIN f = FieldNames /\ f = [a \in DOMAIN f |-> f[a]]

ModuleFits(f, s, P) == f.module = IF s < 3 THEN Nil ELSE ModuleSoFar(s, P)

InterfaceFits(f, s, P) ==
  Held(P, "interface", f.iface, LAMBDA n : InterfaceSoFar(n, Walked(s, P)))

ExternFits(f, P) == Held(P, "extern", f.extern, LAMBDA n : NewExtern(tree[n].name))

StructFits(f, s, P) == Held(P, "struct", f.struct, LAMBDA n : StructSoFar(n, Walked(s, P)))

EnumFits(f, s, P) == Held(P, "enum", f.enum, LAMBDA n : EnumSoFar(n, Walked(s, P)))

MemberFits(f, P) ==
  Held(P, "member", f.member, LAMBDA n : NewEnumMember(tree[n].name, MemberAt(n).value))

OperationFits(f, s, P) ==
  Held(P, "operation", f.operation, LAMBDA n : OperationSoFar(n, Walked(s, P)))

ParamFits(f, P) == Held(P, "param", f.param, LAMBDA n : NewTypedNode(tree[n].name, FALSE))

SignalFits(f, s, P) == Held(P, "signal", f.signal, LAMBDA n : SignalSoFar(n, Walked(s, P)))

PropertyFits(f, P) ==
  Held(P, "property", f.property, LAMBDA n : NewTypedNode(tree[n].name, tree[n].also # Nil))

FieldFits(f, P) ==
  Held(P, "field", f.field, LAMBDA n : NewTypedNode(tree[n].name, tree[n].also # Nil))

RunningFits(f, s, P) ==
  /\ f.running \in Nat
  /\ \A n \in P : tree[n].rule = "enum" => f.running = Cardinality(Unnumbered(n, s))

(* A return or a schema is kept until the context around it is left.       *)
Kept(r, s, P) == {i \in 1 .. s : tree[i].rule = r /\ tree[i].parent \in P}

ReturnIsKept(f, s, P) ==
  /\ Kept("return", s, P) = {} => f.return = Nil
  /\ \A i \in Kept("return", s, P) :
       f.return = IF i \in P THEN NewTypedNode("", FALSE) ELSE TypedAt(i)

SchemaIsKept(f, s, P) ==
  /\ Kept("schema", s, P) = {} => f.schema = Nil
  /\ \A i \in Kept("schema", s, P) : f.schema = SchemaSoFar(s, i)

FieldsFit(f, s, P) ==
  /\ IsFields(f)
  /\ ModuleFits(f, s, P) /\ InterfaceFits(f, s, P) /\ ExternFits(f, P) /\ StructFits(f, s, P)
  /\ EnumFits(f, s, P) /\ MemberFits(f, P) /\ OperationFits(f, s, P) /\ ParamFits(f, P)
  /\ SignalFits(f, s, P) /\ PropertyFits(f, P) /\ FieldFits(f, P) /\ RunningFits(f, s, P)
  /\ ReturnIsKept(f, s, P) /\ SchemaIsKept(f, s, P)

(* What has been entered is named, and what is done has what it needs.     *)
Readable ==
  /\ \A i \in 1 .. seen : Unnamed(tree[i].rule) # {} => tree[i].name # Nil
  /\ \A i \in 1 .. seen : tree[i].rule = "member" => tree[i].also # NoNumber
  /\ \A i \in Walked(seen, Open) :
       tree[i].rule \in {"property", "field", "param", "return"} =>
         \E j \in 2 .. Len(tree) : tree[j].parent = i /\ tree[j].rule = "schema"

WalkInv == OnPath /\ FieldsFit(o, seen, Open) /\ Readable

Indexed(u, m) == u = [i \in 1 .. m |-> u[i]]

(* What is listed of each context, as more are done.                       *)
NameAt(i) == tree[i].name

NodeAt(r, i) ==
  CASE r \in {"property", "param", "field"} -> TypedAt(i)
    [] r = "operation" -> OperationAt(i)
    [] r = "signal" -> SignalAt(i)
    [] r = "interface" -> InterfaceAt(i)
    [] r = "struct" -> StructAt(i)
    [] r = "enum" -> EnumAt(i)
    [] r = "member" -> MemberAt(i)
    [] r = "extern" -> ExternAt(i)
    [] r = "import" -> NameAt(i)

NodesAt(r, s) == [k \in DOMAIN s |-> NodeAt(r, s[k])]

(* The fields that fit when nothing but the walker has moved.              *)
FitOnEnter(f, g, r, s, P) ==
  /\ r \notin {"module", "import"} /\ g.module = f.module => ModuleFits(g, s, P)
  /\ r # "interface" /\ g.iface = f.iface => InterfaceFits(g, s, P)
  /\ r # "extern" /\ g.extern = f.extern => ExternFits(g, P)
  /\ r # "struct" /\ g.struct = f.struct => StructFits(g, s, P)
  /\ r # "enum" /\ g.enum = f.enum => EnumFits(g, s, P)
  /\ r # "member" /\ g.member = f.member => MemberFits(g, P)
  /\ r # "operation" /\ g.operation = f.operation => OperationFits(g, s, P)
  /\ r # "param" /\ g.param = f.param => ParamFits(g, P)
  /\ r # "signal" /\ g.signal = f.signal => SignalFits(g, s, P)
  /\ r # "property" /\ g.property = f.property => PropertyFits(g, P)
  /\ r # "field" /\ g.field = f.field => FieldFits(g, P)
  /\ r \notin {"enum", "member"} /\ g.running = f.running => RunningFits(g, s, P)
  /\ r # "return" /\ g.return = f.return => ReturnIsKept(g, s, P)
  /\ r \notin {"schema", "primitive", "symbol", "array"} /\ g.schema = f.schema
       => SchemaIsKept(g, s, P)

(* The fields that still fit when the walker leaves a context.             *)
FitOnExit(f, g, r, s, P) ==
  /\ r \notin {"module", "extern", "interface", "struct", "enum"} /\ g.module = f.module
       => ModuleFits(g, s, P)
  /\ r \notin {"interface", "property", "operation", "signal"} /\ g.iface = f.iface
       => InterfaceFits(g, s, P)
  /\ r # "extern" /\ g.extern = f.extern => ExternFits(g, P)
  /\ r \notin {"struct", "field"} /\ g.struct = f.struct => StructFits(g, s, P)
  /\ r \notin {"enum", "member"} /\ g.enum = f.enum => EnumFits(g, s, P)
  /\ r # "member" /\ g.member = f.member => MemberFits(g, P)
  /\ r \notin {"operation", "param", "return"} /\ g.operation = f.operation
       => OperationFits(g, s, P)
  /\ r # "param" /\ g.param = f.param => ParamFits(g, P)
  /\ r \notin {"signal", "param"} /\ g.signal = f.signal => SignalFits(g, s, P)
  /\ r # "property" /\ g.property = f.property => PropertyFits(g, P)
  /\ r # "field" /\ g.field = f.field => FieldFits(g, P)
  /\ g.running = f.running => RunningFits(g, s, P)
  /\ r \notin {"operation", "return"} /\ g.return = f.return => ReturnIsKept(g, s, P)
  /\ r \notin {"property", "param", "field", "return"} /\ g.schema = f.schema
       => SchemaIsKept(g, s, P)

Typeds == {"property", "field", "param", "return"}

(* A field holds a node while the walker is in a context of its rule, and  *)
(* is nil otherwise.                                                       *)
In(r) == \E n \in Open : tree[n].rule = r

(***************************************************************************)
(* What each handler does to the fields.                                   *)
(***************************************************************************)
Entering(r) == TreeDone /\ WalkInv /\ Enter(r)

Leaving(r) == TreeDone /\ WalkInv /\ Exit(r)

(* A step of the walk goes on with fields that fit, or it panics.          *)
Walks ==
  /\ UNCHANGED <<parserVars, modules>>
  /\ ~ wrong'
  /\ seen' \in 0 .. Len(tree)
  /\ \/ phase' = "panicked" /\ o' = o /\ (errors # 0 \/ AtHugeNumber')
     \/ phase' = "walk" /\ OnPath' /\ FieldsFit(o', seen', Open') /\ Readable'

(***************************************************************************)
(* The inductive invariant.                                                *)
(***************************************************************************)
Phases == {"parse", "walk", "parsed", "valid", "invalid", "panicked"}

FromDocument(system) ==
  /\ Len(system) > 0 /\ system[1] = ModuleAt(3)
  /\ \A i \in 2 .. Len(system) : system[i] \in Data

ListenerInv ==
  /\ phase \in Phases /\ rest \in BOOLEAN /\ ~ wrong
  /\ seen \in 0 .. Len(tree)
  /\ phase = "parse" => seen = 0 /\ path = <<>> /\ o = NoFields
  /\ phase = "walk" => WalkInv
  /\ phase # "walk" => o \in ListenerFields

SystemInv ==
  /\ modules \in Seq(Modules) /\ Len(modules) <= MaxModules
  /\ phase \in {"parse", "walk", "panicked"} => modules = <<>>
  /\ phase = "panicked" => errors # 0 \/ AtHugeNumber
  /\ phase = "parsed" => FromDocument(modules)
  /\ phase = "valid" =>
       \E system \in Seq(Modules) :
         SystemIsValid(system) /\ FromDocument(system) /\ modules = Validated(system)

Inv == ParserInv /\ ListenerInv /\ SystemInv

(***************************************************************************)
(* What the validation resolves.                                           *)
(***************************************************************************)
(* Where a module has its types.                                           *)
IsTyped(m, t) ==
  \/ \E f \in ToSet(m.interfaces) : t \in ToSet(f.properties)
  \/ \E f \in ToSet(m.interfaces) : \E op \in ToSet(f.operations) :
       t \in ToSet(op.params) \/ t = op.return
  \/ \E f \in ToSet(m.interfaces) : \E sig \in ToSet(f.signals) : t \in ToSet(sig.params)
  \/ \E st \in ToSet(m.structs) : t \in ToSet(st.fields)

Resolved(system, m, s) == \E x \in Schemas : s = ValidSchema(system, m, x)

(***************************************************************************)
(* What a module declares, and where a symbol is looked up.                *)
(***************************************************************************)
DeclaredKinds == {"extern", "enum", "struct", "interface"}

Declares(m, name, kind) ==
  \/ kind = "extern" /\ Has(m.externs, name)
  \/ kind = "enum" /\ Has(m.enums, name)
  \/ kind = "struct" /\ Has(m.structs, name)
  \/ kind = "interface" /\ Has(m.interfaces, name)

(* Where a symbol is looked up: in the one module that has that name.      *)
HomeName(m, import) == IF import = "" THEN m.name ELSE import

DeclaredBy(m) ==
  {<<m.name, x.name, "extern">> : x \in ToSet(m.externs)} \cup
  {<<m.name, x.name, "enum">> : x \in ToSet(m.enums)} \cup
  {<<m.name, x.name, "struct">> : x \in ToSet(m.structs)} \cup
  {<<m.name, x.name, "interface">> : x \in ToSet(m.interfaces)}

(***************************************************************************)
(* What the template filters are given.                                    *)
(***************************************************************************)
TypeNames == Primitives \cup {"void"}

(* The names of these filters are the declaration's the schema was         *)
(* resolved to.                                                            *)
NamesRight(v, text) == text \in {"local", "import"} => text = Qualified(v)
=============================================================================
