------------------------- MODULE ObjectApiProofs -------------------------
(***************************************************************************)
(* The theorems of ObjectApi: Inv is inductive, and TypeOK,                *)
(* PanicsOnlyOnBadInput, ModelIsTree, ClashOnlyByMixing, ResolvedRight and *)
(* FiltersAgree follow from it.                                            *)
(***************************************************************************)
EXTENDS ObjectApiInvariants, SequenceTheorems, FiniteSetTheorems, WellFoundedInduction, TLAPS

----------------
(* The grammar: what the rules call, how often, and in which order. *)

USE DEF RuleNames, Calls, Once, Before, Always, Unnamed, Also, Labels

LEMMA DocumentRuleFits == RuleFits("document", DocumentRule)
<1>1. /\ MoveFits("document", <<0, "header", 1>>)
      /\ MoveFits("document", <<1, "declarations", 1>>)
      /\ ReturnFits("document", 1)
  BY DEF MoveFits, ReturnFits
<1> QED
  BY <1>1 DEF RuleFits, DocumentRule, Rule

LEMMA HeaderRuleFits == RuleFits("header", HeaderRule)
<1>1. /\ MoveFits("header", <<0, "module", 1>>)
      /\ MoveFits("header", <<1, "import", 1>>)
      /\ ReturnFits("header", 1)
  BY DEF MoveFits, ReturnFits
<1> QED
  BY <1>1 DEF RuleFits, HeaderRule, Rule

LEMMA ModuleRuleFits == RuleFits("module", ModuleRule)
<1>1. /\ MoveFits("module", <<0, "meta", 0>>)
      /\ MoveFits("module", <<0, "'module'", 1>>)
      /\ MoveFits("module", <<1, "name", 2>>)
      /\ MoveFits("module", <<2, "version", 3>>)
      /\ MoveFits("module", <<2, "';'", 4>>)
      /\ MoveFits("module", <<3, "';'", 4>>)
      /\ ReturnFits("module", 2) /\ ReturnFits("module", 3) /\ ReturnFits("module", 4)
  BY DEF MoveFits, ReturnFits
<1> QED
  BY <1>1 DEF RuleFits, ModuleRule, Rule

LEMMA ImportRuleFits == RuleFits("import", ImportRule)
<1>1. /\ MoveFits("import", <<0, "'import'", 1>>)
      /\ MoveFits("import", <<1, "name", 2>>)
      /\ MoveFits("import", <<2, "version", 3>>)
      /\ MoveFits("import", <<2, "';'", 4>>)
      /\ MoveFits("import", <<3, "';'", 4>>)
      /\ ReturnFits("import", 2) /\ ReturnFits("import", 3) /\ ReturnFits("import", 4)
  BY DEF MoveFits, ReturnFits
<1> QED
  BY <1>1 DEF RuleFits, ImportRule, Rule

LEMMA DeclarationsRuleFits == RuleFits("declarations", DeclarationsRule)
<1>1. /\ MoveFits("declarations", <<0, "extern", 1>>)
      /\ MoveFits("declarations", <<0, "interface", 1>>)
      /\ MoveFits("declarations", <<0, "struct", 1>>)
      /\ MoveFits("declarations", <<0, "enum", 1>>)
      /\ ReturnFits("declarations", 1)
  BY DEF MoveFits, ReturnFits
<1> QED
  BY <1>1 DEF RuleFits, DeclarationsRule, Rule

LEMMA ExternRuleFits == RuleFits("extern", ExternRule)
<1>1. /\ MoveFits("extern", <<0, "meta", 0>>)
      /\ MoveFits("extern", <<0, "'extern'", 1>>)
      /\ MoveFits("extern", <<1, "name", 2>>)
      /\ MoveFits("extern", <<2, "';'", 3>>)
      /\ ReturnFits("extern", 2) /\ ReturnFits("extern", 3)
  BY DEF MoveFits, ReturnFits
<1> QED
  BY <1>1 DEF RuleFits, ExternRule, Rule

LEMMA InterfaceRuleFits == RuleFits("interface", InterfaceRule)
<1>1. /\ MoveFits("interface", <<0, "meta", 0>>)
      /\ MoveFits("interface", <<0, "'interface'", 1>>)
      /\ MoveFits("interface", <<1, "name", 2>>)
      /\ MoveFits("interface", <<2, "'extends'", 3>>)
      /\ MoveFits("interface", <<3, "extends", 4>>)
      /\ MoveFits("interface", <<2, "'{'", 5>>)
      /\ MoveFits("interface", <<4, "'{'", 5>>)
      /\ MoveFits("interface", <<5, "members", 5>>)
      /\ MoveFits("interface", <<5, "'}'", 6>>)
      /\ ReturnFits("interface", 6)
  BY DEF MoveFits, ReturnFits
<1> QED
  BY <1>1 DEF RuleFits, InterfaceRule, Rule

LEMMA InterfaceMembersRuleFits == RuleFits("members", InterfaceMembersRule)
<1>1. /\ MoveFits("members", <<0, "property", 1>>)
      /\ MoveFits("members", <<0, "operation", 1>>)
      /\ MoveFits("members", <<0, "signal", 1>>)
      /\ ReturnFits("members", 1)
  BY DEF MoveFits, ReturnFits
<1> QED
  BY <1>1 DEF RuleFits, InterfaceMembersRule, Rule

LEMMA PropertyRuleFits == RuleFits("property", PropertyRule)
<1>1. /\ MoveFits("property", <<0, "meta", 0>>)
      /\ MoveFits("property", <<0, "readonly", 1>>)
      /\ MoveFits("property", <<0, "name", 2>>)
      /\ MoveFits("property", <<1, "name", 2>>)
      /\ MoveFits("property", <<2, "':'", 3>>)
      /\ MoveFits("property", <<3, "schema", 4>>)
      /\ MoveFits("property", <<4, "';'", 5>>)
      /\ ReturnFits("property", 4) /\ ReturnFits("property", 5)
  BY DEF MoveFits, ReturnFits
<1> QED
  BY <1>1 DEF RuleFits, PropertyRule, Typed, Rule

LEMMA OperationRuleFits == RuleFits("operation", OperationRule)
<1>1. /\ MoveFits("operation", <<0, "meta", 0>>)
      /\ MoveFits("operation", <<0, "name", 1>>)
      /\ MoveFits("operation", <<1, "'('", 2>>)
      /\ MoveFits("operation", <<2, "param", 2>>)
      /\ MoveFits("operation", <<2, "')'", 3>>)
      /\ MoveFits("operation", <<3, "return", 4>>)
      /\ MoveFits("operation", <<3, "';'", 5>>)
      /\ MoveFits("operation", <<4, "';'", 5>>)
      /\ ReturnFits("operation", 3) /\ ReturnFits("operation", 4) /\ ReturnFits("operation", 5)
  BY DEF MoveFits, ReturnFits
<1> QED
  BY <1>1 DEF RuleFits, OperationRule, Rule

LEMMA OperationReturnRuleFits == RuleFits("return", OperationReturnRule)
<1>1. /\ MoveFits("return", <<0, "':'", 1>>)
      /\ MoveFits("return", <<1, "schema", 2>>)
      /\ ReturnFits("return", 2)
  BY DEF MoveFits, ReturnFits
<1> QED
  BY <1>1 DEF RuleFits, OperationReturnRule, Rule

LEMMA OperationParamRuleFits == RuleFits("param", OperationParamRule)
<1>1. /\ MoveFits("param", <<0, "name", 1>>)
      /\ MoveFits("param", <<1, "':'", 2>>)
      /\ MoveFits("param", <<2, "schema", 3>>)
      /\ MoveFits("param", <<3, "','", 4>>)
      /\ ReturnFits("param", 3) /\ ReturnFits("param", 4)
  BY DEF MoveFits, ReturnFits
<1> QED
  BY <1>1 DEF RuleFits, OperationParamRule, Rule

LEMMA SignalRuleFits == RuleFits("signal", SignalRule)
<1>1. /\ MoveFits("signal", <<0, "meta", 0>>)
      /\ MoveFits("signal", <<0, "'signal'", 1>>)
      /\ MoveFits("signal", <<1, "name", 2>>)
      /\ MoveFits("signal", <<2, "'('", 3>>)
      /\ MoveFits("signal", <<3, "param", 3>>)
      /\ MoveFits("signal", <<3, "')'", 4>>)
      /\ MoveFits("signal", <<4, "';'", 5>>)
      /\ ReturnFits("signal", 4) /\ ReturnFits("signal", 5)
  BY DEF MoveFits, ReturnFits
<1> QED
  BY <1>1 DEF RuleFits, SignalRule, Rule

LEMMA StructRuleFits == RuleFits("struct", StructRule)
<1>1. /\ MoveFits("struct", <<0, "meta", 0>>)
      /\ MoveFits("struct", <<0, "'struct'", 1>>)
      /\ MoveFits("struct", <<1, "name", 2>>)
      /\ MoveFits("struct", <<2, "'{'", 3>>)
      /\ MoveFits("struct", <<3, "field", 3>>)
      /\ MoveFits("struct", <<3, "'}'", 4>>)
      /\ ReturnFits("struct", 4)
  BY DEF MoveFits, ReturnFits
<1> QED
  BY <1>1 DEF RuleFits, StructRule, Rule

LEMMA StructFieldRuleFits == RuleFits("field", StructFieldRule)
<1>1. /\ MoveFits("field", <<0, "meta", 0>>)
      /\ MoveFits("field", <<0, "readonly", 1>>)
      /\ MoveFits("field", <<0, "name", 2>>)
      /\ MoveFits("field", <<1, "name", 2>>)
      /\ MoveFits("field", <<2, "':'", 3>>)
      /\ MoveFits("field", <<3, "schema", 4>>)
      /\ MoveFits("field", <<4, "';'", 5>>)
      /\ ReturnFits("field", 4) /\ ReturnFits("field", 5)
  BY DEF MoveFits, ReturnFits
<1> QED
  BY <1>1 DEF RuleFits, StructFieldRule, Typed, Rule

LEMMA EnumRuleFits == RuleFits("enum", EnumRule)
<1>1. /\ MoveFits("enum", <<0, "meta", 0>>)
      /\ MoveFits("enum", <<0, "'enum'", 1>>)
      /\ MoveFits("enum", <<1, "name", 2>>)
      /\ MoveFits("enum", <<2, "'{'", 3>>)
      /\ MoveFits("enum", <<3, "member", 3>>)
      /\ MoveFits("enum", <<3, "'}'", 4>>)
      /\ ReturnFits("enum", 4)
  BY DEF MoveFits, ReturnFits
<1> QED
  BY <1>1 DEF RuleFits, EnumRule, Rule

LEMMA EnumMemberRuleFits == RuleFits("member", EnumMemberRule)
<1>1. /\ MoveFits("member", <<0, "meta", 0>>)
      /\ MoveFits("member", <<0, "name", 1>>)
      /\ MoveFits("member", <<1, "'='", 2>>)
      /\ MoveFits("member", <<2, "value", 3>>)
      /\ MoveFits("member", <<1, "','", 4>>)
      /\ MoveFits("member", <<3, "','", 4>>)
      /\ ReturnFits("member", 1) /\ ReturnFits("member", 3) /\ ReturnFits("member", 4)
  BY DEF MoveFits, ReturnFits
<1> QED
  BY <1>1 DEF RuleFits, EnumMemberRule, Rule

LEMMA SchemaRuleFits == RuleFits("schema", SchemaRule)
<1>1. /\ MoveFits("schema", <<0, "primitive", 1>>)
      /\ MoveFits("schema", <<0, "symbol", 1>>)
      /\ MoveFits("schema", <<1, "array", 2>>)
      /\ ReturnFits("schema", 1) /\ ReturnFits("schema", 2)
  BY DEF MoveFits, ReturnFits
<1> QED
  BY <1>1 DEF RuleFits, SchemaRule, Rule

LEMMA ArrayRuleFits == RuleFits("array", ArrayRule)
<1>1. /\ MoveFits("array", <<0, "'['", 1>>)
      /\ MoveFits("array", <<1, "']'", 2>>)
      /\ ReturnFits("array", 2)
  BY DEF MoveFits, ReturnFits
<1> QED
  BY <1>1 DEF RuleFits, ArrayRule, Rule

LEMMA PrimitiveSchemaRuleFits == RuleFits("primitive", PrimitiveSchema)
<1>1. /\ MoveFits("primitive", <<0, "name", 1>>)
      /\ ReturnFits("primitive", 1)
  BY DEF MoveFits, ReturnFits
<1> QED
  BY <1>1 DEF RuleFits, PrimitiveSchema, Rule

LEMMA SymbolSchemaRuleFits == RuleFits("symbol", SymbolSchema)
<1>1. /\ MoveFits("symbol", <<0, "name", 1>>)
      /\ ReturnFits("symbol", 1)
  BY DEF MoveFits, ReturnFits
<1> QED
  BY <1>1 DEF RuleFits, SymbolSchema, Rule

LEMMA MetaRuleFits == RuleFits("meta", MetaRule)
<1>1. /\ MoveFits("meta", <<0, "tagLine", 1>>)
      /\ MoveFits("meta", <<0, "docLine", 1>>)
      /\ ReturnFits("meta", 1)
  BY DEF MoveFits, ReturnFits
<1> QED
  BY <1>1 DEF RuleFits, MetaRule, Rule

HIDE DEF RuleNames, Calls, Once, Before, Always, Unnamed, Also, Labels

LEMMA GrammarFits ==
  /\ DOMAIN Grammar = RuleNames
  /\ \A r \in RuleNames : RuleFits(r, Grammar[r])
<1>1. DOMAIN Grammar = RuleNames
  BY DEF Grammar, RuleNames
<1>2. ASSUME NEW r \in RuleNames PROVE RuleFits(r, Grammar[r])
  BY DocumentRuleFits, HeaderRuleFits, ModuleRuleFits, ImportRuleFits, DeclarationsRuleFits,
     ExternRuleFits,
     InterfaceRuleFits, InterfaceMembersRuleFits, PropertyRuleFits, OperationRuleFits, OperationReturnRuleFits,
     OperationParamRuleFits, SignalRuleFits, StructRuleFits, StructFieldRuleFits, EnumRuleFits, EnumMemberRuleFits,
     SchemaRuleFits, ArrayRuleFits, PrimitiveSchemaRuleFits, SymbolSchemaRuleFits, MetaRuleFits
  DEF Grammar, RuleNames
<1> QED
  BY <1>1, <1>2

LEMMA CallsUp ==
  ASSUME NEW p, NEW r, Calls(p, r)
  PROVE  Rank(p) \in Nat /\ Rank(r) \in Nat /\ Rank(p) < Rank(r)
BY DEF Calls, Rank

----------------
(* The bounds, the names, and the first state of the parser. *)

(* What is assumed of documents.                                           *)
LEMMA Bounds == MaxErrors \in Nat /\ MaxModules \in Nat \ {0}
BY DocumentAssumption

LEMMA NilIsNew == Nil \notin Text /\ Nil \notin Int /\ NoNumber # Nil
BY NilAssumption, DocumentAssumption

LEMMA NameFacts ==
  ASSUME NEW r \in RuleNames
  PROVE  NameOf(r) \subseteq Text /\ Nil \notin NameOf(r)
<1>1. NamesOf[r] \in SUBSET Text
  BY GrammarFits, DocumentAssumption
<1>2. MissingToken \in Text
  BY DocumentAssumption
<1> QED
  BY <1>1, <1>2, NilIsNew DEF NameOf

LEMMA AnyFacts ==
  /\ Nil \in AnyName /\ Nil \in AnyAlso
  /\ \A r \in RuleNames : NameOf(r) \subseteq AnyName
  /\ \A r \in RuleNames : AlsoOf(r) \subseteq AnyAlso
<1>1. \A r \in RuleNames : NameOf(r) \subseteq AnyName
  BY Zenon DEF AnyName, Names
<1>2. \A r \in RuleNames : AlsoOf(r) \subseteq AnyAlso
  BY Zenon DEF AnyAlso, Alsos
<1>3. Nil \in AnyName
  BY DEF AnyName
<1>4. Nil \in AnyAlso
  BY DEF AnyAlso
<1> QED
  BY <1>1, <1>2, <1>3, <1>4

LEMMA ParserInit ==
  ASSUME Init
  PROVE  ParserInv
<1>1. tree = <<Context("document", 0)>> /\ stack = <<Frame("document", 1)>>
  BY DEF Init
<1>2. Context("document", 0) \in Contexts /\ Frame("document", 1) \in Frames
  BY AnyFacts DEF Context, Contexts, Frame, Frames, RuleNames
<1>3. /\ tree \in Seq(Contexts) /\ stack \in Seq(Frames)
      /\ Len(tree) = 1 /\ Len(stack) = 1 /\ stack # <<>>
  BY <1>1, <1>2
<1>4. /\ tree[1].rule = "document" /\ tree[1].parent = 0 /\ tree[1].name = Nil
      /\ tree[1].also = Nil
      /\ stack[1].rule = "document" /\ stack[1].node = 1 /\ stack[1].pos = 0
  BY <1>1 DEF Context, Frame
<1>5. \A i \in 1 .. Len(tree) : i = 1
  BY <1>3
<1>6. \A k \in 1 .. Len(stack) : k = 1
  BY <1>3
<1>7. OnStack(1)
  BY <1>3, <1>4 DEF OnStack, Runs
<1>8. ParserTypes
  <2>1. errors = 0 /\ recovering = FALSE /\ phase = "parse"
    BY DEF Init
  <2>2. 0 \in 0 .. MaxErrors
    BY Bounds
  <2> QED
    BY <1>3, <2>1, <2>2 DEF ParserTypes
<1>9. Called /\ Nested /\ CalledOnce
  BY <1>3, <1>4, <1>5 DEF Called, Nested, CalledOnce
<1>10. HeaderFirst
  BY <1>3, <1>4, <1>5, <1>7 DEF HeaderFirst
<1>11. Written
  BY <1>3, <1>4, <1>5 DEF Written
<1>12. Whole
  BY <1>3, <1>4, <1>5, <1>6, <1>7 DEF Whole, Init, Unnamed
<1>13. StackFits /\ StackIsOpen
  BY <1>3, <1>4, <1>5, <1>6 DEF StackFits, StackIsOpen
<1>14. Positions
  <2>1. ~ HasCalled(1)
    BY <1>3 DEF HasCalled, CallsOnce
  <2>2. Before("document") = {0}
    BY DEF Before
  <2> QED
    BY <1>3, <1>4, <1>6, <2>1, <2>2 DEF Positions
<1> QED
  BY <1>8, <1>9, <1>10, <1>11, <1>12, <1>13, <1>14 DEF ParserInv, TreeInv

(* What a rule function that runs finds.                                   *)
LEMMA TopFacts ==
  ASSUME ParserInv, phase = "parse"
  PROVE  /\ Len(stack) \in Nat \ {0} /\ Len(tree) \in Nat \ {0}
         /\ DOMAIN stack = 1 .. Len(stack) /\ DOMAIN tree = 1 .. Len(tree)
         /\ Top = stack[Len(stack)] /\ Top \in Frames
         /\ Top.rule \in RuleNames /\ Top.node \in 1 .. Len(tree) /\ Top.pos \in Nat
         /\ tree[Top.node].rule = Top.rule
         /\ \A m \in Moves : m[1] = Top.pos /\ MoveFits(Top.rule, m)
         /\ MayReturn => ReturnFits(Top.rule, Top.pos)
         /\ \A k \in 1 .. Len(stack) : stack[k].node <= Top.node
<1>1. /\ stack \in Seq(Frames) /\ stack # <<>> /\ tree \in Seq(Contexts) /\ Len(tree) >= 1
      /\ Len(stack) \in Nat /\ Len(tree) \in Nat
  BY DEF ParserInv, ParserTypes, TreeInv, Called
<1>2. Len(stack) \in Nat \ {0} /\ Len(tree) \in Nat \ {0}
  BY <1>1, EmptySeq
<1>3. Top = stack[Len(stack)] /\ Top \in Frames
  BY <1>1, <1>2 DEF Top
<1>4. Top.rule \in RuleNames /\ Top.pos \in Nat /\ Top.node \in Nat
  BY <1>3 DEF Frames
<1>5. Top.node \in 1 .. Len(tree) /\ tree[Top.node].rule = Top.rule
  BY <1>2, <1>3 DEF ParserInv, StackFits
<1>6. RuleFits(Top.rule, Grammar[Top.rule])
  BY <1>4, GrammarFits
<1>7. \A m \in Moves : m[1] = Top.pos /\ MoveFits(Top.rule, m)
  BY <1>6 DEF Moves, RuleFits
<1>8. MayReturn => ReturnFits(Top.rule, Top.pos)
  BY <1>6 DEF MayReturn, RuleFits
<1>9. \A k \in 1 .. Len(stack) : stack[k].node <= Top.node
  <2> TAKE k \in 1 .. Len(stack)
  <2>1. stack[k].node \in 1 .. Len(tree)
    BY DEF ParserInv, StackFits
  <2>2. k = Len(stack) \/ k < Len(stack)
    BY <1>2
  <2>3. k < Len(stack) => stack[k].node < stack[Len(stack)].node
    BY <1>2 DEF ParserInv, StackFits
  <2> QED
    BY <2>1, <2>2, <2>3, <1>3, <1>4, <1>1
<1> QED
  BY <1>1, <1>2, <1>3, <1>4, <1>5, <1>7, <1>8, <1>9

(* At moves the function on top and leaves the others where they are.      *)
LEMMA AtFacts ==
  ASSUME NEW s \in Seq(Frames), s # <<>>, NEW pos \in Nat,
         NEW t, t = [s EXCEPT ![Len(s)].pos = pos]
  PROVE  /\ t \in Seq(Frames) /\ Len(t) = Len(s) /\ t # <<>>
         /\ \A k \in 1 .. Len(s) : t[k].rule = s[k].rule /\ t[k].node = s[k].node
         /\ \A k \in 1 .. Len(s) : k # Len(s) => t[k] = s[k]
         /\ t[Len(s)].pos = pos
<1>1. Len(s) \in Nat \ {0} /\ DOMAIN s = 1 .. Len(s) /\ Len(s) \in 1 .. Len(s)
  BY EmptySeq, LenProperties
<1>2. s[Len(s)] \in Frames
  BY <1>1
<1>3. [s[Len(s)] EXCEPT !.pos = pos] \in Frames
  BY <1>2 DEF Frames
<1>4. t = [s EXCEPT ![Len(s)] = [s[Len(s)] EXCEPT !.pos = pos]]
  OBVIOUS
<1>5. /\ t \in Seq(Frames) /\ Len(t) = Len(s)
      /\ \A k \in 1 .. Len(s) : t[k] = IF k = Len(s) THEN [s[Len(s)] EXCEPT !.pos = pos] ELSE s[k]
  BY <1>1, <1>3, <1>4, ExceptSeq
<1>6. LET f == [s[Len(s)] EXCEPT !.pos = pos]
      IN f.rule = s[Len(s)].rule /\ f.node = s[Len(s)].node /\ f.pos = pos
  BY <1>2 DEF Frames
<1>7. t # <<>>
  BY <1>1, <1>5
<1> QED
  BY <1>1, <1>5, <1>6, <1>7

----------------
(* A rule calls another (the MatchRule alternatives of Parse). *)

LEMMA GrowFacts ==
  ASSUME ParserInv, phase = "parse", NEW m \in Moves, EnterRule(m)
  PROVE  GrownBy(m) /\ MoveFits(Top.rule, m) /\ m[2] \in RuleNames /\ m[1] = Top.pos
<1> DEFINE n == Len(tree)
           k == Len(stack)
<1>1. m[2] \in RuleNames /\ MoveFits(Top.rule, m) /\ m[1] = Top.pos
  BY TopFacts, GrammarFits DEF EnterRule
<1>2. m[3] \in Nat
  BY <1>1 DEF MoveFits
<1>3. tree' = Append(tree, Context(m[2], Top.node))
  BY DEF EnterRule
<1>4. stack' = Append(At(m[3]), Frame(m[2], n + 1))
  BY DEF EnterRule
<1>5. tree \in Seq(Contexts) /\ stack \in Seq(Frames) /\ stack # <<>> /\ n \in Nat /\ k \in Nat \ {0}
  BY TopFacts DEF ParserInv, ParserTypes
<1>6. Context(m[2], Top.node) \in Contexts
  <2>1. Top.node \in Nat
    BY TopFacts
  <2> QED
    BY <1>1, <2>1, AnyFacts DEF Context, Contexts
<1>7. Frame(m[2], n + 1) \in Frames
  BY <1>1, <1>5 DEF Frame, Frames
<1>8. /\ Len(tree') = n + 1 /\ tree' \in Seq(Contexts)
      /\ \A i \in 1 .. n : tree'[i] = tree[i]
      /\ tree'[n + 1] = Context(m[2], Top.node)
  BY <1>3, <1>5, <1>6, AppendProperties
<1> DEFINE s == At(m[3])
<1>9. /\ s \in Seq(Frames) /\ Len(s) = k
      /\ \A l \in 1 .. k : s[l].rule = stack[l].rule /\ s[l].node = stack[l].node
      /\ \A l \in 1 .. k : l # k => s[l] = stack[l]
      /\ s[k].pos = m[3]
  <2>1. s = [stack EXCEPT ![Len(stack)].pos = m[3]]
    BY DEF At
  <2> HIDE DEF s
  <2>2. Len(stack) = k /\ m[3] \in Nat /\ stack \in Seq(Frames) /\ stack # <<>>
    BY <1>2, <1>5
  <2>3. /\ s \in Seq(Frames) /\ Len(s) = Len(stack)
        /\ \A l \in 1 .. Len(stack) : s[l].rule = stack[l].rule /\ s[l].node = stack[l].node
        /\ \A l \in 1 .. Len(stack) : l # Len(stack) => s[l] = stack[l]
        /\ s[Len(stack)].pos = m[3]
    BY <2>1, <2>2, AtFacts
  <2> QED
    BY <2>2, <2>3
<1>10. /\ Len(stack') = k + 1 /\ stack' \in Seq(Frames) /\ stack' # <<>>
       /\ \A l \in 1 .. k : stack'[l] = s[l]
       /\ stack'[k + 1] = Frame(m[2], n + 1)
  <2> DEFINE f == Frame(m[2], n + 1)
  <2>1. stack' = Append(s, f)
    BY <1>4
  <2>2. s \in Seq(Frames) /\ f \in Frames /\ Len(s) = k
    BY <1>7, <1>9
  <2> HIDE DEF f, s, k
  <2>3. /\ Append(s, f) \in Seq(Frames) /\ Append(s, f) # <<>> /\ Len(Append(s, f)) = k + 1
        /\ \A l \in 1 .. k : Append(s, f)[l] = s[l]
        /\ Append(s, f)[k + 1] = f
    BY <2>2, AppendProperties
  <2> QED
    BY <2>1, <2>3 DEF f
<1> HIDE DEF s
<1>11. /\ Context(m[2], Top.node).rule = m[2] /\ Context(m[2], Top.node).parent = Top.node
       /\ Context(m[2], Top.node).name = Nil /\ Context(m[2], Top.node).also = Nil
  BY DEF Context
<1>12. /\ Frame(m[2], n + 1).rule = m[2] /\ Frame(m[2], n + 1).node = n + 1
       /\ Frame(m[2], n + 1).pos = 0
  BY DEF Frame
<1>13. GrownBy(m)
  <2>1. k \in 1 .. k
    BY <1>5
  <2> QED
    BY <1>8, <1>9, <1>10, <1>11, <1>12, <2>1 DEF GrownBy
<1> QED
  BY <1>1, <1>13

LEMMA GrownCalls ==
  ASSUME ParserInv, phase = "parse", NEW m \in Moves, EnterRule(m)
  PROVE  \A i \in 1 .. Len(tree) : CallsOnce(tree', i) <=>
           HasCalled(i) \/ (i = Top.node /\ Once(Top.rule, m[2]))
<1> DEFINE n == Len(tree)
<1>1. GrownBy(m) /\ n \in Nat \ {0} /\ Top.node \in 1 .. n /\ tree[Top.node].rule = Top.rule
  BY GrowFacts, TopFacts
<1> TAKE i \in 1 .. Len(tree)
<1>2. tree'[i].rule = tree[i].rule
  BY <1>1 DEF GrownBy
<1>3. ASSUME HasCalled(i) PROVE CallsOnce(tree', i)
  BY <1>1, <1>2, <1>3 DEF HasCalled, CallsOnce, GrownBy
<1>4. ASSUME i = Top.node, Once(Top.rule, m[2]) PROVE CallsOnce(tree', i)
  <2>1. n + 1 \in 2 .. Len(tree')
    BY <1>1 DEF GrownBy
  <2>2. tree'[n + 1].parent = i /\ tree'[n + 1].rule = m[2]
    BY <1>1, <1>4 DEF GrownBy
  <2>3. Once(tree'[i].rule, tree'[n + 1].rule)
    BY <1>1, <1>2, <1>4, <2>2
  <2> QED
    BY <2>1, <2>2, <2>3 DEF HasCalled, CallsOnce
<1>5. ASSUME CallsOnce(tree', i) PROVE HasCalled(i) \/ (i = Top.node /\ Once(Top.rule, m[2]))
  <2>1. PICK j \in 2 .. Len(tree') : tree'[j].parent = i /\ Once(tree'[i].rule, tree'[j].rule)
    BY <1>5 DEF HasCalled, CallsOnce
  <2>2. CASE j = n + 1
    BY <1>1, <1>2, <2>1, <2>2 DEF GrownBy
  <2>3. CASE j # n + 1
    <3>1. j \in 2 .. n /\ tree'[j] = tree[j]
      BY <1>1, <2>1, <2>3 DEF GrownBy
    <3> QED
      BY <1>2, <2>1, <3>1 DEF HasCalled, CallsOnce
  <2> QED
    BY <2>2, <2>3
<1> QED
  BY <1>3, <1>4, <1>5

LEMMA GrowStack ==
  ASSUME ParserInv, phase = "parse", NEW m \in Moves, EnterRule(m)
  PROVE  /\ \A i \in 1 .. Len(tree) : Runs(stack', i) <=> OnStack(i)
         /\ Runs(stack', Len(tree) + 1) /\ ~ CallsOnce(tree', Len(tree) + 1)
<1> DEFINE n == Len(tree)
           k == Len(stack)
<1>1. /\ GrownBy(m) /\ n \in Nat \ {0} /\ k \in Nat \ {0} /\ Top.node \in 1 .. n
      /\ DOMAIN stack = 1 .. k /\ DOMAIN stack' = 1 .. k + 1
  <2>1. GrownBy(m) /\ n \in Nat \ {0} /\ k \in Nat \ {0} /\ Top.node \in 1 .. n
        /\ DOMAIN stack = 1 .. k
    BY GrowFacts, TopFacts
  <2>2. Len(stack') = k + 1 /\ stack' \in Seq(Frames)
    BY <2>1 DEF GrownBy
  <2> QED
    BY <2>1, <2>2
<1>2. \A l \in 1 .. k : stack'[l].node = stack[l].node
  BY <1>1 DEF GrownBy
<1>3. stack'[k + 1].node = n + 1
  BY <1>1 DEF GrownBy
<1>4. \A l \in 1 .. k : stack[l].node \in 1 .. n
  BY DEF ParserInv, StackFits
<1>5. ASSUME NEW i \in 1 .. n PROVE Runs(stack', i) <=> OnStack(i)
  <2>1. ASSUME NEW l \in 1 .. k + 1, stack'[l].node = i PROVE l \in 1 .. k
    BY <1>1, <1>3, <1>5, <2>1
  <2> HIDE DEF n, k
  <2> QED
    BY <1>1, <1>2, <2>1 DEF OnStack, Runs
<1>6. Runs(stack', n + 1)
  BY <1>1, <1>3 DEF OnStack, Runs
<1>7. ~ CallsOnce(tree', n + 1)
  <2>1. \A i \in 2 .. n : tree[i].parent \in 1 .. i - 1
    BY DEF ParserInv, TreeInv, Called
  <2>a. /\ tree'[n + 1].parent = Top.node
        /\ \A i \in 1 .. n : tree'[i] = tree[i]
    BY <1>1 DEF GrownBy
  <2>2. \A i \in 2 .. n + 1 : tree'[i].parent # n + 1
    <3> TAKE i \in 2 .. n + 1
    <3>1. CASE i = n + 1
      BY <1>1, <2>a, <3>1
    <3>2. CASE i # n + 1
      <4>1. i \in 2 .. n /\ tree'[i] = tree[i]
        BY <1>1, <2>a, <3>2
      <4>2. tree[i].parent \in 1 .. i - 1
        BY <2>1, <4>1
      <4> QED
        BY <1>1, <4>1, <4>2
    <3> QED
      BY <3>1, <3>2
  <2> QED
    BY <1>1, <2>2 DEF HasCalled, CallsOnce, GrownBy
<1> QED
  BY <1>5, <1>6, <1>7

LEMMA GrowTree ==
  ASSUME ParserInv, phase = "parse", NEW m \in Moves, EnterRule(m)
  PROVE  Called' /\ Nested' /\ CalledOnce' /\ Written'
<1> DEFINE n == Len(tree)
<1>1. /\ GrownBy(m) /\ n \in Nat \ {0} /\ Top.node \in 1 .. n
      /\ tree[Top.node].rule = Top.rule /\ MoveFits(Top.rule, m) /\ m[2] \in RuleNames
      /\ m[1] = Top.pos
  BY GrowFacts, TopFacts
<1>2. /\ Len(tree') = n + 1 /\ \A i \in 1 .. n : tree'[i] = tree[i]
      /\ tree'[n + 1].rule = m[2] /\ tree'[n + 1].parent = Top.node
      /\ tree'[n + 1].name = Nil /\ tree'[n + 1].also = Nil
  BY <1>1 DEF GrownBy
<1>3. /\ Calls(Top.rule, m[2])
      /\ Once(Top.rule, m[2]) => m[1] \in Before(Top.rule)
  BY <1>1 DEF MoveFits
<1>4. Called /\ Nested /\ CalledOnce /\ Written /\ StackIsOpen /\ Positions
  BY DEF ParserInv, TreeInv
<1>5. Called'
  <2>1. tree'[1] = tree[1] /\ 1 \in 1 .. n
    BY <1>1, <1>2
  <2>2. ASSUME NEW i \in 2 .. n + 1
        PROVE  /\ tree'[i].parent \in 1 .. i - 1
               /\ Calls(tree'[tree'[i].parent].rule, tree'[i].rule)
    <3>1. CASE i = n + 1
      BY <1>1, <1>2, <1>3, <3>1
    <3>2. CASE i # n + 1
      <4>1. i \in 2 .. n /\ tree'[i] = tree[i]
        BY <1>1, <1>2, <3>2
      <4>2. tree[i].parent \in 1 .. i - 1 /\ Calls(tree[tree[i].parent].rule, tree[i].rule)
        BY <1>4, <4>1 DEF Called
      <4>3. tree[i].parent \in 1 .. n
        BY <1>1, <4>1, <4>2
      <4> QED
        BY <1>2, <4>1, <4>2, <4>3
    <3> QED
      BY <3>1, <3>2
  <2> QED
    BY <1>1, <1>2, <1>4, <2>1, <2>2 DEF Called
<1>6. Nested'
  <2> SUFFICES ASSUME NEW i \in 1 .. n + 1, NEW j \in 1 .. n + 1, NEW k \in 1 .. n + 1,
                      i < j, j <= k, tree'[j].parent < i
               PROVE  tree'[k].parent < i \/ tree'[k].parent >= j
    BY <1>2 DEF Nested
  <2>1. CASE k # n + 1
    <3>1. i \in 1 .. n /\ j \in 1 .. n /\ k \in 1 .. n
      BY <1>1, <2>1
    <3> QED
      BY <1>2, <1>4, <3>1 DEF Nested
  <2>2. CASE k = n + 1 /\ j = n + 1
    BY <2>2
  <2>3. CASE k = n + 1 /\ j # n + 1
    <3>1. i \in 1 .. n /\ j \in 1 .. n
      BY <1>1, <2>3
    <3>2. tree[j].parent < i
      BY <1>2, <3>1
    <3>3. Len(stack) \in 1 .. Len(stack) /\ stack[Len(stack)].node = Top.node
      BY TopFacts
    <3>4. Top.node < i \/ Top.node >= j
      BY <1>4, <3>1, <3>2, <3>3 DEF StackIsOpen
    <3> QED
      BY <1>2, <2>3, <3>4
  <2> QED
    BY <2>1, <2>2, <2>3
<1>7. CalledOnce'
  <2>1. ASSUME Once(Top.rule, m[2]), NEW i \in 2 .. n, tree[i].parent = Top.node,
               Once(Top.rule, tree[i].rule)
        PROVE  FALSE
    <3>1. HasCalled(Top.node)
      BY <1>1, <2>1 DEF HasCalled, CallsOnce
    <3>2. Len(stack) \in 1 .. Len(stack) /\ stack[Len(stack)] = Top
      BY TopFacts
    <3> QED
      BY <1>1, <1>3, <1>4, <2>1, <3>1, <3>2 DEF Positions
  <2> SUFFICES ASSUME NEW i \in 2 .. n + 1, NEW j \in 2 .. n + 1,
                      tree'[i].parent = tree'[j].parent,
                      Once(tree'[tree'[i].parent].rule, tree'[i].rule),
                      Once(tree'[tree'[i].parent].rule, tree'[j].rule)
               PROVE  i = j
    BY <1>2 DEF CalledOnce
  <2>2. \A l \in 2 .. n : tree[l].parent \in 1 .. n
    <3> TAKE l \in 2 .. n
    <3>1. tree[l].parent \in 1 .. l - 1
      BY <1>4 DEF Called
    <3> QED
      BY <1>1, <3>1
  <2>3. CASE i # n + 1 /\ j # n + 1
    <3>1. i \in 2 .. n /\ j \in 2 .. n /\ tree'[i] = tree[i] /\ tree'[j] = tree[j]
      BY <1>1, <1>2, <2>3
    <3>2. tree[i].parent \in 1 .. n
      BY <2>2, <3>1
    <3>3. tree'[tree[i].parent].rule = tree[tree[i].parent].rule
      BY <1>2, <3>2
    <3> QED
      BY <1>4, <3>1, <3>3 DEF CalledOnce
  <2>4. CASE i = n + 1 /\ j # n + 1
    <3>1. j \in 2 .. n /\ tree'[j] = tree[j] /\ tree'[Top.node] = tree[Top.node]
      BY <1>1, <1>2, <2>4
    <3> QED
      BY <1>1, <1>2, <2>1, <2>4, <3>1
  <2>5. CASE i # n + 1 /\ j = n + 1
    <3>1. i \in 2 .. n /\ tree'[i] = tree[i] /\ tree'[Top.node] = tree[Top.node]
      BY <1>1, <1>2, <2>5
    <3> QED
      BY <1>1, <1>2, <2>1, <2>5, <3>1
  <2> QED
    BY <2>3, <2>4, <2>5
<1>8. Written'
  <2> SUFFICES ASSUME NEW i \in 1 .. n + 1
               PROVE  /\ tree'[i].name \in NameOf(tree'[i].rule) \cup {Nil}
                      /\ tree'[i].also \in AlsoOf(tree'[i].rule) \cup {Nil}
    BY <1>2 DEF Written, NameOf, AlsoOf
  <2>1. CASE i = n + 1
    BY <1>2, <2>1
  <2>2. CASE i # n + 1
    <3>1. i \in 1 .. n
      BY <1>1, <2>2
    <3> QED
      BY <1>2, <1>4, <3>1 DEF Written
  <2> QED
    BY <2>1, <2>2
<1> QED
  BY <1>5, <1>6, <1>7, <1>8

LEMMA GrowHeader ==
  ASSUME ParserInv, phase = "parse", NEW m \in Moves, EnterRule(m)
  PROVE  HeaderFirst'
<1> DEFINE n == Len(tree)
<1>1. /\ GrownBy(m) /\ n \in Nat \ {0} /\ Top.node \in 1 .. n
      /\ tree[Top.node].rule = Top.rule /\ MoveFits(Top.rule, m) /\ m[2] \in RuleNames
      /\ m[1] = Top.pos /\ Len(stack) \in 1 .. Len(stack) /\ stack[Len(stack)] = Top
  BY GrowFacts, TopFacts
<1>0. n \in Nat \ {0}
  BY TopFacts
<1>2. /\ Len(tree') = n + 1 /\ \A i \in 1 .. n : tree'[i] = tree[i]
      /\ tree'[n + 1].rule = m[2] /\ tree'[n + 1].parent = Top.node
  BY <1>1 DEF GrownBy
<1>3. Called /\ HeaderFirst /\ Positions
  BY DEF ParserInv, TreeInv
<1>4. ASSUME Top.rule \in {"document", "header"}, ~ HasCalled(Top.node)
      PROVE  Once(Top.rule, m[2])
  <2>1. Top.rule \in Always
    BY <1>4 DEF Always
  <2>2. Top.pos \in Before(Top.rule)
    BY <1>1, <1>3, <1>4, <2>1 DEF Positions
  <2> QED
    BY <1>1, <1>4, <2>2 DEF MoveFits
<1>5. tree'[2].rule = "header"
  <2>1. CASE n >= 2
    BY <1>1, <1>2, <1>3, <2>1 DEF HeaderFirst
  <2>2. CASE n = 1
    <3>1. Top.node = 1 /\ Top.rule = "document"
      BY <1>1, <1>3, <2>2 DEF Called
    <3>2. ~ HasCalled(Top.node)
      BY <2>2 DEF HasCalled, CallsOnce
    <3> QED
      BY <1>2, <1>4, <2>2, <3>1, <3>2 DEF Once
  <2>3. n = 1 \/ n >= 2
    <3> HIDE DEF n
    <3> QED
      BY <1>0
  <2> QED
    BY <2>1, <2>2, <2>3
<1>6. n >= 2 => tree'[3].rule = "module" /\ tree'[3].parent = 2
  <2>1. CASE n >= 3
    BY <1>1, <1>2, <1>3, <2>1 DEF HeaderFirst
  <2>2. CASE n = 2
    <3>1. ~ HasCalled(2)
      <4>1. tree[2].parent # 2
        BY <1>3, <2>2 DEF Called
      <4>2. \A i \in 2 .. Len(tree) : i = 2
        BY <2>2
      <4> QED
        BY <4>1, <4>2 DEF HasCalled, CallsOnce
    <3>2. tree[2].rule = "header"
      BY <1>3, <2>2 DEF HeaderFirst
    <3>3. OnStack(2)
      BY <1>3, <2>2, <3>1, <3>2 DEF HeaderFirst
    <3>4. PICK l \in DOMAIN stack : stack[l].node = 2
      BY <3>3 DEF OnStack, Runs
    <3>5. l \in 1 .. Len(stack) /\ stack[l].node <= Top.node
      BY <3>4, TopFacts
    <3>6. Top.node = 2
      BY <1>1, <2>2, <3>4, <3>5
    <3>7. Top.rule = "header"
      BY <1>1, <3>2, <3>6
    <3> QED
      BY <1>2, <1>4, <2>2, <3>1, <3>6, <3>7 DEF Once
  <2>3. n >= 2 => n = 2 \/ n >= 3
    BY <1>0
  <2> QED
    BY <2>1, <2>2, <2>3
<1>7. ASSUME NEW i \in 1 .. n + 1, tree'[i].rule \in {"document", "header"}, ~ Runs(stack', i)
      PROVE  CallsOnce(tree', i)
  <2>1. i \in 1 .. n
    BY <1>1, <1>7, GrowStack
  <2>2. ~ OnStack(i) /\ tree[i].rule \in {"document", "header"}
    BY <1>2, <1>7, <2>1, GrowStack
  <2>3. HasCalled(i)
    BY <1>3, <2>1, <2>2 DEF HeaderFirst
  <2> QED
    BY <2>1, <2>3, GrownCalls
<1> QED
  BY <1>1, <1>2, <1>5, <1>6, <1>7 DEF HeaderFirst, HasCalled, OnStack

LEMMA StartFits ==
  \A r \in RuleNames : /\ r \in Always => 0 \in Before(r)
                       /\ Unnamed(r) # {} => 0 \in Unnamed(r)
BY DEF Always, Before, Unnamed

LEMMA GrowOpen ==
  ASSUME ParserInv, phase = "parse", NEW m \in Moves, EnterRule(m)
  PROVE  StackFits' /\ StackIsOpen' /\ Positions'
<1> DEFINE n == Len(tree)
           k == Len(stack)
<1>1. /\ GrownBy(m) /\ n \in Nat \ {0} /\ k \in Nat \ {0} /\ Top.node \in 1 .. n
      /\ tree[Top.node].rule = Top.rule /\ MoveFits(Top.rule, m) /\ m[2] \in RuleNames
      /\ m[1] = Top.pos /\ stack[k] = Top
  BY GrowFacts, TopFacts
<1>2. /\ Len(tree') = n + 1 /\ \A i \in 1 .. n : tree'[i] = tree[i]
      /\ tree'[n + 1].rule = m[2] /\ tree'[n + 1].parent = Top.node
  BY <1>1 DEF GrownBy
<1>3. /\ Len(stack') = k + 1
      /\ \A l \in 1 .. k : stack'[l].rule = stack[l].rule /\ stack'[l].node = stack[l].node
      /\ \A l \in 1 .. k : l # k => stack'[l] = stack[l]
      /\ stack'[k].pos = m[3]
      /\ stack'[k + 1].rule = m[2] /\ stack'[k + 1].node = n + 1 /\ stack'[k + 1].pos = 0
  BY <1>1 DEF GrownBy
<1>4. StackFits /\ StackIsOpen /\ Positions
  BY DEF ParserInv
<1>5. \A l \in 1 .. k : /\ stack[l].node \in 1 .. n /\ stack[l].node <= Top.node
                        /\ tree[stack[l].node].rule = stack[l].rule
  BY <1>4, TopFacts DEF StackFits
<1>6. StackFits'
  <2>1. ASSUME NEW l \in 1 .. k + 1
        PROVE  stack'[l].node \in 1 .. n + 1 /\ tree'[stack'[l].node].rule = stack'[l].rule
    <3>1. CASE l = k + 1
      BY <1>1, <1>2, <1>3, <3>1
    <3>2. CASE l # k + 1
      <4>1. l \in 1 .. k
        BY <1>1, <3>2
      <4> QED
        BY <1>1, <1>2, <1>3, <1>5, <4>1
    <3> QED
      BY <3>1, <3>2
  <2>2. ASSUME NEW l \in 1 .. k + 1, NEW h \in 1 .. k + 1, l < h
        PROVE  stack'[l].node < stack'[h].node
    <3>1. l \in 1 .. k
      BY <1>1, <2>2
    <3>2. CASE h = k + 1
      BY <1>1, <1>3, <1>5, <3>1, <3>2
    <3>3. CASE h # k + 1
      <4>1. h \in 1 .. k
        BY <1>1, <3>3
      <4> QED
        BY <1>3, <1>4, <2>2, <3>1, <4>1 DEF StackFits
    <3> QED
      BY <3>2, <3>3
  <2> QED
    BY <1>2, <1>3, <2>1, <2>2 DEF StackFits
<1>7. StackIsOpen'
  <2> SUFFICES ASSUME NEW l \in 1 .. k + 1, NEW i \in 1 .. n + 1, NEW j \in 1 .. n + 1,
                      i < j, tree'[j].parent < i
               PROVE  stack'[l].node < i \/ stack'[l].node >= j
    BY <1>2, <1>3 DEF StackIsOpen
  <2>1. CASE l = k + 1
    BY <1>1, <1>3, <2>1
  <2>2. CASE l # k + 1 /\ j = n + 1
    <3>1. l \in 1 .. k
      BY <1>1, <2>2
    <3>2. stack'[l].node = stack[l].node
      BY <1>3, <3>1
    <3>3. stack[l].node <= Top.node /\ stack[l].node \in 1 .. n
      BY <1>5, <3>1
    <3> QED
      BY <1>1, <1>2, <2>2, <3>2, <3>3
  <2>3. CASE l # k + 1 /\ j # n + 1
    <3>1. l \in 1 .. k /\ i \in 1 .. n /\ j \in 1 .. n
      BY <1>1, <2>3
    <3> QED
      BY <1>2, <1>3, <1>4, <3>1 DEF StackIsOpen
  <2> QED
    BY <2>1, <2>2, <2>3
<1>8. Positions'
  <2> SUFFICES ASSUME NEW l \in 1 .. k + 1
               PROVE  /\ stack'[l].pos \in Before(stack'[l].rule)
                           => ~ CallsOnce(tree', stack'[l].node)
                      /\ stack'[l].pos \notin Before(stack'[l].rule)
                           /\ stack'[l].rule \in Always => CallsOnce(tree', stack'[l].node)
    <3> HIDE DEF k, n
    <3> QED
      BY <1>3, Zenon DEF Positions, HasCalled
  <2>1. CASE l = k + 1
    <3>1. ~ CallsOnce(tree', n + 1)
      BY GrowStack
    <3>2. stack'[l].node = n + 1 /\ stack'[l].pos = 0 /\ stack'[l].rule = m[2]
      BY <1>3, <2>1
    <3>3. ~ CallsOnce(tree', stack'[l].node)
      BY <3>1, <3>2 DEF HasCalled, CallsOnce
    <3>4. ~ (0 \notin Before(m[2]) /\ m[2] \in Always)
      BY <1>1, StartFits
    <3> QED
      BY <3>2, <3>3, <3>4
  <2>2. CASE l = k
    <3>1. stack'[l].node = Top.node /\ stack'[l].rule = Top.rule /\ stack'[l].pos = m[3]
      BY <1>1, <1>3, <2>2
    <3>2. CallsOnce(tree', stack'[l].node) <=> HasCalled(Top.node) \/ Once(Top.rule, m[2])
      <4>1. CallsOnce(tree', stack'[l].node) <=> CallsOnce(tree', Top.node)
        BY <3>1 DEF HasCalled, CallsOnce
      <4> QED
        BY <1>1, <4>1, GrownCalls
    <3>3. /\ Top.pos \in Before(Top.rule) => ~ HasCalled(Top.node)
          /\ Top.pos \notin Before(Top.rule) /\ Top.rule \in Always => HasCalled(Top.node)
      BY <1>1, <1>4 DEF Positions
    <3>4. /\ Once(Top.rule, m[2]) => m[3] \notin Before(Top.rule)
          /\ Top.pos \notin Before(Top.rule) => m[3] \notin Before(Top.rule)
          /\ Top.rule \in Always /\ Top.pos \in Before(Top.rule) /\ m[3] \notin Before(Top.rule)
               => Once(Top.rule, m[2])
      BY <1>1 DEF MoveFits
    <3> QED
      BY <3>1, <3>2, <3>3, <3>4
  <2>3. CASE l # k /\ l # k + 1
    <3>1. l \in 1 .. k /\ l < k
      BY <1>1, <2>3
    <3>2. stack'[l] = stack[l]
      BY <1>3, <2>3, <3>1
    <3>3. stack[l].node \in 1 .. n /\ stack[l].node # Top.node
      <4>1. stack[l].node < stack[k].node
        BY <1>1, <1>4, <3>1 DEF StackFits
      <4> QED
        BY <1>1, <1>5, <3>1, <4>1
    <3>4. CallsOnce(tree', stack'[l].node) <=> HasCalled(stack[l].node)
      <4>1. CallsOnce(tree', stack'[l].node) <=> \E i \in 2 .. Len(tree') :
              tree'[i].parent = stack[l].node /\ Once(tree'[stack[l].node].rule, tree'[i].rule)
        BY <3>2 DEF HasCalled, CallsOnce
      <4> DEFINE q == stack[l].node
      <4>2. CallsOnce(tree', stack'[l].node) <=> \E i \in 2 .. Len(tree') :
              tree'[i].parent = q /\ Once(tree'[q].rule, tree'[i].rule)
        BY <4>1
      <4>3. ASSUME NEW i \in 2 .. n PROVE tree'[i] = tree[i]
        BY <1>1, <1>2
      <4>4. tree'[q] = tree[q]
        BY <1>2, <3>3
      <4>5. tree'[n + 1].parent # q
        BY <1>2, <3>3
      <4>6. \A i \in 2 .. n + 1 : i = n + 1 \/ i \in 2 .. n
        BY <1>1
      <4>7. 2 .. n \subseteq 2 .. n + 1
        BY <1>1
      <4>8. HasCalled(q) <=> \E i \in 2 .. n :
              tree[i].parent = q /\ Once(tree[q].rule, tree[i].rule)
        BY DEF HasCalled, CallsOnce
      <4> HIDE DEF q
      <4>9. CallsOnce(tree', stack'[l].node) <=> HasCalled(q)
        BY <1>2, <4>2, <4>3, <4>4, <4>5, <4>6, <4>7, <4>8
      <4> QED
        BY <4>9 DEF q
    <3> QED
      BY <1>4, <3>1, <3>2, <3>4 DEF Positions
  <2> QED
    BY <2>1, <2>2, <2>3
<1> QED
  BY <1>6, <1>7, <1>8

LEMMA GrowWhole ==
  ASSUME ParserInv, phase = "parse", NEW m \in Moves, EnterRule(m)
  PROVE  Whole'
<1> DEFINE n == Len(tree)
           k == Len(stack)
<1>1. /\ GrownBy(m) /\ n \in Nat \ {0} /\ k \in Nat \ {0} /\ Top.node \in 1 .. n
      /\ MoveFits(Top.rule, m) /\ m[2] \in RuleNames
      /\ m[1] = Top.pos /\ stack[k] = Top
  BY GrowFacts, TopFacts
<1>2. /\ Len(tree') = n + 1 /\ \A i \in 1 .. n : tree'[i] = tree[i]
      /\ tree'[n + 1].rule = m[2] /\ tree'[n + 1].also = Nil
  BY <1>1 DEF GrownBy
<1>3. /\ Len(stack') = k + 1
      /\ \A l \in 1 .. k : stack'[l].rule = stack[l].rule /\ stack'[l].node = stack[l].node
      /\ \A l \in 1 .. k : l # k => stack'[l] = stack[l]
      /\ stack'[k].pos = m[3]
      /\ stack'[k + 1].rule = m[2] /\ stack'[k + 1].pos = 0
  BY <1>1 DEF GrownBy
<1>4. errors' = errors /\ recovering' = recovering
  BY DEF EnterRule
<1>5. \A l \in 1 .. k : stack[l].node \in 1 .. n
  BY DEF ParserInv, StackFits
<1> SUFFICES ASSUME errors = 0
             PROVE  Whole'
  BY <1>4 DEF Whole
<1>6. Whole
  BY DEF ParserInv, TreeInv
<1>7. ~ recovering
  BY <1>6 DEF Whole
<1>8. ASSUME NEW i \in 1 .. n + 1, ~ Runs(stack', i)
      PROVE  /\ Unnamed(tree'[i].rule) # {} => tree'[i].name # Nil
             /\ tree'[i].rule \in Always => CallsOnce(tree', i)
  <2>1. i \in 1 .. n
    BY <1>1, <1>8, GrowStack
  <2>2. ~ OnStack(i)
    BY <1>8, <2>1, GrowStack
  <2>3. tree'[i] = tree[i]
    BY <1>2, <2>1
  <2>4. HasCalled(i) => CallsOnce(tree', i)
    BY <2>1, GrownCalls
  <2> QED
    BY <1>6, <2>1, <2>2, <2>3, <2>4 DEF Whole
<1>9. ASSUME NEW i \in 1 .. n + 1, tree'[i].rule = "member"
      PROVE  tree'[i].also # NoNumber
  <2>1. CASE i = n + 1
    BY <1>2, <2>1, NilIsNew
  <2>2. CASE i # n + 1
    <3>1. i \in 1 .. n
      BY <1>1, <2>2
    <3> QED
      BY <1>2, <1>6, <1>9, <3>1 DEF Whole
  <2> QED
    BY <2>1, <2>2
<1>10. ASSUME NEW l \in 1 .. k + 1, Unnamed(stack'[l].rule) # {},
              stack'[l].pos \notin Unnamed(stack'[l].rule)
       PROVE  tree'[stack'[l].node].name # Nil
  <2>1. CASE l = k + 1
    BY <1>1, <1>3, <1>10, <2>1, StartFits
  <2>2. l # k + 1 => l \in 1 .. k
    BY <1>1
  <2>3. CASE l # k + 1
    <3>1. stack[l].pos \notin Unnamed(stack[l].rule)
      <4>1. CASE l = k
        <5>1. m[3] \notin Unnamed(Top.rule)
          BY <1>1, <1>3, <1>10, <2>2, <2>3, <4>1
        <5>2. m[2] # "name"
          BY <1>1 DEF RuleNames
        <5> QED
          BY <1>1, <4>1, <5>1, <5>2 DEF MoveFits
      <4>2. CASE l # k
        BY <1>3, <1>10, <2>2, <2>3, <4>2
      <4> QED
        BY <4>1, <4>2
    <3>2. tree[stack[l].node].name # Nil
      BY <1>3, <1>6, <1>10, <2>2, <2>3, <3>1 DEF Whole
    <3> QED
      BY <1>2, <1>3, <1>5, <2>2, <2>3, <3>2
  <2> QED
    BY <2>1, <2>3
<1> QED
  <2> HIDE DEF k, n
  <2> QED
    BY <1>2, <1>3, <1>4, <1>7, <1>8, <1>9, <1>10 DEF Whole, HasCalled, OnStack

LEMMA GrowInv ==
  ASSUME ParserInv, phase = "parse", NEW m \in Moves, EnterRule(m)
  PROVE  ParserInv'
<1>1. ParserTypes'
  <2>1. tree' \in Seq(Contexts) /\ stack' \in Seq(Frames) /\ stack' # <<>>
    BY GrowFacts DEF GrownBy
  <2>2. errors' = errors /\ recovering' = recovering /\ phase' = phase
    BY DEF EnterRule, Parsing
  <2>3. errors \in 0 .. MaxErrors /\ recovering \in BOOLEAN
    BY DEF ParserInv, ParserTypes
  <2> QED
    BY <2>1, <2>2, <2>3 DEF ParserTypes
<1> QED
  BY <1>1, GrowTree, GrowHeader, GrowOpen, GrowWhole DEF ParserInv, TreeInv

----------------
(* A token is matched, made up or skipped. *)

LEMMA LabelFacts ==
  ASSUME ParserInv, phase = "parse", NEW token, NEW text, Reads(Top.rule, token, text),
         tree' = Label(token, text)
  PROVE  /\ WrittenBy(token)
         /\ token \notin Labels \ {"name"} => tree'[Top.node].also = tree[Top.node].also
         /\ token \in Labels \ {"name"} => tree'[Top.node].also = text
<1> DEFINE n == Len(tree)
           c == tree[Top.node]
<1>1. /\ tree \in Seq(Contexts) /\ n \in Nat /\ Top.node \in 1 .. n
      /\ Top.rule \in RuleNames /\ c.rule = Top.rule
  BY TopFacts DEF ParserInv, ParserTypes
<1>2. c \in Contexts /\ DOMAIN tree = 1 .. n
  BY <1>1
<1>3. Written
  BY DEF ParserInv, TreeInv
<1>4. c.name \in NameOf(Top.rule) \cup {Nil} /\ c.also \in AlsoOf(Top.rule) \cup {Nil}
  BY <1>1, <1>3 DEF Written
<1>5. /\ NameOf(Top.rule) \subseteq AnyName /\ AlsoOf(Top.rule) \subseteq AnyAlso
      /\ Nil \notin NameOf(Top.rule)
  BY <1>1, AnyFacts, NameFacts
<1> DEFINE Put(d) == [tree EXCEPT ![Top.node] = d]
<1>6. ASSUME NEW d \in Contexts, d.rule = c.rule, d.parent = c.parent, tree' = Put(d)
      PROVE  /\ tree' \in Seq(Contexts) /\ Len(tree') = n
             /\ \A i \in 1 .. n : /\ tree'[i].rule = tree[i].rule
                                  /\ tree'[i].parent = tree[i].parent
                                  /\ i # Top.node => tree'[i] = tree[i]
             /\ tree'[Top.node] = d
  <2>1. tree' \in Seq(Contexts) /\ Len(tree') = n
        /\ \A i \in 1 .. n : tree'[i] = IF i = Top.node THEN d ELSE tree[i]
    BY <1>1, <1>2, <1>6, ExceptSeq
  <2> QED
    BY <1>1, <1>6, <2>1
<1>7. CASE token = "name"
  <2> DEFINE d == [c EXCEPT !.name = text]
  <2>1. text \in AnyName /\ text \in NameOf(Top.rule)
    BY <1>5, <1>7 DEF Reads
  <2>2. d \in Contexts /\ d.rule = c.rule /\ d.parent = c.parent /\ d.name = text
        /\ d.also = c.also
    BY <1>2, <2>1 DEF Contexts
  <2>3. tree' = Put(d)
    BY <1>7 DEF Label
  <2>4. /\ tree' \in Seq(Contexts) /\ Len(tree') = n /\ tree'[Top.node] = d
        /\ \A i \in 1 .. n : /\ tree'[i].rule = tree[i].rule
                             /\ tree'[i].parent = tree[i].parent
                             /\ i # Top.node => tree'[i] = tree[i]
    <3> HIDE DEF d, c
    <3> QED
      BY <1>6, <2>2, <2>3
  <2> HIDE DEF d
  <2> QED
    BY <1>4, <1>5, <1>7, <2>1, <2>2, <2>4 DEF WrittenBy
<1>8. CASE token \in Labels \ {"name"}
  <2> DEFINE d == [c EXCEPT !.also = text]
  <2>1. text \in AnyAlso /\ text \in AlsoOf(Top.rule)
    BY <1>5, <1>8 DEF Reads
  <2>2. d \in Contexts /\ d.rule = c.rule /\ d.parent = c.parent /\ d.also = text
        /\ d.name = c.name
    BY <1>2, <2>1 DEF Contexts
  <2>3. tree' = Put(d)
    BY <1>8 DEF Label
  <2>4. /\ tree' \in Seq(Contexts) /\ Len(tree') = n /\ tree'[Top.node] = d
        /\ \A i \in 1 .. n : /\ tree'[i].rule = tree[i].rule
                             /\ tree'[i].parent = tree[i].parent
                             /\ i # Top.node => tree'[i] = tree[i]
    <3> HIDE DEF d, c
    <3> QED
      BY <1>6, <2>2, <2>3
  <2> HIDE DEF d
  <2> QED
    BY <1>4, <1>8, <2>1, <2>2, <2>4 DEF WrittenBy
<1>9. CASE token \notin Labels
  <2>1. token # "name" /\ token \notin Labels \ {"name"}
    BY <1>9 DEF Labels
  <2>2. tree' = tree
    BY <2>1 DEF Label
  <2> QED
    BY <1>1, <1>4, <2>1, <2>2 DEF WrittenBy
<1> QED
  BY <1>7, <1>8, <1>9

LEMMA AlsoFacts ==
  /\ \A r \in RuleNames : "extends" \in Also(r) => r = "interface"
  /\ \A r \in RuleNames : "value" \in Also(r) => r = "member"
  /\ \A r \in RuleNames : \A t : t \in Also(r) /\ t \notin {"extends", "value"} =>
       t \in AlsoOf(r) /\ t \in Optional /\ r # "member"
<1>1. \A r \in RuleNames : "extends" \in Also(r) => r = "interface"
  BY DEF Also, RuleNames
<1>2. \A r \in RuleNames : "value" \in Also(r) => r = "member"
  BY DEF Also, RuleNames
<1>3. ASSUME NEW r \in RuleNames, NEW t, t \in Also(r), t \notin {"extends", "value"}
      PROVE  t \in AlsoOf(r) /\ t \in Optional /\ r # "member"
  <2>1. r # "interface" /\ r # "member"
    BY <1>3 DEF Also
  <2>2. AlsoOf(r) = Also(r)
    BY <2>1 DEF AlsoOf
  <2>3. t \in {"version", "readonly", "tagLine", "docLine"}
    BY <1>3, <2>1 DEF Also, RuleNames
  <2> QED
    BY <1>3, <2>1, <2>2, <2>3 DEF Optional
<1> QED
  BY <1>1, <1>2, <1>3

LEMMA MatchReads ==
  ASSUME ParserInv, phase = "parse", NEW m \in Moves, NEW text \in TextsOf(m[2])
  PROVE  /\ Reads(Top.rule, m[2], text)
         /\ Top.rule = "member" /\ m[2] \in Labels \ {"name"} => text # NoNumber
<1>1. Top.rule \in RuleNames /\ (m[2] \in Labels => m[2] \in Also(Top.rule) \cup {"name"})
  BY TopFacts DEF MoveFits
<1>2. CASE m[2] = "name"
  BY <1>2 DEF TextsOf, Reads, NameOf
<1>3. CASE m[2] = "extends"
  <2>1. Top.rule = "interface"
    BY <1>1, <1>3, AlsoFacts DEF Labels
  <2> QED
    BY <1>3, <2>1 DEF TextsOf, Reads, AlsoOf
<1>4. CASE m[2] = "value"
  <2>1. Top.rule = "member"
    BY <1>1, <1>4, AlsoFacts DEF Labels
  <2>2. text \in Values
    BY <1>4 DEF TextsOf
  <2>3. text # NoNumber
    BY <2>2, DocumentAssumption
  <2> QED
    BY <1>4, <2>1, <2>2, <2>3 DEF Reads, AlsoOf
<1>5. CASE m[2] \in Labels \ {"name", "extends", "value"}
  <2>1. text = m[2]
    BY <1>5 DEF TextsOf
  <2>2. m[2] \in AlsoOf(Top.rule) /\ Top.rule # "member"
    BY <1>1, <1>5, AlsoFacts
  <2> QED
    BY <1>5, <2>1, <2>2 DEF Reads
<1>6. CASE m[2] \notin Labels
  BY <1>6 DEF Labels, Reads
<1> QED
  BY <1>2, <1>3, <1>4, <1>5, <1>6

LEMMA ConjureReads ==
  ASSUME ParserInv, phase = "parse", NEW m \in Moves, m[2] \notin Optional,
         NEW text, text = IF m[2] = "value" THEN NoNumber ELSE MissingToken
  PROVE  Reads(Top.rule, m[2], text)
<1>1. Top.rule \in RuleNames /\ (m[2] \in Labels => m[2] \in Also(Top.rule) \cup {"name"})
  BY TopFacts DEF MoveFits
<1>2. CASE m[2] = "name"
  BY <1>2 DEF Reads, NameOf
<1>3. CASE m[2] = "extends"
  <2>1. Top.rule = "interface"
    BY <1>1, <1>3, AlsoFacts DEF Labels
  <2> QED
    BY <1>3, <2>1 DEF Reads, AlsoOf
<1>4. CASE m[2] = "value"
  <2>1. Top.rule = "member"
    BY <1>1, <1>4, AlsoFacts DEF Labels
  <2> QED
    BY <1>4, <2>1 DEF Reads, AlsoOf
<1>5. m[2] \notin Labels \ {"name", "extends", "value"}
  BY <1>1, AlsoFacts
<1>6. CASE m[2] \notin Labels
  BY <1>6 DEF Labels, Reads
<1> QED
  BY <1>2, <1>3, <1>4, <1>5, <1>6

LEMMA OnceIsRule == \A p, r : Once(p, r) => r \in RuleNames
BY DEF Once, RuleNames

LEMMA WriteFacts ==
  ASSUME ParserInv, phase = "parse", NEW m \in Moves, Writes(m)
  PROVE  /\ stack' \in Seq(Frames) /\ Len(stack') = Len(stack) /\ stack' # <<>>
         /\ DOMAIN stack' = DOMAIN stack
         /\ \A l \in 1 .. Len(stack) : /\ stack'[l].rule = stack[l].rule
                                       /\ stack'[l].node = stack[l].node
                                       /\ l # Len(stack) => stack'[l] = stack[l]
         /\ stack'[Len(stack)].pos = m[3]
         /\ \A i \in 1 .. Len(tree) : CallsOnce(tree', i) <=> HasCalled(i)
         /\ \A i : Runs(stack', i) <=> OnStack(i)
<1>1. m[3] \in Nat
  BY TopFacts DEF MoveFits
<1>2. stack \in Seq(Frames) /\ stack # <<>>
  BY TopFacts DEF ParserInv, ParserTypes
<1>3. stack' = [stack EXCEPT ![Len(stack)].pos = m[3]]
  BY DEF Writes, At
<1>4. /\ stack' \in Seq(Frames) /\ Len(stack') = Len(stack) /\ stack' # <<>>
      /\ \A l \in 1 .. Len(stack) : /\ stack'[l].rule = stack[l].rule
                                    /\ stack'[l].node = stack[l].node
                                    /\ l # Len(stack) => stack'[l] = stack[l]
      /\ stack'[Len(stack)].pos = m[3]
  <2> DEFINE pos == m[3]
             s == At(pos)
  <2>1. s = [stack EXCEPT ![Len(stack)].pos = pos] /\ pos \in Nat
    BY <1>1 DEF At
  <2>2. stack' = s
    BY <1>3, <2>1
  <2> HIDE DEF s, pos
  <2>3. /\ s \in Seq(Frames) /\ Len(s) = Len(stack)
        /\ \A l \in 1 .. Len(stack) : s[l].rule = stack[l].rule /\ s[l].node = stack[l].node
        /\ \A l \in 1 .. Len(stack) : l # Len(stack) => s[l] = stack[l]
        /\ s[Len(stack)].pos = pos
    BY <1>2, <2>1, AtFacts
  <2>4. Len(stack) \in Nat \ {0}
    BY TopFacts
  <2> QED
    BY <2>2, <2>3, <2>4 DEF pos
<1>5. DOMAIN stack' = 1 .. Len(stack) /\ DOMAIN stack = 1 .. Len(stack)
  BY <1>2, <1>4
<1>6. ASSUME NEW i \in 1 .. Len(tree) PROVE CallsOnce(tree', i) <=> HasCalled(i)
  <2>1. 2 .. Len(tree) \subseteq 1 .. Len(tree)
    BY TopFacts
  <2>2. /\ Len(tree') = Len(tree)
        /\ \A j \in 1 .. Len(tree) : /\ tree'[j].rule = tree[j].rule
                                     /\ tree'[j].parent = tree[j].parent
    BY DEF Writes, WrittenBy
  <2> QED
    BY <2>1, <2>2 DEF HasCalled, CallsOnce
<1>7. \A i : Runs(stack', i) <=> OnStack(i)
  BY <1>4, <1>5 DEF OnStack, Runs
<1> QED
  BY <1>4, <1>5, <1>6, <1>7

LEMMA WriteInv ==
  ASSUME ParserInv, phase = "parse", NEW m \in Moves, Writes(m)
  PROVE  ParserInv'
<1> DEFINE n == Len(tree)
           k == Len(stack)
           T == Top.node
<1>1. /\ Len(tree') = n
      /\ \A i \in 1 .. n : tree'[i].rule = tree[i].rule
      /\ \A i \in 1 .. n : tree'[i].parent = tree[i].parent
      /\ \A i \in 1 .. n : i # T => tree'[i] = tree[i]
  BY DEF Writes, WrittenBy
<1>2. /\ stack' \in Seq(Frames) /\ Len(stack') = k /\ stack' # <<>>
      /\ \A l \in 1 .. k : stack'[l].rule = stack[l].rule
      /\ \A l \in 1 .. k : stack'[l].node = stack[l].node
      /\ \A l \in 1 .. k : l # k => stack'[l] = stack[l]
      /\ stack'[k].pos = m[3]
  BY WriteFacts
<1>3. /\ \A i \in 1 .. n : CallsOnce(tree', i) <=> HasCalled(i)
      /\ \A i : Runs(stack', i) <=> OnStack(i)
  BY WriteFacts
<1>4. /\ Called /\ Nested /\ CalledOnce /\ HeaderFirst /\ Written /\ Whole
      /\ StackFits /\ StackIsOpen /\ Positions
  BY DEF ParserInv, TreeInv
<1>5. n \in Nat \ {0} /\ k \in Nat \ {0} /\ T \in 1 .. n /\ Top = stack[k]
      /\ tree[T].rule = Top.rule /\ m[1] = Top.pos /\ MoveFits(Top.rule, m)
      /\ Top.rule \in RuleNames
  BY TopFacts
<1>6. \A i \in 2 .. n : i \in 1 .. n /\ tree[i].parent \in 1 .. n
  <2> TAKE i \in 2 .. n
  <2>1. tree[i].parent \in 1 .. i - 1
    BY <1>4 DEF Called
  <2> QED
    BY <1>5, <2>1
<1>7. \A l \in 1 .. k : stack[l].node \in 1 .. n
  BY <1>4 DEF StackFits
<1> HIDE DEF n, k, T
<1>8. ParserTypes'
  BY <1>2 DEF Writes, WrittenBy, ParserInv, ParserTypes
<1>9. Called'
  <2>1. ASSUME NEW i \in 2 .. n
        PROVE  /\ tree'[i].parent \in 1 .. i - 1
               /\ Calls(tree'[tree'[i].parent].rule, tree'[i].rule)
    <3>1. tree[i].parent \in 1 .. i - 1 /\ Calls(tree[tree[i].parent].rule, tree[i].rule)
      BY <1>4 DEF Called, n
    <3> QED
      BY <1>1, <1>6, <3>1
  <2>2. 1 \in 1 .. n
    BY <1>5
  <2> QED
    BY <1>1, <1>4, <1>5, <2>1, <2>2 DEF Called, n
<1>10. Nested'
  BY <1>1, <1>4 DEF Nested, n
<1>11. CalledOnce'
  BY <1>1, <1>4, <1>6 DEF CalledOnce, n
<1>12. HeaderFirst'
  <2>1. n >= 2 => 2 \in 1 .. n
    BY <1>5
  <2>2. n >= 3 => 3 \in 1 .. n
    BY <1>5
  <2> QED
    BY <1>1, <1>3, <1>4, <2>1, <2>2 DEF HeaderFirst, HasCalled, OnStack, n
<1>13. Written'
  <2>1. /\ tree'[T].name \in NameOf(Top.rule) \cup {Nil}
        /\ tree'[T].also \in AlsoOf(Top.rule) \cup {Nil}
    BY DEF Writes, WrittenBy, T
  <2>2. ASSUME NEW i \in 1 .. n
        PROVE  /\ tree'[i].name \in NameOf(tree'[i].rule) \cup {Nil}
               /\ tree'[i].also \in AlsoOf(tree'[i].rule) \cup {Nil}
    BY <1>1, <1>4, <1>5, <2>1 DEF Written, n
  <2> QED
    BY <1>1, <2>2 DEF Written, NameOf, AlsoOf
<1>14. StackFits'
  BY <1>1, <1>2, <1>4, <1>7 DEF StackFits, n, k
<1>15. StackIsOpen'
  BY <1>1, <1>2, <1>4 DEF StackIsOpen, n, k
<1>16. Positions'
  <2>1. ASSUME NEW l \in 1 .. k
        PROVE  /\ stack'[l].pos \in Before(stack'[l].rule)
                    => ~ CallsOnce(tree', stack'[l].node)
               /\ stack'[l].pos \notin Before(stack'[l].rule)
                    /\ stack'[l].rule \in Always => CallsOnce(tree', stack'[l].node)
    <3>1. CallsOnce(tree', stack'[l].node) <=> HasCalled(stack[l].node)
      BY <1>2, <1>3, <1>7
    <3>2. /\ stack[l].pos \in Before(stack[l].rule) => ~ HasCalled(stack[l].node)
          /\ stack[l].pos \notin Before(stack[l].rule) /\ stack[l].rule \in Always
               => HasCalled(stack[l].node)
      BY <1>4 DEF Positions, k
    <3>3. CASE l = k
      <4>1. ~ Once(Top.rule, m[2])
        BY OnceIsRule DEF Writes
      <4>2. m[3] \in Before(Top.rule) => m[1] \in Before(Top.rule)
        BY <1>5 DEF MoveFits
      <4>3. m[1] \in Before(Top.rule) /\ Top.rule \in Always => m[3] \in Before(Top.rule)
        BY <1>5, <4>1 DEF MoveFits
      <4> QED
        BY <1>2, <1>5, <3>1, <3>2, <3>3, <4>2, <4>3
    <3>4. CASE l # k
      BY <1>2, <3>1, <3>2, <3>4
    <3> QED
      BY <3>3, <3>4
  <2> QED
    BY <1>2, <2>1 DEF Positions, HasCalled, k
<1>17. Whole'
  <2> SUFFICES ASSUME errors' = 0
               PROVE  Whole'
    BY DEF Whole
  <2>1. errors = 0 /\ ~ recovering' /\ (Top.rule = "member" => tree'[T].also # NoNumber)
    BY DEF Writes, T
  <2>2. /\ m[2] = "name" \/ tree[T].name # Nil => tree'[T].name # Nil
    BY DEF Writes, WrittenBy, T
  <2>3. \A i \in 1 .. n : tree[i].name # Nil => tree'[i].name # Nil
    BY <1>1, <2>2
  <2>4. ASSUME NEW i \in 1 .. n, ~ Runs(stack', i)
        PROVE  /\ Unnamed(tree'[i].rule) # {} => tree'[i].name # Nil
               /\ tree'[i].rule \in Always => CallsOnce(tree', i)
    <3>1. /\ Unnamed(tree[i].rule) # {} => tree[i].name # Nil
          /\ tree[i].rule \in Always => HasCalled(i)
      BY <1>3, <1>4, <2>1, <2>4 DEF Whole, n
    <3> QED
      BY <1>1, <1>3, <2>3, <3>1
  <2>5. ASSUME NEW i \in 1 .. n, tree'[i].rule = "member"
        PROVE  tree'[i].also # NoNumber
    <3>1. CASE i = T
      BY <1>1, <1>5, <2>1, <2>5, <3>1
    <3>2. CASE i # T
      BY <1>1, <1>4, <2>1, <2>5, <3>2 DEF Whole, n
    <3> QED
      BY <3>1, <3>2
  <2>6. ASSUME NEW l \in 1 .. k, Unnamed(stack'[l].rule) # {},
               stack'[l].pos \notin Unnamed(stack'[l].rule)
        PROVE  tree'[stack'[l].node].name # Nil
    <3>1. stack[l].pos \notin Unnamed(stack[l].rule) => tree[stack[l].node].name # Nil
      BY <1>2, <1>4, <2>1, <2>6 DEF Whole, k
    <3>2. CASE l = k
      <4>1. m[3] \notin Unnamed(Top.rule)
        BY <1>2, <1>5, <2>6, <3>2
      <4>2. m[1] \notin Unnamed(Top.rule) \/ m[2] = "name"
        BY <1>5, <4>1 DEF MoveFits
      <4> QED
        BY <1>2, <1>5, <1>7, <2>2, <2>3, <3>1, <3>2, <4>2 DEF T
    <3>3. CASE l # k
      BY <1>2, <1>7, <2>3, <2>6, <3>1, <3>3
    <3> QED
      BY <3>2, <3>3
  <2> QED
    BY <1>1, <1>2, <2>1, <2>4, <2>5, <2>6 DEF Whole, HasCalled, OnStack, n, k
<1> QED
  BY <1>8, <1>9, <1>10, <1>11, <1>12, <1>13, <1>14, <1>15, <1>16, <1>17
     DEF ParserInv, TreeInv

----------------
(* A rule returns, on its own or after an error. *)

LEMMA ErrorFacts ==
  ASSUME ParserInv, ReportError
  PROVE  errors' \in 0 .. MaxErrors /\ errors' # 0 /\ recovering' = TRUE
<1>1. errors \in 0 .. MaxErrors /\ recovering \in BOOLEAN /\ (errors = 0 => ~ recovering)
  BY DEF ParserInv, ParserTypes, TreeInv, Whole
<1>2. MaxErrors \in Nat
  BY Bounds
<1>3. CASE recovering
  BY <1>1, <1>2, <1>3 DEF ReportError
<1>4. CASE ~ recovering
  BY <1>1, <1>2, <1>4 DEF ReportError
<1> QED
  BY <1>3, <1>4

LEMMA MatchInv ==
  ASSUME ParserInv, phase = "parse", NEW m \in Moves, Match(m)
  PROVE  ParserInv'
<1>1. m[2] \notin RuleNames
  BY GrammarFits DEF Match
<1>2. PICK text \in TextsOf(m[2]) : tree' = Label(m[2], text)
  BY DEF Match
<1>3. /\ Reads(Top.rule, m[2], text)
      /\ Top.rule = "member" /\ m[2] \in Labels \ {"name"} => text # NoNumber
  BY MatchReads
<1>4. /\ WrittenBy(m[2])
      /\ m[2] \notin Labels \ {"name"} => tree'[Top.node].also = tree[Top.node].also
      /\ m[2] \in Labels \ {"name"} => tree'[Top.node].also = text
  BY <1>2, <1>3, LabelFacts
<1>5. stack' = At(m[3]) /\ phase' = phase /\ errors' = errors /\ recovering' = FALSE
  BY DEF Match, Parsing
<1>6. errors \in 0 .. MaxErrors
  BY DEF ParserInv, ParserTypes
<1>7. errors = 0 /\ Top.rule = "member" => tree[Top.node].also # NoNumber
  BY TopFacts DEF ParserInv, TreeInv, Whole
<1>8. Writes(m)
  BY <1>1, <1>3, <1>4, <1>5, <1>6, <1>7 DEF Writes
<1> QED
  BY <1>8, WriteInv

LEMMA ConjureInv ==
  ASSUME ParserInv, phase = "parse", NEW m \in Moves, ConjureToken(m)
  PROVE  ParserInv'
<1> DEFINE text == IF m[2] = "value" THEN NoNumber ELSE MissingToken
<1>1. m[2] \notin RuleNames /\ m[2] \notin Optional
  BY GrammarFits DEF ConjureToken
<1>2. tree' = Label(m[2], text)
  BY DEF ConjureToken
<1>3. Reads(Top.rule, m[2], text)
  BY <1>1, ConjureReads
<1> HIDE DEF text
<1>4. WrittenBy(m[2])
  BY <1>2, <1>3, LabelFacts
<1>5. stack' = At(m[3]) /\ phase' = phase
  BY DEF ConjureToken, Parsing
<1>6. errors' \in 0 .. MaxErrors /\ errors' # 0 /\ recovering' = TRUE
  BY ErrorFacts DEF ConjureToken
<1>7. Writes(m)
  BY <1>1, <1>4, <1>5, <1>6 DEF Writes
<1> QED
  BY <1>7, WriteInv

LEMMA SkipInv ==
  ASSUME ParserInv, phase = "parse", SkipToken
  PROVE  ParserInv'
<1>1. errors' \in 0 .. MaxErrors /\ errors' # 0 /\ recovering' = TRUE
  BY ErrorFacts DEF SkipToken
<1>2. stack' = stack /\ tree' = tree /\ phase' = phase
  BY DEF SkipToken, Parsing
<1>3. Whole'
  BY <1>1 DEF Whole
<1>4. ParserTypes'
  BY <1>1, <1>2 DEF ParserInv, ParserTypes
<1>5. Called' /\ Nested' /\ CalledOnce'
  BY <1>2 DEF ParserInv, TreeInv, Called, Nested, CalledOnce
<1>6. HeaderFirst' /\ Written'
  BY <1>2 DEF ParserInv, TreeInv, HeaderFirst, HasCalled, OnStack, Written, NameOf, AlsoOf
<1>7. StackFits' /\ StackIsOpen' /\ Positions'
  BY <1>2 DEF ParserInv, StackFits, StackIsOpen, Positions, HasCalled
<1> QED
  BY <1>3, <1>4, <1>5, <1>6, <1>7 DEF ParserInv, TreeInv

LEMMA PopFacts ==
  ASSUME ParserInv, phase = "parse", stack' = Front(stack)
  PROVE  /\ stack' \in Seq(Frames) /\ Len(stack') = Len(stack) - 1
         /\ \A l \in 1 .. Len(stack) - 1 : stack'[l] = stack[l]
         /\ \A i : OnStack(i) => Runs(stack', i) \/ i = Top.node
         /\ Len(stack) = 1 <=> stack' = <<>>
<1> DEFINE k == Len(stack)
<1>1. k \in Nat \ {0} /\ stack \in Seq(Frames) /\ Top = stack[k] /\ DOMAIN stack = 1 .. k
  BY TopFacts DEF ParserInv, ParserTypes
<1>2. stack' = SubSeq(stack, 1, k - 1)
  BY DEF Front
<1>3. /\ stack' \in Seq(Frames) /\ Len(stack') = k - 1
      /\ \A l \in 1 .. k - 1 : stack'[l] = stack[l]
  BY <1>1, <1>2, SubSeqProperties
<1>4. DOMAIN stack' = 1 .. k - 1
  BY <1>3
<1>5. ASSUME NEW i, OnStack(i), i # Top.node PROVE Runs(stack', i)
  <2>1. PICK l \in 1 .. k : stack[l].node = i
    BY <1>1, <1>5 DEF OnStack, Runs
  <2>2. l \in 1 .. k - 1
    BY <1>1, <1>5, <2>1
  <2> QED
    BY <1>3, <1>4, <2>1, <2>2 DEF Runs
<1>6. k = 1 <=> stack' = <<>>
  BY <1>1, <1>3, EmptySeq
<1> QED
  BY <1>3, <1>5, <1>6

LEMMA PopInv ==
  ASSUME ParserInv, phase = "parse", Pops
  PROVE  ParserInv'
<1> DEFINE k == Len(stack)
<1>1. /\ stack' \in Seq(Frames) /\ Len(stack') = k - 1
      /\ \A l \in 1 .. k - 1 : stack'[l] = stack[l]
  BY PopFacts DEF Pops
<1>2. \A i : OnStack(i) => Runs(stack', i) \/ i = Top.node
  BY PopFacts DEF Pops
<1>3. k = 1 <=> stack' = <<>>
  BY PopFacts DEF Pops
<1>4. /\ k \in Nat \ {0} /\ tree[Top.node].rule = Top.rule /\ Len(tree) \in Nat
  BY TopFacts
<1>5. 1 .. k - 1 \subseteq 1 .. k
  BY <1>4
<1>6. tree' = tree
  BY DEF Pops
<1>7. /\ Called /\ Nested /\ CalledOnce /\ HeaderFirst /\ Written /\ Whole
      /\ StackFits /\ StackIsOpen /\ Positions
  BY DEF ParserInv, TreeInv
<1> HIDE DEF k
<1>8. ParserTypes'
  <2>1. phase' = "parse" <=> stack' # <<>>
    BY <1>3 DEF Pops, k
  <2> QED
    BY <1>1, <1>6, <2>1 DEF Pops, ParserInv, ParserTypes
<1>9. Called' /\ Nested' /\ CalledOnce' /\ Written'
  BY <1>6, <1>7 DEF Called, Nested, CalledOnce, Written, NameOf, AlsoOf
<1>10. HeaderFirst'
  <2>1. ASSUME NEW n \in 1 .. Len(tree), tree[n].rule \in {"document", "header"},
               ~ Runs(stack', n)
        PROVE  HasCalled(n)
    <3>1. CASE OnStack(n)
      BY <1>2, <1>4, <2>1, <3>1 DEF Pops
    <3>2. CASE ~ OnStack(n)
      BY <1>7, <2>1, <3>2 DEF HeaderFirst
    <3> QED
      BY <3>1, <3>2
  <2> QED
    BY <1>6, <1>7, <2>1 DEF HeaderFirst, HasCalled, OnStack
<1>11. StackFits' /\ StackIsOpen'
  BY <1>1, <1>5, <1>6, <1>7 DEF StackFits, StackIsOpen, k
<1>12. Positions'
  BY <1>1, <1>5, <1>6, <1>7 DEF Positions, HasCalled, k
<1>13. Whole'
  <2> SUFFICES ASSUME errors' = 0
               PROVE  Whole'
    BY DEF Whole
  <2>1. /\ errors = 0 /\ recovering' = recovering
        /\ Unnamed(Top.rule) # {} => tree[Top.node].name # Nil
        /\ Top.rule \in Always => HasCalled(Top.node)
    BY DEF Pops
  <2>2. ASSUME NEW n \in 1 .. Len(tree), ~ Runs(stack', n)
        PROVE  /\ Unnamed(tree[n].rule) # {} => tree[n].name # Nil
               /\ tree[n].rule \in Always => HasCalled(n)
    <3>1. CASE OnStack(n)
      BY <1>2, <1>4, <2>1, <2>2, <3>1
    <3>2. CASE ~ OnStack(n)
      BY <1>7, <2>1, <2>2, <3>2 DEF Whole
    <3> QED
      BY <3>1, <3>2
  <2>3. \A l \in 1 .. k - 1 :
          Unnamed(stack'[l].rule) # {} /\ stack'[l].pos \notin Unnamed(stack'[l].rule)
            => tree[stack'[l].node].name # Nil
    BY <1>1, <1>5, <1>7, <2>1 DEF Whole, k
  <2>4. /\ ~ recovering'
        /\ \A n \in 1 .. Len(tree) : tree[n].rule = "member" => tree[n].also # NoNumber
    BY <1>7, <2>1 DEF Whole
  <2> QED
    BY <1>1, <1>6, <2>2, <2>3, <2>4 DEF Whole, HasCalled, OnStack
<1> QED
  BY <1>8, <1>9, <1>10, <1>11, <1>12, <1>13 DEF ParserInv, TreeInv

LEMMA ExitInv ==
  ASSUME ParserInv, phase = "parse", ExitRule
  PROVE  ParserInv'
<1>1. ReturnFits(Top.rule, Top.pos)
  BY TopFacts DEF ExitRule
<1>2. Len(stack) \in 1 .. Len(stack) /\ stack[Len(stack)] = Top /\ tree[Top.node].rule = Top.rule
  BY TopFacts
<1>3. Top.rule \in Always => HasCalled(Top.node)
  BY <1>1, <1>2 DEF ReturnFits, ParserInv, Positions
<1>4. errors = 0 /\ Unnamed(Top.rule) # {} => tree[Top.node].name # Nil
  BY <1>1, <1>2 DEF ReturnFits, ParserInv, TreeInv, Whole
<1>5. errors \in 0 .. MaxErrors /\ recovering \in BOOLEAN
  BY DEF ParserInv, ParserTypes
<1>6. {"document", "header"} \subseteq Always
  BY DEF Always
<1>7. Pops
  BY <1>3, <1>4, <1>5, <1>6 DEF Pops, ExitRule, Return
<1> QED
  BY <1>7, PopInv

(* The document and the header call a rule before they look at a token.    *)
LEMMA NothingWanted ==
  ASSUME Top.rule \in {"document", "header"}, Top.pos = 0
  PROVE  ~ Wanting
<1>1. PICK m : Moves = {m} /\ m[2] \in RuleNames
  <2>1. CASE Top.rule = "document"
    <3> DEFINE call == <<0, "header", 1>>
    <3>1. Grammar["document"].moves = {call, <<1, "declarations", 1>>}
      BY DEF Grammar, DocumentRule, Rule
    <3>2. Moves = {call}
      BY <2>1, <3>1 DEF Moves
    <3>3. call[2] \in RuleNames
      BY DEF RuleNames
    <3> HIDE DEF call
    <3> QED
      BY <3>2, <3>3
  <2>2. CASE Top.rule = "header"
    <3> DEFINE call == <<0, "module", 1>>
    <3>1. Grammar["header"].moves = {call, <<1, "import", 1>>}
      BY DEF Grammar, HeaderRule, Rule
    <3>2. Moves = {call}
      BY <2>2, <3>1 DEF Moves
    <3>3. call[2] \in RuleNames
      BY DEF RuleNames
    <3> HIDE DEF call
    <3> QED
      BY <3>2, <3>3
  <2> QED
    BY <2>1, <2>2
<1>3. Cardinality(Moves) = 1
  BY <1>1, FS_Singleton
<1>4. DOMAIN Grammar = RuleNames
  BY GrammarFits
<1> QED
  BY <1>1, <1>3, <1>4 DEF Wanting

LEMMA AbandonInv ==
  ASSUME ParserInv, phase = "parse", AbandonRule
  PROVE  ParserInv'
<1>1. errors' \in 0 .. MaxErrors /\ errors' # 0 /\ recovering' = TRUE
  BY ErrorFacts DEF AbandonRule
<1>2. Len(stack) \in 1 .. Len(stack) /\ stack[Len(stack)] = Top
  BY TopFacts
<1>3. ASSUME Top.rule \in {"document", "header"} PROVE HasCalled(Top.node)
  <2>1. Top.pos # 0
    BY <1>3, NothingWanted DEF AbandonRule
  <2>2. Top.pos \notin Before(Top.rule) /\ Top.rule \in Always
    BY <1>3, <2>1 DEF Before, Always
  <2> QED
    BY <1>2, <2>2 DEF ParserInv, Positions
<1>4. Pops
  BY <1>1, <1>3 DEF Pops, AbandonRule, Return
<1> QED
  BY <1>4, PopInv

LEMMA ParseInv ==
  ASSUME ParserInv, Parse
  PROVE  ParserInv'
<1>1. phase = "parse"
  BY DEF Parse
<1>2. ASSUME NEW m \in Moves, EnterRule(m) \/ Match(m) \/ ConjureToken(m)
      PROVE  ParserInv'
  BY <1>1, <1>2, GrowInv, MatchInv, ConjureInv
<1> QED
  BY <1>1, <1>2, SkipInv, ExitInv, AbandonInv DEF Parse

----------------
(* The tree of a parse that is done, and the contexts around the walker. *)

LEMMA TreeIsDone ==
  ASSUME ParserInv, phase # "parse"
  PROVE  TreeDone
<1>1. /\ tree \in Seq(Contexts) /\ stack = <<>>
      /\ Called /\ Nested /\ CalledOnce /\ HeaderFirst /\ Written /\ Whole
  BY DEF ParserInv, ParserTypes, TreeInv
<1>2. Len(tree) \in Nat /\ Len(tree) >= 1
  BY <1>1 DEF Called
<1>3. \A n : ~ OnStack(n)
  BY <1>1 DEF OnStack, Runs
<1>4. Len(tree) >= 2
  <2>1. HasCalled(1)
    BY <1>1, <1>2, <1>3 DEF HeaderFirst, Called
  <2> QED
    BY <1>2, <2>1 DEF HasCalled, CallsOnce
<1>5. tree[2].rule = "header" /\ tree[2].parent = 1
  <2>1. tree[2].parent \in 1 .. 2 - 1
    BY <1>1, <1>2, <1>4 DEF Called
  <2> QED
    BY <1>1, <1>4, <2>1 DEF HeaderFirst
<1>6. Len(tree) >= 3
  <2>1. HasCalled(2)
    BY <1>1, <1>2, <1>3, <1>4, <1>5 DEF HeaderFirst
  <2>2. PICK i \in 2 .. Len(tree) : tree[i].parent = 2
    BY <2>1 DEF HasCalled, CallsOnce
  <2>3. i # 2
    BY <1>5, <2>2
  <2> QED
    BY <1>2, <2>2, <2>3
<1>7. tree[3].rule = "module" /\ tree[3].parent = 2
  BY <1>1, <1>6 DEF HeaderFirst
<1>8. errors = 0 =>
       /\ \A n \in 1 .. Len(tree) : /\ Unnamed(tree[n].rule) # {} => tree[n].name # Nil
                                    /\ tree[n].rule \in Always => HasCalled(n)
       /\ \A n \in 1 .. Len(tree) : tree[n].rule = "member" => tree[n].also # NoNumber
  BY <1>1, <1>3 DEF Whole
<1> QED
  BY <1>1, <1>2, <1>5, <1>6, <1>7, <1>8 DEF TreeDone

LEMMA ParentFacts ==
  ASSUME TreeDone, NEW i \in 2 .. Len(tree)
  PROVE  /\ i \in 1 .. Len(tree) /\ tree[i].parent \in 1 .. i - 1
         /\ tree[i].parent \in 1 .. Len(tree)
         /\ Calls(tree[tree[i].parent].rule, tree[i].rule)
         /\ Rank(tree[tree[i].parent].rule) < Rank(tree[i].rule)
         /\ Rank(tree[tree[i].parent].rule) \in Nat /\ Rank(tree[i].rule) \in Nat
<1>1. tree[i].parent \in 1 .. i - 1 /\ Calls(tree[tree[i].parent].rule, tree[i].rule)
  BY DEF TreeDone, Called
<1>2. i \in 1 .. Len(tree) /\ tree[i].parent \in 1 .. Len(tree)
  BY <1>1 DEF TreeDone
<1> QED
  BY <1>1, <1>2, CallsUp

LEMMA RankIsNat == \A i \in 1 .. Len(tree) : Rank(tree[i].rule) \in Nat
BY DEF Rank

(* Where the walker is.                                                    *)
LEMMA EnteredFacts ==
  ASSUME TreeDone, OnPath, path # <<>>
  PROVE  /\ Len(path) \in Nat \ {0} /\ Entered = path[Len(path)]
         /\ Entered \in 1 .. seen /\ Entered \in Open /\ seen \in Nat \ {0}
         /\ Entered \in 1 .. Len(tree)
         /\ \A p \in Open : /\ p \in 1 .. seen /\ p <= Entered
                            /\ p # Entered => Rank(tree[p].rule) < Rank(tree[Entered].rule)
         /\ \A i \in Entered + 1 .. seen : tree[i].parent >= Entered
<1>1. /\ path \in Seq(Nat) /\ Len(path) \in Nat /\ DOMAIN path = 1 .. Len(path)
      /\ seen \in 0 .. Len(tree) /\ Len(tree) \in Nat
      /\ \A k \in 1 .. Len(path) : path[k] \in 1 .. seen
      /\ \A k, l \in 1 .. Len(path) :
           k < l => path[k] < path[l] /\ Rank(tree[path[k]].rule) < Rank(tree[path[l]].rule)
      /\ \A p \in Open : \A i \in p + 1 .. seen : tree[i].parent >= p
  BY DEF OnPath, TreeDone
<1>2. Len(path) \in Nat \ {0} /\ Len(path) \in 1 .. Len(path)
  BY <1>1, EmptySeq
<1>3. Entered = path[Len(path)] /\ Entered \in 1 .. seen /\ Entered \in Open
  BY <1>1, <1>2 DEF Entered, Open
<1>4. seen \in Nat \ {0} /\ Entered \in 1 .. Len(tree)
  BY <1>1, <1>3
<1>5. ASSUME NEW p \in Open
      PROVE  /\ p \in 1 .. seen /\ p <= Entered
             /\ p # Entered => Rank(tree[p].rule) < Rank(tree[Entered].rule)
  <2>1. PICK k \in 1 .. Len(path) : p = path[k]
    BY <1>1 DEF Open
  <2>2. k = Len(path) \/ k < Len(path)
    BY <1>2
  <2>3. p \in 1 .. seen
    BY <1>1, <2>1
  <2>4. CASE k = Len(path)
    BY <1>3, <1>4, <2>1, <2>3, <2>4
  <2>5. CASE k < Len(path)
    <3>1. path[k] < path[Len(path)] /\ Rank(tree[path[k]].rule) < Rank(tree[path[Len(path)]].rule)
      BY <1>1, <1>2, <2>5
    <3> QED
      BY <1>3, <1>4, <2>1, <2>3, <3>1
  <2> QED
    BY <2>2, <2>4, <2>5
<1> QED
  BY <1>1, <1>2, <1>3, <1>4, <1>5

(* Open contexts: one of each rank, and with each the one around it.       *)
LEMMA OpenFacts ==
  ASSUME TreeDone, OnPath
  PROVE  /\ Open \subseteq 1 .. seen /\ 1 .. seen \subseteq 1 .. Len(tree)
         /\ \A p, q \in Open : Rank(tree[p].rule) = Rank(tree[q].rule) => p = q
         /\ \A p \in Open : p # 1 => tree[p].parent \in Open
<1>1. /\ Len(path) \in Nat /\ DOMAIN path = 1 .. Len(path)
      /\ seen \in 0 .. Len(tree) /\ Len(tree) \in Nat
      /\ \A k \in 1 .. Len(path) : path[k] \in 1 .. seen
      /\ path # <<>> => path[1] = 1
      /\ \A k, l \in 1 .. Len(path) :
           k < l => path[k] < path[l] /\ Rank(tree[path[k]].rule) < Rank(tree[path[l]].rule)
      /\ \A k \in 2 .. Len(path) : tree[path[k]].parent = path[k - 1]
      /\ \A k \in 1 .. Len(path) : path # <<>>
  BY DEF OnPath, TreeDone
<1>2. Open \subseteq 1 .. seen /\ 1 .. seen \subseteq 1 .. Len(tree)
  BY <1>1 DEF Open
<1>3. ASSUME NEW p \in Open, NEW q \in Open, Rank(tree[p].rule) = Rank(tree[q].rule)
      PROVE  p = q
  <2>1. PICK k \in 1 .. Len(path) : p = path[k]
    BY <1>1 DEF Open
  <2>2. PICK l \in 1 .. Len(path) : q = path[l]
    BY <1>1 DEF Open
  <2>3. Rank(tree[p].rule) \in Nat
    BY <1>2, RankIsNat
  <2>4. ~ (k < l) /\ ~ (l < k)
    BY <1>1, <1>3, <2>1, <2>2, <2>3
  <2> QED
    BY <1>1, <2>1, <2>2, <2>4
<1>4. ASSUME NEW p \in Open, p # 1 PROVE tree[p].parent \in Open
  <2>1. PICK k \in 1 .. Len(path) : p = path[k]
    BY <1>1 DEF Open
  <2>2. k \in 2 .. Len(path) /\ k - 1 \in 1 .. Len(path)
    BY <1>1, <1>4, <2>1
  <2> QED
    BY <1>1, <2>1, <2>2 DEF Open
<1> QED
  BY <1>2, <1>3, <1>4

----------------
(* The walker enters and leaves contexts in the order of the tree. *)

(* A context that the walker is about to leave has been walked.            *)
LEMMA AllBelowSeen ==
  ASSUME TreeDone, OnPath, path # <<>>, ~ NextEnters
  PROVE  \A j \in seen + 1 .. Len(tree) : tree[j].parent # Entered
<1> SUFFICES ASSUME NEW j \in seen + 1 .. Len(tree), tree[j].parent = Entered
             PROVE  FALSE
  OBVIOUS
<1>1. /\ Entered \in 1 .. seen /\ seen \in Nat \ {0}
      /\ \A p \in Open : p \in 1 .. seen /\ p <= Entered
  BY EnteredFacts
<1>2. Len(tree) \in Nat /\ Nested
  BY DEF TreeDone
<1>3. seen + 1 \in 2 .. Len(tree) /\ seen < Len(tree)
  BY <1>1, <1>2
<1> DEFINE q == tree[seen + 1].parent
<1>4. q \in 1 .. seen
  <2>1. q \in 1 .. (seen + 1) - 1
    BY <1>3, ParentFacts
  <2> QED
    BY <1>1, <2>1
<1>5. q # Entered
  BY <1>3 DEF NextEnters
<1>6. q \in Open
  <2>1. seen + 1 \in seen + 1 .. Len(tree)
    BY <1>1, <1>2, <1>3
  <2> QED
    BY <1>4, <2>1 DEF OnPath
<1>7. q < Entered
  BY <1>1, <1>4, <1>5, <1>6
<1>8. /\ Entered \in 1 .. Len(tree) /\ seen + 1 \in 1 .. Len(tree) /\ j \in 1 .. Len(tree)
      /\ Entered < seen + 1 /\ seen + 1 <= j
  BY <1>1, <1>2, <1>3
<1>9. tree[j].parent < Entered \/ tree[j].parent >= seen + 1
  BY <1>2, <1>7, <1>8 DEF Nested
<1> QED
  BY <1>1, <1>9

LEMMA EnterStep ==
  ASSUME TreeDone, OnPath, NEW r, Enter(r)
  PROVE  /\ seen + 1 \in 1 .. Len(tree) /\ tree[seen + 1].rule = r
         /\ path = <<>> => seen = 0
         /\ path # <<>> => tree[seen + 1].parent = Entered /\ seen + 1 \in 2 .. Len(tree)
         /\ seen' = seen + 1 /\ path' # <<>> /\ Len(path') = Len(path) + 1
         /\ path' = Append(path, seen + 1)
         /\ Open' = Open \cup {seen + 1}
<1>1. /\ path \in Seq(Nat) /\ Len(path) \in Nat /\ DOMAIN path = 1 .. Len(path)
      /\ seen \in 0 .. Len(tree) /\ Len(tree) \in Nat /\ (seen = 0 <=> path = <<>>)
  BY DEF OnPath, TreeDone
<1>2. /\ seen' = seen + 1 /\ path' = Append(path, seen + 1) /\ seen < Len(tree)
      /\ tree[seen + 1].parent = IF path = <<>> THEN 0 ELSE Entered
      /\ tree[seen + 1].rule = r
  BY DEF Enter, NextEnters
<1>3. seen + 1 \in 1 .. Len(tree) /\ seen + 1 \in Nat /\ (seen # 0 => seen + 1 \in 2 .. Len(tree))
  BY <1>1, <1>2
<1>4. /\ Len(path') = Len(path) + 1 /\ path' \in Seq(Nat)
      /\ \A k \in 1 .. Len(path) : path'[k] = path[k]
      /\ path'[Len(path) + 1] = seen + 1
  BY <1>1, <1>2, <1>3, AppendProperties
<1>5. DOMAIN path' = 1 .. Len(path) + 1 /\ path' # <<>>
  BY <1>1, <1>4
<1>6. Open' = Open \cup {seen + 1}
  <2>1. \A k \in 1 .. Len(path) + 1 : k \in 1 .. Len(path) \/ k = Len(path) + 1
    BY <1>1
  <2>2. \A k \in 1 .. Len(path) : k \in 1 .. Len(path) + 1
    BY <1>1
  <2>3. Len(path) + 1 \in 1 .. Len(path) + 1
    BY <1>1
  <2> QED
    BY <1>1, <1>4, <1>5, <2>1, <2>2, <2>3 DEF Open
<1> QED
  BY <1>1, <1>2, <1>3, <1>4, <1>5, <1>6

LEMMA EnterPath ==
  ASSUME TreeDone, OnPath, tree' = tree, NEW r, Enter(r)
  PROVE  OnPath'
<1> DEFINE x == seen + 1
           k == Len(path)
<1>1. /\ path \in Seq(Nat) /\ k \in Nat /\ DOMAIN path = 1 .. k
      /\ seen \in 0 .. Len(tree) /\ Len(tree) \in Nat /\ (seen = 0 <=> path = <<>>)
      /\ path # <<>> => path[1] = 1
      /\ \A l \in 1 .. k : path[l] \in 1 .. seen
      /\ \A l \in 2 .. k : tree[path[l]].parent = path[l - 1]
      /\ \A h, l \in 1 .. k :
           h < l => path[h] < path[l] /\ Rank(tree[path[h]].rule) < Rank(tree[path[l]].rule)
      /\ \A i \in 1 .. seen : i \notin Open => \A j \in seen + 1 .. Len(tree) : tree[j].parent # i
      /\ \A p \in Open : \A i \in p + 1 .. seen : tree[i].parent >= p
  BY DEF OnPath, TreeDone
<1>2. /\ x \in 1 .. Len(tree) /\ x \in Nat /\ seen' = x /\ path' # <<>>
      /\ path = <<>> => seen = 0
      /\ path # <<>> => tree[x].parent = Entered /\ x \in 2 .. Len(tree)
      /\ path' = Append(path, x) /\ Open' = Open \cup {x}
  BY EnterStep
<1>3. /\ Len(path') = k + 1 /\ path' \in Seq(Nat) /\ DOMAIN path' = 1 .. k + 1
      /\ \A l \in 1 .. k : path'[l] = path[l]
      /\ path'[k + 1] = x
  <2>1. /\ Len(path') = k + 1 /\ path' \in Seq(Nat)
        /\ \A l \in 1 .. k : path'[l] = path[l]
        /\ path'[k + 1] = x
    BY <1>1, <1>2, AppendProperties
  <2> QED
    BY <2>1
<1>4. k = 0 <=> path = <<>>
  BY <1>1, EmptySeq
<1> HIDE DEF k
<1>5. path'[1] = 1
  <2>1. CASE k = 0
    BY <1>2, <1>3, <1>4, <2>1
  <2>2. CASE k # 0
    <3>1. 1 \in 1 .. k
      BY <1>1, <2>2
    <3> QED
      BY <1>1, <1>3, <1>4, <2>2, <3>1
  <2> QED
    BY <2>1, <2>2
<1>6. \A l \in 1 .. k + 1 : l = k + 1 \/ l \in 1 .. k
  BY <1>1
<1>7. \A l \in 1 .. k + 1 : path'[l] \in 1 .. x
  <2> TAKE l \in 1 .. k + 1
  <2>1. CASE l = k + 1
    BY <1>2, <1>3, <2>1
  <2>2. CASE l \in 1 .. k
    <3>1. path'[l] \in 1 .. seen
      BY <1>1, <1>3, <2>2
    <3> QED
      BY <1>1, <3>1
  <2> QED
    BY <1>6, <2>1, <2>2
<1>8. \A l \in 2 .. k + 1 : tree[path'[l]].parent = path'[l - 1]
  <2> TAKE l \in 2 .. k + 1
  <2>1. CASE l = k + 1
    <3>1. k # 0 /\ k \in 1 .. k /\ l - 1 = k
      BY <1>1, <2>1
    <3>2. tree[x].parent = path[k]
      BY <1>2, <1>4, <3>1 DEF Entered, k
    <3> QED
      BY <1>3, <2>1, <3>1, <3>2
  <2>2. CASE l # k + 1
    <3>1. l \in 2 .. k /\ l \in 1 .. k /\ l - 1 \in 1 .. k
      BY <1>1, <2>2
    <3> QED
      BY <1>1, <1>3, <3>1
  <2> QED
    BY <2>1, <2>2
<1>9. \A h, l \in 1 .. k + 1 : h < l =>
        path'[h] < path'[l] /\ Rank(tree[path'[h]].rule) < Rank(tree[path'[l]].rule)
  <2> SUFFICES ASSUME NEW h \in 1 .. k + 1, NEW l \in 1 .. k + 1, h < l
               PROVE  path'[h] < path'[l] /\ Rank(tree[path'[h]].rule) < Rank(tree[path'[l]].rule)
    OBVIOUS
  <2>1. h \in 1 .. k
    BY <1>1
  <2>2. CASE l # k + 1
    <3>1. l \in 1 .. k
      BY <1>6, <2>2
    <3> QED
      BY <1>1, <1>3, <2>1, <3>1
  <2>3. CASE l = k + 1
    <3>1. path # <<>>
      BY <1>1, <1>4, <2>1
    <3>2. path[h] \in Open /\ path[h] \in 1 .. seen
      BY <1>1, <2>1 DEF Open
    <3>3. path[h] = Entered \/ Rank(tree[path[h]].rule) < Rank(tree[Entered].rule)
      BY <3>1, <3>2, EnteredFacts
    <3>4. /\ Rank(tree[Entered].rule) < Rank(tree[x].rule)
          /\ Rank(tree[x].rule) \in Nat /\ Rank(tree[Entered].rule) \in Nat
      BY <1>2, <3>1, ParentFacts
    <3>5. Rank(tree[path[h]].rule) \in Nat
      <4>1. path[h] \in 1 .. Len(tree)
        BY <3>2, OpenFacts
      <4> QED
        BY <4>1, RankIsNat
    <3>6. path[h] < x
      BY <1>1, <3>2
    <3> QED
      BY <1>3, <2>1, <2>3, <3>3, <3>4, <3>5, <3>6
  <2> QED
    BY <2>2, <2>3
<1>10. \A i \in 1 .. x : i \notin Open \cup {x} => \A j \in x + 1 .. Len(tree) : tree[j].parent # i
  <2> SUFFICES ASSUME NEW i \in 1 .. x, i \notin Open, i # x, NEW j \in x + 1 .. Len(tree)
               PROVE  tree[j].parent # i
    OBVIOUS
  <2>1. i \in 1 .. seen /\ j \in seen + 1 .. Len(tree)
    BY <1>1
  <2> QED
    BY <1>1, <2>1
<1>11. \A p \in Open \cup {x} : \A i \in p + 1 .. x : tree[i].parent >= p
  <2> SUFFICES ASSUME NEW p \in Open \cup {x}, NEW i \in p + 1 .. x
               PROVE  tree[i].parent >= p
    OBVIOUS
  <2>1. p # x
    BY <1>2
  <2>2. p \in Open /\ p \in 1 .. seen
    BY <2>1, OpenFacts
  <2>3. CASE i = x
    <3>1. path # <<>>
      BY <1>1, <2>2
    <3>2. p <= Entered
      BY <2>2, <3>1, EnteredFacts
    <3>3. Entered \in 1 .. seen
      BY <3>1, EnteredFacts
    <3> QED
      BY <1>1, <1>2, <2>2, <2>3, <3>1, <3>2, <3>3
  <2>4. CASE i # x
    <3>1. i \in p + 1 .. seen
      BY <1>1, <2>2, <2>4
    <3> QED
      BY <1>1, <2>2, <3>1
  <2> QED
    BY <2>3, <2>4
<1>12. x # 0 /\ x \in 0 .. Len(tree) /\ k + 1 \in Nat
  BY <1>1, <1>2
<1> HIDE DEF x
<1> QED
  BY <1>2, <1>3, <1>5, <1>7, <1>8, <1>9, <1>10, <1>11, <1>12 DEF OnPath

LEMMA ExitStep ==
  ASSUME TreeDone, OnPath, NEW r, Exit(r)
  PROVE  /\ path # <<>> /\ ~ NextEnters /\ tree[Entered].rule = r
         /\ seen' = seen /\ path' = SubSeq(path, 1, Len(path) - 1)
         /\ path' \in Seq(Nat) /\ Len(path') = Len(path) - 1
         /\ \A k \in 1 .. Len(path) - 1 : path'[k] = path[k]
         /\ Open' = Open \ {Entered}
<1>1. /\ path # <<>> /\ ~ NextEnters /\ tree[Entered].rule = r
      /\ seen' = seen /\ path' = SubSeq(path, 1, Len(path) - 1)
  BY DEF Exit, Front
<1>2. /\ path \in Seq(Nat) /\ Len(path) \in Nat /\ DOMAIN path = 1 .. Len(path)
      /\ \A k, l \in 1 .. Len(path) : k < l => path[k] < path[l]
      /\ \A k \in 1 .. Len(path) : path[k] \in 1 .. seen
      /\ seen \in 0 .. Len(tree) /\ Len(tree) \in Nat
  BY DEF OnPath, TreeDone
<1>3. Len(path) \in Nat \ {0} /\ Entered = path[Len(path)]
  BY <1>1, EnteredFacts
<1>4. /\ path' \in Seq(Nat) /\ Len(path') = Len(path) - 1
      /\ \A k \in 1 .. Len(path) - 1 : path'[k] = path[k]
  BY <1>1, <1>2, <1>3, SubSeqProperties
<1>5. DOMAIN path' = 1 .. Len(path) - 1
  BY <1>4
<1>6. \A k \in 1 .. Len(path) - 1 : k \in 1 .. Len(path) /\ path[k] # Entered
  <2> TAKE k \in 1 .. Len(path) - 1
  <2>1. k \in 1 .. Len(path) /\ Len(path) \in 1 .. Len(path) /\ k < Len(path)
    BY <1>3
  <2>2. path[k] < path[Len(path)] /\ path[k] \in 1 .. seen /\ path[Len(path)] \in 1 .. seen
    BY <1>2, <2>1
  <2> QED
    BY <1>2, <1>3, <2>1, <2>2
<1>7. \A k \in 1 .. Len(path) : k \in 1 .. Len(path) - 1 \/ path[k] = Entered
  BY <1>3
<1>8. Open' = Open \ {Entered}
  BY <1>2, <1>4, <1>5, <1>6, <1>7 DEF Open
<1> QED
  BY <1>1, <1>4, <1>8

LEMMA ExitPath ==
  ASSUME TreeDone, OnPath, tree' = tree, NEW r, Exit(r), r # "document"
  PROVE  OnPath'
<1> DEFINE k == Len(path)
<1>1. /\ path \in Seq(Nat) /\ k \in Nat /\ DOMAIN path = 1 .. k
      /\ seen \in 0 .. Len(tree) /\ Len(tree) \in Nat /\ (seen = 0 <=> path = <<>>)
      /\ path # <<>> => path[1] = 1
      /\ \A l \in 1 .. k : path[l] \in 1 .. seen
      /\ \A l \in 2 .. k : tree[path[l]].parent = path[l - 1]
      /\ \A h, l \in 1 .. k :
           h < l => path[h] < path[l] /\ Rank(tree[path[h]].rule) < Rank(tree[path[l]].rule)
      /\ \A i \in 1 .. seen : i \notin Open => \A j \in seen + 1 .. Len(tree) : tree[j].parent # i
      /\ \A p \in Open : \A i \in p + 1 .. seen : tree[i].parent >= p
      /\ tree[1].rule = "document"
  BY DEF OnPath, TreeDone, Called
<1>2. /\ path # <<>> /\ ~ NextEnters /\ tree[Entered].rule = r /\ seen' = seen
      /\ path' \in Seq(Nat) /\ Len(path') = k - 1
      /\ \A l \in 1 .. k - 1 : path'[l] = path[l]
      /\ Open' = Open \ {Entered}
  BY ExitStep
<1>3. k \in Nat \ {0} /\ Entered = path[k] /\ seen \in Nat \ {0}
  BY <1>2, EnteredFacts
<1>4. k # 1
  BY <1>1, <1>2, <1>3
<1>5. DOMAIN path' = 1 .. k - 1 /\ k - 1 \in Nat /\ path' # <<>>
  BY <1>2, <1>3, <1>4
<1> HIDE DEF k
<1>6. \A l \in 1 .. k - 1 : l \in 1 .. k
  BY <1>3
<1>7. \A l \in 2 .. k - 1 : l \in 2 .. k /\ l \in 1 .. k - 1 /\ l - 1 \in 1 .. k - 1
  BY <1>3
<1>8. path'[1] = 1
  <2>1. 1 \in 1 .. k - 1
    BY <1>3, <1>4
  <2> QED
    BY <1>1, <1>2, <2>1
<1>9. \A i \in 1 .. seen : i \notin Open \ {Entered} =>
        \A j \in seen + 1 .. Len(tree) : tree[j].parent # i
  BY <1>1, <1>2, AllBelowSeen
<1>10. /\ \A l \in 1 .. k - 1 : path'[l] \in 1 .. seen
       /\ \A l \in 2 .. k - 1 : tree[path'[l]].parent = path'[l - 1]
       /\ \A h, l \in 1 .. k - 1 : h < l =>
            path'[h] < path'[l] /\ Rank(tree[path'[h]].rule) < Rank(tree[path'[l]].rule)
  BY <1>1, <1>2, <1>6, <1>7
<1> QED
  BY <1>1, <1>2, <1>3, <1>5, <1>8, <1>9, <1>10 DEF OnPath

(* Leaving the document, everything has been walked.                       *)
LEMMA LastExit ==
  ASSUME TreeDone, OnPath, Exit("document")
  PROVE  Entered = 1 /\ Open = {1} /\ seen = Len(tree)
<1>1. /\ path # <<>> /\ ~ NextEnters /\ tree[Entered].rule = "document"
  BY ExitStep
<1>2. /\ Entered \in 1 .. seen /\ Entered \in Open /\ Entered \in 1 .. Len(tree)
      /\ seen \in Nat \ {0} /\ \A p \in Open : p \in 1 .. seen /\ p <= Entered
  BY <1>1, EnteredFacts
<1>3. Entered = 1
  <2> SUFFICES ASSUME Entered # 1 PROVE FALSE
    OBVIOUS
  <2>1. Entered \in 2 .. Len(tree)
    BY <1>2
  <2>2. Calls(tree[tree[Entered].parent].rule, "document")
    BY <1>1, <2>1, ParentFacts
  <2> QED
    BY <2>2 DEF Calls
<1>4. Open = {1}
  <2>1. \A p \in Open : p = 1
    BY <1>2, <1>3
  <2> QED
    BY <1>2, <1>3, <2>1
<1>5. seen = Len(tree)
  <2> SUFFICES ASSUME seen < Len(tree) PROVE FALSE
    BY DEF OnPath, TreeDone
  <2>1. seen + 1 \in 2 .. Len(tree) /\ seen + 1 \in seen + 1 .. Len(tree)
    BY <1>2 DEF TreeDone
  <2>2. tree[seen + 1].parent \in 1 .. (seen + 1) - 1
    BY <2>1, ParentFacts
  <2>3. tree[seen + 1].parent \in 1 .. seen
    BY <1>2, <2>2
  <2>4. tree[seen + 1].parent \in Open
    BY <2>1, <2>3 DEF OnPath
  <2>5. tree[seen + 1].parent # Entered
    BY <1>1, <2>1, AllBelowSeen
  <2> QED
    BY <1>3, <1>4, <2>4, <2>5
<1> QED
  BY <1>3, <1>4, <1>5

----------------
(* Numbers in order: what InOrder lists. *)

(***************************************************************************)
(* Contexts in order.                                                      *)
(***************************************************************************)
(* A set of naturals that is not empty has a least element.                *)
LEMMA LeastNat ==
  ASSUME NEW S \in SUBSET Nat, S # {}
  PROVE  \E n \in S : \A m \in S : n <= m
<1>1. IsWellFoundedOn(OpToRel(<, Nat), Nat)
  BY NatLessThanWellFounded
<1>2. PICK n \in S : \A m \in S : ~(<<m, n>> \in OpToRel(<, Nat))
  BY <1>1, WFMin, Zenon
<1>3. \A m \in S : ~(m < n)
  BY <1>2 DEF OpToRel
<1> QED
  BY <1>3

(* The recursive function inside FlattenSeq exists and is what it says.    *)
LEMMA FlattenExists ==
  ASSUME NEW ss, NEW n \in Nat
  PROVE  \E f : f = [i \in 1 .. n |-> IF i = 1 THEN ss[i] ELSE f[i - 1] \o ss[i]]
<1> DEFINE Good(k) == \E f : f = [i \in 1 .. k |-> IF i = 1 THEN ss[i] ELSE f[i - 1] \o ss[i]]
           Bad == {k \in Nat : ~ Good(k)}
<1> SUFFICES ASSUME Bad # {} PROVE FALSE
  BY Zenon
<1>1. PICK k \in Bad : \A m \in Bad : k <= m
  <2> HIDE DEF Good
  <2> QED
    BY LeastNat
<1>2. k # 0
  <2>1. Good(0)
    <3>1. [i \in 1 .. 0 |-> {}] = [i \in 1 .. 0 |->
            IF i = 1 THEN ss[i] ELSE [j \in 1 .. 0 |-> {}][i - 1] \o ss[i]]
      OBVIOUS
    <3> QED
      BY <3>1, Zenon
  <2> HIDE DEF Good
  <2> QED
    BY <2>1, <1>1
<1>3. Good(k - 1)
  <2> HIDE DEF Good
  <2> QED
    BY <1>1, <1>2
<1>4. PICK f : f = [i \in 1 .. k - 1 |-> IF i = 1 THEN ss[i] ELSE f[i - 1] \o ss[i]]
  BY <1>3
<1> DEFINE g == [i \in 1 .. k |-> IF i < k THEN f[i] ELSE IF i = 1 THEN ss[i] ELSE f[i - 1] \o ss[i]]
<1>5. \A i \in 1 .. k - 1 : g[i] = f[i] /\ f[i] = IF i = 1 THEN ss[i] ELSE f[i - 1] \o ss[i]
  <2> TAKE i \in 1 .. k - 1
  <2>1. i \in 1 .. k /\ i < k
    BY <1>1
  <2>2. g[i] = f[i]
    BY <2>1
  <2>3. f[i] = IF i = 1 THEN ss[i] ELSE f[i - 1] \o ss[i]
    BY <1>4, Zenon
  <2> QED
    BY <2>2, <2>3
<1>6. \A i \in 1 .. k : g[i] = IF i = 1 THEN ss[i] ELSE g[i - 1] \o ss[i]
  <2> TAKE i \in 1 .. k
  <2>1. CASE i < k
    <3>1. i \in 1 .. k - 1 /\ (i # 1 => i - 1 \in 1 .. k - 1)
      BY <1>1, <2>1
    <3> HIDE DEF g
    <3>2. g[i] = f[i] /\ f[i] = IF i = 1 THEN ss[i] ELSE f[i - 1] \o ss[i]
      BY <3>1, <1>5
    <3>3. i # 1 => g[i - 1] = f[i - 1]
      BY <3>1, <1>5
    <3> QED
      BY <3>2, <3>3
  <2>2. CASE i = k
    <3>1. g[k] = IF k = 1 THEN ss[k] ELSE f[k - 1] \o ss[k]
      BY <1>1, <1>2
    <3>2. k # 1 => g[k - 1] = f[k - 1]
      BY <1>1, <1>2, <1>5
    <3> HIDE DEF g
    <3> QED
      BY <3>1, <3>2, <2>2
  <2> QED
    BY <2>1, <2>2, <1>1
<1>7. g = [i \in 1 .. k |-> g[i]]
  OBVIOUS
<1>8. g = [i \in 1 .. k |-> IF i = 1 THEN ss[i] ELSE g[i - 1] \o ss[i]]
  <2> HIDE DEF g
  <2> QED
    BY <1>6, <1>7, Zenon
<1> QED
  BY <1>1, <1>8, Zenon

LEMMA OrderedGrows ==
  ASSUME NEW n \in Nat \ {0}, NEW S \in SUBSET (1 .. n)
  PROVE  \E g : Grows(g, n, S) /\ Ordered(n, S) = g[n]
<1> DEFINE ss == [i \in 1 .. n |-> IF i \in S THEN <<i>> ELSE <<>>]
           f == CHOOSE f : f = [i \in 1 .. n |-> IF i = 1 THEN ss[i] ELSE f[i - 1] \o ss[i]]
           g == [k \in 0 .. n |-> IF k = 0 THEN <<>> ELSE f[k]]
           Bad == {k \in 1 .. n : f[k] \notin Seq(Nat)}
<1>1. ss \in Seq(Seq(Nat)) /\ Len(ss) = n
  <2>1. \A i \in 1 .. n : (IF i \in S THEN <<i>> ELSE <<>>) \in Seq(Nat)
    OBVIOUS
  <2> QED
    BY <2>1
<1>2. \A i \in 1 .. n : ss[i] = IF i \in S THEN <<i>> ELSE <<>>
  OBVIOUS
<1>3. \A i \in 1 .. n : ss[i] \in Seq(Nat)
  BY <1>2
<1> HIDE DEF ss
<1>4. f = [i \in 1 .. n |-> IF i = 1 THEN ss[i] ELSE f[i - 1] \o ss[i]]
  BY FlattenExists, Zenon
<1>5. Ordered(n, S) = f[n]
  BY <1>1 DEF Ordered, FlattenSeq, ss
<1> HIDE DEF f
<1>6. \A k \in 1 .. n : f[k] = IF k = 1 THEN ss[k] ELSE f[k - 1] \o ss[k]
  BY <1>4, Zenon
<1>7. Bad = {}
  <2> SUFFICES ASSUME Bad # {} PROVE FALSE
    OBVIOUS
  <2>1. PICK k \in Bad : \A m \in Bad : k <= m
    <3>1. Bad \in SUBSET Nat
      OBVIOUS
    <3> HIDE DEF Bad
    <3> QED
      BY <3>1, LeastNat
  <2>2. k # 1 => k - 1 \in 1 .. n /\ f[k - 1] \in Seq(Nat)
    BY <2>1
  <2>3. f[k] \in Seq(Nat)
    <3>1. CASE k = 1
      BY <1>3, <1>6, <2>1, <3>1
    <3>2. CASE k # 1
      <4>1. ss[k] \in Seq(Nat) /\ f[k] = f[k - 1] \o ss[k]
        BY <1>3, <1>6, <2>1, <3>2
      <4> QED
        BY <2>2, <3>2, <4>1, ConcatProperties
    <3> QED
      BY <3>1, <3>2
  <2> QED
    BY <2>1, <2>3
<1>8. g[0] = <<>> /\ \A k \in 1 .. n : g[k] = f[k]
  OBVIOUS
<1>9. ASSUME NEW k \in 1 .. n
      PROVE  g[k] = IF k \in S THEN Append(g[k - 1], k) ELSE g[k - 1]
  <2>1. CASE k = 1
    <3>1. g[k] = ss[1]
      BY <1>6, <1>8, <2>1
    <3>2. Append(<<>>, 1) = <<1>>
      OBVIOUS
    <3>3. g[k - 1] = <<>>
      BY <2>1
    <3>4. ss[1] = IF 1 \in S THEN <<1>> ELSE <<>>
      BY <1>2
    <3> HIDE DEF g
    <3> QED
      BY <2>1, <3>1, <3>2, <3>3, <3>4
  <2>2. CASE k # 1
    <3>1. k - 1 \in 1 .. n
      BY <2>2
    <3>2. f[k - 1] \in Seq(Nat)
      BY <1>7, <3>1
    <3>3. f[k - 1] \o <<k>> = Append(f[k - 1], k) /\ f[k - 1] \o <<>> = f[k - 1]
      BY <3>2, AppendIsConcat, ConcatEmptySeq
    <3> HIDE DEF g
    <3> QED
      BY <1>2, <1>6, <1>8, <2>2, <3>1, <3>3
  <2> QED
    BY <2>1, <2>2
<1>10. g[n] = f[n]
  BY <1>8
<1> HIDE DEF g
<1> QED
  BY <1>5, <1>8, <1>9, <1>10, Zenon DEF Grows

LEMMA SortedAppend ==
  ASSUME NEW S \in SUBSET Nat, NEW s, Sorted(s, S), NEW x \in Nat, \A y \in S : y < x
  PROVE  Sorted(Append(s, x), S \cup {x})
<1> DEFINE t == Append(s, x)
           T == S \cup {x}
<1>1. s \in Seq(S) /\ s \in Seq(T) /\ Len(s) \in Nat /\ x \in T
  BY DEF Sorted
<1>2. /\ t \in Seq(T) /\ Len(t) = Len(s) + 1
      /\ \A i \in 1 .. Len(s) : t[i] = s[i]
      /\ t[Len(s) + 1] = x
  BY <1>1, AppendProperties
<1>3. \A i \in 1 .. Len(s) : s[i] \in S
  BY <1>1
<1> HIDE DEF t
<1>4. ASSUME NEW i \in 1 .. Len(t), NEW j \in 1 .. Len(t), i < j PROVE t[i] < t[j]
  <2>1. i \in 1 .. Len(s)
    BY <1>1, <1>2, <1>4
  <2>2. CASE j = Len(s) + 1
    BY <1>2, <1>3, <2>1, <2>2
  <2>3. CASE j # Len(s) + 1
    <3>1. j \in 1 .. Len(s)
      BY <1>1, <1>2, <2>3
    <3> QED
      BY <1>2, <1>4, <2>1, <3>1 DEF Sorted
  <2> QED
    BY <2>2, <2>3
<1>5. ASSUME NEW y \in T PROVE \E i \in 1 .. Len(t) : t[i] = y
  <2>1. CASE y = x
    <3>1. Len(s) + 1 \in 1 .. Len(t)
      BY <1>1, <1>2
    <3> QED
      BY <1>2, <2>1, <3>1
  <2>2. CASE y # x
    <3>1. PICK i \in 1 .. Len(s) : s[i] = y
      BY <1>5, <2>2 DEF Sorted
    <3>2. i \in 1 .. Len(t)
      BY <1>1, <1>2, <3>1
    <3> QED
      BY <1>2, <3>1, <3>2
  <2> QED
    BY <2>1, <2>2
<1> QED
  BY <1>1, <1>2, <1>4, <1>5 DEF Sorted, t

LEMMA GrowsSorted ==
  ASSUME NEW n \in Nat, NEW S \in SUBSET (1 .. n), NEW g, Grows(g, n, S)
  PROVE  \A k \in 0 .. n : Sorted(g[k], S \cap (1 .. k))
<1> DEFINE Bad == {k \in 0 .. n : ~ Sorted(g[k], S \cap (1 .. k))}
<1> SUFFICES ASSUME Bad # {} PROVE FALSE
  OBVIOUS
<1>1. PICK k \in Bad : \A m \in Bad : k <= m
  <2>1. Bad \in SUBSET Nat
    OBVIOUS
  <2> HIDE DEF Bad
  <2> QED
    BY <2>1, LeastNat
<1>2. k # 0
  <2>1. g[0] = <<>>
    BY DEF Grows
  <2>2. S \cap (1 .. 0) = {}
    OBVIOUS
  <2>3. Sorted(<<>>, {})
    BY EmptySeq DEF Sorted
  <2> QED
    BY <1>1, <2>1, <2>2, <2>3
<1>3. k \in 1 .. n /\ k - 1 \in 0 .. n /\ k \in Nat
  BY <1>1, <1>2
<1>4. Sorted(g[k - 1], S \cap (1 .. k - 1))
  <2>1. k - 1 \notin Bad
    <3> HIDE DEF Bad
    <3> QED
      BY <1>1, <1>3
  <2> QED
    BY <1>3, <2>1, Zenon
<1>5. g[k] = IF k \in S THEN Append(g[k - 1], k) ELSE g[k - 1]
  BY <1>3 DEF Grows
<1>6. CASE k \in S
  <2>1. S \cap (1 .. k) = (S \cap (1 .. k - 1)) \cup {k}
    BY <1>3, <1>6
  <2>2. \A y \in S \cap (1 .. k - 1) : y < k
    BY <1>3
  <2>3. S \cap (1 .. k - 1) \in SUBSET Nat
    OBVIOUS
  <2>4. Sorted(Append(g[k - 1], k), (S \cap (1 .. k - 1)) \cup {k})
    BY <1>3, <1>4, <2>2, <2>3, SortedAppend
  <2> QED
    BY <1>1, <1>5, <1>6, <2>1, <2>4
<1>7. CASE k \notin S
  <2>1. S \cap (1 .. k) = S \cap (1 .. k - 1)
    BY <1>3, <1>7
  <2> QED
    BY <1>1, <1>4, <1>5, <1>7, <2>1
<1> QED
  BY <1>6, <1>7

LEMMA GrowsSame ==
  ASSUME NEW n \in Nat, NEW S, NEW T, NEW g, NEW h, Grows(g, n, S), Grows(h, n, T),
         NEW m \in 0 .. n, \A x \in 1 .. m : x \in S <=> x \in T
  PROVE  g[m] = h[m]
<1> DEFINE Bad == {k \in 0 .. m : g[k] # h[k]}
<1> SUFFICES ASSUME Bad # {} PROVE FALSE
  <2>1. m \in 0 .. m
    OBVIOUS
  <2> QED
    BY <2>1
<1>1. PICK k \in Bad : \A l \in Bad : k <= l
  <2>1. Bad \in SUBSET Nat
    OBVIOUS
  <2> HIDE DEF Bad
  <2> QED
    BY <2>1, LeastNat
<1>2. k # 0
  BY <1>1 DEF Grows
<1>3. k \in 1 .. n /\ k \in 1 .. m /\ k - 1 \in 0 .. m
  BY <1>1, <1>2
<1>4. g[k - 1] = h[k - 1]
  BY <1>1, <1>3
<1>5. /\ g[k] = IF k \in S THEN Append(g[k - 1], k) ELSE g[k - 1]
      /\ h[k] = IF k \in T THEN Append(h[k - 1], k) ELSE h[k - 1]
  BY <1>3 DEF Grows
<1> QED
  BY <1>1, <1>3, <1>4, <1>5

LEMMA GrowsStays ==
  ASSUME NEW n \in Nat, NEW S, NEW g, Grows(g, n, S),
         NEW m \in 0 .. n, \A x \in m + 1 .. n : x \notin S
  PROVE  g[n] = g[m]
<1> DEFINE Bad == {k \in m .. n : g[k] # g[m]}
<1> SUFFICES ASSUME Bad # {} PROVE FALSE
  <2>1. n \in m .. n
    OBVIOUS
  <2> QED
    BY <2>1
<1>1. PICK k \in Bad : \A l \in Bad : k <= l
  <2>1. Bad \in SUBSET Nat
    OBVIOUS
  <2> HIDE DEF Bad
  <2> QED
    BY <2>1, LeastNat
<1>2. k # m
  BY <1>1
<1>3. k \in 1 .. n /\ k \in m + 1 .. n /\ k - 1 \in m .. n
  BY <1>1, <1>2
<1>4. g[k - 1] = g[m]
  BY <1>1, <1>3
<1>5. g[k] = g[k - 1]
  BY <1>3 DEF Grows
<1> QED
  BY <1>1, <1>4, <1>5

LEMMA OrderedFacts ==
  ASSUME NEW n \in Nat \ {0}, NEW S \in SUBSET (1 .. n)
  PROVE  /\ Sorted(Ordered(n, S), S)
         /\ S = {} => Ordered(n, S) = <<>>
         /\ \A x \in 1 .. n : (\A y \in S : y < x) =>
              Ordered(n, S \cup {x}) = Append(Ordered(n, S), x)
<1>1. PICK g : Grows(g, n, S) /\ Ordered(n, S) = g[n]
  BY OrderedGrows
<1>2. Sorted(Ordered(n, S), S)
  <2>1. Sorted(g[n], S \cap (1 .. n))
    <3>1. n \in 0 .. n /\ n \in Nat
      OBVIOUS
    <3>2. \A k \in 0 .. n : Sorted(g[k], S \cap (1 .. k))
      BY <1>1, <3>1, GrowsSorted
    <3> QED
      BY <3>1, <3>2
  <2>2. S \cap (1 .. n) = S
    OBVIOUS
  <2> QED
    BY <1>1, <2>1, <2>2
<1>3. ASSUME S = {} PROVE Ordered(n, S) = <<>>
  <2>1. g[n] = g[0]
    BY <1>1, <1>3, GrowsStays
  <2> QED
    BY <1>1, <2>1 DEF Grows
<1>4. ASSUME NEW x \in 1 .. n, \A y \in S : y < x
      PROVE  Ordered(n, S \cup {x}) = Append(Ordered(n, S), x)
  <2>1. S \cup {x} \in SUBSET (1 .. n)
    OBVIOUS
  <2>2. PICK h : Grows(h, n, S \cup {x}) /\ Ordered(n, S \cup {x}) = h[n]
    BY <2>1, OrderedGrows
  <2>3. x - 1 \in 0 .. n /\ x \in 0 .. n /\ n \in Nat
    OBVIOUS
  <2>4. h[n] = h[x]
    <3>1. \A y \in x + 1 .. n : y \notin S \cup {x}
      BY <1>4
    <3> QED
      BY <2>2, <2>3, <3>1, GrowsStays
  <2>5. h[x] = Append(h[x - 1], x)
    BY <2>2 DEF Grows
  <2>6. h[x - 1] = g[x - 1]
    <3>1. \A y \in 1 .. x - 1 : y \in S \cup {x} <=> y \in S
      OBVIOUS
    <3> QED
      BY <1>1, <2>2, <2>3, <3>1, GrowsSame
  <2>7. g[n] = g[x - 1]
    <3>1. \A y \in (x - 1) + 1 .. n : y \notin S
      BY <1>4
    <3> QED
      BY <1>1, <2>3, <3>1, GrowsStays
  <2> QED
    BY <1>1, <2>2, <2>4, <2>5, <2>6, <2>7
<1> QED
  BY <1>2, <1>3, <1>4

----------------
(* The lists of nodes, as more contexts are left. *)

LEMMA BelowFacts ==
  ASSUME TreeDone, NEW r, NEW n
  PROVE  /\ Below(r, n) \subseteq 2 .. Len(tree) /\ Below(r, n) \in SUBSET (1 .. Len(tree))
         /\ \A i \in Below(r, n) : tree[i].rule = r /\ Owner(i) = n
         /\ \A i \in 2 .. Len(tree) : tree[i].rule = r /\ Owner(i) = n => i \in Below(r, n)
<1>1. Len(tree) \in Nat
  BY DEF TreeDone
<1>2. 2 .. Len(tree) \subseteq 1 .. Len(tree)
  BY <1>1
<1> QED
  BY <1>2 DEF Below

LEMMA InOrderFacts ==
  ASSUME TreeDone, NEW S \in SUBSET (1 .. Len(tree))
  PROVE  /\ Sorted(InOrder(S), S)
         /\ S = {} => InOrder(S) = <<>>
         /\ \A x \in 1 .. Len(tree) : (\A y \in S : y < x) =>
              InOrder(S \cup {x}) = Append(InOrder(S), x)
<1> DEFINE n == Len(tree)
<1>1. n \in Nat \ {0} /\ DOMAIN tree = 1 .. n
  BY DEF TreeDone
<1>2. \A T : InOrder(T) = Ordered(n, T)
  BY <1>1 DEF InOrder, Ordered
<1>3. S \in SUBSET (1 .. n)
  OBVIOUS
<1> HIDE DEF n
<1>4. /\ Sorted(Ordered(n, S), S)
      /\ S = {} => Ordered(n, S) = <<>>
      /\ \A x \in 1 .. n : (\A y \in S : y < x) =>
           Ordered(n, S \cup {x}) = Append(Ordered(n, S), x)
  BY <1>1, <1>3, OrderedFacts
<1> QED
  BY <1>2, <1>4 DEF n

(* A list of contexts as more are done.                                    *)
LEMMA ListFacts ==
  ASSUME TreeDone, NEW r, NEW n, NEW D
  PROVE  /\ Sorted(List(r, n, D), Below(r, n) \cap D)
         /\ Below(r, n) \cap D = {} => List(r, n, D) = <<>>
         /\ Below(r, n) \subseteq D => List(r, n, D) = Under(r, n)
<1> DEFINE B == Below(r, n)
           S == B \cap D
<1>1. S \in SUBSET (1 .. Len(tree)) /\ B \in SUBSET (1 .. Len(tree))
  BY BelowFacts
<1>2. List(r, n, D) = InOrder(S)
  BY DEF List
<1>3. ASSUME B \subseteq D PROVE List(r, n, D) = Under(r, n)
  <2>1. S = B
    BY <1>3
  <2> QED
    BY <1>2, <2>1 DEF Under
<1>4. Sorted(List(r, n, D), S) /\ (S = {} => List(r, n, D) = <<>>)
  <2> HIDE DEF S
  <2> QED
    BY <1>1, <1>2, InOrderFacts
<1> QED
  BY <1>3, <1>4

LEMMA ListGrows ==
  ASSUME TreeDone, NEW r, NEW n, NEW D, NEW x, x \in Below(r, n),
         \A y \in Below(r, n) \cap D : y < x
  PROVE  List(r, n, D \cup {x}) = Append(List(r, n, D), x)
<1> DEFINE B == Below(r, n)
           S == B \cap D
<1>1. S \in SUBSET (1 .. Len(tree)) /\ B \in SUBSET (1 .. Len(tree))
  BY BelowFacts
<1>2. List(r, n, D) = InOrder(S)
  BY DEF List
<1>3. B \cap (D \cup {x}) = S \cup {x}
  OBVIOUS
<1>4. List(r, n, D \cup {x}) = InOrder(S \cup {x})
  BY <1>3 DEF List
<1>5. \A y \in S : y < x
  OBVIOUS
<1>6. x \in 1 .. Len(tree)
  BY <1>1
<1> HIDE DEF S, B
<1> QED
  BY <1>1, <1>2, <1>4, <1>5, <1>6, InOrderFacts

LEMMA AppendByIndex ==
  ASSUME NEW m \in Nat, NEW u, NEW w, Indexed(u, m), Indexed(w, m + 1),
         \A i \in 1 .. m : w[i] = u[i]
  PROVE  w = Append(u, w[m + 1])
<1> DEFINE S == {w[i] : i \in 1 .. m + 1}
           v == Append(u, w[m + 1])
<1>1. m + 1 \in 1 .. m + 1 /\ 1 .. m \subseteq 1 .. m + 1
  OBVIOUS
<1>2. w[m + 1] \in S /\ \A i \in 1 .. m : u[i] \in S
  BY <1>1
<1> HIDE DEF S
<1>0. u = [i \in 1 .. m |-> u[i]] /\ w = [i \in 1 .. m + 1 |-> w[i]]
  BY Zenon DEF Indexed
<1>3. u \in Seq(S) /\ Len(u) = m
  <2>1. u \in [1 .. m -> S]
    BY <1>0, <1>2
  <2> QED
    BY <2>1
<1>4. /\ v \in Seq(S) /\ Len(v) = m + 1
      /\ \A i \in 1 .. m : v[i] = u[i]
      /\ v[m + 1] = w[m + 1]
  BY <1>2, <1>3, AppendProperties
<1> HIDE DEF v
<1>5. v = [i \in 1 .. m + 1 |-> v[i]]
  BY <1>4
<1>6. \A i \in 1 .. m + 1 : v[i] = w[i]
  <2>1. \A i \in 1 .. m + 1 : i \in 1 .. m \/ i = m + 1
    OBVIOUS
  <2> QED
    BY <1>4, <2>1
<1>7. v = w
  BY <1>0, <1>5, <1>6
<1> QED
  BY <1>7 DEF v

LEMMA SortedSeq ==
  ASSUME NEW s, NEW S, Sorted(s, S), NEW x
  PROVE  /\ Len(s) \in Nat /\ DOMAIN s = 1 .. Len(s)
         /\ \A i \in 1 .. Len(s) : s[i] \in S
         /\ DOMAIN Append(s, x) = 1 .. Len(s) + 1
         /\ \A i \in 1 .. Len(s) : Append(s, x)[i] = s[i]
         /\ Append(s, x)[Len(s) + 1] = x
<1> DEFINE T == S \cup {x}
           t == Append(s, x)
<1>1. s \in Seq(S) /\ s \in Seq(T) /\ Len(s) \in Nat /\ x \in T
  BY DEF Sorted
<1>2. /\ t \in Seq(T) /\ Len(t) = Len(s) + 1
      /\ \A i \in 1 .. Len(s) : t[i] = s[i]
      /\ t[Len(s) + 1] = x
  BY <1>1, AppendProperties
<1>3. DOMAIN s = 1 .. Len(s) /\ \A i \in 1 .. Len(s) : s[i] \in S
  BY <1>1
<1> HIDE DEF t
<1>4. DOMAIN t = 1 .. Len(s) + 1
  BY <1>1, <1>2
<1> QED
  BY <1>1, <1>2, <1>3, <1>4 DEF t

LEMMA ListAt ==
  ASSUME NEW s, NEW S, Sorted(s, S), NEW r
  PROVE  /\ \A x : NodesAt(r, Append(s, x)) = Append(NodesAt(r, s), NodeAt(r, x))
         /\ NodesAt(r, <<>>) = <<>>
         /\ \A T : (\A i \in S : NodeAt(r, i) \in T) => NodesAt(r, s) \in Seq(T)
<1> DEFINE m == Len(s)
           u == NodesAt(r, s)
<1>1. m \in Nat /\ DOMAIN s = 1 .. m /\ \A i \in 1 .. m : s[i] \in S
  BY SortedSeq
<1>2. u = [i \in 1 .. m |-> u[i]] /\ \A i \in 1 .. m : u[i] = NodeAt(r, s[i])
  BY <1>1 DEF NodesAt
<1>3. ASSUME NEW x PROVE NodesAt(r, Append(s, x)) = Append(u, NodeAt(r, x))
  <2> DEFINE t == Append(s, x)
             w == NodesAt(r, t)
  <2>1. /\ DOMAIN t = 1 .. m + 1 /\ t[m + 1] = x
        /\ \A i \in 1 .. m : t[i] = s[i]
    BY SortedSeq
  <2> HIDE DEF t, m
  <2>2. w = [i \in 1 .. m + 1 |-> w[i]] /\ \A i \in 1 .. m + 1 : w[i] = NodeAt(r, t[i])
    BY <2>1 DEF NodesAt
  <2>3. m + 1 \in 1 .. m + 1 /\ \A i \in 1 .. m : i \in 1 .. m + 1
    BY <1>1
  <2> HIDE DEF u, w
  <2>4. w[m + 1] = NodeAt(r, x) /\ \A i \in 1 .. m : w[i] = u[i]
    BY <1>2, <2>1, <2>2, <2>3
  <2>5. w = Append(u, w[m + 1])
    <3>1. Indexed(u, m) /\ Indexed(w, m + 1)
      BY <1>2, <2>2, Zenon DEF Indexed
    <3> QED
      BY <1>1, <2>4, <3>1, AppendByIndex
  <2> QED
    BY <2>4, <2>5 DEF t, w
<1>4. NodesAt(r, <<>>) = <<>>
  BY DEF NodesAt
<1>5. ASSUME NEW T, \A i \in S : NodeAt(r, i) \in T PROVE u \in Seq(T)
  <2>1. \A i \in 1 .. m : u[i] \in T
    BY <1>1, <1>2, <1>5
  <2> HIDE DEF u, m
  <2> QED
    BY <1>1, <1>2, <2>1
<1> QED
  BY <1>3, <1>4, <1>5

LEMMA TypedList ==
  ASSUME NEW s, NEW S, Sorted(s, S)
  PROVE  /\ \A x : Map(Append(s, x), TypedAt) = Append(Map(s, TypedAt), TypedAt(x))
         /\ Map(<<>>, TypedAt) = <<>>
         /\ \A T : (\A i \in S : TypedAt(i) \in T) => Map(s, TypedAt) \in Seq(T)
<1>1. \A i : NodeAt("param", i) = TypedAt(i)
  BY DEF NodeAt
<1>2. \A t : NodesAt("param", t) = Map(t, TypedAt)
  BY <1>1, Zenon DEF NodesAt, Map
<1>3. /\ \A x : NodesAt("param", Append(s, x)) = Append(NodesAt("param", s), NodeAt("param", x))
      /\ NodesAt("param", <<>>) = <<>>
      /\ \A T : (\A i \in S : NodeAt("param", i) \in T) => NodesAt("param", s) \in Seq(T)
  BY ListAt
<1> QED
  BY <1>1, <1>2, <1>3, Zenon

LEMMA OperationList ==
  ASSUME NEW s, NEW S, Sorted(s, S)
  PROVE  /\ \A x : Map(Append(s, x), OperationAt) = Append(Map(s, OperationAt), OperationAt(x))
         /\ Map(<<>>, OperationAt) = <<>>
         /\ \A T : (\A i \in S : OperationAt(i) \in T) => Map(s, OperationAt) \in Seq(T)
<1>1. \A i : NodeAt("operation", i) = OperationAt(i)
  BY DEF NodeAt
<1>2. \A t : NodesAt("operation", t) = Map(t, OperationAt)
  BY <1>1, Zenon DEF NodesAt, Map
<1>3. /\ \A x : NodesAt("operation", Append(s, x)) = Append(NodesAt("operation", s), NodeAt("operation", x))
      /\ NodesAt("operation", <<>>) = <<>>
      /\ \A T : (\A i \in S : NodeAt("operation", i) \in T) => NodesAt("operation", s) \in Seq(T)
  BY ListAt
<1> QED
  BY <1>1, <1>2, <1>3, Zenon

LEMMA SignalList ==
  ASSUME NEW s, NEW S, Sorted(s, S)
  PROVE  /\ \A x : Map(Append(s, x), SignalAt) = Append(Map(s, SignalAt), SignalAt(x))
         /\ Map(<<>>, SignalAt) = <<>>
         /\ \A T : (\A i \in S : SignalAt(i) \in T) => Map(s, SignalAt) \in Seq(T)
<1>1. \A i : NodeAt("signal", i) = SignalAt(i)
  BY DEF NodeAt
<1>2. \A t : NodesAt("signal", t) = Map(t, SignalAt)
  BY <1>1, Zenon DEF NodesAt, Map
<1>3. /\ \A x : NodesAt("signal", Append(s, x)) = Append(NodesAt("signal", s), NodeAt("signal", x))
      /\ NodesAt("signal", <<>>) = <<>>
      /\ \A T : (\A i \in S : NodeAt("signal", i) \in T) => NodesAt("signal", s) \in Seq(T)
  BY ListAt
<1> QED
  BY <1>1, <1>2, <1>3, Zenon

LEMMA InterfaceList ==
  ASSUME NEW s, NEW S, Sorted(s, S)
  PROVE  /\ \A x : Map(Append(s, x), InterfaceAt) = Append(Map(s, InterfaceAt), InterfaceAt(x))
         /\ Map(<<>>, InterfaceAt) = <<>>
         /\ \A T : (\A i \in S : InterfaceAt(i) \in T) => Map(s, InterfaceAt) \in Seq(T)
<1>1. \A i : NodeAt("interface", i) = InterfaceAt(i)
  BY DEF NodeAt
<1>2. \A t : NodesAt("interface", t) = Map(t, InterfaceAt)
  BY <1>1, Zenon DEF NodesAt, Map
<1>3. /\ \A x : NodesAt("interface", Append(s, x)) = Append(NodesAt("interface", s), NodeAt("interface", x))
      /\ NodesAt("interface", <<>>) = <<>>
      /\ \A T : (\A i \in S : NodeAt("interface", i) \in T) => NodesAt("interface", s) \in Seq(T)
  BY ListAt
<1> QED
  BY <1>1, <1>2, <1>3, Zenon

LEMMA StructList ==
  ASSUME NEW s, NEW S, Sorted(s, S)
  PROVE  /\ \A x : Map(Append(s, x), StructAt) = Append(Map(s, StructAt), StructAt(x))
         /\ Map(<<>>, StructAt) = <<>>
         /\ \A T : (\A i \in S : StructAt(i) \in T) => Map(s, StructAt) \in Seq(T)
<1>1. \A i : NodeAt("struct", i) = StructAt(i)
  BY DEF NodeAt
<1>2. \A t : NodesAt("struct", t) = Map(t, StructAt)
  BY <1>1, Zenon DEF NodesAt, Map
<1>3. /\ \A x : NodesAt("struct", Append(s, x)) = Append(NodesAt("struct", s), NodeAt("struct", x))
      /\ NodesAt("struct", <<>>) = <<>>
      /\ \A T : (\A i \in S : NodeAt("struct", i) \in T) => NodesAt("struct", s) \in Seq(T)
  BY ListAt
<1> QED
  BY <1>1, <1>2, <1>3, Zenon

LEMMA EnumList ==
  ASSUME NEW s, NEW S, Sorted(s, S)
  PROVE  /\ \A x : Map(Append(s, x), EnumAt) = Append(Map(s, EnumAt), EnumAt(x))
         /\ Map(<<>>, EnumAt) = <<>>
         /\ \A T : (\A i \in S : EnumAt(i) \in T) => Map(s, EnumAt) \in Seq(T)
<1>1. \A i : NodeAt("enum", i) = EnumAt(i)
  BY DEF NodeAt
<1>2. \A t : NodesAt("enum", t) = Map(t, EnumAt)
  BY <1>1, Zenon DEF NodesAt, Map
<1>3. /\ \A x : NodesAt("enum", Append(s, x)) = Append(NodesAt("enum", s), NodeAt("enum", x))
      /\ NodesAt("enum", <<>>) = <<>>
      /\ \A T : (\A i \in S : NodeAt("enum", i) \in T) => NodesAt("enum", s) \in Seq(T)
  BY ListAt
<1> QED
  BY <1>1, <1>2, <1>3, Zenon

LEMMA MemberList ==
  ASSUME NEW s, NEW S, Sorted(s, S)
  PROVE  /\ \A x : Map(Append(s, x), MemberAt) = Append(Map(s, MemberAt), MemberAt(x))
         /\ Map(<<>>, MemberAt) = <<>>
         /\ \A T : (\A i \in S : MemberAt(i) \in T) => Map(s, MemberAt) \in Seq(T)
<1>1. \A i : NodeAt("member", i) = MemberAt(i)
  BY DEF NodeAt
<1>2. \A t : NodesAt("member", t) = Map(t, MemberAt)
  BY <1>1, Zenon DEF NodesAt, Map
<1>3. /\ \A x : NodesAt("member", Append(s, x)) = Append(NodesAt("member", s), NodeAt("member", x))
      /\ NodesAt("member", <<>>) = <<>>
      /\ \A T : (\A i \in S : NodeAt("member", i) \in T) => NodesAt("member", s) \in Seq(T)
  BY ListAt
<1> QED
  BY <1>1, <1>2, <1>3, Zenon

LEMMA ExternList ==
  ASSUME NEW s, NEW S, Sorted(s, S)
  PROVE  /\ \A x : Map(Append(s, x), ExternAt) = Append(Map(s, ExternAt), ExternAt(x))
         /\ Map(<<>>, ExternAt) = <<>>
         /\ \A T : (\A i \in S : ExternAt(i) \in T) => Map(s, ExternAt) \in Seq(T)
<1>1. \A i : NodeAt("extern", i) = ExternAt(i)
  BY DEF NodeAt
<1>2. \A t : NodesAt("extern", t) = Map(t, ExternAt)
  BY <1>1, Zenon DEF NodesAt, Map
<1>3. /\ \A x : NodesAt("extern", Append(s, x)) = Append(NodesAt("extern", s), NodeAt("extern", x))
      /\ NodesAt("extern", <<>>) = <<>>
      /\ \A T : (\A i \in S : NodeAt("extern", i) \in T) => NodesAt("extern", s) \in Seq(T)
  BY ListAt
<1> QED
  BY <1>1, <1>2, <1>3, Zenon

LEMMA NameList ==
  ASSUME NEW s, NEW S, Sorted(s, S)
  PROVE  /\ \A x : Map(Append(s, x), NameAt) = Append(Map(s, NameAt), NameAt(x))
         /\ Map(<<>>, NameAt) = <<>>
         /\ \A T : (\A i \in S : NameAt(i) \in T) => Map(s, NameAt) \in Seq(T)
<1>1. \A i : NodeAt("import", i) = NameAt(i)
  BY DEF NodeAt
<1>2. \A t : NodesAt("import", t) = Map(t, NameAt)
  BY <1>1, Zenon DEF NodesAt, Map
<1>3. /\ \A x : NodesAt("import", Append(s, x)) = Append(NodesAt("import", s), NodeAt("import", x))
      /\ NodesAt("import", <<>>) = <<>>
      /\ \A T : (\A i \in S : NodeAt("import", i) \in T) => NodesAt("import", s) \in Seq(T)
  BY ListAt
<1> QED
  BY <1>1, <1>2, <1>3, Zenon

----------------
(* The context a node belongs to, and what is done before it. *)

LEMMA OneDocument ==
  ASSUME TreeDone
  PROVE  /\ tree[1].rule = "document" /\ 1 \in 1 .. Len(tree)
         /\ \A i \in 1 .. Len(tree) : tree[i].rule = "document" => i = 1
<1>1. tree[1].rule = "document" /\ 1 \in 1 .. Len(tree)
  BY DEF TreeDone, Called
<1>2. ASSUME NEW i \in 1 .. Len(tree), tree[i].rule = "document", i # 1 PROVE FALSE
  <2>1. i \in 2 .. Len(tree)
    BY <1>2
  <2>2. Calls(tree[tree[i].parent].rule, "document")
    BY <1>2, <2>1, ParentFacts
  <2> QED
    BY <2>2 DEF Calls
<1> QED
  BY <1>1, <1>2

(* Who calls what, and whose part it is.                                   *)
LEMMA OwnerFacts ==
  ASSUME TreeDone, NEW i \in 2 .. Len(tree)
  PROVE  /\ Owner(i) \in 1 .. Len(tree) /\ Owner(i) < i
         /\ tree[i].rule \in {"module", "import", "extern", "interface", "struct", "enum"}
              => Owner(i) = 1
         /\ tree[i].rule \in {"property", "operation", "signal"}
              => tree[Owner(i)].rule = "interface"
         /\ tree[i].rule = "param" => tree[Owner(i)].rule \in {"operation", "signal"}
         /\ tree[i].rule = "return" => tree[Owner(i)].rule = "operation"
         /\ tree[i].rule = "field" => tree[Owner(i)].rule = "struct"
         /\ tree[i].rule = "member" => tree[Owner(i)].rule = "enum"
         /\ tree[i].rule = "schema"
              => tree[Owner(i)].rule \in {"property", "field", "param", "return"}
         /\ tree[i].rule \in {"primitive", "symbol", "array"} => tree[Owner(i)].rule = "schema"
         /\ tree[i].rule \in {"return", "param", "field", "member", "schema", "primitive",
                              "symbol", "array"} => Owner(i) = tree[i].parent
<1> DEFINE p == tree[i].parent
           r == tree[i].rule
<1>1. p \in 1 .. i - 1 /\ p \in 1 .. Len(tree) /\ Calls(tree[p].rule, r)
  BY ParentFacts
<1>2. Owner(i) = IF tree[p].rule \in Wrappers THEN tree[p].parent ELSE p
  BY DEF Owner, Wrappers
<1>3. Len(tree) \in Nat
  BY DEF TreeDone
<1>4. ASSUME tree[p].rule \in Wrappers
      PROVE  /\ tree[p].parent \in 1 .. p - 1 /\ tree[p].parent \in 1 .. Len(tree)
             /\ Calls(tree[tree[p].parent].rule, tree[p].rule)
  <2>1. p # 1
    BY <1>4, OneDocument DEF Wrappers
  <2>2. p \in 2 .. Len(tree)
    BY <1>1, <1>3, <2>1
  <2> HIDE DEF p
  <2> QED
    BY <2>2, ParentFacts
<1> HIDE DEF p, r
<1>5. Owner(i) \in 1 .. Len(tree) /\ Owner(i) < i
  BY <1>1, <1>2, <1>3, <1>4
<1>6. ASSUME r \in {"module", "import", "extern", "interface", "struct", "enum"}
      PROVE  Owner(i) = 1
  <2>1. tree[p].rule \in {"header", "declarations"}
    BY <1>1, <1>6 DEF Calls
  <2>2. tree[tree[p].parent].rule = "document"
    BY <1>4, <2>1 DEF Calls, Wrappers
  <2>3. tree[p].parent = 1
    BY <1>4, <2>1, <2>2, OneDocument DEF Wrappers
  <2> QED
    BY <1>2, <2>1, <2>3 DEF Wrappers
<1>7. ASSUME r \in {"property", "operation", "signal"}
      PROVE  tree[Owner(i)].rule = "interface"
  <2>1. tree[p].rule = "members"
    BY <1>1, <1>7 DEF Calls
  <2>2. tree[tree[p].parent].rule = "interface"
    BY <1>4, <2>1 DEF Calls, Wrappers
  <2> QED
    BY <1>2, <2>1, <2>2 DEF Wrappers
<1>8. ASSUME r \in {"return", "param", "field", "member", "schema", "primitive", "symbol",
                    "array"}
      PROVE  Owner(i) = p
  <2>1. tree[p].rule \notin Wrappers
    BY <1>1, <1>8 DEF Calls, Wrappers
  <2> QED
    BY <1>2, <2>1
<1>9. /\ r = "param" => tree[p].rule \in {"operation", "signal"}
      /\ r = "return" => tree[p].rule = "operation"
      /\ r = "field" => tree[p].rule = "struct"
      /\ r = "member" => tree[p].rule = "enum"
      /\ r = "schema" => tree[p].rule \in {"property", "field", "param", "return"}
      /\ r \in {"primitive", "symbol", "array"} => tree[p].rule = "schema"
  BY <1>1 DEF Calls
<1> QED
  BY <1>5, <1>6, <1>7, <1>8, <1>9 DEF p, r

LEMMA OwnerIsOpen ==
  ASSUME TreeDone, OnPath, NEW x \in Open, x # 1
  PROVE  x \in 2 .. Len(tree) /\ Owner(x) \in Open
<1>1. x \in 1 .. Len(tree) /\ tree[x].parent \in Open
  BY OpenFacts
<1>2. x \in 2 .. Len(tree)
  BY <1>1
<1>3. CASE tree[tree[x].parent].rule \in Wrappers
  <2>1. tree[x].parent # 1
    BY <1>3, OneDocument DEF Wrappers
  <2>2. tree[tree[x].parent].parent \in Open
    BY <1>1, <2>1, OpenFacts
  <2> QED
    BY <1>2, <1>3, <2>2 DEF Owner, Wrappers
<1>4. CASE tree[tree[x].parent].rule \notin Wrappers
  BY <1>1, <1>2, <1>4 DEF Owner, Wrappers
<1> QED
  BY <1>3, <1>4

(* The parts of a context are done when the walker leaves it.              *)
LEMMA PartsAreDone ==
  ASSUME TreeDone, OnPath, path # <<>>, ~ NextEnters
  PROVE  \A r : Below(r, Entered) \subseteq Walked(seen, Open)
<1> SUFFICES ASSUME NEW r, NEW i \in Below(r, Entered)
             PROVE  i \in Walked(seen, Open)
  OBVIOUS
<1>1. i \in 2 .. Len(tree) /\ Owner(i) = Entered
  BY BelowFacts
<1> DEFINE p == tree[i].parent
<1>2. p \in 1 .. i - 1 /\ p \in 1 .. Len(tree)
  BY <1>1, ParentFacts
<1>3. /\ Entered \in 1 .. seen /\ seen \in Nat /\ Len(tree) \in Nat
      /\ \A q \in Open : q \in 1 .. seen /\ q <= Entered
  BY EnteredFacts DEF TreeDone
<1>4. \A j \in seen + 1 .. Len(tree) : tree[j].parent # Entered
  BY AllBelowSeen
<1>5. Entered < i
  BY <1>1, <1>3, OwnerFacts
<1>6. i \notin Open
  BY <1>1, <1>3, <1>5
<1>7. i <= seen
  <2> SUFFICES ASSUME i > seen PROVE FALSE
    BY <1>1, <1>3
  <2>1. i \in seen + 1 .. Len(tree)
    BY <1>1, <1>3
  <2>2. p # Entered
    BY <1>4, <2>1
  <2>3. tree[p].rule \in Wrappers /\ tree[p].parent = Entered
    BY <1>1, <2>2 DEF Owner, Wrappers
  <2>4. p \in 2 .. Len(tree)
    <3>1. p # 1
      BY <2>3, OneDocument DEF Wrappers
    <3> QED
      BY <1>2, <3>1
  <2>5. tree[p].parent \in 1 .. p - 1
    BY <2>4, ParentFacts
  <2>6. p > Entered
    BY <1>3, <2>3, <2>4, <2>5
  <2>7. p \in 1 .. seen
    <3>1. p \notin seen + 1 .. Len(tree)
      BY <1>4, <2>3
    <3> QED
      BY <1>3, <2>4, <3>1
  <2>8. p \notin Open
    BY <1>3, <2>6, <2>7
  <2> QED
    BY <2>1, <2>7, <2>8 DEF OnPath
<1> QED
  BY <1>1, <1>3, <1>6, <1>7 DEF Walked

(* A context that the walker leaves is the last of its kind that is done.  *)
LEMMA LastInList ==
  ASSUME TreeDone, OnPath, path # <<>>, tree[Entered].rule \notin Wrappers, NEW r, NEW n,
         Entered \in Below(r, n)
  PROVE  \A y \in Below(r, n) \cap Walked(seen, Open) : y < Entered
<1> DEFINE x == Entered
<1> SUFFICES ASSUME NEW y \in Below(r, n) \cap Walked(seen, Open), ~ (y < x)
             PROVE  FALSE
  OBVIOUS
<1>1. /\ y \in 2 .. Len(tree) /\ x \in 2 .. Len(tree) /\ Owner(y) = n /\ Owner(x) = n
      /\ y \in 1 .. seen /\ y \notin Open
  BY BelowFacts DEF Walked
<1>2. /\ x \in 1 .. seen /\ x \in Open /\ seen \in Nat /\ Len(tree) \in Nat
      /\ \A i \in x + 1 .. seen : tree[i].parent >= x
  BY EnteredFacts DEF TreeDone
<1>3. n \in Nat /\ n < x
  BY <1>1, OwnerFacts
<1> DEFINE p == tree[y].parent
<1>4. p \in 1 .. y - 1
  BY <1>1, ParentFacts
<1> HIDE DEF x
<1>5. y \in x + 1 .. seen
  BY <1>1, <1>2
<1>6. p >= x
  BY <1>2, <1>5
<1>7. p # n
  BY <1>2, <1>3, <1>4, <1>6
<1>8. tree[p].rule \in Wrappers /\ tree[p].parent = n
  BY <1>1, <1>7 DEF Owner, Wrappers
<1>9. p # x
  BY <1>8 DEF x
<1>10. p \in x + 1 .. seen
  BY <1>1, <1>2, <1>4, <1>6, <1>9
<1>11. tree[p].parent >= x
  BY <1>2, <1>10
<1> QED
  BY <1>2, <1>3, <1>8, <1>11

----------------
(* What entering a context leaves as it was. *)

LEMMA EnterWalked ==
  ASSUME TreeDone, OnPath, seen + 1 \in 1 .. Len(tree)
  PROVE  /\ Walked(seen + 1, Open \cup {seen + 1}) = Walked(seen, Open)
         /\ seen \in Nat /\ seen + 1 \notin Open /\ seen + 1 \notin 1 .. seen
         /\ 1 .. seen + 1 = (1 .. seen) \cup {seen + 1}
<1>1. seen \in Nat
  BY DEF OnPath, TreeDone
<1>2. Open \subseteq 1 .. seen
  BY OpenFacts
<1>3. 1 .. seen + 1 = (1 .. seen) \cup {seen + 1} /\ seen + 1 \notin 1 .. seen
  BY <1>1
<1> QED
  BY <1>1, <1>2, <1>3 DEF Walked

(* A schema that none of its parts has been entered of.                    *)
LEMMA KeptOnEnter ==
  ASSUME TreeDone, OnPath, seen + 1 \in 1 .. Len(tree), NEW r, tree[seen + 1].rule # r
  PROVE  Kept(r, seen + 1, Open \cup {seen + 1}) = Kept(r, seen, Open)
<1> DEFINE x == seen + 1
<1>1. x \notin 1 .. seen /\ 1 .. x = (1 .. seen) \cup {x} /\ seen \in Nat
  BY EnterWalked
<1>2. ASSUME NEW i \in 1 .. seen PROVE tree[i].parent # x
  <2>1. CASE i = 1
    BY <1>1, <2>1 DEF TreeDone, Called
  <2>2. CASE i # 1
    <3>1. i \in 2 .. Len(tree)
      BY <1>1, <2>2 DEF TreeDone
    <3>2. tree[i].parent \in 1 .. i - 1
      BY <3>1, ParentFacts
    <3> QED
      BY <1>1, <3>1, <3>2
  <2> QED
    BY <2>1, <2>2
<1> HIDE DEF x
<1> QED
  BY <1>1, <1>2 DEF Kept, x

LEMMA EnterFrame ==
  ASSUME TreeDone, OnPath, seen + 1 \in 1 .. Len(tree),
         NEW f, FieldsFit(f, seen, Open), NEW g, NEW r, r = tree[seen + 1].rule
  PROVE  FitOnEnter(f, g, r, seen + 1, Open \cup {seen + 1})
<1> DEFINE x == seen + 1
           P == Open \cup {x}
<1>1. /\ Walked(x, P) = Walked(seen, Open) /\ seen \in Nat /\ x \notin Open
      /\ x \notin 1 .. seen /\ 1 .. x = (1 .. seen) \cup {x}
  BY EnterWalked
<1>2. /\ ModuleFits(f, seen, Open) /\ InterfaceFits(f, seen, Open) /\ ExternFits(f, Open)
      /\ StructFits(f, seen, Open) /\ EnumFits(f, seen, Open) /\ MemberFits(f, Open)
      /\ OperationFits(f, seen, Open) /\ ParamFits(f, Open) /\ SignalFits(f, seen, Open)
      /\ PropertyFits(f, Open) /\ FieldFits(f, Open) /\ RunningFits(f, seen, Open)
      /\ ReturnIsKept(f, seen, Open) /\ SchemaIsKept(f, seen, Open)
  BY DEF FieldsFit
<1>3. r = tree[x].rule
  OBVIOUS
<1>4. \A q, n : q # r => Below(q, n) \cap (1 .. x) = Below(q, n) \cap (1 .. seen)
  <2>1. \A q, n : q # r => x \notin Below(q, n)
    BY BelowFacts
  <2> QED
    BY <1>1, <2>1
<1>5. \A q : q # r => Kept(q, x, P) = Kept(q, seen, Open)
  BY <1>3, KeptOnEnter
<1> HIDE DEF x
<1>6. ASSUME r \notin {"module", "import"}, g.module = f.module
      PROVE  ModuleFits(g, x, P)
  <2>1. x # 3
    BY <1>3, <1>6 DEF TreeDone
  <2>2. x < 3 <=> seen < 3
    BY <1>1, <2>1 DEF x
  <2>3. List("import", 1, 1 .. x) = List("import", 1, 1 .. seen)
    BY <1>4, <1>6 DEF List
  <2>4. 3 \in P <=> 3 \in Open
    BY <2>1
  <2> HIDE DEF P
  <2>5. ModuleSoFar(x, P) = ModuleSoFar(seen, Open)
    BY <1>1, <2>3, <2>4 DEF ModuleSoFar
  <2> QED
    BY <1>2, <1>6, <2>2, <2>5 DEF ModuleFits
<1>7. r # "interface" /\ g.iface = f.iface => InterfaceFits(g, x, P)
  BY <1>1, <1>2, <1>3 DEF InterfaceFits, Held
<1>8. r # "extern" /\ g.extern = f.extern => ExternFits(g, P)
  BY <1>2, <1>3 DEF ExternFits, Held
<1>9. r # "struct" /\ g.struct = f.struct => StructFits(g, x, P)
  BY <1>1, <1>2, <1>3 DEF StructFits, Held
<1>10. r # "enum" /\ g.enum = f.enum => EnumFits(g, x, P)
  BY <1>1, <1>2, <1>3 DEF EnumFits, Held
<1>11. r # "member" /\ g.member = f.member => MemberFits(g, P)
  BY <1>2, <1>3 DEF MemberFits, Held
<1>12. r # "operation" /\ g.operation = f.operation => OperationFits(g, x, P)
  BY <1>1, <1>2, <1>3 DEF OperationFits, Held
<1>13. r # "param" /\ g.param = f.param => ParamFits(g, P)
  BY <1>2, <1>3 DEF ParamFits, Held
<1>14. r # "signal" /\ g.signal = f.signal => SignalFits(g, x, P)
  BY <1>1, <1>2, <1>3 DEF SignalFits, Held
<1>15. r # "property" /\ g.property = f.property => PropertyFits(g, P)
  BY <1>2, <1>3 DEF PropertyFits, Held
<1>16. r # "field" /\ g.field = f.field => FieldFits(g, P)
  BY <1>2, <1>3 DEF FieldFits, Held
<1>17. ASSUME r \notin {"enum", "member"}, g.running = f.running
       PROVE  RunningFits(g, x, P)
  <2>1. \A n : Unnumbered(n, x) = Unnumbered(n, seen)
    BY <1>4, <1>17 DEF Unnumbered
  <2> QED
    BY <1>2, <1>3, <1>17, <2>1 DEF RunningFits
<1>18. ASSUME r # "return", g.return = f.return
       PROVE  ReturnIsKept(g, x, P)
  <2>1. Kept("return", x, P) = Kept("return", seen, Open)
    BY <1>5, <1>18
  <2>2. \A i \in Kept("return", x, P) : i # x
    BY <1>3, <1>18 DEF Kept
  <2> QED
    BY <1>2, <1>18, <2>1, <2>2 DEF ReturnIsKept
<1>19. ASSUME r \notin {"schema", "primitive", "symbol", "array"}, g.schema = f.schema
       PROVE  SchemaIsKept(g, x, P)
  <2>1. Kept("schema", x, P) = Kept("schema", seen, Open)
    BY <1>5, <1>19
  <2>2. \A i : SchemaSoFar(x, i) = SchemaSoFar(seen, i)
    <3> TAKE i
    <3>1. /\ Below("symbol", i) \cap (1 .. x) = Below("symbol", i) \cap (1 .. seen)
          /\ Below("primitive", i) \cap (1 .. x) = Below("primitive", i) \cap (1 .. seen)
          /\ Below("array", i) \cap (1 .. x) = Below("array", i) \cap (1 .. seen)
      BY <1>4, <1>19
    <3>2. TypeSoFar(x, i) = TypeSoFar(seen, i)
      BY <3>1 DEF TypeSoFar
    <3> QED
      BY <3>1, <3>2 DEF SchemaSoFar
  <2> QED
    BY <1>2, <1>19, <2>1, <2>2 DEF SchemaIsKept
<1> QED
  <2> HIDE DEF P
  <2> QED
    BY <1>6, <1>7, <1>8, <1>9, <1>10, <1>11, <1>12, <1>13, <1>14, <1>15, <1>16, <1>17,
       <1>18, <1>19 DEF FitOnEnter, x, P

----------------
(* What leaving a context leaves as it was. *)

LEMMA ExitWalked ==
  ASSUME TreeDone, OnPath, path # <<>>
  PROVE  Walked(seen, Open \ {Entered}) = Walked(seen, Open) \cup {Entered}
<1>1. Entered \in 1 .. seen /\ Entered \in Open
  BY EnteredFacts
<1> QED
  BY <1>1 DEF Walked

(* What is kept until the context around it is left.                       *)
LEMMA KeptOnExit ==
  ASSUME TreeDone, OnPath, path # <<>>
  PROVE  /\ tree[Entered].rule # "operation" =>
              Kept("return", seen, Open \ {Entered}) = Kept("return", seen, Open)
         /\ tree[Entered].rule \notin {"property", "param", "field", "return"} =>
              Kept("schema", seen, Open \ {Entered}) = Kept("schema", seen, Open)
<1> DEFINE x == Entered
<1>1. 1 .. seen \subseteq 1 .. Len(tree) /\ x \in 1 .. Len(tree)
  BY OpenFacts, EnteredFacts
<1>2. ASSUME NEW i \in 1 .. seen, tree[i].rule \in {"return", "schema"}
      PROVE  /\ i \in 2 .. Len(tree) /\ Owner(i) = tree[i].parent
             /\ tree[i].rule = "return" => tree[tree[i].parent].rule = "operation"
             /\ tree[i].rule = "schema" =>
                  tree[tree[i].parent].rule \in {"property", "field", "param", "return"}
  <2>1. i \in 2 .. Len(tree)
    <3>1. i # 1 /\ i \in 1 .. Len(tree)
      BY <1>1, <1>2, OneDocument
    <3> QED
      BY <3>1
  <2> QED
    BY <1>2, <2>1, OwnerFacts
<1> HIDE DEF x
<1>3. ASSUME tree[x].rule # "operation"
      PROVE  Kept("return", seen, Open \ {x}) = Kept("return", seen, Open)
  BY <1>2, <1>3 DEF Kept
<1>4. ASSUME tree[x].rule \notin {"property", "param", "field", "return"}
      PROVE  Kept("schema", seen, Open \ {x}) = Kept("schema", seen, Open)
  BY <1>2, <1>4 DEF Kept
<1> QED
  BY <1>3, <1>4 DEF x

LEMMA ExitFrame ==
  ASSUME TreeDone, OnPath, path # <<>>,
         NEW f, FieldsFit(f, seen, Open), NEW g, NEW r, r = tree[Entered].rule
  PROVE  FitOnExit(f, g, r, seen, Open \ {Entered})
<1> DEFINE x == Entered
           P == Open \ {x}
           D == Walked(seen, Open)
           E == Walked(seen, P)
<1>1. E = D \cup {x} /\ x \in Open /\ P \subseteq Open
  BY ExitWalked, EnteredFacts
<1>2. /\ ModuleFits(f, seen, Open) /\ InterfaceFits(f, seen, Open) /\ ExternFits(f, Open)
      /\ StructFits(f, seen, Open) /\ EnumFits(f, seen, Open) /\ MemberFits(f, Open)
      /\ OperationFits(f, seen, Open) /\ ParamFits(f, Open) /\ SignalFits(f, seen, Open)
      /\ PropertyFits(f, Open) /\ FieldFits(f, Open) /\ RunningFits(f, seen, Open)
      /\ ReturnIsKept(f, seen, Open) /\ SchemaIsKept(f, seen, Open)
  BY DEF FieldsFit
<1>3. r = tree[x].rule
  OBVIOUS
<1>4. \A q, n : q # r => List(q, n, E) = List(q, n, D) /\ Below(q, n) \cap E = Below(q, n) \cap D
  <2>1. \A q, n : q # r => x \notin Below(q, n)
    BY BelowFacts
  <2>2. \A q, n : q # r => Below(q, n) \cap E = Below(q, n) \cap D
    BY <1>1, <2>1
  <2> QED
    BY <2>2 DEF List
<1>5. /\ r # "operation" => Kept("return", seen, P) = Kept("return", seen, Open)
      /\ r \notin {"property", "param", "field", "return"} =>
           Kept("schema", seen, P) = Kept("schema", seen, Open)
  BY KeptOnExit
<1>0. P = Open \ {x}
  OBVIOUS
<1> HIDE DEF x, D, E, P
<1>6. ASSUME r \notin {"module", "extern", "interface", "struct", "enum"}, g.module = f.module
      PROVE  ModuleFits(g, seen, P)
  <2>1. x # 3
    BY <1>3, <1>6 DEF TreeDone
  <2>2. 3 \in P <=> 3 \in Open
    BY <1>0, <2>1
  <2>3. ModuleSoFar(seen, P) = ModuleSoFar(seen, Open)
    BY <1>4, <1>6, <2>2 DEF ModuleSoFar, D, E
  <2> QED
    BY <1>2, <1>6, <2>3 DEF ModuleFits
<1>7. ASSUME r \notin {"interface", "property", "operation", "signal"}, g.iface = f.iface
      PROVE  InterfaceFits(g, seen, P)
  <2>1. \A n : InterfaceSoFar(n, E) = InterfaceSoFar(n, D)
    BY <1>4, <1>7 DEF InterfaceSoFar
  <2> QED
    BY <1>0, <1>2, <1>3, <1>7, <2>1 DEF InterfaceFits, Held, D, E
<1>8. r # "extern" /\ g.extern = f.extern => ExternFits(g, P)
  BY <1>0, <1>2, <1>3 DEF ExternFits, Held
<1>9. ASSUME r \notin {"struct", "field"}, g.struct = f.struct
      PROVE  StructFits(g, seen, P)
  <2>1. \A n : StructSoFar(n, E) = StructSoFar(n, D)
    BY <1>4, <1>9 DEF StructSoFar
  <2> QED
    BY <1>0, <1>2, <1>3, <1>9, <2>1 DEF StructFits, Held, D, E
<1>10. ASSUME r \notin {"enum", "member"}, g.enum = f.enum
       PROVE  EnumFits(g, seen, P)
  <2>1. \A n : EnumSoFar(n, E) = EnumSoFar(n, D)
    BY <1>4, <1>10 DEF EnumSoFar
  <2> QED
    BY <1>0, <1>2, <1>3, <1>10, <2>1 DEF EnumFits, Held, D, E
<1>11. r # "member" /\ g.member = f.member => MemberFits(g, P)
  BY <1>0, <1>2, <1>3 DEF MemberFits, Held
<1>12. ASSUME r \notin {"operation", "param", "return"}, g.operation = f.operation
       PROVE  OperationFits(g, seen, P)
  <2>1. \A n : OperationSoFar(n, E) = OperationSoFar(n, D)
    BY <1>4, <1>12 DEF OperationSoFar
  <2> QED
    BY <1>0, <1>2, <1>3, <1>12, <2>1 DEF OperationFits, Held, D, E
<1>13. r # "param" /\ g.param = f.param => ParamFits(g, P)
  BY <1>0, <1>2, <1>3 DEF ParamFits, Held
<1>14. ASSUME r \notin {"signal", "param"}, g.signal = f.signal
       PROVE  SignalFits(g, seen, P)
  <2>1. \A n : SignalSoFar(n, E) = SignalSoFar(n, D)
    BY <1>4, <1>14 DEF SignalSoFar
  <2> QED
    BY <1>0, <1>2, <1>3, <1>14, <2>1 DEF SignalFits, Held, D, E
<1>15. r # "property" /\ g.property = f.property => PropertyFits(g, P)
  BY <1>0, <1>2, <1>3 DEF PropertyFits, Held
<1>16. r # "field" /\ g.field = f.field => FieldFits(g, P)
  BY <1>0, <1>2, <1>3 DEF FieldFits, Held
<1>17. g.running = f.running => RunningFits(g, seen, P)
  BY <1>0, <1>2 DEF RunningFits
<1>18. ASSUME r \notin {"operation", "return"}, g.return = f.return
       PROVE  ReturnIsKept(g, seen, P)
  <2>1. \A i \in Kept("return", seen, P) : i # x
    BY <1>3, <1>18 DEF Kept
  <2> QED
    BY <1>0, <1>2, <1>5, <1>18, <2>1 DEF ReturnIsKept
<1>19. ASSUME r \notin {"property", "param", "field", "return"}, g.schema = f.schema
       PROVE  SchemaIsKept(g, seen, P)
  BY <1>2, <1>5, <1>19 DEF SchemaIsKept
<1> QED
  BY <1>6, <1>7, <1>8, <1>9, <1>10, <1>11, <1>12, <1>13, <1>14, <1>15, <1>16, <1>17,
     <1>18, <1>19 DEF FitOnExit, x, P

----------------
(* The contexts that are open at a time. *)

(* The module is the third context, and there is no other.                 *)
LEMMA OneModule ==
  ASSUME TreeDone
  PROVE  /\ \A i \in 1 .. Len(tree) : tree[i].rule = "module" => i = 3
         /\ \A i \in 1 .. Len(tree) :
              tree[i].rule \notin {"document", "header", "module"} => i > 3
<1>1. /\ Len(tree) \in Nat /\ Len(tree) >= 3 /\ CalledOnce
      /\ tree[2].rule = "header" /\ tree[2].parent = 1
      /\ tree[3].rule = "module" /\ tree[3].parent = 2 /\ tree[1].rule = "document"
  BY OneDocument DEF TreeDone
<1>2. 2 \in 2 .. Len(tree) /\ 3 \in 2 .. Len(tree)
  BY <1>1
<1>3. ASSUME NEW i \in 1 .. Len(tree), tree[i].rule = "header" PROVE i = 2
  <2>1. i \in 2 .. Len(tree)
    BY <1>1, <1>3
  <2>2. tree[tree[i].parent].rule = "document" /\ tree[i].parent \in 1 .. Len(tree)
    BY <1>3, <2>1, ParentFacts DEF Calls
  <2>3. tree[i].parent = 1
    BY <2>2, OneDocument
  <2> QED
    BY <1>1, <1>2, <1>3, <2>1, <2>3 DEF CalledOnce, Once
<1>4. ASSUME NEW i \in 1 .. Len(tree), tree[i].rule = "module" PROVE i = 3
  <2>1. i \in 2 .. Len(tree)
    BY <1>1, <1>4
  <2>2. tree[tree[i].parent].rule = "header" /\ tree[i].parent \in 1 .. Len(tree)
    BY <1>4, <2>1, ParentFacts DEF Calls
  <2>3. tree[i].parent = 2
    BY <1>3, <2>2
  <2> QED
    BY <1>1, <1>2, <1>4, <2>1, <2>3 DEF CalledOnce, Once
<1>5. ASSUME NEW i \in 1 .. Len(tree), tree[i].rule \notin {"document", "header", "module"}
      PROVE  i > 3
  <2>1. i # 1 /\ i # 2 /\ i # 3
    BY <1>1, <1>5
  <2> QED
    BY <2>1
<1> QED
  BY <1>4, <1>5

(* Parts there is one of.                                                  *)
LEMMA OneBelow ==
  ASSUME TreeDone, NEW n
  PROVE  /\ \A r \in {"schema", "return", "primitive", "symbol"} :
              \A i, j \in Below(r, n) : i = j
         /\ Below("primitive", n) = {} \/ Below("symbol", n) = {}
<1> DEFINE Ones == {"schema", "return", "primitive", "symbol"}
<1>1. ASSUME NEW r \in Ones, NEW q \in Ones, NEW i \in Below(r, n), NEW j \in Below(q, n),
             Once(tree[n].rule, r) => Once(tree[n].rule, q)
      PROVE  i = j
  <2>1. /\ i \in 2 .. Len(tree) /\ tree[i].rule = r /\ Owner(i) = n
        /\ j \in 2 .. Len(tree) /\ tree[j].rule = q /\ Owner(j) = n
    BY BelowFacts
  <2>2. tree[i].parent = n /\ tree[j].parent = n
    BY <2>1, OwnerFacts
  <2>3. Calls(tree[n].rule, r)
    BY <2>1, <2>2, ParentFacts
  <2>4. Once(tree[n].rule, r)
    BY <2>3 DEF Calls, Once
  <2>5. CalledOnce
    BY DEF TreeDone
  <2> QED
    BY <1>1, <2>1, <2>2, <2>4, <2>5 DEF CalledOnce
<1>2. ASSUME NEW i \in Below("primitive", n), NEW j \in Below("symbol", n) PROVE FALSE
  <2>1. Once(tree[n].rule, "primitive") => Once(tree[n].rule, "symbol")
    BY DEF Once
  <2>2. i = j
    BY <1>1, <2>1
  <2>3. tree[i].rule = "primitive" /\ tree[j].rule = "symbol"
    BY BelowFacts
  <2> QED
    BY <2>2, <2>3
<1> QED
  BY <1>1, <1>2

(* What is part of a context that is done is done.                         *)
LEMMA DoneParts ==
  ASSUME TreeDone, OnPath, NEW n \in Walked(seen, Open)
  PROVE  \A r : Below(r, n) \subseteq Walked(seen, Open)
<1>1. ASSUME NEW m \in Walked(seen, Open), NEW j \in 2 .. Len(tree), tree[j].parent = m
      PROVE  j \in Walked(seen, Open)
  <2>1. m \in 1 .. seen /\ m \notin Open /\ seen \in Nat /\ Len(tree) \in Nat
    BY DEF Walked, OnPath, TreeDone
  <2>2. j \notin seen + 1 .. Len(tree)
    BY <1>1, <2>1 DEF OnPath
  <2>3. j \in 1 .. seen
    BY <2>1, <2>2
  <2>4. j \notin Open
    <3>1. j # 1
      OBVIOUS
    <3> QED
      BY <1>1, <2>1, <3>1, OpenFacts
  <2> QED
    BY <2>3, <2>4 DEF Walked
<1> SUFFICES ASSUME NEW r, NEW i \in Below(r, n) PROVE i \in Walked(seen, Open)
  OBVIOUS
<1>2. i \in 2 .. Len(tree) /\ Owner(i) = n
  BY BelowFacts
<1>3. CASE tree[tree[i].parent].rule \in Wrappers
  <2>1. tree[i].parent \in 1 .. Len(tree) /\ tree[i].parent # 1
    BY <1>2, <1>3, ParentFacts, OneDocument DEF Wrappers
  <2>2. tree[i].parent \in 2 .. Len(tree) /\ tree[tree[i].parent].parent = n
    BY <1>2, <1>3, <2>1 DEF Owner, Wrappers
  <2> QED
    BY <1>1, <1>2, <2>2
<1>4. CASE tree[tree[i].parent].rule \notin Wrappers
  <2>1. tree[i].parent = n
    BY <1>2, <1>4 DEF Owner, Wrappers
  <2> QED
    BY <1>1, <1>2, <2>1
<1> QED
  BY <1>3, <1>4

(* The walker is in one node with a schema at a time, and in a property,   *)
(* an operation or a signal it is in the members of an interface.          *)
LEMMA OneTyped ==
  ASSUME TreeDone, OnPath
  PROVE  /\ \A p, q \in Open : tree[p].rule \in Typeds /\ tree[q].rule \in Typeds => p = q
         /\ \A p, q \in Open :
              tree[p].rule \in {"operation", "signal"} /\ tree[q].rule \in Typeds
                => tree[q].rule \in {"param", "return"}
         /\ \A p, q \in Open :
              tree[p].rule \in {"operation", "signal"} /\ tree[q].rule \in {"operation", "signal"}
                => p = q
<1>1. /\ \A p, q \in Open : Rank(tree[p].rule) = Rank(tree[q].rule) => p = q
      /\ \A p \in Open : p \in 1 .. Len(tree)
  BY OpenFacts
<1>2. ASSUME NEW p \in Open, p # 1
      PROVE  tree[p].parent \in Open /\ Calls(tree[tree[p].parent].rule, tree[p].rule)
  <2>1. p \in 2 .. Len(tree)
    BY <1>1, <1>2
  <2> QED
    BY <1>2, <2>1, OpenFacts, ParentFacts
<1>3. \A p \in Open : tree[p].rule # "document" => p # 1
  BY OneDocument
<1>4. ASSUME NEW p \in Open, tree[p].rule \in {"property", "operation", "signal"}
      PROVE  \E m \in Open : tree[m].rule = "members"
  BY <1>2, <1>3, <1>4 DEF Calls
<1>5. ASSUME NEW p \in Open, tree[p].rule \in {"param", "return"}
      PROVE  \E m \in Open : tree[m].rule \in {"operation", "signal"}
  BY <1>2, <1>3, <1>5 DEF Calls
<1>6. /\ Rank("members") = 3 /\ Rank("field") = 3 /\ Rank("property") = 4
      /\ Rank("operation") = 4 /\ Rank("signal") = 4 /\ Rank("param") = 5
      /\ Rank("return") = 5
  BY DEF Rank
<1>7. ASSUME NEW p \in Open, NEW q \in Open, tree[p].rule = "field", tree[q].rule = "members"
      PROVE  FALSE
  BY <1>1, <1>6, <1>7
<1>8. ASSUME NEW p \in Open, NEW q \in Open, tree[p].rule \in {"operation", "signal"},
             tree[q].rule = "property"
      PROVE  FALSE
  BY <1>1, <1>6, <1>8
<1>9. ASSUME NEW p \in Open, NEW q \in Open, tree[p].rule \in {"operation", "signal"},
             tree[q].rule \in Typeds
      PROVE  tree[q].rule \in {"param", "return"}
  <2>1. tree[q].rule # "property"
    BY <1>8, <1>9
  <2>2. tree[q].rule # "field"
    BY <1>4, <1>7, <1>9
  <2> QED
    BY <1>9, <2>1, <2>2 DEF Typeds
<1>10. ASSUME NEW p \in Open, NEW q \in Open, tree[p].rule \in {"operation", "signal"},
              tree[q].rule \in {"operation", "signal"}
       PROVE  p = q
  BY <1>1, <1>6, <1>10
<1>11. ASSUME NEW p \in Open, NEW q \in Open, tree[p].rule \in Typeds, tree[q].rule \in Typeds
       PROVE  p = q
  <2>1. CASE tree[p].rule \in {"param", "return"}
    <3>1. tree[q].rule \in {"param", "return"}
      BY <1>5, <1>9, <1>11, <2>1
    <3> QED
      BY <1>1, <1>6, <2>1, <3>1
  <2>2. CASE tree[q].rule \in {"param", "return"}
    <3>1. tree[p].rule \in {"param", "return"}
      BY <1>5, <1>9, <1>11, <2>2
    <3> QED
      BY <1>1, <1>6, <2>2, <3>1
  <2>3. CASE tree[p].rule \in {"field", "property"} /\ tree[q].rule \in {"field", "property"}
    <3>1. tree[p].rule = tree[q].rule
      BY <1>4, <1>7, <2>3
    <3> QED
      BY <1>1, <3>1
  <2> QED
    BY <1>11, <2>1, <2>2, <2>3 DEF Typeds
<1> QED
  BY <1>9, <1>10, <1>11

(* What is open when the walker enters a context is of a lower rank.       *)
LEMMA OpenOnEnter ==
  ASSUME TreeDone, OnPath, NEW r, Enter(r)
  PROVE  /\ \A p \in Open : /\ Rank(tree[p].rule) < Rank(r) /\ Rank(tree[p].rule) \in Nat
                            /\ p < seen + 1
         /\ r # "document" => /\ seen + 1 \in 2 .. Len(tree) /\ path # <<>>
                              /\ tree[seen + 1].parent = Entered /\ Entered \in Open
                              /\ Owner(seen + 1) \in Open
<1>1. /\ seen + 1 \in 1 .. Len(tree) /\ tree[seen + 1].rule = r
      /\ path = <<>> => seen = 0
      /\ path # <<>> => tree[seen + 1].parent = Entered /\ seen + 1 \in 2 .. Len(tree)
  BY EnterStep
<1>2. CASE path = <<>>
  <2>1. Open = {}
    BY <1>2 DEF Open
  <2>2. r = "document"
    BY <1>1, <1>2, OneDocument
  <2> QED
    BY <2>1, <2>2
<1>3. CASE path # <<>>
  <2>1. /\ Entered \in Open /\ Entered \in 1 .. Len(tree) /\ seen \in Nat
        /\ \A p \in Open : /\ p \in 1 .. seen /\ p <= Entered
                           /\ p # Entered => Rank(tree[p].rule) < Rank(tree[Entered].rule)
    BY <1>3, EnteredFacts
  <2>2. /\ Rank(tree[Entered].rule) < Rank(r) /\ Rank(tree[Entered].rule) \in Nat
        /\ Rank(r) \in Nat
    BY <1>1, <1>3, ParentFacts
  <2>3. \A p \in Open : Rank(tree[p].rule) \in Nat
    BY OpenFacts, RankIsNat
  <2>4. Owner(seen + 1) \in Open
    <3>1. CASE tree[Entered].rule \in Wrappers
      <4>1. Entered # 1
        BY <3>1, OneDocument DEF Wrappers
      <4>2. tree[Entered].parent \in Open
        BY <2>1, <4>1, OpenFacts
      <4> QED
        BY <1>1, <1>3, <3>1, <4>2 DEF Owner, Wrappers
    <3>2. CASE tree[Entered].rule \notin Wrappers
      BY <1>1, <1>3, <2>1, <3>2 DEF Owner, Wrappers
    <3> QED
      BY <3>1, <3>2
  <2>5. ASSUME NEW p \in Open
        PROVE  Rank(tree[p].rule) < Rank(r) /\ Rank(tree[p].rule) \in Nat /\ p < seen + 1
    <3>1. p \in 1 .. seen /\ Rank(tree[p].rule) \in Nat
      BY <2>1, <2>3
    <3>2. CASE p = Entered
      BY <2>1, <2>2, <3>1, <3>2
    <3>3. CASE p # Entered
      BY <2>1, <2>2, <3>1, <3>3
    <3> QED
      BY <3>2, <3>3
  <2> QED
    BY <1>1, <1>3, <2>1, <2>4, <2>5
<1> QED
  BY <1>2, <1>3

----------------
(* What the tree says of a context has the type of its node. *)

(* Texts of the tree.                                                      *)
LEMMA NameTyped ==
  ASSUME TreeDone, Readable, NEW i \in 1 .. seen, i \in 1 .. Len(tree),
         Unnamed(tree[i].rule) # {}
  PROVE  tree[i].name \in Text
<1>1. tree[i].name # Nil
  BY DEF Readable
<1>2. tree[i].rule \in RuleNames /\ tree[i].name \in NameOf(tree[i].rule) \cup {Nil}
  <2>1. tree \in Seq(Contexts) /\ Written
    BY DEF TreeDone
  <2>2. tree[i] \in Contexts
    BY <2>1
  <2> QED
    BY <2>1, <2>2 DEF Written, Contexts
<1>3. tree[i].name \in NamesOf[tree[i].rule] \cup {MissingToken}
  BY <1>1, <1>2 DEF NameOf
<1>4. NamesOf[tree[i].rule] \subseteq Text /\ MissingToken \in Text
  <2>1. DOMAIN Grammar = RuleNames
    BY DEF Grammar, RuleNames
  <2>2. NamesOf \in [DOMAIN Grammar -> SUBSET Text] /\ MissingToken \in Text
    BY DocumentAssumption
  <2> QED
    BY <1>2, <2>1, <2>2
<1> QED
  BY <1>3, <1>4

LEMMA PartsTyped ==
  ASSUME TreeDone, Readable, NEW i \in 1 .. seen, i \in 1 .. Len(tree)
  PROVE  /\ tree[i].rule = "symbol" => Parts[tree[i].name] \in Text \X Text
         /\ tree[i].rule = "interface" => Extended(tree[i].also) \in (Text \X Text) \cup {Nil}
<1>1. /\ tree[i].name \in NameOf(tree[i].rule) \cup {Nil}
      /\ tree[i].also \in AlsoOf(tree[i].rule) \cup {Nil}
  BY DEF TreeDone, Written
<1>2. \A t \in NamesOf["symbol"] \cup ExtendsOf \cup {MissingToken} : Parts[t] \in Text \X Text
  BY DocumentAssumption
<1>3. ASSUME tree[i].rule = "symbol" PROVE Parts[tree[i].name] \in Text \X Text
  <2>1. tree[i].name # Nil
    BY <1>3 DEF Readable, Unnamed
  <2> QED
    BY <1>1, <1>2, <1>3, <2>1 DEF NameOf
<1>4. ASSUME tree[i].rule = "interface"
      PROVE  Extended(tree[i].also) \in (Text \X Text) \cup {Nil}
  <2>1. tree[i].also \in ExtendsOf \cup {MissingToken} \cup {Nil}
    BY <1>1, <1>4 DEF AlsoOf
  <2>2. CASE tree[i].also = Nil
    BY <2>2 DEF Extended
  <2>3. CASE tree[i].also # Nil
    BY <1>2, <2>1, <2>3 DEF Extended
  <2> QED
    BY <2>2, <2>3
<1> QED
  BY <1>3, <1>4

LEMMA MetasTyped ==
  ASSUME TreeDone, NEW n
  PROVE  /\ Metas(n) \in Metadata /\ {} \in Metadata
         /\ n \in 1 .. Len(tree) /\ tree[n].rule \in {"return", "param"} =>
              Metas(n) = {} /\ tree[n].also = Nil
<1>1. ASSUME NEW i \in 1 .. Len(tree), tree[i].rule = "meta" PROVE tree[i].also \in Text \cup {Nil}
  <2>1. tree[i].also \in AlsoOf("meta") \cup {Nil}
    BY <1>1 DEF TreeDone, Written
  <2>2. AlsoOf("meta") = {"tagLine", "docLine"}
    BY DEF AlsoOf, Also
  <2>3. "tagLine" \in Text /\ "docLine" \in Text
    BY DocumentAssumption
  <2> QED
    BY <2>1, <2>2, <2>3
<1>2. Metas(n) \in SUBSET (Text \cup {Nil})
  BY <1>1 DEF Metas
<1>3. ASSUME n \in 1 .. Len(tree), tree[n].rule \in {"return", "param"}
      PROVE  Metas(n) = {} /\ tree[n].also = Nil
  <2>1. tree[n].also \in AlsoOf(tree[n].rule) \cup {Nil}
    BY <1>3 DEF TreeDone, Written
  <2>2. AlsoOf(tree[n].rule) = {}
    BY <1>3 DEF AlsoOf, Also
  <2>3. ASSUME NEW j \in 1 .. Len(tree), tree[j].rule = "meta", tree[j].parent = n
        PROVE  FALSE
    <3>1. j # 1
      BY <2>3, OneDocument
    <3>2. j \in 2 .. Len(tree)
      BY <3>1
    <3>3. Calls(tree[n].rule, "meta")
      BY <2>3, <3>2, ParentFacts
    <3> QED
      BY <1>3, <3>3 DEF Calls
  <2> QED
    BY <2>1, <2>2, <2>3 DEF Metas
<1> QED
  BY <1>2, <1>3 DEF Metadata

(* A schema is typed at any time, and it is at last what the tree says.    *)
LEMMA SchemaTyped ==
  ASSUME TreeDone, OnPath, Readable, NEW i
  PROVE  /\ SchemaSoFar(seen, i) \in Schemas
         /\ i \in Walked(seen, Open) =>
              /\ TypeSoFar(seen, i) = TypeAt(i)
              /\ SchemaSoFar(seen, i) =
                   [import |-> TypeAt(i)[1], type |-> TypeAt(i)[2],
                    array |-> Below("array", i) # {}, kind |-> ""]
<1>1. 1 .. seen \subseteq 1 .. Len(tree)
  BY OpenFacts
<1>2. "" \in Text /\ "" \in SchemaKinds
  BY DocumentAssumption DEF SchemaKinds
<1>3. TypeSoFar(seen, i) \in Text \X Text
  <2>1. CASE Below("symbol", i) \cap (1 .. seen) # {}
    <3> DEFINE k == The(Below("symbol", i))
    <3>1. k \in Below("symbol", i)
      BY <2>1 DEF The
    <3>2. k \in 1 .. seen
      BY <2>1, <3>1, OneBelow
    <3>3. tree[k].rule = "symbol"
      BY <3>1, BelowFacts
    <3> HIDE DEF k
    <3>4. Parts[tree[k].name] \in Text \X Text
      BY <1>1, <3>2, <3>3, PartsTyped
    <3>5. TypeSoFar(seen, i) = Parts[tree[k].name]
      <4>1. Below("primitive", i) \cap (1 .. seen) = {}
        BY <2>1, OneBelow
      <4> QED
        BY <2>1, <4>1 DEF TypeSoFar, k
    <3> QED
      BY <3>4, <3>5
  <2>2. CASE /\ Below("symbol", i) \cap (1 .. seen) = {}
             /\ Below("primitive", i) \cap (1 .. seen) # {}
    <3> DEFINE k == The(Below("primitive", i))
    <3>1. k \in Below("primitive", i)
      BY <2>2 DEF The
    <3>2. k \in 1 .. seen
      BY <2>2, <3>1, OneBelow
    <3>3. tree[k].rule = "primitive"
      BY <3>1, BelowFacts
    <3> HIDE DEF k
    <3>4. tree[k].name \in Text
      BY <1>1, <3>2, <3>3, NameTyped DEF Unnamed
    <3> QED
      BY <1>2, <2>2, <3>4 DEF TypeSoFar, k
  <2>3. CASE /\ Below("symbol", i) \cap (1 .. seen) = {}
             /\ Below("primitive", i) \cap (1 .. seen) = {}
    BY <1>2, <2>3 DEF TypeSoFar
  <2> QED
    BY <2>1, <2>2, <2>3
<1>4. SchemaSoFar(seen, i) \in Schemas
  <2>1. TypeSoFar(seen, i)[1] \in Text /\ TypeSoFar(seen, i)[2] \in Text
    BY <1>3
  <2> QED
    BY <1>2, <2>1 DEF SchemaSoFar, Schemas
<1>5. ASSUME i \in Walked(seen, Open)
      PROVE  /\ TypeSoFar(seen, i) = TypeAt(i)
             /\ SchemaSoFar(seen, i) =
                  [import |-> TypeAt(i)[1], type |-> TypeAt(i)[2],
                   array |-> Below("array", i) # {}, kind |-> ""]
  <2>1. \A r : Below(r, i) \cap (1 .. seen) = Below(r, i)
    BY <1>5, DoneParts DEF Walked
  <2>2. TypeSoFar(seen, i) = TypeAt(i)
    BY <2>1 DEF TypeSoFar, TypeAt
  <2> QED
    BY <2>1, <2>2 DEF SchemaSoFar
<1> QED
  BY <1>4, <1>5

(* The schema at a node whose parts are done.                              *)
LEMMA SchemaAtFacts ==
  ASSUME TreeDone, OnPath, Readable, NEW n, Below("schema", n) \subseteq Walked(seen, Open)
  PROVE  \A i \in Below("schema", n) : SchemaSoFar(seen, i) = SchemaAt(n) /\ SchemaAt(n) \in Schemas
<1> SUFFICES ASSUME NEW i \in Below("schema", n)
             PROVE  SchemaSoFar(seen, i) = SchemaAt(n) /\ SchemaAt(n) \in Schemas
  OBVIOUS
<1>1. The(Below("schema", n)) = i
  BY OneBelow DEF The
<1>2. i \in Walked(seen, Open)
  OBVIOUS
<1>3. /\ SchemaSoFar(seen, i) \in Schemas
      /\ SchemaSoFar(seen, i) =
           [import |-> TypeAt(i)[1], type |-> TypeAt(i)[2],
            array |-> Below("array", i) # {}, kind |-> ""]
  BY <1>2, SchemaTyped
<1> QED
  BY <1>1, <1>3 DEF SchemaAt

(***************************************************************************)
(* What the tree says of contexts that are done is of the model's types.   *)
(***************************************************************************)
LEMMA TypedNodeTyped ==
  ASSUME TreeDone, OnPath, Readable, NEW i \in Walked(seen, Open), tree[i].rule \in Typeds
  PROVE  TypedAt(i) \in TypedNodes
<1>1. i \in 1 .. seen /\ i \in 1 .. Len(tree)
  BY OpenFacts DEF Walked
<1>2. SchemaAt(i) \in Schemas
  <2>1. PICK j \in 2 .. Len(tree) : tree[j].parent = i /\ tree[j].rule = "schema"
    BY DEF Readable, Typeds
  <2>2. j \in Below("schema", i)
    BY <2>1, BelowFacts, OwnerFacts
  <2>3. Below("schema", i) \subseteq Walked(seen, Open)
    BY DoneParts
  <2> QED
    BY <2>2, <2>3, SchemaAtFacts
<1>3. (IF tree[i].rule = "return" THEN "" ELSE tree[i].name) \in Text
  <2>1. CASE tree[i].rule = "return"
    BY <2>1, DocumentAssumption
  <2>2. CASE tree[i].rule # "return"
    BY <1>1, <2>2, NameTyped DEF Typeds, Unnamed
  <2> QED
    BY <2>1, <2>2
<1>4. Metas(i) \in Metadata
  BY MetasTyped
<1> QED
  BY <1>2, <1>3, <1>4 DEF TypedAt, TypedNodes

(* The typed nodes listed at a context, all or those done so far.          *)
LEMMA TypedNodesTyped ==
  ASSUME TreeDone, OnPath, Readable, NEW n, NEW r \in {"property", "param", "field"}
  PROVE  /\ Map(List(r, n, Walked(seen, Open)), TypedAt) \in Seq(TypedNodes)
         /\ Below(r, n) \subseteq Walked(seen, Open) =>
              Map(Under(r, n), TypedAt) \in Seq(TypedNodes)
<1> DEFINE D == Walked(seen, Open)
           B == Below(r, n) \cap D
<1>1. ASSUME NEW i \in B PROVE TypedAt(i) \in TypedNodes
  <2>1. tree[i].rule = r
    BY BelowFacts
  <2> QED
    BY <2>1, TypedNodeTyped DEF Typeds
<1>2. /\ Sorted(List(r, n, D), B)
      /\ Below(r, n) \subseteq D => List(r, n, D) = Under(r, n)
  <2> HIDE DEF D
  <2> QED
    BY ListFacts
<1> HIDE DEF B, D
<1>3. Map(List(r, n, D), TypedAt) \in Seq(TypedNodes)
  BY <1>1, <1>2, TypedList
<1> QED
  BY <1>2, <1>3 DEF D

LEMMA OperationTyped ==
  ASSUME TreeDone, OnPath, Readable, NEW n \in Walked(seen, Open), tree[n].rule = "operation"
  PROVE  OperationAt(n) \in Operations
<1>1. n \in 1 .. seen /\ n \in 1 .. Len(tree)
  BY OpenFacts DEF Walked
<1>2. tree[n].name \in Text /\ Metas(n) \in Metadata
  BY <1>1, NameTyped, MetasTyped DEF Unnamed
<1>3. \A r : Below(r, n) \subseteq Walked(seen, Open)
  BY DoneParts
<1>4. Map(Under("param", n), TypedAt) \in Seq(TypedNodes)
  BY <1>3, TypedNodesTyped
<1>5. ASSUME Below("return", n) # {} PROVE TypedAt(The(Below("return", n))) \in TypedNodes
  <2> DEFINE i == The(Below("return", n))
  <2>1. i \in Below("return", n)
    BY <1>5 DEF The
  <2>2. i \in Walked(seen, Open) /\ tree[i].rule = "return"
    BY <1>3, <2>1, BelowFacts
  <2> HIDE DEF i
  <2>3. TypedAt(i) \in TypedNodes
    BY <2>2, TypedNodeTyped DEF Typeds
  <2> QED
    BY <2>3 DEF i
<1>6. (IF Below("return", n) = {} THEN Nil ELSE TypedAt(The(Below("return", n))))
        \in TypedNodes \cup {Nil}
  BY <1>5
<1> QED
  BY <1>2, <1>4, <1>6 DEF OperationAt, Operations

LEMMA SignalTyped ==
  ASSUME TreeDone, OnPath, Readable, NEW n \in Walked(seen, Open), tree[n].rule = "signal"
  PROVE  SignalAt(n) \in Signals
<1>1. n \in 1 .. seen /\ n \in 1 .. Len(tree)
  BY OpenFacts DEF Walked
<1>2. tree[n].name \in Text /\ Metas(n) \in Metadata
  BY <1>1, NameTyped, MetasTyped DEF Unnamed
<1>3. Map(Under("param", n), TypedAt) \in Seq(TypedNodes)
  BY DoneParts, TypedNodesTyped
<1> QED
  BY <1>2, <1>3 DEF SignalAt, Signals

LEMMA StructTyped ==
  ASSUME TreeDone, OnPath, Readable, NEW n \in Walked(seen, Open), tree[n].rule = "struct"
  PROVE  StructAt(n) \in Structs
<1>1. n \in 1 .. seen /\ n \in 1 .. Len(tree)
  BY OpenFacts DEF Walked
<1>2. tree[n].name \in Text /\ Metas(n) \in Metadata
  BY <1>1, NameTyped, MetasTyped DEF Unnamed
<1>3. Map(Under("field", n), TypedAt) \in Seq(TypedNodes)
  BY DoneParts, TypedNodesTyped
<1> QED
  BY <1>2, <1>3 DEF StructAt, Structs

LEMMA ExternTyped ==
  ASSUME TreeDone, OnPath, Readable, NEW n \in Walked(seen, Open), tree[n].rule = "extern"
  PROVE  ExternAt(n) \in Externs
<1>1. n \in 1 .. seen /\ n \in 1 .. Len(tree)
  BY OpenFacts DEF Walked
<1>2. tree[n].name \in Text /\ Metas(n) \in Metadata
  BY <1>1, NameTyped, MetasTyped DEF Unnamed
<1> QED
  BY <1>2 DEF ExternAt, Externs

(* A member's number is there from when it is entered.                     *)
LEMMA MemberTyped ==
  ASSUME TreeDone, OnPath, Readable, NEW n \in 1 .. seen, tree[n].rule = "member"
  PROVE  MemberAt(n) \in Members
<1>1. n \in 1 .. Len(tree)
  BY OpenFacts
<1>2. tree[n].name \in Text /\ Metas(n) \in Metadata
  BY <1>1, NameTyped, MetasTyped DEF Unnamed
<1>3. ASSUME tree[n].also # Nil PROVE tree[n].also \in Int
  <2>1. tree[n].also \in AlsoOf(tree[n].rule) \cup {Nil}
    BY <1>1 DEF TreeDone, Written
  <2>2. tree[n].also \in Values
    BY <1>3, <2>1 DEF AlsoOf, Readable
  <2> QED
    BY <2>2, DocumentAssumption
<1>4. Cardinality({i \in Below("member", tree[n].parent) : i < n /\ tree[i].also = Nil}) \in Int
  <2> DEFINE S == {i \in Below("member", tree[n].parent) : i < n /\ tree[i].also = Nil}
  <2>1. S \subseteq 1 .. Len(tree)
    BY BelowFacts
  <2>2. IsFiniteSet(1 .. Len(tree))
    BY FS_Interval DEF TreeDone
  <2> HIDE DEF S
  <2>3. Cardinality(S) \in Nat
    BY <2>1, <2>2, FS_Subset, FS_CardinalityType
  <2> QED
    BY <2>3 DEF S
<1> QED
  BY <1>2, <1>3, <1>4 DEF MemberAt, Members

LEMMA EnumTyped ==
  ASSUME TreeDone, OnPath, Readable, NEW n
  PROVE  /\ Map(List("member", n, Walked(seen, Open)), MemberAt) \in Seq(Members)
         /\ n \in Walked(seen, Open) /\ tree[n].rule = "enum" => EnumAt(n) \in Enums
<1> DEFINE D == Walked(seen, Open)
           B == Below("member", n) \cap D
<1>1. ASSUME NEW i \in B PROVE MemberAt(i) \in Members
  <2>1. tree[i].rule = "member" /\ i \in 1 .. seen
    BY BelowFacts DEF Walked
  <2> QED
    BY <2>1, MemberTyped
<1>2. /\ Sorted(List("member", n, D), B)
      /\ Below("member", n) \subseteq D => List("member", n, D) = Under("member", n)
  <2> HIDE DEF D
  <2> QED
    BY ListFacts
<1> HIDE DEF B, D
<1>3. Map(List("member", n, D), MemberAt) \in Seq(Members)
  BY <1>1, <1>2, MemberList
<1>4. ASSUME n \in D, tree[n].rule = "enum" PROVE EnumAt(n) \in Enums
  <2>1. n \in 1 .. seen /\ n \in 1 .. Len(tree)
    BY <1>4, OpenFacts DEF Walked, D
  <2>2. tree[n].name \in Text /\ Metas(n) \in Metadata
    BY <1>4, <2>1, NameTyped, MetasTyped DEF Unnamed
  <2>3. Below("member", n) \subseteq D
    BY <1>4, DoneParts DEF D
  <2>4. Map(Under("member", n), MemberAt) \in Seq(Members)
    BY <1>2, <1>3, <2>3
  <2> QED
    BY <2>2, <2>4 DEF EnumAt, Enums
<1> QED
  BY <1>3, <1>4 DEF D

LEMMA ListedSorted ==
  ASSUME TreeDone, NEW r, NEW n
  PROVE  /\ Sorted(List(r, n, Walked(seen, Open)), Below(r, n) \cap Walked(seen, Open))
         /\ Below(r, n) \subseteq Walked(seen, Open) => List(r, n, Walked(seen, Open)) = Under(r, n)
<1> DEFINE D == Walked(seen, Open)
<1> HIDE DEF D
<1>1. /\ Sorted(List(r, n, D), Below(r, n) \cap D)
      /\ Below(r, n) \subseteq D => List(r, n, D) = Under(r, n)
  BY ListFacts
<1> QED
  BY <1>1 DEF D

LEMMA OperationListTyped ==
  ASSUME TreeDone, OnPath, Readable, NEW n
  PROVE  /\ Map(List("operation", n, Walked(seen, Open)), OperationAt) \in Seq(Operations)
         /\ Below("operation", n) \subseteq Walked(seen, Open) =>
              Map(Under("operation", n), OperationAt) \in Seq(Operations)
<1>1. ASSUME NEW i \in Below("operation", n) \cap Walked(seen, Open) PROVE OperationAt(i) \in Operations
  BY BelowFacts, OperationTyped
<1> QED
  BY <1>1, ListedSorted, OperationList

LEMMA SignalListTyped ==
  ASSUME TreeDone, OnPath, Readable, NEW n
  PROVE  /\ Map(List("signal", n, Walked(seen, Open)), SignalAt) \in Seq(Signals)
         /\ Below("signal", n) \subseteq Walked(seen, Open) =>
              Map(Under("signal", n), SignalAt) \in Seq(Signals)
<1>1. ASSUME NEW i \in Below("signal", n) \cap Walked(seen, Open) PROVE SignalAt(i) \in Signals
  BY BelowFacts, SignalTyped
<1> QED
  BY <1>1, ListedSorted, SignalList

LEMMA InterfaceTyped ==
  ASSUME TreeDone, OnPath, Readable, NEW n \in Walked(seen, Open), tree[n].rule = "interface"
  PROVE  InterfaceAt(n) \in Interfaces
<1>1. n \in 1 .. seen /\ n \in 1 .. Len(tree)
  BY OpenFacts DEF Walked
<1>2. /\ tree[n].name \in Text /\ Metas(n) \in Metadata
      /\ Extended(tree[n].also) \in (Text \X Text) \cup {Nil}
  BY <1>1, NameTyped, MetasTyped, PartsTyped DEF Unnamed
<1>3. \A r : Below(r, n) \subseteq Walked(seen, Open)
  BY DoneParts
<1>4. /\ Map(Under("property", n), TypedAt) \in Seq(TypedNodes)
      /\ Map(Under("operation", n), OperationAt) \in Seq(Operations)
      /\ Map(Under("signal", n), SignalAt) \in Seq(Signals)
  BY <1>3, TypedNodesTyped, OperationListTyped, SignalListTyped
<1> QED
  BY <1>2, <1>4 DEF InterfaceAt, Interfaces

LEMMA InterfaceListTyped ==
  ASSUME TreeDone, OnPath, Readable, NEW n
  PROVE  /\ Map(List("interface", n, Walked(seen, Open)), InterfaceAt) \in Seq(Interfaces)
         /\ Below("interface", n) \subseteq Walked(seen, Open) =>
              Map(Under("interface", n), InterfaceAt) \in Seq(Interfaces)
<1>1. ASSUME NEW i \in Below("interface", n) \cap Walked(seen, Open) PROVE InterfaceAt(i) \in Interfaces
  BY BelowFacts, InterfaceTyped
<1> QED
  BY <1>1, ListedSorted, InterfaceList

LEMMA StructListTyped ==
  ASSUME TreeDone, OnPath, Readable, NEW n
  PROVE  /\ Map(List("struct", n, Walked(seen, Open)), StructAt) \in Seq(Structs)
         /\ Below("struct", n) \subseteq Walked(seen, Open) =>
              Map(Under("struct", n), StructAt) \in Seq(Structs)
<1>1. ASSUME NEW i \in Below("struct", n) \cap Walked(seen, Open) PROVE StructAt(i) \in Structs
  BY BelowFacts, StructTyped
<1> QED
  BY <1>1, ListedSorted, StructList

LEMMA EnumListTyped ==
  ASSUME TreeDone, OnPath, Readable, NEW n
  PROVE  /\ Map(List("enum", n, Walked(seen, Open)), EnumAt) \in Seq(Enums)
         /\ Below("enum", n) \subseteq Walked(seen, Open) =>
              Map(Under("enum", n), EnumAt) \in Seq(Enums)
<1>1. ASSUME NEW i \in Below("enum", n) \cap Walked(seen, Open) PROVE EnumAt(i) \in Enums
  BY BelowFacts, EnumTyped
<1> QED
  BY <1>1, ListedSorted, EnumList

LEMMA ExternListTyped ==
  ASSUME TreeDone, OnPath, Readable, NEW n
  PROVE  /\ Map(List("extern", n, Walked(seen, Open)), ExternAt) \in Seq(Externs)
         /\ Below("extern", n) \subseteq Walked(seen, Open) =>
              Map(Under("extern", n), ExternAt) \in Seq(Externs)
<1>1. ASSUME NEW i \in Below("extern", n) \cap Walked(seen, Open) PROVE ExternAt(i) \in Externs
  BY BelowFacts, ExternTyped
<1> QED
  BY <1>1, ListedSorted, ExternList

----------------
(* The fields of the listener have their types. *)

LEMMA SoFarTyped ==
  ASSUME TreeDone, OnPath, Readable
  PROVE  /\ seen >= 3 => ModuleSoFar(seen, Open) \in Modules
         /\ \A n \in Open : tree[n].rule = "interface" =>
              InterfaceSoFar(n, Walked(seen, Open)) \in Interfaces
         /\ \A n \in Open : tree[n].rule = "struct" =>
              StructSoFar(n, Walked(seen, Open)) \in Structs
         /\ \A n \in Open : tree[n].rule = "enum" =>
              EnumSoFar(n, Walked(seen, Open)) \in Enums
         /\ \A n \in Open : tree[n].rule = "signal" =>
              SignalSoFar(n, Walked(seen, Open)) \in Signals
         /\ \A n \in Open : tree[n].rule = "operation" =>
              OperationSoFar(n, Walked(seen, Open)) \in Operations
<1> DEFINE D == Walked(seen, Open)
<1>1. /\ \A n \in Open : n \in 1 .. seen /\ n \in 1 .. Len(tree)
      /\ seen \in Nat /\ 1 .. seen \subseteq 1 .. Len(tree)
  <2>1. seen \in Nat
    BY DEF OnPath, TreeDone
  <2> QED
    BY <2>1, OpenFacts
<1>2. \A n : Metas(n) \in Metadata /\ {} \in Metadata
  BY MetasTyped
<1>3. \A n \in Open : Unnamed(tree[n].rule) # {} => tree[n].name \in Text
  BY <1>1, NameTyped
<1>4. ASSUME seen >= 3 PROVE ModuleSoFar(seen, Open) \in Modules
  <2>1. tree[3].name \in Text
    <3>1. 3 \in 1 .. seen /\ 3 \in 1 .. Len(tree) /\ tree[3].rule = "module"
      BY <1>1, <1>4 DEF TreeDone
    <3> QED
      BY <3>1, NameTyped DEF Unnamed
  <2>2. /\ Map(List("extern", 1, D), ExternAt) \in Seq(Externs)
        /\ Map(List("interface", 1, D), InterfaceAt) \in Seq(Interfaces)
        /\ Map(List("struct", 1, D), StructAt) \in Seq(Structs)
        /\ Map(List("enum", 1, D), EnumAt) \in Seq(Enums)
    BY ExternListTyped, InterfaceListTyped, StructListTyped, EnumListTyped
  <2>3. Map(List("import", 1, 1 .. seen), LAMBDA i : tree[i].name) \in Seq(Text)
    <3> DEFINE S == Below("import", 1) \cap (1 .. seen)
               L == List("import", 1, 1 .. seen)
    <3>1. \A i \in S : NameAt(i) \in Text
      <4> TAKE i \in S
      <4>1. tree[i].rule = "import" /\ i \in 1 .. seen
        BY BelowFacts
      <4> QED
        BY <1>1, <4>1, NameTyped DEF Unnamed, NameAt
    <3>2. Sorted(L, S)
      BY ListFacts
    <3> HIDE DEF S, L
    <3>3. Map(L, NameAt) \in Seq(Text)
      BY <3>1, <3>2, NameList
    <3>4. Map(L, NameAt) = Map(L, LAMBDA i : tree[i].name)
      BY DEF Map, NameAt
    <3> QED
      BY <3>3, <3>4 DEF L
  <2>4. (IF 3 \in Open THEN {} ELSE Metas(3)) \in Metadata
    BY <1>2
  <2> QED
    BY <2>1, <2>2, <2>3, <2>4 DEF ModuleSoFar, Modules
<1>5. ASSUME NEW n \in Open, tree[n].rule = "interface"
      PROVE  InterfaceSoFar(n, D) \in Interfaces
  <2>1. tree[n].name \in Text /\ Extended(tree[n].also) \in (Text \X Text) \cup {Nil}
    BY <1>1, <1>3, <1>5, PartsTyped DEF Unnamed
  <2>2. /\ Map(List("property", n, D), TypedAt) \in Seq(TypedNodes)
        /\ Map(List("operation", n, D), OperationAt) \in Seq(Operations)
        /\ Map(List("signal", n, D), SignalAt) \in Seq(Signals)
    BY TypedNodesTyped, OperationListTyped, SignalListTyped
  <2> HIDE DEF D
  <2> QED
    BY <1>2, <2>1, <2>2 DEF InterfaceSoFar, Interfaces
<1>6. ASSUME NEW n \in Open, tree[n].rule = "struct"
      PROVE  StructSoFar(n, D) \in Structs
  <2>1. tree[n].name \in Text
    BY <1>3, <1>6 DEF Unnamed
  <2>2. Map(List("field", n, D), TypedAt) \in Seq(TypedNodes)
    BY TypedNodesTyped
  <2> HIDE DEF D
  <2> QED
    BY <1>2, <2>1, <2>2 DEF StructSoFar, Structs
<1>7. ASSUME NEW n \in Open, tree[n].rule = "enum"
      PROVE  EnumSoFar(n, D) \in Enums
  <2>1. tree[n].name \in Text
    BY <1>3, <1>7 DEF Unnamed
  <2>2. Map(List("member", n, D), MemberAt) \in Seq(Members)
    BY EnumTyped
  <2> HIDE DEF D
  <2> QED
    BY <1>2, <2>1, <2>2 DEF EnumSoFar, Enums
<1>8. ASSUME NEW n \in Open, tree[n].rule = "signal"
      PROVE  SignalSoFar(n, D) \in Signals
  <2>1. tree[n].name \in Text
    BY <1>3, <1>8 DEF Unnamed
  <2>2. Map(List("param", n, D), TypedAt) \in Seq(TypedNodes)
    BY TypedNodesTyped
  <2> HIDE DEF D
  <2> QED
    BY <1>2, <2>1, <2>2 DEF SignalSoFar, Signals
<1>9. ASSUME NEW n \in Open, tree[n].rule = "operation"
      PROVE  OperationSoFar(n, D) \in Operations
  <2>1. tree[n].name \in Text
    BY <1>3, <1>9 DEF Unnamed
  <2>2. Map(List("param", n, D), TypedAt) \in Seq(TypedNodes)
    BY TypedNodesTyped
  <2>3. (IF Below("return", n) \cap D = {} THEN Nil ELSE TypedAt(The(Below("return", n))))
          \in TypedNodes \cup {Nil}
    <3>1. CASE Below("return", n) \cap D = {}
      BY <3>1
    <3>2. CASE Below("return", n) \cap D # {}
      <4> DEFINE i == The(Below("return", n))
      <4>1. i \in Below("return", n)
        BY <3>2 DEF The
      <4>2. i \in D /\ tree[i].rule = "return"
        BY <3>2, <4>1, OneBelow, BelowFacts
      <4> HIDE DEF i
      <4>3. TypedAt(i) \in TypedNodes
        BY <4>2, TypedNodeTyped DEF Typeds
      <4> QED
        BY <3>2, <4>3 DEF i
    <3> QED
      BY <3>1, <3>2
  <2> HIDE DEF D
  <2> QED
    BY <1>2, <2>1, <2>2, <2>3 DEF OperationSoFar, Operations
<1> QED
  BY <1>4, <1>5, <1>6, <1>7, <1>8, <1>9 DEF D

LEMMA FieldsTyped ==
  ASSUME TreeDone, OnPath, Readable, FieldsFit(o, seen, Open)
  PROVE  /\ IF seen < 3 THEN o.module = Nil ELSE o.module \in Modules
         /\ IF In("interface") THEN o.iface \in Interfaces ELSE o.iface = Nil
         /\ IF In("extern") THEN o.extern \in Externs ELSE o.extern = Nil
         /\ IF In("struct") THEN o.struct \in Structs ELSE o.struct = Nil
         /\ IF In("enum") THEN o.enum \in Enums ELSE o.enum = Nil
         /\ IF In("member") THEN o.member \in Members ELSE o.member = Nil
         /\ IF In("operation") THEN o.operation \in Operations ELSE o.operation = Nil
         /\ IF In("param") THEN o.param \in TypedNodes ELSE o.param = Nil
         /\ IF In("signal") THEN o.signal \in Signals ELSE o.signal = Nil
         /\ IF In("property") THEN o.property \in TypedNodes ELSE o.property = Nil
         /\ IF In("field") THEN o.field \in TypedNodes ELSE o.field = Nil
         /\ IF Kept("return", seen, Open) # {} THEN o.return \in TypedNodes ELSE o.return = Nil
         /\ IF Kept("schema", seen, Open) # {} THEN o.schema \in Schemas ELSE o.schema = Nil
         /\ o.running \in Nat
<1>1. /\ ModuleFits(o, seen, Open) /\ InterfaceFits(o, seen, Open) /\ ExternFits(o, Open)
      /\ StructFits(o, seen, Open) /\ EnumFits(o, seen, Open) /\ MemberFits(o, Open)
      /\ OperationFits(o, seen, Open) /\ ParamFits(o, Open) /\ SignalFits(o, seen, Open)
      /\ PropertyFits(o, Open) /\ FieldFits(o, Open) /\ RunningFits(o, seen, Open)
      /\ ReturnIsKept(o, seen, Open) /\ SchemaIsKept(o, seen, Open)
  BY DEF FieldsFit
<1>2. /\ \A n \in Open : n \in 1 .. seen /\ n \in 1 .. Len(tree)
      /\ seen \in Nat /\ 1 .. seen \subseteq 1 .. Len(tree)
  <2>1. seen \in Nat
    BY DEF OnPath, TreeDone
  <2> QED
    BY <2>1, OpenFacts
<1>3. \A n \in Open : Unnamed(tree[n].rule) # {} => tree[n].name \in Text
  BY <1>2, NameTyped
<1>4. {} \in Metadata
  BY MetasTyped
<1>5. \A t \in Text : \A b \in BOOLEAN : NewTypedNode(t, b) \in TypedNodes
  BY <1>4, DocumentAssumption DEF NewTypedNode, TypedNodes, Schema, Schemas, SchemaKinds
<1>6. IF seen < 3 THEN o.module = Nil ELSE o.module \in Modules
  <2>1. seen >= 3 => ModuleSoFar(seen, Open) \in Modules
    BY SoFarTyped
  <2> QED
    BY <1>1, <1>2, <2>1 DEF ModuleFits
<1>7. IF In("interface") THEN o.iface \in Interfaces ELSE o.iface = Nil
  BY <1>1, SoFarTyped DEF In, InterfaceFits, Held
<1>8. IF In("struct") THEN o.struct \in Structs ELSE o.struct = Nil
  BY <1>1, SoFarTyped DEF In, StructFits, Held
<1>9. IF In("enum") THEN o.enum \in Enums ELSE o.enum = Nil
  BY <1>1, SoFarTyped DEF In, EnumFits, Held
<1>10. IF In("operation") THEN o.operation \in Operations ELSE o.operation = Nil
  BY <1>1, SoFarTyped DEF In, OperationFits, Held
<1>11. IF In("signal") THEN o.signal \in Signals ELSE o.signal = Nil
  BY <1>1, SoFarTyped DEF In, SignalFits, Held
<1>12. IF In("extern") THEN o.extern \in Externs ELSE o.extern = Nil
  <2>1. \A n \in Open : tree[n].rule = "extern" => NewExtern(tree[n].name) \in Externs
    BY <1>3, <1>4 DEF NewExtern, Externs, Unnamed
  <2> QED
    BY <1>1, <2>1 DEF In, ExternFits, Held
<1>13. IF In("member") THEN o.member \in Members ELSE o.member = Nil
  <2>1. ASSUME NEW n \in Open, tree[n].rule = "member"
        PROVE  NewEnumMember(tree[n].name, MemberAt(n).value) \in Members
    <3>1. MemberAt(n) \in Members
      BY <1>2, <2>1, MemberTyped
    <3>2. tree[n].name \in Text
      BY <1>3, <2>1 DEF Unnamed
    <3>3. MemberAt(n).value \in Int
      BY <3>1 DEF Members
    <3> QED
      BY <1>4, <3>2, <3>3 DEF NewEnumMember, Members
  <2> QED
    BY <1>1, <2>1 DEF In, MemberFits, Held
<1>14. IF In("param") THEN o.param \in TypedNodes ELSE o.param = Nil
  <2>1. \A n \in Open : tree[n].rule = "param" => NewTypedNode(tree[n].name, FALSE) \in TypedNodes
    BY <1>3, <1>5 DEF Unnamed
  <2> QED
    BY <1>1, <2>1 DEF In, ParamFits, Held
<1>15. IF In("property") THEN o.property \in TypedNodes ELSE o.property = Nil
  <2>1. \A n \in Open : tree[n].rule = "property" =>
          NewTypedNode(tree[n].name, tree[n].also # Nil) \in TypedNodes
    BY <1>3, <1>5 DEF Unnamed
  <2> QED
    BY <1>1, <2>1 DEF In, PropertyFits, Held
<1>16. IF In("field") THEN o.field \in TypedNodes ELSE o.field = Nil
  <2>1. \A n \in Open : tree[n].rule = "field" =>
          NewTypedNode(tree[n].name, tree[n].also # Nil) \in TypedNodes
    BY <1>3, <1>5 DEF Unnamed
  <2> QED
    BY <1>1, <2>1 DEF In, FieldFits, Held
<1>17. IF Kept("return", seen, Open) # {} THEN o.return \in TypedNodes ELSE o.return = Nil
  <2>1. ASSUME NEW i \in Kept("return", seen, Open)
        PROVE  (IF i \in Open THEN NewTypedNode("", FALSE) ELSE TypedAt(i)) \in TypedNodes
    <3>1. CASE i \in Open
      BY <1>5, <3>1, DocumentAssumption
    <3>2. CASE i \notin Open
      <4>1. i \in Walked(seen, Open) /\ tree[i].rule = "return"
        BY <2>1, <3>2 DEF Kept, Walked
      <4> QED
        BY <3>2, <4>1, TypedNodeTyped DEF Typeds
    <3> QED
      BY <3>1, <3>2
  <2> QED
    BY <1>1, <2>1 DEF ReturnIsKept
<1>18. IF Kept("schema", seen, Open) # {} THEN o.schema \in Schemas ELSE o.schema = Nil
  <2>1. \A i : SchemaSoFar(seen, i) \in Schemas
    BY SchemaTyped
  <2> QED
    BY <1>1, <2>1 DEF SchemaIsKept
<1>19. o.running \in Nat
  BY <1>1 DEF RunningFits
<1> QED
  BY <1>6, <1>7, <1>8, <1>9, <1>10, <1>11, <1>12, <1>13, <1>14, <1>15, <1>16, <1>17,
     <1>18, <1>19

LEMMA FieldsOK ==
  ASSUME TreeDone, OnPath, Readable, FieldsFit(o, seen, Open)
  PROVE  o \in ListenerFields
<1>1. IsFields(o)
  BY DEF FieldsFit
<1>2. /\ o.module \in Modules \cup {Nil} /\ o.iface \in Interfaces \cup {Nil}
      /\ o.extern \in Externs \cup {Nil} /\ o.struct \in Structs \cup {Nil}
      /\ o.enum \in Enums \cup {Nil} /\ o.member \in Members \cup {Nil}
      /\ o.operation \in Operations \cup {Nil} /\ o.param \in TypedNodes \cup {Nil}
      /\ o.return \in TypedNodes \cup {Nil} /\ o.signal \in Signals \cup {Nil}
      /\ o.property \in TypedNodes \cup {Nil} /\ o.field \in TypedNodes \cup {Nil}
      /\ o.schema \in Schemas \cup {Nil} /\ o.running \in Nat
  BY FieldsTyped
<1> QED
  BY <1>1, <1>2 DEF ListenerFields, IsFields, FieldNames

----------------
(* Facts of every handler that enters a context. *)

(* What holds whatever context is entered.                                 *)
LEMMA EnteringFacts ==
  ASSUME NEW r, Entering(r)
  PROVE  /\ TreeDone /\ OnPath /\ Readable /\ FieldsFit(o, seen, Open) /\ IsFields(o)
         /\ seen + 1 \in 1 .. Len(tree) /\ tree[seen + 1].rule = r /\ seen \in Nat
         /\ r \notin {"document", "header", "module"} => seen >= 3
         /\ Unnamed(r) # {} /\ errors = 0 => HasName
         /\ r # "document" => seen + 1 \in 2 .. Len(tree) /\ Owner(seen + 1) \in Open
         /\ ~ In(r)
<1>1. TreeDone /\ OnPath /\ Readable /\ FieldsFit(o, seen, Open) /\ Enter(r)
  BY DEF Entering, WalkInv
<1>2. seen + 1 \in 1 .. Len(tree) /\ tree[seen + 1].rule = r
  BY <1>1, EnterStep
<1>3. seen \in Nat
  BY <1>1 DEF OnPath, TreeDone
<1>4. ASSUME r \notin {"document", "header", "module"} PROVE seen >= 3
  <2>1. seen + 1 > 3
    BY <1>1, <1>2, <1>4, OneModule
  <2> QED
    BY <1>3, <2>1
<1>5. ASSUME Unnamed(r) # {}, errors = 0 PROVE HasName
  BY <1>1, <1>2, <1>5 DEF TreeDone, HasName, Context1
<1>6. IsFields(o)
  BY <1>1 DEF FieldsFit
<1>7. /\ \A p \in Open : Rank(tree[p].rule) < Rank(r) /\ Rank(tree[p].rule) \in Nat
      /\ r # "document" => seen + 1 \in 2 .. Len(tree) /\ Owner(seen + 1) \in Open
  BY <1>1, OpenOnEnter
<1>8. ~ In(r)
  BY <1>7 DEF In
<1> QED
  BY <1>1, <1>2, <1>3, <1>4, <1>5, <1>6, <1>7, <1>8

LEMMA EnteringFrame ==
  ASSUME NEW r, Entering(r), NEW g
  PROVE  FitOnEnter(o, g, r, seen + 1, Open \cup {seen + 1})
BY EnteringFacts, EnterFrame

(* A list without nodes.                                                   *)
LEMMA NoNodes ==
  /\ Map(<<>>, TypedAt) = <<>> /\ Map(<<>>, OperationAt) = <<>>
  /\ Map(<<>>, SignalAt) = <<>> /\ Map(<<>>, MemberAt) = <<>>
BY DEF Map

(* Fields that fit.                                                        *)
LEMMA AllFit ==
  ASSUME NEW g, NEW s, NEW P, IsFields(g), ModuleFits(g, s, P), InterfaceFits(g, s, P),
         ExternFits(g, P), StructFits(g, s, P), EnumFits(g, s, P), MemberFits(g, P),
         OperationFits(g, s, P), ParamFits(g, P), SignalFits(g, s, P), PropertyFits(g, P),
         FieldFits(g, P), RunningFits(g, s, P), ReturnIsKept(g, s, P), SchemaIsKept(g, s, P)
  PROVE  FieldsFit(g, s, P)
BY DEF FieldsFit

(* Where a schema or a return is kept.                                     *)
LEMMA KeptFacts ==
  ASSUME TreeDone, OnPath
  PROVE  /\ \A i \in Kept("schema", seen, Open) :
              /\ i \in Below("schema", tree[i].parent) /\ i \in 1 .. seen
              /\ tree[i].parent \in Open /\ tree[tree[i].parent].rule \in Typeds
         /\ \A i \in Kept("return", seen, Open) :
              /\ i \in Below("return", tree[i].parent) /\ i \in 1 .. seen
              /\ tree[i].parent \in Open /\ tree[tree[i].parent].rule = "operation"
<1>1. 1 .. seen \subseteq 1 .. Len(tree)
  BY OpenFacts
<1>2. ASSUME NEW i \in 1 .. seen, tree[i].rule \in {"schema", "return"}
      PROVE  /\ i \in Below(tree[i].rule, tree[i].parent)
             /\ tree[i].rule = "schema" => tree[tree[i].parent].rule \in Typeds
             /\ tree[i].rule = "return" => tree[tree[i].parent].rule = "operation"
  <2>1. i \in 2 .. Len(tree)
    <3>1. i # 1 /\ i \in 1 .. Len(tree)
      BY <1>1, <1>2, OneDocument
    <3> QED
      BY <3>1
  <2>2. Owner(i) = tree[i].parent
    BY <1>2, <2>1, OwnerFacts
  <2>3. i \in Below(tree[i].rule, tree[i].parent)
    BY <2>1, <2>2, BelowFacts
  <2> QED
    BY <1>2, <2>1, <2>2, <2>3, OwnerFacts DEF Typeds
<1> QED
  BY <1>2 DEF Kept

LEMMA NoSchemaOnEnter ==
  ASSUME NEW r, Entering(r),
         r \in {"param", "signal", "struct", "field", "enum", "return", "schema"}
  PROVE  Kept("schema", seen, Open) = {}
<1> DEFINE x == seen + 1
<1>1. /\ TreeDone /\ OnPath /\ x \in 2 .. Len(tree) /\ tree[x].rule = r
      /\ tree[x].parent = Entered /\ Entered \in Open /\ x \notin 1 .. seen
      /\ \A p \in Open : Rank(tree[p].rule) < Rank(r) /\ Rank(tree[p].rule) \in Nat
  BY EnteringFacts, OpenOnEnter, EnterWalked DEF Entering
<1> SUFFICES ASSUME NEW i \in Kept("schema", seen, Open) PROVE FALSE
  OBVIOUS
<1> DEFINE p == tree[i].parent
<1>2. i \in Below("schema", p) /\ i \in 1 .. seen /\ p \in Open /\ tree[p].rule \in Typeds
  BY <1>1, KeptFacts
<1> HIDE DEF x, p
<1>3. Calls(tree[Entered].rule, r)
  BY <1>1, ParentFacts
<1>4. Rank(tree[p].rule) < Rank(r)
  BY <1>1, <1>2
<1>5. CASE r \in {"struct", "enum", "field"}
  BY <1>2, <1>4, <1>5 DEF Typeds, Rank
<1>6. CASE r = "signal"
  <2>1. tree[Entered].rule = "members"
    BY <1>3, <1>6 DEF Calls
  <2>2. tree[p].rule = "field"
    BY <1>2, <1>4, <1>6 DEF Typeds, Rank
  <2>3. Rank("members") = Rank("field")
    BY DEF Rank
  <2>4. p = Entered
    BY <1>1, <1>2, <2>1, <2>2, <2>3, OpenFacts
  <2> QED
    BY <2>1, <2>2, <2>4
<1>7. CASE r \in {"param", "return"}
  <2>1. tree[Entered].rule \in {"operation", "signal"}
    BY <1>3, <1>7 DEF Calls
  <2>2. tree[p].rule \in {"param", "return"}
    BY <1>1, <1>2, <2>1, OneTyped
  <2> QED
    BY <1>4, <1>7, <2>2 DEF Rank
<1>8. CASE r = "schema"
  <2>1. tree[Entered].rule \in Typeds
    BY <1>3, <1>8 DEF Calls, Typeds
  <2>2. p = Entered
    BY <1>1, <1>2, <2>1, OneTyped
  <2>3. x \in Below("schema", p)
    BY <1>1, <1>8, <2>2, BelowFacts, OwnerFacts
  <2>4. i = x
    BY <1>1, <1>2, <2>3, OneBelow
  <2> QED
    BY <1>1, <1>2, <2>4
<1> QED
  BY <1>5, <1>6, <1>7, <1>8

LEMMA NoReturnOnEnter ==
  ASSUME NEW r, Entering(r), r \in {"operation", "return"}
  PROVE  Kept("return", seen, Open) = {}
<1> DEFINE x == seen + 1
<1>1. /\ TreeDone /\ OnPath /\ x \in 2 .. Len(tree) /\ tree[x].rule = r
      /\ tree[x].parent = Entered /\ Entered \in Open /\ x \notin 1 .. seen
      /\ \A p \in Open : Rank(tree[p].rule) < Rank(r) /\ Rank(tree[p].rule) \in Nat
  BY EnteringFacts, OpenOnEnter, EnterWalked DEF Entering
<1> SUFFICES ASSUME NEW i \in Kept("return", seen, Open) PROVE FALSE
  OBVIOUS
<1> DEFINE p == tree[i].parent
<1>2. i \in Below("return", p) /\ i \in 1 .. seen /\ p \in Open /\ tree[p].rule = "operation"
  BY <1>1, KeptFacts
<1> HIDE DEF x, p
<1>3. CASE r = "operation"
  BY <1>1, <1>2, <1>3
<1>4. CASE r = "return"
  <2>1. tree[Entered].rule = "operation"
    BY <1>1, <1>4, ParentFacts DEF Calls
  <2>2. p = Entered
    BY <1>1, <1>2, <2>1, OneTyped
  <2>3. x \in Below("return", p)
    BY <1>1, <1>4, <2>2, BelowFacts, OwnerFacts
  <2>4. i = x
    BY <1>1, <1>2, <2>3, OneBelow
  <2> QED
    BY <1>1, <1>2, <2>4
<1> QED
  BY <1>3, <1>4

(* The schema that is kept when the walker enters a part of it.            *)
LEMMA SchemaOnEnter ==
  ASSUME NEW r, Entering(r), r \in {"primitive", "symbol", "array"}
  PROVE  /\ Kept("schema", seen, Open) = {Entered}
         /\ Kept("schema", seen + 1, Open \cup {seen + 1}) = {Entered}
         /\ Below(r, Entered) \cap (1 .. seen + 1) =
              (Below(r, Entered) \cap (1 .. seen)) \cup {seen + 1}
<1> DEFINE x == seen + 1
           q == Entered
<1>1. /\ TreeDone /\ OnPath /\ x \in 2 .. Len(tree) /\ tree[x].rule = r /\ path # <<>>
      /\ tree[x].parent = q /\ q \in Open /\ 1 .. x = (1 .. seen) \cup {x}
      /\ x \in 1 .. Len(tree)
  BY EnteringFacts, OpenOnEnter, EnterWalked DEF Entering
<1>2. tree[q].rule = "schema" /\ q \in 1 .. seen /\ q \in 1 .. Len(tree)
  <2>1. tree[q].rule = "schema"
    BY <1>1, ParentFacts DEF Calls
  <2> QED
    BY <1>1, <2>1, EnteredFacts
<1>3. q \in Below("schema", tree[q].parent) /\ tree[q].parent \in Open
      /\ tree[tree[q].parent].rule \in Typeds
  <2>1. q # 1
    BY <1>1, <1>2, OneDocument
  <2>2. q \in 2 .. Len(tree)
    BY <1>2, <2>1
  <2>3. tree[q].parent \in Open
    BY <1>1, <2>1, OpenFacts
  <2>4. Owner(q) = tree[q].parent /\ tree[tree[q].parent].rule \in Typeds
    BY <1>1, <1>2, <2>2, OwnerFacts DEF Typeds
  <2> QED
    BY <1>1, <1>2, <2>2, <2>3, <2>4, BelowFacts
<1> HIDE DEF x, q
<1>4. Kept("schema", seen, Open) = {q}
  <2>1. q \in Kept("schema", seen, Open)
    BY <1>2, <1>3 DEF Kept
  <2>2. ASSUME NEW i \in Kept("schema", seen, Open) PROVE i = q
    <3>1. /\ i \in Below("schema", tree[i].parent) /\ tree[i].parent \in Open
          /\ tree[tree[i].parent].rule \in Typeds
      BY <1>1, KeptFacts
    <3>2. tree[i].parent = tree[q].parent
      BY <1>1, <1>3, <3>1, OneTyped
    <3> QED
      BY <1>1, <1>3, <3>1, <3>2, OneBelow
  <2> QED
    BY <2>1, <2>2
<1>5. Kept("schema", x, Open \cup {x}) = Kept("schema", seen, Open)
  BY <1>1, KeptOnEnter DEF x
<1>6. Below(r, q) \cap (1 .. x) = (Below(r, q) \cap (1 .. seen)) \cup {x}
  <2>1. x \in Below(r, q)
    BY <1>1, BelowFacts, OwnerFacts
  <2> QED
    BY <1>1, <2>1
<1> QED
  BY <1>4, <1>5, <1>6 DEF x, q

LEMMA PairFacts == \A t, a, b : t = <<a, b>> => t[1] = a /\ t[2] = b
OBVIOUS

LEMMA EmptyList ==
  ASSUME TreeDone, NEW r, NEW n, NEW D, Below(r, n) \cap D = {}
  PROVE  List(r, n, D) = <<>>
<1>1. InOrder({}) = <<>>
  BY InOrderFacts
<1> QED
  BY <1>1 DEF List

(* Nothing of a context has been entered before it.                        *)
LEMMA NoneYet ==
  ASSUME NEW r, Entering(r)
  PROVE  \A q : /\ Below(q, seen + 1) \cap (1 .. seen + 1) = {}
                /\ Below(q, seen + 1) \cap Walked(seen + 1, Open \cup {seen + 1}) = {}
                /\ List(q, seen + 1, Walked(seen + 1, Open \cup {seen + 1})) = <<>>
<1> TAKE q
<1> DEFINE x == seen + 1
           D == Walked(x, Open \cup {x})
<1>1. TreeDone /\ x \in 1 .. Len(tree) /\ seen \in Nat
  BY EnteringFacts
<1>2. Below(q, x) \cap (1 .. x) = {}
  <2> SUFFICES ASSUME NEW i \in Below(q, x) \cap (1 .. x) PROVE FALSE
    OBVIOUS
  <2>1. i \in 2 .. Len(tree) /\ Owner(i) = x
    BY <1>1, BelowFacts
  <2>2. Owner(i) < i
    BY <1>1, <2>1, OwnerFacts
  <2> QED
    BY <1>1, <2>1, <2>2
<1>3. Below(q, x) \cap D = {}
  BY <1>2 DEF Walked
<1>4. List(q, x, D) = <<>>
  <2> HIDE DEF D, x
  <2> QED
    BY <1>1, <1>3, EmptyList
<1> QED
  BY <1>2, <1>3, <1>4

----------------
(* The fields after each Enter handler. *)

LEMMA EnterExternFits ==
  ASSUME Entering("extern")
  PROVE  /\ o.extern = Nil /\ o.module # Nil
         /\ errors = 0 => HasName
         /\ FieldsFit([o EXCEPT !["extern"] = NewExtern(Context1.name)],
                      seen + 1, Open \cup {seen + 1})
<1> DEFINE x == seen + 1
           P == Open \cup {x}
           g == [o EXCEPT !["extern"] = NewExtern(Context1.name)]
<1>1. /\ TreeDone /\ OnPath /\ Readable /\ FieldsFit(o, seen, Open) /\ IsFields(o)
      /\ x \in 2 .. Len(tree) /\ tree[x].rule = "extern" /\ seen \in Nat /\ seen >= 3
      /\ ~ In("extern")
      /\ errors = 0 => HasName
  BY EnteringFacts DEF Unnamed
<1>5. o.extern = Nil /\ o.module # Nil
  <2>1. /\ o.extern = Nil /\ o.module \in Modules
    BY <1>1, FieldsTyped
  <2> QED
    BY <2>1, NilAssumption
<1>6. /\ IsFields(g) /\ g.extern = NewExtern(Context1.name)
      /\ \A f \in FieldNames \ {"extern"} : g[f] = o[f]
  BY <1>1 DEF IsFields, FieldNames
<1>7. FitOnEnter(o, g, "extern", x, P)
  BY EnteringFrame
<1>8. ExternFits(g, P)
  <2> HIDE DEF g
  <2>1. \A n \in P : tree[n].rule = "extern" => n = x
    BY <1>1 DEF In
  <2>2. g.extern = NewExtern(tree[x].name)
    BY <1>6 DEF Context1
  <2> QED
    BY <1>1, <2>1, <2>2 DEF ExternFits, Held
<1>9. FieldsFit(g, x, P)
  <2> HIDE DEF g, P, x
  <2> QED
    BY <1>6, <1>7, <1>8, AllFit DEF FitOnEnter, FieldNames
<1> QED
  BY <1>1, <1>5, <1>9

LEMMA EnterInterfaceFits ==
  ASSUME Entering("interface")
  PROVE  /\ o.iface = Nil /\ o.module # Nil
         /\ errors = 0 => HasName
         /\ FieldsFit([o EXCEPT !["iface"] = NewInterface(Context1.name, Extended(Context1.also))],
                      seen + 1, Open \cup {seen + 1})
<1> DEFINE x == seen + 1
           P == Open \cup {x}
           g == [o EXCEPT !["iface"] = NewInterface(Context1.name, Extended(Context1.also))]
<1>1. /\ TreeDone /\ OnPath /\ Readable /\ FieldsFit(o, seen, Open) /\ IsFields(o)
      /\ x \in 2 .. Len(tree) /\ tree[x].rule = "interface" /\ seen \in Nat /\ seen >= 3
      /\ ~ In("interface")
      /\ errors = 0 => HasName
  BY EnteringFacts DEF Unnamed
<1>5. o.iface = Nil /\ o.module # Nil
  <2>1. /\ o.iface = Nil /\ o.module \in Modules
    BY <1>1, FieldsTyped
  <2> QED
    BY <2>1, NilAssumption
<1>6. /\ IsFields(g) /\ g.iface = NewInterface(Context1.name, Extended(Context1.also))
      /\ \A f \in FieldNames \ {"iface"} : g[f] = o[f]
  BY <1>1 DEF IsFields, FieldNames
<1>7. FitOnEnter(o, g, "interface", x, P)
  BY EnteringFrame
<1>8. InterfaceFits(g, x, P)
  <2> DEFINE D == Walked(x, P)
  <2>1. \A n \in P : tree[n].rule = "interface" => n = x
    BY <1>1 DEF In
  <2>2. \A q : List(q, x, D) = <<>> /\ Below(q, x) \cap D = {}
    BY NoneYet
  <2> HIDE DEF g, D
  <2>4. InterfaceSoFar(x, D) = g.iface
    BY <1>6, <2>2, NoNodes DEF InterfaceSoFar, Context1, x, NewInterface
  <2> QED
    BY <1>1, <2>1, <2>4 DEF InterfaceFits, Held, D
<1>9. FieldsFit(g, x, P)
  <2> HIDE DEF g, P, x
  <2> QED
    BY <1>6, <1>7, <1>8, AllFit DEF FitOnEnter, FieldNames
<1> QED
  BY <1>1, <1>5, <1>9

LEMMA EnterPropertyFits ==
  ASSUME Entering("property")
  PROVE  /\ o.property = Nil /\ o.iface # Nil /\ o.module # Nil
         /\ errors = 0 => HasName
         /\ FieldsFit([o EXCEPT !["property"] = NewTypedNode(Context1.name, Context1.also # Nil)],
                      seen + 1, Open \cup {seen + 1})
<1> DEFINE x == seen + 1
           P == Open \cup {x}
           g == [o EXCEPT !["property"] = NewTypedNode(Context1.name, Context1.also # Nil)]
<1>1. /\ TreeDone /\ OnPath /\ Readable /\ FieldsFit(o, seen, Open) /\ IsFields(o)
      /\ x \in 2 .. Len(tree) /\ tree[x].rule = "property" /\ seen \in Nat /\ seen >= 3
      /\ Owner(x) \in Open /\ ~ In("property")
      /\ errors = 0 => HasName
  BY EnteringFacts DEF Unnamed
<1>4. In("interface")
  BY <1>1, OwnerFacts DEF In
<1>5. o.property = Nil /\ o.iface # Nil /\ o.module # Nil
  <2>1. /\ o.property = Nil /\ o.iface \in Interfaces /\ o.module \in Modules
    BY <1>1, <1>4, FieldsTyped
  <2> QED
    BY <2>1, NilAssumption
<1>6. /\ IsFields(g) /\ g.property = NewTypedNode(Context1.name, Context1.also # Nil)
      /\ \A f \in FieldNames \ {"property"} : g[f] = o[f]
  BY <1>1 DEF IsFields, FieldNames
<1>7. FitOnEnter(o, g, "property", x, P)
  BY EnteringFrame
<1>8. PropertyFits(g, P)
  <2> HIDE DEF g
  <2>1. \A n \in P : tree[n].rule = "property" => n = x
    BY <1>1 DEF In
  <2>2. g.property = NewTypedNode(tree[x].name, tree[x].also # Nil)
    BY <1>6 DEF Context1
  <2> QED
    BY <1>1, <2>1, <2>2 DEF PropertyFits, Held
<1>9. FieldsFit(g, x, P)
  <2> HIDE DEF g, P, x
  <2> QED
    BY <1>6, <1>7, <1>8, AllFit DEF FitOnEnter, FieldNames
<1> QED
  BY <1>1, <1>5, <1>9

LEMMA EnterOperationFits ==
  ASSUME Entering("operation")
  PROVE  /\ o.operation = Nil /\ o.param = Nil /\ o.return = Nil
         /\ errors = 0 => HasName
         /\ FieldsFit([o EXCEPT !["operation"] = NewOperation(Context1.name)],
                      seen + 1, Open \cup {seen + 1})
<1> DEFINE x == seen + 1
           P == Open \cup {x}
           g == [o EXCEPT !["operation"] = NewOperation(Context1.name)]
<1>1. /\ TreeDone /\ OnPath /\ Readable /\ FieldsFit(o, seen, Open) /\ IsFields(o)
      /\ x \in 1 .. Len(tree) /\ tree[x].rule = "operation" /\ seen \in Nat /\ seen >= 3
      /\ errors = 0 => HasName
  BY EnteringFacts DEF Unnamed
<1>2. /\ \A p \in Open : Rank(tree[p].rule) < Rank("operation") /\ Rank(tree[p].rule) \in Nat
      /\ x \in 2 .. Len(tree) /\ Owner(x) \in Open
  BY <1>1, OpenOnEnter DEF Entering
<1>3. ~ In("operation") /\ ~ In("param")
  BY <1>2 DEF In, Rank
<1>5. o.operation = Nil /\ o.param = Nil /\ o.return = Nil
  <2>1. /\ o.operation = Nil /\ o.param = Nil /\ o.return = Nil
    BY <1>1, <1>3, NoReturnOnEnter, FieldsTyped
  <2> QED
    BY <2>1, NilAssumption
<1>6. /\ IsFields(g) /\ g.operation = NewOperation(Context1.name)
      /\ \A f \in FieldNames \ {"operation"} : g[f] = o[f]
  BY <1>1 DEF IsFields, FieldNames
<1>7. FitOnEnter(o, g, "operation", x, P)
  BY EnteringFrame
<1>8. OperationFits(g, x, P)
  <2> DEFINE D == Walked(x, P)
  <2>1. \A n \in P : tree[n].rule = "operation" => n = x
    BY <1>3 DEF In
  <2>2. \A q : List(q, x, D) = <<>> /\ Below(q, x) \cap D = {}
    BY NoneYet
  <2> HIDE DEF g, D
  <2>4. OperationSoFar(x, D) = g.operation
    BY <1>6, <2>2, NoNodes DEF OperationSoFar, Context1, x, NewOperation
  <2> QED
    BY <1>1, <2>1, <2>4 DEF OperationFits, Held, D
<1>9. FieldsFit(g, x, P)
  <2> HIDE DEF g, P, x
  <2> QED
    BY <1>6, <1>7, <1>8, AllFit DEF FitOnEnter, FieldNames
<1> QED
  BY <1>1, <1>5, <1>9

LEMMA EnterReturnFits ==
  ASSUME Entering("return")
  PROVE  /\ o.return = Nil /\ o.schema = Nil /\ o.module # Nil /\ o.iface # Nil /\ o.operation # Nil
         /\ FieldsFit([o EXCEPT !.return = NewTypedNode("", FALSE)],
                      seen + 1, Open \cup {seen + 1})
<1> DEFINE x == seen + 1
           P == Open \cup {x}
           g == [o EXCEPT !.return = NewTypedNode("", FALSE)]
<1>1. /\ TreeDone /\ OnPath /\ Readable /\ FieldsFit(o, seen, Open) /\ IsFields(o)
      /\ x \in 2 .. Len(tree) /\ tree[x].rule = "return" /\ seen \in Nat /\ seen >= 3
      /\ Owner(x) \in Open
  BY EnteringFacts
<1>4. In("interface") /\ In("operation")
  <2>1. tree[Owner(x)].rule \in {"operation", "signal"} /\ Owner(x) \in 1 .. Len(tree)
    BY <1>1, OwnerFacts
  <2>2. Owner(x) # 1
    BY <1>1, <2>1, OneDocument
  <2>3. Owner(x) \in 2 .. Len(tree) /\ Owner(Owner(x)) \in Open
    BY <1>1, <2>2, OwnerIsOpen
  <2>4. tree[Owner(Owner(x))].rule = "interface"
    BY <1>1, <2>1, <2>3, OwnerFacts
  <2> QED
    BY <1>1, <2>3, <2>4, OwnerFacts DEF In
<1>5. o.return = Nil /\ o.schema = Nil /\ o.module # Nil /\ o.iface # Nil /\ o.operation # Nil
  <2>1. /\ o.return = Nil /\ o.schema = Nil /\ o.module \in Modules
        /\ o.iface \in Interfaces /\ o.operation \in Operations
    BY <1>1, <1>4, NoSchemaOnEnter, NoReturnOnEnter, FieldsTyped
  <2> QED
    BY <2>1, NilAssumption
<1>6. /\ IsFields(g) /\ g.return = NewTypedNode("", FALSE)
      /\ \A f \in FieldNames \ {"return"} : g[f] = o[f]
  BY <1>1 DEF IsFields, FieldNames
<1>7. FitOnEnter(o, g, "return", x, P)
  BY EnteringFrame
<1>8. ReturnIsKept(g, x, P)
  <2>1. Kept("return", seen, Open) = {}
    BY NoReturnOnEnter
  <2>2. \A i \in 1 .. x : i = x \/ i \in 1 .. seen
    BY <1>1, EnterWalked
  <2>3. \A i \in 1 .. seen : tree[i].rule = "return" => tree[i].parent \notin Open
    BY <2>1 DEF Kept
  <2>4. \A i \in 1 .. seen : tree[i].parent # x
    <3> TAKE i \in 1 .. seen
    <3>1. i \in 1 .. Len(tree) /\ i < x
      BY <1>1, OpenFacts
    <3>2. CASE i = 1
      BY <1>1, <3>2 DEF TreeDone, Called
    <3>3. CASE i # 1
      <4>1. i \in 2 .. Len(tree)
        BY <3>1, <3>3
      <4>2. tree[i].parent \in 1 .. i - 1
        BY <1>1, <4>1, ParentFacts
      <4> QED
        BY <1>1, <3>1, <4>2
    <3> QED
      BY <3>2, <3>3
  <2>5. tree[x].parent \in Open
    BY <1>1, OwnerFacts
  <2> HIDE DEF g, x
  <2>6. \A i \in Kept("return", x, P) : i = x
    BY <2>2, <2>3, <2>4 DEF Kept
  <2>7. x \in Kept("return", x, P)
    <3>1. x \in 1 .. x
      BY <1>1 DEF x
    <3> QED
      BY <1>1, <2>5, <3>1 DEF Kept
  <2> QED
    BY <1>6, <2>6, <2>7 DEF ReturnIsKept
<1>9. FieldsFit(g, x, P)
  <2> HIDE DEF g, P, x
  <2> QED
    BY <1>6, <1>7, <1>8, AllFit DEF FitOnEnter, FieldNames
<1> QED
  BY <1>1, <1>5, <1>9

LEMMA EnterOperationParamFits ==
  ASSUME Entering("param")
  PROVE  /\ o.param = Nil /\ o.schema = Nil /\ o.module # Nil /\ o.iface # Nil
         /\ errors = 0 => HasName
         /\ FieldsFit([o EXCEPT !["param"] = NewTypedNode(Context1.name, FALSE)],
                      seen + 1, Open \cup {seen + 1})
<1> DEFINE x == seen + 1
           P == Open \cup {x}
           g == [o EXCEPT !["param"] = NewTypedNode(Context1.name, FALSE)]
<1>1. /\ TreeDone /\ OnPath /\ Readable /\ FieldsFit(o, seen, Open) /\ IsFields(o)
      /\ x \in 2 .. Len(tree) /\ tree[x].rule = "param" /\ seen \in Nat /\ seen >= 3
      /\ Owner(x) \in Open /\ ~ In("param")
      /\ errors = 0 => HasName
  BY EnteringFacts DEF Unnamed
<1>4. In("interface")
  <2>1. tree[Owner(x)].rule \in {"operation", "signal"} /\ Owner(x) \in 1 .. Len(tree)
    BY <1>1, OwnerFacts
  <2>2. Owner(x) # 1
    BY <1>1, <2>1, OneDocument
  <2>3. Owner(x) \in 2 .. Len(tree) /\ Owner(Owner(x)) \in Open
    BY <1>1, <2>2, OwnerIsOpen
  <2>4. tree[Owner(Owner(x))].rule = "interface"
    BY <1>1, <2>1, <2>3, OwnerFacts
  <2> QED
    BY <1>1, <2>3, <2>4, OwnerFacts DEF In
<1>5. o.param = Nil /\ o.schema = Nil /\ o.module # Nil /\ o.iface # Nil
  <2>1. /\ o.param = Nil /\ o.schema = Nil /\ o.module \in Modules
        /\ o.iface \in Interfaces
    BY <1>1, <1>4, NoSchemaOnEnter, FieldsTyped
  <2> QED
    BY <2>1, NilAssumption
<1>6. /\ IsFields(g) /\ g.param = NewTypedNode(Context1.name, FALSE)
      /\ \A f \in FieldNames \ {"param"} : g[f] = o[f]
  BY <1>1 DEF IsFields, FieldNames
<1>7. FitOnEnter(o, g, "param", x, P)
  BY EnteringFrame
<1>8. ParamFits(g, P)
  <2> HIDE DEF g
  <2>1. \A n \in P : tree[n].rule = "param" => n = x
    BY <1>1 DEF In
  <2>2. g.param = NewTypedNode(tree[x].name, FALSE)
    BY <1>6 DEF Context1
  <2> QED
    BY <1>1, <2>1, <2>2 DEF ParamFits, Held
<1>9. FieldsFit(g, x, P)
  <2> HIDE DEF g, P, x
  <2> QED
    BY <1>6, <1>7, <1>8, AllFit DEF FitOnEnter, FieldNames
<1> QED
  BY <1>1, <1>5, <1>9

LEMMA EnterSignalFits ==
  ASSUME Entering("signal")
  PROVE  /\ o.signal = Nil /\ o.schema = Nil /\ o.module # Nil /\ o.iface # Nil
         /\ errors = 0 => HasName
         /\ FieldsFit([o EXCEPT !["signal"] = NewSignal(Context1.name)],
                      seen + 1, Open \cup {seen + 1})
<1> DEFINE x == seen + 1
           P == Open \cup {x}
           g == [o EXCEPT !["signal"] = NewSignal(Context1.name)]
<1>1. /\ TreeDone /\ OnPath /\ Readable /\ FieldsFit(o, seen, Open) /\ IsFields(o)
      /\ x \in 2 .. Len(tree) /\ tree[x].rule = "signal" /\ seen \in Nat /\ seen >= 3
      /\ Owner(x) \in Open /\ ~ In("signal")
      /\ errors = 0 => HasName
  BY EnteringFacts DEF Unnamed
<1>4. In("interface")
  BY <1>1, OwnerFacts DEF In
<1>5. o.signal = Nil /\ o.schema = Nil /\ o.module # Nil /\ o.iface # Nil
  <2>1. /\ o.signal = Nil /\ o.schema = Nil /\ o.module \in Modules
        /\ o.iface \in Interfaces
    BY <1>1, <1>4, NoSchemaOnEnter, FieldsTyped
  <2> QED
    BY <2>1, NilAssumption
<1>6. /\ IsFields(g) /\ g.signal = NewSignal(Context1.name)
      /\ \A f \in FieldNames \ {"signal"} : g[f] = o[f]
  BY <1>1 DEF IsFields, FieldNames
<1>7. FitOnEnter(o, g, "signal", x, P)
  BY EnteringFrame
<1>8. SignalFits(g, x, P)
  <2> DEFINE D == Walked(x, P)
  <2>1. \A n \in P : tree[n].rule = "signal" => n = x
    BY <1>1 DEF In
  <2>2. \A q : List(q, x, D) = <<>> /\ Below(q, x) \cap D = {}
    BY NoneYet
  <2> HIDE DEF g, D
  <2>4. SignalSoFar(x, D) = g.signal
    BY <1>6, <2>2, NoNodes DEF SignalSoFar, Context1, x, NewSignal
  <2> QED
    BY <1>1, <2>1, <2>4 DEF SignalFits, Held, D
<1>9. FieldsFit(g, x, P)
  <2> HIDE DEF g, P, x
  <2> QED
    BY <1>6, <1>7, <1>8, AllFit DEF FitOnEnter, FieldNames
<1> QED
  BY <1>1, <1>5, <1>9

LEMMA EnterStructFits ==
  ASSUME Entering("struct")
  PROVE  /\ o.struct = Nil /\ o.schema = Nil /\ o.module # Nil
         /\ errors = 0 => HasName
         /\ FieldsFit([o EXCEPT !["struct"] = [NewStruct(Context1.name) EXCEPT !.metas = Metas(seen + 1)]],
                      seen + 1, Open \cup {seen + 1})
<1> DEFINE x == seen + 1
           P == Open \cup {x}
           g == [o EXCEPT !["struct"] = [NewStruct(Context1.name) EXCEPT !.metas = Metas(seen + 1)]]
<1>1. /\ TreeDone /\ OnPath /\ Readable /\ FieldsFit(o, seen, Open) /\ IsFields(o)
      /\ x \in 2 .. Len(tree) /\ tree[x].rule = "struct" /\ seen \in Nat /\ seen >= 3
      /\ ~ In("struct")
      /\ errors = 0 => HasName
  BY EnteringFacts DEF Unnamed
<1>5. o.struct = Nil /\ o.schema = Nil /\ o.module # Nil
  <2>1. /\ o.struct = Nil /\ o.schema = Nil /\ o.module \in Modules
    BY <1>1, NoSchemaOnEnter, FieldsTyped
  <2> QED
    BY <2>1, NilAssumption
<1>6. /\ IsFields(g)
      /\ g.struct = [NewStruct(Context1.name) EXCEPT !.metas = Metas(seen + 1)]
      /\ \A f \in FieldNames \ {"struct"} : g[f] = o[f]
  BY <1>1 DEF IsFields, FieldNames
<1>7. FitOnEnter(o, g, "struct", x, P)
  BY EnteringFrame
<1>8. StructFits(g, x, P)
  <2> DEFINE D == Walked(x, P)
  <2>1. \A n \in P : tree[n].rule = "struct" => n = x
    BY <1>1 DEF In
  <2>2. \A q : List(q, x, D) = <<>> /\ Below(q, x) \cap D = {}
    BY NoneYet
  <2> HIDE DEF g, D
  <2>4. StructSoFar(x, D) = g.struct
    BY <1>6, <2>2, NoNodes DEF StructSoFar, Context1, x, NewStruct
  <2> QED
    BY <1>1, <2>1, <2>4 DEF StructFits, Held, D
<1>9. FieldsFit(g, x, P)
  <2> HIDE DEF g, P, x
  <2> QED
    BY <1>6, <1>7, <1>8, AllFit DEF FitOnEnter, FieldNames
<1> QED
  BY <1>1, <1>5, <1>9

LEMMA EnterStructFieldFits ==
  ASSUME Entering("field")
  PROVE  /\ o.schema = Nil /\ o.field = Nil /\ o.struct # Nil
         /\ errors = 0 => HasName
         /\ FieldsFit([o EXCEPT !["field"] = NewTypedNode(Context1.name, Context1.also # Nil)],
                      seen + 1, Open \cup {seen + 1})
<1> DEFINE x == seen + 1
           P == Open \cup {x}
           g == [o EXCEPT !["field"] = NewTypedNode(Context1.name, Context1.also # Nil)]
<1>1. /\ TreeDone /\ OnPath /\ Readable /\ FieldsFit(o, seen, Open) /\ IsFields(o)
      /\ x \in 2 .. Len(tree) /\ tree[x].rule = "field" /\ seen \in Nat /\ seen >= 3
      /\ Owner(x) \in Open /\ ~ In("field")
      /\ errors = 0 => HasName
  BY EnteringFacts DEF Unnamed
<1>4. In("struct")
  BY <1>1, OwnerFacts DEF In
<1>5. o.schema = Nil /\ o.field = Nil /\ o.struct # Nil
  <2>1. /\ o.schema = Nil /\ o.field = Nil /\ o.struct \in Structs
    BY <1>1, <1>4, NoSchemaOnEnter, FieldsTyped
  <2> QED
    BY <2>1, NilAssumption
<1>6. /\ IsFields(g) /\ g.field = NewTypedNode(Context1.name, Context1.also # Nil)
      /\ \A f \in FieldNames \ {"field"} : g[f] = o[f]
  BY <1>1 DEF IsFields, FieldNames
<1>7. FitOnEnter(o, g, "field", x, P)
  BY EnteringFrame
<1>8. FieldFits(g, P)
  <2> HIDE DEF g
  <2>1. \A n \in P : tree[n].rule = "field" => n = x
    BY <1>1 DEF In
  <2>2. g.field = NewTypedNode(tree[x].name, tree[x].also # Nil)
    BY <1>6 DEF Context1
  <2> QED
    BY <1>1, <2>1, <2>2 DEF FieldFits, Held
<1>9. FieldsFit(g, x, P)
  <2> HIDE DEF g, P, x
  <2> QED
    BY <1>6, <1>7, <1>8, AllFit DEF FitOnEnter, FieldNames
<1> QED
  BY <1>1, <1>5, <1>9

LEMMA EnterEnumFits ==
  ASSUME Entering("enum")
  PROVE  /\ o.enum = Nil /\ o.schema = Nil /\ o.module # Nil
         /\ errors = 0 => HasName
         /\ FieldsFit([o EXCEPT !.enum = NewEnum(Context1.name), !.running = 0],
                      seen + 1, Open \cup {seen + 1})
<1> DEFINE x == seen + 1
           P == Open \cup {x}
           g == [o EXCEPT !.enum = NewEnum(Context1.name), !.running = 0]
<1>1. /\ TreeDone /\ OnPath /\ Readable /\ FieldsFit(o, seen, Open) /\ IsFields(o)
      /\ x \in 2 .. Len(tree) /\ tree[x].rule = "enum" /\ seen \in Nat /\ seen >= 3
      /\ ~ In("enum")
      /\ errors = 0 => HasName
  BY EnteringFacts DEF Unnamed
<1>5. o.enum = Nil /\ o.schema = Nil /\ o.module # Nil
  <2>1. /\ o.enum = Nil /\ o.schema = Nil /\ o.module \in Modules
    BY <1>1, NoSchemaOnEnter, FieldsTyped
  <2> QED
    BY <2>1, NilAssumption
<1>6. /\ IsFields(g) /\ g.enum = NewEnum(Context1.name) /\ g.running = 0
      /\ \A f \in FieldNames \ {"enum", "running"} : g[f] = o[f]
  BY <1>1 DEF IsFields, FieldNames
<1>7. FitOnEnter(o, g, "enum", x, P)
  BY EnteringFrame
<1>8. EnumFits(g, x, P)
  <2> DEFINE D == Walked(x, P)
  <2>1. \A n \in P : tree[n].rule = "enum" => n = x
    BY <1>1 DEF In
  <2>2. \A q : List(q, x, D) = <<>> /\ Below(q, x) \cap D = {}
    BY NoneYet
  <2> HIDE DEF g, D
  <2>4. EnumSoFar(x, D) = g.enum
    BY <1>6, <2>2, NoNodes DEF EnumSoFar, Context1, x, NewEnum
  <2> QED
    BY <1>1, <2>1, <2>4 DEF EnumFits, Held, D
<1>9. RunningFits(g, x, P)
  <2>1. \A n \in P : tree[n].rule = "enum" => n = x
    BY <1>1 DEF In
  <2>2. Unnumbered(x, x) = {}
    BY NoneYet DEF Unnumbered
  <2>3. Cardinality({}) = 0
    BY FS_EmptySet
  <2> HIDE DEF g, x
  <2>4. Cardinality(Unnumbered(x, x)) = 0
    BY <2>2, <2>3
  <2> QED
    BY <1>6, <2>1, <2>4 DEF RunningFits
<1>10. FieldsFit(g, x, P)
  <2> HIDE DEF g, P, x
  <2> QED
    BY <1>6, <1>7, <1>8, <1>9, AllFit DEF FitOnEnter, FieldNames
<1> QED
  BY <1>1, <1>5, <1>10

LEMMA EnterEnumMemberFits ==
  ASSUME Entering("member"),
         NEW value, value = IF Context1.also # Nil THEN Context1.also ELSE o.running
  PROVE  /\ o.enum # Nil
         /\ errors = 0 => HasName /\ value # NoNumber
         /\ value # NoNumber => Context1.also # NoNumber
         /\ FieldsFit([o EXCEPT !.member = NewEnumMember(Context1.name, value),
                                !.running = IF Context1.also # Nil THEN @ ELSE @ + 1],
                      seen + 1, Open \cup {seen + 1})
<1> DEFINE x == seen + 1
           P == Open \cup {x}
           n == Owner(x)
           g == [o EXCEPT !.member = NewEnumMember(Context1.name, value),
                          !.running = IF Context1.also # Nil THEN @ ELSE @ + 1]
<1>1. /\ TreeDone /\ OnPath /\ Readable /\ FieldsFit(o, seen, Open) /\ IsFields(o)
      /\ x \in 2 .. Len(tree) /\ tree[x].rule = "member" /\ seen \in Nat /\ seen >= 3
      /\ Owner(x) \in Open /\ ~ In("member")
      /\ errors = 0 => HasName
  BY EnteringFacts DEF Unnamed
<1>4. tree[n].rule = "enum" /\ tree[x].parent = n /\ x \in Below("member", n) /\ In("enum")
  BY <1>1, OwnerFacts, BelowFacts DEF In
<1>5. o.enum # Nil /\ o.running \in Nat
  <2>1. o.enum \in Enums /\ o.running \in Nat
    BY <1>1, <1>4, FieldsTyped
  <2> QED
    BY <2>1, NilAssumption
<1>6. errors = 0 => value # NoNumber
  <2>1. errors = 0 => Context1.also # NoNumber
    BY <1>1 DEF TreeDone, Context1
  <2>2. o.running # NoNumber
    <3>1. NoNumber \notin Int
      BY DocumentAssumption
    <3> QED
      BY <1>5, <3>1
  <2> QED
    BY <2>1, <2>2
<1>7. value # NoNumber => Context1.also # NoNumber
  BY DocumentAssumption
<1>8. o.running = Cardinality(Unnumbered(n, seen))
  BY <1>1, <1>4 DEF FieldsFit, RunningFits
<1>9. /\ \A m \in P : tree[m].rule = "enum" => m = n
      /\ \A m \in P : tree[m].rule = "member" => m = x
  <2>1. \A m \in Open : tree[m].rule = "enum" => m = n
    BY <1>1, <1>4, OpenFacts
  <2> QED
    BY <1>1, <2>1 DEF In
<1>10. Unnumbered(n, x) = Unnumbered(n, seen) \cup (IF tree[x].also = Nil THEN {x} ELSE {})
  <2>1. 1 .. x = (1 .. seen) \cup {x}
    BY <1>1, EnterWalked
  <2> HIDE DEF x
  <2> QED
    BY <1>4, <2>1 DEF Unnumbered
<1>11. x \notin Unnumbered(n, seen) /\ IsFiniteSet(Unnumbered(n, seen))
  <2>1. Unnumbered(n, seen) \subseteq 1 .. seen /\ x \notin 1 .. seen
    BY <1>1, EnterWalked DEF Unnumbered
  <2>2. IsFiniteSet(1 .. seen)
    <3>1. seen \in Int /\ 1 \in Int
      BY <1>1
    <3> QED
      BY <3>1, FS_Interval
  <2> QED
    BY <2>1, <2>2, FS_Subset
<1>12. MemberAt(x).value = value
  <2> DEFINE before == {i \in Below("member", tree[x].parent) : i < x /\ tree[i].also = Nil}
  <2>1. before = Unnumbered(n, seen)
    <3>1. \A i \in Below("member", n) : i < x <=> i \in 1 .. seen
      <4>1. \A i \in Below("member", n) : i \in 2 .. Len(tree)
        BY <1>1, BelowFacts
      <4> QED
        BY <1>1, <4>1
    <3> HIDE DEF x, n
    <3> QED
      BY <1>4, <3>1 DEF Unnumbered
  <2>2. MemberAt(x).value = IF tree[x].also = Nil THEN Cardinality(before) ELSE tree[x].also
    BY DEF MemberAt
  <2> HIDE DEF before
  <2> QED
    BY <1>8, <2>1, <2>2 DEF Context1
<1>13. /\ IsFields(g) /\ g.member = NewEnumMember(Context1.name, value)
       /\ g.running = (IF Context1.also # Nil THEN o.running ELSE o.running + 1)
       /\ \A f \in FieldNames \ {"member", "running"} : g[f] = o[f]
  BY <1>1 DEF IsFields, FieldNames
<1>14. FitOnEnter(o, g, "member", x, P)
  BY EnteringFrame
<1>15. MemberFits(g, P)
  <2>1. g.member = NewEnumMember(tree[x].name, MemberAt(x).value)
    BY <1>12, <1>13 DEF Context1
  <2> HIDE DEF g, x, P
  <2>2. x \in P
    BY DEF P
  <2> QED
    BY <1>1, <1>9, <2>1, <2>2 DEF MemberFits, Held
<1>16. RunningFits(g, x, P)
  <2>1. g.running = Cardinality(Unnumbered(n, x)) /\ g.running \in Nat
    <3>1. CASE tree[x].also = Nil
      <4>1. Cardinality(Unnumbered(n, seen) \cup {x}) = Cardinality(Unnumbered(n, seen)) + 1
        BY <1>11, FS_AddElement
      <4>2. g.running = o.running + 1 /\ o.running \in Nat
        BY <1>5, <1>13, <3>1 DEF Context1
      <4>3. Unnumbered(n, x) = Unnumbered(n, seen) \cup {x}
        BY <1>10, <3>1
      <4> HIDE DEF g, n, x
      <4>4. g.running = Cardinality(Unnumbered(n, x))
        BY <1>8, <4>1, <4>2, <4>3
      <4> QED
        BY <4>2, <4>4
    <3>2. CASE tree[x].also # Nil
      <4>1. Unnumbered(n, x) = Unnumbered(n, seen)
        BY <1>10, <3>2
      <4> HIDE DEF g, n
      <4> QED
        BY <1>5, <1>8, <1>13, <3>2, <4>1 DEF Context1, x
    <3> QED
      BY <3>1, <3>2
  <2> HIDE DEF g, x, P, n
  <2> QED
    BY <1>9, <2>1 DEF RunningFits
<1>17. FieldsFit(g, x, P)
  <2> HIDE DEF g, P, x
  <2> QED
    BY <1>13, <1>14, <1>15, <1>16, AllFit DEF FitOnEnter, FieldNames
<1> QED
  BY <1>1, <1>5, <1>6, <1>7, <1>17

LEMMA EnterSchemaFits ==
  ASSUME Entering("schema")
  PROVE  /\ o.schema = Nil
         /\ FieldsFit([o EXCEPT !.schema = Schema("", "")],
                      seen + 1, Open \cup {seen + 1})
<1> DEFINE x == seen + 1
           P == Open \cup {x}
           g == [o EXCEPT !.schema = Schema("", "")]
<1>1. /\ TreeDone /\ OnPath /\ Readable /\ FieldsFit(o, seen, Open) /\ IsFields(o)
      /\ x \in 2 .. Len(tree) /\ tree[x].rule = "schema" /\ seen \in Nat /\ seen >= 3
      /\ Owner(x) \in Open
  BY EnteringFacts
<1>5. o.schema = Nil
  BY <1>1, NoSchemaOnEnter, FieldsTyped
<1>6. /\ IsFields(g) /\ g.schema = Schema("", "")
      /\ \A f \in FieldNames \ {"schema"} : g[f] = o[f]
  BY <1>1 DEF IsFields, FieldNames
<1>7. FitOnEnter(o, g, "schema", x, P)
  BY EnteringFrame
<1>8. SchemaIsKept(g, x, P)
  <2>1. Kept("schema", seen, Open) = {}
    BY NoSchemaOnEnter
  <2>2. \A i \in 1 .. x : i = x \/ i \in 1 .. seen
    BY <1>1, EnterWalked
  <2>3. \A i \in 1 .. seen : tree[i].rule = "schema" => tree[i].parent \notin Open
    BY <2>1 DEF Kept
  <2>4. \A i \in 1 .. seen : tree[i].parent # x
    <3> TAKE i \in 1 .. seen
    <3>1. i \in 1 .. Len(tree) /\ i < x
      BY <1>1, OpenFacts
    <3>2. CASE i = 1
      BY <1>1, <3>2 DEF TreeDone, Called
    <3>3. CASE i # 1
      <4>1. i \in 2 .. Len(tree)
        BY <3>1, <3>3
      <4>2. tree[i].parent \in 1 .. i - 1
        BY <1>1, <4>1, ParentFacts
      <4> QED
        BY <1>1, <3>1, <4>2
    <3> QED
      BY <3>2, <3>3
  <2>5. \A i \in Kept("schema", x, P) : i = x
    <3> HIDE DEF x
    <3> QED
      BY <2>2, <2>3, <2>4 DEF Kept
  <2>6. x \in Kept("schema", x, P)
    <3>1. tree[x].parent \in Open
      BY <1>1, OwnerFacts
    <3>2. x \in 1 .. x
      BY <1>1
    <3> HIDE DEF x
    <3> QED
      BY <1>1, <3>1, <3>2 DEF Kept
  <2>7. SchemaSoFar(x, x) = Schema("", "")
    <3>1. \A q : Below(q, x) \cap (1 .. x) = {}
      BY NoneYet
    <3> HIDE DEF x
    <3>2. TypeSoFar(x, x) = <<"", "">>
      BY <3>1 DEF TypeSoFar
    <3>3. TypeSoFar(x, x)[1] = "" /\ TypeSoFar(x, x)[2] = ""
      BY <3>2, PairFacts
    <3> QED
      BY <3>1, <3>3 DEF SchemaSoFar, Schema
  <2> HIDE DEF g, x, P
  <2> QED
    BY <1>6, <2>5, <2>6, <2>7 DEF SchemaIsKept
<1>9. FieldsFit(g, x, P)
  <2> HIDE DEF g, P, x
  <2> QED
    BY <1>6, <1>7, <1>8, AllFit DEF FitOnEnter, FieldNames
<1> QED
  BY <1>1, <1>5, <1>9

LEMMA EnterPrimitiveFits ==
  ASSUME Entering("primitive")
  PROVE  /\ o.schema # Nil
         /\ errors = 0 => HasName
         /\ FieldsFit([o EXCEPT !.schema.type = Context1.name],
                      seen + 1, Open \cup {seen + 1})
<1> DEFINE x == seen + 1
           P == Open \cup {x}
           g == [o EXCEPT !.schema.type = Context1.name]
<1>1. /\ TreeDone /\ OnPath /\ Readable /\ FieldsFit(o, seen, Open) /\ IsFields(o)
      /\ x \in 2 .. Len(tree) /\ tree[x].rule = "primitive" /\ seen \in Nat /\ seen >= 3
      /\ errors = 0 => HasName
  BY EnteringFacts DEF Unnamed
<1>4. /\ Kept("schema", seen, Open) = {Entered} /\ Kept("schema", x, P) = {Entered}
      /\ Below("primitive", Entered) \cap (1 .. x) =
           (Below("primitive", Entered) \cap (1 .. seen)) \cup {x}
      /\ o.schema = SchemaSoFar(seen, Entered)
  <2>1. SchemaIsKept(o, seen, Open)
    BY <1>1 DEF FieldsFit
  <2> QED
    BY <2>1, SchemaOnEnter DEF SchemaIsKept
<1>5. o.schema # Nil
  <2>1. o.schema \in Schemas
    BY <1>1, <1>4, FieldsTyped
  <2> QED
    BY <2>1, NilAssumption
<1>6. /\ IsFields(g) /\ g.schema = [o.schema EXCEPT !.type = Context1.name]
      /\ \A f \in FieldNames \ {"schema"} : g[f] = o[f]
  BY <1>1 DEF IsFields, FieldNames
<1>7. FitOnEnter(o, g, "primitive", x, P)
  BY EnteringFrame
<1>8. SchemaIsKept(g, x, P)
  <2>1. \A q : q # "primitive" =>
          Below(q, Entered) \cap (1 .. x) = Below(q, Entered) \cap (1 .. seen)
    <3>1. 1 .. x = (1 .. seen) \cup {x}
      BY <1>1, EnterWalked
    <3>2. \A q : q # "primitive" => x \notin Below(q, Entered)
      BY <1>1, BelowFacts
    <3> HIDE DEF x
    <3> QED
      BY <3>1, <3>2
  <2>2. x \in Below("primitive", Entered) /\ The(Below("primitive", Entered)) = x
    <3>1. x \in Below("primitive", Entered)
      BY <1>4
    <3> HIDE DEF x
    <3> QED
      BY <1>1, <3>1, OneBelow DEF The
  <2>3. Below("symbol", Entered) = {} /\ Below("primitive", Entered) \cap (1 .. seen) = {}
    <3>1. x \notin 1 .. seen
      BY <1>1, EnterWalked
    <3> HIDE DEF x
    <3>2. \A i \in Below("primitive", Entered) : i = x
      BY <1>1, <2>2, OneBelow
    <3> QED
      BY <1>1, <2>2, <3>1, <3>2, OneBelow
  <2> HIDE DEF x
  <2>4. TypeSoFar(seen, Entered) = <<"", "">>
    BY <2>3 DEF TypeSoFar
  <2>5. TypeSoFar(x, Entered) = <<"", tree[x].name>>
    <3>1. Below("primitive", Entered) \cap (1 .. x) # {}
      BY <1>4
    <3> QED
      BY <2>2, <2>3, <3>1 DEF TypeSoFar
  <2>6. g.schema = SchemaSoFar(x, Entered)
    <3>1. g.schema = [SchemaSoFar(seen, Entered) EXCEPT !.type = tree[x].name]
      BY <1>4, <1>6 DEF Context1, x
    <3>2. Below("array", Entered) \cap (1 .. x) = Below("array", Entered) \cap (1 .. seen)
      BY <2>1
    <3> HIDE DEF g
    <3>3. TypeSoFar(seen, Entered)[1] = "" /\ TypeSoFar(seen, Entered)[2] = ""
      BY <2>4, PairFacts
    <3>4. TypeSoFar(x, Entered)[1] = "" /\ TypeSoFar(x, Entered)[2] = tree[x].name
      BY <2>5, PairFacts
    <3> QED
      BY <3>1, <3>2, <3>3, <3>4 DEF SchemaSoFar
  <2> HIDE DEF g, P
  <2> QED
    BY <1>4, <2>6 DEF SchemaIsKept
<1>9. FieldsFit(g, x, P)
  <2> HIDE DEF g, P, x
  <2> QED
    BY <1>6, <1>7, <1>8, AllFit DEF FitOnEnter, FieldNames
<1> QED
  BY <1>1, <1>5, <1>9

LEMMA EnterSymbolFits ==
  ASSUME Entering("symbol")
  PROVE  /\ o.schema # Nil
         /\ errors = 0 => HasName
         /\ FieldsFit([o EXCEPT !.schema.import = Parts[Context1.name][1],
                               !.schema.type = Parts[Context1.name][2]],
                      seen + 1, Open \cup {seen + 1})
<1> DEFINE x == seen + 1
           P == Open \cup {x}
           g == [o EXCEPT !.schema.import = Parts[Context1.name][1],
                                     !.schema.type = Parts[Context1.name][2]]
<1>1. /\ TreeDone /\ OnPath /\ Readable /\ FieldsFit(o, seen, Open) /\ IsFields(o)
      /\ x \in 2 .. Len(tree) /\ tree[x].rule = "symbol" /\ seen \in Nat /\ seen >= 3
      /\ errors = 0 => HasName
  BY EnteringFacts DEF Unnamed
<1>4. /\ Kept("schema", seen, Open) = {Entered} /\ Kept("schema", x, P) = {Entered}
      /\ Below("symbol", Entered) \cap (1 .. x) =
           (Below("symbol", Entered) \cap (1 .. seen)) \cup {x}
      /\ o.schema = SchemaSoFar(seen, Entered)
  <2>1. SchemaIsKept(o, seen, Open)
    BY <1>1 DEF FieldsFit
  <2> QED
    BY <2>1, SchemaOnEnter DEF SchemaIsKept
<1>5. o.schema # Nil
  <2>1. o.schema \in Schemas
    BY <1>1, <1>4, FieldsTyped
  <2> QED
    BY <2>1, NilAssumption
<1>6. /\ IsFields(g)
      /\ g.schema = [o.schema EXCEPT !.import = Parts[Context1.name][1], !.type = Parts[Context1.name][2]]
      /\ \A f \in FieldNames \ {"schema"} : g[f] = o[f]
  BY <1>1 DEF IsFields, FieldNames
<1>7. FitOnEnter(o, g, "symbol", x, P)
  BY EnteringFrame
<1>8. SchemaIsKept(g, x, P)
  <2>1. \A q : q # "symbol" =>
          Below(q, Entered) \cap (1 .. x) = Below(q, Entered) \cap (1 .. seen)
    <3>1. 1 .. x = (1 .. seen) \cup {x}
      BY <1>1, EnterWalked
    <3>2. \A q : q # "symbol" => x \notin Below(q, Entered)
      BY <1>1, BelowFacts
    <3> HIDE DEF x
    <3> QED
      BY <3>1, <3>2
  <2>2. x \in Below("symbol", Entered) /\ The(Below("symbol", Entered)) = x
    <3>1. x \in Below("symbol", Entered)
      BY <1>4
    <3> HIDE DEF x
    <3> QED
      BY <1>1, <3>1, OneBelow DEF The
  <2>3. Below("primitive", Entered) = {} /\ Below("symbol", Entered) \cap (1 .. seen) = {}
    <3>1. x \notin 1 .. seen
      BY <1>1, EnterWalked
    <3> HIDE DEF x
    <3>2. \A i \in Below("symbol", Entered) : i = x
      BY <1>1, <2>2, OneBelow
    <3> QED
      BY <1>1, <2>2, <3>1, <3>2, OneBelow
  <2> HIDE DEF x
  <2>4. TypeSoFar(seen, Entered) = <<"", "">>
    BY <2>3 DEF TypeSoFar
  <2>5. TypeSoFar(x, Entered) = Parts[tree[x].name]
    <3>1. Below("symbol", Entered) \cap (1 .. x) # {}
      BY <1>4
    <3> QED
      BY <2>2, <2>3, <3>1 DEF TypeSoFar
  <2>6. g.schema = SchemaSoFar(x, Entered)
    <3>1. g.schema = [SchemaSoFar(seen, Entered) EXCEPT !.import = Parts[tree[x].name][1],
                                                        !.type = Parts[tree[x].name][2]]
      BY <1>4, <1>6 DEF Context1, x
    <3>2. Below("array", Entered) \cap (1 .. x) = Below("array", Entered) \cap (1 .. seen)
      BY <2>1
    <3> HIDE DEF g
    <3>3. TypeSoFar(seen, Entered)[1] = "" /\ TypeSoFar(seen, Entered)[2] = ""
      BY <2>4, PairFacts
    <3>4. TypeSoFar(x, Entered) = Parts[tree[x].name]
      BY <2>5, PairFacts
    <3> QED
      BY <3>1, <3>2, <3>3, <3>4 DEF SchemaSoFar
  <2> HIDE DEF g, P
  <2> QED
    BY <1>4, <2>6 DEF SchemaIsKept
<1>9. FieldsFit(g, x, P)
  <2> HIDE DEF g, P, x
  <2> QED
    BY <1>6, <1>7, <1>8, AllFit DEF FitOnEnter, FieldNames
<1> QED
  BY <1>1, <1>5, <1>9

LEMMA EnterArrayFits ==
  ASSUME Entering("array")
  PROVE  /\ o.schema # Nil
         /\ FieldsFit([o EXCEPT !.schema.array = TRUE], seen + 1, Open \cup {seen + 1})
<1> DEFINE x == seen + 1
           P == Open \cup {x}
           g == [o EXCEPT !.schema.array = TRUE]
<1>1. /\ TreeDone /\ OnPath /\ Readable /\ FieldsFit(o, seen, Open) /\ IsFields(o)
      /\ x \in 2 .. Len(tree) /\ tree[x].rule = "array" /\ seen \in Nat /\ seen >= 3
  BY EnteringFacts
<1>4. /\ Kept("schema", seen, Open) = {Entered} /\ Kept("schema", x, P) = {Entered}
      /\ Below("array", Entered) \cap (1 .. x) =
           (Below("array", Entered) \cap (1 .. seen)) \cup {x}
      /\ o.schema = SchemaSoFar(seen, Entered)
  <2>1. SchemaIsKept(o, seen, Open)
    BY <1>1 DEF FieldsFit
  <2> QED
    BY <2>1, SchemaOnEnter DEF SchemaIsKept
<1>5. o.schema # Nil
  <2>1. o.schema \in Schemas
    BY <1>1, <1>4, FieldsTyped
  <2> QED
    BY <2>1, NilAssumption
<1>6. /\ IsFields(g) /\ g.schema = [o.schema EXCEPT !.array = TRUE]
      /\ \A f \in FieldNames \ {"schema"} : g[f] = o[f]
  BY <1>1 DEF IsFields, FieldNames
<1>7. FitOnEnter(o, g, "array", x, P)
  BY EnteringFrame
<1>8. SchemaIsKept(g, x, P)
  <2>1. \A q : q # "array" =>
          Below(q, Entered) \cap (1 .. x) = Below(q, Entered) \cap (1 .. seen)
    <3>1. 1 .. x = (1 .. seen) \cup {x}
      BY <1>1, EnterWalked
    <3>2. \A q : q # "array" => x \notin Below(q, Entered)
      BY <1>1, BelowFacts
    <3> HIDE DEF x
    <3> QED
      BY <3>1, <3>2
  <2>2. Below("array", Entered) \cap (1 .. x) # {}
    BY <1>4
  <2> HIDE DEF x
  <2>3. TypeSoFar(x, Entered) = TypeSoFar(seen, Entered)
    <3>1. /\ Below("symbol", Entered) \cap (1 .. x) = Below("symbol", Entered) \cap (1 .. seen)
          /\ Below("primitive", Entered) \cap (1 .. x)
               = Below("primitive", Entered) \cap (1 .. seen)
      BY <2>1
    <3> QED
      BY <3>1 DEF TypeSoFar
  <2>4. g.schema = SchemaSoFar(x, Entered)
    <3>1. g.schema = [SchemaSoFar(seen, Entered) EXCEPT !.array = TRUE]
      BY <1>4, <1>6
    <3> HIDE DEF g
    <3> QED
      BY <2>2, <2>3, <3>1 DEF SchemaSoFar
  <2> HIDE DEF g, P
  <2> QED
    BY <1>4, <2>4 DEF SchemaIsKept
<1>9. FieldsFit(g, x, P)
  <2> HIDE DEF g, P, x
  <2> QED
    BY <1>6, <1>7, <1>8, AllFit DEF FitOnEnter, FieldNames
<1> QED
  BY <1>1, <1>5, <1>9

LEMMA EnterModuleFits ==
  ASSUME Entering("module")
  PROVE  /\ o.module = Nil
         /\ errors = 0 => HasName
         /\ FieldsFit([o EXCEPT !["module"] = NewModule(Context1.name)],
                      seen + 1, Open \cup {seen + 1})
<1> DEFINE x == seen + 1
           P == Open \cup {x}
           g == [o EXCEPT !["module"] = NewModule(Context1.name)]
<1>1. /\ TreeDone /\ OnPath /\ Readable /\ FieldsFit(o, seen, Open) /\ IsFields(o)
      /\ x \in 2 .. Len(tree) /\ tree[x].rule = "module" /\ seen \in Nat
      /\ errors = 0 => HasName
  BY EnteringFacts DEF Unnamed
<1>3. x = 3
  BY <1>1, OneModule
<1>5. o.module = Nil
  BY <1>1, <1>3, FieldsTyped
<1>6. /\ IsFields(g) /\ g.module = NewModule(Context1.name)
      /\ \A f \in FieldNames \ {"module"} : g[f] = o[f]
  BY <1>1 DEF IsFields, FieldNames
<1>7. FitOnEnter(o, g, "module", x, P)
  BY EnteringFrame
<1>8. ModuleFits(g, x, P)
  <2> DEFINE D == Walked(x, P)
  <2>1. ASSUME NEW q \in {"import", "extern", "interface", "struct", "enum"}
        PROVE  Below(q, 1) \cap (1 .. x) = {}
    <3>1. \A i \in Below(q, 1) : i > 3
      BY <1>1, BelowFacts, OneModule
    <3> QED
      BY <1>3, <3>1
  <2>2. D \subseteq 1 .. x /\ 3 \in P
    BY <1>3 DEF Walked
  <2>3. /\ List("import", 1, 1 .. x) = <<>> /\ List("extern", 1, D) = <<>>
        /\ List("interface", 1, D) = <<>> /\ List("struct", 1, D) = <<>>
        /\ List("enum", 1, D) = <<>>
    <3> HIDE DEF D, x
    <3>1. /\ Below("import", 1) \cap (1 .. x) = {} /\ Below("extern", 1) \cap D = {}
          /\ Below("interface", 1) \cap D = {} /\ Below("struct", 1) \cap D = {}
          /\ Below("enum", 1) \cap D = {}
      BY <2>1, <2>2
    <3> QED
      BY <1>1, <3>1, EmptyList
  <2>4. /\ Map(<<>>, ExternAt) = <<>> /\ Map(<<>>, InterfaceAt) = <<>>
        /\ Map(<<>>, StructAt) = <<>> /\ Map(<<>>, EnumAt) = <<>>
        /\ Map(<<>>, LAMBDA i : tree[i].name) = <<>>
    BY DEF Map
  <2>5. g.module = NewModule(tree[3].name)
    BY <1>3, <1>6 DEF Context1
  <2> HIDE DEF g, D, P
  <2>6. ModuleSoFar(x, P) = NewModule(tree[3].name)
    BY <2>2, <2>3, <2>4 DEF ModuleSoFar, NewModule, D
  <2> QED
    BY <1>3, <2>5, <2>6 DEF ModuleFits
<1>9. FieldsFit(g, x, P)
  <2> HIDE DEF g, P, x
  <2> QED
    BY <1>6, <1>7, <1>8, AllFit DEF FitOnEnter, FieldNames
<1> QED
  BY <1>1, <1>5, <1>9

LEMMA EnterImportFits ==
  ASSUME Entering("import")
  PROVE  /\ o.module # Nil
         /\ errors = 0 => HasName
         /\ FieldsFit(Attach("module", "imports", Context1.name), seen + 1, Open \cup {seen + 1})
<1> DEFINE x == seen + 1
           P == Open \cup {x}
           g == Attach("module", "imports", Context1.name)
           new == [o.module EXCEPT !.imports = Append(@, Context1.name)]
<1>1. /\ TreeDone /\ OnPath /\ Readable /\ FieldsFit(o, seen, Open) /\ IsFields(o)
      /\ x \in 1 .. Len(tree) /\ tree[x].rule = "import" /\ seen \in Nat /\ seen >= 3
      /\ errors = 0 => HasName
  BY EnteringFacts DEF Unnamed
<1>2. x \in 2 .. Len(tree) /\ Owner(x) = 1 /\ x \in Below("import", 1)
  <2>1. x \in 2 .. Len(tree)
    BY <1>1
  <2> QED
    BY <1>1, <2>1, OwnerFacts, BelowFacts
<1>3. o.module # Nil /\ o.module = ModuleSoFar(seen, Open)
  <2>1. o.module \in Modules
    BY <1>1, FieldsTyped
  <2>2. ModuleFits(o, seen, Open)
    BY <1>1 DEF FieldsFit
  <2> QED
    BY <1>1, <2>1, <2>2, NilAssumption DEF ModuleFits
<1>4. /\ IsFields(g) /\ g.module = new
      /\ \A f \in FieldNames \ {"module"} : g[f] = o[f]
  BY <1>1 DEF IsFields, FieldNames, Attach
<1>5. FitOnEnter(o, g, "import", x, P)
  BY EnteringFrame
<1>6. ModuleFits(g, x, P)
  <2>1. Walked(x, P) = Walked(seen, Open) /\ 1 .. x = (1 .. seen) \cup {x} /\ x \notin 1 .. seen
    BY <1>1, EnterWalked
  <2>2. 3 \in P <=> 3 \in Open
    BY <1>1
  <2> DEFINE L == List("import", 1, 1 .. seen)
             N == List("import", 1, 1 .. x)
             names == Map(L, LAMBDA i : tree[i].name)
  <2>3. N = Append(L, x)
    <3>1. \A y \in Below("import", 1) \cap (1 .. seen) : y < x
      BY <1>1
    <3>2. List("import", 1, (1 .. seen) \cup {x}) = Append(L, x)
      <4> DEFINE S == 1 .. seen
      <4>1. x \in Below("import", 1) /\ \A y \in Below("import", 1) \cap S : y < x
        BY <1>2, <3>1
      <4> HIDE DEF x, S
      <4>2. List("import", 1, S \cup {x}) = Append(List("import", 1, S), x)
        <5>1. TreeDone
          BY <1>1
        <5> QED
          BY <4>1, <5>1, ListGrows
      <4> QED
        BY <4>2 DEF S
    <3> QED
      BY <2>1, <3>2
  <2>4. Map(N, LAMBDA i : tree[i].name) = Append(names, tree[x].name)
    <3>1. Sorted(L, Below("import", 1) \cap (1 .. seen))
      BY <1>1, ListFacts
    <3> HIDE DEF L, N, x
    <3>2. Map(Append(L, x), NameAt) = Append(Map(L, NameAt), NameAt(x))
      BY <3>1, NameList
    <3>3. \A s : Map(s, NameAt) = Map(s, LAMBDA i : tree[i].name)
      BY DEF Map, NameAt
    <3> QED
      BY <2>3, <3>2, <3>3 DEF NameAt
  <2>5. new = ModuleSoFar(x, P)
    <3>1. new = [ModuleSoFar(seen, Open) EXCEPT !.imports = Append(@, tree[x].name)]
      BY <1>3 DEF Context1
    <3>2. ModuleSoFar(seen, Open).imports = names
      BY DEF ModuleSoFar
    <3> HIDE DEF new, names, x, P
    <3>3. new = [ModuleSoFar(seen, Open) EXCEPT !.imports = Map(N, LAMBDA i : tree[i].name)]
      BY <2>4, <3>1, <3>2
    <3> QED
      BY <2>1, <2>2, <3>3 DEF ModuleSoFar
  <2>6. ~ (x < 3)
    BY <1>1
  <2> HIDE DEF new, x, P, g
  <2> QED
    BY <1>4, <2>5, <2>6 DEF ModuleFits
<1>7. FieldsFit(g, x, P)
  <2> HIDE DEF g, P, x, new
  <2> QED
    BY <1>4, <1>5, <1>6, AllFit DEF FitOnEnter, FieldNames
<1> QED
  BY <1>1, <1>3, <1>7

LEMMA EnterOtherFits ==
  ASSUME NEW r \in {"document", "header", "declarations", "members", "meta"}, Entering(r)
  PROVE  FieldsFit(o, seen + 1, Open \cup {seen + 1})
<1> DEFINE x == seen + 1
           P == Open \cup {x}
<1>1. /\ TreeDone /\ OnPath /\ Readable /\ FieldsFit(o, seen, Open) /\ IsFields(o)
      /\ x \in 1 .. Len(tree) /\ tree[x].rule = r
  BY EnteringFacts
<1>2. FitOnEnter(o, o, r, x, P)
  BY EnteringFrame
<1> HIDE DEF x, P
<1>3. FieldsFit(o, x, P)
  BY <1>1, <1>2, AllFit DEF FitOnEnter, FieldNames
<1> QED
  BY <1>3 DEF x, P

----------------
(* Facts of every handler that leaves a context. *)

(* What holds whatever context is left.                                    *)
LEMMA LeavingFacts ==
  ASSUME NEW r, Leaving(r)
  PROVE  /\ TreeDone /\ OnPath /\ Readable /\ FieldsFit(o, seen, Open) /\ IsFields(o)
         /\ path # <<>> /\ ~ NextEnters /\ tree[Entered].rule = r /\ seen \in Nat
         /\ Entered \in 1 .. seen /\ Entered \in Open /\ Entered \in 1 .. Len(tree)
         /\ r # "document" => Entered \in 2 .. Len(tree) /\ Owner(Entered) \in Open
         /\ r \notin {"document", "header", "module"} => seen >= 3 /\ Entered > 3
<1>1. TreeDone /\ OnPath /\ Readable /\ FieldsFit(o, seen, Open) /\ Exit(r)
  BY DEF Leaving, WalkInv
<1>2. path # <<>> /\ ~ NextEnters /\ tree[Entered].rule = r
  BY <1>1, ExitStep
<1>3. Entered \in 1 .. seen /\ Entered \in Open /\ Entered \in 1 .. Len(tree) /\ seen \in Nat
  BY <1>1, <1>2, EnteredFacts
<1>4. ASSUME r # "document" PROVE Entered \in 2 .. Len(tree) /\ Owner(Entered) \in Open
  <2>1. Entered # 1
    BY <1>1, <1>2, <1>4, OneDocument
  <2> QED
    BY <1>1, <1>3, <2>1, OwnerIsOpen
<1>5. ASSUME r \notin {"document", "header", "module"} PROVE seen >= 3 /\ Entered > 3
  <2>1. Entered > 3
    BY <1>1, <1>2, <1>3, <1>5, OneModule
  <2> QED
    BY <1>3, <2>1
<1>6. IsFields(o)
  BY <1>1 DEF FieldsFit
<1> QED
  BY <1>1, <1>2, <1>3, <1>4, <1>5, <1>6

LEMMA LeavingFrame ==
  ASSUME NEW r, Leaving(r), NEW g
  PROVE  FitOnExit(o, g, r, seen, Open \ {Entered})
BY LeavingFacts, ExitFrame

(* The contexts around it.                                                 *)
LEMMA LeavingOpen ==
  ASSUME NEW r, Leaving(r)
  PROVE  /\ \A p \in Open : tree[p].rule = r => p = Entered
         /\ \A p \in Open \ {Entered} : Rank(tree[p].rule) < Rank(r) /\ Rank(tree[p].rule) \in Nat
         /\ \A q : Below(q, Entered) \subseteq Walked(seen, Open)
         /\ r # "document" => \A p \in Open : tree[p].rule = tree[Owner(Entered)].rule => p = Owner(Entered)
<1>1. /\ TreeDone /\ OnPath /\ path # <<>> /\ ~ NextEnters /\ tree[Entered].rule = r
      /\ Entered \in Open
      /\ r # "document" => Owner(Entered) \in Open
  BY LeavingFacts
<1>2. \A p, q \in Open : tree[p].rule = tree[q].rule => p = q
  BY <1>1, OpenFacts
<1>3. \A p \in Open \ {Entered} :
        Rank(tree[p].rule) < Rank(r) /\ Rank(tree[p].rule) \in Nat
  <2> TAKE p \in Open \ {Entered}
  <2>1. Rank(tree[p].rule) < Rank(tree[Entered].rule)
    BY <1>1, EnteredFacts
  <2>2. Rank(tree[p].rule) \in Nat
    BY <1>1, OpenFacts, RankIsNat
  <2> QED
    BY <1>1, <2>1, <2>2
<1>4. \A q : Below(q, Entered) \subseteq Walked(seen, Open)
  BY <1>1, PartsAreDone
<1> QED
  BY <1>1, <1>2, <1>3, <1>4

(* The lists around the context: it joins the one it is listed in.         *)
LEMMA ListOnExit ==
  ASSUME NEW r, Leaving(r), r \notin Wrappers \cup {"document"}
  PROVE  /\ \A q, n : q # r =>
              /\ List(q, n, Walked(seen, Open \ {Entered})) = List(q, n, Walked(seen, Open))
              /\ Below(q, n) \cap Walked(seen, Open \ {Entered}) = Below(q, n) \cap Walked(seen, Open)
         /\ List(r, Owner(Entered), Walked(seen, Open \ {Entered})) =
              Append(List(r, Owner(Entered), Walked(seen, Open)), Entered)
         /\ Sorted(List(r, Owner(Entered), Walked(seen, Open)),
                   Below(r, Owner(Entered)) \cap Walked(seen, Open))
         /\ Entered \in Below(r, Owner(Entered))
<1> DEFINE x == Entered
           D == Walked(seen, Open)
           E == Walked(seen, Open \ {x})
           n == Owner(x)
<1>1. /\ TreeDone /\ OnPath /\ path # <<>> /\ ~ NextEnters /\ tree[x].rule = r
      /\ x \in 2 .. Len(tree)
  BY LeavingFacts
<1>2. E = D \cup {x}
  BY <1>1, ExitWalked
<1>3. x \in Below(r, n)
  BY <1>1, BelowFacts
<1>4. \A q, m : q # r => Below(q, m) \cap E = Below(q, m) \cap D
  <2>1. \A q, m : q # r => x \notin Below(q, m)
    BY <1>1, BelowFacts
  <2> HIDE DEF x, D, E
  <2> QED
    BY <1>2, <2>1
<1>5. \A y \in Below(r, n) \cap D : y < x
  BY <1>1, <1>3, LastInList
<1> HIDE DEF D, E, x, n
<1>6. \A q, m : q # r => List(q, m, E) = List(q, m, D)
  BY <1>4 DEF List
<1>7. List(r, n, E) = Append(List(r, n, D), x)
  BY <1>1, <1>2, <1>3, <1>5, ListGrows
<1>8. Sorted(List(r, n, D), Below(r, n) \cap D)
  BY <1>1, ListFacts
<1> QED
  BY <1>3, <1>4, <1>6, <1>7, <1>8 DEF D, E, x, n

LEMMA NoSchemaOnExit ==
  ASSUME NEW r, Leaving(r), r \in Typeds \cup {"operation", "signal", "struct"}
  PROVE  Kept("schema", seen, Open \ {Entered}) = {}
<1> DEFINE P == Open \ {Entered}
<1> SUFFICES ASSUME NEW i \in Kept("schema", seen, P) PROVE FALSE
  OBVIOUS
<1> DEFINE p == tree[i].parent
<1>1. TreeDone /\ OnPath /\ tree[Entered].rule = r /\ Entered \in Open
  BY LeavingFacts
<1>2. p \in P /\ p \in Open /\ tree[p].rule \in Typeds
  <2>1. i \in Kept("schema", seen, Open) /\ p \in P
    BY DEF Kept
  <2> QED
    BY <1>1, <2>1, KeptFacts
<1>3. Rank(tree[p].rule) < Rank(r)
  BY <1>2, LeavingOpen
<1> HIDE DEF p
<1>4. CASE r \in Typeds
  BY <1>1, <1>2, <1>4, OneTyped
<1>5. CASE r \in {"operation", "signal"}
  <2>1. tree[p].rule \in {"param", "return"}
    BY <1>1, <1>2, <1>5, OneTyped
  <2> QED
    BY <1>3, <1>5, <2>1 DEF Rank
<1>6. CASE r = "struct"
  BY <1>2, <1>3, <1>6 DEF Rank, Typeds
<1> QED
  BY <1>4, <1>5, <1>6

LEMMA NoReturnOnExit ==
  ASSUME Leaving("operation")
  PROVE  Kept("return", seen, Open \ {Entered}) = {}
<1> SUFFICES ASSUME NEW i \in Kept("return", seen, Open \ {Entered}) PROVE FALSE
  OBVIOUS
<1>1. TreeDone /\ OnPath
  BY LeavingFacts
<1>2. tree[i].parent \in Open \ {Entered} /\ i \in Kept("return", seen, Open)
  BY DEF Kept
<1>3. tree[tree[i].parent].rule = "operation"
  BY <1>1, <1>2, KeptFacts
<1> QED
  BY <1>2, <1>3, LeavingOpen

(* The schema of the node that is left.                                    *)
LEMMA SchemaOnExit ==
  ASSUME NEW r, Leaving(r), r \in Typeds
  PROVE  /\ errors = 0 => o.schema # Nil
         /\ o.schema # Nil => /\ o.schema = SchemaAt(Entered)
                              /\ \E j \in 2 .. Len(tree) : tree[j].parent = Entered /\ tree[j].rule = "schema"
<1> DEFINE x == Entered
<1>1. /\ TreeDone /\ OnPath /\ Readable /\ FieldsFit(o, seen, Open) /\ tree[x].rule = r
      /\ x \in Open /\ x \in 1 .. Len(tree)
  BY LeavingFacts
<1>2. Below("schema", x) \subseteq Walked(seen, Open)
  BY LeavingOpen
<1>3. ASSUME errors = 0 PROVE o.schema # Nil
  <2>1. HasCalled(x)
    BY <1>1, <1>3 DEF TreeDone, Always, Typeds
  <2>2. PICK i \in 2 .. Len(tree) : tree[i].parent = x /\ Once(r, tree[i].rule)
    BY <1>1, <2>1 DEF HasCalled, CallsOnce
  <2>3. tree[i].rule = "schema"
    BY <2>2 DEF Once, Typeds
  <2>4. i \in Below("schema", x)
    BY <1>1, <2>2, <2>3, BelowFacts, OwnerFacts
  <2>5. i \in Kept("schema", seen, Open)
    BY <1>1, <1>2, <2>2, <2>3, <2>4 DEF Kept, Walked
  <2>6. o.schema \in Schemas
    BY <1>1, <2>5, FieldsTyped
  <2> QED
    BY <2>6, NilAssumption
<1>4. ASSUME o.schema # Nil
      PROVE  /\ o.schema = SchemaAt(x)
             /\ \E j \in 2 .. Len(tree) : tree[j].parent = x /\ tree[j].rule = "schema"
  <2>1. SchemaIsKept(o, seen, Open)
    BY <1>1 DEF FieldsFit
  <2>2. PICK i : i \in Kept("schema", seen, Open)
    BY <1>4, <2>1 DEF SchemaIsKept
  <2>3. /\ i \in Below("schema", tree[i].parent)
        /\ tree[i].parent \in Open /\ tree[tree[i].parent].rule \in Typeds
    BY <1>1, <2>2, KeptFacts
  <2>4. tree[i].parent = x
    BY <1>1, <2>3, OneTyped
  <2>5. o.schema = SchemaSoFar(seen, i)
    BY <2>1, <2>2 DEF SchemaIsKept
  <2>6. SchemaSoFar(seen, i) = SchemaAt(x)
    BY <1>1, <1>2, <2>3, <2>4, SchemaAtFacts
  <2>7. i \in 2 .. Len(tree) /\ tree[i].rule = "schema"
    BY <1>1, <2>3, BelowFacts
  <2> QED
    BY <2>4, <2>5, <2>6, <2>7
<1> QED
  BY <1>3, <1>4

(* What the node that is left has.                                         *)
LEMMA LeavingList ==
  ASSUME NEW r, Leaving(r)
  PROVE  \A q : List(q, Entered, Walked(seen, Open)) = Under(q, Entered)
BY LeavingFacts, LeavingOpen, ListFacts

(* A context that joins a list of the module.                              *)
LEMMA ModuleGrows ==
  ASSUME NEW r, Leaving(r), Owner(Entered) = 1, NEW g,
         \/ r = "extern" /\ g.module = [o.module EXCEPT !.externs = Append(@, ExternAt(Entered))]
         \/ r = "interface" /\ g.module = [o.module EXCEPT !.interfaces = Append(@, InterfaceAt(Entered))]
         \/ r = "struct" /\ g.module = [o.module EXCEPT !.structs = Append(@, StructAt(Entered))]
         \/ r = "enum" /\ g.module = [o.module EXCEPT !.enums = Append(@, EnumAt(Entered))]
  PROVE  ModuleFits(g, seen, Open \ {Entered})
<1> DEFINE x == Entered
           P == Open \ {x}
           D == Walked(seen, Open)
           E == Walked(seen, P)
           m == ModuleSoFar(seen, Open)
<1>1. FieldsFit(o, seen, Open) /\ seen >= 3 /\ x > 3 /\ seen \in Nat /\ x \in 1 .. seen
  BY LeavingFacts DEF Wrappers
<1>2. /\ \A q, n : q # r => List(q, n, E) = List(q, n, D)
      /\ List(r, 1, E) = Append(List(r, 1, D), x)
      /\ Sorted(List(r, 1, D), Below(r, 1) \cap D)
  BY ListOnExit DEF Wrappers
<1>3. m = o.module /\ (3 \in P <=> 3 \in Open) /\ ~ (seen < 3)
  BY <1>1 DEF FieldsFit, ModuleFits
<1>4. /\ m.externs = Map(List("extern", 1, D), ExternAt)
      /\ m.interfaces = Map(List("interface", 1, D), InterfaceAt)
      /\ m.structs = Map(List("struct", 1, D), StructAt)
      /\ m.enums = Map(List("enum", 1, D), EnumAt)
  BY DEF ModuleSoFar
<1> HIDE DEF P, D, E, m
<1>5. /\ r # "extern" => List("extern", 1, E) = List("extern", 1, D)
      /\ r # "interface" => List("interface", 1, E) = List("interface", 1, D)
      /\ r # "struct" => List("struct", 1, E) = List("struct", 1, D)
      /\ r # "enum" => List("enum", 1, E) = List("enum", 1, D)
  BY <1>2
<1>6. g.module = ModuleSoFar(seen, P)
  <2>1. CASE r = "extern"
    <3>1. Map(List("extern", 1, E), ExternAt) = Append(m.externs, ExternAt(x))
      <4>1. /\ List("extern", 1, E) = Append(List("extern", 1, D), x)
            /\ Sorted(List("extern", 1, D), Below("extern", 1) \cap D)
        BY <1>2, <2>1
      <4>2. Map(Append(List("extern", 1, D), x), ExternAt) = Append(Map(List("extern", 1, D), ExternAt), ExternAt(x))
        BY <4>1, ExternList
      <4> QED
        BY <1>4, <4>1, <4>2
    <3>2. g.module = [m EXCEPT !.externs = Map(List("extern", 1, E), ExternAt)]
      BY <1>3, <2>1, <3>1
    <3> QED
      BY <1>3, <1>5, <2>1, <3>2, ZenonT(30) DEF ModuleSoFar, D, E, m
  <2>2. CASE r = "interface"
    <3>1. Map(List("interface", 1, E), InterfaceAt) = Append(m.interfaces, InterfaceAt(x))
      <4>1. /\ List("interface", 1, E) = Append(List("interface", 1, D), x)
            /\ Sorted(List("interface", 1, D), Below("interface", 1) \cap D)
        BY <1>2, <2>2
      <4>2. Map(Append(List("interface", 1, D), x), InterfaceAt) = Append(Map(List("interface", 1, D), InterfaceAt), InterfaceAt(x))
        BY <4>1, InterfaceList
      <4> QED
        BY <1>4, <4>1, <4>2
    <3>2. g.module = [m EXCEPT !.interfaces = Map(List("interface", 1, E), InterfaceAt)]
      BY <1>3, <2>2, <3>1
    <3> QED
      BY <1>3, <1>5, <2>2, <3>2, ZenonT(30) DEF ModuleSoFar, D, E, m
  <2>3. CASE r = "struct"
    <3>1. Map(List("struct", 1, E), StructAt) = Append(m.structs, StructAt(x))
      <4>1. /\ List("struct", 1, E) = Append(List("struct", 1, D), x)
            /\ Sorted(List("struct", 1, D), Below("struct", 1) \cap D)
        BY <1>2, <2>3
      <4>2. Map(Append(List("struct", 1, D), x), StructAt) = Append(Map(List("struct", 1, D), StructAt), StructAt(x))
        BY <4>1, StructList
      <4> QED
        BY <1>4, <4>1, <4>2
    <3>2. g.module = [m EXCEPT !.structs = Map(List("struct", 1, E), StructAt)]
      BY <1>3, <2>3, <3>1
    <3> QED
      BY <1>3, <1>5, <2>3, <3>2, ZenonT(30) DEF ModuleSoFar, D, E, m
  <2>4. CASE r = "enum"
    <3>1. Map(List("enum", 1, E), EnumAt) = Append(m.enums, EnumAt(x))
      <4>1. /\ List("enum", 1, E) = Append(List("enum", 1, D), x)
            /\ Sorted(List("enum", 1, D), Below("enum", 1) \cap D)
        BY <1>2, <2>4
      <4>2. Map(Append(List("enum", 1, D), x), EnumAt) = Append(Map(List("enum", 1, D), EnumAt), EnumAt(x))
        BY <4>1, EnumList
      <4> QED
        BY <1>4, <4>1, <4>2
    <3>2. g.module = [m EXCEPT !.enums = Map(List("enum", 1, E), EnumAt)]
      BY <1>3, <2>4, <3>1
    <3> QED
      BY <1>3, <1>5, <2>4, <3>2, ZenonT(30) DEF ModuleSoFar, D, E, m
  <2> QED
    BY <2>1, <2>2, <2>3, <2>4
<1> QED
  BY <1>3, <1>6 DEF ModuleFits, P

(* A context that joins a list of the interface.                           *)
LEMMA InterfaceGrows ==
  ASSUME NEW r, Leaving(r), tree[Owner(Entered)].rule = "interface", NEW g,
         \/ r = "property" /\ g.iface = [o.iface EXCEPT !.properties = Append(@, TypedAt(Entered))]
         \/ r = "operation" /\ g.iface = [o.iface EXCEPT !.operations = Append(@, OperationAt(Entered))]
         \/ r = "signal" /\ g.iface = [o.iface EXCEPT !.signals = Append(@, SignalAt(Entered))]
  PROVE  InterfaceFits(g, seen, Open \ {Entered})
<1> DEFINE x == Entered
           n == Owner(x)
           P == Open \ {x}
           D == Walked(seen, Open)
           E == Walked(seen, P)
           m == InterfaceSoFar(n, D)
<1>1. FieldsFit(o, seen, Open) /\ tree[x].rule = r /\ n \in Open
  BY LeavingFacts
<1>2. /\ \A q, p : q # r => List(q, p, E) = List(q, p, D)
      /\ List(r, n, E) = Append(List(r, n, D), x)
      /\ Sorted(List(r, n, D), Below(r, n) \cap D)
  <2>1. r \notin Wrappers \cup {"document"}
    BY DEF Wrappers
  <2> QED
    BY <2>1, ListOnExit
<1>3. n \in P /\ \A p \in P : tree[p].rule = "interface" => p = n
  BY <1>1, LeavingOpen
<1>4. m = o.iface
  BY <1>1 DEF FieldsFit, InterfaceFits, Held
<1>5. /\ m.properties = Map(List("property", n, D), TypedAt)
      /\ m.operations = Map(List("operation", n, D), OperationAt)
      /\ m.signals = Map(List("signal", n, D), SignalAt)
  BY DEF InterfaceSoFar
<1>6. /\ r # "property" => List("property", n, E) = List("property", n, D)
      /\ r # "operation" => List("operation", n, E) = List("operation", n, D)
      /\ r # "signal" => List("signal", n, E) = List("signal", n, D)
  BY <1>2
<1> HIDE DEF n, P, D, E, m
<1>7. g.iface = InterfaceSoFar(n, E)
  <2>1. CASE r = "property"
    <3>1. /\ List("property", n, E) = Append(List("property", n, D), x)
          /\ Sorted(List("property", n, D), Below("property", n) \cap D)
      BY <1>2, <2>1
    <3>2. Map(List("property", n, E), TypedAt) = Append(m.properties, TypedAt(x))
      <4>1. Map(Append(List("property", n, D), x), TypedAt) = Append(Map(List("property", n, D), TypedAt), TypedAt(x))
        BY <3>1, TypedList
      <4> QED
        BY <1>5, <3>1, <4>1
    <3>3. g.iface = [m EXCEPT !.properties = Map(List("property", n, E), TypedAt)]
      BY <1>4, <2>1, <3>2
    <3> QED
      BY <1>6, <2>1, <3>3 DEF InterfaceSoFar, m
  <2>2. CASE r = "operation"
    <3>1. /\ List("operation", n, E) = Append(List("operation", n, D), x)
          /\ Sorted(List("operation", n, D), Below("operation", n) \cap D)
      BY <1>2, <2>2
    <3>2. Map(List("operation", n, E), OperationAt) = Append(m.operations, OperationAt(x))
      <4>1. Map(Append(List("operation", n, D), x), OperationAt) = Append(Map(List("operation", n, D), OperationAt), OperationAt(x))
        BY <3>1, OperationList
      <4> QED
        BY <1>5, <3>1, <4>1
    <3>3. g.iface = [m EXCEPT !.operations = Map(List("operation", n, E), OperationAt)]
      BY <1>4, <2>2, <3>2
    <3> QED
      BY <1>6, <2>2, <3>3 DEF InterfaceSoFar, m
  <2>3. CASE r = "signal"
    <3>1. /\ List("signal", n, E) = Append(List("signal", n, D), x)
          /\ Sorted(List("signal", n, D), Below("signal", n) \cap D)
      BY <1>2, <2>3
    <3>2. Map(List("signal", n, E), SignalAt) = Append(m.signals, SignalAt(x))
      <4>1. Map(Append(List("signal", n, D), x), SignalAt) = Append(Map(List("signal", n, D), SignalAt), SignalAt(x))
        BY <3>1, SignalList
      <4> QED
        BY <1>5, <3>1, <4>1
    <3>3. g.iface = [m EXCEPT !.signals = Map(List("signal", n, E), SignalAt)]
      BY <1>4, <2>3, <3>2
    <3> QED
      BY <1>6, <2>3, <3>3 DEF InterfaceSoFar, m
  <2> QED
    BY <2>1, <2>2, <2>3
<1> QED
  BY <1>1, <1>3, <1>7 DEF InterfaceFits, Held, E, P, n

----------------
(* The fields after each Exit handler. *)

LEMMA ExitExternFits ==
  ASSUME Leaving("extern")
  PROVE  /\ o.module # Nil
         /\ FieldsFit([Attach("module", "externs", [o.extern EXCEPT !.metas = Metas(Entered)])
                      EXCEPT !.extern = Nil],
                      seen, Open \ {Entered})
<1> DEFINE x == Entered
           n == Owner(x)
           P == Open \ {x}
           node == [o.extern EXCEPT !.metas = Metas(x)]
           g == [Attach("module", "externs", [o.extern EXCEPT !.metas = Metas(Entered)])
                      EXCEPT !.extern = Nil]
<1>1. /\ TreeDone /\ OnPath /\ Readable /\ FieldsFit(o, seen, Open) /\ IsFields(o)
      /\ tree[x].rule = "extern" /\ seen \in Nat /\ seen >= 3
      /\ x \in Open /\ x \in 2 .. Len(tree) /\ n \in Open
  BY LeavingFacts
<1>2. \A p \in Open : tree[p].rule = "extern" => p = x
  BY LeavingOpen
<1>4. n = 1
  BY <1>1, OwnerFacts
<1>5. o.module # Nil
  <2>1. o.module \in Modules
    BY <1>1, <1>4, FieldsTyped DEF In
  <2> QED
    BY <2>1, NilAssumption
<1>6. node = ExternAt(x)
  <2>1. o.extern = NewExtern(tree[x].name)
    BY <1>1 DEF FieldsFit, ExternFits, Held
  <2> QED
    BY <2>1 DEF NewExtern, ExternAt
<1>7. /\ IsFields(g) /\ g.module = [o.module EXCEPT !.externs = Append(@, node)]
      /\ g.extern = Nil
      /\ \A f \in FieldNames \ {"module", "extern"} : g[f] = o[f]
  BY <1>1 DEF IsFields, FieldNames, Attach
<1>8. FitOnExit(o, g, "extern", seen, P)
  BY LeavingFrame
<1> HIDE DEF g
<1>9. ExternFits(g, P)
  BY <1>2, <1>7 DEF ExternFits, Held
<1>10. ModuleFits(g, seen, P)
  BY <1>4, <1>6, <1>7, ModuleGrows
<1>11. FieldsFit(g, seen, P)
  <2> HIDE DEF P
  <2> QED
    BY <1>7, <1>8, <1>9, <1>10, AllFit DEF FitOnExit, FieldNames
<1> QED
  BY <1>5, <1>11 DEF g

LEMMA ExitInterfaceFits ==
  ASSUME Leaving("interface")
  PROVE  /\ o.module # Nil
         /\ FieldsFit([Attach("module", "interfaces", [o.iface EXCEPT !.metas = Metas(Entered)])
                      EXCEPT !.iface = Nil],
                      seen, Open \ {Entered})
<1> DEFINE x == Entered
           n == Owner(x)
           P == Open \ {x}
           D == Walked(seen, Open)
           node == [o.iface EXCEPT !.metas = Metas(x)]
           g == [Attach("module", "interfaces", [o.iface EXCEPT !.metas = Metas(Entered)])
                      EXCEPT !.iface = Nil]
<1>1. /\ TreeDone /\ OnPath /\ Readable /\ FieldsFit(o, seen, Open) /\ IsFields(o)
      /\ tree[x].rule = "interface" /\ seen \in Nat /\ seen >= 3
      /\ x \in Open /\ x \in 2 .. Len(tree) /\ n \in Open
  BY LeavingFacts
<1>2. \A p \in Open : tree[p].rule = "interface" => p = x
  BY LeavingOpen
<1>4. n = 1
  BY <1>1, OwnerFacts
<1>5. o.module # Nil
  <2>1. o.module \in Modules
    BY <1>1, <1>4, FieldsTyped DEF In
  <2> QED
    BY <2>1, NilAssumption
<1>6. node = InterfaceAt(x)
  <2>1. o.iface = InterfaceSoFar(x, D)
    BY <1>1 DEF FieldsFit, InterfaceFits, Held
  <2>2. \A q : List(q, x, D) = Under(q, x)
    BY LeavingList
  <2> HIDE DEF D
  <2> QED
    BY <2>1, <2>2 DEF InterfaceSoFar, InterfaceAt
<1>7. /\ IsFields(g) /\ g.module = [o.module EXCEPT !.interfaces = Append(@, node)]
      /\ g.iface = Nil
      /\ \A f \in FieldNames \ {"module", "iface"} : g[f] = o[f]
  BY <1>1 DEF IsFields, FieldNames, Attach
<1>8. FitOnExit(o, g, "interface", seen, P)
  BY LeavingFrame
<1> HIDE DEF g, D
<1>9. InterfaceFits(g, seen, P)
  BY <1>2, <1>7 DEF InterfaceFits, Held
<1>10. ModuleFits(g, seen, P)
  BY <1>4, <1>6, <1>7, ModuleGrows
<1>11. FieldsFit(g, seen, P)
  <2> HIDE DEF P
  <2> QED
    BY <1>7, <1>8, <1>9, <1>10, AllFit DEF FitOnExit, FieldNames
<1> QED
  BY <1>5, <1>11 DEF g

LEMMA ExitStructFits ==
  ASSUME Leaving("struct")
  PROVE  /\ o.struct # Nil
         /\ FieldsFit([Attach("module", "structs", o.struct) EXCEPT !.schema = Nil, !.struct = Nil],
                      seen, Open \ {Entered})
<1> DEFINE x == Entered
           n == Owner(x)
           P == Open \ {x}
           D == Walked(seen, Open)
           node == o.struct
           g == [Attach("module", "structs", o.struct) EXCEPT !.schema = Nil, !.struct = Nil]
<1>1. /\ TreeDone /\ OnPath /\ Readable /\ FieldsFit(o, seen, Open) /\ IsFields(o)
      /\ tree[x].rule = "struct" /\ seen \in Nat /\ seen >= 3
      /\ x \in Open /\ x \in 2 .. Len(tree) /\ n \in Open
  BY LeavingFacts
<1>2. \A p \in Open : tree[p].rule = "struct" => p = x
  BY LeavingOpen
<1>4. n = 1
  BY <1>1, OwnerFacts
<1>5. o.struct # Nil
  <2>1. o.struct \in Structs
    BY <1>1, <1>4, FieldsTyped DEF In
  <2> QED
    BY <2>1, NilAssumption
<1>6. node = StructAt(x)
  <2>1. o.struct = StructSoFar(x, D)
    BY <1>1 DEF FieldsFit, StructFits, Held
  <2>2. \A q : List(q, x, D) = Under(q, x)
    BY LeavingList
  <2> HIDE DEF D
  <2> QED
    BY <2>1, <2>2 DEF StructSoFar, StructAt
<1>7. /\ IsFields(g) /\ g.module = [o.module EXCEPT !.structs = Append(@, node)]
      /\ g.struct = Nil /\ g.schema = Nil
      /\ \A f \in FieldNames \ {"module", "struct", "schema"} : g[f] = o[f]
  BY <1>1 DEF IsFields, FieldNames, Attach
<1>8. FitOnExit(o, g, "struct", seen, P)
  BY LeavingFrame
<1> HIDE DEF g, D
<1>9. StructFits(g, seen, P)
  BY <1>2, <1>7 DEF StructFits, Held
<1>10. ModuleFits(g, seen, P)
  BY <1>4, <1>6, <1>7, ModuleGrows
<1>11. SchemaIsKept(g, seen, P)
  BY <1>7, NoSchemaOnExit DEF SchemaIsKept, Typeds
<1>12. FieldsFit(g, seen, P)
  <2> HIDE DEF P
  <2> QED
    BY <1>7, <1>8, <1>9, <1>10, <1>11, AllFit DEF FitOnExit, FieldNames
<1> QED
  BY <1>5, <1>12 DEF g

LEMMA ExitEnumFits ==
  ASSUME Leaving("enum")
  PROVE  /\ o.enum # Nil
         /\ FieldsFit([Attach("module", "enums", [o.enum EXCEPT !.metas = Metas(Entered)])
                      EXCEPT !.running = 0, !.enum = Nil],
                      seen, Open \ {Entered})
<1> DEFINE x == Entered
           n == Owner(x)
           P == Open \ {x}
           D == Walked(seen, Open)
           node == [o.enum EXCEPT !.metas = Metas(x)]
           g == [Attach("module", "enums", [o.enum EXCEPT !.metas = Metas(Entered)])
                      EXCEPT !.running = 0, !.enum = Nil]
<1>1. /\ TreeDone /\ OnPath /\ Readable /\ FieldsFit(o, seen, Open) /\ IsFields(o)
      /\ tree[x].rule = "enum" /\ seen \in Nat /\ seen >= 3
      /\ x \in Open /\ x \in 2 .. Len(tree) /\ n \in Open
  BY LeavingFacts
<1>2. \A p \in Open : tree[p].rule = "enum" => p = x
  BY LeavingOpen
<1>4. n = 1
  BY <1>1, OwnerFacts
<1>5. o.enum # Nil
  <2>1. o.enum \in Enums
    BY <1>1, <1>4, FieldsTyped DEF In
  <2> QED
    BY <2>1, NilAssumption
<1>6. node = EnumAt(x)
  <2>1. o.enum = EnumSoFar(x, D)
    BY <1>1 DEF FieldsFit, EnumFits, Held
  <2>2. \A q : List(q, x, D) = Under(q, x)
    BY LeavingList
  <2> HIDE DEF D
  <2> QED
    BY <2>1, <2>2 DEF EnumSoFar, EnumAt
<1>7. /\ IsFields(g) /\ g.module = [o.module EXCEPT !.enums = Append(@, node)]
      /\ g.enum = Nil /\ g.running = 0
      /\ \A f \in FieldNames \ {"module", "enum", "running"} : g[f] = o[f]
  BY <1>1 DEF IsFields, FieldNames, Attach
<1>8. FitOnExit(o, g, "enum", seen, P)
  BY LeavingFrame
<1> HIDE DEF g, D
<1>9. EnumFits(g, seen, P)
  BY <1>2, <1>7 DEF EnumFits, Held
<1>10. ModuleFits(g, seen, P)
  BY <1>4, <1>6, <1>7, ModuleGrows
<1>11. RunningFits(g, seen, P)
  <2>1. \A p \in P : tree[p].rule # "enum"
    BY <1>2
  <2> QED
    BY <1>7, <2>1 DEF RunningFits
<1>12. FieldsFit(g, seen, P)
  <2> HIDE DEF P
  <2> QED
    BY <1>7, <1>8, <1>9, <1>10, <1>11, AllFit DEF FitOnExit, FieldNames
<1> QED
  BY <1>5, <1>12 DEF g

LEMMA ExitSignalFits ==
  ASSUME Leaving("signal")
  PROVE  FieldsFit([Attach("iface", "signals", [o.signal EXCEPT !.metas = Metas(Entered)])
                      EXCEPT !.schema = Nil, !.signal = Nil],
                      seen, Open \ {Entered})
<1> DEFINE x == Entered
           n == Owner(x)
           P == Open \ {x}
           D == Walked(seen, Open)
           node == [o.signal EXCEPT !.metas = Metas(x)]
           g == [Attach("iface", "signals", [o.signal EXCEPT !.metas = Metas(Entered)])
                      EXCEPT !.schema = Nil, !.signal = Nil]
<1>1. /\ TreeDone /\ OnPath /\ Readable /\ FieldsFit(o, seen, Open) /\ IsFields(o)
      /\ tree[x].rule = "signal" /\ seen \in Nat
      /\ x \in Open /\ x \in 2 .. Len(tree) /\ n \in Open
  BY LeavingFacts
<1>2. \A p \in Open : tree[p].rule = "signal" => p = x
  BY LeavingOpen
<1>4. tree[n].rule = "interface"
  BY <1>1, OwnerFacts
<1>6. node = SignalAt(x)
  <2>1. o.signal = SignalSoFar(x, D)
    BY <1>1 DEF FieldsFit, SignalFits, Held
  <2>2. \A q : List(q, x, D) = Under(q, x)
    BY LeavingList
  <2> HIDE DEF D
  <2> QED
    BY <2>1, <2>2 DEF SignalSoFar, SignalAt
<1>7. /\ IsFields(g) /\ g.iface = [o.iface EXCEPT !.signals = Append(@, node)]
      /\ g.signal = Nil /\ g.schema = Nil
      /\ \A f \in FieldNames \ {"iface", "signal", "schema"} : g[f] = o[f]
  BY <1>1 DEF IsFields, FieldNames, Attach
<1>8. FitOnExit(o, g, "signal", seen, P)
  BY LeavingFrame
<1> HIDE DEF g, D
<1>9. SignalFits(g, seen, P)
  BY <1>2, <1>7 DEF SignalFits, Held
<1>10. InterfaceFits(g, seen, P)
  BY <1>4, <1>6, <1>7, InterfaceGrows
<1>11. SchemaIsKept(g, seen, P)
  BY <1>7, NoSchemaOnExit DEF SchemaIsKept, Typeds
<1>12. FieldsFit(g, seen, P)
  <2> HIDE DEF P
  <2> QED
    BY <1>7, <1>8, <1>9, <1>10, <1>11, AllFit DEF FitOnExit, FieldNames
<1> QED
  BY <1>12 DEF g

LEMMA ExitEnumMemberFits ==
  ASSUME Leaving("member")
  PROVE  /\ o.member # Nil
         /\ FieldsFit([Attach("enum", "members", [o.member EXCEPT !.metas = Metas(Entered)])
                      EXCEPT !.member = Nil],
                      seen, Open \ {Entered})
<1> DEFINE x == Entered
           n == Owner(x)
           P == Open \ {x}
           D == Walked(seen, Open)
           E == Walked(seen, P)
           node == [o.member EXCEPT !.metas = Metas(x)]
           g == [Attach("enum", "members", [o.member EXCEPT !.metas = Metas(Entered)])
                      EXCEPT !.member = Nil]
<1>1. /\ TreeDone /\ OnPath /\ Readable /\ FieldsFit(o, seen, Open) /\ IsFields(o)
      /\ tree[x].rule = "member" /\ seen \in Nat /\ seen >= 3 /\ x > 3
      /\ x \in 1 .. seen /\ x \in Open /\ x \in 2 .. Len(tree) /\ n \in Open
  BY LeavingFacts
<1>2. /\ \A p \in Open : tree[p].rule = "member" => p = x
      /\ \A p \in Open : tree[p].rule = tree[n].rule => p = n
  BY LeavingOpen
<1>3. /\ \A q, m : q # "member" => List(q, m, E) = List(q, m, D)
      /\ List("member", n, E) = Append(List("member", n, D), x)
      /\ Sorted(List("member", n, D), Below("member", n) \cap D)
  BY ListOnExit DEF Wrappers
<1>4. tree[n].rule = "enum"
  BY <1>1, OwnerFacts
<1>5. o.member # Nil
  <2>1. In("member")
    BY <1>1 DEF In
  <2>2. o.member \in Members
    BY <1>1, <2>1, FieldsTyped
  <2> QED
    BY <2>2, NilAssumption
<1>6. node = MemberAt(x)
  <2>1. o.member = NewEnumMember(tree[x].name, MemberAt(x).value)
    BY <1>1 DEF FieldsFit, MemberFits, Held
  <2> DEFINE v == MemberAt(x).value
  <2>2. MemberAt(x) = [name |-> tree[x].name, value |-> v, metas |-> Metas(x)]
    BY DEF MemberAt
  <2> HIDE DEF v
  <2> QED
    BY <2>1, <2>2 DEF NewEnumMember, v
<1>7. /\ IsFields(g) /\ g.enum = [o.enum EXCEPT !.members = Append(@, node)]
      /\ g.member = Nil
      /\ \A f \in FieldNames \ {"enum", "member"} : g[f] = o[f]
  BY <1>1 DEF IsFields, FieldNames, Attach
<1>8. FitOnExit(o, g, "member", seen, P)
  BY LeavingFrame
<1> HIDE DEF g, D, E
<1>9. MemberFits(g, P)
  BY <1>2, <1>7 DEF MemberFits, Held
<1>10. EnumFits(g, seen, P)
  <2>1. o.enum = EnumSoFar(n, D)
    BY <1>1, <1>4 DEF FieldsFit, EnumFits, Held, D
  <2>2. Map(List("member", n, E), MemberAt) = Append(Map(List("member", n, D), MemberAt), MemberAt(x))
    BY <1>3, MemberList
  <2>3. g.enum = [EnumSoFar(n, D) EXCEPT !.members = Append(@, MemberAt(x))]
    BY <1>6, <1>7, <2>1
  <2>4. EnumSoFar(n, D).members = Map(List("member", n, D), MemberAt)
    BY DEF EnumSoFar
  <2> HIDE DEF n, x
  <2>5. g.enum = [EnumSoFar(n, D) EXCEPT !.members = Map(List("member", n, E), MemberAt)]
    BY <2>2, <2>3, <2>4
  <2>6. g.enum = EnumSoFar(n, E)
    BY <1>3, <2>5 DEF EnumSoFar
  <2>7. \A p \in P : tree[p].rule = "enum" => p = n
    BY <1>2, <1>4
  <2>8. n \in P
    BY <1>1, <1>4
  <2> HIDE DEF P
  <2> QED
    BY <1>4, <2>6, <2>7, <2>8 DEF EnumFits, Held, E
<1>11. FieldsFit(g, seen, P)
  <2> HIDE DEF P
  <2> QED
    BY <1>7, <1>8, <1>9, <1>10, AllFit DEF FitOnExit, FieldNames
<1> QED
  BY <1>5, <1>11 DEF g

LEMMA ExitOperationFits ==
  ASSUME Leaving("operation")
  PROVE  FieldsFit([Attach("iface", "operations",
                              [o.operation EXCEPT !.return = o.return, !.metas = Metas(Entered)])
                      EXCEPT !.operation = Nil, !.param = Nil, !.return = Nil, !.schema = Nil],
                      seen, Open \ {Entered})
<1> DEFINE x == Entered
           n == Owner(x)
           P == Open \ {x}
           D == Walked(seen, Open)
           node == [o.operation EXCEPT !.return = o.return, !.metas = Metas(x)]
           g == [Attach("iface", "operations",
                              [o.operation EXCEPT !.return = o.return, !.metas = Metas(Entered)])
                      EXCEPT !.operation = Nil, !.param = Nil, !.return = Nil, !.schema = Nil]
<1>1. /\ TreeDone /\ OnPath /\ Readable /\ FieldsFit(o, seen, Open) /\ IsFields(o)
      /\ tree[x].rule = "operation" /\ seen \in Nat
      /\ x \in Open /\ x \in 2 .. Len(tree) /\ n \in Open
  BY LeavingFacts
<1>2. /\ \A p \in Open : tree[p].rule = "operation" => p = x
      /\ \A q : Below(q, x) \subseteq D
  BY LeavingOpen
<1>4. tree[n].rule = "interface"
  BY <1>1, OwnerFacts
<1>6. node = OperationAt(x)
  <2>1. o.operation = OperationSoFar(x, D) /\ ReturnIsKept(o, seen, Open)
    BY <1>1 DEF FieldsFit, OperationFits, Held
  <2>2. List("param", x, D) = Under("param", x)
    BY LeavingList
  <2>3. o.return = IF Below("return", x) = {} THEN Nil ELSE TypedAt(The(Below("return", x)))
    <3>1. ASSUME NEW i \in Kept("return", seen, Open)
          PROVE  i \in Below("return", x)
      <4>1. i \in Below("return", tree[i].parent) /\ tree[tree[i].parent].rule = "operation"
            /\ tree[i].parent \in Open
        BY <1>1, <3>1, KeptFacts
      <4> QED
        BY <1>2, <4>1
    <3>2. CASE Below("return", x) = {}
      BY <2>1, <3>1, <3>2 DEF ReturnIsKept
    <3>3. CASE Below("return", x) # {}
      <4> DEFINE i == The(Below("return", x))
      <4>1. i \in Below("return", x)
        BY <3>3 DEF The
      <4>2. i \in D /\ tree[i].rule = "return" /\ i \in 2 .. Len(tree) /\ Owner(i) = x
        BY <1>1, <1>2, <4>1, BelowFacts
      <4> HIDE DEF i
      <4>3. tree[i].parent = x
        BY <1>1, <4>2, OwnerFacts
      <4>4. i \in Kept("return", seen, Open) /\ i \notin Open
        BY <1>1, <4>2, <4>3 DEF Kept, Walked
      <4>5. o.return = TypedAt(i)
        BY <2>1, <4>4 DEF ReturnIsKept
      <4> QED
        BY <3>3, <4>5 DEF i
    <3> QED
      BY <3>2, <3>3
  <2>4. node = [OperationSoFar(x, D) EXCEPT
                  !.return = IF Below("return", x) = {} THEN Nil
                             ELSE TypedAt(The(Below("return", x))),
                  !.metas = Metas(x)]
    BY <2>1, <2>3
  <2> HIDE DEF D, node
  <2> QED
    BY <2>2, <2>4 DEF OperationSoFar, OperationAt
<1>7. /\ IsFields(g) /\ g.iface = [o.iface EXCEPT !.operations = Append(@, node)]
      /\ g.operation = Nil /\ g.param = Nil /\ g.return = Nil /\ g.schema = Nil
      /\ \A f \in FieldNames \ {"iface", "operation", "param", "return", "schema"} : g[f] = o[f]
  BY <1>1 DEF IsFields, FieldNames, Attach
<1>8. FitOnExit(o, g, "operation", seen, P)
  BY LeavingFrame
<1> HIDE DEF g, D
<1>9. OperationFits(g, seen, P)
  BY <1>2, <1>7 DEF OperationFits, Held
<1>10. InterfaceFits(g, seen, P)
  BY <1>4, <1>6, <1>7, InterfaceGrows
<1>11. ParamFits(g, P)
  <2>1. \A p \in P : tree[p].rule # "param"
    BY LeavingOpen DEF Rank
  <2> QED
    BY <1>7, <2>1 DEF ParamFits, Held
<1>12. ReturnIsKept(g, seen, P)
  BY <1>7, NoReturnOnExit DEF ReturnIsKept
<1>13. SchemaIsKept(g, seen, P)
  BY <1>7, NoSchemaOnExit DEF SchemaIsKept, Typeds
<1>14. FieldsFit(g, seen, P)
  <2> HIDE DEF P
  <2> QED
    BY <1>7, <1>8, <1>9, <1>10, <1>11, <1>12, <1>13, AllFit DEF FitOnExit, FieldNames
<1> QED
  BY <1>14 DEF g

(* A typed node, once it is given its schema.                              *)
LEMMA TypedOnExit ==
  ASSUME NEW r \in {"property", "field"}, Leaving(r), o.schema # Nil,
         NEW t, t = NewTypedNode(tree[Entered].name, tree[Entered].also # Nil)
  PROVE  [t EXCEPT !.schema = o.schema, !.metas = Metas(Entered)] = TypedAt(Entered)
<1> DEFINE x == Entered
           ro == tree[x].also # Nil
           none == Schema("", "void")
           node == [t EXCEPT !.schema = o.schema, !.metas = Metas(x)]
<1>1. tree[x].rule # "return" /\ o.schema = SchemaAt(x)
  BY LeavingFacts, SchemaOnExit DEF Typeds
<1> HIDE DEF x
<1>2. TypedAt(x) = [name |-> tree[x].name, readonly |-> ro, schema |-> o.schema, metas |-> Metas(x)]
  BY <1>1 DEF TypedAt
<1> HIDE DEF ro
<1>3. t = [name |-> tree[x].name, readonly |-> ro, schema |-> none, metas |-> {}]
  BY DEF NewTypedNode, ro, x
<1> HIDE DEF none
<1> DEFINE q == [t EXCEPT !.schema = o.schema]
<1>4. q = [name |-> tree[x].name, readonly |-> ro, schema |-> o.schema, metas |-> {}]
  BY <1>3
<1>5. node = [q EXCEPT !.metas = Metas(x)]
  OBVIOUS
<1> HIDE DEF q, node
<1>6. node = [name |-> tree[x].name, readonly |-> ro, schema |-> o.schema, metas |-> Metas(x)]
  BY <1>4, <1>5
<1> QED
  BY <1>2, <1>6 DEF node, x

LEMMA ParamOnExit ==
  ASSUME Leaving("param"), o.schema # Nil
  PROVE  [o.param EXCEPT !.schema = o.schema] = TypedAt(Entered)
<1> DEFINE x == Entered
           node == [o.param EXCEPT !.schema = o.schema]
<1>1. /\ TreeDone /\ OnPath /\ Readable /\ FieldsFit(o, seen, Open)
      /\ tree[x].rule = "param" /\ x \in Open /\ x \in 1 .. Len(tree)
  BY LeavingFacts
<1> DEFINE ro == FALSE
           none == Schema("", "void")
<1>2. o.param = NewTypedNode(tree[x].name, ro)
  BY <1>1 DEF FieldsFit, ParamFits, Held
<1>3. o.schema = SchemaAt(x)
  BY SchemaOnExit DEF Typeds
<1>4. TypedAt(x) = [name |-> tree[x].name, readonly |-> ro, schema |-> SchemaAt(x), metas |-> {}]
  <2>1. Metas(x) = {} /\ (tree[x].also # Nil) = FALSE
    BY <1>1, MetasTyped
  <2>2. tree[x].rule # "return"
    BY <1>1
  <2> HIDE DEF x
  <2> QED
    BY <2>1, <2>2 DEF TypedAt
<1> HIDE DEF ro
<1>5. NewTypedNode(tree[x].name, ro) =
        [name |-> tree[x].name, readonly |-> ro, schema |-> none, metas |-> {}]
  BY DEF NewTypedNode
<1> HIDE DEF none
<1>6. o.param = [name |-> tree[x].name, readonly |-> ro, schema |-> none, metas |-> {}]
  BY <1>2, <1>5
<1> HIDE DEF x
<1>7. node = [name |-> tree[x].name, readonly |-> ro, schema |-> o.schema, metas |-> {}]
  BY <1>6
<1> QED
  BY <1>3, <1>4, <1>7 DEF x

LEMMA ExitPropertyFits ==
  ASSUME Leaving("property"), o.schema # Nil
  PROVE  FieldsFit([Attach("iface", "properties",
                              [o.property EXCEPT !.schema = o.schema, !.metas = Metas(Entered)])
                      EXCEPT !.schema = Nil, !.property = Nil],
                      seen, Open \ {Entered})
<1> DEFINE x == Entered
           n == Owner(x)
           P == Open \ {x}
           node == [o.property EXCEPT !.schema = o.schema, !.metas = Metas(x)]
           g == [Attach("iface", "properties",
                              [o.property EXCEPT !.schema = o.schema, !.metas = Metas(Entered)])
                      EXCEPT !.schema = Nil, !.property = Nil]
<1>1. /\ TreeDone /\ OnPath /\ Readable /\ FieldsFit(o, seen, Open) /\ IsFields(o)
      /\ tree[x].rule = "property" /\ seen \in Nat
      /\ x \in Open /\ x \in 2 .. Len(tree) /\ n \in Open
  BY LeavingFacts
<1>2. \A p \in Open : tree[p].rule = "property" => p = x
  BY LeavingOpen
<1>4. tree[n].rule = "interface"
  BY <1>1, OwnerFacts
<1>6. node = TypedAt(x)
  <2>1. o.property = NewTypedNode(tree[x].name, tree[x].also # Nil)
    BY <1>1 DEF FieldsFit, PropertyFits, Held
  <2> QED
    BY <2>1, TypedOnExit
<1>7. /\ IsFields(g) /\ g.iface = [o.iface EXCEPT !.properties = Append(@, node)]
      /\ g.property = Nil /\ g.schema = Nil
      /\ \A f \in FieldNames \ {"iface", "property", "schema"} : g[f] = o[f]
  BY <1>1 DEF IsFields, FieldNames, Attach
<1>8. FitOnExit(o, g, "property", seen, P)
  BY LeavingFrame
<1> HIDE DEF g
<1>9. PropertyFits(g, P)
  BY <1>2, <1>7 DEF PropertyFits, Held
<1>10. InterfaceFits(g, seen, P)
  BY <1>4, <1>6, <1>7, InterfaceGrows
<1>11. SchemaIsKept(g, seen, P)
  BY <1>7, NoSchemaOnExit DEF SchemaIsKept, Typeds
<1>12. FieldsFit(g, seen, P)
  <2> HIDE DEF P
  <2> QED
    BY <1>7, <1>8, <1>9, <1>10, <1>11, AllFit DEF FitOnExit, FieldNames
<1> QED
  BY <1>12 DEF g

LEMMA ExitStructFieldFits ==
  ASSUME Leaving("field"), o.schema # Nil
  PROVE  FieldsFit([Attach("struct", "fields",
                              [o.field EXCEPT !.schema = o.schema, !.metas = Metas(Entered)])
                      EXCEPT !.field = Nil, !.schema = Nil],
                      seen, Open \ {Entered})
<1> DEFINE x == Entered
           n == Owner(x)
           P == Open \ {x}
           D == Walked(seen, Open)
           E == Walked(seen, P)
           node == [o.field EXCEPT !.schema = o.schema, !.metas = Metas(x)]
           g == [Attach("struct", "fields",
                              [o.field EXCEPT !.schema = o.schema, !.metas = Metas(Entered)])
                      EXCEPT !.field = Nil, !.schema = Nil]
<1>1. /\ TreeDone /\ OnPath /\ Readable /\ FieldsFit(o, seen, Open) /\ IsFields(o)
      /\ tree[x].rule = "field" /\ seen \in Nat /\ seen >= 3 /\ x > 3
      /\ x \in 1 .. seen /\ x \in Open /\ x \in 2 .. Len(tree) /\ n \in Open
  BY LeavingFacts
<1>2. /\ \A p \in Open : tree[p].rule = "field" => p = x
      /\ \A p \in Open : tree[p].rule = tree[n].rule => p = n
  BY LeavingOpen
<1>3. /\ \A q, m : q # "field" => List(q, m, E) = List(q, m, D)
      /\ List("field", n, E) = Append(List("field", n, D), x)
      /\ Sorted(List("field", n, D), Below("field", n) \cap D)
  BY ListOnExit DEF Wrappers
<1>4. tree[n].rule = "struct"
  BY <1>1, OwnerFacts
<1>6. node = TypedAt(x)
  <2>1. o.field = NewTypedNode(tree[x].name, tree[x].also # Nil)
    BY <1>1 DEF FieldsFit, FieldFits, Held
  <2> QED
    BY <2>1, TypedOnExit
<1>7. /\ IsFields(g) /\ g.struct = [o.struct EXCEPT !.fields = Append(@, node)]
      /\ g.field = Nil /\ g.schema = Nil
      /\ \A f \in FieldNames \ {"struct", "field", "schema"} : g[f] = o[f]
  BY <1>1 DEF IsFields, FieldNames, Attach
<1>8. FitOnExit(o, g, "field", seen, P)
  BY LeavingFrame
<1> HIDE DEF g, D, E
<1>9. FieldFits(g, P)
  BY <1>2, <1>7 DEF FieldFits, Held
<1>10. StructFits(g, seen, P)
  <2>1. o.struct = StructSoFar(n, D)
    BY <1>1, <1>4 DEF FieldsFit, StructFits, Held, D
  <2>2. Map(List("field", n, E), TypedAt) = Append(Map(List("field", n, D), TypedAt), TypedAt(x))
    BY <1>3, TypedList
  <2>3. g.struct = [StructSoFar(n, D) EXCEPT !.fields = Append(@, TypedAt(x))]
    BY <1>6, <1>7, <2>1
  <2>4. StructSoFar(n, D).fields = Map(List("field", n, D), TypedAt)
    BY DEF StructSoFar
  <2> HIDE DEF n, x
  <2>5. g.struct = [StructSoFar(n, D) EXCEPT !.fields = Map(List("field", n, E), TypedAt)]
    BY <2>2, <2>3, <2>4
  <2>6. g.struct = StructSoFar(n, E)
    BY <1>3, <2>5 DEF StructSoFar
  <2>7. \A p \in P : tree[p].rule = "struct" => p = n
    BY <1>2, <1>4
  <2>8. n \in P
    BY <1>1, <1>4
  <2> HIDE DEF P
  <2> QED
    BY <1>4, <2>6, <2>7, <2>8 DEF StructFits, Held, E
<1>11. SchemaIsKept(g, seen, P)
  BY <1>7, NoSchemaOnExit DEF SchemaIsKept, Typeds
<1>12. FieldsFit(g, seen, P)
  <2> HIDE DEF P
  <2> QED
    BY <1>7, <1>8, <1>9, <1>10, <1>11, AllFit DEF FitOnExit, FieldNames
<1> QED
  BY <1>12 DEF g

LEMMA ExitParamOfOperationFits ==
  ASSUME Leaving("param"), o.schema # Nil, o.operation # Nil
  PROVE  FieldsFit([Attach("operation", "params", [o.param EXCEPT !.schema = o.schema])
                      EXCEPT !.param = Nil, !.schema = Nil],
                      seen, Open \ {Entered})
<1> DEFINE x == Entered
           n == Owner(x)
           P == Open \ {x}
           D == Walked(seen, Open)
           E == Walked(seen, P)
           node == [o.param EXCEPT !.schema = o.schema]
           g == [Attach("operation", "params", [o.param EXCEPT !.schema = o.schema])
                      EXCEPT !.param = Nil, !.schema = Nil]
<1>1. /\ TreeDone /\ OnPath /\ Readable /\ FieldsFit(o, seen, Open) /\ IsFields(o)
      /\ tree[x].rule = "param" /\ seen \in Nat /\ seen >= 3 /\ x > 3
      /\ x \in 1 .. seen /\ x \in Open /\ x \in 2 .. Len(tree) /\ n \in Open
  BY LeavingFacts
<1>2. /\ \A p \in Open : tree[p].rule = "param" => p = x
      /\ \A p \in Open : tree[p].rule = tree[n].rule => p = n
  BY LeavingOpen
<1>3. /\ \A q, m : q # "param" => List(q, m, E) = List(q, m, D)
      /\ List("param", n, E) = Append(List("param", n, D), x)
      /\ Sorted(List("param", n, D), Below("param", n) \cap D)
  BY ListOnExit DEF Wrappers
<1>4. tree[n].rule = "operation"
  <2>1. tree[n].rule \in {"operation", "signal"}
    BY <1>1, OwnerFacts
  <2>2. PICK p \in Open : tree[p].rule = "operation"
    <3>1. ~ In("operation") => o.operation = Nil
      BY <1>1, FieldsTyped
    <3> QED
      BY <3>1 DEF In
  <2>3. p = n
    BY <1>1, <2>1, <2>2, OneTyped
  <2> QED
    BY <2>2, <2>3
<1>6. node = TypedAt(x)
  BY ParamOnExit
<1>7. /\ IsFields(g) /\ g.operation = [o.operation EXCEPT !.params = Append(@, node)]
      /\ g.param = Nil /\ g.schema = Nil
      /\ \A f \in FieldNames \ {"operation", "param", "schema"} : g[f] = o[f]
  BY <1>1 DEF IsFields, FieldNames, Attach
<1>8. FitOnExit(o, g, "param", seen, P)
  BY LeavingFrame
<1> HIDE DEF g, D, E
<1>9. ParamFits(g, P)
  BY <1>2, <1>7 DEF ParamFits, Held
<1>10. OperationFits(g, seen, P)
  <2>1. o.operation = OperationSoFar(n, D)
    BY <1>1, <1>4 DEF FieldsFit, OperationFits, Held, D
  <2>2. Map(List("param", n, E), TypedAt) = Append(Map(List("param", n, D), TypedAt), TypedAt(x))
    BY <1>3, TypedList
  <2>3. g.operation = [OperationSoFar(n, D) EXCEPT !.params = Append(@, TypedAt(x))]
    BY <1>6, <1>7, <2>1
  <2>4. OperationSoFar(n, D).params = Map(List("param", n, D), TypedAt)
    BY DEF OperationSoFar
  <2> HIDE DEF n, x
  <2>5. g.operation = [OperationSoFar(n, D) EXCEPT !.params = Map(List("param", n, E), TypedAt)]
    BY <2>2, <2>3, <2>4
  <2>6. g.operation = OperationSoFar(n, E)
    <3>1. Below("return", n) \cap E = Below("return", n) \cap D
      <4>1. \A q, m : q # "param" => Below(q, m) \cap E = Below(q, m) \cap D
        BY ListOnExit DEF Wrappers, D, E, P, x
      <4> HIDE DEF D, E
      <4> QED
        BY <4>1
    <3> QED
      BY <2>5, <3>1 DEF OperationSoFar
  <2>7. \A p \in P : tree[p].rule = "operation" => p = n
    BY <1>2, <1>4
  <2>8. n \in P
    BY <1>1, <1>4
  <2> HIDE DEF P
  <2> QED
    BY <1>4, <2>6, <2>7, <2>8 DEF OperationFits, Held, E
<1>11. SignalFits(g, seen, P)
  <2>1. \A p \in P : tree[p].rule # "signal"
    <3>1. \A p \in Open : tree[p].rule \in {"operation", "signal"} => p = n
      BY <1>1, <1>4, OneTyped
    <3> QED
      BY <1>4, <3>1
  <2>2. o.signal = Nil
    <3>1. \A p \in Open : tree[p].rule # "signal"
      BY <1>1, <2>1
    <3> QED
      BY <1>1, <3>1 DEF FieldsFit, SignalFits, Held
  <2> QED
    BY <1>7, <2>1, <2>2 DEF SignalFits, Held, FieldNames
<1>12. SchemaIsKept(g, seen, P)
  BY <1>7, NoSchemaOnExit DEF SchemaIsKept, Typeds
<1>13. FieldsFit(g, seen, P)
  <2> HIDE DEF P
  <2> QED
    BY <1>7, <1>8, <1>9, <1>10, <1>11, <1>12, AllFit DEF FitOnExit, FieldNames
<1> QED
  BY <1>13 DEF g

LEMMA ExitParamOfSignalFits ==
  ASSUME Leaving("param"), o.schema # Nil, o.operation = Nil
  PROVE  FieldsFit([Attach("signal", "params", [o.param EXCEPT !.schema = o.schema])
                      EXCEPT !.param = Nil, !.schema = Nil],
                      seen, Open \ {Entered})
<1> DEFINE x == Entered
           n == Owner(x)
           P == Open \ {x}
           D == Walked(seen, Open)
           E == Walked(seen, P)
           node == [o.param EXCEPT !.schema = o.schema]
           g == [Attach("signal", "params", [o.param EXCEPT !.schema = o.schema])
                      EXCEPT !.param = Nil, !.schema = Nil]
<1>1. /\ TreeDone /\ OnPath /\ Readable /\ FieldsFit(o, seen, Open) /\ IsFields(o)
      /\ tree[x].rule = "param" /\ seen \in Nat /\ seen >= 3 /\ x > 3
      /\ x \in 1 .. seen /\ x \in Open /\ x \in 2 .. Len(tree) /\ n \in Open
  BY LeavingFacts
<1>2. /\ \A p \in Open : tree[p].rule = "param" => p = x
      /\ \A p \in Open : tree[p].rule = tree[n].rule => p = n
  BY LeavingOpen
<1>3. /\ \A q, m : q # "param" => List(q, m, E) = List(q, m, D)
      /\ List("param", n, E) = Append(List("param", n, D), x)
      /\ Sorted(List("param", n, D), Below("param", n) \cap D)
  BY ListOnExit DEF Wrappers
<1>4. tree[n].rule = "signal"
  <2>1. tree[n].rule \in {"operation", "signal"}
    BY <1>1, OwnerFacts
  <2>2. tree[n].rule # "operation"
    <3>1. In("operation") => o.operation \in Operations
      BY <1>1, FieldsTyped
    <3>2. ~ In("operation")
      BY <3>1, NilAssumption
    <3> QED
      BY <1>1, <3>2 DEF In
  <2> QED
    BY <2>1, <2>2
<1>6. node = TypedAt(x)
  BY ParamOnExit
<1>7. /\ IsFields(g) /\ g.signal = [o.signal EXCEPT !.params = Append(@, node)]
      /\ g.param = Nil /\ g.schema = Nil
      /\ \A f \in FieldNames \ {"param", "signal", "schema"} : g[f] = o[f]
  BY <1>1 DEF IsFields, FieldNames, Attach
<1>8. FitOnExit(o, g, "param", seen, P)
  BY LeavingFrame
<1> HIDE DEF g, D, E
<1>9. ParamFits(g, P)
  BY <1>2, <1>7 DEF ParamFits, Held
<1>10. SignalFits(g, seen, P)
  <2>1. o.signal = SignalSoFar(n, D)
    BY <1>1, <1>4 DEF FieldsFit, SignalFits, Held, D
  <2>2. Map(List("param", n, E), TypedAt) = Append(Map(List("param", n, D), TypedAt), TypedAt(x))
    BY <1>3, TypedList
  <2>3. g.signal = [SignalSoFar(n, D) EXCEPT !.params = Append(@, TypedAt(x))]
    BY <1>6, <1>7, <2>1
  <2>4. SignalSoFar(n, D).params = Map(List("param", n, D), TypedAt)
    BY DEF SignalSoFar
  <2> HIDE DEF n, x
  <2>5. g.signal = [SignalSoFar(n, D) EXCEPT !.params = Map(List("param", n, E), TypedAt)]
    BY <2>2, <2>3, <2>4
  <2>6. g.signal = SignalSoFar(n, E)
    BY <1>3, <2>5 DEF SignalSoFar
  <2>7. \A p \in P : tree[p].rule = "signal" => p = n
    BY <1>2, <1>4
  <2>8. n \in P
    BY <1>1, <1>4
  <2> HIDE DEF P
  <2> QED
    BY <1>4, <2>6, <2>7, <2>8 DEF SignalFits, Held, E
<1>11. OperationFits(g, seen, P)
  <2>1. \A p \in P : tree[p].rule # "operation"
    <3>1. \A p \in Open : tree[p].rule \in {"operation", "signal"} => p = n
      BY <1>1, <1>4, OneTyped
    <3> QED
      BY <1>4, <3>1
  <2>2. o.operation = Nil
    <3>1. \A p \in Open : tree[p].rule # "operation"
      BY <1>1, <2>1
    <3> QED
      BY <1>1, <3>1 DEF FieldsFit, OperationFits, Held
  <2> QED
    BY <1>7, <2>1, <2>2 DEF OperationFits, Held, FieldNames
<1>12. SchemaIsKept(g, seen, P)
  BY <1>7, NoSchemaOnExit DEF SchemaIsKept, Typeds
<1>13. FieldsFit(g, seen, P)
  <2> HIDE DEF P
  <2> QED
    BY <1>7, <1>8, <1>9, <1>10, <1>11, <1>12, AllFit DEF FitOnExit, FieldNames
<1> QED
  BY <1>13 DEF g

LEMMA ExitOperationReturnFits ==
  ASSUME Leaving("return"), o.schema # Nil
  PROVE  FieldsFit([o EXCEPT !.return.schema = o.schema,
                             !.operation.return = [o.return EXCEPT !.schema = o.schema],
                             !.schema = Nil],
                   seen, Open \ {Entered})
<1> DEFINE x == Entered
           n == Owner(x)
           P == Open \ {x}
           D == Walked(seen, Open)
           E == Walked(seen, P)
           node == [o.return EXCEPT !.schema = o.schema]
           g == [o EXCEPT !.return.schema = o.schema,
                          !.operation.return = [o.return EXCEPT !.schema = o.schema],
                          !.schema = Nil]
<1>1. /\ TreeDone /\ OnPath /\ Readable /\ FieldsFit(o, seen, Open) /\ IsFields(o)
      /\ tree[x].rule = "return" /\ seen \in Nat /\ seen >= 3 /\ x > 3
      /\ x \in 1 .. seen /\ x \in Open /\ x \in 2 .. Len(tree) /\ n \in Open
  BY LeavingFacts
<1>2. /\ \A p \in Open : tree[p].rule = "return" => p = x
      /\ \A p \in Open : tree[p].rule = tree[n].rule => p = n
  BY LeavingOpen
<1>3. /\ \A q, m : q # "return" => List(q, m, E) = List(q, m, D)
      /\ E = D \cup {x} /\ x \in Below("return", n)
  <2>1. path # <<>>
    BY LeavingFacts
  <2>2. E = D \cup {x}
    BY <1>1, <2>1, ExitWalked
  <2> QED
    BY <2>2, ListOnExit DEF Wrappers
<1>4. tree[n].rule = "operation" /\ n = tree[x].parent /\ n \in P
  <2>1. tree[n].rule = "operation" /\ n = tree[x].parent
    BY <1>1, OwnerFacts
  <2>2. n # x
    BY <1>1, <2>1
  <2> QED
    BY <1>1, <2>1, <2>2
<1>5. o.return = NewTypedNode("", FALSE) /\ o.operation = OperationSoFar(n, D)
  <2>1. ReturnIsKept(o, seen, Open) /\ OperationFits(o, seen, Open)
    BY <1>1 DEF FieldsFit
  <2>2. x \in Kept("return", seen, Open)
    BY <1>1, <1>4 DEF Kept
  <2>3. o.return = NewTypedNode("", FALSE)
    BY <1>1, <2>1, <2>2 DEF ReturnIsKept
  <2> QED
    BY <1>1, <1>4, <2>1, <2>3 DEF OperationFits, Held
<1>6. node = TypedAt(x)
  <2> DEFINE none == Schema("", "void")
             no == FALSE
             unnamed == ""
  <2>1. o.schema = SchemaAt(x)
    BY SchemaOnExit DEF Typeds
  <2>2. TypedAt(x) = [name |-> unnamed, readonly |-> no, schema |-> SchemaAt(x), metas |-> {}]
    <3>1. Metas(x) = {} /\ (tree[x].also # Nil) = FALSE
      BY <1>1, MetasTyped
    <3>2. tree[x].rule = "return"
      BY <1>1
    <3> HIDE DEF x
    <3> QED
      BY <3>1, <3>2 DEF TypedAt
  <2>3. NewTypedNode("", FALSE) = [name |-> unnamed, readonly |-> no, schema |-> none, metas |-> {}]
    BY DEF NewTypedNode
  <2> HIDE DEF none, no, unnamed, x, g, P, D, E, n
  <2>4. o.return = [name |-> unnamed, readonly |-> no, schema |-> none, metas |-> {}]
    BY <1>5, <2>3
  <2>5. node = [name |-> unnamed, readonly |-> no, schema |-> o.schema, metas |-> {}]
    BY <2>4
  <2> QED
    BY <2>1, <2>2, <2>5
<1>7. /\ IsFields(g) /\ g.operation = [o.operation EXCEPT !.return = node]
      /\ g.return = node /\ g.schema = Nil
      /\ \A f \in FieldNames \ {"operation", "return", "schema"} : g[f] = o[f]
  BY <1>1 DEF IsFields, FieldNames
<1>8. FitOnExit(o, g, "return", seen, P)
  BY LeavingFrame
<1> HIDE DEF g, D, E, node
<1>9. OperationFits(g, seen, P)
  <2>1. List("param", n, E) = List("param", n, D)
    BY <1>3
  <2>2. The(Below("return", n)) = x
    <3>1. The(Below("return", n)) \in Below("return", n)
      BY <1>3 DEF The
    <3> QED
      BY <1>1, <1>3, <3>1, OneBelow
  <2>3. Below("return", n) \cap E # {}
    BY <1>3
  <2>4. g.operation = [OperationSoFar(n, D) EXCEPT !.return = TypedAt(x)]
    BY <1>5, <1>6, <1>7
  <2> HIDE DEF n, x
  <2>5. g.operation = OperationSoFar(n, E)
    BY <2>1, <2>2, <2>3, <2>4 DEF OperationSoFar
  <2>6. \A p \in P : tree[p].rule = "operation" => p = n
    BY <1>2, <1>4
  <2> HIDE DEF P
  <2> QED
    BY <1>4, <2>5, <2>6 DEF OperationFits, Held, E
<1>10. ReturnIsKept(g, seen, P)
  <2>1. Kept("return", seen, P) = Kept("return", seen, Open)
    BY <1>1, KeptOnExit, LeavingFacts
  <2>2. ASSUME NEW i \in Kept("return", seen, Open) PROVE i = x
    <3>1. i \in Below("return", tree[i].parent) /\ tree[i].parent \in Open /\ tree[tree[i].parent].rule = "operation"
      BY <1>1, KeptFacts
    <3>2. tree[i].parent = n
      BY <1>2, <1>4, <3>1
    <3> QED
      BY <1>1, <1>3, <3>1, <3>2, OneBelow
  <2>3. x \notin P /\ x \in Kept("return", seen, Open)
    BY <1>1, <1>4 DEF Kept
  <2> HIDE DEF P, x
  <2> QED
    BY <1>6, <1>7, <2>1, <2>2, <2>3 DEF ReturnIsKept
<1>11. SchemaIsKept(g, seen, P)
  BY <1>7, NoSchemaOnExit DEF SchemaIsKept, Typeds
<1>12. FieldsFit(g, seen, P)
  <2> HIDE DEF P
  <2> QED
    BY <1>7, <1>8, <1>9, <1>10, <1>11, AllFit DEF FitOnExit, FieldNames
<1> QED
  BY <1>12 DEF g

(* The field that a struct field is read into is there when it is left.    *)
LEMMA ExitFieldHeld ==
  ASSUME Leaving("field")
  PROVE  o.field # Nil
<1>1. /\ TreeDone /\ OnPath /\ Readable /\ FieldsFit(o, seen, Open)
      /\ tree[Entered].rule = "field" /\ Entered \in Open
  BY LeavingFacts
<1>2. o.field \in TypedNodes
  BY <1>1, FieldsTyped DEF In
<1> QED
  BY <1>2, NilAssumption

LEMMA ExitModuleFits ==
  ASSUME Leaving("module")
  PROVE  FieldsFit([o EXCEPT !.module.metas = Metas(Entered)], seen, Open \ {Entered})
<1> DEFINE x == Entered
           P == Open \ {x}
           D == Walked(seen, Open)
           E == Walked(seen, P)
           g == [o EXCEPT !.module.metas = Metas(Entered)]
<1>1. /\ TreeDone /\ OnPath /\ FieldsFit(o, seen, Open) /\ IsFields(o) /\ path # <<>>
      /\ tree[x].rule = "module" /\ seen \in Nat /\ x \in 1 .. seen /\ x \in Open
      /\ x \in 1 .. Len(tree)
  BY LeavingFacts
<1>2. x = 3 /\ ~ (seen < 3)
  BY <1>1, OneModule
<1>3. \A q, m : q # "module" => List(q, m, E) = List(q, m, D)
  BY ListOnExit DEF Wrappers
<1>4. /\ IsFields(g) /\ g.module = [o.module EXCEPT !.metas = Metas(3)]
      /\ g.iface = o.iface /\ g.extern = o.extern /\ g.struct = o.struct
      /\ g.enum = o.enum /\ g.member = o.member /\ g.operation = o.operation
      /\ g.param = o.param /\ g.return = o.return /\ g.signal = o.signal
      /\ g.property = o.property /\ g.field = o.field /\ g.schema = o.schema
      /\ g.running = o.running
  BY <1>1, <1>2 DEF IsFields, FieldNames
<1>5. FitOnExit(o, g, "module", seen, P)
  BY <1>1, ExitFrame
<1> HIDE DEF g
<1>6. ModuleFits(g, seen, P)
  <2>1. o.module = ModuleSoFar(seen, Open)
    BY <1>1, <1>2 DEF FieldsFit, ModuleFits
  <2>2. /\ List("extern", 1, E) = List("extern", 1, D)
        /\ List("interface", 1, E) = List("interface", 1, D)
        /\ List("struct", 1, E) = List("struct", 1, D)
        /\ List("enum", 1, E) = List("enum", 1, D)
    BY <1>3
  <2>3. 3 \notin P
    BY <1>2
  <2>5. g.module = [ModuleSoFar(seen, Open) EXCEPT !.metas = Metas(3)]
    BY <1>4, <2>1
  <2> HIDE DEF P, x
  <2>4. g.module = ModuleSoFar(seen, P)
    BY <2>2, <2>3, <2>5, ZenonT(30) DEF ModuleSoFar, D, E
  <2> QED
    BY <1>2, <2>4 DEF ModuleFits
<1>7. FieldsFit(g, seen, P)
  <2> HIDE DEF P
  <2> QED
    BY <1>4, <1>5, <1>6, AllFit DEF FitOnExit, FieldNames
<1> QED
  BY <1>7 DEF g

(* What else is left leaves the fields alone.                              *)
LEMMA ExitOtherFits ==
  ASSUME NEW r, Leaving(r),
         r \in {"schema", "header", "import", "declarations", "members", "primitive", "symbol",
                "array", "meta"}
  PROVE  FieldsFit(o, seen, Open \ {Entered})
<1>1. /\ TreeDone /\ OnPath /\ FieldsFit(o, seen, Open) /\ IsFields(o) /\ path # <<>>
      /\ tree[Entered].rule = r
  BY LeavingFacts
<1>2. FitOnExit(o, o, r, seen, Open \ {Entered})
  BY <1>1, ExitFrame
<1> QED
  BY <1>1, <1>2, AllFit DEF FitOnExit, FieldNames

LEMMA ExitSchemaHeld ==
  ASSUME Leaving("schema")
  PROVE  o.schema # Nil /\ o.module # Nil
<1> DEFINE x == Entered
<1>1. /\ TreeDone /\ OnPath /\ Readable /\ FieldsFit(o, seen, Open) /\ tree[x].rule = "schema"
      /\ x \in Open /\ x \in 1 .. seen /\ x \in 2 .. Len(tree) /\ seen \in Nat /\ seen >= 3
      /\ Owner(x) \in Open
  BY LeavingFacts
<1>2. x \in Kept("schema", seen, Open)
  BY <1>1, OwnerFacts DEF Kept
<1>3. o.schema \in Schemas /\ o.module \in Modules
  <2>1. ~ (seen < 3)
    BY <1>1
  <2> QED
    BY <1>1, <1>2, <2>1, FieldsTyped
<1> QED
  BY <1>3, NilAssumption

(* The module is all of the document when the walker leaves it.            *)
LEMMA ExitDocumentModule ==
  ASSUME Leaving("document")
  PROVE  o.module = ModuleAt(3) /\ o.module \in Modules
<1>1. /\ TreeDone /\ OnPath /\ Readable /\ FieldsFit(o, seen, Open) /\ path # <<>>
      /\ seen \in Nat /\ Exit("document")
  BY LeavingFacts DEF Leaving
<1>2. Entered = 1 /\ Open = {1} /\ seen = Len(tree)
  BY <1>1, LastExit
<1>3. ~ (seen < 3) /\ 3 \notin Open
  BY <1>1, <1>2 DEF TreeDone
<1>4. o.module = ModuleSoFar(seen, Open) /\ o.module \in Modules
  <2>1. o.module \in Modules
    BY <1>1, <1>3, FieldsTyped
  <2> QED
    BY <1>1, <1>3, <2>1 DEF FieldsFit, ModuleFits
<1>5. \A q : Below(q, 1) \subseteq Walked(seen, Open)
  BY <1>2, LeavingOpen
<1>6. \A q : List(q, 1, Walked(seen, Open)) = Under(q, 1)
  BY <1>1, <1>5, ListFacts
<1>7. List("import", 1, 1 .. seen) = Under("import", 1)
  <2>1. Below("import", 1) \subseteq 1 .. seen
    BY <1>5 DEF Walked
  <2> QED
    BY <1>1, <2>1, ListFacts
<1>8. /\ List("extern", 1, Walked(seen, Open)) = Under("extern", 1)
      /\ List("interface", 1, Walked(seen, Open)) = Under("interface", 1)
      /\ List("struct", 1, Walked(seen, Open)) = Under("struct", 1)
      /\ List("enum", 1, Walked(seen, Open)) = Under("enum", 1)
  BY <1>6
<1>9. ModuleSoFar(seen, Open) = ModuleAt(3)
  BY <1>3, <1>7, <1>8 DEF ModuleSoFar, ModuleAt
<1> QED
  BY <1>4, <1>9

----------------
(* The step of the walk each handler takes. *)

LEMMA EnterPasses ==
  ASSUME NEW r, Entering(r), UNCHANGED <<parserVars, modules, phase>>, ~ wrong',
         FieldsFit(o', seen + 1, Open \cup {seen + 1}),
         Unnamed(r) # {} => HasName, r = "member" => Context1.also # NoNumber
  PROVE  Walks
<1> DEFINE x == seen + 1
<1>1. /\ TreeDone /\ OnPath /\ Readable /\ Enter(r) /\ phase = "walk"
      /\ x \in 1 .. Len(tree) /\ tree[x].rule = r /\ seen \in Nat
  BY EnteringFacts DEF Entering, Enter
<1>2. tree' = tree
  BY DEF parserVars
<1>3. seen' = x /\ Open' = Open \cup {x}
  BY <1>1, EnterStep
<1>4. OnPath'
  BY <1>1, <1>2, EnterPath
<1>5. 1 .. x = (1 .. seen) \cup {x}
  BY <1>1
<1>6. Readable'
  <2>1. ASSUME NEW i \in 1 .. x
        PROVE  /\ Unnamed(tree[i].rule) # {} => tree[i].name # Nil
               /\ tree[i].rule = "member" => tree[i].also # NoNumber
    <3>1. CASE i = x
      BY <1>1, <3>1 DEF Context1, HasName
    <3>2. CASE i \in 1 .. seen
      BY <1>1, <3>2 DEF Readable
    <3> QED
      BY <1>5, <3>1, <3>2
  <2>2. \A i \in (1 .. x) \ (Open \cup {x}) :
          tree[i].rule \in {"property", "field", "param", "return"} =>
            \E j \in 2 .. Len(tree) : tree[j].parent = i /\ tree[j].rule = "schema"
    <3>1. \A i \in (1 .. x) \ (Open \cup {x}) : i \in Walked(seen, Open)
      BY <1>5 DEF Walked
    <3> QED
      BY <1>1, <3>1 DEF Readable
  <2> HIDE DEF x
  <2>3. \A i \in 1 .. seen' : /\ Unnamed(tree'[i].rule) # {} => tree'[i].name # Nil
                              /\ tree'[i].rule = "member" => tree'[i].also # NoNumber
    BY <1>2, <1>3, <2>1
  <2>4. \A i \in (1 .. seen') \ Open' :
          tree'[i].rule \in {"property", "field", "param", "return"} =>
            \E j \in 2 .. Len(tree') : tree'[j].parent = i /\ tree'[j].rule = "schema"
    BY <1>2, <1>3, <2>2
  <2> QED
    BY <2>3, <2>4 DEF Readable, Walked
<1>7. FieldsFit(o', seen', Open')
  BY <1>3
<1>8. seen' \in 0 .. Len(tree)
  BY <1>1, <1>3
<1> QED
  BY <1>1, <1>4, <1>6, <1>7, <1>8 DEF Walks

LEMMA EnterPanics ==
  ASSUME NEW r, Entering(r), UNCHANGED <<parserVars, modules, o>>, ~ wrong',
         phase' = "panicked",
         errors # 0 \/ (r = "member" /\ Context1.also \in Values \ IntRange)
  PROVE  Walks
<1>1. /\ seen + 1 \in 1 .. Len(tree) /\ tree[seen + 1].rule = r /\ Enter(r)
      /\ TreeDone /\ OnPath
  BY EnteringFacts DEF Entering
<1>2. seen' \in 0 .. Len(tree)
  BY <1>1 DEF Enter
<1>3. path' = Append(path, seen + 1) /\ path \in Seq(Nat) /\ seen + 1 \in Nat
  <2>1. path' = Append(path, seen + 1)
    BY <1>1, EnterStep
  <2>2. path \in Seq(Nat)
    BY <1>1 DEF OnPath
  <2>3. seen \in 0 .. Len(tree)
    BY <1>1 DEF OnPath
  <2>4. seen + 1 \in Nat
    BY <2>3
  <2> QED
    BY <2>1, <2>2, <2>4
<1>4. path'[Len(path')] = seen + 1
  BY <1>3, AppendProperties
<1>5. tree' = tree
  BY DEF parserVars
<1>6. r = "member" /\ Context1.also \in Values \ IntRange => AtHugeNumber'
  BY <1>1, <1>4, <1>5 DEF AtHugeNumber, Entered, Context1
<1> QED
  BY <1>2, <1>6 DEF Walks

LEMMA ExitPasses ==
  ASSUME NEW r, Leaving(r), r # "document", UNCHANGED <<parserVars, modules, phase>>, ~ wrong',
         FieldsFit(o', seen, Open \ {Entered}),
         r \in Typeds => \E j \in 2 .. Len(tree) : tree[j].parent = Entered /\ tree[j].rule = "schema"
  PROVE  Walks
<1> DEFINE x == Entered
<1>1. /\ TreeDone /\ OnPath /\ Readable /\ Exit(r) /\ phase = "walk" /\ path # <<>>
      /\ tree[x].rule = r /\ x \in Open
  BY LeavingFacts DEF Leaving, Exit
<1>2. tree' = tree
  BY DEF parserVars
<1>3. seen' = seen /\ Open' = Open \ {x}
  BY <1>1, ExitStep
<1>4. OnPath'
  BY <1>1, <1>2, ExitPath
<1>5. Walked(seen, Open \ {x}) = Walked(seen, Open) \cup {x}
  BY <1>1, ExitWalked
<1> HIDE DEF x
<1>6. Readable'
  <2>1. \A i \in Walked(seen, Open \ {x}) :
          tree[i].rule \in {"property", "field", "param", "return"} =>
            \E j \in 2 .. Len(tree) : tree[j].parent = i /\ tree[j].rule = "schema"
    <3> TAKE i \in Walked(seen, Open \ {x})
    <3>1. CASE i = x
      BY <1>1, <3>1 DEF Typeds, x
    <3>2. CASE i \in Walked(seen, Open)
      BY <1>1, <3>2 DEF Readable
    <3> QED
      BY <1>5, <3>1, <3>2
  <2> QED
    BY <1>1, <1>2, <1>3, <2>1 DEF Readable, Walked
<1>7. FieldsFit(o', seen', Open')
  BY <1>3 DEF x
<1>8. seen' \in 0 .. Len(tree)
  BY <1>1, <1>3 DEF OnPath
<1> QED
  BY <1>1, <1>4, <1>6, <1>7, <1>8 DEF Walks

LEMMA ExitPanics ==
  ASSUME NEW r, Leaving(r), UNCHANGED <<parserVars, modules, o>>, ~ wrong',
         phase' = "panicked", errors # 0
  PROVE  Walks
<1>1. seen' = seen /\ OnPath
  BY LeavingFacts DEF Leaving, Exit
<1>2. seen' \in 0 .. Len(tree)
  BY <1>1 DEF OnPath
<1> QED
  BY <1>2 DEF Walks

(* A handler that asks the parser for a name when a context is entered.    *)
LEMMA EnterWalks ==
  ASSUME NEW r, Entering(r), r # "member", NEW g, FieldsFit(g, seen + 1, Open \cup {seen + 1}),
         UNCHANGED <<parserVars, modules>>, ~ wrong', errors = 0 => HasName,
         IF HasName THEN o' = g /\ UNCHANGED phase ELSE phase' = "panicked" /\ UNCHANGED o
  PROVE  Walks
<1>1. CASE HasName
  BY <1>1, EnterPasses
<1>2. CASE ~ HasName
  BY <1>2, EnterPanics
<1> QED
  BY <1>1, <1>2

(* A handler that asks for the schema when a context is left.              *)
LEMMA ExitWalks ==
  ASSUME NEW r \in Typeds, Leaving(r), NEW g, o.schema # Nil => FieldsFit(g, seen, Open \ {Entered}),
         UNCHANGED <<parserVars, modules>>, ~ wrong',
         IF o.schema # Nil THEN o' = g /\ UNCHANGED phase
                           ELSE phase' = "panicked" /\ UNCHANGED o
  PROVE  Walks
<1>1. r # "document"
  BY DEF Typeds
<1>2. CASE o.schema # Nil
  BY <1>1, <1>2, SchemaOnExit, ExitPasses
<1>3. CASE o.schema = Nil
  BY <1>3, SchemaOnExit, ExitPanics
<1> QED
  BY <1>2, <1>3

LEMMA EnterModuleRuleWalks ==
  ASSUME TreeDone, WalkInv, ~ wrong, EnterModuleRule
  PROVE  Walks
<1> DEFINE g == [o EXCEPT !["module"] = NewModule(Context1.name)]
<1>1. Entering("module")
  BY DEF EnterModuleRule, Create, Entering
<1>2. /\ o.module = Nil
      /\ FieldsFit(g, seen + 1, Open \cup {seen + 1})
      /\ errors = 0 => HasName
  BY <1>1, EnterModuleFits
<1>3. /\ UNCHANGED <<parserVars, modules>> /\ ~ wrong'
      /\ IF HasName THEN o' = g /\ UNCHANGED phase ELSE phase' = "panicked" /\ UNCHANGED o
  BY <1>2 DEF EnterModuleRule, Create, Visit
<1> HIDE DEF g
<1> QED
  BY <1>1, <1>2, <1>3, EnterWalks

LEMMA EnterImportRuleWalks ==
  ASSUME TreeDone, WalkInv, ~ wrong, EnterImportRule
  PROVE  Walks
<1> DEFINE g == Attach("module", "imports", Context1.name)
<1>1. Entering("import")
  BY DEF EnterImportRule, Entering
<1>2. /\ o.module # Nil
      /\ FieldsFit(g, seen + 1, Open \cup {seen + 1})
      /\ errors = 0 => HasName
  BY <1>1, EnterImportFits
<1>3. /\ UNCHANGED <<parserVars, modules>> /\ ~ wrong'
      /\ IF HasName THEN o' = g /\ UNCHANGED phase ELSE phase' = "panicked" /\ UNCHANGED o
  BY <1>2 DEF EnterImportRule, Visit
<1> HIDE DEF g
<1> QED
  BY <1>1, <1>2, <1>3, EnterWalks

LEMMA EnterExternRuleWalks ==
  ASSUME TreeDone, WalkInv, ~ wrong, EnterExternRule
  PROVE  Walks
<1> DEFINE g == [o EXCEPT !["extern"] = NewExtern(Context1.name)]
<1>1. Entering("extern")
  BY DEF EnterExternRule, Create, Entering
<1>2. /\ o.extern = Nil /\ o.module # Nil
      /\ FieldsFit(g, seen + 1, Open \cup {seen + 1})
      /\ errors = 0 => HasName
  BY <1>1, EnterExternFits
<1>3. /\ UNCHANGED <<parserVars, modules>> /\ ~ wrong'
      /\ IF HasName THEN o' = g /\ UNCHANGED phase ELSE phase' = "panicked" /\ UNCHANGED o
  BY <1>2 DEF EnterExternRule, Create, Visit
<1> HIDE DEF g
<1> QED
  BY <1>1, <1>2, <1>3, EnterWalks

LEMMA EnterInterfaceRuleWalks ==
  ASSUME TreeDone, WalkInv, ~ wrong, EnterInterfaceRule
  PROVE  Walks
<1> DEFINE g == [o EXCEPT !["iface"] = NewInterface(Context1.name, Extended(Context1.also))]
<1>1. Entering("interface")
  BY DEF EnterInterfaceRule, Create, Entering
<1>2. /\ o.iface = Nil /\ o.module # Nil
      /\ FieldsFit(g, seen + 1, Open \cup {seen + 1})
      /\ errors = 0 => HasName
  BY <1>1, EnterInterfaceFits
<1>3. /\ UNCHANGED <<parserVars, modules>> /\ ~ wrong'
      /\ IF HasName THEN o' = g /\ UNCHANGED phase ELSE phase' = "panicked" /\ UNCHANGED o
  BY <1>2 DEF EnterInterfaceRule, Create, Visit
<1> HIDE DEF g
<1> QED
  BY <1>1, <1>2, <1>3, EnterWalks

LEMMA EnterPropertyRuleWalks ==
  ASSUME TreeDone, WalkInv, ~ wrong, EnterPropertyRule
  PROVE  Walks
<1> DEFINE g == [o EXCEPT !["property"] = NewTypedNode(Context1.name, Context1.also # Nil)]
<1>1. Entering("property")
  BY DEF EnterPropertyRule, Create, Entering
<1>2. /\ o.property = Nil /\ o.iface # Nil /\ o.module # Nil
      /\ FieldsFit(g, seen + 1, Open \cup {seen + 1})
      /\ errors = 0 => HasName
  BY <1>1, EnterPropertyFits
<1>3. /\ UNCHANGED <<parserVars, modules>> /\ ~ wrong'
      /\ IF HasName THEN o' = g /\ UNCHANGED phase ELSE phase' = "panicked" /\ UNCHANGED o
  BY <1>2 DEF EnterPropertyRule, Create, Visit
<1> HIDE DEF g
<1> QED
  BY <1>1, <1>2, <1>3, EnterWalks

LEMMA EnterOperationRuleWalks ==
  ASSUME TreeDone, WalkInv, ~ wrong, EnterOperationRule
  PROVE  Walks
<1> DEFINE g == [o EXCEPT !["operation"] = NewOperation(Context1.name)]
<1>1. Entering("operation")
  BY DEF EnterOperationRule, Create, Entering
<1>2. /\ o.operation = Nil /\ o.param = Nil /\ o.return = Nil
      /\ FieldsFit(g, seen + 1, Open \cup {seen + 1})
      /\ errors = 0 => HasName
  BY <1>1, EnterOperationFits
<1>3. /\ UNCHANGED <<parserVars, modules>> /\ ~ wrong'
      /\ IF HasName THEN o' = g /\ UNCHANGED phase ELSE phase' = "panicked" /\ UNCHANGED o
  BY <1>2 DEF EnterOperationRule, Create, Visit
<1> HIDE DEF g
<1> QED
  BY <1>1, <1>2, <1>3, EnterWalks

LEMMA EnterOperationReturnRuleWalks ==
  ASSUME TreeDone, WalkInv, ~ wrong, EnterOperationReturnRule
  PROVE  Walks
<1> DEFINE g == [o EXCEPT !.return = NewTypedNode("", FALSE)]
<1>1. Entering("return")
  BY DEF EnterOperationReturnRule, Entering
<1>2. /\ o.return = Nil /\ o.schema = Nil /\ o.module # Nil /\ o.iface # Nil /\ o.operation # Nil
      /\ FieldsFit(g, seen + 1, Open \cup {seen + 1})
  BY <1>1, EnterReturnFits
<1>3. /\ UNCHANGED <<parserVars, modules>> /\ ~ wrong'
      /\ o' = g /\ UNCHANGED phase
  BY <1>2 DEF EnterOperationReturnRule, Visit
<1> HIDE DEF g
<1> QED
  BY <1>1, <1>2, <1>3, EnterPasses DEF Unnamed

LEMMA EnterOperationParamRuleWalks ==
  ASSUME TreeDone, WalkInv, ~ wrong, EnterOperationParamRule
  PROVE  Walks
<1> DEFINE g == [o EXCEPT !["param"] = NewTypedNode(Context1.name, FALSE)]
<1>1. Entering("param")
  BY DEF EnterOperationParamRule, Create, Entering
<1>2. /\ o.param = Nil /\ o.schema = Nil /\ o.module # Nil /\ o.iface # Nil
      /\ FieldsFit(g, seen + 1, Open \cup {seen + 1})
      /\ errors = 0 => HasName
  BY <1>1, EnterOperationParamFits
<1>3. /\ UNCHANGED <<parserVars, modules>> /\ ~ wrong'
      /\ IF HasName THEN o' = g /\ UNCHANGED phase ELSE phase' = "panicked" /\ UNCHANGED o
  BY <1>2 DEF EnterOperationParamRule, Create, Visit
<1> HIDE DEF g
<1> QED
  BY <1>1, <1>2, <1>3, EnterWalks

LEMMA EnterSignalRuleWalks ==
  ASSUME TreeDone, WalkInv, ~ wrong, EnterSignalRule
  PROVE  Walks
<1> DEFINE g == [o EXCEPT !["signal"] = NewSignal(Context1.name)]
<1>1. Entering("signal")
  BY DEF EnterSignalRule, Create, Entering
<1>2. /\ o.signal = Nil /\ o.schema = Nil /\ o.module # Nil /\ o.iface # Nil
      /\ FieldsFit(g, seen + 1, Open \cup {seen + 1})
      /\ errors = 0 => HasName
  BY <1>1, EnterSignalFits
<1>3. /\ UNCHANGED <<parserVars, modules>> /\ ~ wrong'
      /\ IF HasName THEN o' = g /\ UNCHANGED phase ELSE phase' = "panicked" /\ UNCHANGED o
  BY <1>2 DEF EnterSignalRule, Create, Visit
<1> HIDE DEF g
<1> QED
  BY <1>1, <1>2, <1>3, EnterWalks

LEMMA EnterStructRuleWalks ==
  ASSUME TreeDone, WalkInv, ~ wrong, EnterStructRule
  PROVE  Walks
<1> DEFINE g == [o EXCEPT !["struct"] = [NewStruct(Context1.name) EXCEPT !.metas = Metas(seen + 1)]]
<1>1. Entering("struct")
  BY DEF EnterStructRule, Create, Entering
<1>2. /\ o.struct = Nil /\ o.schema = Nil /\ o.module # Nil
      /\ FieldsFit(g, seen + 1, Open \cup {seen + 1})
      /\ errors = 0 => HasName
  BY <1>1, EnterStructFits
<1>3. /\ UNCHANGED <<parserVars, modules>> /\ ~ wrong'
      /\ IF HasName THEN o' = g /\ UNCHANGED phase ELSE phase' = "panicked" /\ UNCHANGED o
  BY <1>2 DEF EnterStructRule, Create, Visit
<1> HIDE DEF g
<1> QED
  BY <1>1, <1>2, <1>3, EnterWalks

LEMMA EnterStructFieldRuleWalks ==
  ASSUME TreeDone, WalkInv, ~ wrong, EnterStructFieldRule
  PROVE  Walks
<1> DEFINE g == [o EXCEPT !["field"] = NewTypedNode(Context1.name, Context1.also # Nil)]
<1>1. Entering("field")
  BY DEF EnterStructFieldRule, Create, Entering
<1>2. /\ o.schema = Nil /\ o.field = Nil /\ o.struct # Nil
      /\ FieldsFit(g, seen + 1, Open \cup {seen + 1})
      /\ errors = 0 => HasName
  BY <1>1, EnterStructFieldFits
<1>3. /\ UNCHANGED <<parserVars, modules>> /\ ~ wrong'
      /\ IF HasName THEN o' = g /\ UNCHANGED phase ELSE phase' = "panicked" /\ UNCHANGED o
  BY <1>2 DEF EnterStructFieldRule, Create, Visit
<1> HIDE DEF g
<1> QED
  BY <1>1, <1>2, <1>3, EnterWalks

LEMMA EnterEnumRuleWalks ==
  ASSUME TreeDone, WalkInv, ~ wrong, EnterEnumRule
  PROVE  Walks
<1> DEFINE g == [o EXCEPT !.enum = NewEnum(Context1.name), !.running = 0]
<1>1. Entering("enum")
  BY DEF EnterEnumRule, Entering
<1>2. /\ o.enum = Nil /\ o.schema = Nil /\ o.module # Nil
      /\ FieldsFit(g, seen + 1, Open \cup {seen + 1})
      /\ errors = 0 => HasName
  BY <1>1, EnterEnumFits
<1>3. /\ UNCHANGED <<parserVars, modules>> /\ ~ wrong'
      /\ IF HasName THEN o' = g /\ UNCHANGED phase ELSE phase' = "panicked" /\ UNCHANGED o
  BY <1>2 DEF EnterEnumRule, Visit
<1> HIDE DEF g
<1> QED
  BY <1>1, <1>2, <1>3, EnterWalks

LEMMA EnterSchemaRuleWalks ==
  ASSUME TreeDone, WalkInv, ~ wrong, EnterSchemaRule
  PROVE  Walks
<1> DEFINE g == [o EXCEPT !.schema = Schema("", "")]
<1>1. Entering("schema")
  BY DEF EnterSchemaRule, Entering
<1>2. /\ o.schema = Nil
      /\ FieldsFit(g, seen + 1, Open \cup {seen + 1})
  BY <1>1, EnterSchemaFits
<1>3. /\ UNCHANGED <<parserVars, modules>> /\ ~ wrong'
      /\ o' = g /\ UNCHANGED phase
  BY <1>2 DEF EnterSchemaRule, Visit
<1> HIDE DEF g
<1> QED
  BY <1>1, <1>2, <1>3, EnterPasses DEF Unnamed

LEMMA EnterPrimitiveSchemaWalks ==
  ASSUME TreeDone, WalkInv, ~ wrong, EnterPrimitiveSchema
  PROVE  Walks
<1> DEFINE g == [o EXCEPT !.schema.type = Context1.name]
<1>1. Entering("primitive")
  BY DEF EnterPrimitiveSchema, Entering
<1>2. /\ o.schema # Nil
      /\ FieldsFit(g, seen + 1, Open \cup {seen + 1})
      /\ errors = 0 => HasName
  BY <1>1, EnterPrimitiveFits
<1>3. /\ UNCHANGED <<parserVars, modules>> /\ ~ wrong'
      /\ IF HasName THEN o' = g /\ UNCHANGED phase ELSE phase' = "panicked" /\ UNCHANGED o
  BY <1>2 DEF EnterPrimitiveSchema, Visit
<1> HIDE DEF g
<1> QED
  BY <1>1, <1>2, <1>3, EnterWalks

LEMMA EnterSymbolSchemaWalks ==
  ASSUME TreeDone, WalkInv, ~ wrong, EnterSymbolSchema
  PROVE  Walks
<1> DEFINE g == [o EXCEPT !.schema.import = Parts[Context1.name][1],
                        !.schema.type = Parts[Context1.name][2]]
<1>1. Entering("symbol")
  BY DEF EnterSymbolSchema, Entering
<1>2. /\ o.schema # Nil
      /\ FieldsFit(g, seen + 1, Open \cup {seen + 1})
      /\ errors = 0 => HasName
  BY <1>1, EnterSymbolFits
<1>3. /\ UNCHANGED <<parserVars, modules>> /\ ~ wrong'
      /\ IF HasName THEN o' = g /\ UNCHANGED phase ELSE phase' = "panicked" /\ UNCHANGED o
  BY <1>2 DEF EnterSymbolSchema, Visit
<1> HIDE DEF g
<1> QED
  BY <1>1, <1>2, <1>3, EnterWalks

LEMMA EnterArrayRuleWalks ==
  ASSUME TreeDone, WalkInv, ~ wrong, EnterArrayRule
  PROVE  Walks
<1> DEFINE g == [o EXCEPT !.schema.array = TRUE]
<1>1. Entering("array")
  BY DEF EnterArrayRule, Entering
<1>2. /\ o.schema # Nil
      /\ FieldsFit(g, seen + 1, Open \cup {seen + 1})
  BY <1>1, EnterArrayFits
<1>3. /\ UNCHANGED <<parserVars, modules>> /\ ~ wrong'
      /\ o' = g /\ UNCHANGED phase
  BY <1>2 DEF EnterArrayRule, Visit
<1> HIDE DEF g
<1> QED
  BY <1>1, <1>2, <1>3, EnterPasses DEF Unnamed

LEMMA EnterEnumMemberRuleWalks ==
  ASSUME TreeDone, WalkInv, ~ wrong, EnterEnumMemberRule
  PROVE  Walks
<1> DEFINE value == IF Context1.also # Nil THEN Context1.also ELSE o.running
           g == [o EXCEPT !.member = NewEnumMember(Context1.name, value),
                          !.running = IF Context1.also # Nil THEN @ ELSE @ + 1]
<1>1. Entering("member")
  BY DEF EnterEnumMemberRule, Entering
<1>2. /\ o.enum # Nil
      /\ errors = 0 => HasName /\ value # NoNumber
      /\ value # NoNumber => Context1.also # NoNumber
  BY <1>1, EnterEnumMemberFits
<1>3. FieldsFit(g, seen + 1, Open \cup {seen + 1})
  BY <1>1, EnterEnumMemberFits
<1>4. UNCHANGED <<parserVars, modules>> /\ ~ wrong'
  BY <1>2 DEF EnterEnumMemberRule, Visit
<1>5. IF HasName /\ NumberIsRead
        THEN o' = g /\ UNCHANGED phase
        ELSE phase' = "panicked" /\ UNCHANGED o
  BY DEF EnterEnumMemberRule, Visit
<1> HIDE DEF g, value
<1>6. CASE HasName /\ NumberIsRead
  <2>1. o' = g /\ UNCHANGED phase
    BY <1>5, <1>6
  <2>2. Context1.also # NoNumber
    BY <1>6, DocumentAssumption DEF NumberIsRead
  <2> QED
    BY <1>1, <1>3, <1>4, <1>6, <2>1, <2>2, EnterPasses
<1>7. CASE ~ (HasName /\ NumberIsRead)
  <2>1. /\ TreeDone /\ seen + 1 \in 1 .. Len(tree) /\ tree[seen + 1].rule = "member"
    BY <1>1, EnteringFacts
  <2>2. Context1.also \in Values \cup {NoNumber, Nil}
    BY <2>1 DEF TreeDone, Written, AlsoOf, Context1
  <2>3. errors = 0 => Context1.also \in Values \ IntRange
    BY <1>2, <1>7, <2>2 DEF NumberIsRead
  <2> QED
    BY <1>1, <1>4, <1>5, <1>7, <2>3, EnterPanics
<1> QED
  BY <1>6, <1>7

LEMMA ExitModuleRuleWalks ==
  ASSUME TreeDone, WalkInv, ~ wrong, ExitModuleRule
  PROVE  Walks
<1> DEFINE g == [o EXCEPT !.module.metas = Metas(Entered)]
<1>1. Leaving("module")
  BY DEF ExitModuleRule, Leaving
<1>3. FieldsFit(g, seen, Open \ {Entered})
  BY <1>1, ExitModuleFits
<1>4. UNCHANGED <<parserVars, modules, phase>> /\ ~ wrong' /\ o' = g
  BY DEF ExitModuleRule, Visit
<1> HIDE DEF g
<1> QED
  BY <1>1, <1>3, <1>4, ExitPasses DEF Typeds

LEMMA ExitExternRuleWalks ==
  ASSUME TreeDone, WalkInv, ~ wrong, ExitExternRule
  PROVE  Walks
<1> DEFINE g == [Attach("module", "externs", [o.extern EXCEPT !.metas = Metas(Entered)])
                        EXCEPT !.extern = Nil]
<1>1. Leaving("extern")
  BY DEF ExitExternRule, Leaving
<1>2. /\ o.module # Nil
      /\ FieldsFit(g, seen, Open \ {Entered})
  BY <1>1, ExitExternFits
<1>4. UNCHANGED <<parserVars, modules, phase>> /\ ~ wrong' /\ o' = g
  BY <1>2 DEF ExitExternRule, Visit
<1> HIDE DEF g
<1> QED
  BY <1>1, <1>2, <1>4, ExitPasses DEF Typeds

LEMMA ExitInterfaceRuleWalks ==
  ASSUME TreeDone, WalkInv, ~ wrong, ExitInterfaceRule
  PROVE  Walks
<1> DEFINE g == [Attach("module", "interfaces", [o.iface EXCEPT !.metas = Metas(Entered)])
                        EXCEPT !.iface = Nil]
<1>1. Leaving("interface")
  BY DEF ExitInterfaceRule, Leaving
<1>2. /\ o.module # Nil
      /\ FieldsFit(g, seen, Open \ {Entered})
  BY <1>1, ExitInterfaceFits
<1>4. UNCHANGED <<parserVars, modules, phase>> /\ ~ wrong' /\ o' = g
  BY <1>2 DEF ExitInterfaceRule, Visit
<1> HIDE DEF g
<1> QED
  BY <1>1, <1>2, <1>4, ExitPasses DEF Typeds

LEMMA ExitStructRuleWalks ==
  ASSUME TreeDone, WalkInv, ~ wrong, ExitStructRule
  PROVE  Walks
<1> DEFINE g == [Attach("module", "structs", o.struct) EXCEPT !.schema = Nil, !.struct = Nil]
<1>1. Leaving("struct")
  BY DEF ExitStructRule, Leaving
<1>2. /\ o.struct # Nil
      /\ FieldsFit(g, seen, Open \ {Entered})
  BY <1>1, ExitStructFits
<1>4. UNCHANGED <<parserVars, modules, phase>> /\ ~ wrong' /\ o' = g
  BY <1>2 DEF ExitStructRule, Visit
<1> HIDE DEF g
<1> QED
  BY <1>1, <1>2, <1>4, ExitPasses DEF Typeds

LEMMA ExitEnumRuleWalks ==
  ASSUME TreeDone, WalkInv, ~ wrong, ExitEnumRule
  PROVE  Walks
<1> DEFINE g == [Attach("module", "enums", [o.enum EXCEPT !.metas = Metas(Entered)])
                        EXCEPT !.running = 0, !.enum = Nil]
<1>1. Leaving("enum")
  BY DEF ExitEnumRule, Leaving
<1>2. /\ o.enum # Nil
      /\ FieldsFit(g, seen, Open \ {Entered})
  BY <1>1, ExitEnumFits
<1>4. UNCHANGED <<parserVars, modules, phase>> /\ ~ wrong' /\ o' = g
  BY <1>2 DEF ExitEnumRule, Visit
<1> HIDE DEF g
<1> QED
  BY <1>1, <1>2, <1>4, ExitPasses DEF Typeds

LEMMA ExitEnumMemberRuleWalks ==
  ASSUME TreeDone, WalkInv, ~ wrong, ExitEnumMemberRule
  PROVE  Walks
<1> DEFINE g == [Attach("enum", "members", [o.member EXCEPT !.metas = Metas(Entered)])
                        EXCEPT !.member = Nil]
<1>1. Leaving("member")
  BY DEF ExitEnumMemberRule, Leaving
<1>2. /\ o.member # Nil
      /\ FieldsFit(g, seen, Open \ {Entered})
  BY <1>1, ExitEnumMemberFits
<1>4. UNCHANGED <<parserVars, modules, phase>> /\ ~ wrong' /\ o' = g
  BY <1>2 DEF ExitEnumMemberRule, Visit
<1> HIDE DEF g
<1> QED
  BY <1>1, <1>2, <1>4, ExitPasses DEF Typeds

LEMMA ExitSignalRuleWalks ==
  ASSUME TreeDone, WalkInv, ~ wrong, ExitSignalRule
  PROVE  Walks
<1> DEFINE g == [Attach("iface", "signals", [o.signal EXCEPT !.metas = Metas(Entered)])
                        EXCEPT !.schema = Nil, !.signal = Nil]
<1>1. Leaving("signal")
  BY DEF ExitSignalRule, Leaving
<1>3. FieldsFit(g, seen, Open \ {Entered})
  BY <1>1, ExitSignalFits
<1>4. UNCHANGED <<parserVars, modules, phase>> /\ ~ wrong' /\ o' = g
  BY DEF ExitSignalRule, Visit
<1> HIDE DEF g
<1> QED
  BY <1>1, <1>3, <1>4, ExitPasses DEF Typeds

LEMMA ExitOperationRuleWalks ==
  ASSUME TreeDone, WalkInv, ~ wrong, ExitOperationRule
  PROVE  Walks
<1> DEFINE g == [Attach("iface", "operations",
                               [o.operation EXCEPT !.return = o.return, !.metas = Metas(Entered)])
                        EXCEPT !.operation = Nil, !.param = Nil, !.return = Nil, !.schema = Nil]
<1>1. Leaving("operation")
  BY DEF ExitOperationRule, Leaving
<1>3. FieldsFit(g, seen, Open \ {Entered})
  BY <1>1, ExitOperationFits
<1>4. UNCHANGED <<parserVars, modules, phase>> /\ ~ wrong' /\ o' = g
  BY DEF ExitOperationRule, Visit
<1> HIDE DEF g
<1> QED
  BY <1>1, <1>3, <1>4, ExitPasses DEF Typeds

LEMMA ExitSchemaRuleWalks ==
  ASSUME TreeDone, WalkInv, ~ wrong, ExitSchemaRule
  PROVE  Walks
<1> DEFINE g == o
<1>1. Leaving("schema")
  BY DEF ExitSchemaRule, Leaving
<1>2. o.schema # Nil /\ o.module # Nil
  BY <1>1, ExitSchemaHeld
<1>3. FieldsFit(g, seen, Open \ {Entered})
  BY <1>1, ExitOtherFits
<1>4. UNCHANGED <<parserVars, modules, phase>> /\ ~ wrong' /\ o' = g
  BY <1>2 DEF ExitSchemaRule, Visit
<1> HIDE DEF g
<1> QED
  BY <1>1, <1>3, <1>4, ExitPasses DEF Typeds

LEMMA ExitPropertyRuleWalks ==
  ASSUME TreeDone, WalkInv, ~ wrong, ExitPropertyRule
  PROVE  Walks
<1> DEFINE g == [Attach("iface", "properties",
                               [o.property EXCEPT !.schema = o.schema, !.metas = Metas(Entered)])
                        EXCEPT !.schema = Nil, !.property = Nil]
<1>1. Leaving("property")
  BY DEF ExitPropertyRule, Leaving
<1>3. UNCHANGED <<parserVars, modules>> /\ ~ wrong'
  BY DEF ExitPropertyRule, Visit
<1>4. IF o.schema # Nil THEN o' = g /\ UNCHANGED phase
                        ELSE phase' = "panicked" /\ UNCHANGED o
  BY DEF ExitPropertyRule, Visit
<1>5. o.schema # Nil => FieldsFit(g, seen, Open \ {Entered})
  BY <1>1, ExitPropertyFits
<1> HIDE DEF g
<1> QED
  BY <1>1, <1>3, <1>4, <1>5, ExitWalks DEF Typeds

LEMMA ExitStructFieldRuleWalks ==
  ASSUME TreeDone, WalkInv, ~ wrong, ExitStructFieldRule
  PROVE  Walks
<1> DEFINE g == [Attach("struct", "fields",
                               [o.field EXCEPT !.schema = o.schema, !.metas = Metas(Entered)])
                        EXCEPT !.field = Nil, !.schema = Nil]
<1>1. Leaving("field")
  BY DEF ExitStructFieldRule, Leaving
<1>2. o.field # Nil
  BY <1>1, ExitFieldHeld
<1>3. UNCHANGED <<parserVars, modules>> /\ ~ wrong'
  BY <1>2 DEF ExitStructFieldRule, Visit
<1>4. IF o.schema # Nil THEN o' = g /\ UNCHANGED phase
                        ELSE phase' = "panicked" /\ UNCHANGED o
  BY DEF ExitStructFieldRule, Visit
<1>5. o.schema # Nil => FieldsFit(g, seen, Open \ {Entered})
  BY <1>1, ExitStructFieldFits
<1> HIDE DEF g
<1> QED
  BY <1>1, <1>3, <1>4, <1>5, ExitWalks DEF Typeds

LEMMA ExitOperationReturnRuleWalks ==
  ASSUME TreeDone, WalkInv, ~ wrong, ExitOperationReturnRule
  PROVE  Walks
<1> DEFINE g == [o EXCEPT !.return.schema = o.schema,
                         !.operation.return = [o.return EXCEPT !.schema = o.schema],
                         !.schema = Nil]
<1>1. Leaving("return")
  BY DEF ExitOperationReturnRule, Leaving
<1>3. UNCHANGED <<parserVars, modules>> /\ ~ wrong'
  BY DEF ExitOperationReturnRule, Visit
<1>4. IF o.schema # Nil THEN o' = g /\ UNCHANGED phase
                        ELSE phase' = "panicked" /\ UNCHANGED o
  BY DEF ExitOperationReturnRule, Visit
<1>5. o.schema # Nil => FieldsFit(g, seen, Open \ {Entered})
  BY <1>1, ExitOperationReturnFits
<1> HIDE DEF g
<1> QED
  BY <1>1, <1>3, <1>4, <1>5, ExitWalks DEF Typeds

(* A parameter that is not an operation's is a signal's.                   *)
LEMMA ExitParamSignal ==
  ASSUME Leaving("param"), o.operation = Nil
  PROVE  o.signal # Nil
<1> DEFINE n == Owner(Entered)
<1>1. /\ TreeDone /\ OnPath /\ Readable /\ FieldsFit(o, seen, Open)
      /\ tree[Entered].rule = "param" /\ Entered \in 2 .. Len(tree) /\ n \in Open
  BY LeavingFacts
<1>2. tree[n].rule \in {"operation", "signal"}
  BY <1>1, OwnerFacts
<1>3. /\ In("operation") => o.operation \in Operations
      /\ In("signal") => o.signal \in Signals
  BY <1>1, FieldsTyped
<1>4. ~ In("operation")
  BY <1>3, NilAssumption
<1>5. In("signal")
  BY <1>1, <1>2, <1>4 DEF In
<1> QED
  BY <1>3, <1>5, NilAssumption

LEMMA ExitOperationParamRuleWalks ==
  ASSUME TreeDone, WalkInv, ~ wrong, ExitOperationParamRule
  PROVE  Walks
<1> DEFINE param == [o.param EXCEPT !.schema = o.schema]
           g == [Attach("operation", "params", param) EXCEPT !.param = Nil, !.schema = Nil]
           h == [Attach("signal", "params", param) EXCEPT !.param = Nil, !.schema = Nil]
<1>1. Leaving("param")
  BY DEF ExitOperationParamRule, Leaving
<1>2. /\ errors = 0 => o.schema # Nil
      /\ o.schema # Nil =>
           \E j \in 2 .. Len(tree) : tree[j].parent = Entered /\ tree[j].rule = "schema"
  BY <1>1, SchemaOnExit DEF Typeds
<1>3. UNCHANGED <<parserVars, modules>> /\ ~ wrong'
  BY <1>2 DEF ExitOperationParamRule, Visit
<1>4. /\ o.schema # Nil /\ o.operation # Nil => o' = g /\ UNCHANGED phase
      /\ o.schema # Nil /\ o.operation = Nil /\ o.signal # Nil => o' = h /\ UNCHANGED phase
      /\ o.schema = Nil => phase' = "panicked" /\ UNCHANGED o
  BY DEF ExitOperationParamRule, Visit
<1>5. CASE o.schema # Nil /\ o.operation # Nil
  <2>1. FieldsFit(g, seen, Open \ {Entered})
    BY <1>1, <1>5, ExitParamOfOperationFits
  <2>2. o' = g /\ UNCHANGED phase
    BY <1>4, <1>5
  <2> HIDE DEF g
  <2> QED
    BY <1>1, <1>2, <1>3, <1>5, <2>1, <2>2, ExitPasses
<1>6. CASE o.schema # Nil /\ o.operation = Nil
  <2>1. FieldsFit(h, seen, Open \ {Entered})
    BY <1>1, <1>6, ExitParamOfSignalFits
  <2>2. o.signal # Nil
    BY <1>1, <1>6, ExitParamSignal
  <2>3. o' = h /\ UNCHANGED phase
    BY <1>4, <1>6, <2>2
  <2> HIDE DEF h
  <2> QED
    BY <1>1, <1>2, <1>3, <1>6, <2>1, <2>3, ExitPasses
<1>7. CASE o.schema = Nil
  BY <1>1, <1>2, <1>3, <1>4, <1>7, ExitPanics
<1> QED
  BY <1>5, <1>6, <1>7

LEMMA NothingToDoWalks ==
  ASSUME TreeDone, WalkInv, ~ wrong, NothingToDo
  PROVE  Walks
<1>1. UNCHANGED <<parserVars, modules, phase>> /\ ~ wrong' /\ o' = o
  BY DEF NothingToDo
<1>2. CASE \E r \in {"document", "header", "declarations", "members", "meta"} : Enter(r)
  <2>1. PICK r \in {"document", "header", "declarations", "members", "meta"} : Enter(r)
    BY <1>2
  <2>2. Entering(r)
    BY <2>1 DEF Entering
  <2>3. FieldsFit(o', seen + 1, Open \cup {seen + 1})
    BY <1>1, <2>1, <2>2, EnterOtherFits
  <2>4. Unnamed(r) = {} /\ r # "member"
    BY <2>1 DEF Unnamed
  <2> QED
    BY <1>1, <2>2, <2>3, <2>4, EnterPasses
<1>3. CASE \E r \in {"header", "import", "declarations", "members", "primitive", "symbol",
                     "array", "meta"} : Exit(r)
  <2>1. PICK r \in {"header", "import", "declarations", "members", "primitive", "symbol",
                    "array", "meta"} : Exit(r)
    BY <1>3
  <2>2. Leaving(r)
    BY <2>1 DEF Leaving
  <2>3. FieldsFit(o', seen, Open \ {Entered})
    BY <1>1, <2>1, <2>2, ExitOtherFits
  <2>4. r # "document" /\ r \notin Typeds
    BY <2>1 DEF Typeds
  <2> QED
    BY <1>1, <2>2, <2>3, <2>4, ExitPasses
<1> QED
  BY <1>2, <1>3 DEF NothingToDo

(* The walk, up to its end.                                                *)
LEMMA WalkStep ==
  ASSUME TreeDone, WalkInv, ~ wrong, Walk
  PROVE  Walks \/ ExitDocumentRule
BY EnterModuleRuleWalks, ExitModuleRuleWalks, EnterImportRuleWalks, EnterExternRuleWalks,
   ExitExternRuleWalks, EnterInterfaceRuleWalks, ExitInterfaceRuleWalks,
   EnterPropertyRuleWalks, ExitPropertyRuleWalks, EnterOperationRuleWalks,
   ExitOperationRuleWalks, EnterOperationReturnRuleWalks, ExitOperationReturnRuleWalks,
   EnterOperationParamRuleWalks, ExitOperationParamRuleWalks, EnterSignalRuleWalks,
   ExitSignalRuleWalks, EnterStructRuleWalks, ExitStructRuleWalks,
   EnterStructFieldRuleWalks, ExitStructFieldRuleWalks, EnterEnumRuleWalks,
   ExitEnumRuleWalks, EnterEnumMemberRuleWalks, ExitEnumMemberRuleWalks,
   EnterSchemaRuleWalks, ExitSchemaRuleWalks, EnterPrimitiveSchemaWalks,
   EnterSymbolSchemaWalks, EnterArrayRuleWalks, NothingToDoWalks
   DEF Walk

----------------
(* The walk keeps the parser, the parser keeps the walk. *)

(***************************************************************************)
(* What the tree says stays, as the tree does.                             *)
(***************************************************************************)
LEMMA SameBelow ==
  ASSUME tree' = tree
  PROVE  /\ \A r, n : Below(r, n)' = Below(r, n)
         /\ \A n : Metas(n)' = Metas(n)
         /\ \A S : InOrder(S)' = InOrder(S)
<1>1. \A r, n : Below(r, n)' = Below(r, n)
  BY DEF Below, Owner
<1>2. \A n : Metas(n)' = Metas(n)
  BY DEF Metas
<1>3. \A S : InOrder(S)' = InOrder(S)
  BY DEF InOrder
<1> QED
  BY <1>1, <1>2, <1>3

LEMMA SameList ==
  ASSUME tree' = tree
  PROVE  /\ \A r, n : Under(r, n)' = Under(r, n)
         /\ \A r, n, D : List(r, n, D)' = List(r, n, D)
         /\ \A n : TypeAt(n)' = TypeAt(n)
         /\ \A n : SchemaAt(n)' = SchemaAt(n)
         /\ \A n : TypedAt(n)' = TypedAt(n)
         /\ \A s, n : SchemaSoFar(s, n)' = SchemaSoFar(s, n)
<1>1. \A r, n : Under(r, n)' = Under(r, n)
  BY SameBelow DEF Under
<1>2. \A r, n, D : List(r, n, D)' = List(r, n, D)
  BY SameBelow DEF List
<1>3. \A n : TypeAt(n)' = TypeAt(n)
  BY SameBelow DEF TypeAt, The
<1>4. \A n : SchemaAt(n)' = SchemaAt(n)
  <2> TAKE n
  <2>1. The(Below("schema", n))' = The(Below("schema", n))
    BY SameBelow DEF The
  <2>2. PICK t : t = The(Below("schema", n))
    OBVIOUS
  <2>3. TypeAt(t)' = TypeAt(t) /\ Below("array", t)' = Below("array", t)
    BY <1>3, SameBelow
  <2>4. SchemaAt(n)' = [import |-> TypeAt(t)'[1], type |-> TypeAt(t)'[2],
                        array |-> Below("array", t)' # {}, kind |-> ""]
    BY <2>1, <2>2 DEF SchemaAt
  <2>5. SchemaAt(n) = [import |-> TypeAt(t)[1], type |-> TypeAt(t)[2],
                       array |-> Below("array", t) # {}, kind |-> ""]
    BY <2>2 DEF SchemaAt
  <2> QED
    BY <2>3, <2>4, <2>5
<1>5. \A n : TypedAt(n)' = TypedAt(n)
  BY <1>4, SameBelow DEF TypedAt
<1>6. \A s, n : TypeSoFar(s, n)' = TypeSoFar(s, n)
  BY SameBelow DEF TypeSoFar, The
<1>7. \A s, n : SchemaSoFar(s, n)' = SchemaSoFar(s, n)
  BY <1>6, SameBelow DEF SchemaSoFar
<1> QED
  BY <1>1, <1>2, <1>3, <1>4, <1>5, <1>7

LEMMA SameParts ==
  ASSUME tree' = tree
  PROVE  /\ \A n : OperationAt(n)' = OperationAt(n)
         /\ \A n : SignalAt(n)' = SignalAt(n)
         /\ \A n : StructAt(n)' = StructAt(n)
         /\ \A n : ExternAt(n)' = ExternAt(n)
         /\ \A n : MemberAt(n)' = MemberAt(n)
         /\ \A n, s : Unnumbered(n, s)' = Unnumbered(n, s)
<1>1. /\ \A r, n : Below(r, n)' = Below(r, n)
      /\ \A n : Metas(n)' = Metas(n)
      /\ \A r, n : Under(r, n)' = Under(r, n)
      /\ \A n : TypedAt(n)' = TypedAt(n)
  BY SameBelow, SameList
<1>2. \A n : OperationAt(n)' = OperationAt(n)
  <2> TAKE n
  <2> DEFINE ret == IF Below("return", n) = {} THEN Nil ELSE TypedAt(The(Below("return", n)))
             params == Map(Under("param", n), TypedAt)
  <2>1. ret' = ret
    <3>1. The(Below("return", n))' = The(Below("return", n))
      BY <1>1 DEF The
    <3>2. PICK t : t = The(Below("return", n))
      OBVIOUS
    <3>3. TypedAt(t)' = TypedAt(t) /\ Below("return", n)' = Below("return", n)
      BY <1>1
    <3> QED
      BY <3>1, <3>2, <3>3
  <2>2. params' = params
    BY <1>1 DEF Map
  <2> HIDE DEF ret, params
  <2>3. OperationAt(n)' = [name |-> tree'[n].name, params |-> params', metas |-> Metas(n)',
                           return |-> ret']
    BY DEF OperationAt, ret, params
  <2>4. OperationAt(n) = [name |-> tree[n].name, params |-> params, metas |-> Metas(n),
                          return |-> ret]
    BY DEF OperationAt, ret, params
  <2> QED
    BY <1>1, <2>1, <2>2, <2>3, <2>4
<1>3. \A n : SignalAt(n)' = SignalAt(n)
  BY <1>1 DEF SignalAt, Map
<1>4. \A n : StructAt(n)' = StructAt(n)
  BY <1>1 DEF StructAt, Map
<1>5. \A n : ExternAt(n)' = ExternAt(n)
  BY <1>1 DEF ExternAt
<1>6. \A n : MemberAt(n)' = MemberAt(n)
  BY <1>1 DEF MemberAt
<1>7. \A n, s : Unnumbered(n, s)' = Unnumbered(n, s)
  BY <1>1 DEF Unnumbered
<1> QED
  BY <1>2, <1>3, <1>4, <1>5, <1>6, <1>7

LEMMA SameWhole ==
  ASSUME tree' = tree
  PROVE  /\ \A n : InterfaceAt(n)' = InterfaceAt(n)
         /\ \A n : EnumAt(n)' = EnumAt(n)
         /\ \A n : ModuleAt(n)' = ModuleAt(n)
<1>1. /\ \A n : Metas(n)' = Metas(n)
      /\ \A r, n : Under(r, n)' = Under(r, n)
      /\ \A n : TypedAt(n)' = TypedAt(n)
      /\ \A n : OperationAt(n)' = OperationAt(n)
      /\ \A n : SignalAt(n)' = SignalAt(n)
      /\ \A n : StructAt(n)' = StructAt(n)
      /\ \A n : ExternAt(n)' = ExternAt(n)
      /\ \A n : MemberAt(n)' = MemberAt(n)
  BY SameBelow, SameList, SameParts
<1>2. \A n : InterfaceAt(n)' = InterfaceAt(n)
  BY <1>1 DEF InterfaceAt, Map
<1>3. \A n : EnumAt(n)' = EnumAt(n)
  BY <1>1 DEF EnumAt, Map
<1>4. \A n : ModuleAt(n)' = ModuleAt(n)
  BY <1>1, <1>2, <1>3 DEF ModuleAt, Map
<1> QED
  BY <1>2, <1>3, <1>4

LEMMA SameSoFar ==
  ASSUME tree' = tree
  PROVE  /\ \A n, D : OperationSoFar(n, D)' = OperationSoFar(n, D)
         /\ \A n, D : SignalSoFar(n, D)' = SignalSoFar(n, D)
         /\ \A n, D : InterfaceSoFar(n, D)' = InterfaceSoFar(n, D)
         /\ \A n, D : StructSoFar(n, D)' = StructSoFar(n, D)
         /\ \A n, D : EnumSoFar(n, D)' = EnumSoFar(n, D)
         /\ \A s, P : ModuleSoFar(s, P)' = ModuleSoFar(s, P)
<1>1. /\ \A r, n : Below(r, n)' = Below(r, n)
      /\ \A n : Metas(n)' = Metas(n)
      /\ \A r, n, D : List(r, n, D)' = List(r, n, D)
      /\ \A n : TypedAt(n)' = TypedAt(n)
      /\ \A n : OperationAt(n)' = OperationAt(n)
      /\ \A n : SignalAt(n)' = SignalAt(n)
      /\ \A n : StructAt(n)' = StructAt(n)
      /\ \A n : ExternAt(n)' = ExternAt(n)
      /\ \A n : MemberAt(n)' = MemberAt(n)
      /\ \A n : InterfaceAt(n)' = InterfaceAt(n)
      /\ \A n : EnumAt(n)' = EnumAt(n)
  BY SameBelow, SameList, SameParts, SameWhole
<1>2. \A n, D : OperationSoFar(n, D)' = OperationSoFar(n, D)
  <2> TAKE n, D
  <2> DEFINE ret == IF Below("return", n) \cap D = {} THEN Nil
                    ELSE TypedAt(The(Below("return", n)))
             params == Map(List("param", n, D), TypedAt)
  <2>1. ret' = ret
    <3>1. The(Below("return", n))' = The(Below("return", n))
      BY <1>1 DEF The
    <3>2. PICK t : t = The(Below("return", n))
      OBVIOUS
    <3>3. TypedAt(t)' = TypedAt(t) /\ Below("return", n)' = Below("return", n)
      BY <1>1
    <3> QED
      BY <3>1, <3>2, <3>3
  <2>2. params' = params
    BY <1>1 DEF Map
  <2> HIDE DEF ret, params
  <2>3. OperationSoFar(n, D)' = [name |-> tree'[n].name, params |-> params', metas |-> {},
                                 return |-> ret']
    BY DEF OperationSoFar, ret, params
  <2>4. OperationSoFar(n, D) = [name |-> tree[n].name, params |-> params, metas |-> {},
                                return |-> ret]
    BY DEF OperationSoFar, ret, params
  <2> QED
    BY <2>1, <2>2, <2>3, <2>4
<1>3. \A n, D : SignalSoFar(n, D)' = SignalSoFar(n, D)
  BY <1>1 DEF SignalSoFar, Map
<1>4. \A n, D : InterfaceSoFar(n, D)' = InterfaceSoFar(n, D)
  BY <1>1 DEF InterfaceSoFar, Map
<1>5. \A n, D : StructSoFar(n, D)' = StructSoFar(n, D)
  BY <1>1 DEF StructSoFar, Map
<1>6. \A n, D : EnumSoFar(n, D)' = EnumSoFar(n, D)
  BY <1>1 DEF EnumSoFar, Map
<1>7. \A s, P : ModuleSoFar(s, P)' = ModuleSoFar(s, P)
  <2> TAKE s, P
  <2> DEFINE metas == IF 3 \in P THEN {} ELSE Metas(3)
             imports == Map(List("import", 1, 1 .. s), LAMBDA i : tree[i].name)
             externs == Map(List("extern", 1, Walked(s, P)), ExternAt)
             interfaces == Map(List("interface", 1, Walked(s, P)), InterfaceAt)
             structs == Map(List("struct", 1, Walked(s, P)), StructAt)
             enums == Map(List("enum", 1, Walked(s, P)), EnumAt)
  <2>1. metas' = metas /\ tree'[3].name = tree[3].name
    BY <1>1
  <2>2. imports' = imports
    BY <1>1 DEF Map
  <2>3. externs' = externs
    BY <1>1 DEF Map, Walked
  <2>4. interfaces' = interfaces
    BY <1>1 DEF Map, Walked
  <2>5. structs' = structs
    BY <1>1 DEF Map, Walked
  <2>6. enums' = enums
    BY <1>1 DEF Map, Walked
  <2> HIDE DEF metas, imports, externs, interfaces, structs, enums
  <2>7. ModuleSoFar(s, P)' =
          [name |-> tree'[3].name, metas |-> metas', imports |-> imports', externs |-> externs',
           interfaces |-> interfaces', structs |-> structs', enums |-> enums']
    BY DEF ModuleSoFar, metas, imports, externs, interfaces, structs, enums
  <2>8. ModuleSoFar(s, P) =
          [name |-> tree[3].name, metas |-> metas, imports |-> imports, externs |-> externs,
           interfaces |-> interfaces, structs |-> structs, enums |-> enums]
    BY DEF ModuleSoFar, metas, imports, externs, interfaces, structs, enums
  <2> QED
    BY <2>1, <2>2, <2>3, <2>4, <2>5, <2>6, <2>7, <2>8
<1> QED
  BY <1>2, <1>3, <1>4, <1>5, <1>6, <1>7

(* What fits the tree fits it still.                                       *)
LEMMA SameFits ==
  ASSUME tree' = tree, FieldsFit(o', seen', Open')
  PROVE  FieldsFit(o, seen, Open)'
<1>1. /\ IsFields(o') /\ ModuleFits(o', seen', Open') /\ InterfaceFits(o', seen', Open')
      /\ ExternFits(o', Open') /\ StructFits(o', seen', Open') /\ EnumFits(o', seen', Open')
      /\ MemberFits(o', Open') /\ OperationFits(o', seen', Open') /\ ParamFits(o', Open')
      /\ SignalFits(o', seen', Open') /\ PropertyFits(o', Open') /\ FieldFits(o', Open')
      /\ RunningFits(o', seen', Open') /\ ReturnIsKept(o', seen', Open')
      /\ SchemaIsKept(o', seen', Open')
  BY DEF FieldsFit
<1>2. IsFields(o)'
  BY <1>1 DEF IsFields
<1>3. ModuleFits(o, seen, Open)'
  BY <1>1, SameSoFar DEF ModuleFits
<1>4. InterfaceFits(o, seen, Open)'
  BY <1>1, SameSoFar DEF InterfaceFits, Held, Walked
<1>5. ExternFits(o, Open)'
  BY <1>1 DEF ExternFits, Held
<1>6. StructFits(o, seen, Open)'
  BY <1>1, SameSoFar DEF StructFits, Held, Walked
<1>7. EnumFits(o, seen, Open)'
  BY <1>1, SameSoFar DEF EnumFits, Held, Walked
<1>8. MemberFits(o, Open)'
  BY <1>1, SameParts DEF MemberFits, Held
<1>9. OperationFits(o, seen, Open)'
  BY <1>1, SameSoFar DEF OperationFits, Held, Walked
<1>10. ParamFits(o, Open)'
  BY <1>1 DEF ParamFits, Held
<1>11. SignalFits(o, seen, Open)'
  BY <1>1, SameSoFar DEF SignalFits, Held, Walked
<1>12. PropertyFits(o, Open)'
  BY <1>1 DEF PropertyFits, Held
<1>13. FieldFits(o, Open)'
  BY <1>1 DEF FieldFits, Held
<1>14. RunningFits(o, seen, Open)'
  BY <1>1, SameParts DEF RunningFits
<1>15. ReturnIsKept(o, seen, Open)'
  BY <1>1, SameList DEF ReturnIsKept, Kept
<1>16. SchemaIsKept(o, seen, Open)'
  BY <1>1, SameList DEF SchemaIsKept, Kept
<1> QED
  BY <1>2, <1>3, <1>4, <1>5, <1>6, <1>7, <1>8, <1>9, <1>10, <1>11, <1>12, <1>13, <1>14, <1>15,
     <1>16 DEF FieldsFit

----------------
(* The validation keeps the types. *)

(***************************************************************************)
(* Validating keeps the model's types.                                     *)
(***************************************************************************)
LEMMA SeqByIndex ==
  ASSUME NEW S, NEW s \in Seq(S), NEW T, NEW t, DOMAIN t = DOMAIN s,
         t = [i \in DOMAIN t |-> t[i]], \A i \in DOMAIN s : t[i] \in T
  PROVE  t \in Seq(T) /\ Len(t) = Len(s)
<1>1. Len(s) \in Nat /\ DOMAIN s = 1 .. Len(s)
  OBVIOUS
<1>2. t \in [1 .. Len(s) -> T]
  BY <1>1
<1>3. Len(t) = Len(s)
  BY <1>1, <1>2
<1>4. t \in Seq(T)
  BY <1>1, <1>2
<1> QED
  BY <1>3, <1>4

LEMMA ResolveTyped == \A system, m, s : Resolve(system, m, s) \in SchemaKinds
<1> TAKE system, m, s
<1>1. Symbol(system, m, s) \in SchemaKinds
  BY DEF Symbol, SchemaKinds
<1>2. CASE s.type \in {"", "void"}
  BY <1>2 DEF Resolve, SchemaKinds, Primitives
<1>3. CASE s.type \in Primitives
  <2>1. s.type \notin {"", "void"}
    BY <1>3 DEF Primitives
  <2>2. Resolve(system, m, s) = s.type
    BY <1>3, <2>1 DEF Resolve
  <2> QED
    BY <1>3, <2>2 DEF SchemaKinds
<1>4. CASE s.type \notin {"", "void"} /\ s.type \notin Primitives
  <2>1. Resolve(system, m, s) = Symbol(system, m, s)
    BY <1>4 DEF Resolve
  <2> QED
    BY <1>1, <2>1
<1> QED
  BY <1>2, <1>3, <1>4

LEMMA ValidSchemaTyped ==
  ASSUME NEW system, NEW m, NEW s \in Schemas
  PROVE  ValidSchema(system, m, s) \in Schemas
<1>1. Resolve(system, m, s) \in SchemaKinds
  BY ResolveTyped
<1>2. "void" \in Text
  BY DocumentAssumption
<1> QED
  BY <1>1, <1>2 DEF ValidSchema, Schemas

LEMMA ValidNodeTyped ==
  ASSUME NEW system, NEW m, NEW node \in TypedNodes
  PROVE  ValidNode(system, m, node) \in TypedNodes
<1>1. node.schema \in Schemas
  BY DEF TypedNodes
<1>2. ValidSchema(system, m, node.schema) \in Schemas
  BY <1>1, ValidSchemaTyped
<1> QED
  BY <1>2 DEF ValidNode, TypedNodes

LEMMA ValidNodesTyped ==
  ASSUME NEW system, NEW m, NEW nodes \in Seq(TypedNodes)
  PROVE  ValidNodes(system, m, nodes) \in Seq(TypedNodes)
<1> DEFINE t == ValidNodes(system, m, nodes)
<1>1. t = [i \in DOMAIN nodes |-> ValidNode(system, m, nodes[i])]
  BY DEF ValidNodes, Map
<1>2. \A i \in DOMAIN nodes : nodes[i] \in TypedNodes
  OBVIOUS
<1>3. \A i \in DOMAIN nodes : ValidNode(system, m, nodes[i]) \in TypedNodes
  BY <1>2, ValidNodeTyped
<1>4. DOMAIN t = DOMAIN nodes /\ \A i \in DOMAIN nodes : t[i] \in TypedNodes
  BY <1>1, <1>3
<1>5. t = [i \in DOMAIN t |-> t[i]]
  BY <1>1
<1> HIDE DEF t
<1>6. t \in Seq(TypedNodes)
  BY <1>4, <1>5, SeqByIndex
<1> QED
  BY <1>6 DEF t

LEMMA NewTypedNodeTyped ==
  \A name \in Text : \A readonly \in BOOLEAN : NewTypedNode(name, readonly) \in TypedNodes
<1> TAKE name \in Text
<1> TAKE readonly \in BOOLEAN
<1>1. Schema("", "void") \in Schemas
  BY DocumentAssumption DEF Schema, Schemas, SchemaKinds
<1>2. {} \in Metadata
  BY DEF Metadata
<1> HIDE DEF Metadata
<1> QED
  BY <1>1, <1>2 DEF NewTypedNode, TypedNodes

LEMMA ValidOperationTyped ==
  ASSUME NEW system, NEW m, NEW op \in Operations
  PROVE  ValidOperation(system, m, op) \in Operations
<1> DEFINE ret == IF op.return = Nil THEN NewTypedNode("", FALSE) ELSE op.return
<1>1. op.params \in Seq(TypedNodes) /\ op.return \in TypedNodes \cup {Nil}
  BY DEF Operations
<1>2. NewTypedNode("", FALSE) \in TypedNodes
  BY DocumentAssumption, NewTypedNodeTyped
<1>3. ret \in TypedNodes
  BY <1>1, <1>2
<1> HIDE DEF ret
<1>4. ValidNode(system, m, ret) \in TypedNodes /\ ValidNodes(system, m, op.params) \in Seq(TypedNodes)
  BY <1>1, <1>3, ValidNodeTyped, ValidNodesTyped
<1>5. ValidOperation(system, m, op) =
        [op EXCEPT !.params = ValidNodes(system, m, op.params), !.return = ValidNode(system, m, ret)]
  BY DEF ValidOperation, ret
<1> QED
  BY <1>4, <1>5 DEF Operations

LEMMA ValidSignalTyped ==
  ASSUME NEW system, NEW m, NEW sig \in Signals
  PROVE  ValidSignal(system, m, sig) \in Signals
<1>1. sig.params \in Seq(TypedNodes)
  BY DEF Signals
<1>2. ValidNodes(system, m, sig.params) \in Seq(TypedNodes)
  BY <1>1, ValidNodesTyped
<1> QED
  BY <1>2 DEF ValidSignal, Signals

LEMMA ValidStructTyped ==
  ASSUME NEW system, NEW m, NEW s \in Structs
  PROVE  ValidStruct(system, m, s) \in Structs
<1>1. s.fields \in Seq(TypedNodes)
  BY DEF Structs
<1>2. ValidNodes(system, m, s.fields) \in Seq(TypedNodes)
  BY <1>1, ValidNodesTyped
<1> QED
  BY <1>2 DEF ValidStruct, Structs

LEMMA ValidEnumTyped ==
  ASSUME NEW e \in Enums
  PROVE  ValidEnum(e) \in Enums
<1> DEFINE u == e.members
           t == [i \in DOMAIN u |-> [u[i] EXCEPT !.value = i - 1]]
<1>1. u \in Seq(Members)
  BY DEF Enums
<1>2. \A i \in DOMAIN u : u[i] \in Members /\ i - 1 \in Int
  BY <1>1
<1>3. \A i \in DOMAIN u : [u[i] EXCEPT !.value = i - 1] \in Members
  <2> TAKE i \in DOMAIN u
  <2> QED
    BY <1>2 DEF Members
<1>4. DOMAIN t = DOMAIN u /\ t = [i \in DOMAIN t |-> t[i]] /\ \A i \in DOMAIN u : t[i] \in Members
  BY <1>3
<1> HIDE DEF t, u
<1>5. t \in Seq(Members)
  BY <1>1, <1>4, SeqByIndex
<1>6. ValidEnum(e) = IF \A i \in DOMAIN e.members : e.members[i].value = 0
                       THEN [e EXCEPT !.members = t] ELSE e
  BY DEF ValidEnum, t, u
<1>7. [e EXCEPT !.members = t] \in Enums
  BY <1>5 DEF Enums
<1> QED
  BY <1>6, <1>7

LEMMA ValidInterfaceTyped ==
  ASSUME NEW system, NEW m \in Modules, NEW f \in Interfaces
  PROVE  ValidInterface(system, m, f) \in Interfaces
<1> DEFINE ext == IF f.extends # Nil /\ f.extends[1] = "" THEN <<m.name, f.extends[2]>>
                  ELSE f.extends
           ops == Map(f.operations, LAMBDA op : ValidOperation(system, m, op))
           sigs == Map(f.signals, LAMBDA sig : ValidSignal(system, m, sig))
           props == ValidNodes(system, m, f.properties)
<1>1. /\ f.extends \in (Text \X Text) \cup {Nil} /\ f.properties \in Seq(TypedNodes)
      /\ f.operations \in Seq(Operations) /\ f.signals \in Seq(Signals)
  BY DEF Interfaces
<1>2. ext \in (Text \X Text) \cup {Nil}
  <2>1. m.name \in Text
    BY DEF Modules
  <2>2. f.extends # Nil => f.extends[2] \in Text
    BY <1>1
  <2> QED
    BY <1>1, <2>1, <2>2
<1>3. props \in Seq(TypedNodes)
  BY <1>1, ValidNodesTyped
<1>4. ops \in Seq(Operations)
  <2> DEFINE u == f.operations
  <2>1. \A i \in DOMAIN u : u[i] \in Operations
    BY <1>1
  <2>2. \A i \in DOMAIN u : ValidOperation(system, m, u[i]) \in Operations
    BY <2>1, ValidOperationTyped
  <2>3. ops = [i \in DOMAIN u |-> ValidOperation(system, m, u[i])]
    BY DEF Map
  <2>4. /\ DOMAIN ops = DOMAIN u /\ ops = [i \in DOMAIN ops |-> ops[i]]
        /\ \A i \in DOMAIN u : ops[i] \in Operations
    BY <2>2, <2>3
  <2> HIDE DEF ops
  <2> QED
    BY <1>1, <2>4, SeqByIndex
<1>5. sigs \in Seq(Signals)
  <2> DEFINE u == f.signals
  <2>1. \A i \in DOMAIN u : u[i] \in Signals
    BY <1>1
  <2>2. \A i \in DOMAIN u : ValidSignal(system, m, u[i]) \in Signals
    BY <2>1, ValidSignalTyped
  <2>3. sigs = [i \in DOMAIN u |-> ValidSignal(system, m, u[i])]
    BY DEF Map
  <2>4. /\ DOMAIN sigs = DOMAIN u /\ sigs = [i \in DOMAIN sigs |-> sigs[i]]
        /\ \A i \in DOMAIN u : sigs[i] \in Signals
    BY <2>2, <2>3
  <2> HIDE DEF sigs
  <2> QED
    BY <1>1, <2>4, SeqByIndex
<1>6. ValidInterface(system, m, f) =
        [f EXCEPT !.extends = ext, !.properties = props, !.operations = ops, !.signals = sigs]
  BY DEF ValidInterface
<1> HIDE DEF ext, ops, sigs, props
<1> QED
  BY <1>2, <1>3, <1>4, <1>5, <1>6 DEF Interfaces

LEMMA ValidModuleTyped ==
  ASSUME NEW system, NEW m \in Modules
  PROVE  ValidModule(system, m) \in Modules
<1> DEFINE is == Map(m.interfaces, LAMBDA i : ValidInterface(system, m, i))
           ss == Map(m.structs, LAMBDA s : ValidStruct(system, m, s))
           es == Map(m.enums, ValidEnum)
<1>1. /\ m.interfaces \in Seq(Interfaces) /\ m.structs \in Seq(Structs)
      /\ m.enums \in Seq(Enums)
  BY DEF Modules
<1>2. is \in Seq(Interfaces)
  <2> DEFINE u == m.interfaces
  <2>1. \A i \in DOMAIN u : u[i] \in Interfaces
    BY <1>1
  <2>2. \A i \in DOMAIN u : ValidInterface(system, m, u[i]) \in Interfaces
    BY <2>1, ValidInterfaceTyped
  <2>3. is = [i \in DOMAIN u |-> ValidInterface(system, m, u[i])]
    BY DEF Map
  <2>4. /\ DOMAIN is = DOMAIN u /\ is = [i \in DOMAIN is |-> is[i]]
        /\ \A i \in DOMAIN u : is[i] \in Interfaces
    BY <2>2, <2>3
  <2> HIDE DEF is
  <2> QED
    BY <1>1, <2>4, SeqByIndex
<1>3. ss \in Seq(Structs)
  <2> DEFINE u == m.structs
  <2>1. \A i \in DOMAIN u : u[i] \in Structs
    BY <1>1
  <2>2. \A i \in DOMAIN u : ValidStruct(system, m, u[i]) \in Structs
    BY <2>1, ValidStructTyped
  <2>3. ss = [i \in DOMAIN u |-> ValidStruct(system, m, u[i])]
    BY DEF Map
  <2>4. /\ DOMAIN ss = DOMAIN u /\ ss = [i \in DOMAIN ss |-> ss[i]]
        /\ \A i \in DOMAIN u : ss[i] \in Structs
    BY <2>2, <2>3
  <2> HIDE DEF ss
  <2> QED
    BY <1>1, <2>4, SeqByIndex
<1>4. es \in Seq(Enums)
  <2> DEFINE u == m.enums
  <2>1. \A i \in DOMAIN u : u[i] \in Enums
    BY <1>1
  <2>2. \A i \in DOMAIN u : ValidEnum(u[i]) \in Enums
    BY <2>1, ValidEnumTyped
  <2>3. es = [i \in DOMAIN u |-> ValidEnum(u[i])]
    BY DEF Map
  <2>4. /\ DOMAIN es = DOMAIN u /\ es = [i \in DOMAIN es |-> es[i]]
        /\ \A i \in DOMAIN u : es[i] \in Enums
    BY <2>2, <2>3
  <2> HIDE DEF es
  <2> QED
    BY <1>1, <2>4, SeqByIndex
<1>5. ValidModule(system, m) = [m EXCEPT !.interfaces = is, !.structs = ss, !.enums = es]
  BY DEF ValidModule
<1> HIDE DEF is, ss, es
<1> QED
  BY <1>2, <1>3, <1>4, <1>5 DEF Modules

LEMMA ValidatedTyped ==
  ASSUME NEW system \in Seq(Modules)
  PROVE  Validated(system) \in Seq(Modules) /\ Len(Validated(system)) = Len(system)
<1> DEFINE t == Validated(system)
<1>1. \A i \in DOMAIN system : system[i] \in Modules
  OBVIOUS
<1>2. \A i \in DOMAIN system : ValidModule(system, system[i]) \in Modules
  BY <1>1, ValidModuleTyped
<1>3. t = [i \in DOMAIN system |-> ValidModule(system, system[i])]
  BY DEF Validated, Map
<1>4. /\ DOMAIN t = DOMAIN system /\ t = [i \in DOMAIN t |-> t[i]]
      /\ \A i \in DOMAIN system : t[i] \in Modules
  BY <1>2, <1>3
<1> HIDE DEF t
<1>5. t \in Seq(Modules) /\ Len(t) = Len(system)
  BY <1>4, SeqByIndex
<1> QED
  BY <1>5 DEF t

----------------
(* The first state, and the steps of the parser. *)

LEMMA NoFieldsTyped == NoFields \in ListenerFields
BY DEF NoFields, ListenerFields

(* Where the walk begins.                                                  *)
LEMMA WalkBegins ==
  ASSUME seen' = 0, path' = <<>>, o' = NoFields, Len(tree') \in Nat
  PROVE  WalkInv'
<1>1. Open' = {}
  BY DEF Open
<1>2. OnPath'
  BY <1>1 DEF OnPath
<1>3. Readable'
  BY <1>1 DEF Readable, Walked
<1>4. /\ IsFields(o') /\ o'.module = Nil /\ o'.running = 0 /\ o'.return = Nil /\ o'.schema = Nil
      /\ o'.iface = Nil /\ o'.extern = Nil /\ o'.struct = Nil /\ o'.enum = Nil /\ o'.member = Nil
      /\ o'.operation = Nil /\ o'.param = Nil /\ o'.signal = Nil /\ o'.property = Nil
      /\ o'.field = Nil
  BY DEF NoFields, IsFields, FieldNames
<1>5. IsFields(o)'
  BY <1>4 DEF IsFields
<1>6. /\ ModuleFits(o, seen, Open)' /\ InterfaceFits(o, seen, Open)' /\ ExternFits(o, Open)'
      /\ StructFits(o, seen, Open)' /\ EnumFits(o, seen, Open)' /\ MemberFits(o, Open)'
      /\ OperationFits(o, seen, Open)' /\ ParamFits(o, Open)' /\ SignalFits(o, seen, Open)'
      /\ PropertyFits(o, Open)' /\ FieldFits(o, Open)' /\ RunningFits(o, seen, Open)'
  BY <1>1, <1>4 DEF ModuleFits, InterfaceFits, ExternFits, StructFits, EnumFits, MemberFits,
     OperationFits, ParamFits, SignalFits, PropertyFits, FieldFits, RunningFits, Held
<1>7. ReturnIsKept(o, seen, Open)' /\ SchemaIsKept(o, seen, Open)'
  BY <1>1, <1>4 DEF ReturnIsKept, SchemaIsKept, Kept
<1>8. FieldsFit(o, seen, Open)'
  BY <1>5, <1>6, <1>7 DEF FieldsFit
<1> QED
  BY <1>2, <1>3, <1>8 DEF WalkInv

LEMMA InitInv ==
  ASSUME Init
  PROVE  Inv
<1>1. ParserInv
  BY ParserInit
<1>2. Len(tree) = 1
  BY DEF Init
<1>3. /\ phase = "parse" /\ seen = 0 /\ path = <<>> /\ o = NoFields /\ rest = FALSE
      /\ wrong = FALSE /\ modules = <<>>
  BY DEF Init
<1>4. ListenerInv
  <2>1. phase \in Phases /\ phase # "walk"
    BY <1>3 DEF Phases
  <2>2. rest \in BOOLEAN /\ ~ wrong
    BY <1>3
  <2>3. seen \in 0 .. Len(tree)
    BY <1>2, <1>3
  <2>4. o \in ListenerFields
    BY <1>3, NoFieldsTyped
  <2> QED
    BY <1>3, <2>1, <2>2, <2>3, <2>4 DEF ListenerInv
<1>5. SystemInv
  <2>1. modules \in Seq(Modules) /\ Len(modules) = 0
    BY <1>3
  <2>2. 0 <= MaxModules
    BY Bounds
  <2>3. phase \notin {"panicked", "parsed", "valid"}
    BY <1>3
  <2> QED
    BY <1>3, <2>1, <2>2, <2>3 DEF SystemInv
<1> QED
  BY <1>1, <1>4, <1>5 DEF Inv

LEMMA ParseKeeps ==
  ASSUME Inv, Parse
  PROVE  Inv'
<1>1. ParserInv'
  BY ParseInv DEF Inv
<1>2. /\ UNCHANGED <<rest, path, seen, o, wrong, modules>> /\ phase = "parse"
      /\ phase' \in {"parse", "walk"}
  BY DEF Parse, EnterRule, Match, ConjureToken, SkipToken, ExitRule, AbandonRule, Parsing, Return,
     walkerVars
<1>3. Len(tree') \in Nat
  BY <1>1 DEF ParserInv, TreeInv, ParserTypes
<1>4. seen' = 0 /\ path' = <<>> /\ o' = NoFields
  BY <1>2 DEF Inv, ListenerInv
<1>5. WalkInv'
  BY <1>3, <1>4, WalkBegins
<1>6. ListenerInv'
  <2>1. /\ (phase \in Phases)' /\ (rest \in BOOLEAN)' /\ ~ wrong'
    BY <1>2 DEF Inv, ListenerInv, Phases
  <2>2. (seen \in 0 .. Len(tree))'
    BY <1>3, <1>4
  <2>3. (o \in ListenerFields)'
    BY <1>4, NoFieldsTyped DEF ListenerFields
  <2> QED
    BY <1>4, <1>5, <2>1, <2>2, <2>3 DEF ListenerInv
<1>7. SystemInv'
  BY <1>2 DEF Inv, SystemInv
<1> QED
  BY <1>1, <1>6, <1>7 DEF Inv

(* The parser is done, so what it made stays.                              *)
LEMMA ParserStays ==
  ASSUME ParserInv, UNCHANGED <<stack, tree, errors, recovering>>, phase # "parse", phase' # "parse"
  PROVE  ParserInv'
<1>1. ParserTypes'
  BY DEF ParserInv, ParserTypes
<1>2. \A n : OnStack(n)' = OnStack(n) /\ HasCalled(n)' = HasCalled(n)
  BY DEF OnStack, HasCalled
<1>3. TreeInv'
  <2>1. Called' /\ Nested' /\ CalledOnce' /\ Written'
    BY DEF ParserInv, TreeInv, Called, Nested, CalledOnce, Written
  <2>2. HeaderFirst'
    BY <1>2 DEF ParserInv, TreeInv, HeaderFirst
  <2>3. Whole'
    BY <1>2 DEF ParserInv, TreeInv, Whole
  <2> QED
    BY <2>1, <2>2, <2>3 DEF TreeInv
<1>4. StackFits' /\ StackIsOpen'
  BY DEF ParserInv, StackFits, StackIsOpen
<1>5. Positions'
  BY <1>2 DEF ParserInv, Positions
<1> QED
  BY <1>1, <1>3, <1>4, <1>5 DEF ParserInv

LEMMA SamePhase == ASSUME tree' = tree PROVE \A system : FromDocument(system)' = FromDocument(system)
BY SameWhole DEF FromDocument

----------------
(* The steps of the listener and of the system. *)

LEMMA SameListenerFields == ListenerFields' = ListenerFields
BY DEF ListenerFields

LEMMA WalkIsWalking ==
  ASSUME Walk
  PROVE  phase = "walk"
<1>1. \E r : Enter(r) \/ Exit(r)
  BY Zenon DEF Walk, Create, EnterModuleRule, ExitModuleRule, EnterImportRule, EnterExternRule,
     ExitExternRule, EnterInterfaceRule, ExitInterfaceRule, EnterPropertyRule, ExitPropertyRule,
     EnterOperationRule, ExitOperationRule, EnterOperationReturnRule, ExitOperationReturnRule,
     EnterOperationParamRule, ExitOperationParamRule, EnterSignalRule, ExitSignalRule,
     EnterStructRule, ExitStructRule, EnterStructFieldRule, ExitStructFieldRule, EnterEnumRule,
     ExitEnumRule, EnterEnumMemberRule, ExitEnumMemberRule, EnterSchemaRule, ExitSchemaRule,
     EnterPrimitiveSchema, EnterSymbolSchema, EnterArrayRule, ExitDocumentRule, NothingToDo
<1> QED
  BY <1>1 DEF Enter, Exit

LEMMA PhaseIsDone ==
  ASSUME Inv, phase = "walk"
  PROVE  TreeDone /\ WalkInv /\ ~ wrong /\ modules = <<>> /\ rest \in BOOLEAN /\ o \in ListenerFields
<1>1. TreeDone /\ WalkInv
  BY TreeIsDone DEF Inv, ListenerInv
<1>2. ~ wrong /\ modules = <<>> /\ rest \in BOOLEAN
  BY DEF Inv, ListenerInv, SystemInv
<1>3. o \in ListenerFields
  BY <1>1, FieldsOK DEF WalkInv
<1> QED
  BY <1>1, <1>2, <1>3

LEMMA WalksKeeps ==
  ASSUME Inv, phase = "walk", Walks
  PROVE  Inv'
<1>1. /\ TreeDone /\ WalkInv /\ ~ wrong /\ modules = <<>> /\ rest \in BOOLEAN
      /\ o \in ListenerFields
  BY PhaseIsDone
<1>2. /\ stack' = stack /\ tree' = tree /\ errors' = errors /\ recovering' = recovering
      /\ rest' = rest /\ modules' = modules /\ ~ wrong' /\ seen' \in 0 .. Len(tree)
  BY DEF Walks, parserVars
<1>3. \/ phase' = "panicked" /\ o' = o /\ (errors # 0 \/ AtHugeNumber')
      \/ phase' = "walk" /\ OnPath' /\ FieldsFit(o', seen', Open') /\ Readable'
  BY DEF Walks
<1>4. ParserInv'
  BY <1>2, <1>3, ParserStays DEF Inv
<1>5. phase' = "walk" => WalkInv'
  <2> HAVE phase' = "walk"
  <2>1. OnPath' /\ FieldsFit(o', seen', Open') /\ Readable'
    BY <1>3
  <2>2. FieldsFit(o, seen, Open)'
    BY <1>2, <2>1, SameFits
  <2> QED
    BY <2>1, <2>2 DEF WalkInv
<1>6. ListenerInv'
  <2>1. (phase \in Phases)' /\ phase' # "parse"
    BY <1>3 DEF Phases
  <2>2. (seen \in 0 .. Len(tree))'
    BY <1>2
  <2>3. phase' # "walk" => (o \in ListenerFields)'
    BY <1>1, <1>3, SameListenerFields
  <2> QED
    BY <1>1, <1>2, <1>5, <2>1, <2>2, <2>3 DEF ListenerInv
<1>7. SystemInv'
  <2>1. modules' = <<>> /\ modules' \in Seq(Modules) /\ Len(modules') <= MaxModules
    BY <1>1, <1>2 DEF Inv, SystemInv
  <2>2. phase' \in {"walk", "panicked"} /\ (phase' = "panicked" => errors' # 0 \/ AtHugeNumber')
    BY <1>2, <1>3
  <2> QED
    BY <2>1, <2>2 DEF SystemInv
<1> QED
  BY <1>4, <1>6, <1>7 DEF Inv

(* The document's module enters the system.                                *)
LEMMA DocumentKeeps ==
  ASSUME Inv, ExitDocumentRule
  PROVE  Inv'
<1>1. /\ phase = "walk" /\ Exit("document")
      /\ stack' = stack /\ tree' = tree /\ errors' = errors /\ recovering' = recovering
      /\ rest' \in BOOLEAN /\ wrong' = wrong /\ phase' = "parsed" /\ seen' = seen
      /\ modules' = Append(modules, o.module) /\ o' = [o EXCEPT !.module = Nil]
  BY DEF ExitDocumentRule, Exit
<1>2. /\ TreeDone /\ WalkInv /\ ~ wrong /\ modules = <<>>
      /\ o \in ListenerFields
  BY <1>1, PhaseIsDone
<1>3. o.module = ModuleAt(3) /\ o.module \in Modules
  BY <1>1, <1>2, ExitDocumentModule DEF Leaving
<1>4. ParserInv'
  BY <1>1, ParserStays DEF Inv
<1>5. ListenerInv'
  <2>1. (phase \in Phases)' /\ phase' # "parse" /\ phase' # "walk"
    BY <1>1 DEF Phases
  <2>2. (seen \in 0 .. Len(tree))'
    BY <1>1 DEF Inv, ListenerInv
  <2>3. (o \in ListenerFields)'
    <3>1. [o EXCEPT !.module = Nil] \in ListenerFields
      BY <1>2 DEF ListenerFields
    <3> QED
      BY <1>1, <3>1, SameListenerFields
  <2> QED
    BY <1>1, <1>2, <2>1, <2>2, <2>3 DEF ListenerInv
<1>6. SystemInv'
  <2>1. modules' = <<o.module>>
    BY <1>1, <1>2
  <2>2. modules' \in Seq(Modules) /\ Len(modules') = 1 /\ modules'[1] = o.module
    BY <1>3, <2>1
  <2>3. 1 <= MaxModules
    BY Bounds
  <2>4. FromDocument(modules')
    BY <1>3, <2>2 DEF FromDocument
  <2>5. FromDocument(modules)'
    BY <1>1, <2>4, SamePhase
  <2> QED
    BY <1>1, <2>2, <2>3, <2>5 DEF SystemInv
<1> QED
  BY <1>4, <1>5, <1>6 DEF Inv

LEMMA WalkKeeps ==
  ASSUME Inv, Walk
  PROVE  Inv'
<1>1. phase = "walk"
  BY WalkIsWalking
<1>2. TreeDone /\ WalkInv /\ ~ wrong
  BY <1>1, PhaseIsDone
<1>3. Walks \/ ExitDocumentRule
  BY <1>2, WalkStep
<1> QED
  BY <1>1, <1>3, WalksKeeps, DocumentKeeps

(* What the loading and the validation leave alone.                        *)
LEMMA ListenerStays ==
  ASSUME Inv, UNCHANGED <<parserVars, walkerVars>>, phase = "parsed",
         phase' \in {"parsed", "valid", "invalid"}
  PROVE  ParserInv' /\ ListenerInv' /\ (\A system : FromDocument(system)' = FromDocument(system))
<1>1. /\ stack' = stack /\ tree' = tree /\ errors' = errors /\ recovering' = recovering
      /\ rest' = rest /\ seen' = seen /\ o' = o /\ wrong' = wrong /\ path' = path
  BY DEF parserVars, walkerVars
<1>2. ParserInv'
  BY <1>1, ParserStays DEF Inv
<1>3. /\ rest \in BOOLEAN /\ ~ wrong /\ seen \in 0 .. Len(tree) /\ o \in ListenerFields
  BY DEF Inv, ListenerInv
<1>4. (phase \in Phases)' /\ phase' # "parse" /\ phase' # "walk"
  BY DEF Phases
<1>5. (o \in ListenerFields)'
  BY <1>1, <1>3, SameListenerFields
<1>6. ListenerInv'
  BY <1>1, <1>3, <1>4, <1>5 DEF ListenerInv
<1> QED
  BY <1>1, <1>2, <1>6, SamePhase

LEMMA DataKeeps ==
  ASSUME Inv, NEW d \in Data, ParseData(d)
  PROVE  Inv'
<1>1. /\ phase = "parsed" /\ phase' = phase /\ UNCHANGED <<parserVars, walkerVars>>
      /\ modules' = Append(modules, d) /\ Len(modules) < MaxModules
  BY DEF ParseData, AddModule
<1>2. ParserInv' /\ ListenerInv' /\ (\A system : FromDocument(system)' = FromDocument(system))
  BY <1>1, ListenerStays
<1>3. modules \in Seq(Modules) /\ FromDocument(modules)
  BY <1>1 DEF Inv, SystemInv
<1>4. d \in Modules
  BY DocumentAssumption
<1>5. Len(modules) \in Nat /\ Len(modules) > 0 /\ modules[1] = ModuleAt(3)
  BY <1>3 DEF FromDocument
<1>6. /\ modules' \in Seq(Modules) /\ Len(modules') = Len(modules) + 1
      /\ \A i \in 1 .. Len(modules) : modules'[i] = modules[i]
  BY <1>1, <1>3, <1>4, AppendProperties
<1>7. 1 \in 1 .. Len(modules)
  BY <1>5
<1>8. modules'[1] = ModuleAt(3) /\ Len(modules') > 0 /\ Len(modules') <= MaxModules
  BY <1>1, <1>5, <1>6, <1>7, Bounds
<1>9. FromDocument(modules')
  <2>1. \A i \in 2 .. Len(modules) : modules[i] \in Data
    BY <1>3 DEF FromDocument
  <2>2. ASSUME NEW i \in 2 .. Len(modules') PROVE modules'[i] \in Data
    <3>1. i \in 2 .. Len(modules) \/ i = Len(modules) + 1
      BY <1>5, <1>6, <2>2
    <3>2. i \in 2 .. Len(modules) => i \in 1 .. Len(modules)
      BY <1>5
    <3>3. modules'[Len(modules) + 1] = d
      BY <1>1, <1>3, <1>4, AppendProperties
    <3> QED
      BY <1>6, <2>1, <3>1, <3>2, <3>3
  <2> QED
    BY <1>8, <2>2 DEF FromDocument
<1>10. FromDocument(modules)'
  BY <1>2, <1>9
<1>11. SystemInv'
  BY <1>1, <1>6, <1>8, <1>10 DEF SystemInv
<1> QED
  BY <1>2, <1>11 DEF Inv

LEMMA ValidateKeeps ==
  ASSUME Inv, Validate
  PROVE  Inv'
<1>1. /\ phase = "parsed" /\ UNCHANGED <<parserVars, walkerVars>>
      /\ phase' = IF SystemIsValid(modules) THEN "valid" ELSE "invalid"
      /\ modules' = IF SystemIsValid(modules) THEN Validated(modules) ELSE modules
  BY DEF Validate
<1>2. phase' \in {"valid", "invalid"} /\ (phase' = "valid" <=> SystemIsValid(modules))
  BY <1>1
<1>3. ParserInv' /\ ListenerInv' /\ (\A system : FromDocument(system)' = FromDocument(system))
  BY <1>1, <1>2, ListenerStays
<1>4. modules \in Seq(Modules) /\ FromDocument(modules) /\ Len(modules) <= MaxModules
  BY <1>1 DEF Inv, SystemInv
<1>5. Validated(modules) \in Seq(Modules) /\ Len(Validated(modules)) = Len(modules)
  BY <1>4, ValidatedTyped
<1>6. modules' \in Seq(Modules) /\ Len(modules') <= MaxModules
  BY <1>1, <1>4, <1>5
<1>7. ASSUME phase' = "valid"
      PROVE  \E system \in Seq(Modules) :
               SystemIsValid(system) /\ FromDocument(system)' /\ modules' = Validated(system)
  <2>1. SystemIsValid(modules) /\ modules' = Validated(modules)
    BY <1>1, <1>2, <1>7
  <2>2. \A system : FromDocument(system) => FromDocument(system)'
    BY <1>3
  <2> QED
    BY <1>4, <2>1, <2>2
<1>8. SystemInv'
  BY <1>2, <1>6, <1>7 DEF SystemInv
<1> QED
  BY <1>3, <1>8 DEF Inv

----------------
(* The invariant, and what follows from it alone. *)

LEMMA StutterKeeps ==
  ASSUME Inv, UNCHANGED vars
  PROVE  Inv'
<1>1. /\ phase' = phase /\ stack' = stack /\ tree' = tree /\ errors' = errors
      /\ recovering' = recovering /\ rest' = rest /\ path' = path /\ seen' = seen /\ o' = o
      /\ wrong' = wrong /\ modules' = modules
  BY DEF vars, parserVars, walkerVars
<1>2. CASE phase = "parse"
  <2>1. ParserInv'
    <3>1. ParserTypes'
      BY <1>1 DEF Inv, ParserInv, ParserTypes
    <3>2. \A n : OnStack(n)' = OnStack(n) /\ HasCalled(n)' = HasCalled(n)
      BY <1>1 DEF OnStack, HasCalled
    <3>3. Called' /\ Nested' /\ CalledOnce' /\ Written'
      BY <1>1 DEF Inv, ParserInv, TreeInv, Called, Nested, CalledOnce, Written
    <3>4. HeaderFirst' /\ Whole'
      BY <1>1, <3>2 DEF Inv, ParserInv, TreeInv, HeaderFirst, Whole
    <3>5. StackFits' /\ StackIsOpen' /\ Positions'
      BY <1>1, <3>2 DEF Inv, ParserInv, StackFits, StackIsOpen, Positions
    <3> QED
      BY <3>1, <3>3, <3>4, <3>5 DEF ParserInv, TreeInv
  <2>2. ListenerInv'
    <3>1. /\ (phase \in Phases)' /\ (rest \in BOOLEAN)' /\ ~ wrong' /\ phase' # "walk"
          /\ (seen \in 0 .. Len(tree))' /\ (seen = 0 /\ path = <<>> /\ o = NoFields)'
      BY <1>1, <1>2 DEF Inv, ListenerInv, Phases
    <3>2. (o \in ListenerFields)'
      BY <1>1, <1>2, SameListenerFields DEF Inv, ListenerInv
    <3> QED
      BY <3>1, <3>2 DEF ListenerInv
  <2>3. SystemInv'
    BY <1>1, <1>2 DEF Inv, SystemInv
  <2> QED
    BY <2>1, <2>2, <2>3 DEF Inv
<1>3. CASE phase # "parse"
  <2>1. ParserInv'
    BY <1>1, <1>3, ParserStays DEF Inv
  <2>2. ListenerInv'
    <3>1. /\ (phase \in Phases)' /\ (rest \in BOOLEAN)' /\ ~ wrong' /\ phase' # "parse"
          /\ (seen \in 0 .. Len(tree))'
      BY <1>1, <1>3 DEF Inv, ListenerInv, Phases
    <3>2. phase' # "walk" => (o \in ListenerFields)'
      BY <1>1, SameListenerFields DEF Inv, ListenerInv
    <3>3. phase' = "walk" => WalkInv'
      <4> HAVE phase' = "walk"
      <4>1. OnPath /\ FieldsFit(o, seen, Open) /\ Readable
        BY <1>1 DEF Inv, ListenerInv, WalkInv
      <4>2. Open' = Open
        BY <1>1 DEF Open
      <4>3. OnPath' /\ Readable'
        BY <1>1, <4>1, <4>2 DEF OnPath, Readable
      <4>4. FieldsFit(o', seen', Open')
        BY <1>1, <4>1, <4>2
      <4>5. FieldsFit(o, seen, Open)'
        BY <1>1, <4>4, SameFits
      <4> QED
        BY <4>3, <4>5 DEF WalkInv
    <3> QED
      BY <3>1, <3>2, <3>3 DEF ListenerInv
  <2>3. SystemInv'
    <3>1. \A system : FromDocument(system)' = FromDocument(system)
      BY <1>1, SamePhase
    <3>2. FromDocument(modules') = FromDocument(modules)
      BY <1>1
    <3>3. FromDocument(modules)' = FromDocument(modules)
      BY <1>1, <3>1
    <3>4. phase = "valid" =>
            \E system \in Seq(Modules) :
              SystemIsValid(system) /\ FromDocument(system)' /\ modules' = Validated(system)
      BY <1>1, <3>1 DEF Inv, SystemInv
    <3>5. phase = "panicked" => errors # 0 \/ AtHugeNumber'
      BY <1>1 DEF Inv, SystemInv, AtHugeNumber, Entered
    <3> QED
      BY <1>1, <3>3, <3>4, <3>5 DEF Inv, SystemInv
  <2> QED
    BY <2>1, <2>2, <2>3 DEF Inv
<1> QED
  BY <1>2, <1>3

LEMMA NextInv ==
  ASSUME Inv, [Next]_vars
  PROVE  Inv'
BY ParseKeeps, WalkKeeps, DataKeeps, ValidateKeeps, StutterKeeps DEF Next

(* The parser, the listener and the system keep their invariant, whatever  *)
(* the document, the data files and the bounds: pkg/idl/parser.go,         *)
(* listener.go and pkg/model/system.go.                                    *)
THEOREM Invariant == Spec => []Inv
<1>1. Init => Inv
  BY InitInv
<1>2. Inv /\ [Next]_vars => Inv'
  BY NextInv
<1> QED
  BY <1>1, <1>2, PTL DEF Spec

LEMMA InvImpliesTypeOK ==
  ASSUME Inv
  PROVE  TypeOK
<1>1. /\ stack \in Seq(Frames) /\ tree \in Seq(Contexts) /\ errors \in 0 .. MaxErrors
      /\ recovering \in BOOLEAN
  BY DEF Inv, ParserInv, ParserTypes
<1>2. \A i \in DOMAIN stack : /\ stack[i].rule \in DOMAIN Grammar
                              /\ tree[stack[i].node].rule = stack[i].rule
  <2> TAKE i \in DOMAIN stack
  <2>1. stack[i] \in Frames /\ i \in 1 .. Len(stack)
    BY <1>1
  <2>2. stack[i].rule \in RuleNames
    BY <2>1 DEF Frames
  <2>3. tree[stack[i].node].rule = stack[i].rule
    BY <2>1 DEF Inv, ParserInv, StackFits
  <2> QED
    BY <2>2, <2>3, GrammarFits
<1>3. \A i \in DOMAIN tree : tree[i].rule \in DOMAIN Grammar /\ tree[i].parent \in 0 .. i - 1
  <2> TAKE i \in DOMAIN tree
  <2>1. tree[i] \in Contexts /\ i \in 1 .. Len(tree)
    BY <1>1
  <2>2. tree[i].rule \in RuleNames
    BY <2>1 DEF Contexts
  <2>3. Called
    BY DEF Inv, ParserInv, TreeInv
  <2>4. tree[i].parent \in 0 .. i - 1
    <3>1. CASE i = 1
      BY <2>3, <3>1 DEF Called
    <3>2. CASE i # 1
      <4>1. i \in 2 .. Len(tree)
        BY <1>1, <2>1, <3>2
      <4>2. tree[i].parent \in 1 .. i - 1
        BY <2>3, <4>1 DEF Called
      <4> QED
        BY <4>2
    <3> QED
      BY <3>1, <3>2
  <2> QED
    BY <2>2, <2>4, GrammarFits
<1>4. /\ phase \in {"parse", "walk", "parsed", "valid", "invalid", "panicked"}
      /\ rest \in BOOLEAN /\ ~ wrong /\ seen \in 0 .. Len(tree)
  BY DEF Inv, ListenerInv, Phases
<1>5. o \in ListenerFields
  BY PhaseIsDone DEF Inv, ListenerInv
<1>6. modules \in Seq(Modules) /\ Len(modules) <= MaxModules
  BY DEF Inv, SystemInv
<1> QED
  BY <1>1, <1>2, <1>3, <1>4, <1>5, <1>6 DEF TypeOK

(* Every variable and every field of the listener has its type in every    *)
(* state (pkg/idl/listener.go), a panic included.                          *)
THEOREM TypeCorrect == Spec => []TypeOK
<1>1. Inv => TypeOK
  BY InvImpliesTypeOK
<1> QED
  BY <1>1, Invariant, PTL

(* The listener (pkg/idl/listener.go) panics only when the parser has      *)
(* reported a syntax error, which can leave a context missing, or at an    *)
(* enum member whose number strconv.Atoi cannot read because no int holds  *)
(* it.                                                                     *)
THEOREM PanicsCorrect == Spec => []PanicsOnlyOnBadInput
<1>1. Inv => PanicsOnlyOnBadInput
  <2> SUFFICES ASSUME Inv, phase = "panicked" PROVE errors > 0 \/ AtHugeNumber
    BY DEF PanicsOnlyOnBadInput
  <2>1. errors # 0 \/ AtHugeNumber
    BY DEF Inv, SystemInv
  <2>2. errors \in 0 .. MaxErrors
    BY DEF Inv, ParserInv, ParserTypes
  <2>3. errors \in Nat
    BY <2>2, Bounds
  <2> QED
    BY <2>1, <2>3
<1> QED
  BY <1>1, Invariant, PTL

(* The one module rule of a document is the third context.                 *)
LEMMA ModuleIsThird ==
  ASSUME TreeDone
  PROVE  Below("module", 1) = {3} /\ The(Below("module", 1)) = 3
<1>1. /\ Len(tree) \in Nat /\ Len(tree) >= 3 /\ tree[2].rule = "header" /\ tree[2].parent = 1
      /\ tree[3].rule = "module" /\ tree[3].parent = 2
  BY DEF TreeDone
<1>2. \A i \in 1 .. Len(tree) : tree[i].rule = "module" => i = 3
  BY OneModule
<1>3. Owner(3) = 1
  BY <1>1 DEF Owner
<1>4. 3 \in 2 .. Len(tree) /\ 2 .. Len(tree) \subseteq 1 .. Len(tree)
  BY <1>1
<1>5. Below("module", 1) = {3}
  BY <1>1, <1>2, <1>3, <1>4 DEF Below
<1> QED
  BY <1>5 DEF The

(* When a document has been walked, the module in the system is the one    *)
(* its tree says: no handler of pkg/idl/listener.go has lost, doubled or   *)
(* swapped a node, a schema, a meta line or a number.                      *)
THEOREM ModelCorrect == Spec => []ModelIsTree
<1>1. Inv => ModelIsTree
  <2> SUFFICES ASSUME Inv, phase = "parsed"
               PROVE  Len(modules) > 0 /\ modules[1] = ModuleAt(The(Below("module", 1)))
    BY DEF ModelIsTree
  <2>1. TreeDone
    BY TreeIsDone DEF Inv
  <2>2. FromDocument(modules)
    BY DEF Inv, SystemInv
  <2> QED
    BY <2>1, <2>2, ModuleIsThird DEF FromDocument
<1> QED
  BY <1>1, Invariant, PTL

----------------
(* The numbers of the members of an enum. *)

(***************************************************************************)
(* The numbers of an enum's members.                                       *)
(***************************************************************************)
LEMMA UnderSorted ==
  ASSUME TreeDone, NEW r, NEW n
  PROVE  Sorted(Under(r, n), Below(r, n))
<1>1. Below(r, n) \in SUBSET (1 .. Len(tree))
  BY BelowFacts
<1> QED
  BY <1>1, InOrderFacts DEF Under

(* What a sorted list has at two places is different.                      *)
LEMMA SortedDiffer ==
  ASSUME NEW s, NEW S \in SUBSET Nat, Sorted(s, S)
  PROVE  /\ DOMAIN s = 1 .. Len(s) /\ Len(s) \in Nat
         /\ \A i \in DOMAIN s : s[i] \in S
         /\ \A i, j \in DOMAIN s : i # j => s[i] < s[j] \/ s[j] < s[i]
<1>1. /\ s \in Seq(S) /\ Len(s) \in Nat /\ DOMAIN s = 1 .. Len(s)
      /\ \A i, j \in 1 .. Len(s) : i < j => s[i] < s[j]
  BY DEF Sorted
<1>2. ASSUME NEW i \in DOMAIN s, NEW j \in DOMAIN s, i # j PROVE s[i] < s[j] \/ s[j] < s[i]
  <2>1. i \in Nat /\ j \in Nat
    BY <1>1, <1>2
  <2>2. i < j \/ j < i
    BY <1>2, <2>1
  <2> QED
    BY <1>1, <1>2, <2>2
<1> QED
  BY <1>1, <1>2

LEMMA MembersDiffer ==
  ASSUME TreeDone, NEW n, NEW a \in Below("member", n), NEW b \in Below("member", n), a < b,
         tree[a].also = Nil, tree[b].also = Nil
  PROVE  MemberAt(a).value # MemberAt(b).value
<1> DEFINE A == {i \in Below("member", n) : i < a /\ tree[i].also = Nil}
           B == {i \in Below("member", n) : i < b /\ tree[i].also = Nil}
<1>1. /\ Below("member", n) \subseteq 2 .. Len(tree) /\ Len(tree) \in Nat
      /\ tree[a].rule = "member" /\ Owner(a) = n /\ tree[b].rule = "member" /\ Owner(b) = n
  BY BelowFacts DEF TreeDone
<1>2. tree[a].parent = n /\ tree[b].parent = n
  BY <1>1, OwnerFacts
<1>3. MemberAt(a).value = Cardinality(A) /\ MemberAt(b).value = Cardinality(B)
  BY <1>2 DEF MemberAt
<1>4. a \in Nat /\ b \in Nat /\ \A i \in Below("member", n) : i \in Nat
  BY <1>1
<1>5. A \cup {a} \subseteq B /\ a \notin A
  <2>1. a \in B /\ a \notin A
    BY <1>4
  <2>2. ASSUME NEW i \in A PROVE i \in B
    <3>1. i \in Below("member", n) /\ i < a /\ tree[i].also = Nil
      OBVIOUS
    <3>2. i < b
      BY <1>4, <3>1
    <3> QED
      BY <3>1, <3>2
  <2> HIDE DEF A, B
  <2> QED
    BY <2>1, <2>2
<1>6. B \subseteq 1 .. Len(tree) /\ A \subseteq 1 .. Len(tree)
  BY BelowFacts
<1> HIDE DEF A, B
<1>7. IsFiniteSet(1 .. Len(tree))
  BY FS_Interval DEF TreeDone
<1>8. IsFiniteSet(A) /\ IsFiniteSet(B)
  BY <1>6, <1>7, FS_Subset
<1>9. /\ IsFiniteSet(A \cup {a}) /\ Cardinality(A \cup {a}) = Cardinality(A) + 1
      /\ Cardinality(A) \in Nat
  BY <1>5, <1>8, FS_AddElement, FS_CardinalityType
<1>10. Cardinality(A \cup {a}) <= Cardinality(B) /\ Cardinality(B) \in Nat
  BY <1>5, <1>8, FS_Subset, FS_CardinalityType
<1> QED
  BY <1>3, <1>9, <1>10

(* What the validation makes of an enum of the document.                   *)
LEMMA ValidEnumDiffers ==
  ASSUME TreeDone, NEW n,
         NEW j \in DOMAIN Under("member", n), NEW k \in DOMAIN Under("member", n), j # k,
         tree[Under("member", n)[j]].also = Nil, tree[Under("member", n)[k]].also = Nil
  PROVE  ValidEnum(EnumAt(n)).members[j].value # ValidEnum(EnumAt(n)).members[k].value
<1> DEFINE u == Under("member", n)
           e == EnumAt(n)
           w == [i \in DOMAIN e.members |-> [e.members[i] EXCEPT !.value = i - 1]]
<1>1. Sorted(u, Below("member", n)) /\ Below("member", n) \in SUBSET Nat
  BY UnderSorted, BelowFacts
<1> HIDE DEF u
<1>2. /\ DOMAIN u = 1 .. Len(u) /\ Len(u) \in Nat /\ u[j] \in Below("member", n)
      /\ u[k] \in Below("member", n) /\ (u[j] < u[k] \/ u[k] < u[j])
      /\ j \in DOMAIN u /\ k \in DOMAIN u
  BY <1>1, SortedDiffer DEF u
<1>3. MemberAt(u[j]).value # MemberAt(u[k]).value
  BY <1>2, MembersDiffer DEF u
<1>4. e.members = [i \in DOMAIN u |-> MemberAt(u[i])]
  BY DEF EnumAt, Map, u
<1>5. DOMAIN e = {"name", "members", "metas"}
  BY DEF EnumAt
<1>6. \A i : DOMAIN MemberAt(i) = {"name", "metas", "value"}
  BY DEF MemberAt
<1> HIDE DEF e
<1>7. e.members[j] = MemberAt(u[j]) /\ e.members[k] = MemberAt(u[k]) /\ DOMAIN e.members = DOMAIN u
  BY <1>2, <1>4
<1>8. CASE \A i \in DOMAIN e.members : e.members[i].value = 0
  <2>1. ValidEnum(e) = [e EXCEPT !.members = w]
    BY <1>8 DEF ValidEnum
  <2>2. ValidEnum(e).members = w
    BY <1>5, <2>1
  <2>3. w[j] = [e.members[j] EXCEPT !.value = j - 1] /\ w[k] = [e.members[k] EXCEPT !.value = k - 1]
    BY <1>2, <1>7
  <2>4. w[j].value = j - 1 /\ w[k].value = k - 1
    BY <1>6, <1>7, <2>3
  <2> HIDE DEF w
  <2>5. j \in Int /\ k \in Int
    BY <1>2
  <2> QED
    BY <2>2, <2>4, <2>5 DEF e
<1>9. CASE ~ (\A i \in DOMAIN e.members : e.members[i].value = 0)
  <2>1. ValidEnum(e) = e
    BY <1>9 DEF ValidEnum
  <2> QED
    BY <1>3, <1>7, <2>1 DEF e
<1> QED
  BY <1>8, <1>9

(* The first module of a valid system is the document's.                   *)
LEMMA DocumentIsFirst ==
  ASSUME Inv, phase = "valid"
  PROVE  /\ TreeDone
         /\ \E system \in Seq(Modules) :
              /\ SystemIsValid(system) /\ modules = Validated(system)
              /\ 1 \in DOMAIN system /\ system[1] = ModuleAt(3)
              /\ \A i \in DOMAIN system : i = 1 \/ system[i] \in Data
<1>1. TreeDone
  BY TreeIsDone DEF Inv
<1>2. PICK system \in Seq(Modules) :
        SystemIsValid(system) /\ FromDocument(system) /\ modules = Validated(system)
  BY DEF Inv, SystemInv
<1>3. /\ 1 \in DOMAIN system /\ system[1] = ModuleAt(3)
      /\ \A i \in DOMAIN system : i = 1 \/ system[i] \in Data
  <2>1. DOMAIN system = 1 .. Len(system) /\ Len(system) \in Nat
    OBVIOUS
  <2>2. /\ Len(system) > 0 /\ system[1] = ModuleAt(3)
        /\ \A i \in 2 .. Len(system) : system[i] \in Data
    BY <1>2 DEF FromDocument
  <2>3. \A i \in DOMAIN system : i = 1 \/ i \in 2 .. Len(system)
    BY <2>1
  <2> QED
    BY <2>1, <2>2, <2>3
<1> QED
  BY <1>1, <1>2, <1>3

(* Two members of an enum that pkg/idl/listener.go numbers itself never    *)
(* share a value: a clash takes a number that is written.                  *)
THEOREM NumbersCorrect == Spec => []ClashOnlyByMixing
<1>1. ASSUME Inv PROVE ClashOnlyByMixing
  <2> SUFFICES ASSUME phase = "valid", NEW i \in DOMAIN Under("enum", 1),
                      NEW j \in DOMAIN Under("member", Under("enum", 1)[i]),
                      NEW k \in DOMAIN Under("member", Under("enum", 1)[i]),
                      j # k,
                      modules[1].enums[i].members[j].value = modules[1].enums[i].members[k].value,
                      tree[Under("member", Under("enum", 1)[i])[j]].also = Nil,
                      tree[Under("member", Under("enum", 1)[i])[k]].also = Nil
               PROVE  FALSE
    BY DEF ClashOnlyByMixing
  <2> DEFINE n == Under("enum", 1)[i]
  <2>1. PICK system \in Seq(Modules) :
              /\ SystemIsValid(system) /\ modules = Validated(system)
              /\ 1 \in DOMAIN system /\ system[1] = ModuleAt(3)
    BY <1>1, DocumentIsFirst
  <2>2. modules[1] = ValidModule(system, ModuleAt(3))
    BY <2>1 DEF Validated, Map
  <2>3. ModuleAt(3).enums = Map(Under("enum", 1), EnumAt)
    BY DEF ModuleAt
  <2>4. /\ DOMAIN ModuleAt(3) = {"name", "metas", "imports", "externs", "interfaces", "structs",
                                 "enums"}
        /\ ModuleAt(3) = [a \in DOMAIN ModuleAt(3) |-> ModuleAt(3)[a]]
    BY DEF ModuleAt
  <2>5. modules[1].enums = Map(ModuleAt(3).enums, ValidEnum)
    BY <2>2, <2>4 DEF ValidModule
  <2>6. modules[1].enums[i] = ValidEnum(EnumAt(n))
    BY <2>3, <2>5 DEF Map
  <2>7. TreeDone
    BY <1>1, DocumentIsFirst
  <2> HIDE DEF n
  <2>8. /\ j \in DOMAIN Under("member", n) /\ k \in DOMAIN Under("member", n)
        /\ tree[Under("member", n)[j]].also = Nil /\ tree[Under("member", n)[k]].also = Nil
    BY DEF n
  <2> QED
    BY <2>6, <2>7, <2>8, ValidEnumDiffers
<1> QED
  BY <1>1, Invariant, PTL

----------------
(* What the validation resolves. *)

LEMMA SchemasAreTyped ==
  ASSUME NEW m, NEW s \in SchemasOf(m)
  PROVE  \E t : IsTyped(m, t) /\ s = t.schema
<1> DEFINE operations == UNION {ToSet(i.operations) : i \in ToSet(m.interfaces)}
           signals == UNION {ToSet(i.signals) : i \in ToSet(m.interfaces)}
           A == {ToSet(i.properties) : i \in ToSet(m.interfaces)}
           B == {ToSet(op.params) \cup {op.return} : op \in operations}
           C == {ToSet(sig.params) : sig \in signals}
           D == {ToSet(st.fields) : st \in ToSet(m.structs)}
           typed == UNION (A \cup B \cup C \cup D)
<1>1. SchemasOf(m) = {t.schema : t \in typed}
  BY DEF SchemasOf
<1>2. PICK t \in typed : s = t.schema
  <2> HIDE DEF typed
  <2> QED
    BY <1>1
<1>3. PICK P \in A \cup B \cup C \cup D : t \in P
  <2> HIDE DEF A, B, C, D
  <2> QED
    BY <1>2
<1>4. CASE P \in A
  BY <1>2, <1>3, <1>4, Zenon DEF IsTyped
<1>5. CASE P \in B
  <2>1. PICK op \in operations : P = ToSet(op.params) \cup {op.return}
    <3> HIDE DEF operations
    <3> QED
      BY <1>5
  <2>2. PICK f \in ToSet(m.interfaces) : op \in ToSet(f.operations)
    BY <2>1, Zenon
  <2>3. t \in ToSet(op.params) \/ t = op.return
    BY <1>3, <2>1
  <2> QED
    BY <1>2, <2>2, <2>3, Zenon DEF IsTyped
<1>6. CASE P \in C
  <2>1. PICK sig \in signals : P = ToSet(sig.params)
    <3> HIDE DEF signals
    <3> QED
      BY <1>6
  <2>2. PICK f \in ToSet(m.interfaces) : sig \in ToSet(f.signals)
    BY <2>1, Zenon
  <2> QED
    BY <1>2, <1>3, <2>1, <2>2, Zenon DEF IsTyped
<1>7. CASE P \in D
  BY <1>2, <1>3, <1>7, Zenon DEF IsTyped
<1> QED
  BY <1>3, <1>4, <1>5, <1>6, <1>7

LEMMA NodeResolved ==
  ASSUME NEW system, NEW m, NEW node \in TypedNodes
  PROVE  Resolved(system, m, ValidNode(system, m, node).schema)
<1>1. node.schema \in Schemas
  BY DEF TypedNodes
<1>2. ValidNode(system, m, node).schema = ValidSchema(system, m, node.schema)
  BY DEF ValidNode, TypedNodes
<1> QED
  BY <1>1, <1>2 DEF Resolved

LEMMA NodesResolved ==
  ASSUME NEW system, NEW m, NEW nodes \in Seq(TypedNodes),
         NEW t \in ToSet(ValidNodes(system, m, nodes))
  PROVE  Resolved(system, m, t.schema)
<1>1. ValidNodes(system, m, nodes) = [i \in DOMAIN nodes |-> ValidNode(system, m, nodes[i])]
  BY DEF ValidNodes, Map
<1>2. PICK i \in DOMAIN nodes : t = ValidNode(system, m, nodes[i])
  BY <1>1 DEF ToSet
<1>3. nodes[i] \in TypedNodes
  OBVIOUS
<1> QED
  BY <1>2, <1>3, NodeResolved

LEMMA ValidModuleParts ==
  ASSUME NEW system, NEW m \in Modules
  PROVE  /\ ValidModule(system, m).name = m.name
         /\ ValidModule(system, m).externs = m.externs
         /\ ValidModule(system, m).interfaces =
              [i \in DOMAIN m.interfaces |-> ValidInterface(system, m, m.interfaces[i])]
         /\ ValidModule(system, m).structs =
              [i \in DOMAIN m.structs |-> ValidStruct(system, m, m.structs[i])]
         /\ ValidModule(system, m).enums = [i \in DOMAIN m.enums |-> ValidEnum(m.enums[i])]
<1> DEFINE ifaces == [i \in DOMAIN m.interfaces |-> ValidInterface(system, m, m.interfaces[i])]
           structs == [i \in DOMAIN m.structs |-> ValidStruct(system, m, m.structs[i])]
           enums == [i \in DOMAIN m.enums |-> ValidEnum(m.enums[i])]
<1>1. ValidModule(system, m) =
        [m EXCEPT !.interfaces = ifaces, !.structs = structs, !.enums = enums]
  BY DEF ValidModule, Map
<1> HIDE DEF ifaces, structs, enums
<1>2. DOMAIN m = {"name", "imports", "externs", "interfaces", "structs", "enums", "metas"}
  BY DEF Modules
<1> QED
  BY <1>1, <1>2 DEF ifaces, structs, enums

LEMMA ValidInterfaceName ==
  ASSUME NEW system, NEW m, NEW f \in Interfaces
  PROVE  ValidInterface(system, m, f).name = f.name
<1>1. DOMAIN f = {"name", "extends", "properties", "operations", "signals", "metas"}
  BY DEF Interfaces
<1> QED
  BY <1>1 DEF ValidInterface

LEMMA ValidInterfaceParts ==
  ASSUME NEW system, NEW m, NEW f \in Interfaces
  PROVE  /\ ValidInterface(system, m, f).properties = ValidNodes(system, m, f.properties)
         /\ ValidInterface(system, m, f).operations =
              [i \in DOMAIN f.operations |-> ValidOperation(system, m, f.operations[i])]
         /\ ValidInterface(system, m, f).signals =
              [i \in DOMAIN f.signals |-> ValidSignal(system, m, f.signals[i])]
<1> DEFINE ext == IF f.extends # Nil /\ f.extends[1] = "" THEN <<m.name, f.extends[2]>>
                  ELSE f.extends
           ops == [i \in DOMAIN f.operations |-> ValidOperation(system, m, f.operations[i])]
           sigs == [i \in DOMAIN f.signals |-> ValidSignal(system, m, f.signals[i])]
           props == ValidNodes(system, m, f.properties)
<1>1. ValidInterface(system, m, f) =
        [f EXCEPT !.extends = ext, !.properties = props, !.operations = ops, !.signals = sigs]
  BY DEF ValidInterface, Map
<1> HIDE DEF ext, ops, sigs, props
<1>2. DOMAIN f = {"name", "extends", "properties", "operations", "signals", "metas"}
  BY DEF Interfaces
<1> QED
  BY <1>1, <1>2 DEF ops, sigs, props

LEMMA ValidOperationParts ==
  ASSUME NEW system, NEW m, NEW op \in Operations
  PROVE  /\ ValidOperation(system, m, op).params = ValidNodes(system, m, op.params)
         /\ \E node \in TypedNodes : ValidOperation(system, m, op).return =
                                       ValidNode(system, m, node)
<1> DEFINE ret == IF op.return = Nil THEN NewTypedNode("", FALSE) ELSE op.return
           params == ValidNodes(system, m, op.params)
<1>1. ValidOperation(system, m, op) =
        [op EXCEPT !.params = params, !.return = ValidNode(system, m, ret)]
  BY DEF ValidOperation
<1>2. ret \in TypedNodes
  <2>1. NewTypedNode("", FALSE) \in TypedNodes
    BY DocumentAssumption, NewTypedNodeTyped
  <2>2. op.return \in TypedNodes \cup {Nil}
    BY DEF Operations
  <2> QED
    BY <2>1, <2>2
<1> HIDE DEF ret, params
<1>3. DOMAIN op = {"name", "params", "return", "metas"}
  BY DEF Operations
<1>4. /\ ValidOperation(system, m, op).params = params
      /\ ValidOperation(system, m, op).return = ValidNode(system, m, ret)
  BY <1>1, <1>3
<1> QED
  BY <1>2, <1>4 DEF params

LEMMA InterfaceResolved ==
  ASSUME NEW system, NEW m, NEW f \in Interfaces, NEW t,
         \/ t \in ToSet(ValidInterface(system, m, f).properties)
         \/ \E op \in ToSet(ValidInterface(system, m, f).operations) :
              t \in ToSet(op.params) \/ t = op.return
         \/ \E sig \in ToSet(ValidInterface(system, m, f).signals) : t \in ToSet(sig.params)
  PROVE  Resolved(system, m, t.schema)
<1> DEFINE v == ValidInterface(system, m, f)
<1>1. /\ f.properties \in Seq(TypedNodes) /\ f.operations \in Seq(Operations)
      /\ f.signals \in Seq(Signals)
  BY DEF Interfaces
<1>2. /\ v.properties = ValidNodes(system, m, f.properties)
      /\ v.operations = [i \in DOMAIN f.operations |-> ValidOperation(system, m, f.operations[i])]
      /\ v.signals = [i \in DOMAIN f.signals |-> ValidSignal(system, m, f.signals[i])]
  BY ValidInterfaceParts
<1> HIDE DEF v
<1>3. CASE t \in ToSet(v.properties)
  BY <1>1, <1>2, <1>3, NodesResolved
<1>4. ASSUME NEW op \in ToSet(v.operations), t \in ToSet(op.params) \/ t = op.return
      PROVE  Resolved(system, m, t.schema)
  <2>1. PICK i \in DOMAIN f.operations : op = ValidOperation(system, m, f.operations[i])
    BY <1>2 DEF ToSet
  <2>2. f.operations[i] \in Operations
    BY <1>1
  <2>3. f.operations[i].params \in Seq(TypedNodes)
    BY <2>2 DEF Operations
  <2>4. PICK node \in TypedNodes : op.return = ValidNode(system, m, node)
    BY <2>1, <2>2, ValidOperationParts
  <2>5. op.params = ValidNodes(system, m, f.operations[i].params)
    BY <2>1, <2>2, ValidOperationParts
  <2> QED
    BY <1>4, <2>3, <2>4, <2>5, NodesResolved, NodeResolved
<1>5. ASSUME NEW sig \in ToSet(v.signals), t \in ToSet(sig.params)
      PROVE  Resolved(system, m, t.schema)
  <2>1. PICK i \in DOMAIN f.signals : sig = ValidSignal(system, m, f.signals[i])
    BY <1>2 DEF ToSet
  <2>2. f.signals[i] \in Signals
    BY <1>1
  <2>3. f.signals[i].params \in Seq(TypedNodes)
    BY <2>2 DEF Signals
  <2>4. sig.params = ValidNodes(system, m, f.signals[i].params)
    BY <2>1, <2>2 DEF ValidSignal, Signals
  <2> QED
    BY <1>5, <2>3, <2>4, NodesResolved
<1> QED
  BY <1>3, <1>4, <1>5 DEF v

(* Every schema of a validated module is one of the module, resolved.      *)
LEMMA SchemasResolved ==
  ASSUME NEW system, NEW m \in Modules, NEW s \in SchemasOf(ValidModule(system, m))
  PROVE  Resolved(system, m, s)
<1> DEFINE v == ValidModule(system, m)
<1>1. PICK t : IsTyped(v, t) /\ s = t.schema
  BY SchemasAreTyped
<1>2. m.interfaces \in Seq(Interfaces) /\ m.structs \in Seq(Structs)
  BY DEF Modules
<1>3. /\ v.interfaces = [i \in DOMAIN m.interfaces |-> ValidInterface(system, m, m.interfaces[i])]
      /\ v.structs = [i \in DOMAIN m.structs |-> ValidStruct(system, m, m.structs[i])]
  BY ValidModuleParts
<1> HIDE DEF v
<1>4. ASSUME NEW f \in ToSet(v.interfaces),
             \/ t \in ToSet(f.properties)
             \/ \E op \in ToSet(f.operations) : t \in ToSet(op.params) \/ t = op.return
             \/ \E sig \in ToSet(f.signals) : t \in ToSet(sig.params)
      PROVE  Resolved(system, m, s)
  <2>1. PICK i \in DOMAIN m.interfaces : f = ValidInterface(system, m, m.interfaces[i])
    BY <1>3 DEF ToSet
  <2>2. m.interfaces[i] \in Interfaces
    BY <1>2
  <2> QED
    BY <1>1, <1>4, <2>1, <2>2, InterfaceResolved
<1>5. ASSUME NEW st \in ToSet(v.structs), t \in ToSet(st.fields)
      PROVE  Resolved(system, m, s)
  <2>1. PICK i \in DOMAIN m.structs : st = ValidStruct(system, m, m.structs[i])
    BY <1>3 DEF ToSet
  <2>2. m.structs[i] \in Structs
    BY <1>2
  <2>3. m.structs[i].fields \in Seq(TypedNodes)
    BY <2>2 DEF Structs
  <2>4. st.fields = ValidNodes(system, m, m.structs[i].fields)
    BY <2>1, <2>2 DEF ValidStruct, Structs
  <2> QED
    BY <1>1, <1>5, <2>3, <2>4, NodesResolved
<1> QED
  BY <1>1, <1>4, <1>5 DEF IsTyped

----------------
(* What a module declares, and where a symbol is looked up. *)

(* The validation changes no name.                                         *)
LEMMA ValidNames ==
  ASSUME NEW system, NEW m \in Modules
  PROVE  \A name, kind : Declares(ValidModule(system, m), name, kind) <=> Declares(m, name, kind)
<1> DEFINE v == ValidModule(system, m)
<1>1. /\ m.interfaces \in Seq(Interfaces) /\ m.structs \in Seq(Structs) /\ m.enums \in Seq(Enums)
  BY DEF Modules
<1>2. /\ v.externs = m.externs
      /\ v.interfaces = [i \in DOMAIN m.interfaces |-> ValidInterface(system, m, m.interfaces[i])]
      /\ v.structs = [i \in DOMAIN m.structs |-> ValidStruct(system, m, m.structs[i])]
      /\ v.enums = [i \in DOMAIN m.enums |-> ValidEnum(m.enums[i])]
  BY ValidModuleParts
<1> HIDE DEF v
<1>3. \A i \in DOMAIN m.interfaces : v.interfaces[i].name = m.interfaces[i].name
  <2>1. \A f \in Interfaces : ValidInterface(system, m, f).name = f.name
    BY ValidInterfaceName
  <2>2. \A i \in DOMAIN m.interfaces : m.interfaces[i] \in Interfaces
    BY <1>1
  <2> QED
    BY <1>2, <2>1, <2>2
<1>4. \A i \in DOMAIN m.structs : v.structs[i].name = m.structs[i].name
  <2> TAKE i \in DOMAIN m.structs
  <2>1. m.structs[i] \in Structs
    BY <1>1
  <2>2. ValidStruct(system, m, m.structs[i]).name = m.structs[i].name
    BY <2>1 DEF ValidStruct, Structs
  <2> QED
    BY <1>2, <2>2
<1>5. \A i \in DOMAIN m.enums : v.enums[i].name = m.enums[i].name
  <2> TAKE i \in DOMAIN m.enums
  <2>1. m.enums[i] \in Enums
    BY <1>1
  <2>2. ValidEnum(m.enums[i]).name = m.enums[i].name
    BY <2>1 DEF ValidEnum, Enums
  <2> QED
    BY <1>2, <2>2
<1>6. \A name : /\ Has(v.externs, name) <=> Has(m.externs, name)
                /\ Has(v.interfaces, name) <=> Has(m.interfaces, name)
                /\ Has(v.structs, name) <=> Has(m.structs, name)
                /\ Has(v.enums, name) <=> Has(m.enums, name)
  <2>1. \A name : Has(v.externs, name) <=> Has(m.externs, name)
    BY <1>2
  <2>2. \A name : Has(v.interfaces, name) <=> Has(m.interfaces, name)
    BY <1>2, <1>3 DEF Has
  <2>3. \A name : Has(v.structs, name) <=> Has(m.structs, name)
    BY <1>2, <1>4 DEF Has
  <2>4. \A name : Has(v.enums, name) <=> Has(m.enums, name)
    BY <1>2, <1>5 DEF Has
  <2> QED
    BY <2>1, <2>2, <2>3, <2>4
<1> QED
  BY <1>6 DEF Declares, v

(* Names that are distinct in two lists put together.                      *)
LEMMA DistinctParts ==
  ASSUME NEW S, NEW a \in Seq(S), NEW b \in Seq(S), Distinct(a \o b)
  PROVE  /\ Distinct(a)
         /\ \A name : ~ (Has(a, name) /\ Has(b, name))
         /\ \A name : Has(a, name) \/ Has(b, name) => Has(a \o b, name)
<1> DEFINE c == a \o b
<1>1. /\ Len(a) \in Nat /\ DOMAIN a = 1 .. Len(a) /\ Len(b) \in Nat /\ DOMAIN b = 1 .. Len(b)
      /\ c \in Seq(S) /\ Len(c) = Len(a) + Len(b)
      /\ \A i \in 1 .. Len(a) + Len(b) : c[i] = IF i <= Len(a) THEN a[i] ELSE b[i - Len(a)]
  BY ConcatProperties
<1> HIDE DEF c
<1>2. DOMAIN c = 1 .. Len(a) + Len(b)
  BY <1>1
<1>3. \A i \in DOMAIN a : i \in DOMAIN c /\ c[i] = a[i]
  BY <1>1, <1>2
<1>4. \A i \in DOMAIN b : Len(a) + i \in DOMAIN c /\ c[Len(a) + i] = b[i]
  <2> TAKE i \in DOMAIN b
  <2>1. Len(a) + i \in DOMAIN c /\ ~ (Len(a) + i <= Len(a)) /\ (Len(a) + i) - Len(a) = i
    BY <1>1, <1>2
  <2> QED
    BY <1>1, <1>2, <2>1
<1>5. \A i, j \in DOMAIN c : c[i].name = c[j].name => i = j
  BY DEF Distinct, c
<1>6. Distinct(a)
  BY <1>3, <1>5 DEF Distinct
<1>7. ASSUME NEW name, Has(a, name), Has(b, name) PROVE FALSE
  <2>1. PICK i \in DOMAIN a : a[i].name = name
    BY <1>7 DEF Has
  <2>2. PICK j \in DOMAIN b : b[j].name = name
    BY <1>7 DEF Has
  <2>3. i = Len(a) + j
    BY <1>3, <1>4, <1>5, <2>1, <2>2
  <2> QED
    BY <1>1, <2>1, <2>2, <2>3
<1>8. ASSUME NEW name, Has(a, name) \/ Has(b, name) PROVE Has(c, name)
  BY <1>3, <1>4, <1>8 DEF Has
<1> QED
  BY <1>6, <1>7, <1>8 DEF c

(* A module that is valid declares a name once.                            *)
LEMMA OneKind ==
  ASSUME NEW m \in Modules, ModuleIsValid(m), NEW name, NEW k, NEW l,
         Declares(m, name, k), Declares(m, name, l)
  PROVE  k = l
<1> DEFINE S == UNION {Externs, Interfaces, Structs, Enums}
           a == m.externs
           b == m.interfaces
           c == m.structs
           d == m.enums
<1>1. Externs \subseteq S /\ Interfaces \subseteq S /\ Structs \subseteq S /\ Enums \subseteq S
  BY Zenon
<1>2. a \in Seq(Externs) /\ b \in Seq(Interfaces) /\ c \in Seq(Structs) /\ d \in Seq(Enums)
  BY DEF Modules
<1>3. Distinct(a \o b \o c \o d)
  BY DEF ModuleIsValid
<1>4. /\ \/ k = "extern" /\ Has(a, name)
         \/ k = "enum" /\ Has(d, name)
         \/ k = "struct" /\ Has(c, name)
         \/ k = "interface" /\ Has(b, name)
      /\ \/ l = "extern" /\ Has(a, name)
         \/ l = "enum" /\ Has(d, name)
         \/ l = "struct" /\ Has(c, name)
         \/ l = "interface" /\ Has(b, name)
  BY DEF Declares
<1> HIDE DEF S, a, b, c, d
<1>5. a \in Seq(S) /\ b \in Seq(S) /\ c \in Seq(S) /\ d \in Seq(S)
  BY <1>1, <1>2
<1>6. a \o b \in Seq(S) /\ a \o b \o c \in Seq(S)
  BY <1>5, ConcatProperties
<1>7. /\ Distinct(a \o b \o c)
      /\ ~ (Has(a \o b \o c, name) /\ Has(d, name))
  BY <1>3, <1>5, <1>6, DistinctParts
<1>8. /\ Distinct(a \o b)
      /\ ~ (Has(a \o b, name) /\ Has(c, name))
      /\ Has(a \o b, name) \/ Has(c, name) => Has(a \o b \o c, name)
  BY <1>5, <1>6, <1>7, DistinctParts
<1>9. /\ ~ (Has(a, name) /\ Has(b, name))
      /\ Has(a, name) \/ Has(b, name) => Has(a \o b, name)
  BY <1>5, <1>8, DistinctParts
<1> QED
  BY <1>4, <1>7, <1>8, <1>9

(* A symbol is what the module it is looked up in declares.                *)
LEMMA SymbolIs ==
  ASSUME NEW system, NEW m, NEW s
  PROVE  LET h == Home(system, m, s.import)
             kind == Symbol(system, m, s)
         IN /\ kind \in DeclaredKinds \cup {""}
            /\ kind # "" => h # Nil /\ Declares(h, s.type, kind)
            /\ kind = "" => h = Nil \/ \A k : ~ Declares(h, s.type, k)
BY DEF Symbol, LookupExtern, LookupEnum, LookupStruct, LookupInterface, Declares, DeclaredKinds

LEMMA HomeIs ==
  ASSUME NEW system \in Seq(Modules), NEW i \in DOMAIN system, NEW import
  PROVE  LET h == Home(system, system[i], import)
             name == HomeName(system[i], import)
         IN /\ h = Nil => \A k \in DOMAIN system : system[k].name # name
            /\ h # Nil => \E k \in DOMAIN system : h = system[k] /\ system[k].name = name
            /\ import = "" => h = system[i]
<1> DEFINE h == Home(system, system[i], import)
           name == HomeName(system[i], import)
           I == {k \in 1 .. Len(system) : system[k].name = import}
<1> HIDE DEF h, I, name
<1>1. DOMAIN system = 1 .. Len(system) /\ Len(system) \in Nat
  OBVIOUS
<1>2. system[i] # Nil /\ \A k \in DOMAIN system : system[k] # Nil
  <2>1. \A k \in DOMAIN system : system[k] \in Modules
    OBVIOUS
  <2>2. Nil \notin Modules
    BY NilAssumption
  <2> QED
    BY <2>1, <2>2
<1>3. CASE import = "" \/ import = system[i].name
  <2>1. h = system[i] /\ name = system[i].name
    BY <1>3 DEF Home, HomeName, h, name
  <2> QED
    BY <1>2, <2>1 DEF h, name
<1>4. CASE ~ (import = "" \/ import = system[i].name)
  <2>1. LookupModule(system, import) = IF I # {} THEN Min(I) ELSE 0
    BY DEF LookupModule, SelectInSeq, I
  <2>2. h = LET k == LookupModule(system, import) IN IF k = 0 THEN Nil ELSE system[k]
    BY <1>4 DEF Home, h
  <2>3. name = import
    BY <1>4 DEF HomeName, name
  <2>4. CASE I = {}
    <3>1. h = Nil
      BY <2>1, <2>2, <2>4
    <3>2. \A k \in DOMAIN system : system[k].name # name
      BY <1>1, <2>3, <2>4 DEF I
    <3> QED
      BY <1>4, <3>1, <3>2 DEF h, name
  <2>5. CASE I # {}
    <3>1. Min(I) \in I
      <4>1. I \in SUBSET Nat
        BY <1>1 DEF I
      <4>2. PICK x \in I : \A y \in I : x <= y
        BY <2>5, <4>1, LeastNat
      <4> QED
        BY <4>2 DEF Min
    <3>2. Min(I) # 0 /\ Min(I) \in DOMAIN system /\ system[Min(I)].name = import
      BY <1>1, <3>1 DEF I
    <3>3. h = system[Min(I)]
      BY <2>1, <2>2, <2>5, <3>2
    <3> QED
      BY <1>2, <1>4, <2>3, <3>2, <3>3 DEF h, name
  <2> QED
    BY <2>4, <2>5
<1> QED
  BY <1>3, <1>4

(* What a schema is resolved to.                                           *)
LEMMA ResolvedIs ==
  ASSUME NEW system, NEW m, NEW x \in Schemas, NEW s, s = ValidSchema(system, m, x)
  PROVE  /\ s \in Schemas /\ s.import = x.import
         /\ s.type \in Primitives \cup {"void"} => s.kind = s.type
         /\ s.type \notin Primitives \cup {"void"} => s.kind = Symbol(system, m, s)
<1>1. s \in Schemas
  BY ValidSchemaTyped
<1>2. /\ s.kind = Resolve(system, m, x) /\ s.import = x.import
      /\ s.type = IF x.type = "" THEN "void" ELSE x.type
  BY DEF ValidSchema, Schemas
<1>3. CASE x.type \in {"", "void"}
  <2>1. x.type \notin Primitives
    BY <1>3 DEF Primitives
  <2>2. s.kind = "void" /\ s.type = "void"
    BY <1>2, <1>3, <2>1 DEF Resolve
  <2> QED
    BY <1>1, <1>2, <2>2
<1>4. CASE x.type \in Primitives
  <2>1. x.type \notin {"", "void"}
    BY <1>4 DEF Primitives
  <2>2. s.kind = x.type /\ s.type = x.type
    BY <1>2, <1>4, <2>1 DEF Resolve
  <2> QED
    BY <1>1, <1>2, <1>4, <2>2
<1>5. CASE x.type \notin {"", "void"} /\ x.type \notin Primitives
  <2>1. s.kind = Symbol(system, m, x) /\ s.type = x.type
    BY <1>2, <1>5 DEF Resolve
  <2>2. Symbol(system, m, x) = Symbol(system, m, s)
    BY <1>2, <2>1 DEF Symbol, LookupExtern, LookupEnum, LookupStruct, LookupInterface
  <2> QED
    BY <1>1, <1>2, <1>5, <2>1, <2>2
<1> QED
  BY <1>3, <1>4, <1>5

LEMMA DeclaredByIs ==
  ASSUME NEW m
  PROVE  /\ \A d \in DeclaredBy(m) : \E name, kind :
              d = <<m.name, name, kind>> /\ Declares(m, name, kind)
         /\ \A name, kind : Declares(m, name, kind) => <<m.name, name, kind>> \in DeclaredBy(m)
<1>1. \A nodes, name : Has(nodes, name) <=> \E x \in ToSet(nodes) : x.name = name
  BY DEF Has, ToSet
<1>2. ASSUME NEW d \in DeclaredBy(m)
      PROVE  \E name, kind : d = <<m.name, name, kind>> /\ Declares(m, name, kind)
  <2>1. CASE d \in {<<m.name, x.name, "extern">> : x \in ToSet(m.externs)}
    BY <1>1, <2>1 DEF Declares
  <2>2. CASE d \in {<<m.name, x.name, "enum">> : x \in ToSet(m.enums)}
    BY <1>1, <2>2 DEF Declares
  <2>3. CASE d \in {<<m.name, x.name, "struct">> : x \in ToSet(m.structs)}
    BY <1>1, <2>3 DEF Declares
  <2>4. CASE d \in {<<m.name, x.name, "interface">> : x \in ToSet(m.interfaces)}
    BY <1>1, <2>4 DEF Declares
  <2> QED
    BY <1>2, <2>1, <2>2, <2>3, <2>4 DEF DeclaredBy
<1>3. ASSUME NEW name, NEW kind, Declares(m, name, kind)
      PROVE  <<m.name, name, kind>> \in DeclaredBy(m)
  <2>1. CASE kind = "extern" /\ Has(m.externs, name)
    BY <1>1, <2>1 DEF DeclaredBy
  <2>2. CASE kind = "enum" /\ Has(m.enums, name)
    BY <1>1, <2>2 DEF DeclaredBy
  <2>3. CASE kind = "struct" /\ Has(m.structs, name)
    BY <1>1, <2>3 DEF DeclaredBy
  <2>4. CASE kind = "interface" /\ Has(m.interfaces, name)
    BY <1>1, <2>4 DEF DeclaredBy
  <2> QED
    BY <1>3, <2>1, <2>2, <2>3, <2>4 DEF Declares
<1> QED
  BY <1>2, <1>3

LEMMA DeclaredIs ==
  /\ \A d \in Declared : \E i \in DOMAIN modules : d \in DeclaredBy(modules[i])
  /\ \A i \in DOMAIN modules : DeclaredBy(modules[i]) \subseteq Declared
<1>1. Declared = UNION {DeclaredBy(modules[i]) : i \in DOMAIN modules}
  BY DEF Declared, DeclaredBy
<1> QED
  BY <1>1, Zenon

(* A valid system, module by module.                                       *)
LEMMA ValidatedParts ==
  ASSUME NEW system \in Seq(Modules), SystemIsValid(system), modules = Validated(system)
  PROVE  /\ DOMAIN modules = DOMAIN system /\ Distinct(system)
         /\ \A i \in DOMAIN system : /\ system[i] \in Modules /\ ModuleIsValid(system[i])
                                     /\ modules[i] = ValidModule(system, system[i])
                                     /\ modules[i].name = system[i].name
         /\ \A i \in DOMAIN system : \A name, kind :
              Declares(modules[i], name, kind) <=> Declares(system[i], name, kind)
<1>1. modules = [i \in DOMAIN system |-> ValidModule(system, system[i])]
  BY DEF Validated, Map
<1>2. DOMAIN modules = DOMAIN system
  BY <1>1
<1>3. \A i \in DOMAIN system : system[i] \in Modules
  OBVIOUS
<1>4. \A i \in DOMAIN system : modules[i] = ValidModule(system, system[i])
  BY <1>1
<1>5. Distinct(system) /\ \A i \in DOMAIN system : ModuleIsValid(system[i])
  BY DEF SystemIsValid
<1>6. \A m \in Modules : /\ ValidModule(system, m).name = m.name
                         /\ \A name, kind :
                              Declares(ValidModule(system, m), name, kind) <=> Declares(m, name, kind)
  BY ValidModuleParts, ValidNames
<1> QED
  BY <1>2, <1>3, <1>4, <1>5, <1>6

LEMMA SymbolIsDeclared ==
  ASSUME NEW system \in Seq(Modules), SystemIsValid(system), modules = Validated(system),
         NEW i \in DOMAIN system, NEW s, s.kind = Symbol(system, system[i], s)
  PROVE  {d \in Declared : d[1] = HomeName(modules[i], s.import) /\ d[2] = s.type} =
           IF s.kind = "" THEN {} ELSE {<<HomeName(modules[i], s.import), s.type, s.kind>>}
<1> DEFINE h == Home(system, system[i], s.import)
           home == HomeName(modules[i], s.import)
           type == s.type
           kind == s.kind
<1>1. /\ DOMAIN modules = DOMAIN system /\ Distinct(system)
      /\ \A k \in DOMAIN system : /\ system[k] \in Modules /\ ModuleIsValid(system[k])
                                  /\ modules[k].name = system[k].name
      /\ \A k \in DOMAIN system : \A name, l :
           Declares(modules[k], name, l) <=> Declares(system[k], name, l)
  BY ValidatedParts
<1>2. home = HomeName(system[i], s.import)
  BY <1>1 DEF HomeName
<1>3. /\ h = Nil => \A k \in DOMAIN system : system[k].name # home
      /\ h # Nil => \E k \in DOMAIN system : h = system[k] /\ system[k].name = home
  <2> DEFINE imp == s.import
             name == HomeName(system[i], imp)
             at == Home(system, system[i], imp)
  <2>1. at = h /\ name = home
    BY <1>2
  <2> HIDE DEF imp, h, home
  <2>2. at = Nil => \A k \in DOMAIN system : system[k].name # name
    BY HomeIs
  <2>3. at # Nil => \E k \in DOMAIN system : at = system[k] /\ system[k].name = name
    BY HomeIs
  <2> QED
    BY <2>1, <2>2, <2>3
<1>4. /\ kind # "" => h # Nil /\ Declares(h, type, kind)
      /\ kind = "" => h = Nil \/ \A k : ~ Declares(h, type, k)
  BY SymbolIs
<1> HIDE DEF h, home, type, kind
<1>5. ASSUME NEW d \in Declared, d[1] = home, d[2] = type
      PROVE  kind # "" /\ d = <<home, type, kind>>
  <2>1. PICK k \in DOMAIN system : d \in DeclaredBy(modules[k])
    BY <1>1, DeclaredIs
  <2>2. PICK name, l : d = <<modules[k].name, name, l>> /\ Declares(modules[k], name, l)
    BY <2>1, DeclaredByIs
  <2>3. name = type /\ system[k].name = home /\ d = <<home, type, l>>
    BY <1>1, <1>5, <2>2
  <2>4. Declares(system[k], type, l)
    BY <1>1, <2>2, <2>3
  <2>5. PICK j \in DOMAIN system : h = system[j] /\ system[j].name = home /\ h # Nil
    BY <1>3, <2>3
  <2>6. j = k
    BY <1>1, <2>3, <2>5 DEF Distinct
  <2>7. Declares(h, type, l)
    BY <2>4, <2>5, <2>6
  <2>8. kind # "" /\ Declares(h, type, kind)
    BY <1>4, <2>5, <2>7
  <2>9. kind = l
    BY <1>1, <2>5, <2>7, <2>8, OneKind
  <2> QED
    BY <2>3, <2>8, <2>9
<1>6. ASSUME kind # ""
      PROVE  <<home, type, kind>> \in Declared
  <2>1. PICK k \in DOMAIN system : h = system[k] /\ system[k].name = home
    BY <1>3, <1>4, <1>6
  <2>2. Declares(modules[k], type, kind) /\ modules[k].name = home
    BY <1>1, <1>4, <1>6, <2>1
  <2>3. <<home, type, kind>> \in DeclaredBy(modules[k])
    BY <2>2, DeclaredByIs
  <2> QED
    BY <1>1, <2>3, DeclaredIs
<1>7. <<home, type, kind>>[1] = home /\ <<home, type, kind>>[2] = type
  OBVIOUS
<1>8. {d \in Declared : d[1] = home /\ d[2] = type} =
        IF kind = "" THEN {} ELSE {<<home, type, kind>>}
  <2>1. CASE kind = ""
    BY <1>5, <2>1
  <2>2. CASE kind # ""
    BY <1>5, <1>6, <1>7, <2>2
  <2> QED
    BY <2>1, <2>2
<1> QED
  BY <1>8 DEF home, type, kind

LEMMA SchemaIsResolved ==
  ASSUME NEW system \in Seq(Modules), SystemIsValid(system), modules = Validated(system),
         NEW i \in DOMAIN modules, NEW s \in SchemasOf(modules[i])
  PROVE  /\ i \in DOMAIN system
         /\ \E x \in Schemas : s = ValidSchema(system, system[i], x)
<1>1. /\ i \in DOMAIN system /\ system[i] \in Modules
      /\ modules[i] = ValidModule(system, system[i])
  BY ValidatedParts
<1>2. s \in SchemasOf(ValidModule(system, system[i]))
  BY <1>1
<1>3. Resolved(system, system[i], s)
  BY <1>1, <1>2, SchemasResolved
<1> QED
  BY <1>1, <1>3 DEF Resolved

(* The kind pkg/model/schema.go gives a symbol is that of the one          *)
(* declaration with its name in the module it is looked up in, or none     *)
(* when there is none.                                                     *)
THEOREM ResolvedCorrect == Spec => []ResolvedRight
<1>1. ASSUME Inv PROVE ResolvedRight
  <2> SUFFICES ASSUME phase = "valid", NEW i \in DOMAIN modules,
                      NEW s \in SchemasOf(modules[i]), s.type \notin Primitives \cup {"void"}
               PROVE  {d \in Declared : d[1] = HomeName(modules[i], s.import) /\ d[2] = s.type} =
                        IF s.kind = "" THEN {}
                        ELSE {<<HomeName(modules[i], s.import), s.type, s.kind>>}
    BY DEF ResolvedRight, HomeName
  <2>1. PICK system \in Seq(Modules) : SystemIsValid(system) /\ modules = Validated(system)
    BY <1>1, DocumentIsFirst
  <2>2. PICK x \in Schemas : i \in DOMAIN system /\ s = ValidSchema(system, system[i], x)
    BY <2>1, SchemaIsResolved
  <2>3. s.kind = Symbol(system, system[i], s)
    BY <2>2, ResolvedIs
  <2>4. i \in DOMAIN system
    BY <2>2
  <2> QED
    BY <2>1, <2>3, <2>4, SymbolIsDeclared, Zenon
<1> QED
  BY <1>1, Invariant, PTL

----------------
(* What the template filters are given. *)

(* The names in the tree.                                                  *)
LEMMA NameIsWritten ==
  ASSUME TreeDone, NEW r \in {"extern", "enum", "struct", "interface"}, NEW n \in Below(r, 1),
         tree[n].name \in Text
  PROVE  tree[n].name \notin TypeNames
<1>1. tree[n].rule = r /\ n \in 1 .. Len(tree)
  BY BelowFacts
<1>2. tree[n].name \in NameOf(r) \cup {Nil}
  BY <1>1 DEF TreeDone, Written
<1>3. tree[n].name \in NamesOf[r] \cup {MissingToken}
  BY <1>2, NilIsNew DEF NameOf
<1>4. NamesOf[r] \cap TypeNames = {}
  BY DocumentAssumption DEF TypeNames
<1>5. MissingToken \notin TypeNames
  BY DEF MissingToken, TypeNames, Primitives
<1> QED
  BY <1>3, <1>4, <1>5

LEMMA UnderIsBelow ==
  ASSUME TreeDone, NEW r, NEW i \in DOMAIN Under(r, 1)
  PROVE  Under(r, 1)[i] \in Below(r, 1)
<1>1. Sorted(Under(r, 1), Below(r, 1)) /\ Below(r, 1) \in SUBSET Nat
  BY UnderSorted, BelowFacts
<1> QED
  BY <1>1, SortedDiffer

(* A document declares nothing that is called like a type.                 *)
LEMMA DocumentNames ==
  ASSUME TreeDone, ModuleAt(3) \in Modules
  PROVE  NoTypeDeclared(ModuleAt(3))
<1> DEFINE m == ModuleAt(3)
<1>1. /\ m.externs = Map(Under("extern", 1), ExternAt)
      /\ m.interfaces = Map(Under("interface", 1), InterfaceAt)
      /\ m.structs = Map(Under("struct", 1), StructAt)
      /\ m.enums = Map(Under("enum", 1), EnumAt)
  BY DEF ModuleAt
<1>2. /\ m.externs \in Seq(Externs) /\ m.interfaces \in Seq(Interfaces)
      /\ m.structs \in Seq(Structs) /\ m.enums \in Seq(Enums)
  BY DEF Modules
<1> HIDE DEF m
<1>3. ASSUME NEW i \in DOMAIN m.externs PROVE m.externs[i].name \notin TypeNames
  <2>1. i \in DOMAIN Under("extern", 1) /\ m.externs[i] = ExternAt(Under("extern", 1)[i])
    BY <1>1 DEF Map
  <2>2. m.externs[i] \in Externs
    BY <1>2
  <2>3. m.externs[i].name \in Text /\ m.externs[i].name = tree[Under("extern", 1)[i]].name
    BY <2>1, <2>2 DEF ExternAt, Externs
  <2> QED
    BY <2>1, <2>3, UnderIsBelow, NameIsWritten
<1>4. ASSUME NEW i \in DOMAIN m.interfaces PROVE m.interfaces[i].name \notin TypeNames
  <2>1. /\ i \in DOMAIN Under("interface", 1)
        /\ m.interfaces[i] = InterfaceAt(Under("interface", 1)[i])
    BY <1>1 DEF Map
  <2>2. m.interfaces[i] \in Interfaces
    BY <1>2
  <2>3. m.interfaces[i].name \in Text /\ m.interfaces[i].name = tree[Under("interface", 1)[i]].name
    BY <2>1, <2>2 DEF InterfaceAt, Interfaces
  <2> QED
    BY <2>1, <2>3, UnderIsBelow, NameIsWritten
<1>5. ASSUME NEW i \in DOMAIN m.structs PROVE m.structs[i].name \notin TypeNames
  <2>1. i \in DOMAIN Under("struct", 1) /\ m.structs[i] = StructAt(Under("struct", 1)[i])
    BY <1>1 DEF Map
  <2>2. m.structs[i] \in Structs
    BY <1>2
  <2>3. m.structs[i].name \in Text /\ m.structs[i].name = tree[Under("struct", 1)[i]].name
    BY <2>1, <2>2 DEF StructAt, Structs
  <2> QED
    BY <2>1, <2>3, UnderIsBelow, NameIsWritten
<1>6. ASSUME NEW i \in DOMAIN m.enums PROVE m.enums[i].name \notin TypeNames
  <2>1. i \in DOMAIN Under("enum", 1) /\ m.enums[i] = EnumAt(Under("enum", 1)[i])
    BY <1>1 DEF Map
  <2>2. m.enums[i] \in Enums
    BY <1>2
  <2>3. m.enums[i].name \in Text /\ m.enums[i].name = tree[Under("enum", 1)[i]].name
    BY <2>1, <2>2 DEF EnumAt, Enums
  <2> QED
    BY <2>1, <2>3, UnderIsBelow, NameIsWritten
<1>7. \A name \in TypeNames : /\ ~ Has(m.externs, name) /\ ~ Has(m.interfaces, name)
                              /\ ~ Has(m.structs, name) /\ ~ Has(m.enums, name)
  BY <1>3, <1>4, <1>5, <1>6 DEF Has
<1> QED
  BY <1>7 DEF NoTypeDeclared, TypeNames, m

(* What a name is in the module itself.                                    *)
LEMMA LocalIs ==
  ASSUME NEW system, NEW m \in Modules, NEW type
  PROVE  /\ Symbol(system, m, Schema("", type)) \in DeclaredKinds \cup {""}
         /\ Symbol(system, m, Schema("", type)) # "" =>
              Declares(m, type, Symbol(system, m, Schema("", type)))
         /\ Symbol(system, m, Schema("", type)) = "" => \A k : ~ Declares(m, type, k)
<1> DEFINE s == Schema("", type)
<1>1. s.import = "" /\ s.type = type
  BY DEF Schema
<1> HIDE DEF s
<1>2. m # Nil
  BY NilAssumption
<1>3. Home(system, m, s.import) = m
  BY <1>1 DEF Home
<1>4. /\ Symbol(system, m, s) \in DeclaredKinds \cup {""}
      /\ Symbol(system, m, s) # "" => Declares(m, s.type, Symbol(system, m, s))
      /\ Symbol(system, m, s) = "" => m = Nil \/ \A k : ~ Declares(m, s.type, k)
  BY <1>3, SymbolIs
<1> QED
  BY <1>1, <1>2, <1>4 DEF s

LEMMA NotDeclared ==
  ASSUME NEW m, NoTypeDeclared(m), NEW type, NEW k, Declares(m, type, k)
  PROVE  type \notin TypeNames
BY DEF NoTypeDeclared, Declares, TypeNames

(* The kind of a name without an import.                                   *)
LEMMA LocalKind ==
  ASSUME NEW system \in Seq(Modules), SystemIsValid(system), modules = Validated(system),
         NEW i \in DOMAIN system, NEW s, s.import = "", s.kind = Symbol(system, system[i], s)
  PROVE  Symbol(modules, modules[i], Schema("", s.type)) = s.kind
<1> DEFINE local == Symbol(modules, modules[i], Schema("", s.type))
           kind == s.kind
           type == s.type
           m == system[i]
<1>1. /\ m \in Modules /\ ModuleIsValid(m) /\ modules[i] \in Modules
      /\ \A name, l : Declares(modules[i], name, l) <=> Declares(m, name, l)
  <2>1. m \in Modules /\ ModuleIsValid(m) /\ modules[i] = ValidModule(system, m)
    BY ValidatedParts
  <2>2. \A name, l : Declares(modules[i], name, l) <=> Declares(m, name, l)
    BY ValidatedParts
  <2>3. modules[i] \in Modules
    BY <2>1, ValidModuleTyped
  <2> QED
    BY <2>1, <2>2, <2>3
<1>2. /\ local \in DeclaredKinds \cup {""}
      /\ local # "" => Declares(modules[i], type, local)
      /\ local = "" => \A k : ~ Declares(modules[i], type, k)
  BY <1>1, LocalIs
<1>3. m # Nil
  BY <1>1, NilAssumption
<1>4. Home(system, m, s.import) = m
  BY DEF Home
<1>5. /\ kind # "" => Declares(m, type, kind)
      /\ kind = "" => m = Nil \/ \A k : ~ Declares(m, type, k)
  BY <1>4, SymbolIs
<1> HIDE DEF local, kind, type, m
<1>6. local # "" /\ kind # "" => local = kind
  BY <1>1, <1>2, <1>5, OneKind
<1>7. local = "" <=> kind = ""
  BY <1>1, <1>2, <1>3, <1>5
<1>8. local = kind
  BY <1>6, <1>7
<1> QED
  BY <1>8 DEF local, kind

LEMMA ViewTyped ==
  ASSUME NEW kind \in Kinds, NEW local \in Symbols \cup {""}, NEW array \in BOOLEAN,
         NEW imported \in BOOLEAN, NEW hollow \in BOOLEAN, NEW hollowLocal \in BOOLEAN
  PROVE  [kind |-> kind, array |-> array, imported |-> imported, local |-> local,
          hollow |-> hollow, hollowLocal |-> hollowLocal]
           \in [kind : Kinds, local : Symbols \cup {""}, array : BOOLEAN, imported : BOOLEAN,
               hollow : BOOLEAN, hollowLocal : BOOLEAN]
OBVIOUS

(* What the validation hands to a filter.                                  *)
LEMMA ViewIsRight ==
  ASSUME NEW system \in Seq(Modules), SystemIsValid(system), modules = Validated(system),
         \A i \in DOMAIN system : NoTypeDeclared(system[i]),
         NEW i \in DOMAIN modules, NEW s \in SchemasOf(modules[i])
  PROVE  View(modules[i], s) \in Views
<1> DEFINE m == modules[i]
           local == Symbol(modules, m, Schema("", s.type))
           hollow == HollowEnum(Home(modules, m, s.import), s.type)
           hollowLocal == HollowEnum(m, s.type)
           imported == s.import # ""
<1>1. PICK x \in Schemas : i \in DOMAIN system /\ s = ValidSchema(system, system[i], x)
  BY SchemaIsResolved
<1>2. /\ s \in Schemas
      /\ s.type \in TypeNames => s.kind = s.type
      /\ s.type \notin TypeNames => s.kind = Symbol(system, system[i], s)
  BY <1>1, ResolvedIs DEF TypeNames
<1>3. /\ s.kind \in SchemaKinds /\ s.array \in BOOLEAN
  BY <1>2 DEF Schemas
<1>4. /\ \A name, l : Declares(m, name, l) <=> Declares(system[i], name, l)
      /\ system[i] \in Modules /\ m = ValidModule(system, system[i])
  <2>1. \A k \in DOMAIN system : system[k] \in Modules /\ modules[k] = ValidModule(system, system[k])
    BY ValidatedParts
  <2>2. \A k \in DOMAIN system : \A name, l :
          Declares(modules[k], name, l) <=> Declares(system[k], name, l)
    BY ValidatedParts
  <2> QED
    BY <1>1, <2>1, <2>2
<1>5. m \in Modules
  BY <1>4, ValidModuleTyped
<1>6. /\ local \in DeclaredKinds \cup {""}
      /\ local # "" => Declares(m, s.type, local)
  BY <1>5, LocalIs
<1>7. Symbol(system, system[i], s) \in DeclaredKinds \cup {""}
  BY SymbolIs
<1>8. local # "" => s.type \notin TypeNames
  <2>1. NoTypeDeclared(system[i])
    BY <1>1
  <2> HIDE DEF local
  <2>2. local # "" => Declares(system[i], s.type, local)
    BY <1>4, <1>6
  <2> QED
    BY <2>1, <2>2, NotDeclared
<1>9. ~ imported => hollow = hollowLocal
  <2>1. s.import = "" => Home(modules, m, s.import) = m
    BY DEF Home
  <2> QED
    BY <2>1
<1>10. ~ imported /\ s.kind \in Symbols \cup {""} => local = s.kind
  <2> SUFFICES ASSUME s.import = "", s.kind \in Symbols \cup {""} PROVE local = s.kind
    OBVIOUS
  <2>1. s.type \notin TypeNames
    BY <1>2 DEF TypeNames, Primitives, Symbols, Declarations
  <2>2. s.kind = Symbol(system, system[i], s) /\ i \in DOMAIN system
    BY <1>1, <1>2, <2>1
  <2> QED
    BY <2>2, LocalKind
<1>11. hollow \in BOOLEAN /\ hollowLocal \in BOOLEAN /\ imported \in BOOLEAN
  BY DEF HollowEnum
<1>12. View(m, s) = [kind |-> s.kind, array |-> s.array, imported |-> imported, local |-> local,
                     hollow |-> hollow, hollowLocal |-> hollowLocal]
  BY DEF View
<1>13. local \in Symbols \cup {""}
  BY <1>6 DEF DeclaredKinds, Symbols, Declarations
<1>14. s.kind \in Kinds
  BY <1>3 DEF SchemaKinds, Primitives, Kinds, Basic, Symbols, Declarations
<1>15. local # "" => s.kind \in Symbols \cup {""}
  BY <1>2, <1>7, <1>8 DEF DeclaredKinds, Symbols, Declarations
<1> HIDE DEF m, local, hollow, hollowLocal, imported
<1> DEFINE v == View(m, s)
<1>16. /\ v.kind = s.kind /\ v.array = s.array /\ v.imported = imported /\ v.local = local
       /\ v.hollow = hollow /\ v.hollowLocal = hollowLocal
  BY <1>12
<1>17. v \in [kind : Kinds, local : Symbols \cup {""}, array : BOOLEAN, imported : BOOLEAN,
              hollow : BOOLEAN, hollowLocal : BOOLEAN]
  <2> DEFINE kind == s.kind
             array == s.array
  <2>1. kind \in Kinds /\ array \in BOOLEAN
    BY <1>3, <1>14
  <2>2. v = [kind |-> kind, array |-> array, imported |-> imported, local |-> local,
             hollow |-> hollow, hollowLocal |-> hollowLocal]
    BY <1>12
  <2> HIDE DEF kind, array, v
  <2>3. [kind |-> kind, array |-> array, imported |-> imported, local |-> local,
         hollow |-> hollow, hollowLocal |-> hollowLocal]
          \in [kind : Kinds, local : Symbols \cup {""}, array : BOOLEAN, imported : BOOLEAN,
              hollow : BOOLEAN, hollowLocal : BOOLEAN]
    BY <1>11, <1>13, <2>1, ViewTyped
  <2> QED
    BY <2>2, <2>3
<1> HIDE DEF v
<1>18. v.local # "" => v.kind \in Symbols \cup {""}
  BY <1>15, <1>16
<1>19. ~ v.imported => v.hollow = v.hollowLocal
  BY <1>9, <1>16
<1>20. ~ v.imported => (v.kind \in Symbols \cup {""} => v.local = v.kind)
  BY <1>10, <1>16
<1>21. v \in Views
  BY <1>17, <1>18, <1>19, <1>20 DEF Views
<1> QED
  BY <1>21 DEF m, v

LEMMA NothingDeclaresTypes ==
  ASSUME Inv, phase = "valid", \A d \in Data : NoTypeDeclared(d)
  PROVE  \E system \in Seq(Modules) :
           /\ SystemIsValid(system) /\ modules = Validated(system)
           /\ \A i \in DOMAIN system : NoTypeDeclared(system[i])
<1>1. PICK system \in Seq(Modules) :
        /\ SystemIsValid(system) /\ modules = Validated(system)
        /\ 1 \in DOMAIN system /\ system[1] = ModuleAt(3)
        /\ \A i \in DOMAIN system : i = 1 \/ system[i] \in Data
  BY DocumentIsFirst
<1>2. TreeDone
  BY DocumentIsFirst
<1>3. ModuleAt(3) \in Modules
  BY <1>1
<1>4. NoTypeDeclared(ModuleAt(3))
  BY <1>2, <1>3, DocumentNames
<1>5. \A i \in DOMAIN system : NoTypeDeclared(system[i])
  BY <1>1, <1>4
<1> QED
  BY <1>1, <1>5

LEMMA SeenViewsAreViews ==
  ASSUME Inv, phase = "valid", \A d \in Data : NoTypeDeclared(d)
  PROVE  SeenViews \subseteq Views
<1>1. PICK system \in Seq(Modules) :
        /\ SystemIsValid(system) /\ modules = Validated(system)
        /\ \A i \in DOMAIN system : NoTypeDeclared(system[i])
  BY NothingDeclaresTypes
<1>2. \A i \in DOMAIN modules : \A s \in SchemasOf(modules[i]) : View(modules[i], s) \in Views
  BY <1>1, ViewIsRight
<1>3. ASSUME NEW v \in SeenViews PROVE v \in Views
  <2>1. \E i \in DOMAIN modules : v \in {View(modules[i], s) : s \in SchemasOf(modules[i])}
    BY Zenon DEF SeenViews
  <2> QED
    BY <1>2, <2>1
<1> QED
  BY <1>3

----------------
(* What the template filters write. *)

(* What a filter knows of a schema.                                        *)
LEMMA ViewFacts ==
  ASSUME NEW v \in Views
  PROVE  /\ v.kind \in Kinds /\ v.local \in Symbols \cup {""}
         /\ v.array \in BOOLEAN /\ v.imported \in BOOLEAN
         /\ v.hollow \in BOOLEAN /\ v.hollowLocal \in BOOLEAN
         /\ v.local # "" => v.kind \in Symbols \cup {""}
         /\ ~ v.imported => (v.kind \in Symbols \cup {""} => v.local = v.kind)
BY DEF Views

USE DEF Texts, Wrap, Qualified, LocalFirst, NoMember, Kinds, Basic, Symbols, Declarations

(* C++: what can be a return type can be written everywhere.               *)
LEMMA CppWrites ==
  ASSUME NEW v \in Views, v.kind \notin {"void", ""}, ~ NoMember(v),
         CppReturn(v) \in Texts
  PROVE  {CppDefault(v), CppParam(v), CppTestValue(v), CppTypeRef(v)} \subseteq Texts
<1>1. CppDefault(v) \in Texts
  BY ViewFacts DEF CppReturn, CppDefault
<1>2. CppParam(v) \in Texts
  BY ViewFacts DEF CppReturn, CppParam
<1>3. CppTestValue(v) \in Texts
  BY ViewFacts DEF CppReturn, CppTestValue
<1>4. CppTypeRef(v) \in Texts
  BY ViewFacts DEF CppReturn, CppTypeRef
<1>5. QED
  BY <1>1, <1>2, <1>3, <1>4

(* Go: what can be a return type can be written everywhere.                *)
LEMMA GoWrites ==
  ASSUME NEW v \in Views, v.kind \notin {"void", ""}, ~ NoMember(v),
         GoReturn(v) \in Texts
  PROVE  {GoDefault(v), GoParam(v)} \subseteq Texts
<1>1. GoDefault(v) \in Texts
  BY ViewFacts DEF GoReturn, GoDefault
<1>2. GoParam(v) \in Texts
  BY ViewFacts DEF GoReturn, GoParam
<1>3. QED
  BY <1>1, <1>2

(* Java and JNI: what can be a return type can be written everywhere.      *)
LEMMA JavaWrites ==
  ASSUME NEW v \in Views, v.kind \notin {"void", ""}, ~ NoMember(v),
         JavaReturn(v) \in Texts
  PROVE  {JavaAsyncReturn(v), JavaElementType(v), JavaDefault(v), JavaParam(v),
          JavaTestValue(v), JniToType(v), JniEnvNameType(v), JniEmptyReturn(v)} \subseteq Texts
<1>1. JavaAsyncReturn(v) \in Texts
  BY ViewFacts DEF JavaReturn, JavaAsyncReturn
<1>2. JavaElementType(v) \in Texts
  BY ViewFacts DEF JavaReturn, JavaElementType
<1>3. JavaDefault(v) \in Texts
  BY ViewFacts DEF JavaReturn, JavaDefault
<1>4. JavaParam(v) \in Texts
  BY ViewFacts DEF JavaReturn, JavaParam
<1>5. JavaTestValue(v) \in Texts
  BY ViewFacts DEF JavaReturn, JavaTestValue
<1>6. JniToType(v) \in Texts
  BY ViewFacts DEF JavaReturn, JniToType
<1>7. JniEnvNameType(v) \in Texts
  BY ViewFacts DEF JavaReturn, JniEnvNameType
<1>8. JniEmptyReturn(v) \in Texts
  BY ViewFacts DEF JavaReturn, JniEmptyReturn
<1>9. QED
  BY <1>1, <1>2, <1>3, <1>4, <1>5, <1>6, <1>7, <1>8

(* JavaScript: what can be a return type can be written everywhere.        *)
LEMMA JsWrites ==
  ASSUME NEW v \in Views, v.kind \notin {"void", ""}, ~ NoMember(v),
         JsReturn(v) = ""
  PROVE  {JsDefault(v), JsParam(v)} \subseteq Texts
<1>1. JsDefault(v) \in Texts
  BY ViewFacts DEF JsReturn, JsDefault
<1>2. JsParam(v) \in Texts
  BY ViewFacts DEF JsReturn, JsParam
<1>3. QED
  BY <1>1, <1>2

(* TypeScript: what can be a return type can be written everywhere.        *)
LEMMA TsWrites ==
  ASSUME NEW v \in Views, v.kind \notin {"void", ""}, ~ NoMember(v),
         TsReturn(v) \in Texts
  PROVE  {TsDefault(v), TsParam(v)} \subseteq Texts
<1>1. TsDefault(v) \in Texts
  BY ViewFacts DEF TsReturn, TsDefault
<1>2. TsParam(v) \in Texts
  BY ViewFacts DEF TsReturn, TsParam
<1>3. QED
  BY <1>1, <1>2

(* Python: what can be a return type can be written everywhere.            *)
LEMMA PyWrites ==
  ASSUME NEW v \in Views, v.kind \notin {"void", ""}, ~ NoMember(v),
         PyReturn(v) \in Texts
  PROVE  {PyDefault(v), PyParam(v), PyTestValue(v)} \subseteq Texts
<1>1. PyDefault(v) \in Texts
  BY ViewFacts DEF PyReturn, PyDefault
<1>2. PyParam(v) \in Texts
  BY ViewFacts DEF PyReturn, PyParam
<1>3. PyTestValue(v) \in Texts
  BY ViewFacts DEF PyReturn, PyTestValue
<1>4. QED
  BY <1>1, <1>2, <1>3

(* Qt: what can be a return type can be written everywhere.                *)
LEMMA QtWrites ==
  ASSUME NEW v \in Views, v.kind \notin {"void", ""}, ~ NoMember(v), ~ QtNoMember(v),
         QtReturn(v) \in Texts
  PROVE  {QtDefault(v), QtParam(v), QtTestValue(v)} \subseteq Texts
<1>1. QtDefault(v) \in Texts
  BY ViewFacts DEF QtReturn, QtDefault, QtNoMember, QtFound, Finds
<1>2. QtParam(v) \in Texts
  BY ViewFacts DEF QtReturn, QtParam, QtNoMember, QtFound, Finds
<1>3. QtTestValue(v) \in Texts
  BY ViewFacts DEF QtReturn, QtTestValue, QtNoMember, QtFound, Finds
<1>4. QED
  BY <1>1, <1>2, <1>3

(* Rust: what can be a return type can be written everywhere.              *)
LEMMA RsWrites ==
  ASSUME NEW v \in Views, v.kind \notin {"void", ""}, ~ NoMember(v),
         RsReturn(v) \in Texts
  PROVE  {RsParam(v), RsTypeRef(v)} \subseteq Texts
<1>1. RsParam(v) \in Texts
  BY ViewFacts DEF RsReturn, RsParam
<1>2. RsTypeRef(v) \in Texts
  BY ViewFacts DEF RsReturn, RsTypeRef
<1>3. QED
  BY <1>1, <1>2

(* Unreal: what can be a return type can be written everywhere.            *)
LEMMA UeWrites ==
  ASSUME NEW v \in Views, v.kind \notin {"void", ""}, ~ NoMember(v),
         UeReturn(v) \in Texts
  PROVE  {UeDefault(v), UeParam(v), UeTestValue(v), UeType(v), UeConstType(v),
          UeIsStdSimpleType(v)} \subseteq Texts
<1>1. UeDefault(v) \in Texts
  BY ViewFacts DEF UeReturn, UeDefault
<1>2. UeParam(v) \in Texts
  BY ViewFacts DEF UeReturn, UeParam
<1>3. UeTestValue(v) \in Texts
  BY ViewFacts DEF UeReturn, UeTestValue
<1>4. UeType(v) \in Texts
  BY ViewFacts DEF UeReturn, UeType
<1>5. UeConstType(v) \in Texts
  BY ViewFacts DEF UeReturn, UeConstType
<1>6. UeIsStdSimpleType(v) \in Texts
  BY ViewFacts DEF UeReturn, UeIsStdSimpleType
<1>7. QED
  BY <1>1, <1>2, <1>3, <1>4, <1>5, <1>6

(* But for externs also the defaults of Rust and the signatures of JNI.    *)
LEMMA NoExternWrites ==
  ASSUME NEW v \in Views, v.kind \notin {"void", "", "extern"}
  PROVE  /\ RsReturn(v) \in Texts => RsDefault(v) \in Texts
         /\ JavaReturn(v) \in Texts => JniSignatureType(v) \in Texts
<1>1. RsReturn(v) \in Texts => RsDefault(v) \in Texts
  BY ViewFacts DEF RsReturn, RsDefault
<1>2. JavaReturn(v) \in Texts => JniSignatureType(v) \in Texts
  BY ViewFacts DEF JavaReturn, JniSignatureType
<1>3. QED
  BY <1>1, <1>2

(* Whatever a language can write as a return type its other filters can    *)
(* write too, for any schema: no template fails or leaves a gap half way.  *)
THEOREM NothingIsLeftOut == \A v \in Views : NothingLeftOut(v)
<1>1. SUFFICES ASSUME NEW v \in Views PROVE NothingLeftOut(v)
  OBVIOUS
<1>2. SUFFICES ASSUME v.kind \notin {"void", ""}, ~ NoMember(v), ~ QtNoMember(v)
               PROVE  NothingLeftOut(v)
  BY DEF NothingLeftOut
<1>3. QED
  BY <1>2, CppWrites, GoWrites, JavaWrites, JsWrites, TsWrites, PyWrites, QtWrites, RsWrites,
     UeWrites, NoExternWrites DEF NothingLeftOut

(* The filters that go by the import of the schema.                        *)
LEMMA QualifiedNames ==
  ASSUME NEW v \in Views, v.kind \in Declarations
  PROVE  \A text \in {CppReturn(v), CppDefault(v), CppParam(v), CppTypeRef(v),
                       GoReturn(v), GoDefault(v), GoParam(v), JniSignatureType(v),
                       UeReturn(v), UeDefault(v), UeParam(v), UeTestValue(v),
                       UeType(v), UeConstType(v)} :
           NamesRight(v, text)
<1>1. NamesRight(v, CppReturn(v))
  BY ViewFacts DEF NamesRight, CppReturn
<1>2. NamesRight(v, CppDefault(v))
  BY ViewFacts DEF NamesRight, CppDefault, CppReturn
<1>3. NamesRight(v, CppParam(v))
  BY ViewFacts DEF NamesRight, CppParam, CppReturn
<1>4. NamesRight(v, CppTypeRef(v))
  BY ViewFacts DEF NamesRight, CppTypeRef, CppReturn
<1>5. NamesRight(v, GoReturn(v))
  BY ViewFacts DEF NamesRight, GoReturn
<1>6. NamesRight(v, GoDefault(v))
  BY ViewFacts DEF NamesRight, GoDefault, GoReturn
<1>7. NamesRight(v, GoParam(v))
  BY ViewFacts DEF NamesRight, GoParam, GoReturn
<1>8. NamesRight(v, JniSignatureType(v))
  BY ViewFacts DEF NamesRight, JniSignatureType
<1>9. NamesRight(v, UeReturn(v))
  BY ViewFacts DEF NamesRight, UeReturn
<1>10. NamesRight(v, UeDefault(v))
  BY ViewFacts DEF NamesRight, UeDefault, UeReturn
<1>11. NamesRight(v, UeParam(v))
  BY ViewFacts DEF NamesRight, UeParam, UeReturn
<1>12. NamesRight(v, UeTestValue(v))
  BY ViewFacts DEF NamesRight, UeTestValue, UeReturn
<1>13. NamesRight(v, UeType(v))
  BY ViewFacts DEF NamesRight, UeType, UeReturn
<1>14. NamesRight(v, UeConstType(v))
  BY ViewFacts DEF NamesRight, UeConstType, UeReturn
<1>15. QED
  BY <1>1, <1>2, <1>3, <1>4, <1>5, <1>6, <1>7, <1>8, <1>9, <1>10, <1>11, <1>12, <1>13, <1>14

(* Those that look in the module first, when it has no such name itself.   *)
LEMMA LocalFirstNames ==
  ASSUME NEW v \in Views, v.kind \in Declarations, ~ v.imported \/ v.local = ""
  PROVE  \A text \in {CppTestValue(v), QtReturn(v), QtDefault(v), QtParam(v),
                       QtTestValue(v)} :
           NamesRight(v, text)
<1>1. NamesRight(v, CppTestValue(v))
  BY ViewFacts DEF NamesRight, CppTestValue, CppReturn
<1>2. NamesRight(v, QtReturn(v))
  BY ViewFacts DEF NamesRight, QtReturn, QtFound, Finds, QtNoMember
<1>3. NamesRight(v, QtDefault(v))
  BY ViewFacts DEF NamesRight, QtDefault, QtReturn, QtFound, Finds, QtNoMember
<1>4. NamesRight(v, QtParam(v))
  BY ViewFacts DEF NamesRight, QtParam, QtReturn, QtFound, Finds, QtNoMember
<1>5. NamesRight(v, QtTestValue(v))
  BY ViewFacts DEF NamesRight, QtTestValue, QtReturn, QtFound, Finds, QtNoMember, QtDefault
<1>6. QED
  BY <1>1, <1>2, <1>3, <1>4, <1>5

(* Python, but for interfaces.                                             *)
LEMMA PythonNames ==
  ASSUME NEW v \in Views, v.kind \in {"enum", "struct"}, ~ v.imported \/ v.local = ""
  PROVE  \A text \in {PyReturn(v), PyDefault(v), PyParam(v), PyTestValue(v)} :
           NamesRight(v, text)
<1>1. NamesRight(v, PyReturn(v))
  BY ViewFacts DEF NamesRight, PyReturn
<1>2. NamesRight(v, PyDefault(v))
  BY ViewFacts DEF NamesRight, PyDefault, PyReturn
<1>3. NamesRight(v, PyParam(v))
  BY ViewFacts DEF NamesRight, PyParam, PyReturn
<1>4. NamesRight(v, PyTestValue(v))
  BY ViewFacts DEF NamesRight, PyTestValue, PyReturn
<1>5. QED
  BY <1>1, <1>2, <1>3, <1>4

(* The filters of a language name the declaration that was resolved, for   *)
(* any schema.                                                             *)
THEOREM DeclarationIsRight == \A v \in Views : RightDeclaration(v)
<1>1. SUFFICES ASSUME NEW v \in Views, v.kind \in Declarations PROVE RightDeclaration(v)
  BY DEF RightDeclaration
<1>2. v.kind # "interface" => v.kind \in {"enum", "struct"}
  BY <1>1
<1>3. QED
  BY <1>1, <1>2, QualifiedNames, LocalFirstNames, PythonNames DEF RightDeclaration, NamesRight

(* A symbol that was not resolved is seen: its filters fail or leave it    *)
(* out as UnresolvedIsCaught says.                                         *)
THEOREM UnresolvedIsSeen == \A v \in Views : UnresolvedIsCaught(v)
<1>1. SUFFICES ASSUME NEW v \in Views, v.kind = "" PROVE UnresolvedIsCaught(v)
  BY DEF UnresolvedIsCaught
<1>2. {GoReturn(v), JavaReturn(v), JniToType(v), JsReturn(v), TsReturn(v), PyReturn(v),
       UeReturn(v)} = {"error"}
  BY ViewFacts, <1>1 DEF GoReturn, JavaReturn, JniToType, JsReturn, TsReturn, PyReturn, UeReturn
<1>3. v.local = "" =>
        {CppReturn(v), QtReturn(v), RsReturn(v)} = {IF v.array THEN "hollow" ELSE ""}
  BY ViewFacts, <1>1 DEF CppReturn, QtReturn, RsReturn, Finds
<1>4. v.local = "" /\ ~ v.array =>
        {CppParam(v), GoParam(v), JavaParam(v), JsParam(v), TsParam(v), PyParam(v),
         QtParam(v), RsParam(v), UeParam(v)} = {"error"}
  BY ViewFacts, <1>1 DEF CppParam, GoParam, JavaParam, JsParam, TsParam, PyParam, QtParam,
     RsParam, UeParam, Finds
<1>5. QED
  BY <1>1, <1>2, <1>3, <1>4 DEF UnresolvedIsCaught

HIDE DEF Texts, Wrap, Qualified, LocalFirst, NoMember, Kinds, Basic, Symbols, Declarations

(* The filters of pkg/gen/filters agree on every schema of a valid system, *)
(* when no data file declares a name that is a type: they are given only   *)
(* the views they are written for, write a type everywhere or nowhere, and *)
(* name the declaration that was resolved.                                 *)
THEOREM FiltersCorrect ==
  (\A d \in Data : NoTypeDeclared(d)) => (Spec => []FiltersAgree)
<1> SUFFICES ASSUME \A d \in Data : NoTypeDeclared(d)
             PROVE  Spec => []FiltersAgree
  OBVIOUS
<1>1. ASSUME Inv PROVE FiltersAgree
  BY <1>1, SeenViewsAreViews, NothingIsLeftOut, DeclarationIsRight, UnresolvedIsSeen
     DEF FiltersAgree
<1> QED
  BY <1>1, Invariant, PTL
=============================================================================
