-------------------------- MODULE ObjectApiGrammar --------------------------
(***************************************************************************)
(* The grammar of ObjectAPI documents, rule by rule as the parser runs it. *)
(* The function of a rule goes from one position to the next by matching a *)
(* token or calling the function of another rule, and may return at some   *)
(* of the positions.  Tokens the listener reads are named by the label     *)
(* they have in the rule's context; the rest stand for themselves.         *)
(***************************************************************************)
EXTENDS Integers

(* A rule: its moves <<from, token or rule, to>> and where it may return.  *)
Rule(moves, returns) == [moves |-> moves, returns |-> returns]

DocumentRule == Rule({<<0, "header", 1>>, <<1, "declarations", 1>>}, {1})

HeaderRule == Rule({<<0, "module", 1>>, <<1, "import", 1>>}, {1})

ModuleRule ==
  Rule({<<0, "meta", 0>>, <<0, "'module'", 1>>, <<1, "name", 2>>,
        <<2, "version", 3>>, <<2, "';'", 4>>, <<3, "';'", 4>>}, {2, 3, 4})

ImportRule ==
  Rule({<<0, "'import'", 1>>, <<1, "name", 2>>, <<2, "version", 3>>,
        <<2, "';'", 4>>, <<3, "';'", 4>>}, {2, 3, 4})

DeclarationsRule ==
  Rule({0} \X {"extern", "interface", "struct", "enum"} \X {1}, {1})

ExternRule ==
  Rule({<<0, "meta", 0>>, <<0, "'extern'", 1>>, <<1, "name", 2>>,
        <<2, "';'", 3>>}, {2, 3})

InterfaceRule ==
  Rule({<<0, "meta", 0>>, <<0, "'interface'", 1>>, <<1, "name", 2>>,
        <<2, "'extends'", 3>>, <<3, "extends", 4>>, <<2, "'{'", 5>>,
        <<4, "'{'", 5>>, <<5, "members", 5>>, <<5, "'}'", 6>>}, {6})

InterfaceMembersRule == Rule({0} \X {"property", "operation", "signal"} \X {1}, {1})

(* Properties and fields are written alike.                                *)
Typed ==
  {<<0, "meta", 0>>, <<0, "readonly", 1>>, <<0, "name", 2>>, <<1, "name", 2>>,
   <<2, "':'", 3>>, <<3, "schema", 4>>, <<4, "';'", 5>>}

PropertyRuleNoType == Rule(Typed, {2, 4, 5})

PropertyRule == Rule(Typed, {4, 5})

OperationRule ==
  Rule({<<0, "meta", 0>>, <<0, "name", 1>>, <<1, "'('", 2>>, <<2, "param", 2>>,
        <<2, "')'", 3>>, <<3, "return", 4>>, <<3, "';'", 5>>, <<4, "';'", 5>>},
       {3, 4, 5})

OperationReturnRule == Rule({<<0, "':'", 1>>, <<1, "schema", 2>>}, {2})

OperationParamRule ==
  Rule({<<0, "name", 1>>, <<1, "':'", 2>>, <<2, "schema", 3>>, <<3, "','", 4>>},
       {3, 4})

SignalRule ==
  Rule({<<0, "meta", 0>>, <<0, "'signal'", 1>>, <<1, "name", 2>>, <<2, "'('", 3>>,
        <<3, "param", 3>>, <<3, "')'", 4>>, <<4, "';'", 5>>}, {4, 5})

StructRule ==
  Rule({<<0, "meta", 0>>, <<0, "'struct'", 1>>, <<1, "name", 2>>, <<2, "'{'", 3>>,
        <<3, "field", 3>>, <<3, "'}'", 4>>}, {4})

StructFieldRule == Rule(Typed, {4, 5})

EnumRule ==
  Rule({<<0, "meta", 0>>, <<0, "'enum'", 1>>, <<1, "name", 2>>, <<2, "'{'", 3>>,
        <<3, "member", 3>>, <<3, "'}'", 4>>}, {4})

EnumMemberRule ==
  Rule({<<0, "meta", 0>>, <<0, "name", 1>>, <<1, "'='", 2>>, <<2, "value", 3>>,
        <<1, "','", 4>>, <<3, "','", 4>>}, {1, 3, 4})

SchemaRule ==
  Rule({<<0, "primitive", 1>>, <<0, "symbol", 1>>, <<1, "array", 2>>}, {1, 2})

ArrayRule == Rule({<<0, "'['", 1>>, <<1, "']'", 2>>}, {2})

PrimitiveSchema == Rule({<<0, "name", 1>>}, {1})

SymbolSchema == Rule({<<0, "name", 1>>}, {1})

MetaRule == Rule({0} \X {"tagLine", "docLine"} \X {1}, {1})

Grammar ==
  [document |-> DocumentRule, header |-> HeaderRule, module |-> ModuleRule,
   import |-> ImportRule, declarations |-> DeclarationsRule, extern |-> ExternRule,
   interface |-> InterfaceRule, members |-> InterfaceMembersRule,
   property |-> PropertyRule, operation |-> OperationRule,
   return |-> OperationReturnRule, param |-> OperationParamRule,
   signal |-> SignalRule, struct |-> StructRule, field |-> StructFieldRule,
   enum |-> EnumRule, member |-> EnumMemberRule, schema |-> SchemaRule,
   array |-> ArrayRule, primitive |-> PrimitiveSchema, symbol |-> SymbolSchema,
   meta |-> MetaRule]

(* Labels of the tokens that are stored in the context of the rule.        *)
Labels == {"name", "version", "readonly", "extends", "value", "tagLine", "docLine"}

(* Tokens a rule tests for before it matches them: it goes on without them *)
(* if they are not there, so it never finds them missing.                  *)
Optional ==
  {"version", "readonly", "'extends'", "'='", "';'", "','", "tagLine", "docLine"}
=============================================================================
