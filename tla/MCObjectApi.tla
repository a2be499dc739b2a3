---------------------------- MODULE MCObjectApi -----------------------------
(* One document, and a module of a data file after it.                     *)
EXTENDS ObjectApi

MCNames ==
  [r \in DOMAIN Grammar |->
     CASE r = "module" -> {"m"}
       [] r = "import" -> {"n"}
       [] r \in {"extern", "struct", "enum"} -> {"A"}
       [] r = "interface" -> {"B"}
       [] r \in {"property", "operation", "signal", "field"} -> {"p"}
       [] r = "member" -> {"p", "q", "r"}
       [] r = "param" -> {"x"}
       [] r = "primitive" -> {"bytes"}
       [] r = "symbol" -> {"A", "n.A"}
       [] OTHER -> {}]

MCMax ==
  [r \in DOMAIN Grammar |->
     IF r \in {"declarations", "members", "schema"} THEN 2
     ELSE IF r = "member" THEN 3 ELSE 1]

(* A long declaration by itself, or two short ones.                        *)
MCMaxNodes == 0 :> 13 @@ 1 :> 13 @@ 2 :> 11
MCFewNodes == [n \in 0 .. 2 |-> 7]

MCText == STRING
MCExtends == {"A"}
MCValues == {1, 2}
MCInts == 0 .. 1
MCParts == [t \in {"A", "B", "n.A", MissingToken} |->
              IF t = "n.A" THEN <<"n", "A">> ELSE <<"", t>>]

(* n has every kind of type, names of the other module and of none, and an *)
(* operation that leaves out its return; m is called as the document is.   *)
Fields ==
  LET types == <<"bool", "int", "float", "string", "int32", "int64", "float32", "float64",
                 "bytes", "any", "A", "B", "E", "I", "X", "None">>
  IN [i \in DOMAIN types |-> [NewTypedNode(types[i], FALSE) EXCEPT
                                !.schema = Schema("", types[i])]]

Imported ==
  LET types == <<"A", "B">>
  IN [i \in DOMAIN types |-> [NewTypedNode("m" \o types[i], FALSE) EXCEPT
                                !.schema = Schema("m", types[i])]]

Arrays(fields) ==
  [i \in DOMAIN fields |-> [fields[i] EXCEPT !.name = @ \o "s", !.schema.array = TRUE]]

MCData ==
  {[NewModule("n") EXCEPT
      !.structs = <<NewStruct("A"),
                    [NewStruct("S") EXCEPT !.fields = Fields \o Imported
                                                            \o Arrays(Imported)
                                                            \o Arrays(SubSeq(Fields, 9, 16))]>>,
      !.enums = <<NewEnum("E"), [NewEnum("B") EXCEPT !.members = <<NewEnumMember("p", 0)>>]>>,
      !.externs = <<NewExtern("X")>>,
      !.interfaces = <<[NewInterface("I", Nil) EXCEPT
                          !.operations = <<NewOperation("p")>>]>>],
   [NewModule("m") EXCEPT !.externs = <<NewExtern("A")>>]}

ASSUME MCDataAssumption == \A d \in MCData : NoTypeDeclared(d)
=============================================================================
