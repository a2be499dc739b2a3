----------------------------- MODULE MCSolution ------------------------------
(***************************************************************************)
(* Small instances of Solution: one target made from a module, of which it *)
(* wants one feature, and one from a directory with a solution in it, of   *)
(* which it names none and so wants all, both written to one output; or    *)
(* one target from a directory that has a module as well.  Of the template *)
(* there are two versions, of which the new one lacks the source of a      *)
(* document that only the second target asks for.                          *)
(***************************************************************************)
EXTENDS Solution

CONSTANTS console, watcher, nothing

TwoFiles == {"api", "sol"}
ThreeFiles == {"api", "lib", "sol"}
AKind == [f \in Files |-> IF f = "sol" THEN "solution" ELSE "module"]
DirWithSolution == [shared |-> <<"sol">>]
DirWithBoth == [shared |-> <<"lib", "sol">>]

ASymbols ==
  [f \in Files |->
    [name |-> f, interfaces |-> IF f = "sol" THEN <<>> ELSE <<f>>, structs |-> <<>>, enums |-> <<>>]]

Doc(source, target, named, raw, preserve) ==
  [source |-> source, target |-> target, named |-> named, raw |-> raw, force |-> FALSE,
   preserve |-> preserve]

Feature(name, requires, match, document) ==
  [name |-> name, requires |-> requires,
   scopes |-> <<[match |-> match, documents |-> <<document>>]>>]

Features ==
  <<Feature("core", <<"api">>, "interface", Doc("stub", "", TRUE, FALSE, TRUE)),
    Feature("api", <<"core", "deep">>, "interface", Doc("api", "shared", FALSE, FALSE, FALSE)),
    Feature("deep", <<>>, "interface", Doc("deep", "", FALSE, FALSE, FALSE)),
    Feature("extra", <<>>, "system", Doc("license", "shared", FALSE, TRUE, TRUE))>>

ATemplate ==
  [old |-> [sources |-> {"stub", "api", "deep", "license"}, features |-> Features],
   new |-> [sources |-> {"stub", "api", "deep"}, features |-> Features]]

TwoTargets ==
  <<[inputs |-> <<"api">>, output |-> "out", features |-> <<"core">>, force |-> FALSE],
    [inputs |-> <<"shared">>, output |-> "out", features |-> <<>>, force |-> FALSE]>>

DirTarget ==
  <<[inputs |-> <<"shared">>, output |-> "out", features |-> <<>>, force |-> FALSE]>>

Console == {console}
Watcher == {watcher}
None == {}
=============================================================================
