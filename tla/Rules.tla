-------------------------------- MODULE Rules --------------------------------
(***************************************************************************)
(* The rules document of a template (spec.RulesDoc): which features run    *)
(* when some are wanted, and which documents of them a system asks for.    *)
(*                                                                         *)
(* A feature is [name, requires, scopes], a scope [match, documents] and a *)
(* document [source, target, named, raw, force, preserve]; `target' has    *)
(* the scope's prefix in it, and `named' says that the target is a         *)
(* template that renders differently for each symbol.                      *)
(***************************************************************************)
EXTENDS Naturals, SequencesExt

All == "all"

(* The elements of a sequence that are in a set, in their order.           *)
Among(s, S) == FlattenSeq([i \in DOMAIN s |-> IF s[i] \in S THEN <<s[i]>> ELSE <<>>])

(* What rules and modules are made of.                                     *)
IsSequence(s) == s \in Seq(ToSet(s))

IsRules(features) ==
  /\ IsSequence(features)
  /\ \A f \in ToSet(features) : /\ IsSequence(f.requires) /\ IsSequence(f.scopes)
                                 /\ \A s \in ToSet(f.scopes) : IsSequence(s.documents)

IsModule(m) == IsSequence(m.interfaces) /\ IsSequence(m.structs) /\ IsSequence(m.enums)

(* RulesDoc.FeatureByName: the first feature of a name, 0 when there is    *)
(* none.                                                                   *)
FeatureByName(features, name) ==
  SelectInSeq(features, LAMBDA f : f.name = name)

(* DocumentRule.Validate: force and preserve exclude each other.           *)
DocumentValid(d) == ~(d.force /\ d.preserve)

RulesValid(features) ==
  \A f \in ToSet(features) : \A s \in ToSet(f.scopes) : \A d \in ToSet(s.documents) :
    DocumentValid(d)

(***************************************************************************)
(* A walk has marked the names in `seen' and still has those in `left'     *)
(* before it; it fails at the first name that no feature has.              *)
(***************************************************************************)
NamesIn(features) ==
  UNION {{features[i].name} \cup ToSet(features[i].requires) : i \in DOMAIN features}

Walks(features) ==
  [seen : SUBSET NamesIn(features), left : Seq(NamesIn(features)), failed : BOOLEAN]

Ended(walk) == walk.failed \/ walk.left = <<>>

(* A walk that looks only at what the wanted features name themselves.     *)
WalkRequiredOnce(features, walk) ==
  [seen |-> walk.seen \cup ToSet(walk.left), left |-> <<>>,
   failed |-> \E name \in ToSet(walk.left) : FeatureByName(features, name) = 0]

(* One name of walkRequired: it is marked before its feature is looked up, *)
(* so a cycle ends.                                                        *)
WalkName(features, walk) ==
  LET name == Head(walk.left)
      i == FeatureByName(features, name)
      rest == [walk EXCEPT !.left = Tail(@)]
  IN IF name \in walk.seen THEN rest
     ELSE IF i = 0 THEN [rest EXCEPT !.seen = @ \cup {name}, !.failed = TRUE]
     ELSE [rest EXCEPT !.seen = @ \cup {name}, !.left = features[i].requires \o @]

(* walkRequired: depth first, so what a feature requires comes before what *)
(* is left.                                                                *)
WalkRequired(features, walk) ==
  LET visit[w \in Walks(features)] ==
        IF Ended(w) THEN w ELSE visit[WalkName(features, w)]
  IN visit[walk]

(***************************************************************************)
(* ComputeFeatures: the positions of the features that are not skipped.    *)
(* Features of the rules that are wanted are walked in the order of the    *)
(* rules; of features with one name the first is enabled.                  *)
(***************************************************************************)
WalkWanted(features, wanted) ==
  LET walk[i \in 0 .. Len(features)] ==
        IF i = 0 THEN [seen |-> {}, left |-> <<>>, failed |-> FALSE]
        ELSE LET w == walk[i - 1]
                 f == features[i]
             IN IF w.failed \/ f.name \notin ToSet(wanted) THEN w
                ELSE WalkRequired(features,
                       [seen |-> w.seen \cup {f.name}, left |-> f.requires, failed |-> FALSE])
  IN walk[Len(features)]

ComputeFeatures(features, wanted) ==
  LET walk == WalkWanted(features, wanted)
      unknown == \E name \in ToSet(wanted) : FeatureByName(features, name) = 0
  IN IF All \in ToSet(wanted) THEN [failed |-> FALSE, on |-> DOMAIN features]
     ELSE IF unknown \/ walk.failed THEN [failed |-> TRUE, on |-> {}]
     ELSE [failed |-> FALSE, on |-> {FeatureByName(features, n) : n \in walk.seen}]

(* FeatureNamesMap: the names the templates are told are enabled; of       *)
(* features with one name the last one counts.                             *)
FeatureNamesMap(features, on) ==
  {features[i].name : i \in {j \in on : \A k \in DOMAIN features :
                               k > j => features[k].name # features[j].name}}

(***************************************************************************)
(* The order of processFeature: the system, then for each module itself,   *)
(* its interfaces, its structs and its enums.  A module is [name,          *)
(* interfaces, structs, enums].                                            *)
(***************************************************************************)
Contexts(modules) ==
  LET Each(match, module, names) ==
        [i \in DOMAIN names |-> [match |-> match, module |-> module, symbol |-> names[i]]]
  IN <<[match |-> "system", module |-> "", symbol |-> ""]>> \o
     FlattenSeq([i \in DOMAIN modules |->
       LET m == modules[i]
       IN Each("module", m.name, <<m.name>>) \o Each("interface", m.name, m.interfaces) \o
          Each("struct", m.name, m.structs) \o Each("enum", m.name, m.enums)])

(* processScope, FindScopesByMatch: an empty target is the source.         *)
Document(feature, doc, context) ==
  [feature |-> feature, source |-> doc.source, raw |-> doc.raw, preserve |-> doc.preserve,
   context |-> context,
   target |-> <<IF doc.target = "" THEN doc.source ELSE doc.target,
                IF doc.named THEN context.symbol ELSE "">>]

ProcessFeature(feature, modules) ==
  LET ForContext(context) ==
        LET scopes == Among(feature.scopes,
                            {s \in ToSet(feature.scopes) : s.match = context.match})
        IN FlattenSeq([i \in DOMAIN scopes |->
             [j \in DOMAIN scopes[i].documents |->
               Document(feature.name, scopes[i].documents[j], context)]])
      contexts == Contexts(modules)
  IN FlattenSeq([i \in DOMAIN contexts |-> ForContext(contexts[i])])

(* What ProcessRules writes, in its order, with the features in `on'.      *)
Documents(features, on, modules) ==
  FlattenSeq([i \in DOMAIN features |->
    IF i \in on THEN ProcessFeature(features[i], modules) ELSE <<>>])
=============================================================================
