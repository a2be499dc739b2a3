---------------------------- MODULE SolutionProofs ----------------------------
(***************************************************************************)
(* Proofs about Solution: its types (TypeCorrect), what a file that all    *)
(* rules preserve is safe from (GuardedCorrect), the features that are     *)
(* computed (ComputeCorrect), what a run leaves behind (CurrentCorrect),   *)
(* what a second run writes (SecondRunCorrect) and what it processes       *)
(* (ExactlyCorrect).                                                       *)
(***************************************************************************)
EXTENDS Solution, SequenceTheorems, FiniteSetTheorems, WellFoundedInduction, TLAPS

-----------------------------------------------------------------------------
(***************************************************************************)
(* Sequences.                                                              *)
(***************************************************************************)

(* A set of naturals that is not empty has a least element.                *)
LEMMA LeastNat ==
  ASSUME NEW S \in SUBSET Nat, S # {}
  PROVE  \E n \in S : \A m \in S : n <= m
<1>1. IsWellFoundedOn(OpToRel(<, Nat), Nat)
  BY NatLessThanWellFounded
<1>2. PICK n \in S : \A m \in S : ~(<<m, n>> \in OpToRel(<, Nat))
  BY <1>1, WFMin, Zenon
<1>3. \A m \in S : ~(m < n)
  BY <1>2 DEF OpToRel
<1> QED
  BY <1>3

(* The recursive function inside FlattenSeq exists and is what it says.    *)
LEMMA FlattenExists ==
  ASSUME NEW ss, NEW n \in Nat
  PROVE  \E f : f = [i \in 1 .. n |-> IF i = 1 THEN ss[i] ELSE f[i - 1] \o ss[i]]
<1> DEFINE Good(k) == \E f : f = [i \in 1 .. k |-> IF i = 1 THEN ss[i] ELSE f[i - 1] \o ss[i]]
           Bad == {k \in Nat : ~ Good(k)}
<1> SUFFICES ASSUME Bad # {} PROVE FALSE
  BY Zenon
<1>1. PICK k \in Bad : \A m \in Bad : k <= m
  <2> HIDE DEF Good
  <2> QED
    BY LeastNat
<1>2. k # 0
  <2>1. Good(0)
    <3>1. [i \in 1 .. 0 |-> {}] = [i \in 1 .. 0 |->
            IF i = 1 THEN ss[i] ELSE [j \in 1 .. 0 |-> {}][i - 1] \o ss[i]]
      OBVIOUS
    <3> QED
      BY <3>1, Zenon
  <2> QED
    BY <2>1, <1>1
<1>3. Good(k - 1)
  <2> HIDE DEF Good
  <2> QED
    BY <1>1, <1>2
<1>4. PICK f : f = [i \in 1 .. k - 1 |-> IF i = 1 THEN ss[i] ELSE f[i - 1] \o ss[i]]
  BY <1>3
<1> DEFINE g == [i \in 1 .. k |-> IF i < k THEN f[i] ELSE IF i = 1 THEN ss[i] ELSE f[i - 1] \o ss[i]]
<1>5. \A i \in 1 .. k - 1 : g[i] = f[i] /\ f[i] = IF i = 1 THEN ss[i] ELSE f[i - 1] \o ss[i]
  <2> TAKE i \in 1 .. k - 1
  <2>1. i \in 1 .. k /\ i < k
    BY <1>1
  <2>2. g[i] = f[i]
    BY <2>1
  <2>3. f[i] = IF i = 1 THEN ss[i] ELSE f[i - 1] \o ss[i]
    BY <1>4, Zenon
  <2> QED
    BY <2>2, <2>3
<1>6. \A i \in 1 .. k : g[i] = IF i = 1 THEN ss[i] ELSE g[i - 1] \o ss[i]
  <2> TAKE i \in 1 .. k
  <2>1. CASE i < k
    <3>1. i \in 1 .. k - 1 /\ (i # 1 => i - 1 \in 1 .. k - 1)
      BY <1>1, <2>1
    <3> HIDE DEF g
    <3>2. g[i] = f[i] /\ f[i] = IF i = 1 THEN ss[i] ELSE f[i - 1] \o ss[i]
      BY <3>1, <1>5
    <3>3. i # 1 => g[i - 1] = f[i - 1]
      BY <3>1, <1>5
    <3> QED
      BY <3>2, <3>3
  <2>2. CASE i = k
    <3>1. g[k] = IF k = 1 THEN ss[k] ELSE f[k - 1] \o ss[k]
      BY <1>1, <1>2
    <3>2. k # 1 => g[k - 1] = f[k - 1]
      BY <1>1, <1>2, <1>5
    <3> HIDE DEF g
    <3> QED
      BY <3>1, <3>2, <2>2
  <2> QED
    BY <2>1, <2>2, <1>1
<1>7. g = [i \in 1 .. k |-> g[i]]
  OBVIOUS
<1>8. g = [i \in 1 .. k |-> IF i = 1 THEN ss[i] ELSE g[i - 1] \o ss[i]]
  <2> HIDE DEF g
  <2> QED
    BY <1>6, <1>7, Zenon
<1> QED
  BY <1>1, <1>8, Zenon

(* Flattening sequences over a set is a sequence over it.                  *)
LEMMA FlattenType ==
  ASSUME NEW S, NEW ss \in Seq(Seq(S))
  PROVE  FlattenSeq(ss) \in Seq(S)
<1>1. CASE Len(ss) = 0
  BY <1>1, EmptySeq DEF FlattenSeq
<1>2. CASE Len(ss) # 0
  <2> DEFINE n == Len(ss)
             f == CHOOSE f : f = [i \in 1 .. n |-> IF i = 1 THEN ss[i] ELSE f[i - 1] \o ss[i]]
             Bad == {i \in 1 .. n : f[i] \notin Seq(S)}
  <2>1. n \in Nat \ {0} /\ \A i \in 1 .. n : ss[i] \in Seq(S)
    BY <1>2, LenProperties, ElementOfSeq
  <2>2. f = [i \in 1 .. n |-> IF i = 1 THEN ss[i] ELSE f[i - 1] \o ss[i]]
    <3> HIDE DEF n
    <3> QED
      BY <2>1, FlattenExists, Zenon
  <2> HIDE DEF f, n
  <2>3. Bad = {}
    <3> SUFFICES ASSUME Bad # {} PROVE FALSE
      OBVIOUS
    <3>1. PICK k \in Bad : \A m \in Bad : k <= m
      <4>1. Bad \in SUBSET Nat
        BY <2>1
      <4> HIDE DEF Bad
      <4> QED
        BY <4>1, LeastNat
    <3>2. f[k] = IF k = 1 THEN ss[k] ELSE f[k - 1] \o ss[k]
      BY <2>2, <3>1
    <3>3. k # 1 => k - 1 \in 1 .. n /\ f[k - 1] \in Seq(S)
      BY <3>1, <2>1
    <3>4. f[k] \in Seq(S)
      BY <3>1, <3>2, <3>3, <2>1, ConcatProperties
    <3> QED
      BY <3>1, <3>4
  <2>4. f[n] \in Seq(S)
    <3>1. n \in 1 .. n
      BY <2>1
    <3>2. n \notin Bad
      BY <2>3
    <3> QED
      BY <3>1, <3>2, Zenon
  <2>5. FlattenSeq(ss) = f[n]
    BY <1>2 DEF FlattenSeq, f, n
  <2> QED
    BY <2>4, <2>5
<1> QED
  BY <1>1, <1>2

(* A sequence by its domain.                                               *)
LEMMA SequenceByDomain ==
  ASSUME NEW s, NEW n \in Nat, s = [i \in 1 .. n |-> s[i]]
  PROVE  IsSequence(s) /\ Len(s) = n /\ DOMAIN s = 1 .. n
<1>1. DOMAIN s = 1 .. n
  OBVIOUS
<1>2. s \in [1 .. n -> ToSet(s)]
  BY <1>1 DEF ToSet
<1>3. s \in Seq(ToSet(s))
  BY <1>2
<1> QED
  BY <1>1, <1>3, LenProperties DEF IsSequence

LEMMA SequenceFacts ==
  ASSUME NEW s, IsSequence(s)
  PROVE  /\ Len(s) \in Nat /\ DOMAIN s = 1 .. Len(s)
         /\ s = [i \in 1 .. Len(s) |-> s[i]]
BY LenProperties DEF IsSequence

(* What is in a flattened sequence is in one of its parts.                 *)
LEMMA FlattenElements ==
  ASSUME NEW ss, IsSequence(ss), \A i \in DOMAIN ss : IsSequence(ss[i])
  PROVE  /\ IsSequence(FlattenSeq(ss))
         /\ \A x \in ToSet(FlattenSeq(ss)) : \E i \in DOMAIN ss : x \in ToSet(ss[i])
<1> DEFINE S == UNION {ToSet(ss[i]) : i \in DOMAIN ss}
<1>1. \A i \in DOMAIN ss : ss[i] \in Seq(S)
  <2> TAKE i \in DOMAIN ss
  <2>1. ToSet(ss[i]) \subseteq S
    OBVIOUS
  <2> HIDE DEF S
  <2>2. ss[i] \in Seq(ToSet(ss[i]))
    BY DEF IsSequence
  <2> QED
    BY <2>1, <2>2, SeqMonotonic
<1> HIDE DEF S
<1>2. ss \in Seq(Seq(S))
  <2>1. /\ Len(ss) \in Nat /\ DOMAIN ss = 1 .. Len(ss)
        /\ ss = [i \in 1 .. Len(ss) |-> ss[i]]
    BY SequenceFacts
  <2>2. ss \in [1 .. Len(ss) -> Seq(S)]
    BY <1>1, <2>1
  <2> QED
    BY <2>1, <2>2
<1> DEFINE f == FlattenSeq(ss)
<1>3. f \in Seq(S)
  BY <1>2, FlattenType
<1> HIDE DEF f
<1>4. Len(f) \in Nat /\ f \in [1 .. Len(f) -> S]
  BY <1>3, LenProperties
<1>5. IsSequence(f)
  BY <1>4, SequenceByDomain
<1>6. \A x \in ToSet(f) : x \in S
  BY <1>4 DEF ToSet
<1> QED
  BY <1>5, <1>6 DEF S, f

LEMMA ConcatElements ==
  ASSUME NEW s, NEW t, IsSequence(s), IsSequence(t)
  PROVE  /\ IsSequence(s \o t) /\ Len(s \o t) = Len(s) + Len(t)
         /\ \A i \in 1 .. Len(s) + Len(t) :
              (s \o t)[i] = IF i <= Len(s) THEN s[i] ELSE t[i - Len(s)]
<1> DEFINE S == ToSet(s) \cup ToSet(t)
<1>1. s \in Seq(S) /\ t \in Seq(S)
  <2>1. ToSet(s) \subseteq S /\ ToSet(t) \subseteq S
    OBVIOUS
  <2> HIDE DEF S
  <2> QED
    BY <2>1, SeqMonotonic DEF IsSequence
<1> HIDE DEF S
<1>2. /\ s \o t \in Seq(S) /\ Len(s \o t) = Len(s) + Len(t)
      /\ \A i \in 1 .. Len(s) + Len(t) :
           (s \o t)[i] = IF i <= Len(s) THEN s[i] ELSE t[i - Len(s)]
  BY <1>1, ConcatProperties
<1>3. Len(s \o t) \in Nat /\ s \o t \in [1 .. Len(s \o t) -> S]
  BY <1>2, LenProperties
<1> QED
  BY <1>2, <1>3, SequenceByDomain

(* Among takes elements of its sequence, and of its set.                   *)
LEMMA AmongElements ==
  ASSUME NEW s, NEW S, IsSequence(s)
  PROVE  IsSequence(Among(s, S)) /\ ToSet(Among(s, S)) \subseteq ToSet(s) \cap S
<1> DEFINE part(i) == IF s[i] \in S THEN <<s[i]>> ELSE <<>>
           parts == [i \in DOMAIN s |-> part(i)]
<1>1. /\ Len(s) \in Nat /\ DOMAIN s = 1 .. Len(s)
  BY SequenceFacts
<1>2. \A i \in DOMAIN s : IsSequence(part(i)) /\ ToSet(part(i)) \subseteq ToSet(s) \cap S
  <2>1. \A x : IsSequence(<<x>>) /\ ToSet(<<x>>) = {x}
    <3> TAKE x
    <3>1. <<x>> \in Seq({x}) /\ DOMAIN <<x>> = {1} /\ <<x>>[1] = x
      OBVIOUS
    <3>2. ToSet(<<x>>) = {x}
      BY <3>1 DEF ToSet
    <3> QED
      BY <3>1, <3>2 DEF IsSequence
  <2>2. IsSequence(<<>>) /\ ToSet(<<>>) = {}
    BY EmptySeq DEF IsSequence, ToSet
  <2>3. \A i \in DOMAIN s : s[i] \in ToSet(s)
    BY DEF ToSet
  <2> QED
    BY <2>1, <2>2, <2>3
<1> HIDE DEF part
<1>3. IsSequence(parts)
  BY <1>1, SequenceByDomain
<1>4. \A i \in DOMAIN parts : parts[i] = part(i)
  OBVIOUS
<1>5. DOMAIN parts = DOMAIN s
  OBVIOUS
<1> HIDE DEF parts
<1>6. /\ IsSequence(FlattenSeq(parts))
      /\ \A x \in ToSet(FlattenSeq(parts)) : \E i \in DOMAIN parts : x \in ToSet(parts[i])
  BY <1>2, <1>3, <1>4, <1>5, FlattenElements
<1>7. Among(s, S) = FlattenSeq(parts)
  BY DEF Among, parts, part
<1> QED
  BY <1>2, <1>4, <1>5, <1>6, <1>7

-----------------------------------------------------------------------------
(***************************************************************************)
(* Rules: what a plan consists of.                                         *)
(***************************************************************************)

LEMMA ContextsLemma ==
  ASSUME NEW modules, IsSequence(modules), \A i \in DOMAIN modules : IsModule(modules[i])
  PROVE  IsSequence(Contexts(modules))
<1> DEFINE Each(match, module, names) ==
             [i \in DOMAIN names |-> [match |-> match, module |-> module, symbol |-> names[i]]]
           part(m) == Each("module", m.name, <<m.name>>) \o Each("interface", m.name, m.interfaces) \o
                      Each("struct", m.name, m.structs) \o Each("enum", m.name, m.enums)
           parts == [i \in DOMAIN modules |-> part(modules[i])]
           first == <<[match |-> "system", module |-> "", symbol |-> ""]>>
<1>1. \A match, module, names : IsSequence(names) => IsSequence(Each(match, module, names))
  <2> TAKE match, module, names
  <2> HAVE IsSequence(names)
  <2>1. Len(names) \in Nat /\ DOMAIN names = 1 .. Len(names)
    BY SequenceFacts
  <2> QED
    BY <2>1, SequenceByDomain
<1>2. \A x : IsSequence(<<x>>)
  <2> TAKE x
  <2>1. <<x>> = [i \in 1 .. 1 |-> <<x>>[i]]
    OBVIOUS
  <2> QED
    BY <2>1, SequenceByDomain
<1>3. \A i \in DOMAIN modules : IsSequence(part(modules[i]))
  <2> TAKE i \in DOMAIN modules
  <2> DEFINE m == modules[i]
             a == Each("module", m.name, <<m.name>>)
             b == Each("interface", m.name, m.interfaces)
             c == Each("struct", m.name, m.structs)
             d == Each("enum", m.name, m.enums)
  <2>1. IsSequence(a) /\ IsSequence(b) /\ IsSequence(c) /\ IsSequence(d)
    <3>1. IsSequence(m.interfaces) /\ IsSequence(m.structs) /\ IsSequence(m.enums)
      BY DEF IsModule
    <3> HIDE DEF Each
    <3> QED
      BY <1>1, <1>2, <3>1
  <2>2. part(m) = a \o b \o c \o d
    OBVIOUS
  <2> HIDE DEF a, b, c, d, part
  <2>3. IsSequence(a \o b)
    BY <2>1, ConcatElements
  <2>4. IsSequence(a \o b \o c)
    BY <2>1, <2>3, ConcatElements
  <2>5. IsSequence(a \o b \o c \o d)
    BY <2>1, <2>4, ConcatElements
  <2> QED
    BY <2>2, <2>5
<1>4. IsSequence(parts)
  <2>1. Len(modules) \in Nat /\ DOMAIN modules = 1 .. Len(modules)
    BY SequenceFacts
  <2> HIDE DEF part
  <2> QED
    BY <2>1, SequenceByDomain
<1>5. \A i \in DOMAIN parts : IsSequence(parts[i])
  <2> HIDE DEF part
  <2> QED
    BY <1>3
<1>6. Contexts(modules) = first \o FlattenSeq(parts)
  BY DEF Contexts
<1>7. IsSequence(first)
  BY <1>2
<1> HIDE DEF first, parts
<1> QED
  BY <1>4, <1>5, <1>6, <1>7, FlattenElements, ConcatElements

(* A document of a feature, in some context.                               *)
IsOf(x, feature) ==
  \E s \in ToSet(feature.scopes) : \E d \in ToSet(s.documents) :
    \E c : x = Document(feature.name, d, c)

LEMMA ProcessFeatureLemma ==
  ASSUME NEW feature, NEW modules,
         IsSequence(feature.scopes), \A s \in ToSet(feature.scopes) : IsSequence(s.documents),
         IsSequence(modules), \A i \in DOMAIN modules : IsModule(modules[i])
  PROVE  /\ IsSequence(ProcessFeature(feature, modules))
         /\ \A x \in ToSet(ProcessFeature(feature, modules)) : IsOf(x, feature)
<1> DEFINE scopes(c) == Among(feature.scopes, {s \in ToSet(feature.scopes) : s.match = c.match})
           part(c, i) == [j \in DOMAIN scopes(c)[i].documents |->
                            Document(feature.name, scopes(c)[i].documents[j], c)]
           parts(c) == [i \in DOMAIN scopes(c) |-> part(c, i)]
           contexts == Contexts(modules)
           all == [i \in DOMAIN contexts |-> FlattenSeq(parts(contexts[i]))]
<1>1. \A c : IsSequence(scopes(c)) /\ ToSet(scopes(c)) \subseteq ToSet(feature.scopes)
  <2> TAKE c
  <2> QED
    BY AmongElements
<1>2. \A c : \A i \in DOMAIN scopes(c) :
        IsSequence(part(c, i)) /\ \A x \in ToSet(part(c, i)) : IsOf(x, feature)
  <2> TAKE c
  <2> TAKE i \in DOMAIN scopes(c)
  <2> DEFINE s == scopes(c)[i]
  <2>1. s \in ToSet(feature.scopes)
    BY <1>1 DEF ToSet
  <2> HIDE DEF s
  <2>2. IsSequence(s.documents)
    BY <2>1
  <2>3. Len(s.documents) \in Nat /\ DOMAIN s.documents = 1 .. Len(s.documents)
    BY <2>2, SequenceFacts
  <2> DEFINE docs == [j \in DOMAIN s.documents |-> Document(feature.name, s.documents[j], c)]
  <2>4. IsSequence(docs)
    BY <2>3, SequenceByDomain
  <2>5. \A x \in ToSet(docs) : IsOf(x, feature)
    <3> TAKE x \in ToSet(docs)
    <3>1. PICK j \in DOMAIN s.documents : x = Document(feature.name, s.documents[j], c)
      BY DEF ToSet
    <3>2. s.documents[j] \in ToSet(s.documents)
      BY DEF ToSet
    <3> QED
      BY <2>1, <3>1, <3>2 DEF IsOf
  <2>6. part(c, i) = docs
    BY DEF s
  <2> QED
    BY <2>4, <2>5, <2>6
<1> HIDE DEF part
<1>3. \A c : IsSequence(parts(c))
  <2> TAKE c
  <2> DEFINE sc == scopes(c)
  <2>1. IsSequence(sc)
    BY <1>1
  <2> HIDE DEF sc
  <2>2. Len(sc) \in Nat /\ DOMAIN sc = 1 .. Len(sc)
    BY <2>1, SequenceFacts
  <2>3. IsSequence([i \in DOMAIN sc |-> part(c, i)])
    BY <2>2, SequenceByDomain
  <2> QED
    BY <2>3 DEF sc
<1>4. \A c : /\ IsSequence(FlattenSeq(parts(c)))
             /\ \A x \in ToSet(FlattenSeq(parts(c))) : IsOf(x, feature)
  <2> TAKE c
  <2>1. DOMAIN parts(c) = DOMAIN scopes(c) /\ \A i \in DOMAIN scopes(c) : parts(c)[i] = part(c, i)
    OBVIOUS
  <2> DEFINE ps == parts(c)
  <2>2. IsSequence(ps) /\ \A i \in DOMAIN ps : IsSequence(ps[i])
    BY <1>2, <1>3, <2>1
  <2>3. \A i \in DOMAIN ps : \A x \in ToSet(ps[i]) : IsOf(x, feature)
    BY <1>2, <2>1
  <2> HIDE DEF ps, parts
  <2>4. /\ IsSequence(FlattenSeq(ps))
        /\ \A x \in ToSet(FlattenSeq(ps)) : \E i \in DOMAIN ps : x \in ToSet(ps[i])
    BY <2>2, FlattenElements
  <2>5. ps = parts(c)
    BY DEF ps
  <2> QED
    BY <2>3, <2>4, <2>5
<1> HIDE DEF parts
<1>5. IsSequence(contexts)
  BY ContextsLemma
<1>6. IsSequence(all) /\ DOMAIN all = DOMAIN contexts
  <2> HIDE DEF contexts
  <2>1. Len(contexts) \in Nat /\ DOMAIN contexts = 1 .. Len(contexts)
    BY <1>5, SequenceFacts
  <2> QED
    BY <2>1, SequenceByDomain
<1>7. \A i \in DOMAIN all : /\ IsSequence(all[i])
                             /\ \A x \in ToSet(all[i]) : IsOf(x, feature)
  BY <1>4
<1>8. ProcessFeature(feature, modules) = FlattenSeq(all)
  BY DEF ProcessFeature, parts, part
<1> HIDE DEF all
<1>9. /\ IsSequence(FlattenSeq(all))
      /\ \A x \in ToSet(FlattenSeq(all)) : \E i \in DOMAIN all : x \in ToSet(all[i])
  BY <1>6, <1>7, FlattenElements
<1> QED
  BY <1>7, <1>8, <1>9

LEMMA DocumentsLemma ==
  ASSUME NEW features, NEW on, NEW modules, IsRules(features),
         IsSequence(modules), \A i \in DOMAIN modules : IsModule(modules[i])
  PROVE  /\ IsSequence(Documents(features, on, modules))
         /\ \A x \in ToSet(Documents(features, on, modules)) :
              \E f \in ToSet(features) : IsOf(x, f)
<1> DEFINE part(i) == IF i \in on THEN ProcessFeature(features[i], modules) ELSE <<>>
           parts == [i \in DOMAIN features |-> part(i)]
<1>1. \A i \in DOMAIN features :
        /\ IsSequence(part(i))
        /\ \A x \in ToSet(part(i)) : IsOf(x, features[i])
  <2> TAKE i \in DOMAIN features
  <2>1. features[i] \in ToSet(features)
    BY DEF ToSet
  <2>2. /\ IsSequence(ProcessFeature(features[i], modules))
        /\ \A x \in ToSet(ProcessFeature(features[i], modules)) : IsOf(x, features[i])
    BY <2>1, ProcessFeatureLemma DEF IsRules
  <2>3. IsSequence(<<>>) /\ ToSet(<<>>) = {}
    BY EmptySeq DEF IsSequence, ToSet
  <2> QED
    BY <2>2, <2>3
<1> HIDE DEF part
<1>2. Len(features) \in Nat /\ DOMAIN features = 1 .. Len(features)
  BY SequenceFacts DEF IsRules
<1>3. IsSequence(parts) /\ DOMAIN parts = DOMAIN features
  BY <1>2, SequenceByDomain
<1>4. \A i \in DOMAIN parts : parts[i] = part(i)
  OBVIOUS
<1> HIDE DEF parts
<1>5. /\ IsSequence(FlattenSeq(parts))
      /\ \A x \in ToSet(FlattenSeq(parts)) : \E i \in DOMAIN parts : x \in ToSet(parts[i])
  BY <1>1, <1>3, <1>4, FlattenElements
<1>6. Documents(features, on, modules) = FlattenSeq(parts)
  BY DEF Documents, parts, part
<1>7. \A i \in DOMAIN features : features[i] \in ToSet(features)
  BY DEF ToSet
<1> QED
  BY <1>1, <1>3, <1>4, <1>5, <1>6, <1>7

(* What one job of a plan has from the rules and the targets.              *)
Comes(job, forced) ==
  \E v \in Versions :
    \E f \in ToSet(Template[v].features) : \E s \in ToSet(f.scopes) : \E d \in ToSet(s.documents) :
      /\ job.raw = d.raw
      /\ job.path[1] = Targets[job.for].output
      /\ job.path[2] = IF d.target = "" THEN d.source ELSE d.target
      /\ job.overwrites = (forced \/ d.raw \/ ~d.preserve)

IsPlan(plan, t, forced) ==
  IsSequence(plan) /\ \A i \in DOMAIN plan : Comes(plan[i], forced) /\ plan[i].for = t

LEMMA PlanLemma ==
  ASSUME NEW t \in DOMAIN Targets, NEW forced, NEW v \in Versions, NEW on, NEW system,
         IsSequence(system), \A i \in DOMAIN system : system[i][1] \in Files
  PROVE  IsPlan(Plan(t, forced, Template[v].features, on, system), t, forced)
<1> DEFINE features == Template[v].features
           modules == [i \in DOMAIN system |-> Symbols[system[i][1]]]
           documents == Documents(features, on, modules)
           plan == Plan(t, forced, features, on, system)
<1>1. IsRules(features)
  BY SolutionAssumption
<1>2. IsSequence(modules) /\ \A i \in DOMAIN modules : IsModule(modules[i])
  <2>1. Len(system) \in Nat /\ DOMAIN system = 1 .. Len(system)
    BY SequenceFacts
  <2>2. IsSequence(modules)
    BY <2>1, SequenceByDomain
  <2> QED
    BY <2>2, SolutionAssumption
<1> HIDE DEF features, modules
<1>3. /\ IsSequence(documents)
      /\ \A x \in ToSet(documents) : \E f \in ToSet(features) : IsOf(x, f)
  BY <1>1, <1>2, DocumentsLemma
<1>4. Len(documents) \in Nat /\ DOMAIN documents = 1 .. Len(documents)
  BY <1>3, SequenceFacts
<1> DEFINE job(d) ==
      [feature |-> d.feature, source |-> d.source, raw |-> d.raw, context |-> d.context,
       path |-> <<Targets[t].output, d.target[1], d.target[2]>>,
       overwrites |-> forced \/ d.raw \/ ~d.preserve,
       told |-> FeatureNamesMap(features, on), for |-> t]
<1>5. plan = [i \in DOMAIN documents |-> job(documents[i])]
  BY DEF Plan, modules
<1>6. ASSUME NEW i \in DOMAIN documents
      PROVE  Comes(job(documents[i]), forced) /\ job(documents[i]).for = t
  <2>1. documents[i] \in ToSet(documents)
    BY DEF ToSet
  <2>2. PICK f \in ToSet(features) : IsOf(documents[i], f)
    BY <1>3, <2>1
  <2>3. PICK s \in ToSet(f.scopes) : \E d \in ToSet(s.documents) :
          \E c : documents[i] = Document(f.name, d, c)
    BY <2>2, Zenon DEF IsOf
  <2>4. PICK d \in ToSet(s.documents) : \E c : documents[i] = Document(f.name, d, c)
    BY <2>3, Zenon
  <2>5. PICK c : documents[i] = Document(f.name, d, c)
    BY <2>4, Zenon
  <2> DEFINE x == documents[i]
  <2>6. /\ x.raw = d.raw /\ x.preserve = d.preserve
        /\ x.target[1] = IF d.target = "" THEN d.source ELSE d.target
    <3> DEFINE target == IF d.target = "" THEN d.source ELSE d.target
               sym == IF d.named THEN c.symbol ELSE ""
    <3>1. x = [feature |-> f.name, source |-> d.source, raw |-> d.raw, preserve |-> d.preserve,
               context |-> c, target |-> <<target, sym>>]
      BY <2>5 DEF Document
    <3> HIDE DEF x, target, sym
    <3>2. x.raw = d.raw /\ x.preserve = d.preserve /\ x.target = <<target, sym>>
      BY <3>1
    <3>3. x.target[1] = target
      BY <3>2
    <3> QED
      BY <3>2, <3>3 DEF target
  <2> HIDE DEF x
  <2>7. /\ job(x).raw = d.raw /\ job(x).for = t
        /\ job(x).path[1] = Targets[t].output
        /\ job(x).path[2] = IF d.target = "" THEN d.source ELSE d.target
        /\ job(x).overwrites = (forced \/ d.raw \/ ~d.preserve)
    BY <2>6
  <2> HIDE DEF job
  <2>8. f \in ToSet(Template[v].features)
    BY DEF features
  <2>9. job(x).for = t /\ Comes(job(x), forced)
    BY <2>7, <2>8, Zenon DEF Comes
  <2> QED
    BY <2>9 DEF x
<1> HIDE DEF job, documents
<1>7. IsSequence(plan)
  <2> HIDE DEF plan
  <2> QED
    BY <1>4, <1>5, SequenceByDomain
<1>8. \A i \in DOMAIN plan : plan[i] = job(documents[i]) /\ i \in DOMAIN documents
  <2> HIDE DEF plan
  <2> QED
    BY <1>5
<1> QED
  BY <1>6, <1>7, <1>8 DEF features, IsPlan

-----------------------------------------------------------------------------
(***************************************************************************)
(* The invariant: what a document has computed, and how far a run is.      *)
(***************************************************************************)

Fields == {"pc", "target", "forced", "system", "version", "plan", "next", "at", "written",
           "again", "quiet", "ok"}

Docs == [DOMAIN Targets -> {Nothing} \cup [dir : Places, inputs : Seq(Files)]]

(* Up to where a run has come; its plan comes from the rules, and what is  *)
(* left of it belongs to the target at hand.  Only what is rendered is     *)
(* looked for, and only what overwrites is compared.                       *)
Position(x, d) ==
  /\ x.pc \in {"idle", "read", "validate", "parse", "templates", "rules", "write"}
  /\ x.target \in DOMAIN Targets /\ x.forced \in BOOLEAN
  /\ IsSequence(x.system) /\ \A i \in DOMAIN x.system : x.system[i][1] \in Files
  /\ IsSequence(x.plan) /\ x.next \in 1 .. Len(x.plan) + 1
  /\ \A i \in DOMAIN x.plan : Comes(x.plan[i], x.forced \/ Targets[x.plan[i].for].force)
  /\ x.pc \notin {"idle", "write"} => x.next = Len(x.plan) + 1
  /\ x.pc = "write" => \A i \in x.next .. Len(x.plan) : x.plan[i].for = x.target
  /\ x.at \in {"check", "compare", "create", "replace"}
  /\ x.at # "check" => x.pc = "write" /\ x.next <= Len(x.plan) /\ ~x.plan[x.next].raw
  /\ x.at \in {"compare", "replace"} => x.plan[x.next].overwrites
  /\ x.pc \in {"read", "validate"} => \A t \in 1 .. x.target - 1 : d[t] # Nothing
  /\ x.pc \notin {"idle", "read", "validate"} => \A t \in DOMAIN Targets : d[t] # Nothing

Disks == /\ file \in [Files -> {"absent", "broken"} \cup Versions]
         /\ tpl \in [Places -> {"absent"} \cup Versions]
         /\ settled \in Runners \cup {Nobody}
         /\ changes \in 0 .. MaxChanges /\ runs \in 0 .. MaxRuns

IInv ==
  /\ Disks
  /\ doc \in [Runners -> Docs]
  /\ DOMAIN run = Runners
  /\ \A r \in Runners : DOMAIN run[r] = Fields /\ Position(run[r], doc[r])

LEMMA TargetsLemma ==
  /\ Len(Targets) \in Nat \ {0} /\ DOMAIN Targets = 1 .. Len(Targets)
  /\ 1 \in DOMAIN Targets
<1>1. Len(Targets) \in Nat /\ DOMAIN Targets = 1 .. Len(Targets) /\ Targets # <<>>
  BY SequenceFacts, SolutionAssumption
<1>2. Len(Targets) # 0
  BY <1>1, SolutionAssumption, EmptySeq DEF IsSequence
<1> QED
  BY <1>1, <1>2

(* The invariant implies the types.                                        *)
LEMMA IInvTypeOK == IInv => TypeOK
<1> SUFFICES ASSUME IInv PROVE TypeOK
  OBVIOUS
<1>1. ASSUME NEW r \in Runners, NEW t \in DOMAIN Targets, doc[r][t] # Nothing
      PROVE  doc[r][t].dir \in Places /\ ToSet(doc[r][t].inputs) \subseteq Files
  <2>1. doc[r][t] \in [dir : Places, inputs : Seq(Files)]
    BY <1>1 DEF IInv, Docs
  <2>2. doc[r][t].inputs \in Seq(Files)
    BY <2>1
  <2>3. ToSet(doc[r][t].inputs) \subseteq Files
    BY <2>2, ElementOfSeq, LenProperties DEF ToSet
  <2> QED
    BY <2>1, <2>3
<1> QED
  BY <1>1 DEF IInv, Disks, Position, TypeOK, Writing, Job

(* Nothing of a run that waits depends on the disk being quiet.            *)
LEMMA QuietLemma ==
  ASSUME NEW x, NEW d, DOMAIN x = Fields, Position(x, d), NEW b
  PROVE  DOMAIN [x EXCEPT !.quiet = b] = Fields /\ Position([x EXCEPT !.quiet = b], d)
<1> DEFINE y == [x EXCEPT !.quiet = b]
<1>1. /\ DOMAIN y = Fields
      /\ y.pc = x.pc /\ y.target = x.target /\ y.forced = x.forced /\ y.system = x.system
      /\ y.plan = x.plan /\ y.next = x.next /\ y.at = x.at
  BY DEF Fields
<1> HIDE DEF y
<1>2. Position(y, d)
  BY <1>1 DEF Position
<1> QED
  BY <1>1, <1>2 DEF y

(* One runner steps.                                                       *)
LEMMA RunnerLemma ==
  ASSUME IInv, Disks', NEW r \in Runners,
         DOMAIN run' = Runners, \A q \in Runners \ {r} : run'[q] = run[q],
         DOMAIN run'[r] = Fields,
         doc' \in [Runners -> Docs], \A q \in Runners \ {r} : doc'[q] = doc[q],
         Position(run'[r], doc'[r])
  PROVE  IInv'
BY DEF IInv

(* Installing and listing the inputs of a target.                          *)
LEMMA ExpandLemma ==
  ASSUME NEW t \in DOMAIN Targets
  PROVE  ExpandInputs(Targets[t].inputs) \in Seq(Files)
<1> DEFINE inputs == Targets[t].inputs
           part(i) == IF inputs[i] \in DOMAIN Dirs
                      THEN Among(Dirs[inputs[i]],
                                 {f \in Files : file[f] # "absent" /\ Kind[f] # "module"})
                      ELSE <<inputs[i]>>
           parts == [i \in DOMAIN inputs |-> part(i)]
<1>1. inputs \in Seq(Files \cup DOMAIN Dirs)
  BY SolutionAssumption
<1> HIDE DEF inputs
<1>2. /\ Len(inputs) \in Nat /\ DOMAIN inputs = 1 .. Len(inputs)
      /\ \A i \in DOMAIN inputs : inputs[i] \in Files \cup DOMAIN Dirs
  BY <1>1, LenProperties, ElementOfSeq
<1>3. \A i \in DOMAIN inputs : part(i) \in Seq(Files)
  <2> TAKE i \in DOMAIN inputs
  <2>1. CASE inputs[i] \in DOMAIN Dirs
    <3> DEFINE S == {f \in Files : file[f] # "absent" /\ Kind[f] # "module"}
               a == Among(Dirs[inputs[i]], S)
    <3>1. Dirs[inputs[i]] \in Seq(Files)
      BY <2>1, SolutionAssumption
    <3>2. IsSequence(Dirs[inputs[i]])
      <4>1. /\ Len(Dirs[inputs[i]]) \in Nat
            /\ Dirs[inputs[i]] \in [1 .. Len(Dirs[inputs[i]]) -> Files]
        BY <3>1, LenProperties
      <4> QED
        BY <4>1, SequenceByDomain
    <3>3. S \subseteq Files
      OBVIOUS
    <3> HIDE DEF S
    <3>4. IsSequence(a) /\ ToSet(a) \subseteq Files
      BY <3>2, <3>3, AmongElements
    <3> HIDE DEF a
    <3>5. a \in Seq(Files)
      BY <3>4, SeqMonotonic DEF IsSequence
    <3> QED
      BY <2>1, <3>5 DEF a, S
  <2>2. CASE inputs[i] \notin DOMAIN Dirs
    <3>1. inputs[i] \in Files
      BY <1>2, <2>2
    <3> QED
      BY <2>2, <3>1
  <2> QED
    BY <2>1, <2>2
<1>4. ExpandInputs(inputs) = FlattenSeq(parts)
  BY DEF ExpandInputs
<1> HIDE DEF part
<1>5. parts \in [1 .. Len(inputs) -> Seq(Files)]
  BY <1>2, <1>3
<1> HIDE DEF parts
<1>6. parts \in Seq(Seq(Files))
  BY <1>2, <1>5
<1> QED
  BY <1>4, <1>6, FlattenType DEF inputs

LEMMA ParsedLemma ==
  ASSUME NEW inputs \in Seq(Files)
  PROVE  IsSequence(Parsed(inputs)) /\ ToSet(Parsed(inputs)) \subseteq Files
<1>1. Len(inputs) \in Nat /\ inputs \in [1 .. Len(inputs) -> Files]
  BY LenProperties
<1>2. IsSequence(inputs)
  BY <1>1, SequenceByDomain
<1> DEFINE S == {f \in Files : Kind[f] \in {"module", "solution"}}
<1>3. S \subseteq Files
  OBVIOUS
<1>4. Parsed(inputs) = Among(inputs, S)
  BY DEF Parsed
<1> HIDE DEF S
<1> QED
  BY <1>2, <1>3, <1>4, AmongElements

-----------------------------------------------------------------------------
(***************************************************************************)
(* The invariant holds at first and is preserved by every action.          *)
(***************************************************************************)

LEMMA EmptySequence == IsSequence(<<>>) /\ Len(<<>>) = 0 /\ DOMAIN <<>> = {}
BY EmptySeq DEF IsSequence

LEMMA NewDocLemma == NewDoc \in Docs
BY DEF NewDoc, Docs

LEMMA IdleLemma ==
  ASSUME NEW d
  PROVE  DOMAIN Idle = Fields /\ Position(Idle, d)
<1>1. /\ DOMAIN Idle = Fields
      /\ Idle.pc = "idle" /\ Idle.target = 1 /\ Idle.forced \in BOOLEAN /\ Idle.system = <<>>
      /\ Idle.plan = <<>> /\ Idle.next = 1 /\ Idle.at = "check"
  BY DEF Idle, Fields
<1> DEFINE x == Idle
<1> HIDE DEF Idle, x
<1>2. /\ x.pc = "idle" /\ x.target = 1 /\ x.forced \in BOOLEAN /\ x.system = <<>>
      /\ x.plan = <<>> /\ x.next = 1 /\ x.at = "check"
  BY <1>1 DEF x
<1>3. Position(x, d)
  BY <1>2, EmptySequence, TargetsLemma DEF Position
<1> QED
  BY <1>1, <1>3 DEF x

LEMMA InitLemma == Init => IInv
<1> SUFFICES ASSUME Init PROVE IInv
  OBVIOUS
<1>1. Disks
  BY SolutionAssumption DEF Init, Disks, Places, Versions
<1>2. doc \in [Runners -> Docs]
  BY NewDocLemma DEF Init
<1>3. DOMAIN run = Runners /\ \A r \in Runners : run[r] = Idle
  BY DEF Init
<1> QED
  BY <1>1, <1>2, <1>3, IdleLemma DEF IInv

LEMMA BeginStep ==
  ASSUME IInv, NEW r \in Runners, NEW pc \in {"read", "validate"}, NEW forced \in BOOLEAN,
         Begin(r, pc, forced), doc' \in [Runners -> Docs],
         \A q \in Runners \ {r} : doc'[q] = doc[q]
  PROVE  IInv'
<1> DEFINE b == \A q \in Runners : ~Active(q)
           new == [Idle EXCEPT !.pc = pc, !.forced = forced, !.again = (settled = r), !.quiet = b]
<1>1. Disks'
  BY SolutionAssumption DEF Begin, IInv, Disks, disk
<1>2. run' = [q \in Runners |-> IF q = r THEN new ELSE [run[q] EXCEPT !.quiet = FALSE]]
  BY DEF Begin, Disturbed, IInv
<1>3. /\ DOMAIN new = Fields
      /\ new.pc = pc /\ new.target = 1 /\ new.forced = forced /\ new.system = <<>>
      /\ new.plan = <<>> /\ new.next = 1 /\ new.at = "check"
  BY DEF Idle, Fields
<1> HIDE DEF new
<1>4. Position(new, doc'[r])
  BY <1>3, EmptySequence, TargetsLemma DEF Position
<1>5. DOMAIN run'[r] = Fields /\ Position(run'[r], doc'[r])
  BY <1>2, <1>3, <1>4
<1>6. \A q \in Runners \ {r} : DOMAIN run'[q] = Fields /\ Position(run'[q], doc'[q])
  <2> TAKE q \in Runners \ {r}
  <2>1. run'[q] = [run[q] EXCEPT !.quiet = FALSE]
    BY <1>2
  <2>2. DOMAIN run[q] = Fields /\ Position(run[q], doc[q])
    BY DEF IInv
  <2> QED
    BY <2>1, <2>2, QuietLemma
<1>7. DOMAIN run' = Runners
  BY <1>2
<1> QED
  BY <1>1, <1>5, <1>6, <1>7 DEF IInv

LEMMA ChangeStep ==
  ASSUME IInv, Change, file' \in [Files -> {"absent", "broken"} \cup Versions],
         tpl' \in [Places -> {"absent"} \cup Versions]
  PROVE  IInv'
<1>1. Disks'
  BY SolutionAssumption DEF Change, IInv, Disks
<1>2. \A q \in Runners : run'[q] = [run[q] EXCEPT !.quiet = FALSE] /\ doc'[q] = doc[q]
  BY DEF Change
<1>3. \A q \in Runners : DOMAIN run'[q] = Fields /\ Position(run'[q], doc'[q])
  <2> TAKE q \in Runners
  <2>1. DOMAIN run[q] = Fields /\ Position(run[q], doc[q])
    BY DEF IInv
  <2>2. run'[q] = [run[q] EXCEPT !.quiet = FALSE] /\ doc'[q] = doc[q]
    BY <1>2
  <2> QED
    BY <2>1, <2>2, QuietLemma
<1>4. DOMAIN run' = Runners /\ doc' \in [Runners -> Docs]
  BY DEF Change, IInv
<1> QED
  BY <1>1, <1>3, <1>4 DEF IInv

(* What a failure leaves of a run.                                         *)
LEMMA FailLemma ==
  ASSUME IInv, NEW r \in Runners, Fail(r), doc' = doc, Disks'
  PROVE  IInv'
<1>1. /\ DOMAIN run' = Runners /\ \A q \in Runners \ {r} : run'[q] = run[q]
      /\ DOMAIN run'[r] = Fields
      /\ run'[r].pc = "idle" /\ run'[r].target = run[r].target /\ run'[r].forced = run[r].forced
      /\ run'[r].system = run[r].system /\ run'[r].plan = run[r].plan
      /\ run'[r].next = run[r].next /\ run'[r].at = "check"
  BY DEF Fail, IInv, Fields
<1>2. Position(run'[r], doc'[r])
  BY <1>1 DEF IInv, Position
<1> QED
  BY <1>1, <1>2, RunnerLemma DEF IInv

LEMMA ComputedStep ==
  ASSUME IInv, NEW r \in Runners, NEW dir \in Places, Uncomputed(r), Computed(r, dir), Disks'
  PROVE  IInv'
<1> DEFINE t == run[r].target
           new == [dir |-> dir, inputs |-> ExpandInputs(Current(r).inputs)]
<1>1. t \in DOMAIN Targets /\ Position(run[r], doc[r]) /\ doc[r] \in Docs
  BY DEF IInv, Position
<1>2. new \in [dir : Places, inputs : Seq(Files)]
  BY <1>1, ExpandLemma DEF Current
<1>3. doc' = [doc EXCEPT ![r] = [doc[r] EXCEPT ![t] = new]]
  BY DEF Computed
<1>4. new # Nothing
  BY <1>2, SolutionAssumption
<1> HIDE DEF t, new
<1>5. /\ doc' \in [Runners -> Docs] /\ \A q \in Runners \ {r} : doc'[q] = doc[q]
      /\ \A u \in DOMAIN Targets : doc'[r][u] = IF u = t THEN new ELSE doc[r][u]
  BY <1>1, <1>2, <1>3 DEF IInv, Docs
<1>6. run' = run
  BY DEF Computed
<1>7. Position(run[r], doc'[r])
  <2>1. \A u \in DOMAIN Targets : doc[r][u] # Nothing => doc'[r][u] # Nothing
    BY <1>4, <1>5
  <2>2. 1 .. run[r].target - 1 \subseteq DOMAIN Targets
    BY <1>1, TargetsLemma DEF Position
  <2> QED
    BY <1>1, <2>1, <2>2 DEF Position
<1> QED
  BY <1>5, <1>6, <1>7, RunnerLemma DEF IInv

LEMMA ComputeStep ==
  ASSUME IInv, NEW r \in Runners, Compute(r)
  PROVE  IInv'
<1>1. Disks'
  BY DEF Compute, Computed, disk, bounds, IInv, Disks
<1> QED
  BY <1>1, ComputedStep DEF Compute, Places

LEMMA ComputeCachedStep ==
  ASSUME IInv, NEW r \in Runners, NEW v \in Versions, ComputeCached(r, v)
  PROVE  IInv'
<1>1. Disks'
  BY DEF ComputeCached, Computed, bounds, IInv, Disks
<1> QED
  BY <1>1, ComputedStep DEF ComputeCached, Places

LEMMA InstallFailsStep ==
  ASSUME IInv, NEW r \in Runners, InstallFails(r)
  PROVE  IInv'
<1>1. Disks'
  BY DEF InstallFails, Fail, disk, bounds, IInv, Disks
<1> QED
  BY <1>1, FailLemma DEF InstallFails

LEMMA ValidateStep ==
  ASSUME IInv, NEW r \in Runners, Validate(r)
  PROVE  IInv'
<1>1. Disks' /\ doc' = doc
  BY DEF Validate, AfterValidate, Goto, Fail, disk, bounds, IInv, Disks
<1>2. CASE Fail(r)
  BY <1>1, <1>2, FailLemma
<1>3. CASE run' = AfterValidate(r)
  <2> DEFINE x == run[r]
  <2>1. Position(x, doc[r]) /\ DOMAIN x = Fields /\ DOMAIN run = Runners
    BY DEF IInv
  <2>2. \A pc, t : /\ DOMAIN Goto(r, pc, t) = Runners
                   /\ \A q \in Runners \ {r} : Goto(r, pc, t)[q] = run[q]
                   /\ DOMAIN Goto(r, pc, t)[r] = Fields
                   /\ Goto(r, pc, t)[r].pc = pc /\ Goto(r, pc, t)[r].target = t
                   /\ Goto(r, pc, t)[r].forced = x.forced
                   /\ Goto(r, pc, t)[r].system = x.system
                   /\ Goto(r, pc, t)[r].plan = x.plan /\ Goto(r, pc, t)[r].next = x.next
                   /\ Goto(r, pc, t)[r].at = x.at
    BY <2>1 DEF Goto, Fields
  <2>3. doc[r][x.target] # Nothing /\ x.pc \in {"read", "validate"}
    BY DEF Validate, Uncomputed
  <2>4. Len(Targets) \in Nat /\ DOMAIN Targets = 1 .. Len(Targets) /\ x.target \in 1 .. Len(Targets)
    BY <2>1, TargetsLemma DEF Position
  <2>5. CASE x.target < Len(Targets)
    <3>1. run' = Goto(r, x.pc, x.target + 1)
      BY <1>3, <2>5 DEF AfterValidate
    <3>2. x.target + 1 \in DOMAIN Targets /\ (\A t \in 1 .. (x.target + 1) - 1 : t \in 1 .. x.target - 1 \/ t = x.target)
      BY <2>4, <2>5
    <3>3. \A t \in 1 .. (x.target + 1) - 1 : doc[r][t] # Nothing
      BY <2>1, <2>3, <3>2 DEF Position
    <3>4. Position(run'[r], doc[r])
      <4> DEFINE y == Goto(r, x.pc, x.target + 1)[r]
      <4>1. /\ y.pc = x.pc /\ y.target = x.target + 1 /\ y.forced = x.forced
            /\ y.system = x.system /\ y.plan = x.plan /\ y.next = x.next /\ y.at = x.at
        BY <2>2
      <4> HIDE DEF y
      <4>2. Position(y, doc[r])
        BY <4>1, <2>1, <2>3, <3>2, <3>3 DEF Position
      <4> QED
        BY <4>2, <3>1 DEF y
    <3> QED
      BY <1>1, <2>2, <3>1, <3>4, RunnerLemma DEF IInv
  <2>6. CASE ~(x.target < Len(Targets))
    <3> DEFINE pc == IF x.pc = "read" THEN "validate" ELSE "parse"
    <3>1. run' = Goto(r, pc, 1)
      BY <1>3, <2>6 DEF AfterValidate
    <3>2. \A t \in DOMAIN Targets : doc[r][t] # Nothing
      <4>1. \A t \in DOMAIN Targets : t \in 1 .. x.target - 1 \/ t = x.target
        BY <2>4, <2>6
      <4> QED
        BY <2>1, <2>3, <4>1 DEF Position
    <3>3. Position(run'[r], doc[r])
      <4> DEFINE y == Goto(r, pc, 1)[r]
      <4>1. /\ y.pc = pc /\ y.target = 1 /\ y.forced = x.forced
            /\ y.system = x.system /\ y.plan = x.plan /\ y.next = x.next /\ y.at = x.at
        BY <2>2
      <4>2. pc \in {"validate", "parse"}
        OBVIOUS
      <4> HIDE DEF y, pc
      <4>3. Position(y, doc[r])
        BY <4>1, <4>2, <2>1, <2>3, <3>2, TargetsLemma DEF Position
      <4> QED
        BY <4>3, <3>1 DEF y
    <3> QED
      BY <1>1, <2>2, <3>1, <3>3, RunnerLemma DEF IInv
  <2> QED
    BY <2>5, <2>6
<1> QED
  BY <1>2, <1>3 DEF Validate

LEMMA ParseInputsStep ==
  ASSUME IInv, NEW r \in Runners, ParseInputs(r)
  PROVE  IInv'
<1> DEFINE x == run[r]
           parsed == Parsed(doc[r][x.target].inputs)
           system == [i \in DOMAIN parsed |-> <<parsed[i], file[parsed[i]]>>]
<1>1. Disks' /\ doc' = doc /\ x.pc = "parse"
  BY DEF ParseInputs, Fail, disk, bounds, IInv, Disks
<1>2. Position(x, doc[r]) /\ DOMAIN x = Fields /\ DOMAIN run = Runners
  BY DEF IInv
<1>3. CASE Fail(r)
  BY <1>1, <1>3, FailLemma
<1>4. CASE run' = [run EXCEPT ![r].pc = "templates", ![r].system = system]
  <2>1. doc[r][x.target] \in [dir : Places, inputs : Seq(Files)]
    BY <1>1, <1>2 DEF Position, IInv, Docs
  <2>2. IsSequence(parsed) /\ ToSet(parsed) \subseteq Files
    BY <2>1, ParsedLemma
  <2> HIDE DEF parsed
  <2>3. /\ Len(parsed) \in Nat /\ DOMAIN parsed = 1 .. Len(parsed)
        /\ \A i \in DOMAIN parsed : parsed[i] \in Files
    BY <2>2, SequenceFacts DEF ToSet
  <2>4. IsSequence(system) /\ \A i \in DOMAIN system : system[i][1] \in Files
    BY <2>3, SequenceByDomain
  <2> HIDE DEF system
  <2>5. /\ DOMAIN run' = Runners /\ \A q \in Runners \ {r} : run'[q] = run[q]
        /\ DOMAIN run'[r] = Fields
        /\ run'[r].pc = "templates" /\ run'[r].target = x.target /\ run'[r].forced = x.forced
        /\ run'[r].system = system /\ run'[r].plan = x.plan /\ run'[r].next = x.next
        /\ run'[r].at = x.at
    BY <1>2, <1>4 DEF Fields
  <2>6. Position(run'[r], doc[r])
    BY <1>1, <1>2, <2>4, <2>5 DEF Position
  <2> QED
    BY <1>1, <2>5, <2>6, RunnerLemma DEF IInv
<1> QED
  BY <1>3, <1>4 DEF ParseInputs

LEMMA ParseTemplatesDirStep ==
  ASSUME IInv, NEW r \in Runners, ParseTemplatesDir(r)
  PROVE  IInv'
<1> DEFINE x == run[r]
           version == tpl[Place(r)]
<1>1. Disks' /\ doc' = doc /\ x.pc = "templates"
  BY DEF ParseTemplatesDir, Fail, disk, bounds, IInv, Disks
<1>2. Position(x, doc[r]) /\ DOMAIN x = Fields /\ DOMAIN run = Runners
  BY DEF IInv
<1>3. CASE Fail(r)
  BY <1>1, <1>3, FailLemma
<1>4. CASE run' = [run EXCEPT ![r].pc = "rules", ![r].version = version]
  <2> HIDE DEF version
  <2>1. /\ DOMAIN run' = Runners /\ \A q \in Runners \ {r} : run'[q] = run[q]
        /\ DOMAIN run'[r] = Fields
        /\ run'[r].pc = "rules" /\ run'[r].target = x.target /\ run'[r].forced = x.forced
        /\ run'[r].system = x.system /\ run'[r].plan = x.plan /\ run'[r].next = x.next
        /\ run'[r].at = x.at
    BY <1>2, <1>4 DEF Fields
  <2>2. Position(run'[r], doc[r])
    BY <1>1, <1>2, <2>1 DEF Position
  <2> QED
    BY <1>1, <2>1, <2>2, RunnerLemma DEF IInv
<1> QED
  BY <1>3, <1>4 DEF ParseTemplatesDir

LEMMA ProcessRulesStep ==
  ASSUME IInv, NEW r \in Runners, ProcessRules(r)
  PROVE  IInv'
<1> DEFINE x == run[r]
           features == ReadRulesDoc(r)
           on == ComputeFeatures(features, Wanted(x.target)).on
           more == Plan(x.target, Forced(r), features, on, x.system)
<1>1. Disks' /\ doc' = doc /\ x.pc = "rules"
  BY DEF ProcessRules, Fail, disk, bounds, IInv, Disks
<1>2. Position(x, doc[r]) /\ DOMAIN x = Fields /\ DOMAIN run = Runners
  BY DEF IInv
<1>3. CASE Fail(r)
  BY <1>1, <1>3, FailLemma
<1>4. CASE /\ features # Nothing
           /\ run' = [run EXCEPT ![r].pc = "write", ![r].plan = @ \o more]
  <2>1. doc[r][x.target] \in [dir : Places, inputs : Seq(Files)]
    BY <1>1, <1>2 DEF Position, IInv, Docs
  <2>2. PICK v \in Versions : features = Template[v].features
    BY <1>4, <2>1 DEF ReadRulesDoc, Place, IInv, Disks
  <2>3. IsSequence(more) /\ \A i \in DOMAIN more : Comes(more[i], Forced(r)) /\ more[i].for = x.target
    <3>1. more = Plan(x.target, Forced(r), Template[v].features, on, x.system)
      BY <2>2
    <3>2. /\ x.target \in DOMAIN Targets /\ IsSequence(x.system)
          /\ \A i \in DOMAIN x.system : x.system[i][1] \in Files
      BY <1>2 DEF Position
    <3> HIDE DEF on, more, x
    <3>3. IsPlan(more, x.target, Forced(r))
      BY <3>1, <3>2, PlanLemma
    <3> QED
      BY <3>3 DEF IsPlan
  <2> HIDE DEF more, features
  <2> DEFINE plan == x.plan \o more
  <2>4. /\ IsSequence(plan) /\ Len(plan) = Len(x.plan) + Len(more)
        /\ \A i \in 1 .. Len(x.plan) + Len(more) :
             plan[i] = IF i <= Len(x.plan) THEN x.plan[i] ELSE more[i - Len(x.plan)]
    BY <1>2, <2>3, ConcatElements DEF Position
  <2>5. /\ Len(x.plan) \in Nat /\ DOMAIN x.plan = 1 .. Len(x.plan)
        /\ Len(more) \in Nat /\ DOMAIN more = 1 .. Len(more)
    BY <1>2, <2>3, SequenceFacts DEF Position
  <2>6. /\ DOMAIN run' = Runners /\ \A q \in Runners \ {r} : run'[q] = run[q]
        /\ DOMAIN run'[r] = Fields
        /\ run'[r].pc = "write" /\ run'[r].target = x.target /\ run'[r].forced = x.forced
        /\ run'[r].system = x.system /\ run'[r].plan = plan /\ run'[r].next = x.next
        /\ run'[r].at = x.at
    BY <1>2, <1>4 DEF Fields
  <2> HIDE DEF plan
  <2>7. DOMAIN plan = 1 .. Len(x.plan) + Len(more)
    BY <2>4, SequenceFacts
  <2>8. \A i \in DOMAIN plan : Comes(plan[i], x.forced \/ Targets[plan[i].for].force)
    <3> TAKE i \in DOMAIN plan
    <3>1. CASE i <= Len(x.plan)
      BY <1>2, <2>4, <2>5, <2>7, <3>1 DEF Position
    <3>2. CASE ~(i <= Len(x.plan))
      <4>1. i - Len(x.plan) \in DOMAIN more
        BY <2>5, <2>7, <3>2
      <4>2. plan[i] = more[i - Len(x.plan)]
        BY <2>4, <2>7, <3>2
      <4>3. Comes(plan[i], Forced(r)) /\ plan[i].for = x.target
        BY <2>3, <4>1, <4>2
      <4>4. Forced(r) = (x.forced \/ Targets[plan[i].for].force)
        BY <4>3 DEF Forced, Current
      <4> QED
        BY <4>3, <4>4
    <3> QED
      BY <3>1, <3>2
  <2>9. x.next = Len(x.plan) + 1
    BY <1>1, <1>2 DEF Position
  <2>10. \A i \in x.next .. Len(plan) : plan[i].for = x.target
    <3> TAKE i \in x.next .. Len(plan)
    <3>1. i \in 1 .. Len(x.plan) + Len(more) /\ ~(i <= Len(x.plan)) /\ i - Len(x.plan) \in DOMAIN more
      BY <2>4, <2>5, <2>9
    <3> QED
      BY <2>3, <2>4, <3>1
  <2>11. x.next \in 1 .. Len(plan) + 1
    BY <2>4, <2>5, <2>9
  <2>12. Position(run'[r], doc[r])
    BY <1>1, <1>2, <2>4, <2>6, <2>8, <2>10, <2>11 DEF Position
  <2> QED
    BY <1>1, <2>6, <2>12, RunnerLemma DEF IInv
<1> QED
  BY <1>3, <1>4 DEF ProcessRules

(* The next job.                                                           *)
LEMMA AdvanceLemma ==
  ASSUME IInv, NEW r \in Runners, Writing(r), doc' = doc, Disks',
         DOMAIN run' = Runners, \A q \in Runners \ {r} : run'[q] = run[q],
         DOMAIN run'[r] = Fields,
         run'[r].pc = run[r].pc, run'[r].target = run[r].target, run'[r].forced = run[r].forced,
         run'[r].system = run[r].system, run'[r].plan = run[r].plan,
         run'[r].next = run[r].next + 1, run'[r].at = "check"
  PROVE  IInv'
<1>1. Position(run[r], doc[r]) /\ run[r].pc = "write" /\ run[r].next <= Len(run[r].plan)
  BY DEF IInv, Writing
<1>2. Len(run[r].plan) \in Nat
  BY <1>1, SequenceFacts DEF Position
<1>3. /\ run[r].next + 1 \in 1 .. Len(run[r].plan) + 1
      /\ run[r].next + 1 .. Len(run[r].plan) \subseteq run[r].next .. Len(run[r].plan)
  BY <1>1, <1>2 DEF Position
<1>4. Position(run'[r], doc[r])
  BY <1>1, <1>3 DEF Position
<1> QED
  BY <1>4, RunnerLemma DEF IInv

LEMMA SkipStep ==
  ASSUME IInv, NEW r \in Runners, Writing(r), Skip(r), doc' = doc, Disks'
  PROVE  IInv'
<1>1. /\ DOMAIN run' = Runners /\ \A q \in Runners \ {r} : run'[q] = run[q]
      /\ DOMAIN run'[r] = Fields
      /\ run'[r].pc = run[r].pc /\ run'[r].target = run[r].target
      /\ run'[r].forced = run[r].forced /\ run'[r].system = run[r].system
      /\ run'[r].plan = run[r].plan /\ run'[r].next = run[r].next + 1
      /\ run'[r].at = "check"
  BY DEF Skip, IInv, Fields
<1> QED
  BY <1>1, AdvanceLemma

LEMMA PutStep ==
  ASSUME IInv, NEW r \in Runners, Writing(r), NEW content, Put(r, content), doc' = doc, Disks'
  PROVE  IInv'
<1>1. CASE Fail(r)
  BY <1>1, FailLemma
<1>2. CASE run' = [run EXCEPT ![r].next = @ + 1, ![r].at = "check",
                                  ![r].written = @ \cup {Job(r).path}]
  <2>1. /\ DOMAIN run' = Runners /\ \A q \in Runners \ {r} : run'[q] = run[q]
        /\ DOMAIN run'[r] = Fields
        /\ run'[r].pc = run[r].pc /\ run'[r].target = run[r].target
        /\ run'[r].forced = run[r].forced /\ run'[r].system = run[r].system
        /\ run'[r].plan = run[r].plan /\ run'[r].next = run[r].next + 1
        /\ run'[r].at = "check"
    BY <1>2 DEF IInv, Fields
  <2> QED
    BY <2>1, AdvanceLemma
<1> QED
  BY <1>1, <1>2 DEF Put

LEMMA CopyFileStep ==
  ASSUME IInv, NEW r \in Runners, CopyFile(r)
  PROVE  IInv'
<1>1. Disks' /\ doc' = doc /\ Writing(r)
  BY DEF CopyFile, Put, Fail, bounds, IInv, Disks
<1>2. Fail(r) \/ \E content : Put(r, content)
  BY DEF CopyFile
<1> QED
  BY <1>1, <1>2, FailLemma, PutStep

(* What a run has found of the next document's file.                       *)
LEMMA FoundStep ==
  ASSUME IInv, NEW r \in Runners, Writing(r), ~Job(r).raw,
         NEW at \in {"compare", "create", "replace"}, at # "create" => Job(r).overwrites,
         Found(r, at), doc' = doc, Disks'
  PROVE  IInv'
<1>1. /\ DOMAIN run' = Runners /\ \A q \in Runners \ {r} : run'[q] = run[q]
      /\ DOMAIN run'[r] = Fields
      /\ run'[r].pc = run[r].pc /\ run'[r].target = run[r].target
      /\ run'[r].forced = run[r].forced /\ run'[r].system = run[r].system
      /\ run'[r].plan = run[r].plan /\ run'[r].next = run[r].next /\ run'[r].at = at
  BY DEF Found, IInv, Fields
<1>2. Position(run[r], doc[r]) /\ run[r].pc = "write" /\ run[r].next <= Len(run[r].plan)
  BY DEF IInv, Writing
<1>3. ~run[r].plan[run[r].next].raw /\ (at # "create" => run[r].plan[run[r].next].overwrites)
  BY DEF Job
<1>4. Position(run'[r], doc[r])
  BY <1>1, <1>2, <1>3 DEF Position
<1> QED
  BY <1>1, <1>4, RunnerLemma DEF IInv

LEMMA RenderFileStep ==
  ASSUME IInv, NEW r \in Runners, RenderFile(r)
  PROVE  IInv'
<1>1. Disks' /\ doc' = doc /\ Writing(r) /\ ~Job(r).raw
  BY DEF RenderFile, WriteFile, Skip, Found, Put, Fail, bounds, IInv, Disks
<1>2. \/ Fail(r) \/ Skip(r) \/ Put(r, Content(r)) \/ Found(r, "create")
      \/ Job(r).overwrites /\ Found(r, "compare")
  BY DEF RenderFile, WriteFile
<1>3. CASE Found(r, "create")
  BY <1>1, <1>3, FoundStep
<1>4. CASE Job(r).overwrites /\ Found(r, "compare")
  BY <1>1, <1>4, FoundStep
<1> QED
  BY <1>1, <1>2, <1>3, <1>4, FailLemma, PutStep, SkipStep

LEMMA CompareStep ==
  ASSUME IInv, NEW r \in Runners, Compare(r)
  PROVE  IInv'
<1>1. Disks' /\ doc' = doc /\ Writing(r) /\ run[r].at = "compare"
  BY DEF Compare, Skip, Found, Fail, bounds, IInv, Disks
<1>2. ~Job(r).raw /\ Job(r).overwrites
  BY <1>1 DEF IInv, Position, Job
<1>3. Fail(r) \/ Skip(r) \/ Found(r, "replace")
  BY DEF Compare
<1>4. CASE Found(r, "replace")
  BY <1>1, <1>2, <1>4, FoundStep
<1> QED
  BY <1>1, <1>3, <1>4, FailLemma, SkipStep

LEMMA WriteToOutputStep ==
  ASSUME IInv, NEW r \in Runners, WriteToOutput(r)
  PROVE  IInv'
<1>1. Disks' /\ doc' = doc /\ Writing(r) /\ Put(r, Content(r))
  BY DEF WriteToOutput, Put, Fail, bounds, IInv, Disks
<1> QED
  BY <1>1, PutStep

LEMMA NextTargetStep ==
  ASSUME IInv, NEW r \in Runners, NextTarget(r)
  PROVE  IInv'
<1> DEFINE x == run[r]
<1>1. Disks' /\ doc' = doc /\ x.pc = "write" /\ ~Writing(r)
  BY DEF NextTarget, disk, bounds, IInv, Disks
<1>2. Position(x, doc[r]) /\ DOMAIN x = Fields /\ DOMAIN run = Runners
  BY DEF IInv
<1>3. Len(x.plan) \in Nat
  BY <1>2, SequenceFacts DEF Position
<1>4. x.next = Len(x.plan) + 1 /\ x.at = "check"
  BY <1>1, <1>2, <1>3 DEF Position, Writing
<1>5. CASE x.target < Len(Targets)
  <2>1. /\ DOMAIN run' = Runners /\ \A q \in Runners \ {r} : run'[q] = run[q]
        /\ DOMAIN run'[r] = Fields
        /\ run'[r].pc = "parse" /\ run'[r].target = x.target + 1
        /\ run'[r].forced = x.forced /\ run'[r].system = x.system
        /\ run'[r].plan = x.plan /\ run'[r].next = x.next
        /\ run'[r].at = x.at
    BY <1>2, <1>5 DEF NextTarget, Goto, Fields
  <2>2. x.target + 1 \in DOMAIN Targets
    BY <1>2, <1>5, TargetsLemma DEF Position
  <2>3. Position(run'[r], doc[r])
    BY <1>1, <1>2, <1>4, <2>1, <2>2 DEF Position
  <2> QED
    BY <1>1, <2>1, <2>3, RunnerLemma DEF IInv
<1>6. CASE ~(x.target < Len(Targets))
  <2>1. /\ DOMAIN run' = Runners /\ \A q \in Runners \ {r} : run'[q] = run[q]
        /\ DOMAIN run'[r] = Fields
        /\ run'[r].pc = "idle" /\ run'[r].target = x.target
        /\ run'[r].forced = x.forced /\ run'[r].system = x.system
        /\ run'[r].plan = x.plan /\ run'[r].next = x.next
        /\ run'[r].at = x.at
    BY <1>2, <1>6 DEF NextTarget, Fields
  <2>2. Position(run'[r], doc[r])
    BY <1>2, <1>4, <2>1 DEF Position
  <2> QED
    BY <1>1, <2>1, <2>2, RunnerLemma DEF IInv
<1> QED
  BY <1>5, <1>6

LEMMA RunnerStepLemma ==
  ASSUME IInv, NEW r \in Runners, RunnerStep(r)
  PROVE  IInv'
<1>1. CASE Compute(r)
  BY <1>1, ComputeStep
<1>2. CASE \E v \in Versions : ComputeCached(r, v)
  BY <1>2, ComputeCachedStep
<1>3. CASE InstallFails(r)
  BY <1>3, InstallFailsStep
<1>4. CASE Validate(r)
  BY <1>4, ValidateStep
<1>5. CASE ParseInputs(r)
  BY <1>5, ParseInputsStep
<1>6. CASE ParseTemplatesDir(r)
  BY <1>6, ParseTemplatesDirStep
<1>7. CASE ProcessRules(r)
  BY <1>7, ProcessRulesStep
<1>8. CASE CopyFile(r)
  BY <1>8, CopyFileStep
<1>9. CASE RenderFile(r)
  BY <1>9, RenderFileStep
<1>10. CASE Compare(r)
  BY <1>10, CompareStep
<1>11. CASE WriteToOutput(r)
  BY <1>11, WriteToOutputStep
<1>12. CASE NextTarget(r)
  BY <1>12, NextTargetStep
<1> QED
  BY <1>1, <1>2, <1>3, <1>4, <1>5, <1>6, <1>7, <1>8, <1>9, <1>10, <1>11, <1>12 DEF RunnerStep

LEMMA NextLemma == IInv /\ [Next]_vars => IInv'
<1> SUFFICES ASSUME IInv, [Next]_vars PROVE IInv'
  OBVIOUS
<1>1. ASSUME NEW r \in Runners, NEW forced \in BOOLEAN, RunSource(r, forced)
      PROVE  IInv'
  <2>1. doc' \in [Runners -> Docs] /\ \A q \in Runners \ {r} : doc'[q] = doc[q]
    BY <1>1, NewDocLemma DEF RunSource, IInv
  <2> QED
    BY <1>1, <2>1, BeginStep DEF RunSource
<1>2. ASSUME NEW r \in Runners, RunDoc(r)
      PROVE  IInv'
  BY <1>2, BeginStep DEF RunDoc, IInv
<1>3. ASSUME NEW r \in Runners, RunnerStep(r)
      PROVE  IInv'
  BY <1>3, RunnerStepLemma
<1>4. ASSUME NEW f \in Files, NEW v \in {"absent", "broken", "new"}, ChangeInput(f, v)
      PROVE  IInv'
  BY <1>4, ChangeStep DEF ChangeInput, IInv, Disks, Versions
<1>5. ASSUME NEW p \in Places, NEW v \in {"absent", "new"}, ChangeTemplate(p, v)
      PROVE  IInv'
  BY <1>5, ChangeStep DEF ChangeTemplate, IInv, Disks, Versions
<1>6. ASSUME NEW p \in Outputs, EditOutput(p) \/ DeleteOutput(p)
      PROVE  IInv'
  BY <1>6, ChangeStep DEF EditOutput, DeleteOutput, IInv, Disks
<1>7. CASE UNCHANGED vars
  BY <1>7 DEF vars, disk, bounds, IInv, Disks
<1> QED
  BY <1>1, <1>2, <1>3, <1>4, <1>5, <1>6, <1>7 DEF Next

(* Whatever the rules, the targets and the runners are.                    *)
THEOREM TypeCorrect == Spec => []TypeOK
<1>1. Spec => []IInv
  BY InitLemma, NextLemma, PTL DEF Spec
<1> QED
  BY <1>1, IInvTypeOK, PTL

-----------------------------------------------------------------------------
(***************************************************************************)
(* Files that are preserved.                                               *)
(***************************************************************************)

(* A document for a guarded file does not overwrite it.                    *)
LEMMA GuardLemma ==
  ASSUME IInv, NEW r \in Runners, Writing(r), Guarded(Job(r).path), ~run[r].forced
  PROVE  ~Job(r).raw /\ ~Job(r).overwrites /\ ~Forced(r)
<1> DEFINE x == run[r]
           job == x.plan[x.next]
<1>1. Position(x, doc[r]) /\ x.pc = "write" /\ x.next <= Len(x.plan)
  BY DEF IInv, Writing
<1>2. Len(x.plan) \in Nat /\ DOMAIN x.plan = 1 .. Len(x.plan) /\ x.next \in 1 .. Len(x.plan) + 1
  BY <1>1, SequenceFacts DEF Position
<1>3. x.next \in DOMAIN x.plan /\ x.next \in x.next .. Len(x.plan)
  BY <1>1, <1>2
<1>4. job.for = x.target /\ x.target \in DOMAIN Targets
      /\ Comes(job, x.forced \/ Targets[job.for].force)
  BY <1>1, <1>3 DEF Position
<1>5. Job(r) = job
  BY DEF Job
<1> HIDE DEF x, job
<1> DEFINE t == job.for
           F == x.forced \/ Targets[t].force
<1>6. t \in DOMAIN Targets /\ Comes(job, F)
  BY <1>4
<1> HIDE DEF F
<1> DEFINE From(d) ==
             /\ job.raw = d.raw
             /\ job.path[1] = Targets[job.for].output
             /\ job.path[2] = IF d.target = "" THEN d.source ELSE d.target
             /\ job.overwrites = (F \/ d.raw \/ ~d.preserve)
<1>7. PICK v \in Versions :
        \E f \in ToSet(Template[v].features) : \E s \in ToSet(f.scopes) :
          \E d \in ToSet(s.documents) : From(d)
  BY <1>6 DEF Comes
<1> HIDE DEF From
<1>8. PICK f \in ToSet(Template[v].features) : \E s \in ToSet(f.scopes) :
         \E d \in ToSet(s.documents) : From(d)
  BY <1>7
<1>9. PICK s \in ToSet(f.scopes) : \E d \in ToSet(s.documents) : From(d)
  BY <1>8
<1>10. PICK d \in ToSet(s.documents) : From(d)
  BY <1>9
<1>11. /\ job.raw = d.raw
       /\ job.path[1] = Targets[t].output
       /\ job.path[2] = IF d.target = "" THEN d.source ELSE d.target
       /\ job.overwrites = (F \/ d.raw \/ ~d.preserve)
  BY <1>10 DEF From
<1>12. d.preserve /\ ~d.raw /\ ~Targets[t].force
  <2>1. Guarded(job.path)
    BY <1>5
  <2> HIDE DEF t
  <2> QED
    BY <1>6, <1>11, <2>1 DEF Guarded
<1>13. ~F
  BY <1>12 DEF F, x
<1>14. ~job.raw
  BY <1>11, <1>12
<1>15. ~job.overwrites
  BY <1>11, <1>12, <1>13
<1>16. ~Forced(r)
  BY <1>4, <1>12 DEF Forced, Current, x
<1> QED
  BY <1>5, <1>14, <1>15, <1>16

(* What is left alone by the writing of another file.                      *)
LEMMA WithLemma ==
  ASSUME NEW path, NEW content, NEW p \in DOMAIN out, p # path
  PROVE  p \in DOMAIN With(path, content) /\ With(path, content)[p] = out[p]
BY DEF With

LEMMA PutElsewhere ==
  ASSUME NEW r, NEW content, Put(r, content), NEW p \in DOMAIN out, p # Job(r).path
  PROVE  p \in DOMAIN out' /\ out'[p] = out[p]
BY WithLemma DEF Put

Keeps(p) ==
  Guarded(p) /\ changes' = changes /\
    (\A r \in Runners : ~TooEarly(r, p) /\ (run[r].pc = "write" => ~run[r].forced))
    => p \in DOMAIN out' /\ out'[p] = out[p]

LEMMA GuardedStep ==
  ASSUME IInv, [Next]_vars, NEW p \in DOMAIN out
  PROVE  Keeps(p)
<1> SUFFICES ASSUME Guarded(p), changes' = changes,
                    \A r \in Runners : ~TooEarly(r, p) /\ (run[r].pc = "write" => ~run[r].forced)
             PROVE  p \in DOMAIN out' /\ out'[p] = out[p]
  BY DEF Keeps
<1>1. ASSUME out' = out PROVE p \in DOMAIN out' /\ out'[p] = out[p]
  BY <1>1
<1>2. ASSUME NEW r \in Runners, CopyFile(r)
      PROVE  p \in DOMAIN out' /\ out'[p] = out[p]
  <2>1. Writing(r) /\ Job(r).raw /\ ~run[r].forced
    BY <1>2 DEF CopyFile, Writing
  <2>2. Job(r).path # p
    BY <2>1, GuardLemma
  <2>3. UNCHANGED out \/ \E content : Put(r, content)
    BY <1>2 DEF CopyFile
  <2> QED
    BY <1>1, <2>2, <2>3, PutElsewhere
<1>3. ASSUME NEW r \in Runners, RenderFile(r)
      PROVE  p \in DOMAIN out' /\ out'[p] = out[p]
  <2>1. Writing(r) /\ ~run[r].forced
    BY <1>3 DEF RenderFile, Writing
  <2>2. UNCHANGED out \/ (Forced(r) /\ Put(r, Content(r)))
    BY <1>3 DEF RenderFile, WriteFile, Skip, Found
  <2>3. Forced(r) => Job(r).path # p
    BY <2>1, GuardLemma
  <2> QED
    BY <1>1, <2>2, <2>3, PutElsewhere
<1>4. ASSUME NEW r \in Runners, WriteToOutput(r)
      PROVE  p \in DOMAIN out' /\ out'[p] = out[p]
  <2>1. /\ Writing(r) /\ run[r].at \in {"create", "replace"} /\ Put(r, Content(r))
        /\ ~run[r].forced /\ ~TooEarly(r, p)
    BY <1>4 DEF WriteToOutput, Writing
  <2>2. run[r].at = "replace" => Job(r).overwrites
    BY DEF IInv, Position, Job
  <2>3. Job(r).path # p
    BY <2>1, <2>2, GuardLemma DEF TooEarly
  <2> QED
    BY <2>1, <2>3, PutElsewhere
<1>5. CASE \E r \in Runners, forced \in BOOLEAN : RunSource(r, forced)
  BY <1>1, <1>5 DEF RunSource, Begin, disk
<1>6. CASE \E r \in Runners : RunDoc(r)
  BY <1>1, <1>6 DEF RunDoc, Begin, disk
<1>7. ASSUME NEW r \in Runners, RunnerStep(r)
      PROVE  p \in DOMAIN out' /\ out'[p] = out[p]
  <2>1. CASE Compute(r)
    BY <1>1, <2>1 DEF Compute, disk
  <2>2. CASE \E v \in Versions : ComputeCached(r, v)
    BY <1>1, <2>2 DEF ComputeCached
  <2>3. CASE InstallFails(r)
    BY <1>1, <2>3 DEF InstallFails, disk
  <2>4. CASE Validate(r)
    BY <1>1, <2>4 DEF Validate, disk
  <2>5. CASE ParseInputs(r)
    BY <1>1, <2>5 DEF ParseInputs, disk
  <2>6. CASE ParseTemplatesDir(r)
    BY <1>1, <2>6 DEF ParseTemplatesDir, disk
  <2>7. CASE ProcessRules(r)
    BY <1>1, <2>7 DEF ProcessRules, disk
  <2>8. CASE Compare(r)
    BY <1>1, <2>8 DEF Compare, Skip, Found
  <2>9. CASE NextTarget(r)
    BY <1>1, <2>9 DEF NextTarget, disk
  <2> QED
    BY <1>2, <1>3, <1>4, <1>7, <2>1, <2>2, <2>3, <2>4, <2>5, <2>6, <2>7, <2>8, <2>9 DEF RunnerStep
<1>8. CASE \E f \in Files, v \in {"absent", "broken", "new"} : ChangeInput(f, v)
  BY <1>1, <1>8 DEF ChangeInput
<1>9. CASE \E q \in Places, v \in {"absent", "new"} : ChangeTemplate(q, v)
  BY <1>1, <1>9 DEF ChangeTemplate
<1>10. CASE \E q \in Outputs : EditOutput(q) \/ DeleteOutput(q)
  <2>1. changes' = changes + 1 /\ changes \in Nat
    BY <1>10, SolutionAssumption DEF EditOutput, DeleteOutput, Change, IInv, Disks
  <2> QED
    BY <2>1
<1>11. CASE UNCHANGED vars
  BY <1>1, <1>11 DEF vars, disk
<1> QED
  BY <1>5, <1>6, <1>7, <1>8, <1>9, <1>10, <1>11 DEF Next

(* However many runs are side by side, and whatever the user does: only a  *)
(* run that looked for the file before it was there overwrites it.         *)
THEOREM GuardedCorrect == Spec => GuardedFilesStay
<1>1. IInv /\ [Next]_vars =>
        [\A p \in DOMAIN out : Guarded(p) /\ changes' = changes /\
          (\A r \in Runners : ~TooEarly(r, p) /\ (run[r].pc = "write" => ~run[r].forced)) =>
            p \in DOMAIN out' /\ out'[p] = out[p]]_vars
  BY GuardedStep DEF Keeps
<1>2. Spec => []IInv
  BY InitLemma, NextLemma, PTL DEF Spec
<1> QED
  BY <1>1, <1>2, PTL DEF Spec, GuardedFilesStay

-----------------------------------------------------------------------------
(***************************************************************************)
(* The walk along `requires'.                                              *)
(***************************************************************************)

(* A function may call itself on the next element until it comes to an end *)
(* without anyone knowing that it ever does: it picks an end that is in    *)
(* every set one cannot step out of.                                       *)
LEMMA TailRecursion ==
  ASSUME NEW D, NEW E \in SUBSET D, NEW step \in [D -> D]
  PROVE  \E f : f = [x \in D |-> IF x \in E THEN x ELSE f[step[x]]]
<1> DEFINE Closed(C) == \A y \in C : y \notin E => step[y] \in C
           ends(x) == {e \in E : \A C \in SUBSET D : x \in C /\ Closed(C) => e \in C}
           g == [x \in D |-> CHOOSE e : e \in ends(x)]
<1>1. ASSUME NEW x \in E PROVE g[x] = x
  <2>1. Closed({x}) /\ {x} \in SUBSET D
    BY <1>1
  <2>2. ends(x) = {x}
    BY <1>1, <2>1
  <2> HIDE DEF ends
  <2>3. (CHOOSE e : e \in ends(x)) = x
    BY <2>2
  <2> QED
    BY <2>3, <1>1
<1>2. ASSUME NEW x \in D, x \notin E PROVE g[x] = g[step[x]]
  <2>1. ASSUME NEW e \in ends(x) PROVE e \in ends(step[x])
    <3> SUFFICES ASSUME NEW C \in SUBSET D, step[x] \in C, Closed(C) PROVE e \in C
      BY <2>1
    <3>1. Closed(C \cup {x}) /\ C \cup {x} \in SUBSET D
      BY <1>2
    <3>2. e \in C \cup {x}
      BY <2>1, <3>1
    <3> QED
      BY <2>1, <1>2, <3>2
  <2>2. ASSUME NEW e \in ends(step[x]) PROVE e \in ends(x)
    BY <2>2, <1>2
  <2>3. ends(x) = ends(step[x])
    BY <2>1, <2>2
  <2>4. step[x] \in D
    OBVIOUS
  <2> HIDE DEF ends
  <2> QED
    BY <2>3, <2>4
<1>3. g = [x \in D |-> IF x \in E THEN x ELSE g[step[x]]]
  <2>1. g = [x \in D |-> g[x]]
    OBVIOUS
  <2>2. \A x \in D : g[x] = IF x \in E THEN x ELSE g[step[x]]
    <3> HIDE DEF g
    <3> QED
      BY <1>1, <1>2
  <2> HIDE DEF g
  <2> QED
    BY <2>1, <2>2, Zenon
<1> QED
  BY <1>3, Zenon

(* FeatureByName finds a feature of the name.                              *)
LEMMA FeatureByNameLemma ==
  ASSUME NEW features, IsSequence(features), NEW name, FeatureByName(features, name) # 0
  PROVE  /\ FeatureByName(features, name) \in DOMAIN features
         /\ features[FeatureByName(features, name)].name = name
<1> DEFINE I == {i \in 1 .. Len(features) : features[i].name = name}
<1>1. FeatureByName(features, name) = IF I # {} THEN Min(I) ELSE 0
  BY DEF FeatureByName, SelectInSeq
<1>2. Len(features) \in Nat /\ DOMAIN features = 1 .. Len(features)
  BY SequenceFacts
<1>3. I # {} /\ I \in SUBSET Nat
  BY <1>1, <1>2
<1> HIDE DEF I
<1>4. PICK n \in I : \A m \in I : n <= m
  BY <1>3, LeastNat
<1>5. Min(I) \in I
  BY <1>4 DEF Min
<1> QED
  BY <1>1, <1>2, <1>3, <1>5 DEF I

LEMMA InSequences ==
  ASSUME NEW S, NEW s \in Seq(S)
  PROVE  IsSequence(s)
BY LenProperties, SequenceByDomain

LEMMA ConcatSet ==
  ASSUME NEW s, NEW t, IsSequence(s), IsSequence(t)
  PROVE  ToSet(s \o t) = ToSet(s) \cup ToSet(t)
<1>1. /\ Len(s) \in Nat /\ DOMAIN s = 1 .. Len(s) /\ Len(t) \in Nat /\ DOMAIN t = 1 .. Len(t)
      /\ DOMAIN (s \o t) = 1 .. Len(s) + Len(t)
      /\ \A i \in 1 .. Len(s) + Len(t) :
           (s \o t)[i] = IF i <= Len(s) THEN s[i] ELSE t[i - Len(s)]
  BY SequenceFacts, ConcatElements
<1>2. ASSUME NEW x \in ToSet(s \o t) PROVE x \in ToSet(s) \cup ToSet(t)
  <2>1. PICK i \in 1 .. Len(s) + Len(t) : x = (s \o t)[i]
    BY <1>1, <1>2 DEF ToSet
  <2>2. CASE i <= Len(s)
    BY <1>1, <2>1, <2>2 DEF ToSet
  <2>3. CASE ~(i <= Len(s))
    <3>1. i - Len(s) \in DOMAIN t /\ x = t[i - Len(s)]
      BY <1>1, <2>1, <2>3
    <3> QED
      BY <3>1 DEF ToSet
  <2> QED
    BY <2>2, <2>3
<1>3. ASSUME NEW x \in ToSet(s) PROVE x \in ToSet(s \o t)
  <2>1. PICK i \in 1 .. Len(s) : x = s[i]
    BY <1>1, <1>3 DEF ToSet
  <2>2. i \in DOMAIN (s \o t) /\ (s \o t)[i] = x
    BY <1>1, <2>1
  <2> QED
    BY <2>2 DEF ToSet
<1>4. ASSUME NEW x \in ToSet(t) PROVE x \in ToSet(s \o t)
  <2>1. PICK i \in 1 .. Len(t) : x = t[i]
    BY <1>1, <1>4 DEF ToSet
  <2>2. i + Len(s) \in DOMAIN (s \o t) /\ (s \o t)[i + Len(s)] = x
    BY <1>1, <2>1
  <2> QED
    BY <2>2 DEF ToSet
<1> QED
  BY <1>2, <1>3, <1>4

LEMMA RestLemma ==
  ASSUME NEW A, NEW B, NEW w \in [seen : A, left : B, failed : BOOLEAN], NEW new
  PROVE  [w EXCEPT !.left = new] = [seen |-> w.seen, left |-> new, failed |-> w.failed]
OBVIOUS

(* Every step of the walk, and all of it, stay among the names.            *)
LEMMA WalkNameType ==
  ASSUME NEW features, IsRules(features), NEW w \in Walks(features), ~Ended(w)
  PROVE  WalkName(features, w) \in Walks(features)
<1> DEFINE name == Head(w.left)
           i == FeatureByName(features, name)
           rest == [w EXCEPT !.left = Tail(@)]
           N == NamesIn(features)
<1>1. /\ w.seen \in SUBSET N /\ w.left \in Seq(N) /\ w.left # <<>> /\ w.failed = FALSE
      /\ w = [seen |-> w.seen, left |-> w.left, failed |-> w.failed]
  BY DEF Walks, Ended
<1>2. name \in N /\ Tail(w.left) \in Seq(N)
  BY <1>1, HeadTailProperties
<1>3. rest = [seen |-> w.seen, left |-> Tail(w.left), failed |-> FALSE]
  <2>1. [w EXCEPT !.left = Tail(@)] = [seen |-> w.seen, left |-> Tail(w.left), failed |-> w.failed]
    BY RestLemma DEF Walks
  <2> QED
    BY <1>1, <2>1
<1>4. CASE name \in w.seen
  BY <1>1, <1>2, <1>3, <1>4 DEF WalkName, Walks
<1>5. CASE name \notin w.seen /\ i = 0
  <2>1. WalkName(features, w) =
          [seen |-> w.seen \cup {name}, left |-> Tail(w.left), failed |-> TRUE]
    BY <1>3, <1>5 DEF WalkName
  <2> QED
    BY <1>1, <1>2, <2>1 DEF Walks
<1>6. CASE name \notin w.seen /\ i # 0
  <2>1. i \in DOMAIN features /\ IsSequence(features[i].requires)
    BY <1>6, FeatureByNameLemma DEF IsRules, ToSet
  <2>2. ToSet(features[i].requires) \subseteq N
    BY <2>1 DEF NamesIn
  <2>3. features[i].requires \in Seq(N)
    <3>1. features[i].requires \in Seq(ToSet(features[i].requires))
      BY <2>1 DEF IsSequence
    <3> HIDE DEF i, N
    <3> QED
      BY <2>2, <3>1
  <2>4. WalkName(features, w) =
          [seen |-> w.seen \cup {name}, left |-> features[i].requires \o Tail(w.left), failed |-> FALSE]
    BY <1>3, <1>6 DEF WalkName
  <2>5. features[i].requires \o Tail(w.left) \in Seq(N)
    BY <1>2, <2>3, ConcatProperties
  <2> QED
    BY <1>1, <1>2, <2>4, <2>5 DEF Walks
<1> QED
  BY <1>4, <1>5, <1>6

(* A set of names that holds what its members require.                     *)
Requires(features, name) == ToSet(features[FeatureByName(features, name)].requires)

ClosedNames(features, C) ==
  \A name \in C : FeatureByName(features, name) # 0 => Requires(features, name) \subseteq C

(* What a walk from w that ends in r has done.                             *)
Walked(features, w, r) ==
  /\ r \in Walks(features) /\ w.seen \subseteq r.seen
  /\ w.failed = TRUE => r.failed = TRUE
  /\ r.failed = FALSE =>
       /\ ToSet(w.left) \subseteq r.seen
       /\ \A n \in r.seen \ w.seen : /\ FeatureByName(features, n) # 0
                                     /\ Requires(features, n) \subseteq r.seen
  /\ \A C : ClosedNames(features, C) /\ w.seen \subseteq C /\ ToSet(w.left) \subseteq C =>
       r.seen \subseteq C

LEMMA WalkedStep ==
  ASSUME NEW features, IsRules(features), NEW w \in Walks(features), ~Ended(w),
         NEW r, Walked(features, WalkName(features, w), r)
  PROVE  Walked(features, w, r)
<1> DEFINE name == Head(w.left)
           i == FeatureByName(features, name)
           tail == Tail(w.left)
           v == WalkName(features, w)
           N == NamesIn(features)
<1>0. Walked(features, v, r)
  OBVIOUS
<1>1. /\ w.seen \in SUBSET N /\ w.left \in Seq(N) /\ w.left # <<>> /\ w.failed = FALSE
      /\ w = [seen |-> w.seen, left |-> w.left, failed |-> w.failed]
  BY DEF Walks, Ended
<1>2. name \in N /\ tail \in Seq(N) /\ ToSet(w.left) = {name} \cup ToSet(tail)
  <2>1. /\ Len(w.left) \in Nat \ {0} /\ DOMAIN w.left = 1 .. Len(w.left)
        /\ name = w.left[1] /\ tail \in Seq(N)
        /\ Len(tail) = Len(w.left) - 1 /\ \A k \in 1 .. Len(tail) : tail[k] = w.left[k + 1]
    BY <1>1, HeadTailProperties, LenProperties, EmptySeq
  <2>2. DOMAIN tail = 1 .. Len(tail)
    BY <2>1, LenProperties
  <2> HIDE DEF tail, name
  <2>3. ASSUME NEW x \in ToSet(w.left) PROVE x \in {name} \cup ToSet(tail)
    <3>1. PICK k \in 1 .. Len(w.left) : x = w.left[k]
      BY <2>1, <2>3 DEF ToSet
    <3>2. k = 1 \/ (k - 1 \in 1 .. Len(tail) /\ tail[k - 1] = w.left[k])
      BY <2>1
    <3> QED
      BY <2>1, <2>2, <3>1, <3>2 DEF ToSet
  <2>4. name \in ToSet(w.left)
    BY <2>1 DEF ToSet
  <2>5. ASSUME NEW x \in ToSet(tail) PROVE x \in ToSet(w.left)
    <3>1. PICK k \in 1 .. Len(tail) : x = tail[k]
      BY <2>2, <2>5 DEF ToSet
    <3>2. k + 1 \in 1 .. Len(w.left)
      BY <2>1
    <3> QED
      BY <2>1, <3>1, <3>2 DEF ToSet
  <2>6. name \in N
    BY <1>1, <2>1
  <2> QED
    BY <2>1, <2>3, <2>4, <2>5, <2>6
<1>3. [w EXCEPT !.left = Tail(@)] = [seen |-> w.seen, left |-> tail, failed |-> FALSE]
  <2>1. [w EXCEPT !.left = Tail(@)] = [seen |-> w.seen, left |-> Tail(w.left), failed |-> w.failed]
    BY RestLemma DEF Walks
  <2> QED
    BY <1>1, <2>1
<1>4. CASE name \in w.seen
  <2>1. v.seen = w.seen /\ v.left = tail /\ v.failed = FALSE
    BY <1>3, <1>4 DEF WalkName
  <2> HIDE DEF v, name, tail
  <2> QED
    BY <1>0, <1>1, <1>2, <1>4, <2>1 DEF Walked
<1>5. CASE name \notin w.seen /\ i = 0
  <2>1. v.seen = w.seen \cup {name} /\ v.left = tail /\ v.failed = TRUE
    BY <1>3, <1>5 DEF WalkName
  <2> HIDE DEF v, name, tail
  <2> QED
    BY <1>0, <1>1, <1>2, <2>1 DEF Walked
<1>6. CASE name \notin w.seen /\ i # 0
  <2>1. i \in DOMAIN features /\ IsSequence(features[i].requires)
    BY <1>6, FeatureByNameLemma DEF IsRules, ToSet
  <2>2. /\ v.seen = w.seen \cup {name} /\ v.failed = FALSE
        /\ v.left = features[i].requires \o tail
    BY <1>3, <1>6 DEF WalkName
  <2>3. ToSet(v.left) = Requires(features, name) \cup ToSet(tail)
    <3>1. IsSequence(tail)
      <4> HIDE DEF tail
      <4> QED
        BY <1>2, InSequences
    <3> QED
      BY <2>1, <2>2, <3>1, ConcatSet DEF Requires
  <2> HIDE DEF v, name, tail
  <2> QED
    BY <1>0, <1>1, <1>2, <1>6, <2>2, <2>3 DEF Walked, ClosedNames
<1> QED
  BY <1>4, <1>5, <1>6

(* What WalkName leaves to do is less, so walks end.                       *)
LEMMA ImageFinite ==
  ASSUME NEW S, IsFiniteSet(S), NEW f, f = [x \in S |-> f[x]]
  PROVE  IsFiniteSet({f[x] : x \in S})
<1> DEFINE T == {f[x] : x \in S}
<1>1. f \in Surjection(S, T)
  <2>1. f \in [S -> T]
    BY Zenon
  <2>2. \A t \in T : \E x \in S : f[x] = t
    OBVIOUS
  <2> HIDE DEF T
  <2> QED
    BY <2>1, <2>2 DEF Surjection
<1> QED
  BY <1>1, FS_Surjection

LEMMA NamesFinite ==
  ASSUME NEW features, IsRules(features)
  PROVE  IsFiniteSet(NamesIn(features))
<1> DEFINE names(i) == {features[i].name} \cup ToSet(features[i].requires)
           parts == [i \in DOMAIN features |-> names(i)]
<1>1. ASSUME NEW s, IsSequence(s) PROVE IsFiniteSet(DOMAIN s) /\ IsFiniteSet(ToSet(s))
  <2>1. Len(s) \in Nat /\ DOMAIN s = 1 .. Len(s) /\ s = [i \in 1 .. Len(s) |-> s[i]]
    BY <1>1, SequenceFacts
  <2>2. IsFiniteSet(DOMAIN s)
    BY <2>1, FS_Interval
  <2>3. IsFiniteSet({s[i] : i \in DOMAIN s})
    BY <2>1, <2>2, ImageFinite
  <2> QED
    BY <2>2, <2>3 DEF ToSet
<1>2. IsFiniteSet(DOMAIN features)
  BY <1>1 DEF IsRules
<1>3. \A i \in DOMAIN features : IsFiniteSet(names(i))
  <2> TAKE i \in DOMAIN features
  <2>1. IsSequence(features[i].requires)
    BY DEF IsRules, ToSet
  <2> QED
    BY <1>1, <2>1, FS_Singleton, FS_Union
<1>4. parts = [i \in DOMAIN features |-> parts[i]] /\ \A i \in DOMAIN features : parts[i] = names(i)
  OBVIOUS
<1>5. NamesIn(features) = UNION {parts[i] : i \in DOMAIN features}
  BY <1>4 DEF NamesIn
<1> HIDE DEF parts, names
<1>6. IsFiniteSet({parts[i] : i \in DOMAIN features})
  BY <1>2, <1>4, ImageFinite
<1>7. \A P \in {parts[i] : i \in DOMAIN features} : IsFiniteSet(P)
  BY <1>3, <1>4
<1> QED
  BY <1>5, <1>6, <1>7, FS_UNION

LEMMA WalkNameLess ==
  ASSUME NEW features, IsRules(features), NEW w \in Walks(features), ~Ended(w)
  PROVE  LET v == WalkName(features, w)
             N == NamesIn(features)
         IN \/ v.seen = w.seen /\ Len(v.left) = Len(w.left) - 1
            \/ \E name \in N \ w.seen : v.seen = w.seen \cup {name}
<1> DEFINE name == Head(w.left)
           i == FeatureByName(features, name)
           v == WalkName(features, w)
           N == NamesIn(features)
<1>1. /\ w.seen \in SUBSET N /\ w.left \in Seq(N) /\ w.left # <<>>
  BY DEF Walks, Ended
<1>2. name \in N /\ Len(Tail(w.left)) = Len(w.left) - 1
  BY <1>1, HeadTailProperties
<1>3. [w EXCEPT !.left = Tail(@)] = [seen |-> w.seen, left |-> Tail(w.left), failed |-> w.failed]
  BY RestLemma DEF Walks
<1>4. CASE name \in w.seen
  <2>1. v.seen = w.seen /\ v.left = Tail(w.left)
    BY <1>3, <1>4 DEF WalkName
  <2> QED
    BY <1>2, <2>1
<1>5. CASE name \notin w.seen
  <2>1. v.seen = w.seen \cup {name}
    BY <1>3, <1>5 DEF WalkName
  <2> QED
    BY <1>2, <1>5, <2>1
<1> QED
  BY <1>4, <1>5

LEMMA WalkRequiredLemma ==
  ASSUME NEW features, IsRules(features), NEW start \in Walks(features)
  PROVE  Walked(features, start, WalkRequired(features, start))
<1> DEFINE D == Walks(features)
           N == NamesIn(features)
           E == {w \in D : Ended(w)}
           step == [w \in D |-> IF Ended(w) THEN w ELSE WalkName(features, w)]
           visit == CHOOSE f : f = [w \in Walks(features) |->
                      IF Ended(w) THEN w ELSE f[WalkName(features, w)]]
           left(w) == Cardinality(N \ w.seen)
           Bad == {w \in D : ~Walked(features, w, visit[w])}
<1>1. \A w \in D : w \notin E => WalkName(features, w) \in D
  BY WalkNameType
<1>2. \E f : f = [w \in D |-> IF Ended(w) THEN w ELSE f[WalkName(features, w)]]
  <2>1. E \in SUBSET D /\ step \in [D -> D]
    BY <1>1
  <2>2. PICK f : f = [w \in D |-> IF w \in E THEN w ELSE f[step[w]]]
    <3> HIDE DEF D, E, step
    <3> QED
      BY <2>1, TailRecursion
  <2>3. \A w \in D : (IF w \in E THEN w ELSE f[step[w]]) = (IF Ended(w) THEN w ELSE f[WalkName(features, w)])
    OBVIOUS
  <2>4. f = [w \in D |-> IF Ended(w) THEN w ELSE f[WalkName(features, w)]]
    <3> HIDE DEF D, E, step
    <3> QED
      BY <2>2, <2>3
  <2> QED
    BY <2>4, Zenon
<1>3. visit = [w \in D |-> IF Ended(w) THEN w ELSE visit[WalkName(features, w)]]
  BY <1>2, Zenon
<1> HIDE DEF visit
<1>4. Bad = {}
  <2> SUFFICES ASSUME Bad # {} PROVE FALSE
    OBVIOUS
  <2>1. \A w \in D : left(w) \in Nat /\ Len(w.left) \in Nat
    <3> TAKE w \in D
    <3>1. IsFiniteSet(N \ w.seen)
      BY NamesFinite, FS_Difference
    <3>2. w.left \in Seq(N)
      BY DEF Walks
    <3> QED
      BY <3>1, <3>2, FS_CardinalityType, LenProperties
  <2> DEFINE Counts == {left(w) : w \in Bad}
  <2>2. Counts # {} /\ Counts \in SUBSET Nat
    BY <2>1
  <2>3. PICK c \in Counts : \A m \in Counts : c <= m
    <3> HIDE DEF Counts
    <3> QED
      BY <2>2, LeastNat
  <2> DEFINE Lengths == {Len(w.left) : w \in {u \in Bad : left(u) = c}}
  <2>4. Lengths # {} /\ Lengths \in SUBSET Nat
    BY <2>1, <2>3
  <2>5. PICK n \in Lengths : \A m \in Lengths : n <= m
    <3> HIDE DEF Lengths
    <3> QED
      BY <2>4, LeastNat
  <2>6. PICK w \in Bad : left(w) = c /\ Len(w.left) = n
    BY <2>5
  <2>7. w \in D /\ ~Walked(features, w, visit[w])
    BY <2>6
  <2>8. CASE Ended(w)
    <3>1. visit[w] = w
      BY <1>3, <2>7, <2>8
    <3>2. w.failed = FALSE => ToSet(w.left) = {}
      BY <2>8, EmptySeq DEF Ended, ToSet
    <3>3. Walked(features, w, w)
      BY <3>2, <2>7 DEF Walked
    <3> QED
      BY <3>1, <3>3, <2>7
  <2>9. CASE ~Ended(w)
    <3> DEFINE v == WalkName(features, w)
    <3>1. visit[w] = visit[v] /\ v \in D
      BY <1>1, <1>3, <2>7, <2>9
    <3>2. ~Walked(features, v, visit[v])
      BY <3>1, <2>7, <2>9, WalkedStep
    <3>3. v \in Bad
      BY <3>1, <3>2
    <3>4. c <= left(v) /\ (left(v) = c => n <= Len(v.left))
      BY <2>3, <2>5, <3>3
    <3>5. \/ v.seen = w.seen /\ Len(v.left) = Len(w.left) - 1
          \/ \E name \in N \ w.seen : v.seen = w.seen \cup {name}
      BY <2>7, <2>9, WalkNameLess
    <3>6. CASE v.seen = w.seen /\ Len(v.left) = Len(w.left) - 1
      BY <2>1, <2>6, <2>7, <3>4, <3>6
    <3>7. CASE \E name \in N \ w.seen : v.seen = w.seen \cup {name}
      <4>1. PICK name \in N \ w.seen : v.seen = w.seen \cup {name}
        BY <3>7
      <4>2. IsFiniteSet(N \ w.seen)
        BY NamesFinite, FS_Difference
      <4>3. N \ v.seen = (N \ w.seen) \ {name}
        BY <4>1
      <4>4. left(v) = left(w) - 1
        <5>1. Cardinality((N \ w.seen) \ {name}) = Cardinality(N \ w.seen) - 1
          <6> HIDE DEF N
          <6> QED
            BY <4>1, <4>2, FS_RemoveElement
        <5> QED
          BY <4>3, <5>1
      <4> QED
        BY <2>1, <2>6, <2>7, <3>4, <4>4
    <3> QED
      BY <3>5, <3>6, <3>7
  <2> QED
    BY <2>8, <2>9
<1>5. Walked(features, start, visit[start])
  BY <1>4
<1> QED
  BY <1>5 DEF WalkRequired, visit

(* A function may be defined by what it is of the number before.           *)
Counts(n, T, a, G, f) ==
  f \in [0 .. n -> T] /\ f[0] = a /\ \A i \in 1 .. n : f[i] = G[i][f[i - 1]]

LEMMA CountRecursion ==
  ASSUME NEW n \in Nat, NEW T, NEW a \in T, NEW G \in [1 .. n -> [T -> T]]
  PROVE  \E f : Counts(n, T, a, G, f)
<1> DEFINE Good(k) == \E f \in [0 .. k -> T] : f[0] = a /\ \A i \in 1 .. k : f[i] = G[i][f[i - 1]]
           Bad == {k \in 0 .. n : ~Good(k)}
<1>1. Bad = {}
  <2> SUFFICES ASSUME Bad # {} PROVE FALSE
    OBVIOUS
  <2>1. PICK k \in Bad : \A m \in Bad : k <= m
    <3>1. Bad \in SUBSET Nat
      OBVIOUS
    <3> HIDE DEF Bad
    <3> QED
      BY <3>1, LeastNat
  <2>2. k # 0
    <3>1. Good(0)
      <4> DEFINE f == [i \in 0 .. 0 |-> a]
      <4>1. f \in [0 .. 0 -> T] /\ f[0] = a /\ \A i \in 1 .. 0 : f[i] = G[i][f[i - 1]]
        OBVIOUS
      <4> HIDE DEF f
      <4> QED
        BY <4>1
    <3> HIDE DEF Good
    <3> QED
      BY <3>1, <2>1
  <2>3. k \in 1 .. n /\ Good(k - 1)
    <3> HIDE DEF Good
    <3> QED
      BY <2>1, <2>2
  <2>4. PICK f \in [0 .. k - 1 -> T] : f[0] = a /\ \A i \in 1 .. k - 1 : f[i] = G[i][f[i - 1]]
    BY <2>3
  <2> DEFINE g == [i \in 0 .. k |-> IF i < k THEN f[i] ELSE G[k][f[k - 1]]]
  <2>5. k - 1 \in 0 .. k - 1 /\ \A i \in 0 .. k : i < k => i \in 0 .. k - 1
    BY <2>3
  <2>6. g \in [0 .. k -> T]
    BY <2>3, <2>4, <2>5
  <2>7. \A i \in 0 .. k : i < k => g[i] = f[i]
    OBVIOUS
  <2>8. g[0] = a
    BY <2>3, <2>4, <2>7
  <2>9. ASSUME NEW i \in 1 .. k PROVE g[i] = G[i][g[i - 1]]
    <3>1. i - 1 \in 0 .. k /\ i - 1 < k
      BY <2>3
    <3>2. g[i - 1] = f[i - 1]
      BY <3>1, <2>7
    <3>3. CASE i < k
      <4>1. i \in 1 .. k - 1 /\ i \in 0 .. k
        BY <2>3, <3>3
      <4>2. g[i] = f[i] /\ f[i] = G[i][f[i - 1]]
        BY <4>1, <3>3, <2>4, <2>7
      <4> QED
        BY <3>2, <4>2
    <3>4. CASE i = k
      <4>1. g[k] = G[k][f[k - 1]]
        BY <2>3
      <4> HIDE DEF g
      <4> QED
        BY <3>2, <3>4, <4>1
    <3> QED
      BY <3>3, <3>4, <2>3
  <2> HIDE DEF g
  <2>10. Good(k)
    BY <2>6, <2>8, <2>9
  <2> HIDE DEF Good
  <2> QED
    BY <2>1, <2>10
<1>2. Good(n)
  <2> HIDE DEF Good
  <2> QED
    BY <1>1
<1> QED
  BY <1>2 DEF Counts

(* What a walk from the wanted features among the first k has done.        *)
WalkedWanted(features, wanted, k, r) ==
  /\ r \in Walks(features)
  /\ r.failed = FALSE =>
       /\ \A i \in 1 .. k : features[i].name \in ToSet(wanted) =>
            features[i].name \in r.seen /\ ToSet(features[i].requires) \subseteq r.seen
       /\ \A n \in r.seen : \/ n \in ToSet(wanted)
                            \/ /\ FeatureByName(features, n) # 0
                               /\ Requires(features, n) \subseteq r.seen
  /\ \A C : /\ ClosedNames(features, C)
            /\ \A i \in DOMAIN features : features[i].name \in ToSet(wanted) =>
                 features[i].name \in C /\ ToSet(features[i].requires) \subseteq C
            => r.seen \subseteq C

LEMMA WantType ==
  ASSUME NEW features, IsRules(features), NEW k \in DOMAIN features, NEW w \in Walks(features)
  PROVE  LET v == [seen |-> w.seen \cup {features[k].name}, left |-> features[k].requires,
                   failed |-> FALSE]
         IN Walked(features, v, WalkRequired(features, v))
<1> DEFINE f == features[k]
           N == NamesIn(features)
           v == [seen |-> w.seen \cup {f.name}, left |-> f.requires, failed |-> FALSE]
<1>1. w \in [seen : SUBSET N, left : Seq(N), failed : BOOLEAN]
  BY DEF Walks
<1>2. f.name \in N /\ ToSet(f.requires) \in SUBSET N
  BY DEF NamesIn
<1>3. f.requires \in Seq(N)
  <2>1. f.requires \in Seq(ToSet(f.requires))
    BY DEF IsRules, IsSequence, ToSet
  <2> HIDE DEF f, N
  <2> QED
    BY <1>2, <2>1, SeqMonotonic
<1>5. v \in Walks(features)
  BY <1>1, <1>2, <1>3 DEF Walks
<1>6. Walked(features, v, WalkRequired(features, v))
  BY <1>5, WalkRequiredLemma
<1> QED
  BY <1>6

LEMMA WalkWantedStep ==
  ASSUME NEW features, IsRules(features), NEW wanted, NEW k \in 1 .. Len(features),
         NEW w, WalkedWanted(features, wanted, k - 1, w)
  PROVE  WalkedWanted(features, wanted, k,
           IF w.failed \/ features[k].name \notin ToSet(wanted) THEN w
           ELSE WalkRequired(features,
                  [seen |-> w.seen \cup {features[k].name}, left |-> features[k].requires,
                   failed |-> FALSE]))
<1> DEFINE f == features[k]
           N == NamesIn(features)
           v == [seen |-> w.seen \cup {f.name}, left |-> f.requires, failed |-> FALSE]
           r == WalkRequired(features, v)
<1>1. Len(features) \in Nat /\ DOMAIN features = 1 .. Len(features) /\ k \in DOMAIN features
  BY SequenceFacts DEF IsRules
<1>2. \A i \in 1 .. k : i \in 1 .. k - 1 \/ i = k
  BY <1>1
<1>3. CASE w.failed = TRUE
  BY <1>3 DEF WalkedWanted
<1>4. CASE w.failed = FALSE /\ f.name \notin ToSet(wanted)
  BY <1>2, <1>4 DEF WalkedWanted
<1>5. CASE w.failed = FALSE /\ f.name \in ToSet(wanted)
  <2>1. w \in Walks(features)
    BY DEF WalkedWanted
  <2>6. Walked(features, v, r)
    BY <1>1, <2>1, WantType
  <2>7. v.seen = w.seen \cup {f.name} /\ v.left = f.requires /\ v.failed = FALSE
    OBVIOUS
  <2> HIDE DEF v, r
  <2>8. r \in Walks(features) /\ v.seen \subseteq r.seen
    BY <2>6 DEF Walked
  <2>9. ASSUME r.failed = FALSE, NEW i \in 1 .. k, features[i].name \in ToSet(wanted)
        PROVE  features[i].name \in r.seen /\ ToSet(features[i].requires) \subseteq r.seen
    <3>1. CASE i \in 1 .. k - 1
      BY <3>1, <2>7, <2>8, <2>9, <1>5 DEF WalkedWanted
    <3>2. CASE i = k
      BY <3>2, <2>6, <2>7, <2>9 DEF Walked
    <3> QED
      BY <1>2, <3>1, <3>2
  <2>10. ASSUME r.failed = FALSE, NEW n \in r.seen
         PROVE  \/ n \in ToSet(wanted)
                \/ FeatureByName(features, n) # 0 /\ Requires(features, n) \subseteq r.seen
    <3>1. CASE n \in w.seen
      BY <3>1, <2>7, <2>8, <1>5 DEF WalkedWanted
    <3>2. CASE n = f.name
      BY <3>2, <1>5
    <3>3. CASE n \in r.seen \ v.seen
      BY <3>3, <2>6, <2>10 DEF Walked
    <3> QED
      BY <2>7, <3>1, <3>2, <3>3
  <2>11. ASSUME NEW C, ClosedNames(features, C),
                \A i \in DOMAIN features : features[i].name \in ToSet(wanted) =>
                  features[i].name \in C /\ ToSet(features[i].requires) \subseteq C
         PROVE  r.seen \subseteq C
    <3>1. w.seen \subseteq C
      BY <2>11 DEF WalkedWanted
    <3>2. v.seen \subseteq C /\ ToSet(v.left) \subseteq C
      BY <3>1, <2>7, <2>11, <1>1, <1>5
    <3> QED
      BY <3>2, <2>6, <2>11 DEF Walked
  <2>12. WalkedWanted(features, wanted, k, r)
    BY <2>8, <2>9, <2>10, <2>11 DEF WalkedWanted
  <2> QED
    BY <2>12, <1>5 DEF r, v
<1>6. w.failed \in BOOLEAN
  BY DEF WalkedWanted, Walks
<1> QED
  BY <1>3, <1>4, <1>5, <1>6

LEMMA WalkWantedLemma ==
  ASSUME NEW features, IsRules(features), NEW wanted
  PROVE  WalkedWanted(features, wanted, Len(features), WalkWanted(features, wanted))
<1> DEFINE n == Len(features)
           D == Walks(features)
           start == [seen |-> {}, left |-> <<>>, failed |-> FALSE]
           next(i, w) == IF w.failed \/ features[i].name \notin ToSet(wanted) THEN w
                         ELSE WalkRequired(features,
                                [seen |-> w.seen \cup {features[i].name}, left |-> features[i].requires,
                                 failed |-> FALSE])
           G == [i \in 1 .. n |-> [w \in D |-> next(i, w)]]
           walk == CHOOSE f : f = [i \in 0 .. n |-> IF i = 0 THEN start ELSE next(i, f[i - 1])]
           Bad == {k \in 0 .. n : ~WalkedWanted(features, wanted, k, walk[k])}
<1>1. n \in Nat
  BY SequenceFacts DEF IsRules
<1>2. start \in D
  <2>1. <<>> \in Seq(NamesIn(features))
    BY EmptySeq
  <2> QED
    BY <2>1 DEF Walks
<1>3. WalkedWanted(features, wanted, 0, start)
  BY <1>2 DEF WalkedWanted
<1>4. \A i \in 1 .. n : \A w : WalkedWanted(features, wanted, i - 1, w) =>
                                WalkedWanted(features, wanted, i, next(i, w))
  BY WalkWantedStep
<1>9. \A i \in 1 .. n : \A w \in D : next(i, w) \in D
  <2> TAKE i \in 1 .. n
  <2> TAKE w \in D
  <2>1. i \in DOMAIN features
    BY SequenceFacts DEF IsRules
  <2> QED
    BY <2>1, WantType DEF Walked
<1> HIDE DEF next, start, D
<1>5. \E f : f = [i \in 0 .. n |-> IF i = 0 THEN start ELSE next(i, f[i - 1])]
  <2>1. G \in [1 .. n -> [D -> D]]
    BY <1>9
  <2>2. \A i \in 1 .. n : \A w \in D : G[i][w] = next(i, w)
    OBVIOUS
  <2> HIDE DEF G
  <2>0. PICK f : Counts(n, D, start, G, f)
    <3>1. start \in D
      BY <1>2
    <3> HIDE DEF n
    <3> QED
      BY <1>1, <3>1, <2>1, CountRecursion
  <2>3. f \in [0 .. n -> D] /\ f[0] = start /\ \A i \in 1 .. n : f[i] = G[i][f[i - 1]]
    BY <2>0 DEF Counts
  <2>4. ASSUME NEW i \in 0 .. n PROVE f[i] = IF i = 0 THEN start ELSE next(i, f[i - 1])
    <3>1. CASE i = 0
      BY <2>3, <3>1
    <3>2. CASE i # 0
      <4>1. i \in 1 .. n /\ i - 1 \in 0 .. n
        BY <1>1, <3>2
      <4>2. f[i] = G[i][f[i - 1]] /\ f[i - 1] \in D
        BY <2>3, <4>1
      <4> QED
        BY <2>2, <3>2, <4>1, <4>2
    <3> QED
      BY <3>1, <3>2
  <2>5. f = [i \in 0 .. n |-> f[i]]
    BY <2>3
  <2>6. f = [i \in 0 .. n |-> IF i = 0 THEN start ELSE next(i, f[i - 1])]
    BY <2>4, <2>5, Zenon
  <2> QED
    BY <2>6, Zenon
<1>6. walk = [i \in 0 .. n |-> IF i = 0 THEN start ELSE next(i, walk[i - 1])]
  BY <1>5, Zenon
<1> HIDE DEF walk
<1>7. Bad = {}
  <2> SUFFICES ASSUME Bad # {} PROVE FALSE
    OBVIOUS
  <2>1. PICK k \in Bad : \A m \in Bad : k <= m
    <3>1. Bad \in SUBSET Nat
      BY <1>1
    <3> HIDE DEF Bad
    <3> QED
      BY <3>1, LeastNat
  <2>2. k # 0
    BY <1>1, <1>3, <1>6, <2>1
  <2>3. k \in 1 .. n /\ k - 1 \in 0 .. n /\ WalkedWanted(features, wanted, k - 1, walk[k - 1])
    BY <1>1, <2>1, <2>2
  <2>4. walk[k] = next(k, walk[k - 1])
    BY <1>1, <1>6, <2>2, <2>3
  <2> QED
    BY <1>4, <2>1, <2>3, <2>4
<1>8. WalkedWanted(features, wanted, n, walk[n])
  BY <1>1, <1>7
<1> QED
  BY <1>8 DEF WalkWanted, walk, next, start

(* Whatever the rules and the wanted features, the features of the rules   *)
(* that ComputeFeatures enables are the needed ones when it does not fail: *)
(* the walk that marks what it has seen ends, and finds the least set.     *)
THEOREM ComputeCorrect ==
  ASSUME NEW features, IsRules(features), NEW wanted,
         ComputeFeatures(features, wanted).failed = FALSE
  PROVE  ComputeFeatures(features, wanted).on = Needed(features, wanted)
<1> DEFINE r == WalkWanted(features, wanted)
           F(name) == FeatureByName(features, name)
           names == {features[i].name : i \in DOMAIN features}
           unknown == \E name \in ToSet(wanted) : F(name) = 0
           Closed(N) == /\ ToSet(wanted) \subseteq N
                        /\ \A i \in DOMAIN features :
                             LET name == features[i].name
                             IN name \in ToSet(wanted) \/ (name \in N /\ i = F(name)) =>
                                  ToSet(features[i].requires) \subseteq N
           closed == {N \in SUBSET names : Closed(N)}
<1>1. CASE All \in ToSet(wanted)
  BY <1>1 DEF ComputeFeatures, Needed
<1>2. CASE All \notin ToSet(wanted)
  <2>1. ~unknown /\ ~r.failed
    BY <1>2 DEF ComputeFeatures
  <2>2. ComputeFeatures(features, wanted).on = {F(n) : n \in r.seen}
    BY <1>2, <2>1 DEF ComputeFeatures
  <2>3. Needed(features, wanted) = {F(n) : n \in {m \in names : \A N \in closed : m \in N}}
    BY <1>2 DEF Needed
  <2>4. WalkedWanted(features, wanted, Len(features), r)
    BY WalkWantedLemma
  <2>5. DOMAIN features = 1 .. Len(features)
    BY SequenceFacts DEF IsRules
  <2>6. \A name : F(name) # 0 => F(name) \in DOMAIN features /\ features[F(name)].name = name
    BY FeatureByNameLemma DEF IsRules
  <2>7. r.failed = FALSE
    BY <2>1, <2>4 DEF WalkedWanted, Walks
  <2> HIDE DEF r, F
  <2>8. /\ \A i \in DOMAIN features : features[i].name \in ToSet(wanted) =>
             features[i].name \in r.seen /\ ToSet(features[i].requires) \subseteq r.seen
        /\ \A n \in r.seen : \/ n \in ToSet(wanted)
                             \/ F(n) # 0 /\ ToSet(features[F(n)].requires) \subseteq r.seen
    BY <2>4, <2>5, <2>7 DEF WalkedWanted, Requires, F
  <2>9. r.seen \subseteq names
    BY <2>1, <2>6, <2>8
  <2>10. r.seen \in closed
    <3>1. ToSet(wanted) \subseteq r.seen
      BY <2>1, <2>6, <2>8
    <3>2. ASSUME NEW i \in DOMAIN features,
                 \/ features[i].name \in ToSet(wanted)
                 \/ features[i].name \in r.seen /\ i = F(features[i].name)
          PROVE  ToSet(features[i].requires) \subseteq r.seen
      BY <3>2, <2>8
    <3> QED
      BY <2>9, <3>1, <3>2
  <2>11. ASSUME NEW N \in closed PROVE r.seen \subseteq N
    <3>1. ClosedNames(features, N)
      BY <2>6, <2>11 DEF ClosedNames, Requires, F
    <3>2. \A i \in DOMAIN features : features[i].name \in ToSet(wanted) =>
            features[i].name \in N /\ ToSet(features[i].requires) \subseteq N
      BY <2>11
    <3> QED
      BY <3>1, <3>2, <2>4 DEF WalkedWanted
  <2>12. r.seen = {m \in names : \A N \in closed : m \in N}
    <3> HIDE DEF closed, names
    <3> QED
      BY <2>9, <2>10, <2>11
  <2> QED
    BY <2>2, <2>3, <2>12
<1> QED
  BY <1>1, <1>2

(* Flattening, one sequence more at a time.                                *)
IsSequences(ss) == IsSequence(ss) /\ \A i \in DOMAIN ss : IsSequence(ss[i])

First(ss, k) == [i \in 1 .. k |-> ss[i]]

(* What the recursion inside FlattenSeq says of its value.                 *)
Flattens(ss, n, f) == \A i \in 1 .. n : f[i] = IF i = 1 THEN ss[i] ELSE f[i - 1] \o ss[i]

LEMMA FlattenValue ==
  ASSUME NEW ss, IsSequence(ss), ss # <<>>
  PROVE  \E f : Flattens(ss, Len(ss), f) /\ FlattenSeq(ss) = f[Len(ss)]
<1> DEFINE n == Len(ss)
           f == CHOOSE f : f = [i \in 1 .. n |-> IF i = 1 THEN ss[i] ELSE f[i - 1] \o ss[i]]
<1>1. n \in Nat \ {0}
  BY EmptySeq, SequenceFacts DEF IsSequence
<1>2. f = [i \in 1 .. n |-> IF i = 1 THEN ss[i] ELSE f[i - 1] \o ss[i]]
  <2> HIDE DEF n
  <2> QED
    BY <1>1, FlattenExists, Zenon
<1>3. FlattenSeq(ss) = f[n]
  BY <1>1 DEF FlattenSeq
<1> HIDE DEF f, n
<1>4. Flattens(ss, n, f)
  BY <1>1, <1>2 DEF Flattens
<1> QED
  BY <1>3, <1>4 DEF n

LEMMA FlattenEmpty == FlattenSeq(<<>>) = <<>>
BY EmptySeq DEF FlattenSeq

LEMMA FirstFacts ==
  ASSUME NEW ss, IsSequences(ss), NEW k \in 0 .. Len(ss)
  PROVE  /\ IsSequences(First(ss, k)) /\ Len(First(ss, k)) = k /\ DOMAIN First(ss, k) = 1 .. k
         /\ \A i \in 1 .. k : First(ss, k)[i] = ss[i] /\ IsSequence(ss[i])
<1>1. Len(ss) \in Nat /\ DOMAIN ss = 1 .. Len(ss)
  BY SequenceFacts DEF IsSequences
<1>2. First(ss, k) = [i \in 1 .. k |-> First(ss, k)[i]] /\ \A i \in 1 .. k : First(ss, k)[i] = ss[i]
  BY DEF First
<1>3. IsSequence(First(ss, k)) /\ Len(First(ss, k)) = k /\ DOMAIN First(ss, k) = 1 .. k
  BY <1>1, <1>2, SequenceByDomain
<1> QED
  BY <1>1, <1>2, <1>3 DEF IsSequences

LEMMA FlattenStep ==
  ASSUME NEW ss, IsSequences(ss), NEW k \in 0 .. Len(ss) - 1
  PROVE  FlattenSeq(First(ss, k + 1)) = FlattenSeq(First(ss, k)) \o ss[k + 1]
<1> DEFINE a == First(ss, k)
           b == First(ss, k + 1)
<1>1. /\ Len(ss) \in Nat /\ k \in Nat /\ k + 1 \in 0 .. Len(ss) /\ k \in 0 .. Len(ss)
      /\ k + 1 \in 1 .. Len(ss)
  BY SequenceFacts DEF IsSequences
<1>2. /\ IsSequence(a) /\ Len(a) = k /\ \A i \in 1 .. k : a[i] = ss[i]
      /\ IsSequence(b) /\ Len(b) = k + 1 /\ \A i \in 1 .. k + 1 : b[i] = ss[i] /\ IsSequence(ss[i])
  BY <1>1, FirstFacts DEF IsSequences
<1> HIDE DEF a, b
<1>3. b # <<>>
  BY <1>1, <1>2, EmptySeq
<1>4. PICK g : Flattens(b, k + 1, g) /\ FlattenSeq(b) = g[k + 1]
  BY <1>2, <1>3, FlattenValue
<1>5. CASE k = 0
  <2>1. a = <<>> /\ FlattenSeq(a) = <<>>
    BY <1>2, <1>5, FlattenEmpty, EmptySeq DEF IsSequence
  <2>2. FlattenSeq(b) = ss[1] /\ IsSequence(ss[1])
    BY <1>1, <1>2, <1>4, <1>5 DEF Flattens
  <2>3. <<>> \o ss[1] = ss[1]
    BY <2>2, ConcatEmptySeq DEF IsSequence
  <2>4. FlattenSeq(b) = FlattenSeq(a) \o ss[k + 1]
    <3>1. k + 1 = 1
      BY <1>5
    <3> QED
      BY <2>1, <2>2, <2>3, <3>1
  <2> QED
    BY <2>4 DEF a, b
<1>6. CASE k # 0
  <2>1. a # <<>>
    BY <1>2, <1>6, EmptySeq
  <2>2. PICK f : Flattens(a, k, f) /\ FlattenSeq(a) = f[k]
    BY <1>2, <2>1, FlattenValue
  <2> DEFINE Bad == {i \in 1 .. k : f[i] # g[i]}
  <2>3. Bad = {}
    <3> SUFFICES ASSUME Bad # {} PROVE FALSE
      OBVIOUS
    <3>1. PICK i \in Bad : \A m \in Bad : i <= m
      <4>1. Bad \in SUBSET Nat
        BY <1>1
      <4> HIDE DEF Bad
      <4> QED
        BY <4>1, LeastNat
    <3>2. i \in 1 .. k /\ i \in 1 .. k + 1 /\ (i # 1 => i - 1 \in 1 .. k /\ f[i - 1] = g[i - 1])
      BY <1>1, <3>1
    <3>3. f[i] = IF i = 1 THEN a[i] ELSE f[i - 1] \o a[i]
      BY <2>2, <3>2 DEF Flattens
    <3>4. g[i] = IF i = 1 THEN b[i] ELSE g[i - 1] \o b[i]
      BY <1>4, <3>2 DEF Flattens
    <3> QED
      BY <3>1, <3>2, <3>3, <3>4, <1>2
  <2>4. f[k] = g[k]
    BY <1>1, <1>6, <2>3
  <2>5. k + 1 \in 1 .. k + 1 /\ k + 1 # 1 /\ (k + 1) - 1 = k
    BY <1>1, <1>6
  <2>6. g[k + 1] = g[k] \o b[k + 1]
    BY <1>4, <2>5 DEF Flattens
  <2>7. b[k + 1] = ss[k + 1]
    BY <1>2, <2>5
  <2> QED
    BY <1>4, <2>2, <2>4, <2>6, <2>7 DEF a, b
<1> QED
  BY <1>5, <1>6

LEMMA FirstAll ==
  ASSUME NEW ss, IsSequences(ss)
  PROVE  First(ss, Len(ss)) = ss
BY SequenceFacts DEF IsSequences, First

LEMMA FirstSequence ==
  ASSUME NEW ss, IsSequences(ss), NEW k \in 0 .. Len(ss)
  PROVE  /\ IsSequence(FlattenSeq(First(ss, k)))
         /\ \A x \in ToSet(FlattenSeq(First(ss, k))) : \E i \in 1 .. k : x \in ToSet(ss[i])
<1>1. /\ IsSequences(First(ss, k)) /\ DOMAIN First(ss, k) = 1 .. k
      /\ \A i \in 1 .. k : First(ss, k)[i] = ss[i]
  BY FirstFacts
<1> HIDE DEF First
<1> QED
  BY <1>1, FlattenElements DEF IsSequences

(* A sequence with more behind it.                                         *)
IsPrefixOf(s, t) == /\ IsSequence(s) /\ IsSequence(t) /\ Len(s) <= Len(t)
                    /\ \A i \in 1 .. Len(s) : s[i] = t[i]

LEMMA FlattenPrefix ==
  ASSUME NEW ss, IsSequences(ss), NEW k \in 0 .. Len(ss)
  PROVE  IsPrefixOf(FlattenSeq(First(ss, k)), FlattenSeq(ss))
<1> DEFINE F(m) == FlattenSeq(First(ss, m))
           n == Len(ss)
           Bad == {m \in k .. n : ~IsPrefixOf(F(k), F(m))}
<1>1. n \in Nat /\ k \in Nat
  BY SequenceFacts DEF IsSequences
<1>2. \A m \in 0 .. n : IsSequence(F(m))
  BY FirstSequence
<1>3. \A m \in 0 .. n - 1 : F(m + 1) = F(m) \o ss[m + 1] /\ IsSequence(ss[m + 1])
  <2> TAKE m \in 0 .. n - 1
  <2>1. m + 1 \in DOMAIN ss
    BY <1>1, SequenceFacts DEF IsSequences
  <2> QED
    BY <2>1, FlattenStep DEF IsSequences
<1> HIDE DEF F, n
<1>4. Bad = {}
  <2> SUFFICES ASSUME Bad # {} PROVE FALSE
    OBVIOUS
  <2>1. PICK m \in Bad : \A j \in Bad : m <= j
    <3>1. Bad \in SUBSET Nat
      BY <1>1
    <3> HIDE DEF Bad
    <3> QED
      BY <3>1, LeastNat
  <2>2. m # k
    <3>1. IsPrefixOf(F(k), F(k))
      BY <1>1, <1>2, SequenceFacts DEF IsPrefixOf, n
    <3> QED
      BY <2>1, <3>1
  <2>3. m - 1 \in k .. n /\ m - 1 \in 0 .. n - 1 /\ (m - 1) + 1 = m /\ m - 1 \notin Bad
    BY <1>1, <2>1, <2>2
  <2>4. IsPrefixOf(F(k), F(m - 1))
    BY <2>3
  <2>5. F(m) = F(m - 1) \o ss[m] /\ IsSequence(ss[m]) /\ IsSequence(F(m - 1))
    <3>1. F((m - 1) + 1) = F(m - 1) \o ss[(m - 1) + 1] /\ IsSequence(ss[(m - 1) + 1])
      BY <1>3, <2>3
    <3>2. m - 1 \in 0 .. n
      BY <1>1, <2>3
    <3> QED
      BY <1>2, <2>3, <3>1, <3>2
  <2>6. Len(F(k)) \in Nat /\ Len(F(m - 1)) \in Nat /\ Len(ss[m]) \in Nat
    BY <2>4, <2>5, SequenceFacts DEF IsPrefixOf
  <2>7. /\ IsSequence(F(m)) /\ Len(F(m)) = Len(F(m - 1)) + Len(ss[m])
        /\ \A i \in 1 .. Len(F(m - 1)) : F(m)[i] = F(m - 1)[i]
    BY <2>5, <2>6, ConcatElements
  <2>8. IsPrefixOf(F(k), F(m))
    <3>1. /\ IsSequence(F(k)) /\ Len(F(k)) <= Len(F(m - 1))
          /\ \A i \in 1 .. Len(F(k)) : F(k)[i] = F(m - 1)[i]
      BY <2>4 DEF IsPrefixOf
    <3>2. Len(F(k)) <= Len(F(m))
      <4>1. \A a, b, c \in Nat : a <= b => a <= b + c
        OBVIOUS
      <4>2. Len(F(m)) = Len(F(m - 1)) + Len(ss[m])
        BY <2>7
      <4>3. Len(F(k)) <= Len(F(m - 1)) + Len(ss[m])
        BY <2>6, <3>1, <4>1
      <4> QED
        BY <4>2, <4>3
    <3>3. ASSUME NEW i \in 1 .. Len(F(k)) PROVE F(k)[i] = F(m)[i]
      <4>1. i \in 1 .. Len(F(m - 1))
        BY <2>6, <3>1
      <4> QED
        BY <2>7, <3>1, <4>1
    <3> QED
      BY <2>7, <3>1, <3>2, <3>3 DEF IsPrefixOf
  <2> QED
    BY <2>1, <2>8
<1>5. n \in k .. n
  BY <1>1 DEF n
<1>6. IsPrefixOf(F(k), F(n))
  BY <1>4, <1>5
<1> QED
  BY <1>6, FirstAll DEF F, n

(* Documents that differ at most in that the second overwrites more.       *)
Alike(a, b) ==
  /\ a.path = b.path /\ a.raw = b.raw /\ a.source = b.source /\ a.context = b.context
  /\ a.told = b.told /\ a.for = b.for
  /\ (a.overwrites = TRUE) => (b.overwrites = TRUE)

Similar(s, u) ==
  /\ IsSequence(s) /\ IsSequence(u) /\ Len(s) = Len(u)
  /\ \A i \in 1 .. Len(s) : Alike(s[i], u[i])

LEMMA ConcatSimilar ==
  ASSUME NEW s, NEW u, NEW v, NEW w, Similar(s, u), Similar(v, w)
  PROVE  Similar(s \o v, u \o w)
<1>1. /\ Len(s) \in Nat /\ Len(v) \in Nat /\ Len(u) = Len(s) /\ Len(w) = Len(v)
      /\ IsSequence(s) /\ IsSequence(u) /\ IsSequence(v) /\ IsSequence(w)
  BY SequenceFacts DEF Similar
<1>2. /\ IsSequence(s \o v) /\ Len(s \o v) = Len(s) + Len(v)
      /\ \A i \in 1 .. Len(s) + Len(v) :
           (s \o v)[i] = IF i <= Len(s) THEN s[i] ELSE v[i - Len(s)]
  BY <1>1, ConcatElements
<1>3. /\ IsSequence(u \o w) /\ Len(u \o w) = Len(s) + Len(v)
      /\ \A i \in 1 .. Len(s) + Len(v) :
           (u \o w)[i] = IF i <= Len(s) THEN u[i] ELSE w[i - Len(s)]
  <2>1. /\ IsSequence(u \o w) /\ Len(u \o w) = Len(u) + Len(w)
        /\ \A i \in 1 .. Len(u) + Len(w) :
             (u \o w)[i] = IF i <= Len(u) THEN u[i] ELSE w[i - Len(u)]
    BY <1>1, ConcatElements
  <2> QED
    BY <1>1, <2>1
<1>4. ASSUME NEW i \in 1 .. Len(s) + Len(v) PROVE Alike((s \o v)[i], (u \o w)[i])
  <2>1. CASE i <= Len(s)
    <3>1. i \in 1 .. Len(s)
      BY <1>1, <2>1
    <3>2. Alike(s[i], u[i])
      BY <3>1 DEF Similar
    <3> QED
      BY <1>2, <1>3, <2>1, <3>2
  <2>2. CASE ~(i <= Len(s))
    <3>1. i - Len(s) \in 1 .. Len(v)
      BY <1>1, <2>2
    <3>2. Alike(v[i - Len(s)], w[i - Len(s)])
      BY <3>1 DEF Similar
    <3> QED
      BY <1>2, <1>3, <2>2, <3>2
  <2> QED
    BY <2>1, <2>2
<1> QED
  BY <1>2, <1>3, <1>4 DEF Similar

LEMMA FlattenSimilar ==
  ASSUME NEW ss, NEW us, IsSequences(ss), IsSequences(us), Len(ss) = Len(us),
         \A i \in 1 .. Len(ss) : Similar(ss[i], us[i])
  PROVE  Similar(FlattenSeq(ss), FlattenSeq(us))
<1> DEFINE n == Len(ss)
           F(k) == FlattenSeq(First(ss, k))
           G(k) == FlattenSeq(First(us, k))
           Bad == {k \in 0 .. n : ~Similar(F(k), G(k))}
<1>1. n \in Nat
  BY SequenceFacts DEF IsSequences
<1>2. Similar(F(0), G(0))
  <2>1. ASSUME NEW qs PROVE FlattenSeq(First(qs, 0)) = <<>>
    <3>1. First(qs, 0) = <<>>
      BY DEF First
    <3> QED
      BY <3>1, FlattenEmpty
  <2>2. Similar(<<>>, <<>>)
    BY EmptySequence DEF Similar
  <2> QED
    BY <2>1, <2>2
<1>3. \A k \in 0 .. n - 1 : F(k + 1) = F(k) \o ss[k + 1] /\ G(k + 1) = G(k) \o us[k + 1]
  BY FlattenStep
<1> HIDE DEF F, G
<1>4. Bad = {}
  <2> SUFFICES ASSUME Bad # {} PROVE FALSE
    OBVIOUS
  <2>1. PICK k \in Bad : \A m \in Bad : k <= m
    <3>1. Bad \in SUBSET Nat
      BY <1>1
    <3> HIDE DEF Bad
    <3> QED
      BY <3>1, LeastNat
  <2>2. k \in 1 .. n /\ k - 1 \in 0 .. n - 1 /\ (k - 1) + 1 = k /\ Similar(F(k - 1), G(k - 1))
    BY <1>1, <1>2, <2>1
  <2>3. F((k - 1) + 1) = F(k - 1) \o ss[(k - 1) + 1] /\ G((k - 1) + 1) = G(k - 1) \o us[(k - 1) + 1]
    BY <1>3, <2>2
  <2>4. F(k) = F(k - 1) \o ss[k] /\ G(k) = G(k - 1) \o us[k]
    BY <2>2, <2>3
  <2>5. Similar(F(k), G(k))
    BY <2>2, <2>4, ConcatSimilar
  <2> QED
    BY <2>1, <2>5
<1>5. n \in 0 .. n
  BY <1>1
<1>6. Similar(F(n), G(n))
  BY <1>4, <1>5
<1> QED
  BY <1>6, FirstAll DEF F, G

-----------------------------------------------------------------------------
(***************************************************************************)
(* What a run should do, of the disk and the document it has.              *)
(***************************************************************************)
ExpandAt(fs, inputs) ==
  FlattenSeq([i \in DOMAIN inputs |->
    IF inputs[i] \in DOMAIN Dirs
    THEN Among(Dirs[inputs[i]], {f \in Files : fs[f] # "absent" /\ Kind[f] # "module"})
    ELSE <<inputs[i]>>])

TargetAt(fs, ts, d, r, t) ==
  IF r \in Held THEN d[t]
  ELSE [dir |-> IF ts["local"] # "absent" THEN "local" ELSE "cache",
        inputs |-> ExpandAt(fs, Targets[t].inputs)]

SystemAt(fs, target) ==
  LET parsed == Parsed(target.inputs)
  IN [i \in DOMAIN parsed |-> <<parsed[i], fs[parsed[i]]>>]

PlanOf(fs, version, target, forced, t) ==
  LET features == Template[version].features
  IN Plan(t, forced \/ Targets[t].force, features, Needed(features, Wanted(t)),
          SystemAt(fs, target))

PlanAt(fs, ts, d, r, forced, t) ==
  PlanOf(fs, ts[TargetAt(fs, ts, d, r, t).dir], TargetAt(fs, ts, d, r, t), forced, t)

Plans(fs, ts, d, r, forced, k) == [t \in 1 .. k |-> PlanAt(fs, ts, d, r, forced, t)]

(* The plan for the first k targets, and what a document should make.      *)
Upto(fs, ts, d, r, forced, k) == FlattenSeq(Plans(fs, ts, d, r, forced, k))

Desired(fs, ts, d, r, job) ==
  LET target == TargetAt(fs, ts, d, r, job.for)
      place == ts[target.dir]
  IN IF job.raw THEN Copied(job.source, place) ELSE Rendered(job, place, SystemAt(fs, target))

LEMMA AtLemma ==
  ASSUME NEW r, NEW t
  PROVE  /\ Target(r, t) = TargetAt(file, tpl, doc[r], r, t)
         /\ System(r, t) = SystemAt(file, TargetAt(file, tpl, doc[r], r, t))
         /\ NeededPlan(r, t) = PlanAt(file, tpl, doc[r], r, run[r].forced, t)
<1>1. Target(r, t) = TargetAt(file, tpl, doc[r], r, t)
  BY DEF Target, TargetAt, ExpandInputs, ExpandAt
<1>2. System(r, t) = SystemAt(file, TargetAt(file, tpl, doc[r], r, t))
  BY <1>1 DEF System, SystemAt
<1>3. NeededPlan(r, t) = PlanAt(file, tpl, doc[r], r, run[r].forced, t)
  BY <1>1, <1>2 DEF NeededPlan, PlanAt, PlanOf
<1> QED
  BY <1>1, <1>2, <1>3

(* The target at t is known, and its template is there.                    *)
Ready(r, t) ==
  /\ r \in Held => doc[r][t] # Nothing
  /\ tpl[TargetAt(file, tpl, doc[r], r, t).dir] \in Versions

LEMMA TargetAtLemma ==
  ASSUME IInv, NEW r \in Runners, NEW t \in DOMAIN Targets, r \in Held => doc[r][t] # Nothing
  PROVE  TargetAt(file, tpl, doc[r], r, t) \in [dir : Places, inputs : Seq(Files)]
<1>1. CASE r \in Held
  BY <1>1 DEF TargetAt, IInv, Docs
<1>2. CASE r \notin Held
  <2>1. ExpandAt(file, Targets[t].inputs) \in Seq(Files)
    <3>1. ExpandAt(file, Targets[t].inputs) = ExpandInputs(Targets[t].inputs)
      BY DEF ExpandAt, ExpandInputs
    <3> QED
      BY <3>1, ExpandLemma
  <2> QED
    BY <1>2, <2>1 DEF TargetAt, Places
<1> QED
  BY <1>1, <1>2

LEMMA SystemAtLemma ==
  ASSUME NEW target \in [dir : Places, inputs : Seq(Files)]
  PROVE  /\ IsSequence(SystemAt(file, target))
         /\ \A i \in DOMAIN SystemAt(file, target) : SystemAt(file, target)[i][1] \in Files
<1> DEFINE parsed == Parsed(target.inputs)
           system == SystemAt(file, target)
<1>1. IsSequence(parsed) /\ ToSet(parsed) \subseteq Files
  BY ParsedLemma
<1>2. Len(parsed) \in Nat /\ DOMAIN parsed = 1 .. Len(parsed)
  BY <1>1, SequenceFacts
<1>3. system = [i \in 1 .. Len(parsed) |-> <<parsed[i], file[parsed[i]]>>]
  BY <1>2 DEF SystemAt
<1>4. \A i \in 1 .. Len(parsed) : parsed[i] \in Files
  BY <1>1, <1>2 DEF ToSet
<1> HIDE DEF parsed, system
<1>5. system = [i \in 1 .. Len(parsed) |-> system[i]]
  BY <1>3
<1>6. IsSequence(system) /\ DOMAIN system = 1 .. Len(parsed)
  BY <1>2, <1>5, SequenceByDomain
<1> QED
  BY <1>3, <1>4, <1>6 DEF system

(* Plans of one template and system differ in what they overwrite.         *)
LEMMA PlanSimilar ==
  ASSUME NEW t, NEW f, NEW g, f => g, NEW features, NEW on, NEW system,
         IsSequence(Plan(t, f, features, on, system)), IsSequence(Plan(t, g, features, on, system))
  PROVE  Similar(Plan(t, f, features, on, system), Plan(t, g, features, on, system))
<1> DEFINE documents == Documents(features, on, [i \in DOMAIN system |-> Symbols[system[i][1]]])
           entry(h, d) == [feature |-> d.feature, source |-> d.source, raw |-> d.raw, context |-> d.context,
                 path |-> <<Targets[t].output, d.target[1], d.target[2]>>,
                 overwrites |-> h \/ d.raw \/ ~d.preserve,
                 told |-> FeatureNamesMap(features, on), for |-> t]
           p == Plan(t, f, features, on, system)
           q == Plan(t, g, features, on, system)
<1>1. p = [i \in DOMAIN documents |-> entry(f, documents[i])]
  BY DEF Plan
<1>2. q = [i \in DOMAIN documents |-> entry(g, documents[i])]
  BY DEF Plan
<1>3. \A d : Alike(entry(f, d), entry(g, d))
  BY DEF Alike
<1> HIDE DEF p, q, entry, documents
<1>4. DOMAIN p = DOMAIN documents /\ DOMAIN q = DOMAIN documents
  BY <1>1, <1>2
<1>5. /\ Len(p) \in Nat /\ DOMAIN p = 1 .. Len(p)
      /\ Len(q) \in Nat /\ DOMAIN q = 1 .. Len(q)
  BY SequenceFacts DEF p, q
<1>6. Len(p) = Len(q)
  BY <1>4, <1>5
<1>7. \A i \in 1 .. Len(p) : Alike(p[i], q[i])
  BY <1>1, <1>2, <1>3, <1>4, <1>5
<1> QED
  BY <1>6, <1>7 DEF Similar, p, q

LEMMA PlanAtLemma ==
  ASSUME IInv, NEW r \in Runners, NEW t \in DOMAIN Targets, Ready(r, t), NEW forced
  PROVE  /\ IsPlan(PlanAt(file, tpl, doc[r], r, forced, t), t, forced \/ Targets[t].force)
         /\ Similar(PlanAt(file, tpl, doc[r], r, FALSE, t), PlanAt(file, tpl, doc[r], r, forced, t))
<1> DEFINE target == TargetAt(file, tpl, doc[r], r, t)
           version == tpl[target.dir]
           on == Needed(Template[version].features, Wanted(t))
           system == SystemAt(file, target)
           features == Template[version].features
<1>1. target \in [dir : Places, inputs : Seq(Files)] /\ version \in Versions
  BY TargetAtLemma DEF Ready
<1>2. IsSequence(system) /\ \A i \in DOMAIN system : system[i][1] \in Files
  BY <1>1, SystemAtLemma
<1> HIDE DEF target, system
<1>3. \A f : PlanAt(file, tpl, doc[r], r, f, t) = Plan(t, f \/ Targets[t].force, features, on, system)
  BY DEF PlanAt, PlanOf, target, system
<1>4. \A f : IsPlan(Plan(t, f, features, on, system), t, f)
  <2> HIDE DEF version, on
  <2> QED
    BY <1>1, <1>2, PlanLemma
<1> HIDE DEF version, on, features
<1>5. IsPlan(PlanAt(file, tpl, doc[r], r, forced, t), t, forced \/ Targets[t].force)
  BY <1>3, <1>4
<1>6. Similar(Plan(t, FALSE \/ Targets[t].force, features, on, system),
              Plan(t, forced \/ Targets[t].force, features, on, system))
  <2>1. IsSequence(Plan(t, FALSE \/ Targets[t].force, features, on, system))
    BY <1>4 DEF IsPlan
  <2>2. IsSequence(Plan(t, forced \/ Targets[t].force, features, on, system))
    BY <1>4 DEF IsPlan
  <2>3. FALSE \/ Targets[t].force => forced \/ Targets[t].force
    OBVIOUS
  <2> QED
    BY <2>1, <2>2, <2>3, PlanSimilar
<1> QED
  BY <1>3, <1>5, <1>6

ReadyTo(r, k) == \A t \in 1 .. k : Ready(r, t)

LEMMA PlansLemma ==
  ASSUME IInv, NEW r \in Runners, NEW k \in 0 .. Len(Targets), ReadyTo(r, k), NEW forced
  PROVE  LET ps == Plans(file, tpl, doc[r], r, forced, k)
         IN /\ IsSequences(ps) /\ Len(ps) = k /\ DOMAIN ps = 1 .. k
            /\ \A t \in 1 .. k : /\ ps[t] = PlanAt(file, tpl, doc[r], r, forced, t)
                                 /\ IsPlan(ps[t], t, forced \/ Targets[t].force)
            /\ \A j \in 0 .. k : First(ps, j) = Plans(file, tpl, doc[r], r, forced, j)
<1> DEFINE ps == Plans(file, tpl, doc[r], r, forced, k)
           p(t) == PlanAt(file, tpl, doc[r], r, forced, t)
<1>1. Len(Targets) \in Nat /\ DOMAIN Targets = 1 .. Len(Targets) /\ k \in Nat
  BY TargetsLemma
<1>2. \A t \in 1 .. k : IsPlan(p(t), t, forced \/ Targets[t].force)
  <2> TAKE t \in 1 .. k
  <2>1. t \in DOMAIN Targets /\ Ready(r, t)
    BY <1>1 DEF ReadyTo
  <2> QED
    BY <2>1, PlanAtLemma
<1>3. ps = [t \in 1 .. k |-> p(t)]
  BY DEF Plans
<1>4. \A j \in 0 .. k : First(ps, j) = Plans(file, tpl, doc[r], r, forced, j)
  <2> TAKE j \in 0 .. k
  <2>1. \A t \in 1 .. j : t \in 1 .. k
    BY <1>1
  <2> HIDE DEF p
  <2>2. First(ps, j) = [t \in 1 .. j |-> p(t)]
    BY <1>3, <2>1 DEF First
  <2> QED
    BY <2>2 DEF p, Plans
<1> HIDE DEF ps, p
<1>5. \A t \in 1 .. k : ps[t] = p(t) /\ IsSequence(ps[t])
  BY <1>2, <1>3 DEF IsPlan
<1>6. ps = [t \in 1 .. k |-> ps[t]]
  BY <1>3
<1>7. IsSequence(ps) /\ Len(ps) = k /\ DOMAIN ps = 1 .. k
  BY <1>1, <1>6, SequenceByDomain
<1>8. IsSequences(ps)
  BY <1>5, <1>7 DEF IsSequences
<1>9. \A t \in 1 .. k : ps[t] = p(t) /\ IsPlan(ps[t], t, forced \/ Targets[t].force)
  BY <1>2, <1>5
<1> QED
  BY <1>4, <1>7, <1>8, <1>9 DEF ps, p

LEMMA UptoStep ==
  ASSUME IInv, NEW r \in Runners, NEW k \in 1 .. Len(Targets), ReadyTo(r, k), NEW forced
  PROVE  Upto(file, tpl, doc[r], r, forced, k) =
           Upto(file, tpl, doc[r], r, forced, k - 1) \o PlanAt(file, tpl, doc[r], r, forced, k)
<1> DEFINE ps == Plans(file, tpl, doc[r], r, forced, k)
<1>1. Len(Targets) \in Nat /\ k \in 0 .. Len(Targets) /\ k - 1 \in 0 .. k - 1 /\ (k - 1) + 1 = k
      /\ k \in 1 .. k /\ k \in 0 .. k /\ k - 1 \in 0 .. k
  BY TargetsLemma
<1>2. /\ IsSequences(ps) /\ Len(ps) = k /\ ps[k] = PlanAt(file, tpl, doc[r], r, forced, k)
      /\ First(ps, k) = ps /\ First(ps, k - 1) = Plans(file, tpl, doc[r], r, forced, k - 1)
  BY <1>1, PlansLemma
<1> HIDE DEF ps
<1>3. FlattenSeq(First(ps, (k - 1) + 1)) = FlattenSeq(First(ps, k - 1)) \o ps[(k - 1) + 1]
  BY <1>1, <1>2, FlattenStep
<1>4. FlattenSeq(ps) = FlattenSeq(First(ps, k - 1)) \o ps[k]
  BY <1>1, <1>2, <1>3
<1> QED
  BY <1>2, <1>4 DEF Upto, ps

LEMMA UptoFacts ==
  ASSUME IInv, NEW r \in Runners, NEW k \in 0 .. Len(Targets), ReadyTo(r, k), NEW forced
  PROVE  LET plan == Upto(file, tpl, doc[r], r, forced, k)
         IN /\ IsSequence(plan)
            /\ \A i \in DOMAIN plan : plan[i].for \in 1 .. k
<1> DEFINE ps == Plans(file, tpl, doc[r], r, forced, k)
           plan == Upto(file, tpl, doc[r], r, forced, k)
<1>1. IsSequences(ps) /\ DOMAIN ps = 1 .. k /\ \A t \in 1 .. k : IsPlan(ps[t], t, forced \/ Targets[t].force)
  BY PlansLemma
<1>2. plan = FlattenSeq(ps)
  BY DEF Upto
<1> HIDE DEF ps, plan
<1>3. /\ IsSequence(plan)
      /\ \A x \in ToSet(plan) : \E t \in 1 .. k : x \in ToSet(ps[t])
  BY <1>1, <1>2, FlattenElements DEF IsSequences
<1>4. ASSUME NEW i \in DOMAIN plan PROVE plan[i].for \in 1 .. k
  <2>1. plan[i] \in ToSet(plan)
    BY DEF ToSet
  <2>2. PICK t \in 1 .. k : plan[i] \in ToSet(ps[t])
    BY <1>3, <2>1
  <2>3. PICK j \in DOMAIN ps[t] : plan[i] = ps[t][j]
    BY <2>2 DEF ToSet
  <2> QED
    BY <1>1, <2>2, <2>3 DEF IsPlan
<1> QED
  BY <1>3, <1>4 DEF plan

LEMMA UptoPrefix ==
  ASSUME IInv, NEW r \in Runners, NEW k \in 0 .. Len(Targets), ReadyTo(r, k), NEW forced,
         NEW j \in 0 .. k
  PROVE  IsPrefixOf(Upto(file, tpl, doc[r], r, forced, j), Upto(file, tpl, doc[r], r, forced, k))
<1> DEFINE ps == Plans(file, tpl, doc[r], r, forced, k)
<1>1. IsSequences(ps) /\ Len(ps) = k /\ First(ps, j) = Plans(file, tpl, doc[r], r, forced, j)
  BY PlansLemma
<1> HIDE DEF ps
<1>2. IsPrefixOf(FlattenSeq(First(ps, j)), FlattenSeq(ps))
  BY <1>1, FlattenPrefix
<1> QED
  BY <1>1, <1>2 DEF Upto, ps

LEMMA UptoSimilar ==
  ASSUME IInv, NEW r \in Runners, NEW k \in 0 .. Len(Targets), ReadyTo(r, k), NEW forced
  PROVE  Similar(Upto(file, tpl, doc[r], r, FALSE, k), Upto(file, tpl, doc[r], r, forced, k))
<1> DEFINE ps == Plans(file, tpl, doc[r], r, FALSE, k)
           qs == Plans(file, tpl, doc[r], r, forced, k)
<1>1. /\ IsSequences(ps) /\ Len(ps) = k
      /\ \A t \in 1 .. k : ps[t] = PlanAt(file, tpl, doc[r], r, FALSE, t)
  BY PlansLemma
<1>2. /\ IsSequences(qs) /\ Len(qs) = k
      /\ \A t \in 1 .. k : qs[t] = PlanAt(file, tpl, doc[r], r, forced, t)
  BY PlansLemma
<1>3. \A t \in 1 .. k : Similar(ps[t], qs[t])
  <2> TAKE t \in 1 .. k
  <2>1. t \in DOMAIN Targets /\ Ready(r, t)
    BY TargetsLemma DEF ReadyTo
  <2>2. Similar(PlanAt(file, tpl, doc[r], r, FALSE, t), PlanAt(file, tpl, doc[r], r, forced, t))
    BY <2>1, PlanAtLemma
  <2> QED
    BY <1>1, <1>2, <2>2
<1> HIDE DEF ps, qs
<1>4. Similar(FlattenSeq(ps), FlattenSeq(qs))
  BY <1>1, <1>2, <1>3, FlattenSimilar
<1> QED
  BY <1>4 DEF Upto, ps, qs

-----------------------------------------------------------------------------
(***************************************************************************)
(* The invariant for runs by themselves.                                   *)
(***************************************************************************)

(* For how many targets there is a plan already.                           *)
Planned(x) == IF x.pc \in {"read", "validate"} THEN 0
              ELSE IF x.pc \in {"parse", "templates", "rules"} THEN x.target - 1 ELSE x.target

(* Of the documents before n the last to overwrite a file has made it.     *)
Made(plan, n, o, fs, ts, d, r) ==
  \A k \in 1 .. n - 1 :
    /\ plan[k].path \in DOMAIN o
    /\ /\ plan[k].overwrites
       /\ \A j \in k + 1 .. n - 1 : plan[j].path = plan[k].path => ~plan[j].overwrites
       => o[plan[k].path] = Desired(fs, ts, d, r, plan[k])

ReadyAt(fs, ts, d, r, k) ==
  \A t \in 1 .. k : /\ r \in Held => d[t] # Nothing
                    /\ ts[TargetAt(fs, ts, d, r, t).dir] \in Versions

(* What it has found of the next document's file is still so.              *)
Looked(x, o) ==
  x.at # "check" =>
    LET job == x.plan[x.next]
    IN /\ ~(x.forced \/ Targets[x.target].force)
       /\ x.at = "create" <=> job.path \notin DOMAIN o
       /\ x.at = "replace" => o[job.path] # Rendered(job, x.version, x.system)

Course(x, d, fs, ts, o, r) ==
  /\ \A t \in DOMAIN Targets : d[t] # Nothing => d[t] = TargetAt(fs, ts, d, r, t)
  /\ Looked(x, o)
  /\ x.pc # "idle" \/ x.ok = TRUE =>
       /\ ReadyAt(fs, ts, d, r, Planned(x))
       /\ x.plan = Upto(fs, ts, d, r, x.forced, Planned(x))
       /\ Made(x.plan, x.next, o, fs, ts, d, r)
       /\ x.pc \in {"templates", "rules", "write"} => x.system = SystemAt(fs, d[x.target])
       /\ x.pc \in {"rules", "write"} => x.version = ts[d[x.target].dir]
       /\ x.pc = "idle" => x.target = Len(Targets) /\ x.next = Len(x.plan) + 1

(* A document that is the only one for its file has made it.               *)
Steady(plan, o, fs, ts, d, r) ==
  \A i \in DOMAIN plan :
    ~plan[i].raw /\ (\A j \in DOMAIN plan : j # i => plan[j].path # plan[i].path) =>
      /\ plan[i].path \in DOMAIN o
      /\ plan[i].overwrites => o[plan[i].path] = Desired(fs, ts, d, r, plan[i])

Shared(plan, p) ==
  \E i \in DOMAIN plan : plan[i].path = p /\ (plan[i].raw \/ \E j \in DOMAIN plan :
                                                j # i /\ plan[j].path = p)

Repeat(x, d, fs, ts, o, r) ==
  LET plan == Upto(fs, ts, d, r, FALSE, Len(Targets))
  IN /\ ReadyAt(fs, ts, d, r, Len(Targets))
     /\ Steady(plan, o, fs, ts, d, r)
     /\ \A p \in x.written : Shared(plan, p)

Plain(x) == x.forced = FALSE /\ \A t \in DOMAIN Targets : ~Targets[t].force

Repeats(x) == x.again = TRUE /\ Plain(x) /\ (x.pc # "idle" \/ x.ok = TRUE)

QInv ==
  /\ \A r \in Runners : run[r].quiet = TRUE =>
       /\ \A q \in Runners \ {r} : run[q].pc = "idle"
       /\ Course(run[r], doc[r], file, tpl, out, r)
       /\ Repeats(run[r]) => Repeat(run[r], doc[r], file, tpl, out, r)
  /\ settled \in Runners =>
       run[settled].quiet = TRUE /\ run[settled].pc = "idle" /\ run[settled].ok = TRUE

LEMMA ReadyLemma ==
  ASSUME NEW r, NEW k
  PROVE  ReadyAt(file, tpl, doc[r], r, k) <=> ReadyTo(r, k)
BY DEF ReadyAt, ReadyTo, Ready

LEMMA DesiredAlike ==
  ASSUME NEW fs, NEW ts, NEW d, NEW r, NEW a, NEW b, Alike(a, b)
  PROVE  Desired(fs, ts, d, r, a) = Desired(fs, ts, d, r, b)
BY DEF Alike, Desired, Copied, Rendered

(* What a runner that reads its solution should do does not depend on what *)
(* it has computed.                                                        *)
LEMMA DocIrrelevant ==
  ASSUME NEW r, NEW d, NEW e, r \notin Held \/ d = e, NEW fs, NEW ts
  PROVE  /\ \A t : TargetAt(fs, ts, d, r, t) = TargetAt(fs, ts, e, r, t)
         /\ \A k : ReadyAt(fs, ts, d, r, k) <=> ReadyAt(fs, ts, e, r, k)
         /\ \A forced, k : Upto(fs, ts, d, r, forced, k) = Upto(fs, ts, e, r, forced, k)
         /\ \A job : Desired(fs, ts, d, r, job) = Desired(fs, ts, e, r, job)
<1>1. \A t : TargetAt(fs, ts, d, r, t) = TargetAt(fs, ts, e, r, t)
  BY DEF TargetAt
<1>2. \A k : ReadyAt(fs, ts, d, r, k) <=> ReadyAt(fs, ts, e, r, k)
  BY <1>1 DEF ReadyAt
<1>3. \A forced, t : PlanAt(fs, ts, d, r, forced, t) = PlanAt(fs, ts, e, r, forced, t)
  BY <1>1 DEF PlanAt
<1>4. \A forced, k : Upto(fs, ts, d, r, forced, k) = Upto(fs, ts, e, r, forced, k)
  <2> TAKE forced, k
  <2>1. Plans(fs, ts, d, r, forced, k) = Plans(fs, ts, e, r, forced, k)
    BY <1>3 DEF Plans
  <2> QED
    BY <2>1 DEF Upto
<1>5. \A job : Desired(fs, ts, d, r, job) = Desired(fs, ts, e, r, job)
  BY <1>1 DEF Desired
<1> QED
  BY <1>1, <1>2, <1>4, <1>5

LEMMA UptoNone ==
  ASSUME NEW fs, NEW ts, NEW d, NEW r, NEW forced
  PROVE  Upto(fs, ts, d, r, forced, 0) = <<>>
<1>1. Plans(fs, ts, d, r, forced, 0) = <<>>
  BY DEF Plans
<1> QED
  BY <1>1, FlattenEmpty DEF Upto

(* What a run by itself leaves is what a second one finds.                 *)
LEMMA SteadyLemma ==
  ASSUME IInv, NEW r \in Runners, Course(run[r], doc[r], file, tpl, out, r),
         run[r].pc = "idle", run[r].ok = TRUE
  PROVE  /\ ReadyAt(file, tpl, doc[r], r, Len(Targets))
         /\ Steady(Upto(file, tpl, doc[r], r, FALSE, Len(Targets)), out, file, tpl, doc[r], r)
<1> DEFINE x == run[r]
           n == Len(Targets)
           plan == Upto(file, tpl, doc[r], r, x.forced, n)
           U == Upto(file, tpl, doc[r], r, FALSE, n)
<1>1. /\ ReadyAt(file, tpl, doc[r], r, n) /\ x.plan = plan
      /\ Made(plan, Len(plan) + 1, out, file, tpl, doc[r], r)
  BY DEF Course, Planned
<1>2. n \in 0 .. n
  BY TargetsLemma
<1>3. Similar(U, plan)
  BY <1>1, <1>2, ReadyLemma, UptoSimilar
<1> HIDE DEF U, plan, n
<1>4. /\ Len(U) \in Nat /\ DOMAIN U = 1 .. Len(U) /\ Len(plan) = Len(U)
      /\ \A i \in 1 .. Len(U) : Alike(U[i], plan[i])
  BY <1>3, SequenceFacts DEF Similar
<1>5. ASSUME NEW i \in DOMAIN U, ~U[i].raw, \A j \in DOMAIN U : j # i => U[j].path # U[i].path
      PROVE  /\ U[i].path \in DOMAIN out
             /\ U[i].overwrites => out[U[i].path] = Desired(file, tpl, doc[r], r, U[i])
  <2>1. i \in 1 .. (Len(plan) + 1) - 1 /\ Alike(U[i], plan[i])
    BY <1>4
  <2>2. \A j \in i + 1 .. (Len(plan) + 1) - 1 : plan[j].path # plan[i].path
    <3> TAKE j \in i + 1 .. (Len(plan) + 1) - 1
    <3>1. j \in DOMAIN U /\ j # i
      BY <1>4
    <3>2. Alike(U[j], plan[j]) /\ U[j].path # U[i].path
      BY <1>4, <1>5, <3>1
    <3> QED
      BY <2>1, <3>2 DEF Alike
  <2>3. /\ plan[i].path \in DOMAIN out
        /\ plan[i].overwrites => out[plan[i].path] = Desired(file, tpl, doc[r], r, plan[i])
    BY <1>1, <2>1, <2>2 DEF Made
  <2>4. Desired(file, tpl, doc[r], r, U[i]) = Desired(file, tpl, doc[r], r, plan[i])
    BY <2>1, DesiredAlike
  <2> QED
    BY <2>1, <2>3, <2>4 DEF Alike
<1>6. Steady(U, out, file, tpl, doc[r], r)
  BY <1>5 DEF Steady
<1> QED
  BY <1>1, <1>6 DEF U, n

-----------------------------------------------------------------------------
(***************************************************************************)
(* Each step keeps it.                                                     *)
(***************************************************************************)
LEMMA InitQuiet == Init => QInv
<1> SUFFICES ASSUME Init PROVE QInv
  OBVIOUS
<1>1. \A r \in Runners : run[r].quiet = FALSE
  BY DEF Init, Idle
<1>2. settled \notin Runners
  BY SolutionAssumption DEF Init
<1> QED
  BY <1>1, <1>2 DEF QInv

LEMMA BeginQuiet ==
  ASSUME IInv, QInv, NEW r \in Runners, NEW pc \in {"read", "validate"}, NEW forced \in BOOLEAN,
         Begin(r, pc, forced), r \in Held => doc' = doc, r \notin Held => doc'[r] = NewDoc
  PROVE  QInv'
<1> DEFINE y == run'[r]
<1>1. DOMAIN run = Runners /\ DOMAIN Idle = Fields
  BY IdleLemma DEF IInv
<1>2. /\ file' = file /\ tpl' = tpl /\ out' = out
      /\ run[r].pc = "idle" /\ settled' = Nobody
      /\ \A q \in Runners \ {r} : run'[q].pc = run[q].pc /\ run'[q].quiet = FALSE
      /\ y.pc = pc /\ y.plan = <<>> /\ y.next = 1 /\ y.at = "check"
      /\ y.written = {} /\ y.forced = forced
      /\ y.again = (settled = r) /\ y.quiet = \A q \in Runners : ~Active(q)
  <2>1. /\ file' = file /\ tpl' = tpl /\ out' = out /\ run[r].pc = "idle" /\ settled' = Nobody
    BY DEF Begin, disk, Active
  <2> DEFINE new == [Idle EXCEPT !.pc = pc, !.forced = forced, !.again = (settled = r),
                                 !.quiet = \A q \in Runners : ~Active(q)]
             rs == [run EXCEPT ![r] = new]
  <2>2. run' = Disturbed(rs, r)
    BY DEF Begin
  <2>3. y = new /\ \A q \in Runners \ {r} : run'[q] = [run[q] EXCEPT !.quiet = FALSE]
    <3> HIDE DEF new
    <3> QED
      BY <1>1, <2>2 DEF Disturbed
  <2>4. \A q \in Runners \ {r} : run'[q].pc = run[q].pc /\ run'[q].quiet = FALSE
    <3> TAKE q \in Runners \ {r}
    <3>1. DOMAIN run[q] = Fields
      BY DEF IInv
    <3>2. [run[q] EXCEPT !.quiet = FALSE].pc = run[q].pc /\ [run[q] EXCEPT !.quiet = FALSE].quiet = FALSE
      BY <3>1 DEF Fields
    <3> QED
      BY <2>3, <3>2
  <2>5. /\ new.pc = pc /\ new.plan = <<>> /\ new.next = 1 /\ new.at = "check"
        /\ new.written = {} /\ new.forced = forced
        /\ new.again = (settled = r) /\ new.quiet = \A q \in Runners : ~Active(q)
    BY DEF Idle
  <2> QED
    BY <2>1, <2>3, <2>4, <2>5
<1>3. ASSUME y.quiet = TRUE
      PROVE  /\ \A q \in Runners \ {r} : run'[q].pc = "idle"
             /\ Course(y, doc'[r], file, tpl, out, r)
             /\ Repeats(y) => Repeat(y, doc'[r], file, tpl, out, r)
  <2> HIDE DEF y
  <2>1. \A q \in Runners \ {r} : run'[q].pc = "idle"
    BY <1>2, <1>3 DEF Active
  <2>2. \A t \in DOMAIN Targets : doc'[r][t] # Nothing =>
          doc'[r][t] = TargetAt(file, tpl, doc'[r], r, t)
    BY DEF NewDoc, TargetAt
  <2>3. Planned(y) = 0
    BY <1>2 DEF Planned
  <2>4. Course(y, doc'[r], file, tpl, out, r)
    BY <1>2, <2>2, <2>3, UptoNone DEF Course, Looked, ReadyAt, Made
  <2>5. ASSUME Repeats(y) PROVE Repeat(y, doc'[r], file, tpl, out, r)
    <3>1. run[r].quiet = TRUE /\ run[r].ok = TRUE /\ settled = r
      BY <1>2, <2>5 DEF Repeats, QInv
    <3>2. Course(run[r], doc[r], file, tpl, out, r)
      BY <3>1 DEF QInv
    <3> DEFINE U(d) == Upto(file, tpl, d, r, FALSE, Len(Targets))
    <3>3. /\ ReadyAt(file, tpl, doc[r], r, Len(Targets))
          /\ Steady(U(doc[r]), out, file, tpl, doc[r], r)
      BY <3>1, <3>2, <1>2, SteadyLemma
    <3>4. r \notin Held \/ doc[r] = doc'[r]
      OBVIOUS
    <3>5. /\ ReadyAt(file, tpl, doc'[r], r, Len(Targets))
          /\ U(doc'[r]) = U(doc[r])
          /\ \A job : Desired(file, tpl, doc[r], r, job) = Desired(file, tpl, doc'[r], r, job)
      <4>1. \A k : ReadyAt(file, tpl, doc[r], r, k) <=> ReadyAt(file, tpl, doc'[r], r, k)
        BY <3>4, DocIrrelevant
      <4>2. \A f, k : Upto(file, tpl, doc[r], r, f, k) = Upto(file, tpl, doc'[r], r, f, k)
        BY <3>4, DocIrrelevant
      <4>3. \A job : Desired(file, tpl, doc[r], r, job) = Desired(file, tpl, doc'[r], r, job)
        BY <3>4, DocIrrelevant
      <4> QED
        BY <3>3, <4>1, <4>2, <4>3
    <3> HIDE DEF U
    <3>6. Steady(U(doc'[r]), out, file, tpl, doc'[r], r)
      BY <3>3, <3>5 DEF Steady
    <3> QED
      BY <1>2, <3>5, <3>6 DEF Repeat, U
  <2> QED
    BY <2>1, <2>4, <2>5
<1>4. settled' \notin Runners
  BY <1>2, SolutionAssumption
<1> QED
  BY <1>2, <1>3, <1>4 DEF QInv

LEMMA ChangeQuiet ==
  ASSUME IInv, Change
  PROVE  QInv'
<1>1. \A r \in Runners : run'[r].quiet # TRUE
  BY DEF Change, IInv, Fields
<1>2. settled' \notin Runners
  BY SolutionAssumption DEF Change
<1> QED
  BY <1>1, <1>2 DEF QInv

(* A step of a run need only be looked at when no other is under way.      *)
LEMMA MoveQuiet ==
  ASSUME QInv, NEW r \in Runners, run[r].pc # "idle",
         \A q \in Runners \ {r} : run'[q] = run[q], run'[r].quiet = run[r].quiet,
         run[r].quiet = TRUE => Course(run'[r], doc'[r], file', tpl', out', r),
         run[r].quiet = TRUE /\ Repeats(run'[r]) => Repeat(run'[r], doc'[r], file', tpl', out', r),
         \/ settled' = settled \/ settled' = Nobody
         \/ settled' = r /\ run[r].quiet = TRUE /\ run'[r].pc = "idle" /\ run'[r].ok = TRUE
  PROVE  QInv'
<1>1. \A q \in Runners \ {r} : run[q].quiet # TRUE
  BY DEF QInv
<1>2. settled \notin Runners
  BY <1>1 DEF QInv
<1>3. ASSUME settled' \in Runners
      PROVE  run'[settled'].quiet = TRUE /\ run'[settled'].pc = "idle" /\ run'[settled'].ok = TRUE
  BY <1>2, <1>3, SolutionAssumption
<1>4. ASSUME NEW q \in Runners, run'[q].quiet = TRUE
      PROVE  /\ \A p \in Runners \ {q} : run'[p].pc = "idle"
             /\ Course(run'[q], doc'[q], file', tpl', out', q)
             /\ Repeats(run'[q]) => Repeat(run'[q], doc'[q], file', tpl', out', q)
  <2>1. q = r /\ run[r].quiet = TRUE
    BY <1>1, <1>4
  <2>2. \A p \in Runners \ {r} : run'[p].pc = "idle"
    BY <2>1 DEF QInv
  <2> QED
    BY <2>1, <2>2
<1> QED
  BY <1>3, <1>4 DEF QInv

(* Before a run writes it has not looked for any file.                     *)
LEMMA NotLooking ==
  ASSUME NEW x, NEW d, Position(x, d), ~(x.pc = "write" /\ x.next <= Len(x.plan)),
         NEW y, y.at = x.at, NEW o
  PROVE  Looked(y, o)
BY DEF Position, Looked

(* A step that leaves the plan and the disk as they are.                   *)
LEMMA CourseMove ==
  ASSUME NEW x, NEW y, NEW d, NEW fs, NEW ts, NEW o, NEW r,
         Course(x, d, fs, ts, o, r), x.pc # "idle", y.pc # "idle",
         Planned(y) = Planned(x), y.plan = x.plan, y.next = x.next, y.forced = x.forced,
         Looked(y, o),
         y.pc \in {"templates", "rules", "write"} => y.system = SystemAt(fs, d[y.target]),
         y.pc \in {"rules", "write"} => y.version = ts[d[y.target].dir]
  PROVE  Course(y, d, fs, ts, o, r)
BY DEF Course

LEMMA RepeatMove ==
  ASSUME NEW x, NEW y, NEW d, NEW fs, NEW ts, NEW o, NEW r,
         Repeats(x) => Repeat(x, d, fs, ts, o, r), x.pc # "idle",
         y.again = x.again, y.forced = x.forced, y.written = x.written
  PROVE  Repeats(y) => Repeat(y, d, fs, ts, o, r)
BY DEF Repeats, Plain, Repeat

LEMMA FailQuiet ==
  ASSUME IInv, QInv, NEW r \in Runners, run[r].pc # "idle", Fail(r),
         doc' = doc, file' = file, tpl' = tpl
  PROVE  QInv'
<1>1. DOMAIN run = Runners /\ DOMAIN run[r] = Fields
  BY DEF IInv
<1>2. /\ \A q \in Runners \ {r} : run'[q] = run[q]
      /\ run'[r].pc = "idle" /\ run'[r].ok = FALSE /\ run'[r].quiet = run[r].quiet
      /\ run'[r].at = "check" /\ settled' = settled
  BY <1>1 DEF Fail, Fields
<1>3. run[r].quiet = TRUE => Course(run'[r], doc'[r], file', tpl', out', r)
  BY <1>2 DEF QInv, Course, Looked
<1>4. ~Repeats(run'[r])
  BY <1>2 DEF Repeats
<1> QED
  BY <1>2, <1>3, <1>4, MoveQuiet

LEMMA ComputedQuiet ==
  ASSUME IInv, QInv, NEW r \in Runners, Uncomputed(r),
         NEW dir, dir = (IF tpl["local"] # "absent" THEN "local" ELSE "cache"), Computed(r, dir),
         file' = file, out' = out, tpl'["local"] = tpl["local"], tpl[dir] # "absent" => tpl' = tpl
  PROVE  QInv'
<1> DEFINE x == run[r]
           t == x.target
           new == [dir |-> dir, inputs |-> ExpandInputs(Current(r).inputs)]
<1>1. /\ x.pc \in {"read", "validate"} /\ doc[r][t] = Nothing /\ run' = run /\ settled' = settled
      /\ doc' = [doc EXCEPT ![r][t] = new]
  BY DEF Uncomputed, Computed
<1>2. t \in DOMAIN Targets /\ Position(x, doc[r]) /\ doc \in [Runners -> Docs]
  BY DEF IInv, Position
<1>3. doc'[r][t] = new /\ \A u \in DOMAIN Targets : u # t => doc'[r][u] = doc[r][u]
  <2> HIDE DEF new
  <2> QED
    BY <1>1, <1>2 DEF Docs
<1>4. r \notin Held => \A u : TargetAt(file', tpl', doc'[r], r, u) = TargetAt(file, tpl, doc[r], r, u)
  BY DEF TargetAt
<1>5. r \notin Held => new = TargetAt(file, tpl, doc[r], r, t)
  BY DEF TargetAt, ExpandInputs, ExpandAt, Current
<1> HIDE DEF new
<1>6. Planned(x) = 0
  BY <1>1 DEF Planned
<1>7. ASSUME x.quiet = TRUE PROVE Course(run'[r], doc'[r], file', tpl', out', r)
  <2>1. Course(x, doc[r], file, tpl, out, r)
    BY <1>7 DEF QInv
  <2>2. \A u \in DOMAIN Targets : doc'[r][u] # Nothing => doc'[r][u] = TargetAt(file', tpl', doc'[r], r, u)
    <3>1. CASE r \in Held
      BY <3>1 DEF TargetAt
    <3>2. CASE r \notin Held
      BY <3>2, <1>3, <1>4, <1>5, <2>1 DEF Course
    <3> QED
      BY <3>1, <3>2
  <2>3. x.plan = <<>>
    BY <1>1, <1>6, <2>1, UptoNone DEF Course
  <2>4. x.next = 1
    BY <1>1, <1>2, <2>3, EmptySequence DEF Position
  <2>5. run'[r] = x /\ x.pc # "idle" /\ x.pc \notin {"templates", "rules", "write"}
    BY <1>1
  <2>6. \A k \in 1 .. x.next - 1 : FALSE
    BY <2>4
  <2>7. Made(x.plan, x.next, out', file', tpl', doc'[r], r)
    BY <2>6 DEF Made
  <2>8. ReadyAt(file', tpl', doc'[r], r, 0)
    BY DEF ReadyAt
  <2>9. Upto(file', tpl', doc'[r], r, x.forced, 0) = <<>>
    BY UptoNone
  <2>10. Looked(x, out')
    BY <1>2, <2>5, NotLooking
  <2> HIDE DEF x
  <2> QED
    BY <1>6, <2>2, <2>3, <2>5, <2>7, <2>8, <2>9, <2>10 DEF Course
<1>8. ASSUME x.quiet = TRUE, Repeats(x) PROVE Repeat(x, doc'[r], file', tpl', out', r)
  <2>1. Repeat(x, doc[r], file, tpl, out, r)
    BY <1>8 DEF QInv
  <2>2. t \in 1 .. Len(Targets)
    BY <1>2, TargetsLemma
  <2>3. r \notin Held /\ tpl[TargetAt(file, tpl, doc[r], r, t).dir] \in Versions
    BY <1>1, <2>1, <2>2 DEF Repeat, ReadyAt
  <2>4. tpl[dir] # "absent"
    BY <2>3 DEF TargetAt, Versions
  <2>5. tpl' = tpl
    BY <2>4
  <2> DEFINE U(d) == Upto(file, tpl, d, r, FALSE, Len(Targets))
  <2>6. ReadyAt(file, tpl, doc[r], r, Len(Targets)) <=> ReadyAt(file, tpl, doc'[r], r, Len(Targets))
    <3>1. \A k : ReadyAt(file, tpl, doc[r], r, k) <=> ReadyAt(file, tpl, doc'[r], r, k)
      BY <2>3, DocIrrelevant
    <3> QED
      BY <3>1
  <2>7. U(doc[r]) = U(doc'[r])
    <3>1. \A f, k : Upto(file, tpl, doc[r], r, f, k) = Upto(file, tpl, doc'[r], r, f, k)
      BY <2>3, DocIrrelevant
    <3> QED
      BY <3>1
  <2>8. \A job : Desired(file, tpl, doc[r], r, job) = Desired(file, tpl, doc'[r], r, job)
    BY <2>3, DocIrrelevant
  <2> HIDE DEF U
  <2>9. /\ ReadyAt(file, tpl, doc[r], r, Len(Targets))
        /\ Steady(U(doc[r]), out, file, tpl, doc[r], r)
        /\ \A p \in x.written : Shared(U(doc[r]), p)
    BY <2>1 DEF Repeat, U
  <2>10. Steady(U(doc'[r]), out, file, tpl, doc'[r], r)
    BY <2>7, <2>8, <2>9 DEF Steady
  <2>11. /\ ReadyAt(file, tpl, doc'[r], r, Len(Targets))
         /\ \A p \in x.written : Shared(U(doc'[r]), p)
    BY <2>6, <2>7, <2>9
  <2> QED
    BY <2>5, <2>10, <2>11 DEF Repeat, U
<1> QED
  BY <1>1, <1>7, <1>8, MoveQuiet

LEMMA ComputeQuiet ==
  ASSUME IInv, QInv, NEW r \in Runners, Compute(r)
  PROVE  QInv'
BY ComputedQuiet DEF Compute, disk

LEMMA ComputeCachedQuiet ==
  ASSUME IInv, QInv, NEW r \in Runners, NEW v \in Versions, ComputeCached(r, v)
  PROVE  QInv'
<1>1. /\ Uncomputed(r) /\ tpl["local"] = "absent" /\ Computed(r, "cache")
      /\ file' = file /\ out' = out /\ tpl["cache"] \in {"absent", v} /\ tpl' = [tpl EXCEPT !["cache"] = v]
  BY DEF ComputeCached
<1>2. tpl \in [Places -> {"absent"} \cup Versions]
  BY DEF IInv, Disks
<1>3. tpl'["local"] = tpl["local"]
  BY <1>1, <1>2 DEF Places
<1>4. tpl["cache"] # "absent" => tpl' = tpl
  BY <1>1, <1>2 DEF Places
<1> QED
  BY <1>1, <1>3, <1>4, ComputedQuiet

LEMMA ValidateQuiet ==
  ASSUME IInv, QInv, NEW r \in Runners, Validate(r)
  PROVE  QInv'
<1> DEFINE x == run[r]
           y == run'[r]
<1>1. /\ doc' = doc /\ file' = file /\ tpl' = tpl /\ out' = out
      /\ x.pc \in {"read", "validate"} /\ DOMAIN run = Runners /\ DOMAIN x = Fields
  BY DEF Validate, disk, IInv
<1>2. CASE Fail(r)
  BY <1>1, <1>2, FailQuiet
<1>3. CASE run' = AfterValidate(r) /\ settled' = settled
  <2>1. \A pc, t : /\ \A q \in Runners \ {r} : Goto(r, pc, t)[q] = run[q]
                   /\ Goto(r, pc, t)[r].pc = pc /\ Goto(r, pc, t)[r].target = t
                   /\ Goto(r, pc, t)[r].forced = x.forced /\ Goto(r, pc, t)[r].quiet = x.quiet
                   /\ Goto(r, pc, t)[r].plan = x.plan /\ Goto(r, pc, t)[r].next = x.next
                   /\ Goto(r, pc, t)[r].at = x.at
                   /\ Goto(r, pc, t)[r].again = x.again /\ Goto(r, pc, t)[r].written = x.written
    BY <1>1 DEF Goto, Fields
  <2>2. PICK pc, t : run' = Goto(r, pc, t) /\ (pc \in {"read", "validate"} \/ (pc = "parse" /\ t = 1))
    <3>1. CASE x.target < Len(Targets)
      <4>1. run' = Goto(r, x.pc, x.target + 1)
        BY <1>3, <3>1 DEF AfterValidate
      <4> QED
        BY <1>1, <4>1
    <3>2. CASE ~(x.target < Len(Targets)) /\ x.pc = "read"
      <4>1. run' = Goto(r, "validate", 1)
        BY <1>3, <3>2 DEF AfterValidate
      <4> QED
        BY <4>1
    <3>3. CASE ~(x.target < Len(Targets)) /\ x.pc # "read"
      <4>1. run' = Goto(r, "parse", 1)
        BY <1>3, <3>3 DEF AfterValidate
      <4> QED
        BY <4>1
    <3> QED
      BY <3>1, <3>2, <3>3
  <2>3. /\ \A q \in Runners \ {r} : run'[q] = run[q]
        /\ y.pc = pc /\ y.target = t /\ y.forced = x.forced /\ y.quiet = x.quiet
        /\ y.plan = x.plan /\ y.next = x.next /\ y.again = x.again /\ y.written = x.written
        /\ y.at = x.at
    BY <2>1, <2>2
  <2> HIDE DEF y
  <2>4. Planned(x) = 0 /\ Planned(y) = 0
    BY <1>1, <2>2, <2>3 DEF Planned
  <2>5. x.quiet = TRUE => Course(y, doc[r], file, tpl, out, r)
    <3>1. x.quiet = TRUE => Course(x, doc[r], file, tpl, out, r)
      BY DEF QInv
    <3>2. x.pc # "idle" /\ y.pc # "idle" /\ y.pc \notin {"templates", "rules", "write"}
      BY <1>1, <2>2, <2>3
    <3>9. Looked(y, out)
      <4>1. Position(x, doc[r]) /\ ~(x.pc = "write" /\ x.next <= Len(x.plan)) /\ y.at = x.at
        BY <1>1, <2>3 DEF IInv, Writing
      <4> QED
        BY <4>1, NotLooking
    <3> HIDE DEF x
    <3> QED
      BY <2>3, <2>4, <3>1, <3>2, <3>9, CourseMove
  <2>6. x.quiet = TRUE => (Repeats(y) => Repeat(y, doc[r], file, tpl, out, r))
    <3>1. x.quiet = TRUE => (Repeats(x) => Repeat(x, doc[r], file, tpl, out, r))
      BY DEF QInv
    <3> HIDE DEF x
    <3> QED
      BY <1>1, <2>3, <3>1, RepeatMove
  <2> QED
    BY <1>1, <1>3, <2>3, <2>5, <2>6, MoveQuiet DEF y
<1> QED
  BY <1>2, <1>3 DEF Validate

LEMMA ParseInputsQuiet ==
  ASSUME IInv, QInv, NEW r \in Runners, ParseInputs(r)
  PROVE  QInv'
<1> DEFINE x == run[r]
           y == run'[r]
           parsed == Parsed(doc[r][x.target].inputs)
           system == [i \in DOMAIN parsed |-> <<parsed[i], file[parsed[i]]>>]
<1>1. /\ doc' = doc /\ file' = file /\ tpl' = tpl /\ out' = out
      /\ x.pc = "parse" /\ DOMAIN run = Runners /\ DOMAIN x = Fields
  BY DEF ParseInputs, disk, IInv
<1>2. CASE Fail(r)
  BY <1>1, <1>2, FailQuiet
<1>3. CASE run' = [run EXCEPT ![r].pc = "templates", ![r].system = system] /\ settled' = settled
  <2>1. system = SystemAt(file, doc[r][x.target])
    BY DEF SystemAt
  <2> HIDE DEF system
  <2>2. /\ \A q \in Runners \ {r} : run'[q] = run[q]
        /\ y.pc = "templates" /\ y.target = x.target /\ y.forced = x.forced /\ y.quiet = x.quiet
        /\ y.plan = x.plan /\ y.next = x.next /\ y.again = x.again /\ y.written = x.written
        /\ y.at = x.at
        /\ y.system = system
    BY <1>1, <1>3 DEF Fields
  <2> HIDE DEF y
  <2>3. Planned(y) = Planned(x)
    BY <1>1, <2>2 DEF Planned
  <2>4. x.quiet = TRUE => Course(y, doc[r], file, tpl, out, r)
    <3>1. x.quiet = TRUE => Course(x, doc[r], file, tpl, out, r)
      BY DEF QInv
    <3>2. x.pc # "idle" /\ y.pc # "idle" /\ y.pc \notin {"rules", "write"}
          /\ y.system = SystemAt(file, doc[r][y.target])
      BY <1>1, <2>1, <2>2
    <3>9. Looked(y, out)
      <4>1. Position(x, doc[r]) /\ ~(x.pc = "write" /\ x.next <= Len(x.plan)) /\ y.at = x.at
        BY <1>1, <2>2 DEF IInv, Writing
      <4> QED
        BY <4>1, NotLooking
    <3> HIDE DEF x
    <3> QED
      BY <2>2, <2>3, <3>1, <3>2, <3>9, CourseMove
  <2>5. x.quiet = TRUE => (Repeats(y) => Repeat(y, doc[r], file, tpl, out, r))
    <3>1. x.quiet = TRUE => (Repeats(x) => Repeat(x, doc[r], file, tpl, out, r))
      BY DEF QInv
    <3>2. x.pc # "idle"
      BY <1>1
    <3> HIDE DEF x
    <3> QED
      BY <2>2, <3>1, <3>2, RepeatMove
  <2> QED
    BY <1>1, <1>3, <2>2, <2>4, <2>5, MoveQuiet DEF y
<1> QED
  BY <1>2, <1>3 DEF ParseInputs

LEMMA ParseTemplatesDirQuiet ==
  ASSUME IInv, QInv, NEW r \in Runners, ParseTemplatesDir(r)
  PROVE  QInv'
<1> DEFINE x == run[r]
           y == run'[r]
           version == tpl[doc[r][x.target].dir]
<1>1. /\ doc' = doc /\ file' = file /\ tpl' = tpl /\ out' = out
      /\ x.pc = "templates" /\ DOMAIN run = Runners /\ DOMAIN x = Fields
  BY DEF ParseTemplatesDir, disk, IInv
<1>2. CASE Fail(r)
  BY <1>1, <1>2, FailQuiet
<1>3. CASE run' = [run EXCEPT ![r].pc = "rules", ![r].version = version] /\ settled' = settled
  <2> HIDE DEF version
  <2>2. /\ \A q \in Runners \ {r} : run'[q] = run[q]
        /\ y.pc = "rules" /\ y.target = x.target /\ y.forced = x.forced /\ y.quiet = x.quiet
        /\ y.plan = x.plan /\ y.next = x.next /\ y.again = x.again /\ y.written = x.written
        /\ y.at = x.at
        /\ y.system = x.system /\ y.version = version
    BY <1>1, <1>3 DEF Fields
  <2> HIDE DEF y
  <2>3. Planned(y) = Planned(x)
    BY <1>1, <2>2 DEF Planned
  <2>4. x.quiet = TRUE => Course(y, doc[r], file, tpl, out, r)
    <3>1. x.quiet = TRUE => Course(x, doc[r], file, tpl, out, r)
      BY DEF QInv
    <3>2. x.pc = "templates" /\ y.pc = "rules" /\ y.version = tpl[doc[r][y.target].dir]
      BY <1>1, <2>2 DEF version
    <3>3. x.quiet = TRUE => y.system = SystemAt(file, doc[r][y.target])
      BY <3>1, <3>2, <2>2 DEF Course
    <3>9. Looked(y, out)
      <4>1. Position(x, doc[r]) /\ ~(x.pc = "write" /\ x.next <= Len(x.plan)) /\ y.at = x.at
        BY <1>1, <2>2 DEF IInv, Writing
      <4> QED
        BY <4>1, NotLooking
    <3> HIDE DEF x
    <3> QED
      BY <2>2, <2>3, <3>1, <3>2, <3>3, <3>9, CourseMove
  <2>5. x.quiet = TRUE => (Repeats(y) => Repeat(y, doc[r], file, tpl, out, r))
    <3>1. x.quiet = TRUE => (Repeats(x) => Repeat(x, doc[r], file, tpl, out, r))
      BY DEF QInv
    <3>2. x.pc # "idle"
      BY <1>1
    <3> HIDE DEF x
    <3> QED
      BY <2>2, <3>1, <3>2, RepeatMove
  <2> QED
    BY <1>1, <1>3, <2>2, <2>4, <2>5, MoveQuiet DEF y
<1> QED
  BY <1>2, <1>3 DEF ParseTemplatesDir, Place

(* More documents change nothing for those that have been done.            *)
LEMMA MadeMore ==
  ASSUME NEW plan, NEW more, NEW n, IsSequence(plan), IsSequence(more), n = Len(plan) + 1,
         NEW fs, NEW ts, NEW d, NEW o, NEW r, Made(plan, n, o, fs, ts, d, r)
  PROVE  Made(plan \o more, n, o, fs, ts, d, r)
<1>1. Len(plan) \in Nat /\ Len(more) \in Nat
  BY SequenceFacts
<1>2. \A i \in 1 .. n - 1 : (plan \o more)[i] = plan[i]
  <2> TAKE i \in 1 .. n - 1
  <2>1. i \in 1 .. Len(plan) + Len(more) /\ i <= Len(plan)
    BY <1>1
  <2> QED
    BY <2>1, ConcatElements
<1>3. \A k \in 1 .. n - 1 : \A j \in k + 1 .. n - 1 : j \in 1 .. n - 1
  BY <1>1
<1> DEFINE all == plan \o more
<1>4. \A i \in 1 .. n - 1 : all[i] = plan[i]
  BY <1>2
<1> HIDE DEF all
<1>5. Made(all, n, o, fs, ts, d, r)
  BY <1>3, <1>4 DEF Made
<1> QED
  BY <1>5 DEF all

LEMMA ProcessRulesQuiet ==
  ASSUME IInv, QInv, NEW r \in Runners, ProcessRules(r)
  PROVE  QInv'
<1> DEFINE x == run[r]
           y == run'[r]
           t == x.target
           features == ReadRulesDoc(r)
           on == ComputeFeatures(features, Wanted(t)).on
           more == Plan(t, Forced(r), features, on, x.system)
<1>1. /\ doc' = doc /\ file' = file /\ tpl' = tpl /\ out' = out
      /\ x.pc = "rules" /\ DOMAIN run = Runners /\ DOMAIN x = Fields /\ Position(x, doc[r])
  BY DEF ProcessRules, disk, IInv
<1>2. CASE Fail(r)
  BY <1>1, <1>2, FailQuiet
<1>3. CASE /\ features # Nothing /\ ~ComputeFeatures(features, Wanted(t)).failed
           /\ run' = [run EXCEPT ![r].pc = "write", ![r].plan = @ \o more] /\ settled' = settled
  <2>1. /\ \A q \in Runners \ {r} : run'[q] = run[q]
        /\ y.pc = "write" /\ y.target = t /\ y.forced = x.forced /\ y.quiet = x.quiet
        /\ y.plan = x.plan \o more /\ y.next = x.next /\ y.again = x.again /\ y.written = x.written
        /\ y.at = x.at
        /\ y.system = x.system /\ y.version = x.version
    <3> HIDE DEF more
    <3> QED
      BY <1>1, <1>3 DEF Fields
  <2>2. /\ t \in DOMAIN Targets /\ doc[r][t] \in [dir : Places, inputs : Seq(Files)]
        /\ doc[r][t] # Nothing /\ x.next = Len(x.plan) + 1 /\ IsSequence(x.plan)
    BY <1>1 DEF Position, IInv, Docs
  <2>3. t \in 1 .. Len(Targets) /\ t \in Nat /\ t - 1 \in Nat /\ Len(Targets) \in Nat
    BY <2>2, TargetsLemma
  <2> DEFINE v == tpl[doc[r][t].dir]
  <2>4. v \in Versions /\ features = Template[v].features
    BY <1>3, <2>2 DEF ReadRulesDoc, Place, IInv, Disks
  <2>5. on = Needed(features, Wanted(t))
    <3>1. IsRules(features)
      BY <2>4, SolutionAssumption
    <3>2. ComputeFeatures(features, Wanted(t)).failed = FALSE
      BY <1>3 DEF ComputeFeatures
    <3> HIDE DEF features
    <3> QED
      BY <3>1, <3>2, ComputeCorrect
  <2> HIDE DEF on, y, features
  <2>6. x.quiet = TRUE => Course(y, doc[r], file, tpl, out, r)
    <3> SUFFICES ASSUME x.quiet = TRUE PROVE Course(y, doc[r], file, tpl, out, r)
      OBVIOUS
    <3>1. Course(x, doc[r], file, tpl, out, r)
      BY DEF QInv
    <3>2. /\ doc[r][t] = TargetAt(file, tpl, doc[r], r, t)
          /\ x.system = SystemAt(file, doc[r][t]) /\ x.version = v
      BY <1>1, <2>2, <3>1 DEF Course
    <3>3. Planned(x) = t - 1 /\ Planned(y) = t
      BY <1>1, <2>1 DEF Planned
    <3>4. /\ ReadyAt(file, tpl, doc[r], r, t - 1)
          /\ x.plan = Upto(file, tpl, doc[r], r, x.forced, t - 1)
          /\ Made(x.plan, x.next, out, file, tpl, doc[r], r)
      BY <1>1, <3>1, <3>3 DEF Course
    <3>5. ReadyAt(file, tpl, doc[r], r, t)
      <4>1. \A u \in 1 .. t : u = t \/ u \in 1 .. t - 1
        BY <2>3
      <4>2. (r \in Held => doc[r][t] # Nothing) /\ tpl[TargetAt(file, tpl, doc[r], r, t).dir] \in Versions
        BY <2>2, <2>4, <3>2
      <4> QED
        BY <3>4, <4>1, <4>2 DEF ReadyAt
    <3>6. more = PlanAt(file, tpl, doc[r], r, x.forced, t)
      BY <2>4, <2>5, <3>2 DEF PlanAt, PlanOf, Forced, Current
    <3>7. ReadyTo(r, t)
      BY <3>5, ReadyLemma
    <3>8. Upto(file, tpl, doc[r], r, x.forced, t) = x.plan \o more
      BY <2>3, <3>4, <3>6, <3>7, UptoStep
    <3>9. IsSequence(more)
      <4>1. Ready(r, t)
        BY <2>3, <3>7 DEF ReadyTo
      <4>2. IsPlan(PlanAt(file, tpl, doc[r], r, x.forced, t), t, x.forced \/ Targets[t].force)
        BY <2>2, <4>1, PlanAtLemma
      <4> QED
        BY <3>6, <4>2 DEF IsPlan
    <3> HIDE DEF more
    <3>10. Made(x.plan \o more, x.next, out, file, tpl, doc[r], r)
      BY <2>2, <3>4, <3>9, MadeMore
    <3>11. /\ y.pc = "write" /\ y.target = t /\ y.plan = x.plan \o more /\ y.next = x.next
           /\ y.forced = x.forced /\ y.system = SystemAt(file, doc[r][t]) /\ y.version = tpl[doc[r][t].dir]
      BY <2>1, <3>2
    <3>12. \A u \in DOMAIN Targets : doc[r][u] # Nothing => doc[r][u] = TargetAt(file, tpl, doc[r], r, u)
      BY <3>1 DEF Course
    <3>13. Looked(y, out)
      <4>1. Position(x, doc[r]) /\ x.pc # "write" /\ y.at = x.at
        BY <1>1, <2>1
      <4> QED
        BY <4>1, NotLooking
    <3> HIDE DEF x, t
    <3> QED
      BY <3>3, <3>5, <3>8, <3>10, <3>11, <3>12, <3>13 DEF Course
  <2>7. x.quiet = TRUE => (Repeats(y) => Repeat(y, doc[r], file, tpl, out, r))
    <3>1. x.quiet = TRUE => (Repeats(x) => Repeat(x, doc[r], file, tpl, out, r))
      BY DEF QInv
    <3>2. x.pc # "idle"
      BY <1>1
    <3> HIDE DEF x
    <3> QED
      BY <2>1, <3>1, <3>2, RepeatMove
  <2> QED
    BY <1>1, <1>3, <2>1, <2>6, <2>7, MoveQuiet DEF y
<1> QED
  BY <1>2, <1>3 DEF ProcessRules, Current

(* Once the next document has been dealt with.                             *)
LEMMA MadeAdvance ==
  ASSUME NEW plan, NEW n \in Nat \ {0}, NEW o, NEW o2, NEW fs, NEW ts, NEW d, NEW r,
         Made(plan, n, o, fs, ts, d, r),
         \A p \in DOMAIN o : p \in DOMAIN o2 /\ (p # plan[n].path => o2[p] = o[p]),
         plan[n].path \in DOMAIN o2,
         \/ /\ plan[n].overwrites \/ plan[n].path \notin DOMAIN o
            /\ o2[plan[n].path] = Desired(fs, ts, d, r, plan[n])
         \/ ~plan[n].overwrites /\ plan[n].path \in DOMAIN o /\ o2[plan[n].path] = o[plan[n].path]
  PROVE  Made(plan, n + 1, o2, fs, ts, d, r)
<1>1. ASSUME NEW k \in 1 .. (n + 1) - 1
      PROVE  /\ plan[k].path \in DOMAIN o2
             /\ /\ plan[k].overwrites
                /\ \A j \in k + 1 .. (n + 1) - 1 : plan[j].path = plan[k].path => ~plan[j].overwrites
                => o2[plan[k].path] = Desired(fs, ts, d, r, plan[k])
  <2>1. CASE k = n
    BY <2>1
  <2>2. CASE k # n
    <3>1. /\ k \in 1 .. n - 1 /\ n \in k + 1 .. (n + 1) - 1
          /\ \A j \in k + 1 .. n - 1 : j \in k + 1 .. (n + 1) - 1
      BY <1>1, <2>2
    <3>2. plan[k].path \in DOMAIN o
      BY <3>1 DEF Made
    <3>3. ASSUME plan[k].overwrites,
                 \A j \in k + 1 .. (n + 1) - 1 : plan[j].path = plan[k].path => ~plan[j].overwrites
          PROVE  o2[plan[k].path] = Desired(fs, ts, d, r, plan[k])
      <4>1. o[plan[k].path] = Desired(fs, ts, d, r, plan[k])
        BY <3>1, <3>3 DEF Made
      <4>2. plan[n].path = plan[k].path => ~plan[n].overwrites
        BY <3>1, <3>3
      <4> QED
        BY <3>2, <4>1, <4>2
    <3> QED
      BY <3>2, <3>3
  <2> QED
    BY <2>1, <2>2
<1> QED
  BY <1>1 DEF Made

(* A file that several documents are for may change.                       *)
LEMMA SteadyShared ==
  ASSUME NEW plan, NEW path, Shared(plan, path), NEW o, NEW o2, NEW fs, NEW ts, NEW d, NEW r,
         Steady(plan, o, fs, ts, d, r),
         \A p \in DOMAIN o : p \in DOMAIN o2 /\ (p # path => o2[p] = o[p])
  PROVE  Steady(plan, o2, fs, ts, d, r)
<1>1. ASSUME NEW i \in DOMAIN plan, ~plan[i].raw,
             \A j \in DOMAIN plan : j # i => plan[j].path # plan[i].path
      PROVE  /\ plan[i].path \in DOMAIN o2
             /\ plan[i].overwrites => o2[plan[i].path] = Desired(fs, ts, d, r, plan[i])
  <2>1. plan[i].path # path
    BY <1>1 DEF Shared
  <2>2. /\ plan[i].path \in DOMAIN o
        /\ plan[i].overwrites => o[plan[i].path] = Desired(fs, ts, d, r, plan[i])
    BY <1>1 DEF Steady
  <2> QED
    BY <2>1, <2>2
<1> QED
  BY <1>1 DEF Steady

(* The document at hand in a run by itself.                                *)
LEMMA JobLemma ==
  ASSUME IInv, QInv, NEW r \in Runners, Writing(r), run[r].quiet = TRUE
  PROVE  /\ run[r].next \in DOMAIN run[r].plan /\ run[r].next \in Nat \ {0}
         /\ Job(r).for = run[r].target
         /\ Forced(r) => Job(r).overwrites
         /\ Job(r).raw => Desired(file, tpl, doc[r], r, Job(r)) = Copied(Job(r).source, tpl[Place(r)])
         /\ ~Job(r).raw => Desired(file, tpl, doc[r], r, Job(r)) = Content(r)
<1> DEFINE x == run[r]
           job == Job(r)
<1>1. x.pc = "write" /\ x.next <= Len(x.plan) /\ Position(x, doc[r])
  BY DEF Writing, IInv
<1>2. IsSequence(x.plan) /\ x.next \in 1 .. Len(x.plan) + 1
  BY <1>1 DEF Position
<1>3. Len(x.plan) \in Nat /\ DOMAIN x.plan = 1 .. Len(x.plan)
  BY <1>2, SequenceFacts
<1>4. x.next \in DOMAIN x.plan /\ x.next \in Nat \ {0} /\ x.next \in x.next .. Len(x.plan)
  BY <1>1, <1>2, <1>3
<1>5. job.for = x.target
  BY <1>1, <1>4 DEF Position, Job
<1>6. Forced(r) => job.overwrites
  <2>1. Comes(job, x.forced \/ Targets[job.for].force)
    BY <1>1, <1>4 DEF Position, Job
  <2>2. Forced(r) = (x.forced \/ Targets[job.for].force)
    BY <1>5 DEF Forced, Current
  <2> QED
    BY <2>1, <2>2 DEF Comes
<1>7. /\ doc[r][x.target] = TargetAt(file, tpl, doc[r], r, x.target)
      /\ x.system = SystemAt(file, doc[r][x.target]) /\ x.version = tpl[doc[r][x.target].dir]
  <2>1. Course(x, doc[r], file, tpl, out, r)
    BY DEF QInv
  <2>2. x.target \in DOMAIN Targets /\ doc[r][x.target] # Nothing
    BY <1>1 DEF Position
  <2> QED
    BY <1>1, <2>1, <2>2 DEF Course
<1>8. /\ TargetAt(file, tpl, doc[r], r, job.for) = doc[r][x.target]
      /\ tpl[Place(r)] = tpl[doc[r][x.target].dir]
  BY <1>5, <1>7 DEF Place
<1> HIDE DEF job
<1>9. job.raw => Desired(file, tpl, doc[r], r, job) = Copied(job.source, tpl[Place(r)])
  BY <1>8 DEF Desired
<1>10. ~job.raw => Desired(file, tpl, doc[r], r, job) = Rendered(job, x.version, x.system)
  BY <1>7, <1>8 DEF Desired
<1> QED
  BY <1>4, <1>5, <1>6, <1>9, <1>10 DEF Content, job

(* Running again, a document that shares its file with no other finds it.  *)
LEMMA AgainLemma ==
  ASSUME IInv, QInv, NEW r \in Runners, Writing(r), run[r].quiet = TRUE, Repeats(run[r])
  PROVE  \/ Shared(Upto(file, tpl, doc[r], r, FALSE, Len(Targets)), Job(r).path)
         \/ /\ ~Forced(r) /\ ~Job(r).raw /\ Job(r).path \in DOMAIN out
            /\ Job(r).overwrites => out[Job(r).path] = Desired(file, tpl, doc[r], r, Job(r))
<1> DEFINE x == run[r]
           U == Upto(file, tpl, doc[r], r, FALSE, Len(Targets))
<1>1. /\ Repeat(x, doc[r], file, tpl, out, r) /\ Course(x, doc[r], file, tpl, out, r)
      /\ x.pc = "write" /\ x.forced = FALSE
  BY DEF QInv, Writing, Repeats, Plain
<1>2. x.target \in DOMAIN Targets
  BY DEF IInv, Position
<1>3. x.target \in 0 .. Len(Targets) /\ Len(Targets) \in 0 .. Len(Targets)
  BY <1>2, TargetsLemma
<1>4. ReadyTo(r, Len(Targets)) /\ Steady(U, out, file, tpl, doc[r], r)
  BY <1>1, ReadyLemma DEF Repeat
<1>5. x.plan = Upto(file, tpl, doc[r], r, FALSE, x.target)
  BY <1>1 DEF Course, Planned
<1>6. IsPrefixOf(Upto(file, tpl, doc[r], r, FALSE, x.target), U)
  BY <1>3, <1>4, UptoPrefix
<1> HIDE DEF U
<1>7. x.next \in DOMAIN U /\ U[x.next] = Job(r)
  <2>1. x.next \in DOMAIN x.plan
    BY JobLemma
  <2>2. /\ IsSequence(x.plan) /\ IsSequence(U) /\ Len(x.plan) <= Len(U)
        /\ \A i \in 1 .. Len(x.plan) : x.plan[i] = U[i]
    BY <1>5, <1>6 DEF IsPrefixOf
  <2>3. /\ Len(x.plan) \in Nat /\ DOMAIN x.plan = 1 .. Len(x.plan)
        /\ Len(U) \in Nat /\ DOMAIN U = 1 .. Len(U)
    BY <2>2, SequenceFacts
  <2> QED
    BY <2>1, <2>2, <2>3 DEF Job
<1>8. ~Forced(r)
  BY <1>1, <1>2 DEF Repeats, Plain, Forced, Current
<1>9. ASSUME ~Shared(U, Job(r).path)
      PROVE  /\ ~Job(r).raw /\ Job(r).path \in DOMAIN out
             /\ Job(r).overwrites => out[Job(r).path] = Desired(file, tpl, doc[r], r, Job(r))
  <2>1. ~U[x.next].raw /\ \A j \in DOMAIN U : j # x.next => U[j].path # U[x.next].path
    BY <1>7, <1>9 DEF Shared
  <2>2. /\ U[x.next].path \in DOMAIN out
        /\ U[x.next].overwrites => out[U[x.next].path] = Desired(file, tpl, doc[r], r, U[x.next])
    BY <1>4, <1>7, <2>1 DEF Steady
  <2> QED
    BY <1>7, <2>1, <2>2
<1> QED
  BY <1>8, <1>9 DEF U

(* A step that deals with the next document.                               *)
LEMMA DoneQuiet ==
  ASSUME IInv, QInv, NEW r \in Runners, Writing(r),
         doc' = doc, file' = file, tpl' = tpl, settled' = settled,
         \A q \in Runners \ {r} : run'[q] = run[q],
         run'[r].pc = run[r].pc, run'[r].target = run[r].target, run'[r].forced = run[r].forced,
         run'[r].system = run[r].system, run'[r].version = run[r].version,
         run'[r].plan = run[r].plan, run'[r].next = run[r].next + 1, run'[r].at = "check",
         run'[r].again = run[r].again, run'[r].quiet = run[r].quiet,
         run'[r].written \subseteq run[r].written \cup {Job(r).path},
         \A p \in DOMAIN out : p \in DOMAIN out' /\ (p # Job(r).path => out'[p] = out[p]),
         Job(r).path \in DOMAIN out',
         run[r].quiet = TRUE =>
           \/ /\ Job(r).overwrites \/ Job(r).path \notin DOMAIN out
              /\ out'[Job(r).path] = Desired(file, tpl, doc[r], r, Job(r))
           \/ /\ ~Job(r).overwrites /\ Job(r).path \in DOMAIN out
              /\ out'[Job(r).path] = out[Job(r).path],
         run[r].quiet = TRUE /\ Repeats(run[r]) =>
           \/ out' = out /\ run'[r].written = run[r].written
           \/ Shared(Upto(file, tpl, doc[r], r, FALSE, Len(Targets)), Job(r).path)
  PROVE  QInv'
<1> DEFINE x == run[r]
           y == run'[r]
           U == Upto(file, tpl, doc[r], r, FALSE, Len(Targets))
<1>1. x.pc = "write"
  BY DEF Writing
<1>2. ASSUME x.quiet = TRUE PROVE Course(y, doc[r], file, tpl, out', r)
  <2>1. Course(x, doc[r], file, tpl, out, r)
    BY <1>2 DEF QInv
  <2>2. x.next \in Nat \ {0} /\ Job(r) = x.plan[x.next]
    BY <1>2, JobLemma DEF Job
  <2>3. Made(x.plan, x.next, out, file, tpl, doc[r], r)
    BY <1>1, <2>1 DEF Course
  <2>4. \/ /\ x.plan[x.next].overwrites \/ x.plan[x.next].path \notin DOMAIN out
           /\ out'[x.plan[x.next].path] = Desired(file, tpl, doc[r], r, x.plan[x.next])
        \/ /\ ~x.plan[x.next].overwrites /\ x.plan[x.next].path \in DOMAIN out
           /\ out'[x.plan[x.next].path] = out[x.plan[x.next].path]
    BY <1>2, <2>2
  <2>5. /\ \A p \in DOMAIN out : p \in DOMAIN out' /\ (p # x.plan[x.next].path => out'[p] = out[p])
        /\ x.plan[x.next].path \in DOMAIN out'
    BY <2>2
  <2>6. Made(x.plan, x.next + 1, out', file, tpl, doc[r], r)
    <3> HIDE DEF x
    <3> QED
      BY <2>2, <2>3, <2>4, <2>5, MadeAdvance
  <2>7. Planned(y) = Planned(x)
    BY <1>1 DEF Planned
  <2>8. /\ y.pc = "write" /\ y.target = x.target /\ y.forced = x.forced /\ y.system = x.system
        /\ y.version = x.version /\ y.plan = x.plan /\ y.next = x.next + 1 /\ y.at = "check"
    BY <1>1
  <2>9. Looked(y, out')
    BY <2>8 DEF Looked
  <2> HIDE DEF x, y
  <2> QED
    BY <1>1, <2>1, <2>6, <2>7, <2>8, <2>9 DEF Course
<1>3. ASSUME x.quiet = TRUE, Repeats(y) PROVE Repeat(y, doc[r], file, tpl, out', r)
  <2>1. Repeats(x)
    BY <1>1, <1>3 DEF Repeats, Plain
  <2>2. Repeat(x, doc[r], file, tpl, out, r)
    BY <1>3, <2>1 DEF QInv
  <2>3. /\ ReadyAt(file, tpl, doc[r], r, Len(Targets)) /\ Steady(U, out, file, tpl, doc[r], r)
        /\ \A p \in x.written : Shared(U, p)
    BY <2>2 DEF Repeat
  <2>4. (out' = out /\ y.written = x.written) \/ Shared(U, Job(r).path)
    BY <1>3, <2>1
  <2> HIDE DEF U
  <2>5. CASE out' = out /\ y.written = x.written
    BY <2>3, <2>5 DEF Repeat, U
  <2>6. CASE Shared(U, Job(r).path)
    <3>1. Steady(U, out', file, tpl, doc[r], r)
      BY <2>3, <2>6, SteadyShared
    <3>2. \A p \in y.written : Shared(U, p)
      BY <2>3, <2>6
    <3> QED
      BY <2>3, <3>1, <3>2 DEF Repeat, U
  <2> QED
    BY <2>4, <2>5, <2>6
<1> QED
  BY <1>1, <1>2, <1>3, MoveQuiet

LEMMA PutQuiet ==
  ASSUME IInv, QInv, NEW r \in Runners, Writing(r), NEW content, Put(r, content),
         doc' = doc, file' = file, tpl' = tpl,
         run[r].quiet = TRUE =>
           /\ content = Desired(file, tpl, doc[r], r, Job(r))
           /\ Job(r).overwrites \/ Job(r).path \notin DOMAIN out,
         run[r].quiet = TRUE /\ Repeats(run[r]) =>
           Shared(Upto(file, tpl, doc[r], r, FALSE, Len(Targets)), Job(r).path)
  PROVE  QInv'
<1>1. CASE Fail(r)
  BY <1>1, FailQuiet DEF Writing
<1>2. CASE /\ out' = With(Job(r).path, content) /\ settled' = settled
           /\ run' = [run EXCEPT ![r].next = @ + 1, ![r].at = "check",
                                  ![r].written = @ \cup {Job(r).path}]
  <2>1. DOMAIN run = Runners /\ DOMAIN run[r] = Fields
    BY DEF IInv
  <2> DEFINE path == Job(r).path
             U == Upto(file, tpl, doc[r], r, FALSE, Len(Targets))
             want == Desired(file, tpl, doc[r], r, Job(r))
  <2>2. /\ \A q \in Runners \ {r} : run'[q] = run[q]
        /\ run'[r].pc = run[r].pc /\ run'[r].target = run[r].target /\ run'[r].forced = run[r].forced
        /\ run'[r].system = run[r].system /\ run'[r].version = run[r].version
        /\ run'[r].plan = run[r].plan /\ run'[r].next = run[r].next + 1 /\ run'[r].at = "check"
        /\ run'[r].again = run[r].again /\ run'[r].quiet = run[r].quiet
        /\ run'[r].written = run[r].written \cup {path}
    <3> HIDE DEF path
    <3> QED
      BY <1>2, <2>1 DEF Fields, path
  <2>3. /\ \A p \in DOMAIN out : p \in DOMAIN out' /\ (p # path => out'[p] = out[p])
        /\ path \in DOMAIN out' /\ out'[path] = content
    <3> HIDE DEF path
    <3> QED
      BY <1>2 DEF With, path
  <2>4. run[r].quiet = TRUE =>
          (Job(r).overwrites \/ path \notin DOMAIN out) /\ out'[path] = want
    BY <2>3
  <2>5. run[r].quiet = TRUE /\ Repeats(run[r]) => Shared(U, path)
    OBVIOUS
  <2> HIDE DEF want, U
  <2> QED
    BY <1>2, <2>2, <2>3, <2>4, <2>5, DoneQuiet DEF want, U
<1> QED
  BY <1>1, <1>2 DEF Put

LEMMA SkipQuiet ==
  ASSUME IInv, QInv, NEW r \in Runners, Writing(r), Skip(r),
         doc' = doc, file' = file, tpl' = tpl, Job(r).path \in DOMAIN out,
         run[r].quiet = TRUE /\ Job(r).overwrites =>
           out[Job(r).path] = Desired(file, tpl, doc[r], r, Job(r))
  PROVE  QInv'
<1>1. DOMAIN run = Runners /\ DOMAIN run[r] = Fields
  BY DEF IInv
<1>2. /\ \A q \in Runners \ {r} : run'[q] = run[q]
      /\ run'[r].pc = run[r].pc /\ run'[r].target = run[r].target /\ run'[r].forced = run[r].forced
      /\ run'[r].system = run[r].system /\ run'[r].version = run[r].version
      /\ run'[r].plan = run[r].plan /\ run'[r].next = run[r].next + 1 /\ run'[r].at = "check"
      /\ run'[r].again = run[r].again /\ run'[r].quiet = run[r].quiet
      /\ run'[r].written = run[r].written
      /\ out' = out /\ settled' = settled
  BY <1>1 DEF Skip, Fields
<1> QED
  BY <1>2, DoneQuiet

LEMMA CopyFileQuiet ==
  ASSUME IInv, QInv, NEW r \in Runners, CopyFile(r)
  PROVE  QInv'
<1>1. Writing(r) /\ Job(r).raw /\ doc' = doc /\ file' = file /\ tpl' = tpl
  BY DEF CopyFile
<1> DEFINE content == Copied(Job(r).source, tpl[Place(r)])
           U == Upto(file, tpl, doc[r], r, FALSE, Len(Targets))
<1>2. Fail(r) \/ Put(r, content)
  BY DEF CopyFile
<1>3. run[r].quiet = TRUE => content = Desired(file, tpl, doc[r], r, Job(r))
  BY <1>1, JobLemma
<1>4. Job(r).overwrites
  <2>1. Position(run[r], doc[r]) /\ run[r].pc = "write" /\ run[r].next <= Len(run[r].plan)
    BY <1>1 DEF IInv, Writing
  <2>2. Len(run[r].plan) \in Nat /\ DOMAIN run[r].plan = 1 .. Len(run[r].plan)
    BY <2>1, SequenceFacts DEF Position
  <2>3. run[r].next \in DOMAIN run[r].plan
    BY <2>1, <2>2 DEF Position
  <2>4. Comes(Job(r), run[r].forced \/ Targets[Job(r).for].force)
    BY <2>1, <2>3 DEF Position, Job
  <2> QED
    BY <1>1, <2>4 DEF Comes
<1>5. run[r].quiet = TRUE /\ Repeats(run[r]) => Shared(U, Job(r).path)
  BY <1>1, AgainLemma
<1> HIDE DEF content
<1>6. CASE Fail(r)
  BY <1>1, <1>6, FailQuiet DEF Writing
<1>7. CASE Put(r, content)
  BY <1>1, <1>3, <1>4, <1>5, <1>7, PutQuiet
<1> QED
  BY <1>2, <1>6, <1>7

(* A step that looks at the file of the next document.                     *)
LEMMA FoundQuiet ==
  ASSUME IInv, QInv, NEW r \in Runners, Writing(r), ~Forced(r),
         NEW at \in {"compare", "create", "replace"}, Found(r, at),
         doc' = doc, file' = file, tpl' = tpl,
         at = "create" <=> Job(r).path \notin DOMAIN out,
         at = "replace" => out[Job(r).path] # Content(r)
  PROVE  QInv'
<1> DEFINE x == run[r]
           y == run'[r]
<1>1. /\ \A q \in Runners \ {r} : run'[q] = run[q]
      /\ y.pc = x.pc /\ y.target = x.target /\ y.forced = x.forced /\ y.quiet = x.quiet
      /\ y.plan = x.plan /\ y.next = x.next /\ y.again = x.again /\ y.written = x.written
      /\ y.system = x.system /\ y.version = x.version /\ y.at = at
      /\ out' = out /\ settled' = settled
  BY DEF Found, IInv, Fields
<1>2. x.pc = "write"
  BY DEF Writing
<1>3. Looked(y, out)
  <2> DEFINE job == Job(r)
  <2>1. job = y.plan[y.next]
    BY <1>1 DEF Job
  <2>2. ~(y.forced \/ Targets[y.target].force)
    BY <1>1 DEF Forced, Current
  <2>3. Content(r) = Rendered(job, y.version, y.system)
    BY <1>1 DEF Content
  <2> HIDE DEF y, job
  <2>4. (y.at = "create" <=> job.path \notin DOMAIN out)
        /\ (y.at = "replace" => out[job.path] # Rendered(job, y.version, y.system))
    BY <1>1, <2>3 DEF job
  <2> QED
    BY <2>1, <2>2, <2>4 DEF Looked
<1> HIDE DEF y
<1>4. x.quiet = TRUE => Course(y, doc[r], file, tpl, out, r)
  <2> SUFFICES ASSUME x.quiet = TRUE PROVE Course(y, doc[r], file, tpl, out, r)
    OBVIOUS
  <2>1. Course(x, doc[r], file, tpl, out, r)
    BY DEF QInv
  <2>2. Planned(y) = Planned(x)
    BY <1>1 DEF Planned
  <2>3. y.system = SystemAt(file, doc[r][y.target]) /\ y.version = tpl[doc[r][y.target].dir]
    BY <1>1, <1>2, <2>1 DEF Course
  <2>4. x.pc # "idle" /\ y.pc # "idle"
    BY <1>1, <1>2
  <2> HIDE DEF x
  <2> QED
    BY <1>1, <1>3, <2>1, <2>2, <2>3, <2>4, CourseMove
<1>5. x.quiet = TRUE => (Repeats(y) => Repeat(y, doc[r], file, tpl, out, r))
  <2>1. x.quiet = TRUE => (Repeats(x) => Repeat(x, doc[r], file, tpl, out, r))
    BY DEF QInv
  <2>2. x.pc # "idle"
    BY <1>2
  <2> HIDE DEF x
  <2> QED
    BY <1>1, <2>1, <2>2, RepeatMove
<1> QED
  BY <1>1, <1>2, <1>4, <1>5, MoveQuiet DEF y

LEMMA RenderFileQuiet ==
  ASSUME IInv, QInv, NEW r \in Runners, RenderFile(r)
  PROVE  QInv'
<1> DEFINE job == Job(r)
           want == Desired(file, tpl, doc[r], r, job)
           U == Upto(file, tpl, doc[r], r, FALSE, Len(Targets))
<1>1. Writing(r) /\ ~job.raw /\ doc' = doc /\ file' = file /\ tpl' = tpl
  BY DEF RenderFile
<1>2. \/ Fail(r)
      \/ Forced(r) /\ Put(r, Content(r))
      \/ ~Forced(r) /\ job.path \notin DOMAIN out /\ Found(r, "create")
      \/ ~Forced(r) /\ job.path \in DOMAIN out /\ Found(r, "compare")
      \/ job.path \in DOMAIN out /\ ~job.overwrites /\ Skip(r)
  BY DEF RenderFile, WriteFile, Exists
<1>3. run[r].quiet = TRUE => Content(r) = want /\ (Forced(r) => job.overwrites)
  BY <1>1, JobLemma
<1>4. run[r].quiet = TRUE /\ Repeats(run[r]) => Shared(U, job.path) \/ ~Forced(r)
  BY <1>1, AgainLemma
<1>5. CASE Fail(r)
  BY <1>1, <1>5, FailQuiet DEF Writing
<1>6. CASE Forced(r) /\ Put(r, Content(r))
  BY <1>1, <1>3, <1>4, <1>6, PutQuiet
<1>7. CASE ~Forced(r) /\ job.path \notin DOMAIN out /\ Found(r, "create")
  BY <1>1, <1>7, FoundQuiet
<1>8. CASE ~Forced(r) /\ job.path \in DOMAIN out /\ Found(r, "compare")
  BY <1>1, <1>8, FoundQuiet
<1>9. CASE job.path \in DOMAIN out /\ ~job.overwrites /\ Skip(r)
  BY <1>1, <1>9, SkipQuiet
<1> QED
  BY <1>2, <1>5, <1>6, <1>7, <1>8, <1>9

(* A run by itself still finds what it found when it looked.               *)
LEMMA LookedLemma ==
  ASSUME QInv, NEW r \in Runners, run[r].quiet = TRUE, run[r].at # "check"
  PROVE  /\ ~Forced(r)
         /\ run[r].at = "create" <=> Job(r).path \notin DOMAIN out
         /\ run[r].at = "replace" => out[Job(r).path] # Content(r)
<1>1. Looked(run[r], out)
  BY DEF QInv, Course
<1> QED
  BY <1>1 DEF Looked, Forced, Current, Job, Content

LEMMA CompareQuiet ==
  ASSUME IInv, QInv, NEW r \in Runners, Compare(r)
  PROVE  QInv'
<1> DEFINE job == Job(r)
           same == job.path \in DOMAIN out /\ out[job.path] = Content(r)
<1>1. /\ Writing(r) /\ run[r].at = "compare" /\ doc' = doc /\ file' = file /\ tpl' = tpl
  BY DEF Compare
<1>2. Fail(r) \/ (same /\ Skip(r)) \/ (~same /\ Found(r, "replace"))
  BY DEF Compare, Exists
<1>3. ~job.raw
  BY <1>1 DEF IInv, Position, Job
<1>4. run[r].quiet = TRUE => Content(r) = Desired(file, tpl, doc[r], r, job)
  BY <1>1, <1>3, JobLemma
<1>5. CASE Fail(r)
  BY <1>1, <1>5, FailQuiet DEF Writing
<1>6. CASE same /\ Skip(r)
  <2>1. job.path \in DOMAIN out /\ out[job.path] = Content(r) /\ Skip(r)
    BY <1>6
  <2> HIDE DEF same
  <2> QED
    BY <1>1, <1>4, <2>1, SkipQuiet
<1>7. CASE ~same /\ Found(r, "replace")
  <2>1. CASE run[r].quiet = TRUE
    <3>1. ~Forced(r) /\ job.path \in DOMAIN out
      BY <1>1, <2>1, LookedLemma
    <3>2. out[job.path] # Content(r) /\ Found(r, "replace")
      BY <1>7, <3>1
    <3> QED
      BY <1>1, <3>1, <3>2, FoundQuiet
  <2>2. CASE run[r].quiet # TRUE
    <3>1. /\ \A q \in Runners \ {r} : run'[q] = run[q]
          /\ run'[r].quiet = run[r].quiet /\ settled' = settled
      BY <1>7 DEF Found, IInv, Fields
    <3> QED
      BY <1>1, <2>2, <3>1, MoveQuiet DEF Writing
  <2> QED
    BY <2>1, <2>2
<1> QED
  BY <1>2, <1>5, <1>6, <1>7

LEMMA WriteToOutputQuiet ==
  ASSUME IInv, QInv, NEW r \in Runners, WriteToOutput(r)
  PROVE  QInv'
<1> DEFINE job == Job(r)
           want == Desired(file, tpl, doc[r], r, job)
           U == Upto(file, tpl, doc[r], r, FALSE, Len(Targets))
<1>1. /\ Writing(r) /\ run[r].at \in {"create", "replace"} /\ Put(r, Content(r))
      /\ doc' = doc /\ file' = file /\ tpl' = tpl
  BY DEF WriteToOutput
<1>2. ~job.raw /\ (run[r].at = "replace" => job.overwrites)
  BY <1>1 DEF IInv, Position, Job
<1>3. run[r].quiet = TRUE => Content(r) = want
  BY <1>1, <1>2, JobLemma
<1>4. /\ run[r].quiet = TRUE => (run[r].at = "create" <=> job.path \notin DOMAIN out)
      /\ run[r].quiet = TRUE /\ run[r].at = "replace" => out[job.path] # Content(r)
  BY <1>1, LookedLemma
<1>5. run[r].quiet = TRUE => job.overwrites \/ job.path \notin DOMAIN out
  BY <1>1, <1>2, <1>4
<1>6. run[r].quiet = TRUE /\ Repeats(run[r]) => Shared(U, job.path)
  <2>1. run[r].quiet = TRUE /\ Repeats(run[r]) =>
          \/ Shared(U, job.path)
          \/ job.path \in DOMAIN out /\ (job.overwrites => out[job.path] = want)
    BY <1>1, AgainLemma
  <2> HIDE DEF U, want, job
  <2> QED
    BY <1>1, <1>2, <1>3, <1>4, <2>1
<1> QED
  BY <1>1, <1>3, <1>5, <1>6, PutQuiet

LEMMA NextTargetQuiet ==
  ASSUME IInv, QInv, NEW r \in Runners, NextTarget(r)
  PROVE  QInv'
<1> DEFINE x == run[r]
           y == run'[r]
<1>1. /\ x.pc = "write" /\ ~Writing(r) /\ doc' = doc /\ file' = file /\ tpl' = tpl /\ out' = out
      /\ DOMAIN run = Runners /\ DOMAIN x = Fields /\ Position(x, doc[r])
  BY DEF NextTarget, disk, IInv
<1>2. Len(x.plan) \in Nat /\ x.next = Len(x.plan) + 1
  <2>1. Len(x.plan) \in Nat /\ x.next \in 1 .. Len(x.plan) + 1
    BY <1>1, SequenceFacts DEF Position
  <2> QED
    BY <1>1, <2>1 DEF Writing
<1>3. x.target \in 1 .. Len(Targets) /\ Len(Targets) \in Nat
  BY <1>1, TargetsLemma DEF Position
<1>4. x.quiet = TRUE => Course(x, doc[r], file, tpl, out, r)
  BY DEF QInv
<1>5. x.quiet = TRUE => (Repeats(x) => Repeat(x, doc[r], file, tpl, out, r))
  BY DEF QInv
<1>6. CASE x.target < Len(Targets)
  <2>1. /\ \A q \in Runners \ {r} : run'[q] = run[q]
        /\ y.pc = "parse" /\ y.target = x.target + 1 /\ y.forced = x.forced /\ y.quiet = x.quiet
        /\ y.plan = x.plan /\ y.next = x.next /\ y.again = x.again /\ y.written = x.written
        /\ y.at = x.at
        /\ settled' = settled
    BY <1>1, <1>6 DEF NextTarget, Goto, Fields
  <2> HIDE DEF y
  <2>2. Planned(y) = Planned(x)
    <3>1. Planned(x) = x.target /\ Planned(y) = (x.target + 1) - 1
      BY <1>1, <2>1 DEF Planned
    <3> QED
      BY <1>3, <3>1
  <2>3. x.quiet = TRUE => Course(y, doc[r], file, tpl, out, r)
    <3>1. x.pc # "idle" /\ y.pc # "idle" /\ y.pc \notin {"templates", "rules", "write"}
      BY <1>1, <2>1
    <3>9. Looked(y, out)
      <4>1. Position(x, doc[r]) /\ ~(x.pc = "write" /\ x.next <= Len(x.plan)) /\ y.at = x.at
        BY <1>1, <2>1 DEF IInv, Writing
      <4> QED
        BY <4>1, NotLooking
    <3> HIDE DEF x
    <3> QED
      BY <1>4, <2>1, <2>2, <3>1, <3>9, CourseMove
  <2>4. x.quiet = TRUE => (Repeats(y) => Repeat(y, doc[r], file, tpl, out, r))
    <3>1. x.pc # "idle"
      BY <1>1
    <3> HIDE DEF x
    <3> QED
      BY <1>5, <2>1, <3>1, RepeatMove
  <2> QED
    BY <1>1, <2>1, <2>3, <2>4, MoveQuiet DEF y
<1>7. CASE ~(x.target < Len(Targets))
  <2>1. /\ \A q \in Runners \ {r} : run'[q] = run[q]
        /\ y.pc = "idle" /\ y.ok = TRUE /\ y.target = x.target /\ y.forced = x.forced
        /\ y.quiet = x.quiet /\ y.plan = x.plan /\ y.next = x.next /\ y.again = x.again
        /\ y.written = x.written /\ y.at = x.at
        /\ settled' = IF x.quiet THEN r ELSE Nobody
    BY <1>1, <1>7 DEF NextTarget, Fields
  <2>2. \/ settled' = Nobody
        \/ settled' = r /\ x.quiet = TRUE
    <3>2. CASE x.quiet
      BY <2>1, <3>2
    <3>3. CASE ~x.quiet
      BY <2>1, <3>3
    <3> QED
      BY <3>2, <3>3
  <2> HIDE DEF y
  <2>3. Planned(y) = Planned(x) /\ x.target = Len(Targets)
    BY <1>1, <1>3, <1>7, <2>1 DEF Planned
  <2>4. x.quiet = TRUE => Course(y, doc[r], file, tpl, out, r)
    <3>1. x.pc # "idle" /\ y.pc = "idle"
      BY <1>1, <2>1
    <3>9. Looked(y, out)
      <4>1. Position(x, doc[r]) /\ ~(x.pc = "write" /\ x.next <= Len(x.plan)) /\ y.at = x.at
        BY <1>1, <2>1 DEF Writing
      <4> QED
        BY <4>1, NotLooking
    <3> HIDE DEF x
    <3> QED
      BY <1>2, <1>4, <2>1, <2>3, <3>1, <3>9 DEF Course
  <2>5. x.quiet = TRUE => (Repeats(y) => Repeat(y, doc[r], file, tpl, out, r))
    <3>1. x.pc # "idle"
      BY <1>1
    <3> HIDE DEF x
    <3> QED
      BY <1>5, <2>1, <3>1, RepeatMove
  <2>6. y.quiet = x.quiet /\ y.pc = "idle" /\ y.ok = TRUE /\ x.pc # "idle"
    BY <1>1, <2>1
  <2> QED
    BY <1>1, <2>1, <2>2, <2>4, <2>5, <2>6, MoveQuiet DEF y
<1> QED
  BY <1>6, <1>7

LEMMA InstallFailsQuiet ==
  ASSUME IInv, QInv, NEW r \in Runners, InstallFails(r)
  PROVE  QInv'
BY FailQuiet DEF InstallFails, Uncomputed, disk

LEMMA RunSourceQuiet ==
  ASSUME IInv, QInv, NEW r \in Runners, NEW forced \in BOOLEAN, RunSource(r, forced)
  PROVE  QInv'
<1>1. r \in Sourced /\ Begin(r, "read", forced) /\ doc' = [doc EXCEPT ![r] = NewDoc]
  BY DEF RunSource
<1>2. r \notin Held
  BY <1>1, SolutionAssumption
<1>3. doc'[r] = NewDoc
  BY <1>1 DEF IInv
<1> QED
  BY <1>1, <1>2, <1>3, BeginQuiet

LEMMA RunDocQuiet ==
  ASSUME IInv, QInv, NEW r \in Runners, RunDoc(r)
  PROVE  QInv'
<1>1. r \in Held /\ Begin(r, "validate", FALSE) /\ doc' = doc
  BY DEF RunDoc
<1> QED
  BY <1>1, BeginQuiet

LEMMA RunnerStepQuiet ==
  ASSUME IInv, QInv, NEW r \in Runners, RunnerStep(r)
  PROVE  QInv'
<1>1. CASE Compute(r)
  BY <1>1, ComputeQuiet
<1>2. CASE \E v \in Versions : ComputeCached(r, v)
  BY <1>2, ComputeCachedQuiet
<1>3. CASE InstallFails(r)
  BY <1>3, InstallFailsQuiet
<1>4. CASE Validate(r)
  BY <1>4, ValidateQuiet
<1>5. CASE ParseInputs(r)
  BY <1>5, ParseInputsQuiet
<1>6. CASE ParseTemplatesDir(r)
  BY <1>6, ParseTemplatesDirQuiet
<1>7. CASE ProcessRules(r)
  BY <1>7, ProcessRulesQuiet
<1>8. CASE CopyFile(r)
  BY <1>8, CopyFileQuiet
<1>9. CASE RenderFile(r)
  BY <1>9, RenderFileQuiet
<1>10. CASE Compare(r)
  BY <1>10, CompareQuiet
<1>11. CASE WriteToOutput(r)
  BY <1>11, WriteToOutputQuiet
<1>12. CASE NextTarget(r)
  BY <1>12, NextTargetQuiet
<1> QED
  BY <1>1, <1>2, <1>3, <1>4, <1>5, <1>6, <1>7, <1>8, <1>9, <1>10, <1>11, <1>12 DEF RunnerStep

LEMMA NextQuiet == IInv /\ QInv /\ [Next]_vars => QInv'
<1> SUFFICES ASSUME IInv, QInv, [Next]_vars PROVE QInv'
  OBVIOUS
<1>1. CASE UNCHANGED vars
  BY <1>1 DEF vars, disk, bounds, QInv
<1>2. CASE \E r \in Runners, forced \in BOOLEAN : RunSource(r, forced)
  BY <1>2, RunSourceQuiet
<1>3. CASE \E r \in Runners : RunDoc(r) \/ RunnerStep(r)
  BY <1>3, RunDocQuiet, RunnerStepQuiet
<1>4. CASE Change
  BY <1>4, ChangeQuiet
<1>5. (\E f \in Files, v \in {"absent", "broken", "new"} : ChangeInput(f, v)) => Change
  BY DEF ChangeInput
<1>6. (\E p \in Places, v \in {"absent", "new"} : ChangeTemplate(p, v)) => Change
  BY DEF ChangeTemplate
<1>7. (\E p \in Outputs : EditOutput(p) \/ DeleteOutput(p)) => Change
  BY DEF EditOutput, DeleteOutput
<1> QED
  BY <1>1, <1>2, <1>3, <1>4, <1>5, <1>6, <1>7 DEF Next

LEMMA QuietCorrect == Spec => [](IInv /\ QInv)
<1>1. Init => IInv /\ QInv
  BY InitLemma, InitQuiet
<1>2. IInv /\ QInv /\ [Next]_vars => (IInv /\ QInv)'
  BY NextLemma, NextQuiet
<1> QED
  BY <1>1, <1>2, PTL DEF Spec

(***************************************************************************)
(* What the invariant says of a run that has ended, and of one that writes.*)
(***************************************************************************)
LEMMA CurrentLemma == IInv /\ QInv => CurrentAfterRun
<1> SUFFICES ASSUME IInv, QInv, NEW r \in Runners, AtRest(r)
    PROVE  LET plan == FlattenSeq([t \in DOMAIN Targets |-> NeededPlan(r, t)])
               last(p) == {i \in DOMAIN plan : plan[i].path = p /\ plan[i].overwrites /\
                             \A j \in DOMAIN plan : j > i /\ plan[j].path = p => ~plan[j].overwrites}
           IN \A k \in DOMAIN plan :
                /\ Exists(plan[k].path)
                /\ \A i \in last(plan[k].path) :
                     LET place == tpl[Target(r, plan[i].for).dir]
                     IN out[plan[i].path] =
                          IF plan[i].raw THEN Copied(plan[i].source, place)
                          ELSE Rendered(plan[i], place, System(r, plan[i].for))
  BY DEF CurrentAfterRun
<1> DEFINE x == run[r]
           plan == Upto(file, tpl, doc[r], r, x.forced, Len(Targets))
<1>1. x.quiet = TRUE /\ x.ok = TRUE /\ x.pc = "idle"
  BY DEF AtRest, Active
<1>2. Course(x, doc[r], file, tpl, out, r)
  BY <1>1 DEF QInv
<1>3. x.plan = plan /\ Made(plan, Len(plan) + 1, out, file, tpl, doc[r], r)
  BY <1>1, <1>2 DEF Course, Planned
<1>4. FlattenSeq([t \in DOMAIN Targets |-> NeededPlan(r, t)]) = plan
  <2>1. DOMAIN Targets = 1 .. Len(Targets)
    BY TargetsLemma
  <2>2. [t \in DOMAIN Targets |-> NeededPlan(r, t)] =
          Plans(file, tpl, doc[r], r, x.forced, Len(Targets))
    BY <2>1, AtLemma DEF Plans
  <2> QED
    BY <2>2 DEF Upto
<1>5. Len(plan) \in Nat /\ DOMAIN plan = 1 .. (Len(plan) + 1) - 1
  <2>1. IsSequence(x.plan)
    BY DEF IInv, Position
  <2>2. Len(plan) \in Nat /\ DOMAIN plan = 1 .. Len(plan)
    BY <1>3, <2>1, SequenceFacts
  <2> QED
    BY <2>2
<1> HIDE DEF plan
<1>6. ASSUME NEW k \in DOMAIN plan PROVE Exists(plan[k].path)
  BY <1>3, <1>5, <1>6 DEF Made, Exists
<1>7. ASSUME NEW i \in DOMAIN plan, plan[i].overwrites,
             \A j \in DOMAIN plan : j > i /\ plan[j].path = plan[i].path => ~plan[j].overwrites
      PROVE  out[plan[i].path] =
               LET place == tpl[Target(r, plan[i].for).dir]
               IN IF plan[i].raw THEN Copied(plan[i].source, place)
                  ELSE Rendered(plan[i], place, System(r, plan[i].for))
  <2>1. \A j \in i + 1 .. (Len(plan) + 1) - 1 : j \in DOMAIN plan /\ j > i
    BY <1>5
  <2>2. out[plan[i].path] = Desired(file, tpl, doc[r], r, plan[i])
    BY <1>3, <1>5, <1>7, <2>1 DEF Made
  <2>3. /\ TargetAt(file, tpl, doc[r], r, plan[i].for) = Target(r, plan[i].for)
        /\ SystemAt(file, TargetAt(file, tpl, doc[r], r, plan[i].for)) = System(r, plan[i].for)
    BY AtLemma
  <2> QED
    BY <2>2, <2>3 DEF Desired
<1> QED
  BY <1>4, <1>6, <1>7

LEMMA SecondLemma == IInv /\ QInv => SecondRunWritesNothing
<1> SUFFICES ASSUME IInv, QInv, NEW r \in Runners, AtRest(r), run[r].again, ~run[r].forced,
                    \A t \in DOMAIN Targets : ~Targets[t].force, NEW p \in run[r].written
    PROVE  \E i \in DOMAIN run[r].plan :
             LET job == run[r].plan[i]
             IN job.path = p /\ (job.raw \/ \E j \in DOMAIN run[r].plan :
                                   j # i /\ run[r].plan[j].path = p)
  BY DEF SecondRunWritesNothing
<1> DEFINE x == run[r]
           U == Upto(file, tpl, doc[r], r, FALSE, Len(Targets))
<1>1. /\ x.quiet = TRUE /\ x.ok = TRUE /\ x.pc = "idle" /\ x.again = TRUE
      /\ x.forced = FALSE
  <2>1. x.forced \in BOOLEAN
    BY DEF IInv, Position
  <2> QED
    BY <2>1 DEF AtRest, Active
<1>2. Course(x, doc[r], file, tpl, out, r)
  BY <1>1 DEF QInv
<1>3. Repeat(x, doc[r], file, tpl, out, r)
  BY <1>1 DEF QInv, Repeats, Plain
<1>4. x.plan = U
  BY <1>1, <1>2 DEF Course, Planned
<1>5. Shared(U, p)
  BY <1>3 DEF Repeat
<1> HIDE DEF U
<1> QED
  BY <1>4, <1>5 DEF Shared

(* A later feature of the same name decides what the templates are told.   *)
DistinctNames ==
  \A v \in Versions : \A i, j \in DOMAIN Template[v].features :
    i # j => Template[v].features[i].name # Template[v].features[j].name

(* FeatureNamesMap names what is enabled.                                  *)
LEMMA ToldLemma ==
  ASSUME DistinctNames, NEW v \in Versions, NEW wanted
  PROVE  LET features == Template[v].features
             on == Needed(features, wanted)
         IN FeatureNamesMap(features, on) = {features[k].name : k \in on}
<1> DEFINE features == Template[v].features
           on == Needed(features, wanted)
<1>1. IsRules(features)
  BY SolutionAssumption
<1>2. Len(features) \in Nat /\ DOMAIN features = 1 .. Len(features)
  BY <1>1, SequenceFacts DEF IsRules
<1>3. \A i, j \in DOMAIN features : i # j => features[i].name # features[j].name
  BY DEF DistinctNames
<1> HIDE DEF features
<1>4. \A name : FeatureByName(features, name) # 0 =>
        FeatureByName(features, name) \in DOMAIN features
  BY <1>1, FeatureByNameLemma DEF IsRules
<1>5. \A i \in DOMAIN features : FeatureByName(features, features[i].name) # 0
  <2> TAKE i \in DOMAIN features
  <2> DEFINE I == {j \in 1 .. Len(features) : features[j].name = features[i].name}
  <2>1. FeatureByName(features, features[i].name) = IF I # {} THEN Min(I) ELSE 0
    BY DEF FeatureByName, SelectInSeq
  <2>2. I # {} /\ I \in SUBSET Nat /\ 0 \notin I
    BY <1>2
  <2> HIDE DEF I
  <2>3. PICK n \in I : \A m \in I : n <= m
    BY <2>2, LeastNat
  <2>4. Min(I) \in I
    BY <2>3 DEF Min
  <2> QED
    BY <2>1, <2>2, <2>4
<1>6. on \subseteq DOMAIN features
  BY <1>4, <1>5 DEF Needed
<1> HIDE DEF on
<1>7. {j \in on : \A k \in DOMAIN features : k > j => features[k].name # features[j].name} = on
  BY <1>2, <1>3, <1>6
<1>8. FeatureNamesMap(features, on) = {features[k].name : k \in on}
  BY <1>7 DEF FeatureNamesMap
<1> QED
  BY <1>8 DEF features, on

LEMMA PlanTold ==
  ASSUME NEW t, NEW forced, NEW features, NEW on, NEW system,
         NEW i \in DOMAIN Plan(t, forced, features, on, system)
  PROVE  Plan(t, forced, features, on, system)[i].told = FeatureNamesMap(features, on)
<1> DEFINE documents == Documents(features, on, [j \in DOMAIN system |-> Symbols[system[j][1]]])
           entry(d) == [feature |-> d.feature, source |-> d.source, raw |-> d.raw, context |-> d.context,
                 path |-> <<Targets[t].output, d.target[1], d.target[2]>>,
                 overwrites |-> forced \/ d.raw \/ ~d.preserve,
                 told |-> FeatureNamesMap(features, on), for |-> t]
<1>1. Plan(t, forced, features, on, system) = [j \in DOMAIN documents |-> entry(documents[j])]
  BY DEF Plan
<1>2. \A d : entry(d).told = FeatureNamesMap(features, on)
  OBVIOUS
<1> HIDE DEF documents, entry
<1> QED
  BY <1>1, <1>2

LEMMA ExactlyLemma ==
  ASSUME DistinctNames, IInv, QInv
  PROVE  ExactlyNeeded
<1> SUFFICES ASSUME NEW r \in Runners, run[r].pc = "write", run[r].quiet
    PROVE  LET t == run[r].target
               mine == {i \in DOMAIN run[r].plan : run[r].plan[i].for = t}
               needed == NeededPlan(r, t)
           IN /\ {run[r].plan[i].feature : i \in mine} = {needed[i].feature : i \in DOMAIN needed}
              /\ \A i \in mine : run[r].plan[i].told =
                   {Template[tpl[Place(r)]].features[k].name :
                      k \in Needed(Template[tpl[Place(r)]].features, Wanted(t))}
  BY DEF ExactlyNeeded
<1> DEFINE x == run[r]
           t == x.target
           d == doc[r]
           before == Upto(file, tpl, d, r, x.forced, t - 1)
           needed == PlanAt(file, tpl, d, r, x.forced, t)
           plan == before \o needed
           mine == {i \in DOMAIN plan : plan[i].for = t}
           v == tpl[d[t].dir]
           features == Template[v].features
           names == {features[k].name : k \in Needed(features, Wanted(t))}
<1>1. x.quiet = TRUE /\ x.pc = "write"
  OBVIOUS
<1>2. /\ ReadyAt(file, tpl, d, r, t) /\ x.plan = Upto(file, tpl, d, r, x.forced, t)
      /\ \A u \in DOMAIN Targets : d[u] # Nothing => d[u] = TargetAt(file, tpl, d, r, u)
  BY <1>1 DEF QInv, Course, Planned
<1>3. t \in DOMAIN Targets /\ d[t] # Nothing
  BY <1>1 DEF IInv, Position
<1>4. t \in 1 .. Len(Targets) /\ t \in 1 .. t /\ t - 1 \in 0 .. Len(Targets)
      /\ \A u \in 1 .. t - 1 : u \in 1 .. t /\ u # t
  BY <1>3, TargetsLemma
<1>5. ReadyTo(r, t) /\ ReadyTo(r, t - 1) /\ Ready(r, t)
  BY <1>2, <1>4, ReadyLemma DEF ReadyTo
<1>6. x.plan = plan
  BY <1>2, <1>4, <1>5, UptoStep
<1>7. IsSequence(before) /\ \A i \in DOMAIN before : before[i].for # t
  <2>1. IsSequence(before) /\ \A i \in DOMAIN before : before[i].for \in 1 .. t - 1
    BY <1>4, <1>5, UptoFacts
  <2> HIDE DEF before
  <2> QED
    BY <1>4, <2>1
<1>8. IsSequence(needed) /\ \A i \in DOMAIN needed : needed[i].for = t
  <2>1. IsPlan(needed, t, x.forced \/ Targets[t].force)
    BY <1>3, <1>5, PlanAtLemma
  <2> QED
    BY <2>1 DEF IsPlan
<1>9. v \in Versions /\ tpl[Place(r)] = v /\ d[t] = TargetAt(file, tpl, d, r, t)
  <2>1. d[t] = TargetAt(file, tpl, d, r, t)
    BY <1>2, <1>3
  <2>2. tpl[TargetAt(file, tpl, d, r, t).dir] \in Versions
    BY <1>4, <1>2 DEF ReadyAt
  <2> QED
    BY <2>1, <2>2 DEF Place
<1>10. \A i \in DOMAIN needed : needed[i].told = names
  <2>1. FeatureNamesMap(features, Needed(features, Wanted(t))) = names
    BY <1>9, ToldLemma
  <2>2. needed = Plan(t, x.forced \/ Targets[t].force, features,
                      Needed(features, Wanted(t)), SystemAt(file, d[t]))
    BY <1>9 DEF PlanAt, PlanOf
  <2> DEFINE on == Needed(features, Wanted(t))
             F == x.forced \/ Targets[t].force
             system == SystemAt(file, d[t])
  <2> HIDE DEF names, needed, features, on, F, system
  <2>3. needed = Plan(t, F, features, on, system) /\ FeatureNamesMap(features, on) = names
    BY <2>1, <2>2 DEF F, on, system
  <2>4. \A i \in DOMAIN Plan(t, F, features, on, system) :
          Plan(t, F, features, on, system)[i].told = FeatureNamesMap(features, on)
    BY PlanTold
  <2> QED
    BY <2>3, <2>4
<1> HIDE DEF before, needed, names
<1>11. /\ Len(before) \in Nat /\ DOMAIN before = 1 .. Len(before)
       /\ Len(needed) \in Nat /\ DOMAIN needed = 1 .. Len(needed)
       /\ DOMAIN plan = 1 .. Len(before) + Len(needed)
       /\ \A i \in 1 .. Len(before) + Len(needed) :
            plan[i] = IF i <= Len(before) THEN before[i] ELSE needed[i - Len(before)]
  <2>1. IsSequence(plan) /\ Len(plan) = Len(before) + Len(needed)
    BY <1>7, <1>8, ConcatElements
  <2>2. DOMAIN plan = 1 .. Len(plan)
    BY <2>1, SequenceFacts
  <2> QED
    BY <1>7, <1>8, <2>1, <2>2, ConcatElements, SequenceFacts
<1> HIDE DEF plan
<1>12. \A i \in mine : \E j \in DOMAIN needed : plan[i] = needed[j]
  <2> TAKE i \in mine
  <2>1. ~(i <= Len(before))
    BY <1>7, <1>11
  <2>2. i - Len(before) \in DOMAIN needed /\ plan[i] = needed[i - Len(before)]
    BY <1>11, <2>1
  <2> QED
    BY <2>2
<1>13. \A j \in DOMAIN needed : \E i \in mine : plan[i] = needed[j]
  <2> TAKE j \in DOMAIN needed
  <2>1. /\ Len(before) + j \in 1 .. Len(before) + Len(needed) /\ ~(Len(before) + j <= Len(before))
        /\ (Len(before) + j) - Len(before) = j
    BY <1>11
  <2>2. Len(before) + j \in DOMAIN plan /\ plan[Len(before) + j] = needed[j]
    BY <1>11, <2>1
  <2> QED
    BY <1>8, <2>2
<1> HIDE DEF mine
<1>14. {plan[i].feature : i \in mine} = {needed[i].feature : i \in DOMAIN needed}
  BY <1>12, <1>13
<1>15. \A i \in mine : plan[i].told = names
  BY <1>10, <1>12
<1>16. NeededPlan(r, t) = needed
  BY AtLemma DEF needed
<1>17. {i \in DOMAIN x.plan : x.plan[i].for = t} = mine
  BY <1>6 DEF mine
<1>18. {Template[tpl[Place(r)]].features[k].name :
          k \in Needed(Template[tpl[Place(r)]].features, Wanted(t))} = names
  BY <1>9 DEF names
<1>19. {x.plan[i].feature : i \in mine} =
         {NeededPlan(r, t)[i].feature : i \in DOMAIN NeededPlan(r, t)}
  BY <1>6, <1>14, <1>16
<1>20. \A i \in mine : x.plan[i].told = names
  BY <1>6, <1>15
<1> HIDE DEF features, v
<1> QED
  BY <1>17, <1>18, <1>19, <1>20, Zenon

(* After a run by itself the output is what the rules and inputs on disk   *)
(* ask for, whatever was there before.                                     *)
THEOREM CurrentCorrect == Spec => []CurrentAfterRun
BY QuietCorrect, CurrentLemma, PTL

(* A second run with nothing changed writes only what it copies and the    *)
(* files that several documents are for.                                   *)
THEOREM SecondRunCorrect == Spec => []SecondRunWritesNothing
BY QuietCorrect, SecondLemma, PTL

(* A run by itself processes the needed features, and tells the templates  *)
(* of exactly these, when no two features of a template share a name.      *)
THEOREM ExactlyCorrect ==
  ASSUME DistinctNames
  PROVE  Spec => []ExactlyNeeded
<1>1. IInv /\ QInv => ExactlyNeeded
  BY ExactlyLemma
<1> QED
  BY <1>1, QuietCorrect, PTL
===============================================================================
