--------------------------- MODULE TemplatesProofs ---------------------------
(***************************************************************************)
(* Proofs about Templates for any processes, templates and versions: the   *)
(* directory of a version holds the commit of its tag, but for those that  *)
(* are being checked out and those whose checkout failed (VersionCorrect); *)
(* every state has its types (TypeCorrect); an update that runs alone and  *)
(* succeeds is complete (UpdateCorrect).                                   *)
(***************************************************************************)
EXTENDS Templates, WellFoundedInduction, TLAPS

(* What the steps may rely on: each id has a directory, each process is    *)
(* somewhere, in some call.                                                *)
Shape ==
  /\ cache = [id \in Ids |-> cache[id]]
  /\ pc = [p \in Processes |-> pc[p]]
  /\ call = [p \in Processes |-> call[p]]

Pinned(id) ==
  cache[id] \in {id[2], Absent, Cloning} \/ id \in unpinned
    \/ \E p \in Processes : pc[p] = "checkout" /\ Id(p) = id

(* A step that leaves the cache alone, and no process out of a checkout,   *)
(* leaves the directories pinned.                                          *)
LEMMA PinnedStays ==
  ASSUME Shape, NEW id \in Ids, Pinned(id), cache'[id] = cache[id], unpinned \subseteq unpinned',
         \A p \in Processes : pc[p] = "checkout" => pc'[p] = "checkout" /\ call'[p] = call[p]
  PROVE  Pinned(id)'
BY DEF Pinned, Id

(* A step of a process that is not in a checkout and leaves the cache      *)
(* alone.                                                                  *)
LEMMA OtherStep ==
  ASSUME Shape, VersionIsItsTag, NEW p \in Processes, NEW from, pc[p] = from, from # "checkout",
         UNCHANGED <<cache, unpinned>>,
         NEW to, pc' = [pc EXCEPT ![p] = to],
         NEW next, call' = [call EXCEPT ![p] = next]
  PROVE  Shape' /\ VersionIsItsTag'
<1>1. Shape'
  BY DEF Shape
<1>2. \A q \in Processes : pc[q] = "checkout" => pc'[q] = "checkout" /\ call'[q] = call[q]
  BY DEF Shape
<1>3. \A id \in Ids : Pinned(id)'
  BY <1>2, PinnedStays DEF VersionIsItsTag, Pinned
<1>4. QED
  BY <1>1, <1>3 DEF VersionIsItsTag, Pinned

(* Initially there are no directories.                                     *)
LEMMA TemplatesInit == Init => Shape /\ VersionIsItsTag
BY DEF Init, Shape, VersionIsItsTag

(* A step of registry.Update and what it calls leaves the cache alone.     *)
LEMMA RegistrySteps ==
  ASSUME Shape, VersionIsItsTag, NEW p \in Processes, RegistryStep(p)
  PROVE  Shape' /\ VersionIsItsTag'
<1>1. UNCHANGED <<cache, unpinned>>
  BY DEF RegistryStep, EnsureDir, Load, RemoveDir, CloneRegistry, CloneRegistryFails, Fetch,
     FetchPanics, Exit, Save, remote, local, history
<1>2. call = [call EXCEPT ![p] = call[p]]
  BY DEF Shape
<1>3. \E to, next : pc' = [pc EXCEPT ![p] = to] /\ call' = [call EXCEPT ![p] = next]
  BY <1>2 DEF RegistryStep, EnsureDir, Load, RemoveDir, CloneRegistry, CloneRegistryFails, Fetch,
     FetchPanics, Exit, Save, Goto, Set, End, history
<1>4. pc[p] # "checkout"
  BY DEF RegistryStep, EnsureDir, Load, RemoveDir, CloneRegistry, CloneRegistryFails, Fetch,
     FetchPanics, Save, Goto, Set, End
<1>5. QED
  BY <1>1, <1>3, <1>4, OtherStep

(* Installing: what a process clones or pulls it is about to check out,    *)
(* and what it fails to check out is remembered.                           *)
LEMMA CacheSteps ==
  ASSUME Shape, VersionIsItsTag, NEW p \in Processes, CacheStep(p)
  PROVE  Shape' /\ VersionIsItsTag'
<1>1. CASE FixRepoId(p) \/ Exists(p) \/ Get(p) \/ PullFails(p)
  <2>1. UNCHANGED <<cache, unpinned>> /\ pc[p] # "checkout"
    BY <1>1 DEF FixRepoId, Exists, Get, PullFails, End, Goto, local, history
  <2>2. call = [call EXCEPT ![p] = call[p]]
    BY DEF Shape
  <2>3. \E to, next : pc' = [pc EXCEPT ![p] = to] /\ call' = [call EXCEPT ![p] = next]
    BY <1>1, <2>2 DEF FixRepoId, Exists, Get, PullFails, End, Goto, Set, history
  <2>4. QED
    BY <2>1, <2>3, OtherStep
<1>2. CASE Clone(p)
  <2>1. Shape'
    BY <1>2 DEF Clone, Goto, Shape
  <2>2. \A id \in Ids : Pinned(id)'
    BY <1>2, PinnedStays DEF Clone, Goto, Shape, VersionIsItsTag, Pinned, Id, history
  <2>3. QED
    BY <2>1, <2>2 DEF VersionIsItsTag, Pinned
<1>3. CASE Cloned(p) \/ Pull(p)
  <2>1. Shape' /\ pc'[p] = "checkout" /\ Id(p)' = Id(p)
    BY <1>3 DEF Cloned, Pull, Goto, Shape, Id
  <2>2. \A id \in Ids : Pinned(id)'
    BY <1>3, <2>1, PinnedStays DEF Cloned, Pull, Goto, Shape, VersionIsItsTag, Pinned, history
  <2>3. QED
    BY <2>1, <2>2 DEF VersionIsItsTag, Pinned
<1>4. CASE CloneFails(p)
  <2>1. Shape'
    BY <1>4 DEF CloneFails, End, Goto, Shape
  <2>2. \A id \in Ids : Pinned(id)'
    BY <1>4 DEF CloneFails, End, Goto, Shape, VersionIsItsTag, Pinned, Id
  <2>3. QED
    BY <2>1, <2>2 DEF VersionIsItsTag, Pinned
<1>5. CASE CheckoutTag(p)
  <2>1. Shape'
    BY <1>5 DEF CheckoutTag, End, Goto, Shape
  <2>2. \A id \in Ids : Pinned(id)'
    BY <1>5 DEF CheckoutTag, End, Goto, Shape, VersionIsItsTag, Pinned, Id
  <2>3. QED
    BY <2>1, <2>2 DEF VersionIsItsTag, Pinned
<1>6. CASE CheckoutTagFails(p)
  <2>1. Shape'
    BY <1>6 DEF CheckoutTagFails, End, Goto, Shape, local
  <2>2. \A id \in Ids : Pinned(id)'
    BY <1>6 DEF CheckoutTagFails, End, Goto, Shape, VersionIsItsTag, Pinned, Id, local
  <2>3. QED
    BY <2>1, <2>2 DEF VersionIsItsTag, Pinned
<1>7. QED
  BY <1>1, <1>2, <1>3, <1>4, <1>5, <1>6 DEF CacheStep

(* The commands: a killed process leaves its directory as it is.           *)
LEMMA CommandSteps ==
  ASSUME Shape, VersionIsItsTag, CommandStep
  PROVE  Shape' /\ VersionIsItsTag'
<1>1. ASSUME NEW p \in Processes, NEW c, NEW start, Begin(p, c, start)
      PROVE  Shape' /\ VersionIsItsTag'
  <2>1. UNCHANGED <<cache, unpinned>> /\ pc[p] = "idle"
    BY <1>1 DEF Begin, Goto, local
  <2>2. QED
    BY <1>1, <2>1, OtherStep DEF Begin, Goto, Set
<1>2. ASSUME NEW p \in Processes, Exit(p)
      PROVE  Shape' /\ VersionIsItsTag'
  <2>1. Shape'
    BY <1>2 DEF Exit, Shape, local
  <2>2. \A id \in Ids : Pinned(id)'
    BY <1>2 DEF Exit, Shape, VersionIsItsTag, Pinned, Id, local
  <2>3. QED
    BY <2>1, <2>2 DEF VersionIsItsTag, Pinned
<1>6. ASSUME NEW p \in Processes, Start(p)
      PROVE  Shape' /\ VersionIsItsTag'
  <2>1. UNCHANGED <<cache, unpinned>> /\ pc[p] = "off" /\ call' = [call EXCEPT ![p] = call[p]]
    BY <1>6 DEF Start, Goto, history, Shape
  <2>2. QED
    BY <1>6, <2>1, OtherStep DEF Start, Goto
<1>3. ASSUME NEW i \in Ids, Remove(i)
      PROVE  Shape' /\ VersionIsItsTag'
  BY <1>3 DEF Remove, Shape, VersionIsItsTag, Id
<1>4. CASE Clean
  BY <1>4 DEF Clean, Shape, VersionIsItsTag, Id
<1>5. QED
  BY <1>1, <1>2, <1>3, <1>4, <1>6 DEF CommandStep, Update, GetOrInstall, Import

(* However many processes install, remove, clean and are killed, and       *)
(* whatever the network and the authors of the templates do, a directory   *)
(* whose last checkout was not interrupted holds its own version.          *)
THEOREM VersionCorrect == Spec => []VersionIsItsTag
<1>1. Init => Shape /\ VersionIsItsTag
  BY TemplatesInit
<1>2. Shape /\ VersionIsItsTag /\ [Next]_vars => Shape' /\ VersionIsItsTag'
  <2> SUFFICES ASSUME Shape, VersionIsItsTag, [Next]_vars
               PROVE  Shape' /\ VersionIsItsTag'
    OBVIOUS
  <2>2. ASSUME UNCHANGED <<cache, pc, call, unpinned>>
        PROVE  Shape' /\ VersionIsItsTag'
    <3>1. Shape'
      BY <2>2 DEF Shape
    <3>2. VersionIsItsTag'
      BY <2>2, Zenon DEF VersionIsItsTag, Id
    <3>3. QED
      BY <3>1, <3>2
  <2>3. CASE RemoteStep
    BY <2>2, <2>3 DEF RemoteStep, Push, Release, Publish, local
  <2>4. CASE UNCHANGED vars
    BY <2>2, <2>4 DEF vars, local, history
  <2>5. CASE CommandStep
    BY <2>5, CommandSteps
  <2>6. ASSUME NEW p \in Processes, RegistryStep(p) \/ CacheStep(p)
        PROVE  Shape' /\ VersionIsItsTag'
    BY <2>6, RegistrySteps, CacheSteps
  <2>7. QED
    BY <2>3, <2>4, <2>5, <2>6 DEF Next
<1>3. QED
  BY <1>1, <1>2, PTL DEF Spec
-----------------------------------------------------------------------------
(* A nonempty set of commits has a last one.                               *)
LEMMA LastCommit ==
  ASSUME NEW N \in Nat, NEW S \in SUBSET (1 .. N), S # {}
  PROVE  Max(S) \in S
<1> DEFINE T == {N - v : v \in S}
<1>0. \A v \in S : v \in Nat /\ v <= N
  OBVIOUS
<1>1. T \subseteq Nat /\ T # {}
  <2>1. \A v \in S : N - v \in Nat
    BY <1>0
  <2>2. \E v \in S : N - v \in T
    OBVIOUS
  <2> QED
    BY <2>1, <2>2
<1>2. IsWellFoundedOn(OpToRel(<, Nat), Nat)
  BY NatLessThanWellFounded
<1>3. PICK x \in T : \A y \in T : ~(<<y, x>> \in OpToRel(<, Nat))
  BY <1>1, <1>2, WFMin, Zenon
<1>4. \A y \in T : ~(y < x)
  BY <1>1, <1>3 DEF OpToRel
<1>5. PICK v \in S : x = N - v
  BY <1>3
<1>6. \A w \in S : v >= w
  <2> TAKE w \in S
  <2>1. N - w \in T
    OBVIOUS
  <2>2. ~(N - w < N - v)
    BY <1>4, <1>5, <2>1
  <2> QED
    BY <1>0, <1>5, <2>2
<1>7. \E m \in S : \A w \in S : m >= w
  BY <1>6
<1> QED
  BY <1>7, Zenon DEF Max

(* The latest version of a template is one of its versions.               *)
LEMMA LatestLemma ==
  ASSUME NEW n \in Names, tagged \in [Names -> SUBSET (1 .. MaxCommit)]
  PROVE  Latest(n) \in Versions
<1>1. tagged[n] \in SUBSET (1 .. MaxCommit) /\ MaxCommit \in Nat
  BY TemplatesAssumption
<1>2. tagged[n] # {} => Max(tagged[n]) \in tagged[n]
  BY <1>1, LastCommit
<1> QED
  BY <1>1, <1>2 DEF Latest, Versions

(* What a registry is.                                                     *)
LEMMA RegistryLemma ==
  /\ \A S \in SUBSET Names : \A r \in [S -> Versions] : r \in RegistryOf
  /\ \A r \in RegistryOf : /\ DOMAIN r \in SUBSET Names
                           /\ \A n \in DOMAIN r : r[n] \in Versions
  BY DEF RegistryOf
-----------------------------------------------------------------------------
Places == {"off", "idle", "ensure", "load", "reset", "clone", "fetch", "save",
           "fix", "exists", "get", "install", "cloning", "checkout"}

Updating == {"reset", "clone", "ensure", "load", "fetch", "save"}

Calls == [kind : {"none", "get", "update", "import"}, id : Ids,
          next : {"idle", "fix", "get", "fetch"}, lost : BOOLEAN]

Results == {"none", "ok", "failed"}

(* Which call, registry in memory and last result go with a place: a       *)
(* process has loaded a registry before it looks into it, and a command    *)
(* that ends its process, or has not begun, has none in memory.            *)
Fits(at, c, m, r) ==
  /\ at \notin {"off", "idle"} => c.kind # "none"
  /\ c.kind = "get" => c.next # "idle"
  /\ c.kind = "import" => at \in {"install", "cloning", "checkout"} /\ m = Nil
  /\ c.kind = "update" => at \in Updating /\ c.next = "fetch"
  /\ c.kind = "update" /\ at \notin {"fetch", "save"} => m = Nil
  /\ at \in {"fix", "get", "fetch", "save"} => m \in RegistryOf
  /\ at = "off" => m = Nil
  /\ at = "idle" /\ r = "none" => m = Nil

(* The types of what the processes share.                                  *)
World ==
  /\ head \in [Names -> 1 .. MaxCommit] /\ tagged \in [Names -> SUBSET (1 .. MaxCommit)]
  /\ published \in RegistryOf \cup {NoFile} /\ reg \in RegistryOf \cup {NoDir, Empty, NoFile}
  /\ cache \in [Ids -> (1 .. MaxCommit) \cup {Absent, Cloning}]
  /\ unpinned \subseteq Ids /\ fresh \subseteq Processes

Each ==
  /\ pc \in [Processes -> Places]
  /\ call \in [Processes -> Calls]
  /\ mem \in [Processes -> RegistryOf \cup {Nil}]
  /\ result \in [Processes -> Results]
  /\ \A p \in Processes : Fits(pc[p], call[p], mem[p], result[p])

IInv == World /\ Each

(* A call that has not begun.                                              *)
LEMMA NoCallLemma ==
  /\ NoCall \in Calls
  /\ NoCall.kind = "none" /\ NoCall.next = "idle"
<1>1. (CHOOSE n \in Names : TRUE) \in Names
  BY TemplatesAssumption
<1>2. 0 \in Versions
  BY TemplatesAssumption DEF Versions
<1> QED
  BY <1>1, <1>2 DEF NoCall, Calls, Ids

(* A step of one process that ends in a place that fits.                   *)
LEMMA ProcessStep ==
  ASSUME IInv, NEW p \in Processes,
         NEW at \in Places, NEW c \in Calls, NEW m \in RegistryOf \cup {Nil}, NEW r \in Results,
         pc' = [pc EXCEPT ![p] = at], call' = [call EXCEPT ![p] = c],
         mem' = [mem EXCEPT ![p] = m], result' = [result EXCEPT ![p] = r],
         Fits(at, c, m, r)
  PROVE  Each'
<1>1. /\ pc \in [Processes -> Places] /\ call \in [Processes -> Calls]
      /\ mem \in [Processes -> RegistryOf \cup {Nil}] /\ result \in [Processes -> Results]
      /\ \A q \in Processes : Fits(pc[q], call[q], mem[q], result[q])
  BY DEF IInv, Each
<1>2. /\ pc' \in [Processes -> Places] /\ call' \in [Processes -> Calls]
      /\ mem' \in [Processes -> RegistryOf \cup {Nil}] /\ result' \in [Processes -> Results]
  BY <1>1
<1>3. ASSUME NEW q \in Processes PROVE Fits(pc'[q], call'[q], mem'[q], result'[q])
  <2>1. CASE q = p
    BY <1>1, <2>1
  <2>2. CASE q # p
    <3>1. pc'[q] = pc[q] /\ call'[q] = call[q] /\ mem'[q] = mem[q] /\ result'[q] = result[q]
      BY <1>1, <2>2
    <3> QED
      BY <1>1, <3>1
  <2> QED
    BY <2>1, <2>2
<1> QED
  BY <1>2, <1>3 DEF Each

(* What the invariant says of one process.                                 *)
LEMMA OneState ==
  ASSUME IInv, NEW p \in Processes
  PROVE  /\ pc[p] \in Places /\ call[p] \in Calls /\ mem[p] \in RegistryOf \cup {Nil}
         /\ result[p] \in Results /\ Id(p) \in Ids
         /\ Fits(pc[p], call[p], mem[p], result[p])
         /\ call = [call EXCEPT ![p] = call[p]] /\ mem = [mem EXCEPT ![p] = mem[p]]
         /\ result = [result EXCEPT ![p] = result[p]]
<1>1. /\ pc \in [Processes -> Places] /\ call \in [Processes -> Calls]
      /\ mem \in [Processes -> RegistryOf \cup {Nil}] /\ result \in [Processes -> Results]
      /\ Fits(pc[p], call[p], mem[p], result[p])
  BY DEF IInv, Each
<1>2. call[p].id \in Ids
  BY <1>1 DEF Calls
<1> QED
  BY <1>1, <1>2 DEF Id

(* A process goes on to a place that fits.                                 *)
LEMMA MoveStep ==
  ASSUME IInv, NEW p \in Processes, NEW at \in Places, pc' = [pc EXCEPT ![p] = at],
         UNCHANGED <<call, mem, result>>, Fits(at, call[p], mem[p], result[p])
  PROVE  Each'
<1>1. /\ pc \in [Processes -> Places] /\ call \in [Processes -> Calls]
      /\ mem \in [Processes -> RegistryOf \cup {Nil}] /\ result \in [Processes -> Results]
      /\ \A q \in Processes : Fits(pc[q], call[q], mem[q], result[q])
  BY DEF IInv, Each
<1>2. pc' \in [Processes -> Places]
  BY <1>1
<1>3. \A q \in Processes : Fits(pc'[q], call[q], mem[q], result[q])
  <2> TAKE q \in Processes
  <2>1. CASE q = p
    BY <1>1, <2>1
  <2>2. CASE q # p
    <3>1. pc'[q] = pc[q]
      BY <1>1, <2>2
    <3> QED
      BY <1>1, <3>1
  <2> QED
    BY <2>1, <2>2
<1> QED
  BY <1>1, <1>2, <1>3 DEF Each

(* The end of a call.                                                      *)
LEMMA EndStep ==
  ASSUME IInv, NEW p \in Processes, NEW from, NEW how \in {"ok", "failed"}, End(p, from, how),
         from \notin {"off", "idle"},
         call[p].kind = "update" /\ from \in {"fetch", "save"} => mem'[p] = Nil,
         mem' = [mem EXCEPT ![p] = mem'[p]], mem'[p] \in {mem[p], Nil}
  PROVE  Each'
<1>1. /\ Fits(from, call[p], mem[p], result[p]) /\ call[p] \in Calls
      /\ mem[p] \in RegistryOf \cup {Nil}
  BY OneState DEF End, Goto
<1>2. /\ pc' = [pc EXCEPT ![p] = IF call[p].kind = "get" THEN "idle" ELSE "off"]
      /\ call' = [call EXCEPT ![p] = NoCall] /\ result' = [result EXCEPT ![p] = how]
  BY DEF End, Goto
<1>3. call[p].kind \in {"get", "update", "import"}
  BY <1>1 DEF Fits, Calls
<1>4. call[p].kind # "get" => mem'[p] = Nil
  BY <1>1, <1>3 DEF Fits
<1> DEFINE at == IF call[p].kind = "get" THEN "idle" ELSE "off"
<1>5. Fits(at, NoCall, mem'[p], how)
  BY <1>4, NoCallLemma DEF Fits
<1>6. at \in Places /\ how \in Results /\ mem'[p] \in RegistryOf \cup {Nil}
  BY <1>1 DEF Places, Results
<1>7. pc' = [pc EXCEPT ![p] = at]
  BY <1>2
<1> HIDE DEF at
<1> QED
  BY <1>2, <1>5, <1>6, <1>7, ProcessStep, NoCallLemma

(* A killed process.                                                       *)
LEMMA ExitStep ==
  ASSUME IInv, NEW p \in Processes, Exit(p)
  PROVE  IInv'
<1>1. Fits("off", NoCall, Nil, "none")
  BY NoCallLemma DEF Fits
<1>2. Each'
  BY <1>1, ProcessStep, NoCallLemma DEF Exit, Places, Results
<1>3. World'
  BY OneState DEF IInv, World, Exit, remote, local
<1> QED
  BY <1>2, <1>3 DEF IInv

(* registry.Update and what it calls.                                      *)
LEMMA RegistryTyped ==
  ASSUME IInv, NEW p \in Processes, RegistryStep(p)
  PROVE  IInv'
<1>a. /\ call[p] \in Calls /\ mem[p] \in RegistryOf \cup {Nil} /\ result[p] \in Results
      /\ Fits(pc[p], call[p], mem[p], result[p])
      /\ call = [call EXCEPT ![p] = call[p]] /\ mem = [mem EXCEPT ![p] = mem[p]]
      /\ result = [result EXCEPT ![p] = result[p]]
  BY OneState
<1>b. World
  BY DEF IInv
<1>1. CASE EnsureDir(p)
  <2>1. World'
    BY <1>b, <1>1 DEF EnsureDir, World, remote, history
  <2>2. Fits("load", call[p], mem[p], result[p])
    BY <1>a, <1>1 DEF EnsureDir, Goto, Fits, Updating
  <2>3. Each'
    BY <1>1, <2>2, MoveStep DEF EnsureDir, Goto, Places
  <2> QED
    BY <2>1, <2>3 DEF IInv
<1>2. CASE Load(p)
  <2>1. World'
    BY <1>b, <1>2 DEF Load, World, remote, local, history
  <2>2. pc[p] = "load" /\ result' = result
    BY <1>2 DEF Load
  <2>3. /\ call[p].kind \in {"get", "update"}
        /\ call[p].next \in {"fix", "get", "fetch"}
        /\ call[p].kind = "update" => call[p].next = "fetch" /\ mem[p] = Nil
    BY <1>a, <2>2 DEF Fits, Calls
  <2>4. CASE mem[p] # Nil \/ reg \notin {NoDir, Empty, NoFile}
    <3> DEFINE m == IF mem[p] # Nil THEN mem[p] ELSE reg
    <3>1. m \in RegistryOf
      BY <1>a, <1>b, <2>4 DEF World
    <3>2. /\ pc' = [pc EXCEPT ![p] = call[p].next]
          /\ mem' = [mem EXCEPT ![p] = m] /\ call' = call
      BY <1>2, <2>4 DEF Load, Goto
    <3> HIDE DEF m
    <3>3. Fits(call[p].next, call[p], m, result[p])
      BY <1>a, <2>3, <3>1 DEF Fits, Updating
    <3>4. /\ call[p].next \in Places
          /\ call' = [call EXCEPT ![p] = call[p]] /\ result' = [result EXCEPT ![p] = result[p]]
      BY <1>a, <2>2, <2>3, <3>2 DEF Places
    <3>5. Each'
      BY <1>a, <3>1, <3>2, <3>3, <3>4, ProcessStep
    <3> QED
      BY <2>1, <3>5 DEF IInv
  <2>5. CASE ~(mem[p] # Nil \/ reg \notin {NoDir, Empty, NoFile})
    <3> DEFINE c == [call[p] EXCEPT !.lost = TRUE, !.next = "fetch"]
    <3>1. c \in Calls /\ c.kind = call[p].kind /\ c.next = "fetch"
      BY <1>a DEF Calls
    <3>2. pc' = [pc EXCEPT ![p] = "reset"] /\ call' = [call EXCEPT ![p] = c] /\ mem' = mem
      BY <1>2, <2>5 DEF Load, Goto, Set
    <3> HIDE DEF c
    <3>3. Fits("reset", c, mem[p], result[p])
      BY <1>a, <2>3, <3>1 DEF Fits, Updating
    <3>4. /\ "reset" \in Places /\ mem' = [mem EXCEPT ![p] = mem[p]]
          /\ result' = [result EXCEPT ![p] = result[p]]
      BY <1>a, <2>2, <3>2 DEF Places
    <3>5. Each'
      BY <1>a, <3>1, <3>2, <3>3, <3>4, ProcessStep
    <3> QED
      BY <2>1, <3>5 DEF IInv
  <2> QED
    BY <2>4, <2>5
<1>3. CASE RemoveDir(p)
  <2>1. World'
    BY <1>b, <1>3 DEF RemoveDir, World, remote, history
  <2>2. Fits("clone", call[p], mem[p], result[p])
    BY <1>a, <1>3 DEF RemoveDir, Goto, Fits, Updating
  <2>3. Each'
    BY <1>3, <2>2, MoveStep DEF RemoveDir, Goto, Places
  <2> QED
    BY <2>1, <2>3 DEF IInv
<1>4. CASE CloneRegistry(p)
  <2>1. World'
    BY <1>b, <1>4 DEF CloneRegistry, World, remote, history
  <2>2. Fits("ensure", call[p], mem[p], result[p])
    BY <1>a, <1>4 DEF CloneRegistry, Goto, Fits, Updating
  <2>3. Each'
    BY <1>4, <2>2, MoveStep DEF CloneRegistry, Goto, Places
  <2> QED
    BY <2>1, <2>3 DEF IInv
<1>5. CASE CloneRegistryFails(p)
  <2>1. World'
    BY <1>b, <1>5 DEF CloneRegistryFails, World, remote, local, history
  <2>2. Each'
    BY <1>a, <1>5, EndStep DEF CloneRegistryFails
  <2> QED
    BY <2>1, <2>2 DEF IInv
<1>6. CASE Fetch(p)
  <2>1. World'
    BY <1>b, <1>6 DEF Fetch, World, remote, local, history
  <2> DEFINE m == [n \in DOMAIN mem[p] |-> Latest(n)]
  <2>2. mem[p] \in RegistryOf
    BY <1>a, <1>6 DEF Fetch, Goto, Fits
  <2>3. \A n \in DOMAIN mem[p] : Latest(n) \in Versions
    BY <1>b, <2>2, LatestLemma, RegistryLemma DEF World
  <2>4. m \in RegistryOf
    BY <2>2, <2>3, RegistryLemma
  <2>5. Fits("save", call[p], m, result[p])
    BY <1>a, <1>6, <2>4 DEF Fetch, Goto, Fits, Updating
  <2>6. /\ "save" \in Places /\ pc' = [pc EXCEPT ![p] = "save"]
        /\ call' = [call EXCEPT ![p] = call[p]] /\ result' = [result EXCEPT ![p] = result[p]]
        /\ mem' = [mem EXCEPT ![p] = m]
    BY <1>a, <1>6 DEF Fetch, Goto, Places
  <2> HIDE DEF m
  <2>7. Each'
    BY <1>a, <2>4, <2>5, <2>6, ProcessStep
  <2> QED
    BY <2>1, <2>7 DEF IInv
<1>7. CASE FetchPanics(p)
  BY <1>7, ExitStep DEF FetchPanics
<1>8. CASE Save(p)
  <2>1. pc[p] = "save" /\ mem[p] \in RegistryOf
    BY <1>a, <1>8 DEF Save, End, Goto, Fits
  <2>2. World'
    BY <1>b, <1>8, <2>1 DEF Save, World, remote, history
  <2>3. /\ mem' = [mem EXCEPT ![p] = IF call[p].kind = "update" THEN Nil ELSE mem[p]]
        /\ mem \in [Processes -> RegistryOf \cup {Nil}]
    BY <1>8 DEF Save, AfterSave, IInv, Each
  <2>4. /\ mem' = [mem EXCEPT ![p] = mem'[p]] /\ mem'[p] \in {mem[p], Nil}
        /\ call[p].kind = "update" => mem'[p] = Nil
    BY <2>3
  <2>5. \E how \in {"ok", "failed"} : End(p, "save", how)
    BY <1>8 DEF Save
  <2>6. Each'
    BY <2>4, <2>5, EndStep
  <2> QED
    BY <2>2, <2>6 DEF IInv
<1> QED
  BY <1>1, <1>2, <1>3, <1>4, <1>5, <1>6, <1>7, <1>8 DEF RegistryStep

(* What a process that installs knows of its call.                         *)
LEMMA Installing ==
  ASSUME IInv, NEW p \in Processes,
         pc[p] \in {"fix", "exists", "get", "install", "cloning", "checkout"}
  PROVE  /\ call[p].kind \in {"get", "import"}
         /\ call[p].kind = "import" => mem[p] = Nil
         /\ pc[p] \in {"fix", "exists", "get"} => call[p].kind = "get"
         /\ pc[p] \in {"fix", "get"} => mem[p] \in RegistryOf
         /\ call[p].kind = "get" => call[p].next # "idle"
<1>1. call[p] \in Calls /\ Fits(pc[p], call[p], mem[p], result[p])
  BY OneState
<1> QED
  BY <1>1 DEF Fits, Calls, Updating

(* A call that ends without touching what is in memory.                    *)
LEMMA PlainEnd ==
  ASSUME IInv, NEW p \in Processes, NEW from, NEW how \in {"ok", "failed"}, End(p, from, how),
         from \in {"fix", "exists", "get", "install", "cloning", "checkout"}, mem' = mem
  PROVE  Each'
<1>1. call[p].kind \in {"get", "import"}
  BY Installing DEF End, Goto
<1>2. mem = [mem EXCEPT ![p] = mem[p]]
  BY OneState
<1> QED
  BY <1>1, <1>2, EndStep

(* GetOrInstall and Install.                                               *)
LEMMA CacheTyped ==
  ASSUME IInv, NEW p \in Processes, CacheStep(p)
  PROVE  IInv'
<1>a. /\ call[p] \in Calls /\ mem[p] \in RegistryOf \cup {Nil} /\ result[p] \in Results
      /\ Id(p) \in Ids /\ mem = [mem EXCEPT ![p] = mem[p]]
      /\ result = [result EXCEPT ![p] = result[p]]
  BY OneState
<1>b. World
  BY DEF IInv
<1>c. Id(p)[1] \in Names /\ Id(p)[2] \in Versions
  BY <1>a DEF Ids
<1>1. CASE FixRepoId(p)
  <2>1. World'
    BY <1>b, <1>1 DEF FixRepoId, World, remote, local, history
  <2>2. pc[p] = "fix" /\ mem[p] \in RegistryOf /\ call[p].kind = "get" /\ mem' = mem
        /\ call[p].next # "idle"
    BY <1>1, Installing DEF FixRepoId
  <2>3. CASE Id(p)[1] \in DOMAIN mem[p]
    <3> DEFINE c == [call[p] EXCEPT !.id = <<Id(p)[1], mem[p][Id(p)[1]]>>]
    <3>1. <<Id(p)[1], mem[p][Id(p)[1]]>> \in Ids
      BY <1>c, <2>2, <2>3, RegistryLemma DEF Ids
    <3>2. c \in Calls /\ c.kind = "get" /\ c.next # "idle"
      BY <1>a, <2>2, <3>1 DEF Calls
    <3>3. /\ pc' = [pc EXCEPT ![p] = "exists"] /\ call' = [call EXCEPT ![p] = c]
          /\ mem' = [mem EXCEPT ![p] = mem[p]] /\ result' = [result EXCEPT ![p] = result[p]]
          /\ "exists" \in Places
      BY <1>a, <1>1, <2>2, <2>3 DEF FixRepoId, Goto, Set, Places
    <3> HIDE DEF c
    <3>4. Fits("exists", c, mem[p], result[p])
      BY <3>2 DEF Fits
    <3>5. Each'
      BY <1>a, <3>2, <3>3, <3>4, ProcessStep
    <3> QED
      BY <2>1, <3>5 DEF IInv
  <2>4. CASE Id(p)[1] \notin DOMAIN mem[p]
    <3>1. Each'
      BY <1>1, <2>2, <2>4, PlainEnd DEF FixRepoId
    <3> QED
      BY <2>1, <3>1 DEF IInv
  <2> QED
    BY <2>3, <2>4
<1>2. CASE Exists(p)
  <2>1. World'
    BY <1>b, <1>2 DEF Exists, World, remote, local, history
  <2>2. pc[p] = "exists" /\ call[p].kind = "get" /\ mem' = mem
    BY <1>2, Installing DEF Exists
  <2>3. CASE cache[Id(p)] # Absent
    <3>1. Each'
      BY <1>2, <2>2, <2>3, PlainEnd DEF Exists
    <3> QED
      BY <2>1, <3>1 DEF IInv
  <2>4. CASE cache[Id(p)] = Absent
    <3> DEFINE c == [call[p] EXCEPT !.next = "get"]
    <3>1. c \in Calls /\ c.kind = "get" /\ c.next # "idle"
      BY <1>a, <2>2 DEF Calls
    <3>2. /\ pc' = [pc EXCEPT ![p] = "ensure"] /\ call' = [call EXCEPT ![p] = c]
          /\ mem' = [mem EXCEPT ![p] = mem[p]] /\ result' = [result EXCEPT ![p] = result[p]]
          /\ "ensure" \in Places
      BY <1>a, <1>2, <2>2, <2>4 DEF Exists, Goto, Set, Places
    <3> HIDE DEF c
    <3>3. Fits("ensure", c, mem[p], result[p])
      BY <3>1 DEF Fits
    <3>4. Each'
      BY <1>a, <3>1, <3>2, <3>3, ProcessStep
    <3> QED
      BY <2>1, <3>4 DEF IInv
  <2> QED
    BY <2>3, <2>4
<1>3. CASE Get(p)
  <2>1. World'
    BY <1>b, <1>3 DEF Get, World, remote, local, history
  <2>2. pc[p] = "get" /\ call[p].kind = "get" /\ call[p].next # "idle" /\ mem' = mem
    BY <1>3, Installing DEF Get
  <2>3. CASE Id(p)[1] \in DOMAIN mem[p]
    <3>1. Fits("install", call[p], mem[p], result[p])
      BY <2>2 DEF Fits
    <3>2. Each'
      BY <1>3, <2>2, <2>3, <3>1, MoveStep DEF Get, Goto, Places
    <3> QED
      BY <2>1, <3>2 DEF IInv
  <2>4. CASE Id(p)[1] \notin DOMAIN mem[p]
    <3>1. Each'
      BY <1>3, <2>2, <2>4, PlainEnd DEF Get
    <3> QED
      BY <2>1, <3>1 DEF IInv
  <2> QED
    BY <2>3, <2>4
<1>4. ASSUME NEW at \in {"cloning", "checkout"},
             pc[p] \in {"install", "cloning"}, pc' = [pc EXCEPT ![p] = at],
             UNCHANGED <<call, mem, result>>
      PROVE  Each'
  <2>1. Fits(at, call[p], mem[p], result[p])
    BY <1>4, Installing DEF Fits
  <2> QED
    BY <1>4, <2>1, MoveStep DEF Places
<1>5. CASE Clone(p)
  <2>1. World'
    BY <1>a, <1>b, <1>5 DEF Clone, World, remote, history
  <2>2. Each'
    BY <1>4, <1>5 DEF Clone, Goto
  <2> QED
    BY <2>1, <2>2 DEF IInv
<1>6. CASE Cloned(p) \/ Pull(p)
  <2>1. head[Id(p)[1]] \in 1 .. MaxCommit
    BY <1>b, <1>c DEF World
  <2>2. World'
    BY <1>a, <1>b, <1>6, <2>1 DEF Cloned, Pull, World, remote, history
  <2>3. Each'
    BY <1>4, <1>6 DEF Cloned, Pull, Goto
  <2> QED
    BY <2>2, <2>3 DEF IInv
<1>7. CASE CloneFails(p)
  <2>1. World'
    BY <1>a, <1>b, <1>7 DEF CloneFails, World, remote
  <2>2. Each'
    BY <1>7, PlainEnd DEF CloneFails
  <2> QED
    BY <2>1, <2>2 DEF IInv
<1>8. CASE PullFails(p)
  <2>1. World'
    BY <1>b, <1>8 DEF PullFails, World, remote, local, history
  <2>2. Each'
    BY <1>8, PlainEnd DEF PullFails
  <2> QED
    BY <2>1, <2>2 DEF IInv
<1>9. CASE CheckoutTag(p)
  <2>1. Id(p)[2] \in 1 .. MaxCommit
    BY <1>b, <1>c, <1>9 DEF CheckoutTag, World
  <2>2. World'
    BY <1>a, <1>b, <1>9, <2>1 DEF CheckoutTag, World, remote
  <2>3. Each'
    BY <1>9, PlainEnd DEF CheckoutTag
  <2> QED
    BY <2>2, <2>3 DEF IInv
<1>10. CASE CheckoutTagFails(p)
  <2>1. World'
    BY <1>a, <1>b, <1>10 DEF CheckoutTagFails, World, remote, local
  <2>2. Each'
    BY <1>10, PlainEnd DEF CheckoutTagFails
  <2> QED
    BY <2>1, <2>2 DEF IInv
<1> QED
  BY <1>1, <1>2, <1>3, <1>5, <1>6, <1>7, <1>8, <1>9, <1>10 DEF CacheStep

(* The commands.                                                           *)
LEMMA CommandTyped ==
  ASSUME IInv, CommandStep
  PROVE  IInv'
<1>b. World
  BY DEF IInv
<1>1. ASSUME NEW p \in Processes, Start(p) PROVE IInv'
  <2>1. World'
    BY <1>b, <1>1 DEF Start, World, remote, history
  <2>a. /\ call[p] \in Calls /\ mem[p] \in RegistryOf \cup {Nil}
        /\ Fits(pc[p], call[p], mem[p], result[p]) /\ pc[p] = "off"
        /\ call = [call EXCEPT ![p] = call[p]] /\ mem = [mem EXCEPT ![p] = mem[p]]
    BY <1>1, OneState DEF Start, Goto
  <2>2. Fits("idle", call[p], mem[p], "none")
    BY <2>a DEF Fits, Updating
  <2>3. /\ pc' = [pc EXCEPT ![p] = "idle"] /\ result' = [result EXCEPT ![p] = "none"]
        /\ call' = [call EXCEPT ![p] = call[p]] /\ mem' = [mem EXCEPT ![p] = mem[p]]
        /\ "idle" \in Places /\ "none" \in Results
    BY <1>1, <2>a DEF Start, Goto, Places, Results
  <2>4. Each'
    BY <2>a, <2>2, <2>3, ProcessStep
  <2> QED
    BY <2>1, <2>4 DEF IInv
<1>2. ASSUME NEW p \in Processes, NEW c \in Calls, NEW start \in Places, Begin(p, c, start),
             c.kind \in {"get", "update", "import"}, start \notin {"off", "idle"},
             c.kind = "get" => c.next # "idle" /\ start \in {"ensure", "exists"},
             c.kind = "import" => start = "install" /\ result[p] = "none",
             c.kind = "update" => start = "reset" /\ c.next = "fetch" /\ result[p] = "none"
      PROVE  IInv'
  <2>1. World'
    BY <1>b, <1>2 DEF Begin, World, remote, local
  <2>a. /\ mem[p] \in RegistryOf \cup {Nil}
        /\ Fits(pc[p], call[p], mem[p], result[p]) /\ pc[p] = "idle"
        /\ mem = [mem EXCEPT ![p] = mem[p]]
    BY <1>2, OneState DEF Begin, Goto
  <2>2. Fits(start, c, mem[p], "none")
    BY <1>2, <2>a DEF Fits, Updating
  <2>3. /\ pc' = [pc EXCEPT ![p] = start] /\ result' = [result EXCEPT ![p] = "none"]
        /\ call' = [call EXCEPT ![p] = c] /\ mem' = [mem EXCEPT ![p] = mem[p]]
        /\ "none" \in Results
    BY <1>2, <2>a DEF Begin, Goto, Set, Results
  <2>4. Each'
    BY <1>2, <2>a, <2>2, <2>3, ProcessStep
  <2> QED
    BY <2>1, <2>4 DEF IInv
<1>3. ASSUME NEW p \in Processes, Update(p) PROVE IInv'
  <2> DEFINE c == [NoCall EXCEPT !.kind = "update", !.next = "fetch"]
  <2>1. c \in Calls /\ c.kind = "update" /\ c.next = "fetch"
    BY NoCallLemma DEF Calls
  <2>2. Begin(p, c, "reset") /\ result[p] = "none"
    BY <1>3 DEF Update
  <2> HIDE DEF c
  <2> QED
    BY <1>2, <2>1, <2>2 DEF Places
<1>4. ASSUME NEW p \in Processes, NEW id \in Ids, GetOrInstall(p, id) PROVE IInv'
  <2> DEFINE c == [NoCall EXCEPT !.kind = "get", !.id = id, !.next = "fix"]
  <2>1. c \in Calls /\ c.kind = "get" /\ c.next = "fix"
    BY NoCallLemma DEF Calls
  <2>2. Begin(p, c, "ensure") \/ Begin(p, c, "exists")
    BY <1>4 DEF GetOrInstall
  <2> HIDE DEF c
  <2> QED
    BY <1>2, <2>1, <2>2 DEF Places
<1>5. ASSUME NEW p \in Processes, NEW id \in Ids, Import(p, id) PROVE IInv'
  <2> DEFINE c == [NoCall EXCEPT !.kind = "import", !.id = id]
  <2>1. c \in Calls /\ c.kind = "import"
    BY NoCallLemma DEF Calls
  <2>2. Begin(p, c, "install") /\ result[p] = "none"
    BY <1>5 DEF Import
  <2> HIDE DEF c
  <2> QED
    BY <1>2, <2>1, <2>2 DEF Places
<1>6. ASSUME NEW id \in Ids, Remove(id) PROVE IInv'
  <2>1. World'
    BY <1>b, <1>6 DEF Remove, World, remote
  <2>2. Each'
    BY <1>6 DEF Remove, IInv, Each
  <2> QED
    BY <2>1, <2>2 DEF IInv
<1>7. CASE Clean
  <2>1. World'
    BY <1>b, <1>7 DEF Clean, World, remote
  <2>2. Each'
    BY <1>7 DEF Clean, IInv, Each
  <2> QED
    BY <2>1, <2>2 DEF IInv
<1> QED
  BY <1>1, <1>3, <1>4, <1>5, <1>6, <1>7, ExitStep DEF CommandStep

(* The authors of the templates and of the registry.                       *)
LEMMA RemoteTyped ==
  ASSUME IInv, RemoteStep
  PROVE  IInv'
<1>b. World
  BY DEF IInv
<1>1. Each'
  BY DEF RemoteStep, Push, Release, Publish, IInv, Each
<1>2. ASSUME NEW n \in Names, Push(n) PROVE World'
  <2>1. head[n] \in 1 .. MaxCommit /\ head[n] < MaxCommit /\ MaxCommit \in Nat
    BY <1>b, <1>2, TemplatesAssumption DEF World, Push
  <2>2. head[n] + 1 \in 1 .. MaxCommit
    BY <2>1
  <2> QED
    BY <1>b, <1>2, <2>2 DEF Push, World, local
<1>3. ASSUME NEW n \in Names, Release(n) PROVE World'
  <2>1. tagged[n] \cup {head[n]} \in SUBSET (1 .. MaxCommit)
    BY <1>b DEF World
  <2> QED
    BY <1>b, <1>3, <2>1 DEF Release, World, local
<1>4. ASSUME NEW S \in SUBSET Names, Publish(S) PROVE World'
  <2>1. \A n \in S : Latest(n) \in Versions
    BY <1>b, LatestLemma DEF World
  <2>2. [n \in S |-> Latest(n)] \in RegistryOf
    BY <2>1, RegistryLemma
  <2> QED
    BY <1>b, <1>4, <2>2 DEF Publish, World, local
<1> QED
  BY <1>1, <1>2, <1>3, <1>4 DEF RemoteStep, IInv

(* Nothing is there before the first process starts.                       *)
LEMMA TypedInit == Init => IInv
<1> SUFFICES ASSUME Init PROVE IInv
  OBVIOUS
<1>1. 1 \in 1 .. MaxCommit /\ 0 \in Versions
  BY TemplatesAssumption DEF Versions
<1>2. published \in RegistryOf \cup {NoFile}
  <2>1. ASSUME NEW S \in SUBSET Names, NEW f \in [S -> {0}] PROVE f \in RegistryOf
    <3>1. f \in [S -> Versions]
      BY <1>1
    <3> QED
      BY <3>1, RegistryLemma
  <2> QED
    BY <2>1 DEF Init
<1>3. World
  BY <1>1, <1>2 DEF Init, World
<1>4. Each
  BY NoCallLemma DEF Init, Each, Fits, Places, Results
<1> QED
  BY <1>3, <1>4 DEF IInv

(* Every step keeps the types.                                             *)
LEMMA TypedStep == IInv /\ [Next]_vars => IInv'
<1> SUFFICES ASSUME IInv, [Next]_vars PROVE IInv'
  OBVIOUS
<1>1. CASE UNCHANGED vars
  BY <1>1 DEF vars, remote, local, history, IInv, World, Each
<1> QED
  BY <1>1, RegistryTyped, CacheTyped, CommandTyped, RemoteTyped DEF Next

(* Whatever the processes, the network and the authors do, every variable  *)
(* keeps its type: what is on disk and in memory is a registry, a commit   *)
(* of the template's repository, or a known absence.                       *)
THEOREM TypeCorrect == Spec => []TypeOK
<1>1. IInv => TypeOK
  <2> SUFFICES ASSUME IInv PROVE TypeOK
    OBVIOUS
  <2>1. World /\ \A p \in Processes : Id(p) \in Ids
    BY OneState DEF IInv
  <2>2. /\ pc \in [Processes -> Places]
        /\ mem \in [Processes -> RegistryOf \cup {Nil}]
    BY DEF IInv, Each
  <2> QED
    BY <2>1, <2>2 DEF TypeOK, World, Places
<1> QED
  BY <1>1, TypedInit, TypedStep, PTL DEF Spec
-----------------------------------------------------------------------------
(* What the remote registry lists, with the latest versions.               *)
Complete == [n \in DOMAIN published |-> Latest(n)]

(* An update that runs alone: nobody makes a registry out of the directory *)
(* it removes, so that it clones what is published, loads that, and saves  *)
(* it with the latest versions.                                            *)
Alone(p) ==
  /\ \A q \in Processes \ {p} : Quiet(q)
  /\ ~Quiet(p) => call[p].kind = "update" /\ result[p] = "none"
  /\ pc[p] = "clone" => reg \in {NoDir, Empty}
  /\ pc[p] \in {"ensure", "load", "fetch", "save"} => reg = published
  /\ pc[p] = "fetch" => published # NoFile /\ mem[p] = published
  /\ pc[p] = "save" => published # NoFile /\ mem[p] = Complete
  /\ result[p] = "ok" => published # NoFile /\ reg = Complete

AloneInv == \A p \in fresh : Alone(p)

(* No registry is mistaken for one that is not there.                      *)
LEMMA CompleteLemma ==
  ASSUME IInv
  PROVE  /\ published # NoDir
         /\ published # NoFile => published \in RegistryOf /\ Complete \in RegistryOf /\ Complete # NoDir
<1>1. World
  BY DEF IInv
<1>2. published \in RegistryOf \cup {NoFile} /\ tagged \in [Names -> SUBSET (1 .. MaxCommit)]
  BY <1>1 DEF World
<1>3. NoDir \notin RegistryOf /\ NoDir # NoFile
  BY TemplatesAssumption
<1>4. ASSUME published \in RegistryOf PROVE Complete \in RegistryOf
  <2>1. DOMAIN published \in SUBSET Names
    BY <1>4, RegistryLemma
  <2>2. \A n \in DOMAIN published : Latest(n) \in Versions
    BY <1>2, <2>1, LatestLemma
  <2> QED
    BY <2>1, <2>2, RegistryLemma DEF Complete
<1> QED
  BY <1>2, <1>3, <1>4

(* What a process that updates alone does itself.                          *)
LEMMA AloneOwn ==
  ASSUME IInv, NEW p \in Processes, Alone(p), RegistryStep(p)
  PROVE  Alone(p)'
<1>a. /\ pc \in [Processes -> Places] /\ call \in [Processes -> Calls]
      /\ mem \in [Processes -> RegistryOf \cup {Nil}] /\ result \in [Processes -> Results]
  BY DEF IInv, Each
<1>b. ~Quiet(p) /\ call[p].kind = "update" /\ result[p] = "none" /\ call[p].next = "fetch"
      /\ (pc[p] \notin {"fetch", "save"} => mem[p] = Nil)
  <2>1. ~Quiet(p)
    BY DEF RegistryStep, EnsureDir, Load, RemoveDir, CloneRegistry, CloneRegistryFails,
       Fetch, FetchPanics, Save, End, Goto, Quiet
  <2>2. call[p].kind = "update" /\ result[p] = "none"
    BY <2>1 DEF Alone
  <2> QED
    BY <2>1, <2>2, OneState DEF Fits
<1>c. published # NoDir
  BY CompleteLemma
<1>d. \A q \in Processes \ {p} : Quiet(q)
  BY DEF Alone
<1>1. ASSUME \A q \in Processes \ {p} : pc'[q] = pc[q]
      PROVE  \A q \in Processes \ {p} : Quiet(q)'
  BY <1>1, <1>d DEF Quiet
<1>2. ASSUME pc' = [pc EXCEPT ![p] = "off"], result'[p] # "ok"
      PROVE  Alone(p)'
  <2>1. pc'[p] = "off"
    BY <1>a, <1>2
  <2> QED
    BY <1>a, <1>1, <1>2, <2>1 DEF Alone, Quiet
<1>3. CASE EnsureDir(p)
  <2>1. pc[p] = "load" \/ (pc'[p] = "load" /\ reg = published /\ reg' = reg)
    BY <1>a, <1>c, <1>3 DEF EnsureDir, Goto, Alone
  <2>2. UNCHANGED <<published, call, result, mem>>
    BY <1>3 DEF EnsureDir, remote
  <2> QED
    BY <1>a, <1>b, <1>1, <1>3, <2>1, <2>2 DEF EnsureDir, Goto, Alone, Quiet
<1>4. CASE Load(p)
  <2>1. pc[p] = "load" /\ mem[p] = Nil /\ reg = published
    BY <1>b, <1>4 DEF Load, Alone
  <2>2. UNCHANGED <<published, reg, result>>
    BY <1>4 DEF Load, remote, local
  <2>3. CASE reg \notin {NoDir, Empty, NoFile}
    <3>1. pc' = [pc EXCEPT ![p] = "fetch"] /\ mem' = [mem EXCEPT ![p] = reg] /\ call' = call
      BY <1>b, <1>4, <2>1, <2>3 DEF Load, Goto
    <3>2. pc'[p] = "fetch" /\ mem'[p] = reg
      BY <1>a, <3>1
    <3> QED
      BY <1>a, <1>b, <1>1, <2>1, <2>2, <2>3, <3>1, <3>2 DEF Alone, Quiet
  <2>4. CASE reg \in {NoDir, Empty, NoFile}
    <3>1. /\ pc' = [pc EXCEPT ![p] = "reset"]
          /\ call' = [call EXCEPT ![p] = [call[p] EXCEPT !.lost = TRUE, !.next = "fetch"]]
      BY <1>4, <2>1, <2>4 DEF Load, Goto, Set
    <3>2. [call[p] EXCEPT !.lost = TRUE, !.next = "fetch"].kind = "update"
      BY <1>a, <1>b DEF Calls
    <3>3. pc'[p] = "reset" /\ call'[p].kind = "update"
      BY <1>a, <3>1, <3>2
    <3> QED
      BY <1>a, <1>b, <1>1, <2>1, <2>2, <3>1, <3>3 DEF Alone, Quiet
  <2> QED
    BY <2>3, <2>4
<1>5. CASE RemoveDir(p)
  <2>1. pc' = [pc EXCEPT ![p] = "clone"] /\ reg' = NoDir /\ UNCHANGED <<call, result>>
    BY <1>5 DEF RemoveDir, Goto
  <2>2. pc'[p] = "clone"
    BY <1>a, <2>1
  <2> QED
    BY <1>a, <1>b, <1>1, <2>1, <2>2 DEF Alone, Quiet
<1>6. CASE CloneRegistry(p)
  <2>1. /\ pc' = [pc EXCEPT ![p] = "ensure"] /\ UNCHANGED <<call, result, published>>
        /\ reg = NoDir /\ reg' = published
    BY <1>6 DEF CloneRegistry, Goto, remote, Alone
  <2>2. pc'[p] = "ensure"
    BY <1>a, <2>1
  <2> QED
    BY <1>a, <1>b, <1>1, <2>1, <2>2 DEF Alone, Quiet
<1>7. CASE CloneRegistryFails(p)
  <2>1. pc' = [pc EXCEPT ![p] = "off"] /\ result' = [result EXCEPT ![p] = "failed"]
    BY <1>b, <1>7 DEF CloneRegistryFails, End, Goto
  <2> QED
    BY <1>a, <1>2, <2>1
<1>8. CASE Fetch(p)
  <2>1. /\ pc' = [pc EXCEPT ![p] = "save"] /\ pc[p] = "fetch"
        /\ UNCHANGED <<call, result, reg, published, tagged>>
        /\ mem' = [mem EXCEPT ![p] = [n \in DOMAIN mem[p] |-> Latest(n)]]
    BY <1>8 DEF Fetch, Goto, remote, local
  <2>2. pc'[p] = "save" /\ mem'[p] = Complete /\ published # NoFile /\ reg = published
    BY <1>a, <2>1 DEF Alone, Complete
  <2>3. Complete' = Complete
    BY <2>1 DEF Complete, Latest
  <2> QED
    BY <1>a, <1>b, <1>1, <2>1, <2>2, <2>3 DEF Alone, Quiet
<1>9. CASE FetchPanics(p)
  <2>1. pc' = [pc EXCEPT ![p] = "off"] /\ result' = [result EXCEPT ![p] = "none"]
    BY <1>9 DEF FetchPanics, Exit
  <2> QED
    BY <1>a, <1>2, <2>1
<1>10. CASE Save(p)
  <2>1. /\ pc[p] = "save" /\ pc' = [pc EXCEPT ![p] = "off"]
        /\ UNCHANGED <<published, tagged>>
        /\ reg' = IF reg = NoDir THEN NoDir ELSE mem[p]
    BY <1>b, <1>10 DEF Save, End, Goto, remote
  <2>2. published # NoFile /\ mem[p] = Complete /\ reg = published
    BY <2>1 DEF Alone
  <2>3. reg' = Complete' /\ published' # NoFile /\ pc'[p] = "off"
    BY <1>a, <1>c, <2>1, <2>2 DEF Complete, Latest
  <2> QED
    BY <1>a, <1>1, <2>1, <2>3 DEF Alone, Quiet
<1> QED
  BY <1>3, <1>4, <1>5, <1>6, <1>7, <1>8, <1>9, <1>10 DEF RegistryStep

(* What others do meanwhile: a process that starts makes the directory     *)
(* only when there is none.                                                *)
LEMMA AloneOthers ==
  ASSUME IInv, NEW p \in Processes, Alone(p), NEW q \in Processes, Start(q) \/ Exit(q)
  PROVE  Alone(p)'
<1>a. /\ pc \in [Processes -> Places] /\ call \in [Processes -> Calls]
      /\ mem \in [Processes -> RegistryOf \cup {Nil}] /\ result \in [Processes -> Results]
  BY DEF IInv, Each
<1>b. /\ published # NoDir
      /\ published # NoFile => Complete # NoDir
  BY CompleteLemma
<1>1. /\ pc' = [pc EXCEPT ![q] = pc'[q]] /\ pc'[q] \in {"off", "idle"}
      /\ result' = [result EXCEPT ![q] = "none"]
      /\ UNCHANGED <<published, tagged>>
      /\ reg' \in {reg, IF reg = NoDir THEN Empty ELSE reg}
  BY <1>a DEF Start, Exit, Goto, remote, local
<1>2. Complete' = Complete
  BY <1>1 DEF Complete, Latest
<1>3. \A r \in Processes \ {p} : Quiet(r)'
  BY <1>a, <1>1 DEF Alone, Quiet
<1>4. CASE q = p
  <2>1. pc'[p] \in {"off", "idle"} /\ result'[p] = "none"
    BY <1>a, <1>1, <1>4
  <2> QED
    BY <1>3, <2>1 DEF Alone, Quiet
<1>5. CASE q # p
  <2>1. pc'[p] = pc[p] /\ result'[p] = result[p]
    BY <1>a, <1>1, <1>5
  <2>2. call'[p] = call[p] /\ mem'[p] = mem[p]
    BY <1>a, <1>5 DEF Start, Exit, history
  <2>3. reg # NoDir => reg' = reg
    BY <1>1
  <2>4. reg \in {NoDir, Empty} => reg' \in {NoDir, Empty}
    BY <1>1
  <2> QED
    BY <1>b, <1>1, <1>2, <1>3, <2>1, <2>2, <2>3, <2>4 DEF Alone, Quiet
<1> QED
  BY <1>4, <1>5

(* An update that begins when nobody else is in a call.                    *)
LEMMA AloneBegins ==
  ASSUME IInv, NEW p \in Processes, NEW c \in Calls, NEW start \in Places, Begin(p, c, start),
         c.kind = "update" => start = "reset"
  PROVE  AloneInv'
<1>a. /\ pc \in [Processes -> Places] /\ call \in [Processes -> Calls]
      /\ result \in [Processes -> Results]
  BY DEF IInv, Each
<1>1. ASSUME NEW q \in fresh' PROVE Alone(q)'
  <2>1. q = p /\ c.kind = "update" /\ \A r \in Processes : Quiet(r)
    BY <1>1 DEF Begin
  <2>2. pc' = [pc EXCEPT ![p] = "reset"] /\ call'[p] = c /\ result'[p] = "none"
    BY <1>a, <2>1 DEF Begin, Goto, Set
  <2>3. pc'[p] = "reset" /\ \A r \in Processes \ {p} : pc'[r] = pc[r]
    BY <1>a, <2>2
  <2> QED
    BY <2>1, <2>2, <2>3 DEF Alone, Quiet
<1> QED
  BY <1>1 DEF AloneInv

(* Every step keeps an update that runs alone on its way.                  *)
LEMMA AloneStep ==
  ASSUME IInv, AloneInv, [Next]_vars
  PROVE  AloneInv'
<1>f. fresh \subseteq Processes
  BY DEF IInv, World
<1>1. CASE RemoteStep
  BY <1>1 DEF RemoteStep, Push, Release, Publish, AloneInv
<1>2. ASSUME NEW p \in Processes, Start(p) \/ Exit(p) PROVE AloneInv'
  <2>1. fresh' = fresh
    BY <1>2 DEF Start, Exit, history
  <2> QED
    BY <1>f, <1>2, <2>1, AloneOthers DEF AloneInv
<1>3. ASSUME NEW p \in Processes, RegistryStep(p) PROVE AloneInv'
  <2>1. fresh' = fresh
    BY <1>3 DEF RegistryStep, EnsureDir, Load, RemoveDir, CloneRegistry, CloneRegistryFails,
       Fetch, FetchPanics, Exit, Save, history
  <2>2. ~Quiet(p)
    BY <1>3 DEF RegistryStep, EnsureDir, Load, RemoveDir, CloneRegistry, CloneRegistryFails,
       Fetch, FetchPanics, Save, End, Goto, Quiet
  <2>3. \A q \in fresh : q = p
    BY <1>f, <2>2 DEF AloneInv, Alone
  <2> QED
    BY <1>f, <1>3, <2>1, <2>3, AloneOwn DEF AloneInv
<1>4. ASSUME NEW p \in Processes, CacheStep(p) PROVE AloneInv'
  <2>1. fresh' = fresh
    BY <1>4 DEF CacheStep, FixRepoId, Exists, Get, Clone, Cloned, CloneFails, Pull, PullFails,
       CheckoutTag, CheckoutTagFails, history
  <2>2. pc[p] \in {"fix", "exists", "get", "install", "cloning", "checkout"}
    BY <1>4 DEF CacheStep, FixRepoId, Exists, Get, Clone, Cloned, CloneFails, Pull, PullFails,
       CheckoutTag, CheckoutTagFails, End, Goto
  <2>3. \A q \in fresh : q = p /\ call[p].kind = "update"
    BY <1>f, <2>2 DEF AloneInv, Alone, Quiet
  <2>4. call[p].kind # "update"
    BY <2>2, Installing
  <2> QED
    BY <2>1, <2>3, <2>4 DEF AloneInv
<1>5. ASSUME NEW p \in Processes, Update(p) PROVE AloneInv'
  <2> DEFINE c == [NoCall EXCEPT !.kind = "update", !.next = "fetch"]
  <2>1. c \in Calls
    BY NoCallLemma DEF Calls
  <2>2. Begin(p, c, "reset")
    BY <1>5 DEF Update
  <2> HIDE DEF c
  <2> QED
    BY <2>1, <2>2, AloneBegins DEF Places
<1>6. ASSUME NEW p \in Processes, NEW id \in Ids, GetOrInstall(p, id) PROVE AloneInv'
  <2> DEFINE c == [NoCall EXCEPT !.kind = "get", !.id = id, !.next = "fix"]
  <2>1. c \in Calls /\ c.kind = "get"
    BY NoCallLemma DEF Calls
  <2>2. Begin(p, c, "ensure") \/ Begin(p, c, "exists")
    BY <1>6 DEF GetOrInstall
  <2> HIDE DEF c
  <2> QED
    BY <2>1, <2>2, AloneBegins DEF Places
<1>7. ASSUME NEW p \in Processes, NEW id \in Ids, Import(p, id) PROVE AloneInv'
  <2> DEFINE c == [NoCall EXCEPT !.kind = "import", !.id = id]
  <2>1. c \in Calls /\ c.kind = "import"
    BY NoCallLemma DEF Calls
  <2>2. Begin(p, c, "install")
    BY <1>7 DEF Import
  <2> HIDE DEF c
  <2> QED
    BY <2>1, <2>2, AloneBegins DEF Places
<1>8. ASSUME UNCHANGED <<published, tagged, reg, mem, pc, call, result, fresh>>
      PROVE  AloneInv'
  BY <1>8 DEF AloneInv, Alone, Quiet, Complete, Latest
<1>9. ASSUME NEW id \in Ids, Remove(id) PROVE AloneInv'
  BY <1>8, <1>9 DEF Remove, remote
<1>10. CASE Clean
  BY <1>8, <1>10 DEF Clean, remote
<1>11. CASE UNCHANGED vars
  BY <1>8, <1>11 DEF vars, remote, local, history
<1> QED
  BY <1>1, <1>2, <1>3, <1>4, <1>5, <1>6, <1>7, <1>9, <1>10, <1>11 DEF Next, CommandStep

(* However many processes start, end and are killed meanwhile, an update   *)
(* that nobody else's call interferes with, and that reports success, has  *)
(* put on disk what the remote registry lists, with the latest versions.   *)
THEOREM UpdateCorrect == Spec => []UpdateIsComplete
<1>1. Init => IInv /\ AloneInv
  <2>1. Init => AloneInv
    BY DEF Init, AloneInv
  <2> QED
    BY <2>1, TypedInit
<1>2. IInv /\ AloneInv /\ [Next]_vars => (IInv /\ AloneInv)'
  BY TypedStep, AloneStep
<1>3. IInv /\ AloneInv => UpdateIsComplete
  BY DEF AloneInv, Alone, UpdateIsComplete, Complete
<1> QED
  BY <1>1, <1>2, <1>3, PTL DEF Spec
=============================================================================
