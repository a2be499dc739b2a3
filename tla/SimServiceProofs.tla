-------------------------- MODULE SimServiceProofs --------------------------
(***************************************************************************)
(* Theorems about SimService, for any clients, properties, values and any  *)
(* listener behaviour the constants allow.                                 *)
(***************************************************************************)
EXTENDS SimService, SequenceTheorems, TLAPS

(* What putting a frame on a stack, and taking one off, does to it.        *)
LEMMA PushLemma ==
  ASSUME NEW S, NEW s \in Seq(S), NEW f \in S
  PROVE  /\ <<f>> \o s \in Seq(S)
         /\ Len(<<f>> \o s) = Len(s) + 1
         /\ Head(<<f>> \o s) = f
         /\ <<f>> \o s # <<>>
<1>1. <<f>> \in Seq(S) /\ Len(<<f>>) = 1 /\ <<f>>[1] = f
  OBVIOUS
<1>2. /\ <<f>> \o s \in Seq(S)
      /\ Len(<<f>> \o s) = 1 + Len(s)
      /\ \A i \in 1 .. 1 + Len(s) : (<<f>> \o s)[i] = IF i <= 1 THEN <<f>>[i] ELSE s[i - 1]
  BY <1>1, ConcatProperties
<1>3. Len(s) \in Nat
  BY LenProperties
<1>4. <<f>> \o s # <<>>
  BY <1>2, <1>3, EmptySeq
<1>5. (<<f>> \o s)[1] = f
  BY <1>1, <1>2, <1>3
<1> QED
  BY <1>2, <1>3, <1>4, <1>5

(* Taking a frame off a stack leaves the frames that were below it.        *)
LEMMA PopLemma ==
  ASSUME NEW S, NEW s \in Seq(S)
  PROVE  /\ Len(s) \in Nat
         /\ s # <<>> <=> Len(s) > 0
         /\ s # <<>> => /\ Head(s) \in S
                        /\ Tail(s) \in Seq(S)
                        /\ Len(Tail(s)) = Len(s) - 1
                        /\ Tail(s) = <<>> <=> Len(s) = 1
<1>1. Len(s) \in Nat /\ (s # <<>> <=> Len(s) > 0)
  BY EmptySeq, LenProperties
<1>2. CASE s # <<>>
  <2>1. /\ Head(s) \in S
        /\ Tail(s) \in Seq(S)
        /\ Len(Tail(s)) = Len(s) - 1
    BY <1>2, HeadTailProperties
  <2>2. Tail(s) = <<>> <=> Len(Tail(s)) = 0
    BY <2>1, EmptySeq, LenProperties
  <2>3. Len(s) - 1 = 0 <=> Len(s) = 1
    BY <1>1
  <2> QED
    BY <1>1, <2>1, <2>2, <2>3, Zenon
<1> QED
  BY <1>1, <1>2

(* Every lock operator keeps a lock a lock, and only taking and giving     *)
(* back a read lock changes who reads.                                     *)
LEMMA LockLemma ==
  ASSUME NEW l \in Lock!RWLocks, NEW t \in Threads
  PROVE  /\ l.readers \in [Threads -> Nat]
         /\ Lock!RLocked(l, t) \in Lock!RWLocks
         /\ Lock!RLocked(l, t).readers = [l.readers EXCEPT ![t] = @ + 1]
         /\ l.readers[t] > 0 => Lock!RUnlocked(l, t) \in Lock!RWLocks
         /\ Lock!RUnlocked(l, t).readers = [l.readers EXCEPT ![t] = @ - 1]
         /\ Lock!Asked(l, t) \in Lock!RWLocks
         /\ Lock!Asked(l, t).readers = l.readers
         /\ Lock!WUnlocked(l) \in Lock!RWLocks
         /\ Lock!WUnlocked(l).readers = l.readers
<1> USE DEF Lock!RWLocks
<1>1. l.readers \in [Threads -> Nat]
  OBVIOUS
<1>2. /\ Lock!RLocked(l, t) \in Lock!RWLocks
      /\ Lock!RLocked(l, t).readers = [l.readers EXCEPT ![t] = @ + 1]
  BY DEF Lock!RLocked
<1>3. /\ l.readers[t] > 0 => Lock!RUnlocked(l, t) \in Lock!RWLocks
      /\ Lock!RUnlocked(l, t).readers = [l.readers EXCEPT ![t] = @ - 1]
  BY DEF Lock!RUnlocked
<1>4. /\ Lock!Asked(l, t) \in Lock!RWLocks
      /\ Lock!Asked(l, t).readers = l.readers
  BY DEF Lock!Asked
<1>5. /\ Lock!WUnlocked(l) \in Lock!RWLocks
      /\ Lock!WUnlocked(l).readers = l.readers
  BY DEF Lock!WUnlocked
<1> QED
  BY <1>1, <1>2, <1>3, <1>4, <1>5
-----------------------------------------------------------------------------
IInv == TypeOK /\ LocksAccounted

(* Initially the types are right and every lock is free.                  *)
LEMMA InitLemma == Init => IInv
<1> SUFFICES ASSUME Init PROVE IInv
  OBVIOUS
<1> USE ServiceAssumption DEF Init
<1>1. Lock!Unlocked \in Lock!RWLocks /\ \A t \in Threads : Lock!Unlocked.readers[t] = 0
  BY DEF Lock!Unlocked, Lock!RWLocks
<1>2. props \in [Props -> Values]
  BY DEF Values
<1>3. /\ views \in [Conns -> [Props -> Values \cup {Unknown}]]
      /\ inits \in [Conns -> [Props -> Values \cup {Unknown}]]
      /\ overtaken \in [Conns -> SUBSET Props]
  BY DEF NoView
<1>4. frames \in [Threads -> Seq(Frame)]
  BY EmptySeq
<1>5. TypeOK
  BY <1>1, <1>2, <1>3, <1>4 DEF TypeOK, Phases, Working
<1>6. LocksAccounted
  BY <1>1 DEF LocksAccounted, Accounted, Setting, Working
<1> QED
  BY <1>5, <1>6 DEF IInv

(* A step of t that leaves the locks of the others alone only has to       *)
(* account for those of t.                                                 *)
OthersKept(t) ==
  \A u \in Threads \ {t} : /\ pc'[u] = pc[u]
                           /\ frames'[u] = frames[u]
                           /\ src'.readers[u] = src.readers[u]
                           /\ em'.readers[u] = em.readers[u]

(* A step of one thread keeps the account of the locks when it does so     *)
(* for that thread and leaves the others' frames and locks alone.          *)
LEMMA AccountLemma ==
  ASSUME NEW t \in Threads, LocksAccounted, OthersKept(t), Accounted(t)'
  PROVE  LocksAccounted'
<1> SUFFICES ASSUME NEW u \in Threads PROVE Accounted(u)'
  BY DEF LocksAccounted
<1>1. CASE u = t
  BY <1>1
<1>2. CASE u # t
  BY <1>2 DEF LocksAccounted, OthersKept, Accounted
<1> QED
  BY <1>1, <1>2

(* What the invariant says of the locks and the frames, unfolded.          *)
LEMMA StateLemma ==
  ASSUME IInv
  PROVE  /\ pc \in [Threads -> Phases] /\ frames \in [Threads -> Seq(Frame)]
         /\ src \in Lock!RWLocks /\ em \in Lock!RWLocks
         /\ src.readers \in [Threads -> Nat] /\ em.readers \in [Threads -> Nat]
         /\ Conns \subseteq Threads /\ Loop \in Threads
         /\ \A t \in Threads : /\ frames[t] \in Seq(Frame)
                               /\ Len(frames[t]) \in Nat
                               /\ frames[t] # <<>> <=> Len(frames[t]) > 0
                               /\ Accounted(t)
         /\ \A t \in Threads : pc[t] \in Setting => /\ Top(t).prop \in Props
                                                   /\ Top(t).value \in Values
<1>1. TypeOK /\ LocksAccounted
  BY DEF IInv
<1>2. /\ pc \in [Threads -> Phases] /\ frames \in [Threads -> Seq(Frame)]
      /\ src \in Lock!RWLocks /\ em \in Lock!RWLocks
      /\ Conns \subseteq Threads /\ Loop \in Threads
  BY <1>1 DEF TypeOK, Threads
<1>3. /\ src.readers \in [Threads -> Nat] /\ em.readers \in [Threads -> Nat]
      /\ \A t \in Threads : /\ frames[t] \in Seq(Frame)
                            /\ Len(frames[t]) \in Nat
                            /\ frames[t] # <<>> <=> Len(frames[t]) > 0
                            /\ Accounted(t)
  BY <1>1, <1>2, PopLemma, LockLemma DEF LocksAccounted
<1>4. ASSUME NEW t \in Threads, pc[t] \in Setting
      PROVE  Top(t).prop \in Props /\ Top(t).value \in Values
  <2>1. Head(frames[t]) \in Frame
    BY <1>3, <1>4, PopLemma DEF Accounted
  <2> QED
    BY <2>1 DEF Top, Frame
<1> QED
  BY <1>2, <1>3, <1>4

(* A setProperty call opens ...                                            *)
LEMMA PushStepLemma ==
  ASSUME IInv, NEW t \in Threads, NEW p \in Props, NEW v \in Values, Push(t, p, v)
  PROVE  /\ frames' \in [Threads -> Seq(Frame)]
         /\ frames'[t] # <<>> /\ Len(frames'[t]) = Len(frames[t]) + 1
         /\ Top(t)'.prop = p /\ Top(t)'.value = v
         /\ \A u \in Threads \ {t} : frames'[u] = frames[u]
<1> DEFINE f == [prop |-> p, value |-> v]
<1>1. f \in Frame /\ f.prop = p /\ f.value = v
  BY DEF Frame
<1>2. frames \in [Threads -> Seq(Frame)]
  BY StateLemma
<1>3. frames[t] \in Seq(Frame)
  BY <1>2
<1>4. /\ <<f>> \o frames[t] \in Seq(Frame)
      /\ <<f>> \o frames[t] # <<>>
      /\ Len(<<f>> \o frames[t]) = Len(frames[t]) + 1
      /\ Head(<<f>> \o frames[t]) = f
  BY <1>1, <1>3, PushLemma
<1>5. frames' = [frames EXCEPT ![t] = <<f>> \o frames[t]]
  BY DEF Push
<1> HIDE DEF f
<1>6. frames'[t] = <<f>> \o frames[t]
  BY <1>2, <1>5
<1>7. Top(t)' = f
  BY <1>4, <1>6 DEF Top
<1> QED
  BY <1>1, <1>2, <1>4, <1>5, <1>6, <1>7

(* ... and ends.                                                           *)
LEMMA PopStepLemma ==
  ASSUME IInv, NEW t \in Threads, pc[t] \in Setting, Pop(t)
  PROVE  /\ frames' \in [Threads -> Seq(Frame)]
         /\ pc' \in [Threads -> Phases]
         /\ Len(frames'[t]) = Len(frames[t]) - 1
         /\ Len(frames[t]) > 0
         /\ frames'[t] = <<>> <=> Len(frames[t]) = 1
         /\ pc'[t] = IF Len(frames[t]) = 1 THEN "return" ELSE "emitted"
         /\ \A u \in Threads \ {t} : frames'[u] = frames[u] /\ pc'[u] = pc[u]
<1>1. frames[t] \in Seq(Frame) /\ frames[t] # <<>>
  BY StateLemma DEF Accounted
<1>2. /\ Tail(frames[t]) \in Seq(Frame)
      /\ Len(Tail(frames[t])) = Len(frames[t]) - 1
      /\ Len(frames[t]) > 0
      /\ Tail(frames[t]) = <<>> <=> Len(frames[t]) = 1
  BY <1>1, PopLemma
<1>3. /\ frames' = [frames EXCEPT ![t] = Tail(frames[t])]
      /\ pc' = [pc EXCEPT ![t] = IF Len(frames[t]) = 1 THEN "return" ELSE "emitted"]
  BY DEF Pop
<1>4. "return" \in Phases /\ "emitted" \in Phases
  BY DEF Phases, Working, Setting
<1>5. pc \in [Threads -> Phases] /\ frames \in [Threads -> Seq(Frame)]
  BY StateLemma
<1> QED
  BY <1>2, <1>3, <1>4, <1>5

(* Every step keeps the types and the account of the locks.                *)
LEMMA StepLemma == IInv /\ [Next]_vars => IInv'
<1> SUFFICES ASSUME IInv, [Next]_vars PROVE IInv'
  OBVIOUS
<1> USE ServiceAssumption DEF Goto
<1>0. TypeOK /\ LocksAccounted
  BY DEF IInv
<1>a. /\ pc \in [Threads -> Phases] /\ frames \in [Threads -> Seq(Frame)]
      /\ src \in Lock!RWLocks /\ em \in Lock!RWLocks
      /\ Conns \subseteq Threads /\ Loop \in Threads
  BY StateLemma
<1>b. /\ src.readers \in [Threads -> Nat] /\ em.readers \in [Threads -> Nat]
      /\ \A t \in Threads : /\ frames[t] \in Seq(Frame)
                            /\ Len(frames[t]) \in Nat
                            /\ frames[t] # <<>> <=> Len(frames[t]) > 0
                            /\ Accounted(t)
  BY StateLemma
<1>c. \A t \in Threads : pc[t] \in Setting => Top(t).prop \in Props /\ Top(t).value \in Values
  BY StateLemma
<1>1. ASSUME NEW t \in Threads, Enter(t)
      PROVE  /\ src' \in Lock!RWLocks
             /\ src'.readers[t] = src.readers[t] + IF t \in Conns THEN 1 ELSE 0
             /\ \A u \in Threads \ {t} : src'.readers[u] = src.readers[u]
  <2>1. CASE t \in Conns
    <3>0. src' = Lock!RLocked(src, t)
      BY <1>1, <2>1 DEF Enter
    <3>1. /\ src' \in Lock!RWLocks
          /\ src'.readers = [src.readers EXCEPT ![t] = @ + 1]
      <4>1. /\ Lock!RLocked(src, t) \in Lock!RWLocks
            /\ Lock!RLocked(src, t).readers = [src.readers EXCEPT ![t] = @ + 1]
        BY <1>a, LockLemma
      <4> QED
        BY <3>0, <4>1
    <3> QED
      BY <1>b, <2>1, <3>1
  <2>2. CASE t \notin Conns
    BY <1>a, <1>b, <1>1, <2>2 DEF Enter
  <2> QED
    BY <2>1, <2>2
<1>2. ASSUME NEW t \in Threads, NEW p \in Props, NEW v \in Values, Push(t, p, v)
      PROVE  /\ frames' \in [Threads -> Seq(Frame)]
             /\ frames'[t] # <<>> /\ Len(frames'[t]) = Len(frames[t]) + 1
             /\ \A u \in Threads \ {t} : frames'[u] = frames[u]
  BY <1>2, PushStepLemma
<1>3. ASSUME NEW t \in Threads, pc[t] \in Setting, Pop(t)
      PROVE  /\ frames' \in [Threads -> Seq(Frame)]
             /\ pc' \in [Threads -> Phases]
             /\ Len(frames'[t]) = Len(frames[t]) - 1
             /\ Len(frames[t]) > 0
             /\ frames'[t] = <<>> <=> Len(frames[t]) = 1
             /\ pc'[t] = IF Len(frames[t]) = 1 THEN "return" ELSE "emitted"
             /\ \A u \in Threads \ {t} : frames'[u] = frames[u] /\ pc'[u] = pc[u]
  BY <1>3, PopStepLemma
<1>4. ASSUME NEW t \in Threads, Invoke(t)
      PROVE  IInv'
  <2>1. TypeOK'
    BY <1>0, <1>a, <1>4, <1>1 DEF Invoke, TypeOK, dataVars, Phases, Working, Setting
  <2>2. OthersKept(t)
    BY <1>a, <1>b, <1>4, <1>1 DEF Invoke, OthersKept, dataVars
  <2>3. Accounted(t)'
    <3>1. pc[t] \notin Setting \cup {"emitted"} /\ Accounted(t)
      BY <1>b, <1>4 DEF Invoke, Setting
    <3>2. (frames'[t] # <<>>) <=> (pc'[t] \in Setting)
      BY <1>a, <1>4, <1>1, <3>1 DEF Invoke, Accounted, Setting
    <3>3. src'.readers[t] = IF t \in Conns /\ pc'[t] \in Working THEN 1 ELSE 0
      BY <1>a, <1>4, <1>1, <3>1 DEF Invoke, Accounted, Setting, Working
    <3>4. em'.readers[t] = IF pc'[t] \in {"listen", "inside", "emitted"}
                             THEN Len(frames'[t])
                           ELSE IF pc'[t] \in Setting THEN Len(frames'[t]) - 1 ELSE 0
      BY <1>a, <1>b, <1>4, <1>1, <3>1, PopLemma DEF Invoke, Accounted, Setting
    <3> QED
      BY <3>2, <3>3, <3>4 DEF Accounted
  <2> QED
    BY <1>0, <1>a, <2>1, <2>2, <2>3, AccountLemma DEF IInv
<1>5. ASSUME NEW t \in Threads, NEW p \in Props, NEW v \in Assigned, SetProperty(t, p, v)
      PROVE  IInv'
  <2>1. TypeOK'
    BY <1>0, <1>a, <1>5, <1>1, <1>2 DEF SetProperty, TypeOK, dataVars, Phases, Working,
          Setting
  <2>2. OthersKept(t)
    BY <1>a, <1>b, <1>5, <1>1, <1>2 DEF SetProperty, OthersKept, dataVars
  <2>3. Accounted(t)'
    <3>1. pc[t] \notin Setting \cup {"emitted"} /\ Accounted(t)
      BY <1>b, <1>5 DEF SetProperty, Setting
    <3>2. (frames'[t] # <<>>) <=> (pc'[t] \in Setting)
      BY <1>a, <1>5, <1>1, <1>2, <3>1 DEF SetProperty, Accounted, Setting
    <3>3. src'.readers[t] = IF t \in Conns /\ pc'[t] \in Working THEN 1 ELSE 0
      BY <1>a, <1>5, <1>1, <1>2, <3>1 DEF SetProperty, Accounted, Setting, Working
    <3>4. em'.readers[t] = IF pc'[t] \in {"listen", "inside", "emitted"}
                             THEN Len(frames'[t])
                           ELSE IF pc'[t] \in Setting THEN Len(frames'[t]) - 1 ELSE 0
      <4>1. Len(frames'[t]) = Len(frames[t]) + 1 /\ pc'[t] = "compare" /\ em' = em
        BY <1>a, <1>5, <1>2 DEF SetProperty
      <4>2. Len(frames[t]) = 0 /\ em.readers[t] = 0
        BY <1>b, <3>1 DEF Accounted
      <4> QED
        BY <4>1, <4>2 DEF Setting
    <3> QED
      BY <3>2, <3>3, <3>4 DEF Accounted
  <2> QED
    BY <1>0, <1>a, <2>1, <2>2, <2>3, AccountLemma DEF IInv
<1>6. ASSUME NEW t \in Threads, NEW p \in Props, BelowMax(t, p)
      PROVE  IInv'
  <2>1. TypeOK'
    BY <1>0, <1>a, <1>6 DEF BelowMax, TypeOK, dataVars, Phases, Working, Setting
  <2>2. OthersKept(t)
    BY <1>a, <1>b, <1>6 DEF BelowMax, OthersKept, dataVars
  <2>3. Accounted(t)'
    BY <1>a, <1>b, <1>6 DEF BelowMax, Accounted, Setting, Working, dataVars
  <2> QED
    BY <1>0, <1>a, <2>1, <2>2, <2>3, AccountLemma DEF IInv
<1>7. ASSUME NEW t \in Threads, NEW p \in Props, Increment(t, p)
      PROVE  IInv'
  <2>1. /\ frames' \in [Threads -> Seq(Frame)]
        /\ frames'[t] # <<>> /\ Len(frames'[t]) = Len(frames[t]) + 1
        /\ \A u \in Threads \ {t} : frames'[u] = frames[u]
    <3>1. props[p] \in Values
      BY <1>0 DEF TypeOK
    <3>2. Capped(props[p] + 1) \in Values
      BY <3>1 DEF Capped, Values
    <3> QED
      BY <1>7, <1>2, <3>2 DEF Increment
  <2>2. TypeOK'
    BY <1>0, <1>a, <1>7, <2>1 DEF Increment, TypeOK, dataVars, Phases, Working, Setting
  <2>3. OthersKept(t)
    BY <1>a, <1>b, <1>7, <2>1 DEF Increment, OthersKept, dataVars
  <2>4. Accounted(t)'
    <3>1. pc[t] \notin Setting \cup {"emitted"} /\ Accounted(t)
      BY <1>b, <1>7 DEF Increment, Setting
    <3>2. (frames'[t] # <<>>) <=> (pc'[t] \in Setting)
      BY <1>a, <1>7, <2>1, <3>1 DEF Increment, Accounted, Setting
    <3>3. src'.readers[t] = IF t \in Conns /\ pc'[t] \in Working THEN 1 ELSE 0
      BY <1>a, <1>7, <2>1, <3>1 DEF Increment, Accounted, Setting, Working
    <3>4. em'.readers[t] = IF pc'[t] \in {"listen", "inside", "emitted"}
                             THEN Len(frames'[t])
                           ELSE IF pc'[t] \in Setting THEN Len(frames'[t]) - 1 ELSE 0
      BY <1>a, <1>b, <1>7, <2>1, <3>1, PopLemma DEF Increment, Accounted, Setting
    <3> QED
      BY <3>2, <3>3, <3>4 DEF Accounted
  <2> QED
    BY <1>0, <1>a, <2>2, <2>3, <2>4, AccountLemma DEF IInv
<1>8. ASSUME NEW t \in Threads, NEW p \in Props, AtLimit(t, p)
      PROVE  IInv'
  <2>1. TypeOK'
    BY <1>0, <1>a, <1>8 DEF AtLimit, TypeOK, dataVars, Phases, Working, Setting
  <2>2. OthersKept(t)
    BY <1>a, <1>b, <1>8 DEF AtLimit, OthersKept, dataVars
  <2>3. Accounted(t)'
    BY <1>a, <1>b, <1>8 DEF AtLimit, Accounted, Setting, Working, dataVars
  <2> QED
    BY <1>0, <1>a, <2>1, <2>2, <2>3, AccountLemma DEF IInv
<1>9. ASSUME NEW t \in Threads, Return(t)
      PROVE  IInv'
  <2>1. /\ src' \in Lock!RWLocks
        /\ src'.readers[t] = 0
        /\ \A u \in Threads \ {t} : src'.readers[u] = src.readers[u]
    <3>1. src.readers[t] = IF t \in Conns THEN 1 ELSE 0
      BY <1>b, <1>9 DEF Return, Accounted, Working
    <3>2. CASE t \in Conns
      <4>0. src' = Lock!RUnlocked(src, t) /\ src.readers[t] > 0
        BY <1>9, <3>1, <3>2 DEF Return
      <4>1. /\ src' \in Lock!RWLocks
            /\ src'.readers = [src.readers EXCEPT ![t] = @ - 1]
        BY <1>a, <4>0, LockLemma
      <4> QED
        BY <1>b, <3>1, <3>2, <4>1
    <3>3. CASE t \notin Conns
      BY <1>a, <1>9, <3>1, <3>3 DEF Return
    <3> QED
      BY <3>2, <3>3
  <2>2. TypeOK'
    BY <1>0, <1>a, <1>9, <2>1 DEF Return, TypeOK, dataVars, Phases, Working, Setting
  <2>3. OthersKept(t)
    BY <1>a, <1>b, <1>9, <2>1 DEF Return, OthersKept, dataVars
  <2>4. Accounted(t)'
    BY <1>a, <1>b, <1>9, <2>1 DEF Return, Accounted, Setting, Working, dataVars
  <2> QED
    BY <1>0, <1>a, <2>2, <2>3, <2>4, AccountLemma DEF IInv
<1>10. ASSUME NEW t \in Threads, CompareSame(t)
      PROVE  IInv'
  <2>1. TypeOK'
    BY <1>0, <1>a, <1>10, <1>3 DEF CompareSame, TypeOK, dataVars, Phases, Working, Setting
  <2>2. OthersKept(t)
    BY <1>a, <1>b, <1>10, <1>3 DEF CompareSame, OthersKept, Setting
  <2>3. Accounted(t)'
    <3>1. /\ pc[t] = "compare" /\ Accounted(t) /\ Len(frames[t]) \in Nat
          /\ em' = em /\ src' = src
      BY <1>b, <1>10 DEF CompareSame
    <3>2. /\ Len(frames'[t]) = Len(frames[t]) - 1 /\ Len(frames[t]) > 0
          /\ frames'[t] = <<>> <=> Len(frames[t]) = 1
          /\ pc'[t] = IF Len(frames[t]) = 1 THEN "return" ELSE "emitted"
      BY <1>3, <1>10 DEF CompareSame, Setting
    <3>3. em.readers[t] = Len(frames[t]) - 1
      BY <3>1 DEF Accounted, Setting
    <3>4. src.readers[t] = IF t \in Conns THEN 1 ELSE 0
      BY <3>1 DEF Accounted, Setting, Working
    <3> QED
      BY <3>1, <3>2, <3>3, <3>4 DEF Accounted, Setting, Working
  <2> QED
    BY <1>0, <1>a, <2>1, <2>2, <2>3, AccountLemma DEF IInv
<1>11. ASSUME NEW t \in Threads, CompareNew(t)
      PROVE  IInv'
  <2>1. TypeOK'
    BY <1>0, <1>a, <1>11 DEF CompareNew, TypeOK, dataVars, Phases, Working, Setting
  <2>2. OthersKept(t)
    BY <1>a, <1>b, <1>11 DEF CompareNew, OthersKept, dataVars
  <2>3. Accounted(t)'
    BY <1>a, <1>b, <1>11 DEF CompareNew, Accounted, Setting, Working, dataVars
  <2> QED
    BY <1>0, <1>a, <2>1, <2>2, <2>3, AccountLemma DEF IInv
<1>12. ASSUME NEW t \in Threads, Store(t)
      PROVE  IInv'
  <2>1. TypeOK'
    BY <1>0, <1>a, <1>12, <1>c DEF Store, TypeOK, Phases, Working, Setting
  <2>2. OthersKept(t)
    BY <1>a, <1>b, <1>12, PopLemma DEF Store, OthersKept, dataVars
  <2>3. Accounted(t)'
    BY <1>a, <1>b, <1>12, PopLemma DEF Store, Accounted, Setting, Working, dataVars
  <2> QED
    BY <1>0, <1>a, <2>1, <2>2, <2>3, AccountLemma DEF IInv
<1>13. ASSUME NEW t \in Threads, Emit(t)
      PROVE  IInv'
  <2>1. em' \in Lock!RWLocks /\ em'.readers = [em.readers EXCEPT ![t] = @ + 1]
    <3>1. em' = Lock!RLocked(em, t)
      BY <1>13 DEF Emit
    <3>2. /\ Lock!RLocked(em, t) \in Lock!RWLocks
          /\ Lock!RLocked(em, t).readers = [em.readers EXCEPT ![t] = @ + 1]
      BY <1>a, LockLemma
    <3> QED
      BY <3>1, <3>2
  <2>2. /\ pc' \in [Threads -> Phases]
        /\ frames' \in [Threads -> Seq(Frame)]
        /\ frames'[t] # <<>>
        /\ \/ pc'[t] = "compare" /\ Len(frames'[t]) = Len(frames[t]) + 1
           \/ pc'[t] \in {"listen", "emitted"} /\ frames'[t] = frames[t]
        /\ \A u \in Threads \ {t} : frames'[u] = frames[u] /\ pc'[u] = pc[u]
    <3>0. pc[t] \in Setting /\ {"compare", "listen", "emitted"} \subseteq Phases
      BY <1>13 DEF Emit, Setting, Phases, Working
    <3>1. Top(t).prop \in Props
      BY <1>c, <3>0
    <3>2. CASE Push(t, Top(t).prop, Limit) /\ pc' = [pc EXCEPT ![t] = "compare"]
      BY <1>a, <1>2, <3>0, <3>1, <3>2
    <3>3. CASE frames' = frames /\ pc' = [pc EXCEPT ![t] = "emitted"]
      BY <1>a, <1>b, <3>0, <3>3 DEF Accounted
    <3>4. CASE frames' = frames /\ pc' = [pc EXCEPT ![t] = "listen"]
      BY <1>a, <1>b, <3>0, <3>4 DEF Accounted
    <3> QED
      BY <1>13, <3>2, <3>3, <3>4 DEF Emit
  <2>3. TypeOK'
    BY <1>0, <1>13, <2>1, <2>2 DEF Emit, TypeOK, dataVars
  <2>4. OthersKept(t)
    BY <1>b, <1>13, <2>1, <2>2 DEF Emit, OthersKept
  <2>5. Accounted(t)'
    <3>1. /\ pc[t] = "emit" /\ Accounted(t) /\ Len(frames[t]) \in Nat /\ src' = src
      BY <1>b, <1>13 DEF Emit
    <3>2. em'.readers[t] = Len(frames[t])
      <4>1. em.readers[t] = Len(frames[t]) - 1
        BY <3>1 DEF Accounted, Setting
      <4> QED
        BY <1>b, <2>1, <3>1, <4>1
    <3>3. src.readers[t] = IF t \in Conns THEN 1 ELSE 0
      BY <3>1 DEF Accounted, Setting, Working
    <3>4. CASE pc'[t] = "compare" /\ Len(frames'[t]) = Len(frames[t]) + 1
      BY <2>2, <3>1, <3>2, <3>3, <3>4 DEF Accounted, Setting, Working
    <3>5. CASE pc'[t] \in {"listen", "emitted"} /\ frames'[t] = frames[t]
      BY <2>2, <3>1, <3>2, <3>3, <3>5 DEF Accounted, Setting, Working
    <3> QED
      BY <2>2, <3>4, <3>5
  <2> QED
    BY <1>0, <1>a, <2>3, <2>4, <2>5, AccountLemma DEF IInv
<1>14. ASSUME NEW t \in Threads, Emitted(t)
      PROVE  IInv'
  <2>1. em' \in Lock!RWLocks /\ em'.readers = [em.readers EXCEPT ![t] = @ - 1]
    <3>1. em' = Lock!RUnlocked(em, t) /\ pc[t] = "emitted" /\ Accounted(t)
      BY <1>b, <1>14 DEF Emitted
    <3>2. em.readers[t] > 0
      BY <1>b, <3>1 DEF Accounted, Setting
    <3>3. /\ Lock!RUnlocked(em, t) \in Lock!RWLocks
          /\ Lock!RUnlocked(em, t).readers = [em.readers EXCEPT ![t] = @ - 1]
      BY <1>a, <3>2, LockLemma
    <3> QED
      BY <3>1, <3>3
  <2>2. TypeOK'
    BY <1>0, <1>a, <1>14, <2>1 DEF Emitted, TypeOK, dataVars, Phases, Working, Setting
  <2>3. OthersKept(t)
    BY <1>a, <1>b, <1>14, <2>1 DEF Emitted, OthersKept, dataVars
  <2>4. Accounted(t)'
    BY <1>a, <1>b, <1>14, <2>1 DEF Emitted, Accounted, Setting, Working, dataVars
  <2> QED
    BY <1>0, <1>a, <2>2, <2>3, <2>4, AccountLemma DEF IInv
<1>15. ASSUME NEW t \in Threads, Notify(t)
      PROVE  IInv'
  <2>0. /\ published' \in [Props -> Values]
        /\ views' \in [Conns -> [Props -> Values \cup {Unknown}]]
        /\ overtaken' \in [Conns -> SUBSET Props]
    <3>1. Top(t).prop \in Props /\ Top(t).value \in Values
      BY <1>c, <1>15 DEF Notify, Setting
    <3>2. Announce(Top(t), Linkers)
      BY <1>15 DEF Notify
    <3> QED
      BY <1>0, <3>1, <3>2 DEF Announce, TypeOK
  <2>1. TypeOK'
    BY <1>0, <1>15, <1>3, <2>0 DEF Notify, TypeOK, Setting
  <2>2. OthersKept(t)
    BY <1>a, <1>b, <1>15, <1>3 DEF Notify, OthersKept, Setting
  <2>3. Accounted(t)'
    <3>1. /\ pc[t] = "notify" /\ Accounted(t) /\ Len(frames[t]) \in Nat
          /\ em' = em /\ src' = src
      BY <1>b, <1>15 DEF Notify
    <3>2. /\ Len(frames'[t]) = Len(frames[t]) - 1 /\ Len(frames[t]) > 0
          /\ frames'[t] = <<>> <=> Len(frames[t]) = 1
          /\ pc'[t] = IF Len(frames[t]) = 1 THEN "return" ELSE "emitted"
      BY <1>3, <1>15 DEF Notify, Setting
    <3>3. em.readers[t] = Len(frames[t]) - 1
      BY <3>1 DEF Accounted, Setting
    <3>4. src.readers[t] = IF t \in Conns THEN 1 ELSE 0
      BY <3>1 DEF Accounted, Setting, Working
    <3> QED
      BY <3>1, <3>2, <3>3, <3>4 DEF Accounted, Setting, Working
  <2> QED
    BY <1>0, <1>a, <2>1, <2>2, <2>3, AccountLemma DEF IInv
<1>16. ASSUME NEW c \in Conns, Link(c)
      PROVE  IInv'
  <2>1. src' \in Lock!RWLocks /\ src'.readers = src.readers
    BY <1>a, <1>b, <1>16, LockLemma DEF Link
  <2>2. TypeOK'
    BY <1>0, <1>a, <1>16, <2>1 DEF Link, TypeOK, dataVars, Phases, Working, Setting
  <2>3. OthersKept(c)
    BY <1>a, <1>b, <1>16, <2>1 DEF Link, OthersKept, dataVars
  <2>4. Accounted(c)'
    BY <1>a, <1>b, <1>16, <2>1 DEF Link, Accounted, Setting, Working, dataVars
  <2> QED
    BY <1>0, <1>a, <2>2, <2>3, <2>4, AccountLemma DEF IInv
<1>17. ASSUME NEW c \in Conns, Linked(c)
      PROVE  IInv'
  <2>1. src' \in Lock!RWLocks /\ src'.readers = src.readers
    BY <1>a, <1>b, <1>17, LockLemma DEF Linked
  <2>2. TypeOK'
    BY <1>0, <1>a, <1>17, <2>1 DEF Linked, TypeOK, dataVars, Phases, Working, Setting
  <2>3. OthersKept(c)
    BY <1>a, <1>b, <1>17, <2>1 DEF Linked, OthersKept, dataVars
  <2>4. Accounted(c)'
    BY <1>a, <1>b, <1>17, <2>1 DEF Linked, Accounted, Setting, Working, dataVars
  <2> QED
    BY <1>0, <1>a, <2>2, <2>3, <2>4, AccountLemma DEF IInv
<1>18. ASSUME NEW c \in Conns, CollectProperties(c)
      PROVE  IInv'
  <2>1. TypeOK'
    BY <1>0, <1>a, <1>18 DEF CollectProperties, TypeOK, dataVars, Phases, Working, Setting
  <2>2. OthersKept(c)
    BY <1>a, <1>b, <1>18 DEF CollectProperties, OthersKept, dataVars
  <2>3. Accounted(c)'
    BY <1>a, <1>b, <1>18 DEF CollectProperties, Accounted, Setting, Working, dataVars
  <2> QED
    BY <1>0, <1>a, <2>1, <2>2, <2>3, AccountLemma DEF IInv
<1>19. ASSUME NEW c \in Conns, SendInit(c)
      PROVE  IInv'
  <2>1. TypeOK'
    BY <1>0, <1>a, <1>19 DEF SendInit, TypeOK, NoView, Phases, Working, Setting
  <2>2. OthersKept(c)
    BY <1>a, <1>b, <1>19 DEF SendInit, OthersKept, dataVars
  <2>3. Accounted(c)'
    BY <1>a, <1>b, <1>19 DEF SendInit, Accounted, Setting, Working, dataVars
  <2> QED
    BY <1>0, <1>a, <2>1, <2>2, <2>3, AccountLemma DEF IInv
<1>20. ASSUME NEW c \in Conns, Unlink(c)
      PROVE  IInv'
  <2>1. TypeOK'
    BY <1>0, <1>a, <1>20 DEF Unlink, TypeOK, dataVars, Phases, Working, Setting, NoView
  <2>2. OthersKept(c)
    BY <1>a, <1>b, <1>20 DEF Unlink, OthersKept, dataVars
  <2>3. Accounted(c)'
    BY <1>a, <1>b, <1>20 DEF Unlink, Accounted, Setting, Working, dataVars
  <2> QED
    BY <1>0, <1>a, <2>1, <2>2, <2>3, AccountLemma DEF IInv
<1>21. ASSUME OnProperty
      PROVE  IInv'
  <2>1. em' \in Lock!RWLocks /\ em'.readers = em.readers
    BY <1>a, <1>b, <1>21, LockLemma DEF OnProperty, Ask
  <2>2. TypeOK'
    BY <1>0, <1>a, <1>21, <2>1 DEF OnProperty, Ask, TypeOK, dataVars, Phases, Working, Setting
  <2>3. OthersKept(Loop)
    BY <1>a, <1>b, <1>21, <2>1 DEF OnProperty, Ask, OthersKept, dataVars
  <2>4. Accounted(Loop)'
    BY <1>a, <1>b, <1>21, <2>1 DEF OnProperty, Ask, Accounted, Setting, Working, dataVars
  <2> QED
    BY <1>0, <1>a, <2>2, <2>3, <2>4, AccountLemma DEF IInv
<1>22. ASSUME NEW t \in Threads, NEW p \in Props, Add(t, p)
      PROVE  IInv'
  <2>1. em' \in Lock!RWLocks /\ em'.readers = em.readers
    BY <1>a, <1>b, <1>22, LockLemma DEF Add
  <2>2. TypeOK'
    BY <1>0, <1>a, <1>22, <2>1 DEF Add, TypeOK, dataVars, Phases, Working, Setting
  <2>3. OthersKept(t)
    BY <1>a, <1>b, <1>22, <2>1 DEF Add, OthersKept, dataVars
  <2>4. Accounted(t)'
    BY <1>a, <1>b, <1>22, <2>1 DEF Add, Accounted, Setting, Working, dataVars
  <2> QED
    BY <1>0, <1>a, <2>2, <2>3, <2>4, AccountLemma DEF IInv
<1>23. ASSUME NEW t \in Threads, OnPropertyInside(t)
      PROVE  IInv'
  <2>1. em' \in Lock!RWLocks /\ em'.readers = em.readers
    BY <1>a, <1>b, <1>23, LockLemma DEF OnPropertyInside, Ask
  <2>2. TypeOK'
    BY <1>0, <1>a, <1>23, <2>1 DEF OnPropertyInside, Ask, TypeOK, dataVars, Phases, Working, Setting
  <2>3. OthersKept(t)
    BY <1>a, <1>b, <1>23, <2>1 DEF OnPropertyInside, Ask, OthersKept, dataVars
  <2>4. Accounted(t)'
    BY <1>a, <1>b, <1>23, <2>1 DEF OnPropertyInside, Ask, Accounted, Setting, Working, dataVars
  <2> QED
    BY <1>0, <1>a, <2>2, <2>3, <2>4, AccountLemma DEF IInv
<1>24. ASSUME NEW c \in Conns, NEW p \in Props, Marshal(c, p)
      PROVE  IInv'
  <2>1. TypeOK'
    BY <1>0, <1>24 DEF Marshal, TypeOK
  <2>2. OthersKept(c)
    BY <1>24 DEF Marshal, OthersKept
  <2>3. Accounted(c)'
    BY <1>a, <1>b, <1>24 DEF Marshal, Accounted
  <2> QED
    BY <1>0, <1>a, <2>1, <2>2, <2>3, AccountLemma DEF IInv
<1>25. CASE UNCHANGED vars
  BY <1>0, <1>25 DEF vars, IInv, TypeOK, LocksAccounted, Accounted
<1> QED
  BY <1>4, <1>5, <1>6, <1>7, <1>8, <1>9, <1>10, <1>11, <1>12, <1>13, <1>14, <1>15, <1>16,
        <1>17, <1>18, <1>19, <1>20, <1>21, <1>22, <1>23, <1>24, <1>25
     DEF Next, Begin, Continue, Joins, Connection

(* Whatever the threads do, every variable keeps its type ...              *)
THEOREM TypeCorrect == Spec => []TypeOK
<1>1. IInv => TypeOK
  BY DEF IInv
<1> QED
  BY <1>1, InitLemma, StepLemma, PTL DEF Spec

(* ... and every lock that is held is accounted for: a thread that is idle *)
(* holds none.                                                             *)
THEOREM LocksCorrect == Spec => []LocksAccounted
<1>1. IInv => LocksAccounted
  BY DEF IInv
<1> QED
  BY <1>1, InitLemma, StepLemma, PTL DEF Spec
-----------------------------------------------------------------------------
(* One thread changes the service, and the listener of the script does not *)
(* assign to the property it listens to.                                   *)
OneWriter == /\ \A s, t \in Mutators : s = t
             /\ "assign" \notin ListenerDoes

SamePc(t) == \A u \in Threads \ {t} : pc'[u] = pc[u]

SameOthers(t) == \A u \in Threads \ {t} : pc'[u] = pc[u] /\ frames'[u] = frames[u]

(* What makes the clients converge while one thread changes the service:   *)
(* only that thread works, no assignment runs inside another, a value not  *)
(* yet published is on its way in the thread that stored it, the source    *)
(* has a node once a client is linked, an INIT has values only while it is *)
(* made, and what was published, and has not overtaken an INIT, is in that *)
(* INIT and in what the clients have.                                      *)
OnTheWay(t) == pc[t] \in {"emit", "listen", "inside", "emitted", "notify"}

OnlyMutatorsWork == \A t \in Threads : pc[t] \in Working => t \in Mutators

NeverNested == \A t \in Threads : Len(frames[t]) <= 1

StoredIsCurrent == \A t \in Threads : OnTheWay(t) => props[Top(t).prop] = Top(t).value

UnpublishedOnTheWay ==
  \A p \in Props : published[p] # props[p] =>
                     \E t \in Threads : OnTheWay(t) /\ Top(t).prop = p

NodeKnown == \A c \in linked : pc[c] # "link" => node # Nobody

JoiningLinked == \A c \in Conns : Joining(c) => c \in linked

LettersOpen == \A c \in Conns : pc[c] # "init" => inits[c] = NoView

LettersInStep ==
  \A c \in linked : \A p \in Props \ overtaken[c] :
    published[p] = props[p] => inits[c][p] \in {Unknown, props[p]}

JoinedInStep ==
  \A c \in linked : \A p \in Props \ overtaken[c] :
    (~Joining(c) /\ published[p] = props[p]) => views[c][p] = props[p]

InStep ==
  /\ OnlyMutatorsWork
  /\ NeverNested
  /\ StoredIsCurrent
  /\ UnpublishedOnTheWay
  /\ NodeKnown
  /\ JoiningLinked
  /\ LettersOpen
  /\ LettersInStep
  /\ JoinedInStep

(* Initially no client is linked and the properties agree.                 *)
LEMMA InStepInit == ASSUME Init PROVE InStep
<1>1. \A t \in Threads : pc[t] = "idle" /\ Len(frames[t]) = 0
  BY EmptySeq DEF Init
<1>2. linked = {} /\ published = props /\ \A c \in Conns : inits[c] = NoView
  BY DEF Init
<1>3. OnlyMutatorsWork /\ NeverNested /\ StoredIsCurrent
  BY <1>1 DEF OnlyMutatorsWork, NeverNested, StoredIsCurrent, OnTheWay, Working, Setting
<1>4. UnpublishedOnTheWay /\ NodeKnown /\ JoiningLinked
  BY <1>1, <1>2 DEF UnpublishedOnTheWay, NodeKnown, JoiningLinked, Joining, Threads
<1>5. LettersOpen /\ LettersInStep /\ JoinedInStep
  BY <1>2 DEF LettersOpen, LettersInStep, JoinedInStep
<1> QED
  BY <1>3, <1>4, <1>5 DEF InStep

(* A step of t disturbs the parts about threads only at t.                 *)
LEMMA ThreadPartsLemma ==
  ASSUME IInv, InStep, NEW t \in Threads, SameOthers(t),
         pc'[t] \in Working => t \in Mutators,
         Len(frames'[t]) <= 1
  PROVE  OnlyMutatorsWork' /\ NeverNested'
<1>1. OnlyMutatorsWork /\ NeverNested
  BY DEF InStep
<1>2. OnlyMutatorsWork'
  BY <1>1 DEF OnlyMutatorsWork, SameOthers
<1>3. NeverNested'
  BY <1>1 DEF NeverNested, SameOthers
<1> QED
  BY <1>2, <1>3

(* A step of one thread that moves no value and leaves the clients alone   *)
(* keeps what the clients have, as long as the thread keeps joining.       *)
LEMMA ClientPartsLemma ==
  ASSUME IInv, InStep, NEW t \in Threads, SamePc(t),
         Joining(t)' <=> Joining(t),
         pc[t] \notin {"link", "init"},
         UNCHANGED <<props, linked, inits, views, published, node, overtaken>>
  PROVE  /\ NodeKnown' /\ JoiningLinked' /\ LettersOpen'
         /\ LettersInStep' /\ JoinedInStep'
<1>0. NodeKnown /\ JoiningLinked /\ LettersOpen /\ LettersInStep /\ JoinedInStep
  BY DEF InStep
<1>1. \A u \in Threads : Joining(u)' <=> Joining(u)
  BY DEF SamePc, Joining
<1>2. linked \subseteq Threads /\ Conns \subseteq Threads
  BY DEF IInv, TypeOK, Threads
<1>3. NodeKnown'
  BY <1>0, <1>2 DEF NodeKnown, SamePc
<1>4. JoiningLinked'
  BY <1>0, <1>1, <1>2 DEF JoiningLinked
<1>5. LettersOpen'
  <2> SUFFICES ASSUME NEW c \in Conns, pc'[c] # "init" PROVE inits[c] = NoView
    BY DEF LettersOpen
  <2>1. pc[c] # "init"
    BY <1>2 DEF SamePc
  <2> QED
    BY <1>0, <2>1 DEF LettersOpen
<1>6. LettersInStep'
  BY <1>0 DEF LettersInStep
<1>7. JoinedInStep'
  BY <1>0, <1>1, <1>2 DEF JoinedInStep
<1> QED
  BY <1>3, <1>4, <1>5, <1>6, <1>7

(* A step that opens and ends no assignment and stays on its way, or off   *)
(* it, leaves the assignments as they are ...                              *)
LEMMA AssignmentPartsLemma ==
  ASSUME IInv, InStep, NEW t \in Threads, SameOthers(t), frames' = frames,
         pc'[t] \in Working => t \in Mutators,
         OnTheWay(t)' <=> OnTheWay(t),
         UNCHANGED <<props, published>>
  PROVE  OnlyMutatorsWork' /\ NeverNested' /\ StoredIsCurrent' /\ UnpublishedOnTheWay'
<1>0. StoredIsCurrent /\ UnpublishedOnTheWay /\ NeverNested
  BY DEF InStep
<1>1. \A u \in Threads : OnTheWay(u)' <=> OnTheWay(u)
  BY DEF SameOthers, OnTheWay
<1>2. OnlyMutatorsWork' /\ NeverNested'
  BY <1>0, ThreadPartsLemma DEF NeverNested
<1>3. StoredIsCurrent'
  BY <1>0, <1>1 DEF StoredIsCurrent, Top
<1>4. UnpublishedOnTheWay'
  BY <1>0, <1>1 DEF UnpublishedOnTheWay, Top
<1> QED
  BY <1>2, <1>3, <1>4

(* ... and if it leaves the clients alone too, everything stays in step.   *)
LEMMA QuietStepLemma ==
  ASSUME IInv, InStep, NEW t \in Threads, SameOthers(t), frames' = frames,
         pc'[t] \in Working => t \in Mutators,
         OnTheWay(t)' <=> OnTheWay(t),
         Joining(t)' <=> Joining(t),
         pc[t] \notin {"link", "init"},
         UNCHANGED <<props, linked, inits, views, published, node, overtaken>>
  PROVE  InStep'
<1>1. OnlyMutatorsWork' /\ NeverNested' /\ StoredIsCurrent' /\ UnpublishedOnTheWay'
  BY AssignmentPartsLemma
<1>2. NodeKnown' /\ JoiningLinked' /\ LettersOpen' /\ LettersInStep' /\ JoinedInStep'
  BY ClientPartsLemma DEF SameOthers, SamePc
<1> QED
  BY <1>1, <1>2 DEF InStep

(* The other steps move a value, a frame or a client.                      *)
LEMMA InStepLemma ==
  ASSUME OneWriter, IInv, InStep, [Next]_vars
  PROVE  InStep'
<1> USE ServiceAssumption DEF Goto
<1>0. /\ TypeOK
      /\ OnlyMutatorsWork /\ NeverNested /\ StoredIsCurrent /\ UnpublishedOnTheWay
      /\ NodeKnown /\ JoiningLinked /\ LettersOpen /\ LettersInStep /\ JoinedInStep
  BY DEF IInv, InStep
<1>a. /\ pc \in [Threads -> Phases] /\ frames \in [Threads -> Seq(Frame)]
      /\ Conns \subseteq Threads /\ Loop \in Threads
  BY StateLemma
<1>b. \A t \in Threads : /\ Len(frames[t]) \in Nat
                         /\ Len(frames[t]) <= 1
                         /\ pc[t] \in Setting <=> Len(frames[t]) > 0
                         /\ pc[t] \in Setting => Top(t).prop \in Props /\ Top(t).value \in Values
  <2>1. \A t \in Threads : Len(frames[t]) \in Nat /\ Len(frames[t]) <= 1
    BY <1>0, StateLemma DEF NeverNested
  <2>2. \A t \in Threads : pc[t] \in Setting <=> Len(frames[t]) > 0
    BY StateLemma DEF Accounted
  <2>3. \A t \in Threads : pc[t] \in Setting => Top(t).prop \in Props /\ Top(t).value \in Values
    BY StateLemma
  <2> QED
    BY <2>1, <2>2, <2>3
<1>c. /\ props \in [Props -> Values] /\ published \in [Props -> Values]
      /\ views \in [Conns -> [Props -> Values \cup {Unknown}]]
      /\ inits \in [Conns -> [Props -> Values \cup {Unknown}]]
      /\ linked \subseteq Conns /\ overtaken \in [Conns -> SUBSET Props]
  BY <1>0 DEF TypeOK
<1>d. \A s, t \in Threads : pc[s] \in Working /\ pc[t] \in Working => s = t
  BY <1>0 DEF OnlyMutatorsWork, OneWriter
<1>1. ASSUME NEW t \in Threads, Invoke(t)
      PROVE  InStep'
  <2>1. /\ SameOthers(t) /\ frames' = frames
        /\ pc'[t] \in Working => t \in Mutators
        /\ (OnTheWay(t)' <=> OnTheWay(t)) /\ (Joining(t)' <=> Joining(t))
        /\ pc[t] \notin {"link", "init"}
        /\ UNCHANGED <<props, linked, inits, views, published, node, overtaken>>
    BY <1>0, <1>a, <1>1 DEF Invoke, dataVars, SameOthers, OnlyMutatorsWork, Working,
          Setting,
                          OnTheWay, Joining
  <2> QED
    BY <1>a, <2>1, QuietStepLemma
<1>2. ASSUME NEW t \in Threads, NEW p \in Props, NEW v \in Assigned, SetProperty(t, p, v)
      PROVE  InStep'
  <2>0. /\ frames'[t] # <<>> /\ Len(frames'[t]) = Len(frames[t]) + 1
        /\ \A u \in Threads \ {t} : frames'[u] = frames[u]
    BY <1>2, PushStepLemma DEF SetProperty
  <2>p. pc[t] \notin Setting /\ pc' = [pc EXCEPT ![t] = "compare"] /\ t \in Mutators
    BY <1>0, <1>2 DEF SetProperty, OnlyMutatorsWork, Working, Setting
  <2>1. /\ SameOthers(t)
        /\ pc'[t] \in Working => t \in Mutators
        /\ Len(frames'[t]) <= 1
    <3>1. Len(frames[t]) = 0
      BY <1>b, <2>p
    <3> QED
      BY <1>a, <2>0, <2>p, <3>1 DEF SameOthers
  <2>2. OnlyMutatorsWork' /\ NeverNested'
    BY <1>a, <2>1, ThreadPartsLemma
  <2>3. StoredIsCurrent'
    BY <1>0, <1>a, <1>2, <2>0, <2>p DEF SetProperty, dataVars, StoredIsCurrent, OnTheWay,
          Top, Working, Setting, dataVars
  <2>4. UnpublishedOnTheWay'
    <3>1. \A u \in Threads : OnTheWay(u) => OnTheWay(u)' /\ Top(u)' = Top(u)
      BY <1>a, <2>0, <2>p DEF OnTheWay, Top, Setting
    <3>2. published' = published /\ props' = props
      BY <1>2 DEF SetProperty, dataVars
    <3> QED
      BY <1>0, <3>1, <3>2 DEF UnpublishedOnTheWay
  <2>5. NodeKnown' /\ JoiningLinked' /\ LettersOpen' /\ LettersInStep' /\ JoinedInStep'
    <3>1. /\ SamePc(t) /\ pc[t] \notin {"link", "init"} /\ (Joining(t)' <=> Joining(t))
          /\ UNCHANGED <<props, linked, inits, views, published, node, overtaken>>
      BY <1>a, <1>2, <2>1 DEF SetProperty, dataVars, SamePc, SameOthers, Joining
    <3> QED
      BY <3>1, ClientPartsLemma
  <2> QED
    BY <2>2, <2>3, <2>4, <2>5 DEF InStep
<1>3. ASSUME NEW t \in Threads, NEW p \in Props, BelowMax(t, p)
      PROVE  InStep'
  <2>1. /\ SameOthers(t) /\ frames' = frames
        /\ pc'[t] \in Working => t \in Mutators
        /\ (OnTheWay(t)' <=> OnTheWay(t)) /\ (Joining(t)' <=> Joining(t))
        /\ pc[t] \notin {"link", "init"}
        /\ UNCHANGED <<props, linked, inits, views, published, node, overtaken>>
    BY <1>0, <1>a, <1>3 DEF BelowMax, dataVars, SameOthers, OnlyMutatorsWork, Working,
          Setting,
                          OnTheWay, Joining
  <2> QED
    BY <1>a, <2>1, QuietStepLemma
<1>4. ASSUME NEW t \in Threads, NEW p \in Props, Increment(t, p)
      PROVE  InStep'
  <2>0. /\ frames'[t] # <<>> /\ Len(frames'[t]) = Len(frames[t]) + 1
        /\ \A u \in Threads \ {t} : frames'[u] = frames[u]
    <3>1. Capped(props[p] + 1) \in Values
      BY <1>c DEF Capped, Values
    <3> QED
      BY <1>4, <3>1, PushStepLemma DEF Increment
  <2>p. pc[t] \notin Setting /\ pc' = [pc EXCEPT ![t] = "compare"] /\ t \in Mutators
    BY <1>0, <1>4 DEF Increment, OnlyMutatorsWork, Working, Setting
  <2>1. /\ SameOthers(t)
        /\ pc'[t] \in Working => t \in Mutators
        /\ Len(frames'[t]) <= 1
    <3>1. Len(frames[t]) = 0
      BY <1>b, <2>p
    <3> QED
      BY <1>a, <2>0, <2>p, <3>1 DEF SameOthers
  <2>2. OnlyMutatorsWork' /\ NeverNested'
    BY <1>a, <2>1, ThreadPartsLemma
  <2>3. StoredIsCurrent'
    BY <1>0, <1>a, <1>4, <2>0, <2>p DEF Increment, dataVars, StoredIsCurrent, OnTheWay,
          Top, Working, Setting, dataVars
  <2>4. UnpublishedOnTheWay'
    <3>1. \A u \in Threads : OnTheWay(u) => OnTheWay(u)' /\ Top(u)' = Top(u)
      BY <1>a, <2>0, <2>p DEF OnTheWay, Top, Setting
    <3>2. published' = published /\ props' = props
      BY <1>4 DEF Increment, dataVars
    <3> QED
      BY <1>0, <3>1, <3>2 DEF UnpublishedOnTheWay
  <2>5. NodeKnown' /\ JoiningLinked' /\ LettersOpen' /\ LettersInStep' /\ JoinedInStep'
    <3>1. /\ SamePc(t) /\ pc[t] \notin {"link", "init"} /\ (Joining(t)' <=> Joining(t))
          /\ UNCHANGED <<props, linked, inits, views, published, node, overtaken>>
      BY <1>a, <1>4, <2>1 DEF Increment, dataVars, SamePc, SameOthers, Joining
    <3> QED
      BY <3>1, ClientPartsLemma
  <2> QED
    BY <2>2, <2>3, <2>4, <2>5 DEF InStep
<1>5. ASSUME NEW t \in Threads, NEW p \in Props, AtLimit(t, p)
      PROVE  InStep'
  <2>1. /\ SameOthers(t) /\ frames' = frames
        /\ pc'[t] \in Working => t \in Mutators
        /\ (OnTheWay(t)' <=> OnTheWay(t)) /\ (Joining(t)' <=> Joining(t))
        /\ pc[t] \notin {"link", "init"}
        /\ UNCHANGED <<props, linked, inits, views, published, node, overtaken>>
    BY <1>0, <1>a, <1>5 DEF AtLimit, dataVars, SameOthers, OnlyMutatorsWork, Working,
          Setting,
                          OnTheWay, Joining
  <2> QED
    BY <1>a, <2>1, QuietStepLemma
<1>6. ASSUME NEW t \in Threads, Return(t)
      PROVE  InStep'
  <2>1. /\ SameOthers(t) /\ frames' = frames
        /\ pc'[t] \in Working => t \in Mutators
        /\ (OnTheWay(t)' <=> OnTheWay(t)) /\ (Joining(t)' <=> Joining(t))
        /\ pc[t] \notin {"link", "init"}
        /\ UNCHANGED <<props, linked, inits, views, published, node, overtaken>>
    BY <1>0, <1>a, <1>6 DEF Return, dataVars, SameOthers, OnlyMutatorsWork, Working,
          Setting,
                          OnTheWay, Joining
  <2> QED
    BY <1>a, <2>1, QuietStepLemma
<1>7. ASSUME NEW t \in Threads, CompareSame(t)
      PROVE  InStep'
  <2>0. pc'[t] = "return" /\ \A u \in Threads \ {t} : frames'[u] = frames[u] /\ pc'[u] = pc[u]
    BY <1>b, <1>7, PopStepLemma DEF CompareSame, Setting
  <2>1. /\ SameOthers(t)
        /\ pc'[t] \in Working => t \in Mutators
        /\ Len(frames'[t]) <= 1
    BY <1>0, <1>a, <1>b, <1>7, PopStepLemma DEF CompareSame, SameOthers,
          OnlyMutatorsWork, Working, Setting, dataVars
  <2>2. OnlyMutatorsWork' /\ NeverNested'
    BY <1>a, <2>1, ThreadPartsLemma
  <2>3. StoredIsCurrent'
    BY <1>0, <1>7, <2>0 DEF CompareSame, StoredIsCurrent, OnTheWay, Top, dataVars
  <2>4. UnpublishedOnTheWay'
    BY <1>0, <1>a, <1>b, <1>c, <1>d, <2>1, <1>7, PopStepLemma DEF CompareSame,
          SameOthers, UnpublishedOnTheWay, OnTheWay, Top, Working, Setting, dataVars
  <2>5. NodeKnown' /\ JoiningLinked' /\ LettersOpen' /\ LettersInStep' /\ JoinedInStep'
    <3>1. /\ SamePc(t) /\ pc[t] \notin {"link", "init"} /\ (Joining(t)' <=> Joining(t))
          /\ UNCHANGED <<props, linked, inits, views, published, node, overtaken>>
      BY <1>a, <1>7, <2>1, <2>0 DEF CompareSame, dataVars, Setting, SamePc, SameOthers, Joining
    <3> QED
      BY <3>1, ClientPartsLemma
  <2> QED
    BY <2>2, <2>3, <2>4, <2>5 DEF InStep
<1>8. ASSUME NEW t \in Threads, CompareNew(t)
      PROVE  InStep'
  <2>1. /\ SameOthers(t) /\ frames' = frames
        /\ pc'[t] \in Working => t \in Mutators
        /\ (OnTheWay(t)' <=> OnTheWay(t)) /\ (Joining(t)' <=> Joining(t))
        /\ pc[t] \notin {"link", "init"}
        /\ UNCHANGED <<props, linked, inits, views, published, node, overtaken>>
    BY <1>0, <1>a, <1>8 DEF CompareNew, dataVars, SameOthers, OnlyMutatorsWork, Working,
          Setting,
                          OnTheWay, Joining
  <2> QED
    BY <1>a, <2>1, QuietStepLemma
<1>9. ASSUME NEW t \in Threads, Store(t)
      PROVE  InStep'
  <2>1. /\ SameOthers(t)
        /\ pc'[t] \in Working => t \in Mutators
        /\ Len(frames'[t]) <= 1
    BY <1>0, <1>a, <1>b, <1>9 DEF Store, SameOthers, OnlyMutatorsWork, Working, Setting,
          dataVars
  <2>2. OnlyMutatorsWork' /\ NeverNested'
    BY <1>a, <2>1, ThreadPartsLemma
  <2>3. StoredIsCurrent'
    BY <1>0, <1>a, <1>b, <1>c, <1>d, <2>1, <1>9 DEF Store, SameOthers, StoredIsCurrent,
          OnTheWay, Top, Working, Setting, dataVars
  <2>4. UnpublishedOnTheWay'
    BY <1>0, <1>a, <1>b, <1>c, <1>d, <2>1, <1>9 DEF Store, SameOthers,
          UnpublishedOnTheWay, OnTheWay, Top, Working, Setting, dataVars
  <2>5. /\ SamePc(t) /\ pc[t] = "store" /\ pc'[t] = "emit"
        /\ UNCHANGED <<linked, inits, views, published, node, overtaken>>
    BY <1>a, <1>9 DEF Store, SamePc
  <2>6. \A u \in Threads : ~OnTheWay(u)
    BY <1>d, <1>9 DEF Store, OnTheWay, Working, Setting
  <2>7. \A p \in Props : published[p] = props[p]
    BY <1>0, <2>6 DEF UnpublishedOnTheWay
  <2>8. \A u \in Threads : Joining(u)' <=> Joining(u)
    BY <2>5 DEF SamePc, Joining
  <2>9. NodeKnown' /\ JoiningLinked'
    BY <1>0, <1>a, <1>c, <2>5, <2>8 DEF NodeKnown, JoiningLinked, SamePc
  <2>10. LettersOpen'
    BY <1>0, <1>a, <2>5 DEF LettersOpen, SamePc
  <2>11. LettersInStep'
    <3> SUFFICES ASSUME NEW c \in linked, NEW p \in Props \ overtaken[c],
                        published[p] = props'[p]
                 PROVE  inits[c][p] \in {Unknown, props'[p]}
      BY <2>5 DEF LettersInStep
    <3> QED
      BY <1>0, <2>7 DEF LettersInStep
  <2>12. JoinedInStep'
    <3> SUFFICES ASSUME NEW c \in linked, NEW p \in Props \ overtaken[c],
                        ~Joining(c), published[p] = props'[p]
                 PROVE  views[c][p] = props'[p]
      BY <1>a, <1>c, <2>5, <2>8 DEF JoinedInStep
    <3> QED
      BY <1>0, <2>7 DEF JoinedInStep
  <2> QED
    BY <2>2, <2>3, <2>4, <2>9, <2>10, <2>11, <2>12 DEF InStep
<1>10. ASSUME NEW t \in Threads, Emit(t)
      PROVE  InStep'
  <2>1. /\ SameOthers(t) /\ frames' = frames
        /\ pc'[t] \in Working => t \in Mutators
        /\ (OnTheWay(t)' <=> OnTheWay(t)) /\ (Joining(t)' <=> Joining(t))
        /\ pc[t] \notin {"link", "init"}
        /\ UNCHANGED <<props, linked, inits, views, published, node, overtaken>>
    BY <1>0, <1>a, <1>10 DEF Emit, OneWriter, dataVars, SameOthers, OnlyMutatorsWork,
          Working, Setting,
                          OnTheWay, Joining
  <2> QED
    BY <1>a, <2>1, QuietStepLemma
<1>11. ASSUME NEW t \in Threads, Emitted(t)
      PROVE  InStep'
  <2>1. /\ SameOthers(t) /\ frames' = frames
        /\ pc'[t] \in Working => t \in Mutators
        /\ (OnTheWay(t)' <=> OnTheWay(t)) /\ (Joining(t)' <=> Joining(t))
        /\ pc[t] \notin {"link", "init"}
        /\ UNCHANGED <<props, linked, inits, views, published, node, overtaken>>
    BY <1>0, <1>a, <1>11 DEF Emitted, dataVars, SameOthers, OnlyMutatorsWork, Working,
          Setting,
                          OnTheWay, Joining
  <2> QED
    BY <1>a, <2>1, QuietStepLemma
<1>12. ASSUME NEW t \in Threads, Notify(t)
      PROVE  InStep'
  <2>0. pc'[t] = "return" /\ \A u \in Threads \ {t} : frames'[u] = frames[u] /\ pc'[u] = pc[u]
    BY <1>b, <1>12, PopStepLemma DEF Notify, Setting
  <2>n. /\ published' = [published EXCEPT ![Top(t).prop] = props[Top(t).prop]]
        /\ Top(t).value = props[Top(t).prop] /\ Top(t).prop \in Props
        /\ props' = props /\ linked' = linked /\ node' = node
    <3>1. Top(t).value = props[Top(t).prop] /\ Top(t).prop \in Props
      BY <1>0, <1>b, <1>12 DEF Notify, StoredIsCurrent, OnTheWay, Setting
    <3>2. published' = [published EXCEPT ![Top(t).prop] = Top(t).value]
      BY <1>12 DEF Notify, Announce
    <3> QED
      BY <1>12, <3>1, <3>2 DEF Notify
  <2>1. /\ SameOthers(t)
        /\ pc'[t] \in Working => t \in Mutators
        /\ Len(frames'[t]) <= 1
    BY <1>0, <1>a, <1>b, <1>12, PopStepLemma DEF Notify, SameOthers, OnlyMutatorsWork,
          Working, Setting, dataVars
  <2>2. OnlyMutatorsWork' /\ NeverNested'
    BY <1>a, <2>1, ThreadPartsLemma
  <2>3. StoredIsCurrent'
    <3>1. \A u \in Threads : OnTheWay(u) => u = t
      BY <1>d, <1>12 DEF Notify, OnTheWay, Working, Setting
    <3>2. \A u \in Threads : ~OnTheWay(u)'
      BY <2>0, <3>1 DEF OnTheWay
    <3> QED
      BY <3>2 DEF StoredIsCurrent
  <2>4. UnpublishedOnTheWay'
    <3>1. \A u \in Threads : OnTheWay(u) => u = t
      BY <1>d, <1>12 DEF Notify, OnTheWay, Working, Setting
    <3>2. \A p \in Props \ {Top(t).prop} : published[p] = props[p]
      BY <1>0, <3>1 DEF UnpublishedOnTheWay
    <3> QED
      BY <1>c, <2>n, <3>2 DEF UnpublishedOnTheWay
  <2>5. /\ SamePc(t) /\ pc[t] = "notify" /\ pc'[t] = "return" /\ inits' = inits
    BY <1>12, <2>0 DEF Notify, SamePc
  <2>6. \A u \in Threads : Joining(u)' <=> Joining(u)
    BY <2>5 DEF SamePc, Joining
  <2>7. NodeKnown' /\ JoiningLinked'
    BY <1>0, <1>a, <1>c, <2>n, <2>5, <2>6 DEF NodeKnown, JoiningLinked, SamePc
  <2>8. LettersOpen'
    BY <1>0, <1>a, <2>5 DEF LettersOpen, SamePc
  <2>9. PICK q \in Props : q = Top(t).prop
    BY <2>n
  <2>10. ASSUME NEW c \in linked, pc[c] # "link"
         PROVE  /\ views'[c] = [views[c] EXCEPT ![q] = props[q]]
                /\ overtaken'[c] = IF inits[c][q] \in {Unknown, props[q]}
                                     THEN overtaken[c] \ {q} ELSE overtaken[c] \cup {q}
    <3>1. c \in Linkers
      BY <1>0, <2>10 DEF NodeKnown, Linkers
    <3> QED
      BY <1>c, <1>12, <2>n, <2>9, <3>1 DEF Notify, Announce
  <2>11. ASSUME NEW c \in linked, pc[c] # "init" PROVE \A p \in Props : inits[c][p] = Unknown
    BY <1>0, <1>c, <2>11 DEF LettersOpen, NoView
  <2>12. LettersInStep'
    <3> SUFFICES ASSUME NEW c \in linked, NEW p \in Props \ overtaken'[c],
                        published'[p] = props[p]
                 PROVE  inits[c][p] \in {Unknown, props[p]}
      BY <2>n, <2>5 DEF LettersInStep
    <3>1. CASE pc[c] # "init"
      BY <2>11, <3>1
    <3>2. CASE pc[c] = "init" /\ p = q
      BY <2>10, <3>2
    <3>3. CASE pc[c] = "init" /\ p # q
      <4>1. p \notin overtaken[c] /\ published[p] = props[p]
        BY <1>c, <2>n, <2>9, <2>10, <3>3
      <4> QED
        BY <1>0, <4>1 DEF LettersInStep
    <3> QED
      BY <3>1, <3>2, <3>3
  <2>13. JoinedInStep'
    <3> SUFFICES ASSUME NEW c \in linked, NEW p \in Props \ overtaken'[c],
                        ~Joining(c), published'[p] = props[p]
                 PROVE  views'[c][p] = props[p]
      BY <1>a, <1>c, <2>n, <2>6 DEF JoinedInStep
    <3>1. /\ pc[c] # "link" /\ c \in Conns
          /\ views'[c] = [views[c] EXCEPT ![q] = props[q]]
      BY <1>c, <2>10 DEF Joining
    <3>2. CASE p = q
      BY <1>c, <3>1, <3>2
    <3>3. CASE p # q
      <4>1. p \notin overtaken[c] /\ published[p] = props[p]
        <5>1. published[p] = props[p]
          BY <1>c, <2>n, <2>9, <3>3
        <5>2. overtaken'[c] = IF inits[c][q] \in {Unknown, props[q]}
                                   THEN overtaken[c] \ {q} ELSE overtaken[c] \cup {q}
          BY <2>10, <3>1
        <5> QED
          BY <3>3, <5>1, <5>2
      <4>2. views[c][p] = props[p]
        BY <1>0, <4>1 DEF JoinedInStep
      <4> QED
        BY <1>c, <3>1, <3>3, <4>2
    <3> QED
      BY <3>2, <3>3
  <2> QED
    BY <2>2, <2>3, <2>4, <2>7, <2>8, <2>12, <2>13 DEF InStep
<1>13. ASSUME NEW c \in Conns, Link(c)
      PROVE  InStep'
  <2>1. OnlyMutatorsWork' /\ NeverNested' /\ StoredIsCurrent' /\ UnpublishedOnTheWay'
    <3>1. /\ SameOthers(c) /\ frames' = frames /\ c \in Threads
          /\ pc'[c] \in Working => c \in Mutators
          /\ (OnTheWay(c)' <=> OnTheWay(c)) /\ UNCHANGED <<props, published>>
      BY <1>0, <1>a, <1>13 DEF Link, dataVars, SameOthers, OnlyMutatorsWork, OnTheWay,
         Working, Setting
    <3> QED
      BY <3>1, AssignmentPartsLemma
  <2>0. /\ pc[c] = "idle" /\ pc' = [pc EXCEPT ![c] = "link"] /\ linked' = linked \cup {c}
        /\ UNCHANGED <<props, inits, views, published, node, overtaken>>
    BY <1>13 DEF Link
  <2>2. NodeKnown'
    BY <1>0, <1>a, <1>c, <2>0 DEF NodeKnown
  <2>3. JoiningLinked'
    BY <1>0, <1>a, <2>0 DEF JoiningLinked, Joining
  <2>4. LettersOpen'
    BY <1>0, <1>a, <2>0 DEF LettersOpen
  <2>5. LettersInStep'
    <3>1. \A p \in Props : inits[c][p] = Unknown
      BY <1>0, <2>0 DEF LettersOpen, NoView
    <3> QED
      BY <1>0, <2>0, <3>1 DEF LettersInStep
  <2>6. JoinedInStep'
    BY <1>0, <1>a, <1>c, <2>0 DEF JoinedInStep, Joining
  <2> QED
    BY <2>1, <2>2, <2>3, <2>4, <2>5, <2>6 DEF InStep
<1>14. ASSUME NEW c \in Conns, Linked(c)
      PROVE  InStep'
  <2>1. OnlyMutatorsWork' /\ NeverNested' /\ StoredIsCurrent' /\ UnpublishedOnTheWay'
    <3>1. /\ SameOthers(c) /\ frames' = frames /\ c \in Threads
          /\ pc'[c] \in Working => c \in Mutators
          /\ (OnTheWay(c)' <=> OnTheWay(c)) /\ UNCHANGED <<props, published>>
      BY <1>0, <1>a, <1>14 DEF Linked, dataVars, SameOthers, OnlyMutatorsWork, OnTheWay,
         Working, Setting
    <3> QED
      BY <3>1, AssignmentPartsLemma
  <2>0. /\ pc[c] = "link" /\ pc' = [pc EXCEPT ![c] = "collect"] /\ node' = c
        /\ UNCHANGED <<props, inits, views, linked, published, overtaken>>
    BY <1>14 DEF Linked, dataVars
  <2>2. NodeKnown'
    BY <1>a, <2>0 DEF NodeKnown, Threads
  <2>3. JoiningLinked'
    BY <1>0, <1>a, <2>0 DEF JoiningLinked, Joining
  <2>4. LettersOpen'
    BY <1>0, <1>a, <2>0 DEF LettersOpen
  <2>5. LettersInStep'
    BY <1>0, <2>0 DEF LettersInStep
  <2>6. JoinedInStep'
    BY <1>0, <1>a, <1>c, <2>0 DEF JoinedInStep, Joining
  <2> QED
    BY <2>1, <2>2, <2>3, <2>4, <2>5, <2>6 DEF InStep
<1>15. ASSUME NEW c \in Conns, CollectProperties(c)
      PROVE  InStep'
  <2>1. /\ SameOthers(c) /\ frames' = frames
        /\ pc'[c] \in Working => c \in Mutators
        /\ (OnTheWay(c)' <=> OnTheWay(c)) /\ (Joining(c)' <=> Joining(c))
        /\ pc[c] \notin {"link", "init"}
        /\ UNCHANGED <<props, linked, inits, views, published, node, overtaken>>
    BY <1>0, <1>a, <1>15 DEF CollectProperties, dataVars, SameOthers, OnlyMutatorsWork,
          Working, Setting,
                          OnTheWay, Joining
  <2> QED
    BY <1>a, <2>1, QuietStepLemma
<1>16. ASSUME NEW c \in Conns, SendInit(c)
      PROVE  InStep'
  <2>1. OnlyMutatorsWork' /\ NeverNested' /\ StoredIsCurrent' /\ UnpublishedOnTheWay'
    <3>1. /\ SameOthers(c) /\ frames' = frames /\ c \in Threads
          /\ pc'[c] \in Working => c \in Mutators
          /\ (OnTheWay(c)' <=> OnTheWay(c)) /\ UNCHANGED <<props, published>>
      BY <1>0, <1>a, <1>16 DEF SendInit, dataVars, SameOthers, OnlyMutatorsWork, OnTheWay,
         Working, Setting
    <3> QED
      BY <3>1, AssignmentPartsLemma
  <2>0. /\ pc[c] = "init" /\ pc' = [pc EXCEPT ![c] = "idle"]
        /\ \A p \in Props : inits[c][p] # Unknown
        /\ views' = [views EXCEPT ![c] = inits[c]] /\ inits' = [inits EXCEPT ![c] = NoView]
        /\ UNCHANGED <<props, linked, published, node, overtaken>>
    BY <1>16 DEF SendInit
  <2>2. NodeKnown'
    BY <1>0, <1>a, <1>c, <2>0 DEF NodeKnown
  <2>3. JoiningLinked'
    BY <1>0, <1>a, <2>0 DEF JoiningLinked, Joining
  <2>4. LettersOpen'
    BY <1>0, <1>a, <1>c, <2>0 DEF LettersOpen
  <2>5. LettersInStep'
    <3> SUFFICES ASSUME NEW b \in linked, NEW p \in Props \ overtaken[b], published[p] = props[p]
                 PROVE  inits'[b][p] \in {Unknown, props[p]}
      BY <2>0 DEF LettersInStep
    <3>1. CASE b = c
      BY <1>c, <2>0, <3>1 DEF NoView
    <3>2. CASE b # c
      BY <1>0, <1>c, <2>0, <3>2 DEF LettersInStep
    <3> QED
      BY <3>1, <3>2
  <2>6. JoinedInStep'
    <3> SUFFICES ASSUME NEW b \in linked, NEW p \in Props \ overtaken[b],
                        ~Joining(b)', published[p] = props[p]
                 PROVE  views'[b][p] = props[p]
      BY <2>0 DEF JoinedInStep
    <3>1. CASE b = c
      BY <1>0, <1>c, <2>0, <3>1 DEF LettersInStep
    <3>2. CASE b # c
      BY <1>0, <1>a, <1>c, <2>0, <3>2 DEF JoinedInStep, Joining
    <3> QED
      BY <3>1, <3>2
  <2> QED
    BY <2>1, <2>2, <2>3, <2>4, <2>5, <2>6 DEF InStep
<1>17. ASSUME NEW c \in Conns, Unlink(c)
      PROVE  InStep'
  <2>1. OnlyMutatorsWork' /\ NeverNested' /\ StoredIsCurrent' /\ UnpublishedOnTheWay'
    <3>1. /\ SameOthers(c) /\ frames' = frames /\ c \in Threads
          /\ pc'[c] \in Working => c \in Mutators
          /\ (OnTheWay(c)' <=> OnTheWay(c)) /\ UNCHANGED <<props, published>>
      BY <1>0, <1>a, <1>17 DEF Unlink, dataVars, SameOthers, OnlyMutatorsWork, OnTheWay,
         Working, Setting
    <3> QED
      BY <3>1, AssignmentPartsLemma
  <2>0. /\ pc[c] = "idle" /\ linked' = linked \ {c}
        /\ views' = [views EXCEPT ![c] = NoView]
        /\ overtaken' = [overtaken EXCEPT ![c] = {}]
        /\ UNCHANGED <<props, inits, published, node, pc>>
    BY <1>17 DEF Unlink
  <2>2. NodeKnown'
    BY <1>0, <2>0 DEF NodeKnown
  <2>3. JoiningLinked'
    BY <1>0, <2>0 DEF JoiningLinked, Joining
  <2>4. LettersOpen'
    BY <1>0, <2>0 DEF LettersOpen
  <2>5. LettersInStep'
    BY <1>0, <1>c, <2>0 DEF LettersInStep
  <2>6. JoinedInStep'
    BY <1>0, <1>c, <2>0 DEF JoinedInStep, Joining
  <2> QED
    BY <2>1, <2>2, <2>3, <2>4, <2>5, <2>6 DEF InStep
<1>18. ASSUME NEW c \in Conns, NEW p \in Props, Marshal(c, p)
      PROVE  InStep'
  <2>1. OnlyMutatorsWork' /\ NeverNested' /\ StoredIsCurrent' /\ UnpublishedOnTheWay'
    <3>1. /\ SameOthers(c) /\ frames' = frames /\ c \in Threads
          /\ pc'[c] \in Working => c \in Mutators
          /\ (OnTheWay(c)' <=> OnTheWay(c)) /\ UNCHANGED <<props, published>>
      BY <1>0, <1>a, <1>18 DEF Marshal, dataVars, SameOthers, OnlyMutatorsWork, OnTheWay,
         Working, Setting
    <3> QED
      BY <3>1, AssignmentPartsLemma
  <2>0. /\ pc[c] = "init" /\ inits' = [inits EXCEPT ![c][p] = props[p]]
        /\ UNCHANGED <<props, views, linked, published, node, pc, overtaken>>
    BY <1>18 DEF Marshal
  <2>2. NodeKnown'
    BY <1>0, <2>0 DEF NodeKnown
  <2>3. JoiningLinked'
    BY <1>0, <2>0 DEF JoiningLinked, Joining
  <2>4. LettersOpen'
    BY <1>0, <2>0 DEF LettersOpen
  <2>5. LettersInStep'
    <3>1. \A b \in linked : \A q \in Props : inits'[b][q] \in {inits[b][q], props[q]}
      BY <1>c, <2>0
    <3> QED
      BY <1>0, <2>0, <3>1 DEF LettersInStep
  <2>6. JoinedInStep'
    BY <1>0, <2>0 DEF JoinedInStep, Joining
  <2> QED
    BY <2>1, <2>2, <2>3, <2>4, <2>5, <2>6 DEF InStep
<1>19. ASSUME OnProperty
      PROVE  InStep'
  <2>1. /\ SameOthers(Loop) /\ frames' = frames
        /\ pc'[Loop] \in Working => Loop \in Mutators
        /\ (OnTheWay(Loop)' <=> OnTheWay(Loop)) /\ (Joining(Loop)' <=> Joining(Loop))
        /\ pc[Loop] \notin {"link", "init"}
        /\ UNCHANGED <<props, linked, inits, views, published, node, overtaken>>
    BY <1>0, <1>a, <1>19 DEF OnProperty, Ask, dataVars, SameOthers, OnlyMutatorsWork,
       Working, Setting, OnTheWay, Joining
  <2> QED
    BY <1>a, <2>1, QuietStepLemma
<1>20. ASSUME NEW t \in Threads, OnPropertyInside(t)
      PROVE  InStep'
  <2>1. /\ SameOthers(t) /\ frames' = frames
        /\ pc'[t] \in Working => t \in Mutators
        /\ (OnTheWay(t)' <=> OnTheWay(t)) /\ (Joining(t)' <=> Joining(t))
        /\ pc[t] \notin {"link", "init"}
        /\ UNCHANGED <<props, linked, inits, views, published, node, overtaken>>
    BY <1>0, <1>a, <1>20 DEF OnPropertyInside, Ask, dataVars, SameOthers, OnlyMutatorsWork,
       Working, Setting, OnTheWay, Joining
  <2> QED
    BY <1>a, <2>1, QuietStepLemma
<1>21. ASSUME NEW t \in Threads, NEW p \in Props, Add(t, p)
      PROVE  InStep'
  <2>1. /\ SameOthers(t) /\ frames' = frames
        /\ pc'[t] \in Working => t \in Mutators
        /\ (OnTheWay(t)' <=> OnTheWay(t)) /\ (Joining(t)' <=> Joining(t))
        /\ pc[t] \notin {"link", "init"}
        /\ UNCHANGED <<props, linked, inits, views, published, node, overtaken>>
    BY <1>0, <1>a, <1>21 DEF Add, dataVars, SameOthers, OnlyMutatorsWork,
       Working, Setting, OnTheWay, Joining
  <2> QED
    BY <1>a, <2>1, QuietStepLemma
<1>22. CASE UNCHANGED vars
  <2>1. OnlyMutatorsWork' /\ NeverNested' /\ StoredIsCurrent' /\ UnpublishedOnTheWay'
    BY <1>0, <1>22 DEF vars, OnlyMutatorsWork, NeverNested, StoredIsCurrent,
       UnpublishedOnTheWay, OnTheWay, Top
  <2>2. NodeKnown' /\ JoiningLinked' /\ LettersOpen' /\ LettersInStep' /\ JoinedInStep'
    BY <1>0, <1>22 DEF vars, NodeKnown, JoiningLinked, LettersOpen, LettersInStep,
       JoinedInStep, Joining
  <2> QED
    BY <2>1, <2>2 DEF InStep
<1> QED
  BY <1>1, <1>2, <1>3, <1>4, <1>5, <1>6, <1>7, <1>8, <1>9, <1>10, <1>11, <1>12, <1>13,
     <1>14, <1>15, <1>16, <1>17, <1>18, <1>19, <1>20, <1>21, <1>22
     DEF Next, Begin, Continue, Joins, Connection

(* When one thread changes the service and no listener assigns, then,      *)
(* however many clients come and go, every linked client holds the         *)
(* properties the service has whenever nothing is going on, but for those  *)
(* whose last change was sent to it before an INIT made earlier.           *)
THEOREM ConvergedCorrect == ASSUME OneWriter PROVE Spec => []Converged
<1>1. Init => IInv /\ InStep
  BY InitLemma, InStepInit
<1>2. IInv /\ InStep /\ [Next]_vars => (IInv /\ InStep)'
  BY OneWriter, StepLemma, InStepLemma
<1>3. ASSUME IInv, InStep, Quiet, NEW c \in linked, NEW p \in Props \ overtaken[c]
      PROVE  views[c][p] = props[p]
  <2>1. c \in Threads
    BY <1>3 DEF IInv, TypeOK, Threads
  <2>2. \A t \in Threads : pc[t] = "idle"
    BY <1>3 DEF Quiet
  <2>3. published[p] = props[p]
    BY <1>3, <2>2 DEF InStep, UnpublishedOnTheWay, OnTheWay
  <2> QED
    BY <1>3, <2>1, <2>2, <2>3 DEF InStep, JoinedInStep, Joining
<1>4. IInv /\ InStep => Converged
  BY <1>3 DEF Converged
<1> QED
  BY <1>1, <1>2, <1>4, PTL DEF Spec
-----------------------------------------------------------------------------
(* Which thread a lock waits for is seen from where the threads are: the   *)
(* one that links has asked for the source's lock, the script, or the      *)
(* listener, that adds a listener for the table's, and none of them keeps  *)
(* the lock once it was let in.                                            *)
Placed(t) ==
  /\ pc[t] \in Working => t \in Mutators
  /\ Joining(t) => t \in Conns
  /\ pc[t] = "add" => t = Loop
  /\ (pc[t] = "link") <=> (src.writer = t)
  /\ (pc[t] \in {"add", "inside"}) <=> (em.writer = t)

WritersAsk ==
  /\ src.held = FALSE
  /\ em.held = FALSE
  /\ \A t \in Threads : Placed(t)

(* What the lock operators do to the writer.                               *)
LEMMA WriterLemma ==
  ASSUME NEW l \in Lock!RWLocks, NEW t \in Threads
  PROVE  /\ Lock!RLocked(l, t).writer = l.writer /\ Lock!RLocked(l, t).held = l.held
         /\ Lock!RUnlocked(l, t).writer = l.writer /\ Lock!RUnlocked(l, t).held = l.held
         /\ Lock!Asked(l, t).writer = t /\ Lock!Asked(l, t).held = l.held
         /\ Lock!WUnlocked(l).writer = Nobody /\ Lock!WUnlocked(l).held = FALSE
  BY DEF Lock!RWLocks, Lock!RLocked, Lock!RUnlocked, Lock!Asked, Lock!WUnlocked

(* Initially nobody waits and nobody works.                                *)
LEMMA WritersInit == Init => WritersAsk
<1> SUFFICES ASSUME Init PROVE WritersAsk
  OBVIOUS
<1>1. /\ src.held = FALSE /\ src.writer = Nobody
      /\ em.held = FALSE /\ em.writer = Nobody
  BY DEF Init, Lock!Unlocked
<1>2. \A t \in Threads : pc[t] = "idle" /\ t # Nobody
  BY ServiceAssumption DEF Init
<1> QED
  BY <1>1, <1>2 DEF WritersAsk, Placed, Joining, Working, Setting

(* A step of t that asks for no write lock and gives none back keeps the   *)
(* picture when t stays among those who may be where it goes.              *)
LEMMA ReaderStep ==
  ASSUME WritersAsk, NEW t \in Threads, SamePc(t),
         src'.writer = src.writer, src'.held = src.held,
         em'.writer = em.writer, em'.held = em.held,
         pc[t] \notin {"link", "add", "inside"}, pc'[t] \notin {"link", "add", "inside"},
         pc'[t] \in Working => t \in Mutators,
         Joining(t)' => t \in Conns
  PROVE  WritersAsk'
<1>1. \A u \in Threads : Placed(u)
  BY DEF WritersAsk
<1>2. Placed(t)'
  BY <1>1 DEF Placed
<1>3. \A u \in Threads \ {t} : Placed(u)'
  BY <1>1 DEF Placed, SamePc, Joining
<1> QED
  BY <1>2, <1>3 DEF WritersAsk

(* Every step keeps the picture.                                           *)
LEMMA WritersStep == ASSUME IInv, WritersAsk, [Next]_vars PROVE WritersAsk'
<1> USE ServiceAssumption DEF Goto
<1>a. /\ pc \in [Threads -> Phases] /\ src \in Lock!RWLocks /\ em \in Lock!RWLocks
      /\ Conns \subseteq Threads /\ Loop \in Threads
  BY StateLemma
<1>b. src.held = FALSE /\ em.held = FALSE /\ \A t \in Threads : Placed(t)
  BY DEF WritersAsk
<1>c. \A t \in Threads : t # Nobody
  BY DEF Threads
<1>d. \A t \in Threads : /\ pc[t] \in Working => t \in Mutators
                         /\ Joining(t) => t \in Conns
  BY <1>b DEF Placed
<1>1. ASSUME NEW t \in Threads, Enter(t)
      PROVE  src'.writer = src.writer /\ src'.held = src.held
  <2>1. src' = Lock!RLocked(src, t) \/ src' = src
    BY <1>1 DEF Enter
  <2>2. /\ Lock!RLocked(src, t).writer = src.writer
        /\ Lock!RLocked(src, t).held = src.held
    BY <1>a, WriterLemma
  <2> QED
    BY <2>1, <2>2
<1>2. ASSUME NEW t \in Threads, Invoke(t) PROVE WritersAsk'
  <2>1. /\ src'.writer = src.writer /\ src'.held = src.held /\ em' = em
        /\ pc[t] \notin {"link", "add", "inside"} /\ pc'[t] = "body" /\ t \in Mutators /\ SamePc(t)
    BY <1>a, <1>1, <1>2 DEF Invoke, SamePc
  <2> QED
    BY <2>1, ReaderStep DEF Joining
<1>3. ASSUME NEW t \in Threads, NEW p \in Props, NEW v \in Assigned, SetProperty(t, p, v)
      PROVE  WritersAsk'
  <2>1. /\ src'.writer = src.writer /\ src'.held = src.held /\ em' = em
        /\ pc[t] \notin {"link", "add", "inside"} /\ pc'[t] = "compare" /\ t \in Mutators /\ SamePc(t)
    BY <1>a, <1>1, <1>3 DEF SetProperty, SamePc
  <2> QED
    BY <2>1, ReaderStep DEF Joining
<1>4. ASSUME NEW t \in Threads, NEW p \in Props,
             BelowMax(t, p) \/ AtLimit(t, p) \/ Increment(t, p)
      PROVE  WritersAsk'
  <2>1. /\ src' = src /\ em' = em
        /\ pc[t] \in {"body", "count"} /\ pc'[t] \in {"count", "return", "compare"}
        /\ SamePc(t)
    BY <1>a, <1>4 DEF BelowMax, AtLimit, Increment, SamePc
  <2>2. t \in Mutators
    BY <1>d, <2>1 DEF Working
  <2> QED
    BY <2>1, <2>2, ReaderStep DEF Joining
<1>5. ASSUME NEW t \in Threads, CompareSame(t) \/ Notify(t) PROVE WritersAsk'
  <2>1. src' = src /\ em' = em /\ pc[t] \in Setting \ {"inside"} /\ Pop(t)
    BY <1>5 DEF CompareSame, Notify, Setting
  <2>2. pc'[t] \in {"return", "emitted"} /\ SamePc(t)
    BY <2>1, PopStepLemma DEF SamePc
  <2>3. t \in Mutators
    BY <1>d, <2>1 DEF Working
  <2> QED
    BY <1>a, <2>1, <2>2, <2>3, ReaderStep DEF Joining, Setting
<1>6. ASSUME NEW t \in Threads, CompareNew(t) \/ Store(t) PROVE WritersAsk'
  <2>1. /\ src' = src /\ em' = em
        /\ pc[t] \in {"compare", "store"} /\ pc'[t] \in {"store", "emit"} /\ SamePc(t)
    BY <1>a, <1>6 DEF CompareNew, Store, SamePc
  <2>2. t \in Mutators
    BY <1>d, <2>1 DEF Working, Setting
  <2> QED
    BY <2>1, <2>2, ReaderStep DEF Joining
<1>7. ASSUME NEW t \in Threads, Emit(t) PROVE WritersAsk'
  <2>1. em'.writer = em.writer /\ em'.held = em.held
    BY <1>a, <1>7, WriterLemma DEF Emit
  <2>2. src' = src /\ pc[t] = "emit" /\ pc'[t] \in {"compare", "listen", "emitted"} /\ SamePc(t)
    BY <1>a, <1>7 DEF Emit, SamePc
  <2>3. t \in Mutators
    BY <1>d, <2>2 DEF Working, Setting
  <2> QED
    BY <2>1, <2>2, <2>3, ReaderStep DEF Joining
<1>8. ASSUME NEW t \in Threads, Emitted(t) PROVE WritersAsk'
  <2>1. em'.writer = em.writer /\ em'.held = em.held
    BY <1>a, <1>8, WriterLemma DEF Emitted
  <2>2. src' = src /\ pc[t] = "emitted" /\ pc'[t] = "notify" /\ SamePc(t)
    BY <1>a, <1>8 DEF Emitted, SamePc
  <2>3. t \in Mutators
    BY <1>d, <2>2 DEF Working, Setting
  <2> QED
    BY <2>1, <2>2, <2>3, ReaderStep DEF Joining
<1>9. ASSUME NEW t \in Threads, Return(t) PROVE WritersAsk'
  <2>1. src'.writer = src.writer /\ src'.held = src.held
    BY <1>a, <1>9, WriterLemma DEF Return
  <2>2. em' = em /\ pc[t] = "return" /\ pc'[t] = "idle" /\ SamePc(t)
    BY <1>a, <1>9 DEF Return, SamePc
  <2> QED
    BY <2>1, <2>2, ReaderStep DEF Joining, Working, Setting
<1>10. ASSUME NEW c \in Conns, Link(c) PROVE WritersAsk'
  <2>1. /\ src.writer = Nobody /\ em' = em
        /\ pc[c] = "idle" /\ pc'[c] = "link" /\ SamePc(c)
    BY <1>a, <1>10 DEF Link, SamePc, Lock!CanAsk
  <2>2. src'.writer = c /\ src'.held = FALSE
    <3>1. src' = Lock!Asked(src, c) /\ c \in Threads
      BY <1>a, <1>10 DEF Link
    <3>2. Lock!Asked(src, c).writer = c /\ Lock!Asked(src, c).held = src.held
      BY <1>a, <3>1 DEF Lock!Asked, Lock!RWLocks
    <3> QED
      BY <1>b, <3>1, <3>2
  <2>3. Placed(c)'
    BY <1>a, <1>b, <2>1, <2>2 DEF Placed, Joining, Working, Setting
  <2>4. \A u \in Threads \ {c} : Placed(u)'
    BY <1>b, <1>c, <2>1, <2>2 DEF Placed, Joining, SamePc
  <2> QED
    BY <1>b, <2>1, <2>2, <2>3, <2>4 DEF WritersAsk
<1>11. ASSUME NEW c \in Conns, Linked(c) PROVE WritersAsk'
  <2>1. /\ src.writer = c /\ em' = em
        /\ pc[c] = "link" /\ pc'[c] = "collect" /\ SamePc(c)
    BY <1>a, <1>11 DEF Linked, SamePc, Lock!CanEnter
  <2>2. src'.writer = Nobody /\ src'.held = FALSE
    BY <1>a, <1>11, WriterLemma DEF Linked
  <2>3. Placed(c)'
    BY <1>a, <1>b, <1>c, <2>1, <2>2 DEF Placed, Joining, Working, Setting
  <2>4. \A u \in Threads \ {c} : Placed(u)'
    BY <1>b, <1>c, <2>1, <2>2 DEF Placed, Joining, SamePc
  <2> QED
    BY <1>b, <2>1, <2>2, <2>3, <2>4 DEF WritersAsk
<1>12. ASSUME NEW c \in Conns,
              CollectProperties(c) \/ SendInit(c) \/ \E p \in Props : Marshal(c, p)
       PROVE  WritersAsk'
  <2>1. /\ src' = src /\ em' = em /\ pc[c] \in {"collect", "init"}
        /\ pc'[c] \in {"init", "idle"} /\ SamePc(c)
    BY <1>a, <1>12 DEF CollectProperties, SendInit, Marshal, SamePc
  <2> QED
    BY <1>a, <2>1, ReaderStep DEF Working, Setting
<1>13. ASSUME NEW c \in Conns, Unlink(c) PROVE WritersAsk'
  BY <1>b, <1>13 DEF Unlink, WritersAsk, Placed, Joining
<1>14. ASSUME NEW t \in Threads, (OnProperty /\ t = Loop) \/ OnPropertyInside(t)
       PROVE  WritersAsk'
  <2>1. /\ em.writer = Nobody /\ src' = src /\ em' = Lock!Asked(em, t) /\ SamePc(t)
        /\ \/ pc[t] = "idle" /\ pc'[t] = "add" /\ t = Loop
           \/ pc[t] = "listen" /\ pc'[t] = "inside"
    BY <1>a, <1>14 DEF OnProperty, OnPropertyInside, Ask, SamePc, Lock!CanAsk
  <2>2. em'.writer = t /\ em'.held = FALSE
    <3>1. Lock!Asked(em, t).writer = t /\ Lock!Asked(em, t).held = em.held
      BY <1>a DEF Lock!Asked, Lock!RWLocks
    <3> QED
      BY <1>b, <2>1, <3>1
  <2>3. Placed(t)'
    <3>1. CASE pc[t] = "idle" /\ pc'[t] = "add" /\ t = Loop
      BY <1>b, <2>1, <2>2, <3>1 DEF Placed, Joining, Working, Setting
    <3>2. CASE pc[t] = "listen" /\ pc'[t] = "inside"
      BY <1>b, <1>d, <2>1, <2>2, <3>2 DEF Placed, Joining, Working, Setting
    <3> QED
      BY <2>1, <3>1, <3>2
  <2>4. \A u \in Threads \ {t} : Placed(u)'
    BY <1>b, <1>c, <2>1, <2>2 DEF Placed, Joining, SamePc
  <2> QED
    BY <1>b, <2>1, <2>2, <2>3, <2>4 DEF WritersAsk
<1>15. ASSUME NEW t \in Threads, NEW p \in Props, Add(t, p) PROVE WritersAsk'
  <2>1. /\ em.writer = t /\ src' = src /\ em' = Lock!WUnlocked(em) /\ SamePc(t)
        /\ \/ pc[t] = "add" /\ pc'[t] = "idle"
           \/ pc[t] = "inside" /\ pc'[t] = "emitted"
    BY <1>a, <1>15 DEF Add, SamePc, Lock!CanEnter
  <2>2. em'.writer = Nobody /\ em'.held = FALSE
    <3>1. Lock!WUnlocked(em).writer = Nobody /\ Lock!WUnlocked(em).held = FALSE
      BY <1>a DEF Lock!WUnlocked, Lock!RWLocks
    <3> QED
      BY <2>1, <3>1
  <2>3. Placed(t)'
    <3>1. CASE pc[t] = "add" /\ pc'[t] = "idle"
      BY <1>b, <1>c, <2>1, <2>2, <3>1 DEF Placed, Joining, Working, Setting
    <3>2. CASE pc[t] = "inside" /\ pc'[t] = "emitted"
      BY <1>b, <1>c, <1>d, <2>1, <2>2, <3>2 DEF Placed, Joining, Working, Setting
    <3> QED
      BY <2>1, <3>1, <3>2
  <2>4. \A u \in Threads \ {t} : Placed(u)'
    BY <1>b, <1>c, <2>1, <2>2 DEF Placed, Joining, SamePc
  <2> QED
    BY <1>b, <2>1, <2>2, <2>3, <2>4 DEF WritersAsk
<1>16. CASE UNCHANGED vars
  BY <1>b, <1>16 DEF vars, WritersAsk, Placed, Joining
<1>17. ASSUME NEW t \in Threads, Begin(t) PROVE WritersAsk'
  BY <1>2, <1>3, <1>17 DEF Begin
<1>18. ASSUME NEW t \in Threads, Continue(t) PROVE WritersAsk'
  BY <1>4, <1>5, <1>6, <1>7, <1>8, <1>9, <1>11, <1>12, <1>14, <1>15, <1>18
     DEF Continue, Joins
<1> QED
  BY <1>a, <1>10, <1>13, <1>14, <1>16, <1>17, <1>18 DEF Next, Connection

(* The three ways to hang, as StuckOnlyByNesting names them.               *)
NestedLink == \E l \in Conns, r \in Conns \cap Mutators :
                /\ pc[l] = "link" /\ pc[r] = "notify"
                /\ src.readers[r] > 0

NestedListener == \E t \in Mutators : /\ pc[Loop] = "add" /\ pc[t] \in {"emit", "listen"}
                                      /\ em.readers[t] > 0

ListenerInside == \E t \in Mutators : /\ pc[t] = "inside" /\ em.writer = t
                                      /\ em.readers[t] > 0

(* Threads that all wait wait in a circle: one that is about to notify, or *)
(* to read the properties, waits for a client that links; that one waits   *)
(* for a request that is being served; and that one, which waits too, is   *)
(* about to notify or waits for whoever adds a listener: a listener, which *)
(* waits for the Emit it runs in, or the script, which waits for an        *)
(* assignment whose listeners run.                                         *)
LEMMA NoOtherCircle == ASSUME IInv, WritersAsk PROVE StuckOnlyByNesting
<1> USE ServiceAssumption
<1> DEFINE Nested == NestedLink \/ NestedListener \/ ListenerInside
<1>1. SUFFICES ASSUME Stuck PROVE Nested
  BY DEF StuckOnlyByNesting, NestedLink, NestedListener, ListenerInside
<1>2. /\ \A t \in Threads : pc[t] # "idle" => Waits(t)
      /\ \E t \in Threads : pc[t] # "idle"
  BY <1>1 DEF Stuck, Quiet
<1>3. /\ src.held = FALSE /\ em.held = FALSE
      /\ src.writer \in Threads \cup {Nobody} /\ em.writer \in Threads \cup {Nobody}
      /\ src.readers \in [Threads -> Nat] /\ em.readers \in [Threads -> Nat]
      /\ \A t \in Threads : Placed(t) /\ Accounted(t) /\ Len(frames[t]) \in Nat
      /\ \A t \in Threads : frames[t] # <<>> <=> Len(frames[t]) > 0
      /\ Conns \subseteq Threads /\ Loop \in Threads
  BY StateLemma DEF WritersAsk, Lock!RWLocks
<1>4. ASSUME src.writer # Nobody
      PROVE  \E l \in Conns : pc[l] = "link" /\ src.writer = l
  BY <1>3, <1>4 DEF Placed, Joining
<1>5. ASSUME NEW t \in Threads, pc[t] = "inside" PROVE Nested
  <2>1. t \in Mutators /\ em.writer = t
    BY <1>3, <1>5 DEF Placed, Working, Setting
  <2>2. em.readers[t] > 0
    BY <1>3, <1>5 DEF Accounted, Setting
  <2> QED
    BY <1>5, <2>1, <2>2 DEF ListenerInside
<1>6. CASE pc[Loop] = "add"
  <2>1. em.writer = Loop /\ ~Lock!CanEnter(em, Loop)
    BY <1>2, <1>3, <1>6 DEF Waits, Placed
  <2>2. PICK v \in Threads : em.readers[v] > 0
    BY <1>3, <2>1 DEF Lock!CanEnter
  <2>3. pc[v] \in Setting /\ v \in Mutators /\ v \in Conns
    <3>1. pc[v] \in Setting
      BY <1>3, <2>2 DEF Accounted, Setting
    <3>2. v # Loop
      BY <1>6, <3>1 DEF Setting
    <3> QED
      BY <1>3, <3>1, <3>2 DEF Placed, Working, Threads
  <2>4. Waits(v)
    BY <1>2, <2>3 DEF Setting
  <2>5. CASE pc[v] \in {"emit", "listen"}
    BY <1>6, <2>2, <2>3, <2>5 DEF NestedListener
  <2>6. CASE pc[v] = "inside"
    BY <1>5, <2>6
  <2>7. CASE pc[v] \notin {"emit", "listen", "inside"}
    <3>1. pc[v] = "notify" /\ src.writer # Nobody
      BY <2>3, <2>4, <2>7 DEF Waits, Setting, Lock!CanRLock
    <3>2. src.readers[v] > 0
      BY <1>3, <2>3 DEF Accounted, Working
    <3> QED
      BY <1>4, <2>3, <3>1, <3>2 DEF NestedLink
  <2> QED
    BY <2>5, <2>6, <2>7
<1>7. ASSUME em.writer # Nobody PROVE Nested
  <2>1. PICK w \in Threads : em.writer = w
    BY <1>3, <1>7
  <2>2. (pc[w] = "add" /\ w = Loop) \/ pc[w] = "inside"
    BY <1>3, <2>1 DEF Placed
  <2> QED
    BY <1>5, <1>6, <2>2
<1>8. ASSUME NEW l \in Conns, pc[l] = "link" PROVE Nested
  <2>1. src.writer = l /\ ~Lock!CanEnter(src, l)
    BY <1>2, <1>3, <1>8 DEF Waits, Placed
  <2>2. PICK r \in Threads : src.readers[r] > 0
    BY <1>3, <2>1 DEF Lock!CanEnter
  <2>3. r \in Conns /\ pc[r] \in Working /\ r \in Mutators
    BY <1>3, <2>2 DEF Accounted, Placed
  <2>4. Waits(r)
    BY <1>2, <2>3 DEF Working, Setting
  <2>5. CASE pc[r] = "notify"
    BY <1>8, <2>2, <2>3, <2>5 DEF NestedLink
  <2>6. CASE pc[r] \in {"emit", "listen"}
    <3>1. em.writer # Nobody
      BY <2>4, <2>6 DEF Waits, Lock!CanRLock, Lock!CanAsk
    <3> QED
      BY <1>7, <3>1
  <2>7. CASE pc[r] = "inside"
    BY <1>5, <2>7
  <2> QED
    BY <2>3, <2>4, <2>5, <2>6, <2>7 DEF Waits, Working, Setting
<1>9. PICK t \in Threads : Waits(t)
  BY <1>2
<1> HIDE DEF Nested
<1>10. CASE pc[t] \in {"notify", "collect"}
  BY <1>4, <1>8, <1>9, <1>10 DEF Waits, Lock!CanRLock
<1>11. CASE pc[t] = "link"
  BY <1>3, <1>8, <1>11 DEF Placed, Joining
<1>12. CASE pc[t] \in {"emit", "listen"}
  BY <1>7, <1>9, <1>12 DEF Waits, Lock!CanRLock, Lock!CanAsk
<1>13. CASE pc[t] \in {"add", "inside"}
  BY <1>3, <1>5, <1>6, <1>13 DEF Placed
<1> QED
  BY <1>9, <1>10, <1>11, <1>12, <1>13 DEF Waits

(* Whatever the clients, the properties and the listeners, the threads of  *)
(* an object can only all wait for each other in the three ways that ask   *)
(* for a lock inside a read lock of it.                                    *)
THEOREM StuckCorrect == Spec => []StuckOnlyByNesting
<1>1. Init => IInv /\ WritersAsk
  BY InitLemma, WritersInit
<1>2. IInv /\ WritersAsk /\ [Next]_vars => (IInv /\ WritersAsk)'
  BY StepLemma, WritersStep
<1>3. IInv /\ WritersAsk => StuckOnlyByNesting
  BY NoOtherCircle
<1> QED
  BY <1>1, <1>2, <1>3, PTL DEF Spec
-----------------------------------------------------------------------------
(* What an assignment carries is news: a value about to be stored differs  *)
(* from the one the property has, and a value on its way to the clients    *)
(* from the one published last.                                            *)
News ==
  \A t \in Threads :
    /\ pc[t] = "store" => Top(t).value # props[Top(t).prop]
    /\ OnTheWay(t) => published[Top(t).prop] # props[Top(t).prop]

(* With one writer nothing another thread does makes it stale.             *)
LEMMA NewsStep ==
  ASSUME OneWriter, IInv, InStep, News, [Next]_vars
  PROVE  News'
<1> USE ServiceAssumption DEF Goto
<1>a. /\ pc \in [Threads -> Phases] /\ frames \in [Threads -> Seq(Frame)]
      /\ Conns \subseteq Threads /\ Loop \in Threads
      /\ props \in [Props -> Values] /\ published \in [Props -> Values]
      /\ \A t \in Threads : pc[t] \in Setting => Top(t).prop \in Props
  BY StateLemma DEF IInv, TypeOK
<1>b. /\ OnlyMutatorsWork /\ UnpublishedOnTheWay /\ NeverNested
      /\ \A t \in Threads : (frames[t] # <<>>) <=> (pc[t] \in Setting)
      /\ \A t \in Threads : Len(frames[t]) \in Nat /\ (frames[t] # <<>> <=> Len(frames[t]) > 0)
  BY StateLemma DEF InStep, Accounted
<1>c. \A s, t \in Threads : pc[s] \in Working /\ pc[t] \in Working => s = t
  BY <1>b DEF OnlyMutatorsWork, OneWriter
<1>1. ASSUME NEW t \in Threads, SamePc(t), props' = props, published' = published,
             pc'[t] \notin {"store", "emit", "listen", "inside", "emitted", "notify"},
             \A u \in Threads \ {t} : frames'[u] = frames[u]
      PROVE  News'
  BY <1>1 DEF News, SamePc, OnTheWay, Top
<1>2. ASSUME NEW t \in Threads, Begin(t) PROVE News'
  <2>1. CASE Invoke(t)
    BY <1>a, <1>1, <2>1 DEF Invoke, SamePc, dataVars
  <2>2. ASSUME NEW p \in Props, NEW v \in Assigned, SetProperty(t, p, v) PROVE News'
    BY <1>a, <1>1, <2>2 DEF SetProperty, Push, SamePc, dataVars
  <2> QED
    BY <1>2, <2>1, <2>2 DEF Begin
<1>3. ASSUME NEW t \in Threads, NEW p \in Props,
             BelowMax(t, p) \/ AtLimit(t, p) \/ Increment(t, p)
      PROVE  News'
  <2>1. CASE BelowMax(t, p) \/ AtLimit(t, p)
    BY <1>a, <1>1, <2>1 DEF BelowMax, AtLimit, SamePc, dataVars
  <2>2. CASE Increment(t, p)
    BY <1>a, <1>1, <2>2 DEF Increment, Push, SamePc, dataVars
  <2> QED
    BY <1>3, <2>1, <2>2
<1>4. ASSUME NEW t \in Threads, CompareSame(t) PROVE News'
  <2>1. pc'[t] = "return"
    BY <1>a, <1>b, <1>4, PopStepLemma DEF CompareSame, Setting, NeverNested
  <2> QED
    BY <1>a, <1>1, <1>4, <2>1 DEF CompareSame, Pop, SamePc, dataVars
<1>5. ASSUME NEW t \in Threads, CompareNew(t) PROVE News'
  BY <1>a, <1>5 DEF CompareNew, News, OnTheWay, Top, dataVars
<1>6. ASSUME NEW t \in Threads, Store(t) PROVE News'
  <2>1. pc[t] = "store" /\ Top(t).value # props[Top(t).prop] /\ Top(t).prop \in Props
    BY <1>a, <1>6 DEF Store, News, Setting
  <2>2. \A u \in Threads : ~OnTheWay(u)
    BY <1>c, <2>1 DEF OnTheWay, Working, Setting
  <2>3. published[Top(t).prop] = props[Top(t).prop]
    BY <1>b, <2>1, <2>2 DEF UnpublishedOnTheWay
  <2>4. /\ props'[Top(t).prop] = Top(t).value /\ published' = published
        /\ frames' = frames /\ pc' = [pc EXCEPT ![t] = "emit"]
    BY <1>a, <1>6, <2>1 DEF Store
  <2>5. \A u \in Threads \ {t} : pc'[u] \notin Setting
    BY <1>a, <1>c, <2>1, <2>4 DEF Working, Setting
  <2>6. /\ pc'[t] = "emit" /\ Top(t)' = Top(t)
    BY <1>a, <2>4 DEF Top
  <2>7. published'[Top(t)'.prop] # props'[Top(t)'.prop]
    BY <2>1, <2>3, <2>4, <2>6
  <2> QED
    BY <2>5, <2>6, <2>7 DEF News, OnTheWay, Setting
<1>7. ASSUME NEW t \in Threads, Emit(t) \/ Emitted(t) PROVE News'
  <2>1. /\ pc[t] \in {"emit", "emitted"} /\ pc'[t] \in {"listen", "emitted", "notify"}
        /\ SamePc(t)
        /\ frames' = frames /\ props' = props /\ published' = published
    BY <1>a, <1>7 DEF Emit, Emitted, OneWriter, SamePc, dataVars
  <2> QED
    BY <2>1 DEF News, OnTheWay, Top, SamePc
<1>8. ASSUME NEW t \in Threads, Notify(t) PROVE News'
  <2>1. pc'[t] = "return" /\ SamePc(t) /\ pc[t] = "notify"
    BY <1>a, <1>b, <1>8, PopStepLemma DEF Notify, Setting, NeverNested, SamePc
  <2>2. \A u \in Threads \ {t} : pc'[u] \notin Working
    BY <1>c, <2>1 DEF SamePc, Working, Setting
  <2> QED
    BY <2>1, <2>2 DEF News, OnTheWay, Working, Setting
<1>9. ASSUME NEW t \in Threads, Return(t) PROVE News'
  BY <1>a, <1>1, <1>9 DEF Return, SamePc, dataVars
<1>10. ASSUME NEW c \in Conns, Joins(c) \/ Connection(c) PROVE News'
  BY <1>a, <1>1, <1>10 DEF Joins, Connection, Link, Linked, CollectProperties, Marshal,
     SendInit, Unlink, SamePc, dataVars
<1>11. CASE OnProperty
  BY <1>a, <1>1, <1>11 DEF OnProperty, Ask, SamePc, dataVars
<1>12. ASSUME NEW t \in Threads, OnPropertyInside(t) PROVE News'
  <2>1. /\ pc[t] = "listen" /\ pc'[t] = "inside" /\ SamePc(t)
        /\ frames' = frames /\ props' = props /\ published' = published
    BY <1>a, <1>12 DEF OnPropertyInside, Ask, SamePc, dataVars
  <2> QED
    BY <2>1 DEF News, OnTheWay, Top, SamePc
<1>13. ASSUME NEW t \in Threads, NEW p \in Props, Add(t, p) PROVE News'
  <2>1. /\ \/ pc[t] = "add" /\ pc'[t] = "idle"
           \/ pc[t] = "inside" /\ pc'[t] = "emitted"
        /\ SamePc(t) /\ frames' = frames /\ props' = props /\ published' = published
    BY <1>a, <1>13 DEF Add, SamePc
  <2> QED
    BY <2>1 DEF News, OnTheWay, Top, SamePc
<1>14. CASE UNCHANGED vars
  BY <1>14 DEF vars, News, OnTheWay, Top
<1> QED
  BY <1>2, <1>3, <1>4, <1>5, <1>6, <1>7, <1>8, <1>9, <1>10, <1>11, <1>12, <1>13, <1>14
     DEF Next, Continue

(* The views of the feed.                                                  *)
FeedViews == [c \in Conns |-> IF c \in Joined THEN views[c] ELSE NoView]

(* Before the first step the service is a feed nobody has joined.          *)
LEMMA FeedInit == Init => Feed!Init
<1> SUFFICES ASSUME Init PROVE Feed!Init
  OBVIOUS
<1>1. props \in [Props -> Values] /\ published = props
  BY ServiceAssumption DEF Init, Values
<1>2. Joined = {}
  BY DEF Init, Joined
<1>3. FeedViews = [c \in Conns |-> NoView] /\ inits = [c \in Conns |-> NoView]
  BY <1>2 DEF Init, FeedViews
<1> QED
  BY <1>1, <1>2, <1>3 DEF Feed!Init, FeedViews, NoView, Feed!NoView

(* A step that moves no value and lets nobody join or leave is one the     *)
(* clients do not see.                                                     *)
LEMMA UnseenStep ==
  ASSUME Joined' = Joined, UNCHANGED <<props, inits, views, published>>
  PROVE  UNCHANGED Feed!feedVars
  BY DEF Feed!feedVars

(* Storing a value writes the feed, notifying publishes, INIT joins and    *)
(* unlinking leaves.                                                       *)
LEMMA FeedStep ==
  ASSUME OneWriter, IInv, InStep, News, [Next]_vars
  PROVE  [Feed!Next]_(Feed!feedVars)
<1> USE ServiceAssumption DEF Goto
<1>a. /\ pc \in [Threads -> Phases] /\ Conns \subseteq Threads /\ Loop \in Threads
      /\ props \in [Props -> Values] /\ published \in [Props -> Values]
      /\ linked \subseteq Conns /\ views \in [Conns -> [Props -> Values \cup {Unknown}]]
      /\ inits \in [Conns -> [Props -> Values \cup {Unknown}]]
      /\ \A t \in Threads : pc[t] \in Setting => Top(t).prop \in Props /\ Top(t).value \in Values
  BY StateLemma DEF IInv, TypeOK
<1>1. ASSUME NEW t \in Threads, SamePc(t), linked' = linked, Joining(t)' <=> Joining(t)
      PROVE  Joined' = Joined
  BY <1>a, <1>1 DEF Joined, Joining, SamePc
<1>2. ASSUME NEW t \in Threads, Begin(t) PROVE UNCHANGED Feed!feedVars
  <2>1. /\ UNCHANGED <<props, inits, views, published, linked>> /\ SamePc(t)
        /\ pc[t] = "idle" /\ pc'[t] \in {"body", "compare"}
    BY <1>a, <1>2 DEF Begin, Invoke, SetProperty, SamePc, dataVars
  <2> QED
    BY <1>1, <2>1, UnseenStep DEF Joining
<1>3. ASSUME NEW t \in Threads,
             \/ \E p \in Props : BelowMax(t, p) \/ AtLimit(t, p) \/ Increment(t, p)
             \/ CompareNew(t) \/ Emit(t) \/ Emitted(t) \/ OnPropertyInside(t) \/ Return(t)
      PROVE  UNCHANGED Feed!feedVars
  <2>1. /\ UNCHANGED <<props, inits, views, published, linked>> /\ SamePc(t)
        /\ pc[t] \in Working /\ pc'[t] \in Working \cup {"idle"}
    BY <1>a, <1>3 DEF BelowMax, AtLimit, Increment, CompareNew, Emit, Emitted,
       OnPropertyInside, Ask, Return, SamePc, dataVars, Working, Setting
  <2> QED
    BY <1>1, <2>1, UnseenStep DEF Joining, Working, Setting
<1>4. ASSUME NEW t \in Threads, CompareSame(t) PROVE UNCHANGED Feed!feedVars
  <2>1. /\ UNCHANGED <<props, inits, views, published, linked>> /\ SamePc(t)
        /\ pc[t] = "compare" /\ pc'[t] \in {"return", "emitted"}
    BY <1>a, <1>4 DEF CompareSame, Pop, SamePc, dataVars
  <2> QED
    BY <1>1, <2>1, UnseenStep DEF Joining
<1>5. ASSUME NEW t \in Threads, Store(t) PROVE Feed!Next
  <2> DEFINE p == Top(t).prop
             v == Top(t).value
  <2>1. p \in Props /\ v \in Values /\ v # props[p]
    BY <1>a, <1>5 DEF Store, News, Setting
  <2>2. \A u \in Threads : ~OnTheWay(u)
    BY <1>5 DEF Store, InStep, OnlyMutatorsWork, OneWriter, OnTheWay, Working, Setting
  <2>3. props[p] = published[p]
    BY <2>1, <2>2 DEF InStep, UnpublishedOnTheWay
  <2>4. /\ props' = [props EXCEPT ![p] = v]
        /\ UNCHANGED <<inits, views, published, linked>> /\ SamePc(t)
        /\ pc[t] = "store" /\ pc'[t] = "emit"
    BY <1>a, <1>5 DEF Store, SamePc
  <2>5. Joined' = Joined
    BY <1>1, <2>4 DEF Joining
  <2> HIDE DEF p, v
  <2>6. Feed!Write(p, v)
    BY <2>1, <2>3, <2>4, <2>5 DEF Feed!Write
  <2> QED
    BY <2>1, <2>6 DEF Feed!Next
<1>6. ASSUME NEW t \in Threads, Notify(t) PROVE Feed!Next
  <2>0. PICK p \in Props : p = Top(t).prop
    BY <1>a, <1>6 DEF Notify, Setting
  <2>1. OnTheWay(t) /\ Top(t).value = props[p] /\ props[p] # published[p]
    BY <1>6, <2>0 DEF Notify, News, OnTheWay, InStep, StoredIsCurrent, Setting
  <2>2. /\ published' = [published EXCEPT ![p] = props[p]]
        /\ UNCHANGED <<props, inits, linked>> /\ SamePc(t)
        /\ pc[t] = "notify" /\ pc'[t] \in {"return", "emitted"}
    BY <1>a, <1>6, <2>0, <2>1 DEF Notify, Announce, Pop, SamePc
  <2>3. Joined' = Joined
    BY <1>1, <2>2 DEF Joining
  <2>4. ASSUME NEW c \in Joined PROVE views'[c] = [views[c] EXCEPT ![p] = props[p]]
    <3>1. c \in linked /\ node # Nobody
      BY <2>4 DEF Joined, Joining, InStep, NodeKnown
    <3> QED
      BY <1>a, <1>6, <2>0, <2>1, <3>1 DEF Notify, Announce, Linkers
  <2>5. FeedViews' = [c \in Conns |-> IF c \in Joined
                                        THEN [FeedViews[c] EXCEPT ![p] = props[p]]
                                        ELSE FeedViews[c]]
    BY <2>3, <2>4 DEF FeedViews
  <2>6. Feed!Publish(p)
    BY <2>1, <2>2, <2>3, <2>5 DEF Feed!Publish, FeedViews
  <2> QED
    BY <2>6 DEF Feed!Next
<1>7. ASSUME NEW c \in Conns, Link(c) PROVE UNCHANGED Feed!feedVars
  <2>1. Joined' = Joined
    BY <1>a, <1>7 DEF Link, Joined, Joining
  <2> QED
    BY <1>7, <2>1, UnseenStep DEF Link
<1>8. ASSUME NEW c \in Conns, Linked(c) \/ CollectProperties(c)
      PROVE  UNCHANGED Feed!feedVars
  <2>1. /\ UNCHANGED <<props, inits, views, published, linked>> /\ SamePc(c)
        /\ pc[c] \in {"link", "collect"} /\ pc'[c] \in {"collect", "init"}
    BY <1>a, <1>8 DEF Linked, CollectProperties, SamePc, dataVars
  <2> QED
    BY <1>a, <1>1, <2>1, UnseenStep DEF Joining
<1>9. ASSUME NEW c \in Conns, SendInit(c) PROVE Feed!Next
  <2>1. /\ c \in linked /\ c \notin Joined
        /\ \A p \in Props : inits[c][p] # Unknown
        /\ UNCHANGED <<props, published, linked>>
        /\ views' = [views EXCEPT ![c] = inits[c]]
        /\ inits' = [inits EXCEPT ![c] = NoView]
    BY <1>9 DEF SendInit, InStep, JoiningLinked, Joined, Joining
  <2>2. Joined' = Joined \cup {c}
    BY <1>a, <1>9, <2>1 DEF SendInit, Joined, Joining
  <2>3. FeedViews' = [FeedViews EXCEPT ![c] = inits[c]]
    BY <1>a, <2>1, <2>2 DEF FeedViews
  <2>4. Feed!Join(c)
    BY <2>1, <2>2, <2>3 DEF Feed!Join, FeedViews, NoView, Feed!NoView
  <2> QED
    BY <2>4 DEF Feed!Next
<1>10. ASSUME NEW c \in Conns, Unlink(c) PROVE Feed!Next
  <2>1. /\ c \in Joined
        /\ Joined' = Joined \ {c}
        /\ UNCHANGED <<props, inits, published>>
        /\ views' = [views EXCEPT ![c] = NoView]
    BY <1>a, <1>10 DEF Unlink, Joined, Joining
  <2>2. FeedViews' = [FeedViews EXCEPT ![c] = NoView]
    BY <1>a, <2>1 DEF FeedViews
  <2>3. Feed!Leave(c)
    BY <2>1, <2>2 DEF Feed!Leave, FeedViews, NoView, Feed!NoView
  <2> QED
    BY <2>3 DEF Feed!Next
<1>11. CASE OnProperty \/ \E t \in Threads, p \in Props : Add(t, p)
  <2>1. PICK t \in Threads : (OnProperty /\ t = Loop) \/ \E p \in Props : Add(t, p)
    BY <1>a, <1>11
  <2>2. /\ UNCHANGED <<props, inits, views, published, linked>> /\ SamePc(t)
        /\ pc[t] \in {"idle", "add", "inside"} /\ pc'[t] \in {"idle", "add", "emitted"}
    BY <1>a, <2>1 DEF OnProperty, Ask, Add, SamePc, dataVars
  <2> QED
    BY <1>a, <1>1, <2>2, UnseenStep DEF Joining
<1>12. ASSUME NEW c \in Conns, NEW p \in Props, Marshal(c, p) PROVE Feed!Next
  <2>1. /\ c \notin Joined /\ inits[c][p] = Unknown
        /\ inits' = [inits EXCEPT ![c][p] = props[p]]
        /\ UNCHANGED <<props, views, published, linked, pc>>
    BY <1>12 DEF Marshal, Joined, Joining
  <2>2. Joined' = Joined
    BY <2>1 DEF Joined, Joining
  <2>3. Feed!Copy(c, p)
    BY <2>1, <2>2 DEF Feed!Copy
  <2> QED
    BY <2>3 DEF Feed!Next
<1>13. CASE UNCHANGED vars
  BY <1>13, UnseenStep DEF vars, Joined, Joining
<1> QED
  BY <1>2, <1>3, <1>4, <1>5, <1>6, <1>7, <1>8, <1>9, <1>10, <1>11, <1>12, <1>13
     DEF Next, Continue, Joins, Connection

(* As long as one thread changes the service and no listener assigns, the  *)
(* service is a PropertyFeed: a client is given each property as it was at *)
(* some moment while its INIT was made, and from then on no more, no less  *)
(* and nothing else than the writes in their order.                        *)
THEOREM FeedCorrect == ASSUME OneWriter PROVE Spec => ImplementsFeed
<1>1. Init => IInv /\ InStep /\ News
  <2>1. Init => News
    BY DEF Init, News, OnTheWay
  <2> QED
    BY <2>1, InitLemma, InStepInit
<1>2. IInv /\ InStep /\ News /\ [Next]_vars => (IInv /\ InStep /\ News)'
  BY OneWriter, StepLemma, InStepLemma, NewsStep
<1>3. IInv /\ InStep /\ News /\ [Next]_vars => [Feed!Next]_(Feed!feedVars)
  BY OneWriter, FeedStep
<1> QED
  BY <1>1, <1>2, <1>3, FeedInit, PTL DEF Spec, ImplementsFeed, Feed!Spec
=============================================================================
