--------------------------- MODULE SimClientProofs ---------------------------
(***************************************************************************)
(* Theorems about SimClient, for any operations of the script, any use its *)
(* listeners make of the client and any number of changes: the types and   *)
(* the locks, what the copy of the remote object is, and the ways in which *)
(* the client can hang.                                                    *)
(***************************************************************************)
EXTENDS SimClient, SequenceTheorems, TLAPS

(* Where the script is with the client's read lock.                        *)
Reading == {"get", "set", "on", "add", "call", "close", "unregister"}

(* Where the reader is with the client's write lock.                       *)
Storing == {"emit", "listener", "emitted"}

LoopPhases == AllOps \cup {"idle", "add", "wait", "refused", "unregister"}

ReaderPhases == {"idle", "locking", "emit", "listener", "emitted", "signal", "wait"}

Phases == LoopPhases \cup ReaderPhases

(* A lock with the read locks of the script and of the reader, its writer, *)
(* and whether the writer is inside.                                       *)
Is(l, script, reader, writer, held) ==
  /\ l \in Lock!RWLocks
  /\ l.readers[Loop] = script
  /\ l.readers[Reader] = reader
  /\ l.writer = writer
  /\ l.held = held

(* The locks, the phases and what they have to do with each other: every   *)
(* lock is held exactly as long as a thread is in a phase that holds it.   *)
LocksHeld ==
  /\ pc \in [Threads -> Phases]
  /\ pc[Loop] \in LoopPhases
  /\ pc[Reader] \in ReaderPhases
  /\ Is(mu, IF pc[Loop] \in Reading THEN 1 ELSE 0,
            IF pc[Reader] \in {"signal", "wait"} THEN 1 ELSE 0,
            IF pc[Reader] \in Storing \cup {"locking"} THEN Reader ELSE Nobody,
            IF pc[Reader] \in Storing THEN TRUE ELSE FALSE)
  /\ Is(em, 0,
            IF pc[Reader] \in {"listener", "emitted"} THEN 1 ELSE 0,
            IF pc[Loop] = "add" THEN Loop ELSE Nobody,
            FALSE)
  /\ sink = IF pc[Reader] = "idle" THEN Nobody ELSE Reader
  /\ pc[Reader] \in Storing => pc[Loop] \notin Reading
  /\ pc[Reader] = "listener" => ListenerUses = TRUE
  /\ pc[Reader] = "wait" => ListenerCalls = TRUE

(* What the lock operators do to a lock.                                   *)
LEMMA LockLemma ==
  ASSUME NEW l, NEW a \in Nat, NEW b \in Nat, NEW w, NEW h, Is(l, a, b, w, h)
  PROVE  /\ a = 0 => Is(Lock!RLocked(l, Loop), 1, b, w, h)
         /\ b = 0 => Is(Lock!RLocked(l, Reader), a, 1, w, h)
         /\ a = 1 => Is(Lock!RUnlocked(l, Loop), 0, b, w, h)
         /\ b = 1 => Is(Lock!RUnlocked(l, Reader), a, 0, w, h)
         /\ \A t \in Threads : Is(Lock!Asked(l, t), a, b, t, h)
         /\ Is(Lock!Entered(l), a, b, w, TRUE)
         /\ Is(Lock!WUnlocked(l), a, b, Nobody, FALSE)
<1> USE ClientAssumption DEF Is, Lock!RWLocks, Threads
<1>1. /\ l.readers \in [Threads -> Nat]
      /\ l.writer \in Threads \cup {Nobody}
      /\ l.held \in BOOLEAN
      /\ Loop \in Threads /\ Reader \in Threads
  OBVIOUS
<1>2. a = 0 => Is(Lock!RLocked(l, Loop), 1, b, w, h)
  BY <1>1 DEF Lock!RLocked
<1>3. b = 0 => Is(Lock!RLocked(l, Reader), a, 1, w, h)
  BY <1>1 DEF Lock!RLocked
<1>4. a = 1 => Is(Lock!RUnlocked(l, Loop), 0, b, w, h)
  BY <1>1 DEF Lock!RUnlocked
<1>5. b = 1 => Is(Lock!RUnlocked(l, Reader), a, 0, w, h)
  BY <1>1 DEF Lock!RUnlocked
<1>6. \A t \in Threads : Is(Lock!Asked(l, t), a, b, t, h)
  BY <1>1 DEF Lock!Asked
<1>7. Is(Lock!Entered(l), a, b, w, TRUE)
  BY <1>1 DEF Lock!Entered
<1>8. Is(Lock!WUnlocked(l), a, b, Nobody, FALSE)
  BY <1>1 DEF Lock!WUnlocked
<1> QED
  BY <1>2, <1>3, <1>4, <1>5, <1>6, <1>7, <1>8

(* Initially no lock is held.                                              *)
LEMMA LocksInit == Init => LocksHeld
<1> SUFFICES ASSUME Init PROVE LocksHeld
  OBVIOUS
<1>1. /\ Lock!Unlocked \in Lock!RWLocks
      /\ \A t \in Threads : Lock!Unlocked.readers[t] = 0
      /\ Lock!Unlocked.writer = Nobody /\ Lock!Unlocked.held = FALSE
  BY DEF Lock!Unlocked, Lock!RWLocks
<1> QED
  BY <1>1, ClientAssumption DEF Init, Is, LocksHeld, Threads, AllOps, LoopPhases, ReaderPhases, Phases, Reading, Storing

(* Every step of a thread takes and gives back what its phase says.        *)
LEMMA LocksStep ==
  ASSUME LocksHeld, [Next]_vars
  PROVE  LocksHeld'
<1> USE ClientAssumption DEF LocksHeld, Threads, AllOps, LoopPhases, ReaderPhases, Phases, Reading, Storing, Goto, lockVars, serverVars, history,
        Lock!CanRLock, Lock!CanAsk, Lock!CanEnter
<1>0. Loop \in Threads /\ Reader \in Threads
  OBVIOUS
<1>1. ASSUME NEW op \in Ops, Start(op)
      PROVE  LocksHeld'
  <2>1. pc[Reader] \notin Storing
    BY <1>0, <1>1 DEF Start, Is
  <2>2. pc[Loop] = "idle" /\ op \in AllOps
    BY <1>1 DEF Start
  <2>3. Is(mu', 1, IF pc[Reader] \in {"signal", "wait"} THEN 1 ELSE 0,
                IF pc[Reader] \in Storing \cup {"locking"} THEN Reader ELSE Nobody,
                IF pc[Reader] \in Storing THEN TRUE ELSE FALSE)
    BY <1>1, <2>2, LockLemma DEF Start
  <2> QED
    BY <1>0, <1>1, <2>1, <2>2, <2>3 DEF Start
<1>2. CASE GetProperty
  BY <1>0, <1>2, LockLemma DEF GetProperty
<1>3. CASE SetProperty
  BY <1>0, <1>3, LockLemma DEF SetProperty
<1>4. CASE OnProperty
  BY <1>0, <1>4, LockLemma DEF OnProperty
<1>5. CASE Add
  BY <1>0, <1>5, LockLemma DEF Add
<1>6. CASE CallMethod
  BY <1>0, <1>6, LockLemma DEF CallMethod
<1>7. CASE Close
  BY <1>0, <1>7, LockLemma DEF Close
<1>8. CASE UnregisterSink
  BY <1>0, <1>8, LockLemma DEF UnregisterSink
<1>9. CASE HandleChange
  BY <1>0, <1>9, LockLemma DEF HandleChange
<1>10. CASE SetLocalProperty
  <2>1. pc[Loop] \notin Reading
    BY <1>0, <1>10 DEF SetLocalProperty, Is
  <2> QED
    BY <1>0, <1>10, <2>1, LockLemma DEF SetLocalProperty
<1>11. CASE Emit
  <2>1. em.writer = Nobody /\ pc[Reader] = "emit"
    BY <1>11 DEF Emit
  <2>2. Is(em', 0, 1, IF pc[Loop] = "add" THEN Loop ELSE Nobody, FALSE)
    BY <1>11, <2>1, LockLemma DEF Emit
  <2>3. pc' = [pc EXCEPT ![Reader] = "emitted"] \/ pc' = [pc EXCEPT ![Reader] = "listener"]
    BY <1>11 DEF Emit
  <2>4. pc'[Reader] = "listener" => ListenerUses = TRUE
    BY <1>0, <1>11 DEF Emit
  <2> QED
    BY <1>0, <1>11, <2>1, <2>2, <2>3, <2>4 DEF Emit
<1>12. CASE Emitted
  BY <1>0, <1>12, LockLemma DEF Emitted
<1>13. CASE HandleSignal
  <2>1. pc[Reader] = "idle"
    BY <1>13 DEF HandleSignal
  <2>2. Is(mu', IF pc[Loop] \in Reading THEN 1 ELSE 0, 1, Nobody, FALSE)
    BY <1>13, <2>1, LockLemma DEF HandleSignal
  <2> QED
    BY <1>0, <1>13, <2>1, <2>2 DEF HandleSignal
<1>14. CASE SignalHandled
  BY <1>0, <1>14, LockLemma DEF SignalHandled
<1>15. CASE CallFromSignal
  BY <1>0, <1>15 DEF CallFromSignal
<1>16. CASE HandleReply
  BY <1>0, <1>16 DEF HandleReply
<1>17. CASE Drop
  BY <1>17 DEF Drop
<1>18. CASE Server
  BY <1>18 DEF Server, Invoked, Refused, Assigned, Serve, Linked, Marshal, SendInit, Linking, history
<1>19. CASE Changed
  BY <1>19 DEF Changed
<1>20. CASE UNCHANGED vars
  BY <1>20 DEF vars
<1>21. CASE HandleError
  BY <1>0, <1>21 DEF HandleError
<1>22. CASE Lost
  BY <1>22 DEF Lost
<1> QED
  BY <1>1, <1>2, <1>3, <1>4, <1>5, <1>6, <1>7, <1>8, <1>9, <1>10, <1>11, <1>12, <1>13, <1>14,
     <1>15, <1>16, <1>17, <1>18, <1>19, <1>20, <1>21, <1>22 DEF Next, Script, Read
-----------------------------------------------------------------------------
Messages == [kind : {"init", "change", "signal", "reply", "error"}, value : Nat]

(* A message that brings a value of the object.                            *)
Carries(m) == m.kind \in {"init", "change"}

(* Nothing on the way to a copy that is at s is ahead of the object, which *)
(* is at r; and the changes do not go back behind what comes before them.  *)
InOrder(q, s, r) ==
  /\ s <= r
  /\ \A i \in 1 .. Len(q) : /\ Carries(q[i]) => q[i].value <= r
                            /\ q[i].kind = "change" => s <= q[i].value
  /\ \A i, j \in 1 .. Len(q) :
       i < j /\ Carries(q[i]) /\ q[j].kind = "change" => q[i].value <= q[j].value

(* The first n messages leave a copy that is at s with v.                  *)
Brought(q, n, s, v) ==
  \/ s = v /\ \A i \in 1 .. n : ~Carries(q[i])
  \/ \E i \in 1 .. n : /\ Carries(q[i]) /\ q[i].value = v
                       /\ \A j \in 1 .. n : i < j => ~Carries(q[j])

(* Each reply finds the copy at the value it was sent after.               *)
Backed(q, s) ==
  \A k \in 1 .. Len(q) : q[k].kind = "reply" => Brought(q, k - 1, s, q[k].value)

(* What there is to know of the first message and the others.              *)
LEMMA HeadLemma ==
  ASSUME NEW q \in Seq(Messages), q # <<>>
  PROVE  /\ Len(q) \in Nat \ {0} /\ Tail(q) \in Seq(Messages) /\ Len(Tail(q)) = Len(q) - 1
         /\ \A i \in 1 .. Len(q) - 1 : Tail(q)[i] = q[i + 1]
         /\ Head(q) = q[1]
         /\ \A i \in 1 .. Len(q) : q[i] \in Messages
BY EmptySeq, HeadTailProperties, ElementOfSeq

(* Taking the first message leaves the others in order, behind the value   *)
(* it brought if it brought one.                                           *)
LEMMA OrderLemma ==
  ASSUME NEW q \in Seq(Messages), NEW s \in Nat, NEW r \in Nat, q # <<>>, InOrder(q, s, r)
  PROVE  /\ InOrder(Tail(q), s, r)
         /\ Carries(Head(q)) => InOrder(Tail(q), Head(q).value, r)
<1>1. InOrder(Tail(q), s, r)
  BY HeadLemma DEF InOrder, Messages
<1>2. ASSUME Carries(Head(q)) PROVE InOrder(Tail(q), Head(q).value, r)
  <2>1. /\ Head(q) = q[1] /\ 1 \in 1 .. Len(q) /\ Head(q).value \in Nat /\ Head(q).value <= r
    BY <1>2, HeadLemma DEF InOrder, Messages
  <2>2. ASSUME NEW i \in 1 .. Len(Tail(q)), Tail(q)[i].kind = "change"
        PROVE  Head(q).value <= Tail(q)[i].value
    <3>1. i + 1 \in 1 .. Len(q) /\ Tail(q)[i] = q[i + 1] /\ 1 < i + 1
      BY HeadLemma
    <3> QED
      BY <1>2, <2>1, <2>2, <3>1 DEF InOrder
  <2> QED
    BY <1>1, <2>1, <2>2 DEF InOrder
<1> QED
  BY <1>1, <1>2

(* What the first n + 1 messages bring the last n of them bring to a copy  *)
(* that is where the first one leaves it.                                  *)
LEMMA TailLemma ==
  ASSUME NEW q \in Seq(Messages), q # <<>>, NEW s, NEW n \in 0 .. Len(q) - 1, NEW v,
         Brought(q, n + 1, s, v)
  PROVE  /\ ~Carries(Head(q)) => Brought(Tail(q), n, s, v)
         /\ Carries(Head(q)) => Brought(Tail(q), n, Head(q).value, v)
<1>0. /\ Len(q) \in Nat \ {0} /\ n \in Nat /\ Head(q) = q[1] /\ 1 \in 1 .. n + 1
      /\ \A i \in 1 .. n : Tail(q)[i] = q[i + 1] /\ i + 1 \in 1 .. n + 1 /\ 1 < i + 1
  BY HeadLemma
<1>1. CASE s = v /\ \A i \in 1 .. n + 1 : ~Carries(q[i])
  BY <1>0, <1>1 DEF Brought
<1>2. ASSUME NEW i \in 1 .. n + 1, Carries(q[i]), q[i].value = v,
             \A j \in 1 .. n + 1 : i < j => ~Carries(q[j])
      PROVE  /\ ~Carries(Head(q)) => Brought(Tail(q), n, s, v)
             /\ Carries(Head(q)) => Brought(Tail(q), n, Head(q).value, v)
  <2>1. CASE i = 1
    <3>1. Head(q).value = v /\ \A j \in 1 .. n : ~Carries(Tail(q)[j])
      BY <1>0, <1>2, <2>1
    <3> QED
      BY <1>0, <1>2, <2>1, <3>1 DEF Brought
  <2>2. CASE i # 1
    <3>1. i - 1 \in 1 .. n /\ (i - 1) + 1 = i
      BY <1>0, <1>2, <2>2
    <3>2. Carries(Tail(q)[i - 1]) /\ Tail(q)[i - 1].value = v
      BY <1>0, <1>2, <3>1
    <3>3. ASSUME NEW j \in 1 .. n, i - 1 < j PROVE ~Carries(Tail(q)[j])
      <4>1. i < j + 1
        BY <1>2, <3>1, <3>3
      <4> QED
        BY <1>0, <1>2, <4>1
    <3> QED
      BY <3>1, <3>2, <3>3 DEF Brought
  <2> QED
    BY <2>1, <2>2
<1> QED
  BY <1>1, <1>2 DEF Brought

(* So taking the first message, and storing what it brings, leaves the     *)
(* copy as far behind as it was, and each reply as well backed.            *)
LEMMA TakeLemma ==
  ASSUME NEW q \in Seq(Messages), NEW s \in Nat, q # <<>>, NEW s2,
         s2 = IF Carries(Head(q)) THEN Head(q).value ELSE s
  PROVE  /\ \A v : Brought(q, Len(q), s, v) => Brought(Tail(q), Len(Tail(q)), s2, v)
         /\ Backed(q, s) => Backed(Tail(q), s2)
<1>1. ASSUME NEW v, Brought(q, Len(q), s, v)
      PROVE  Brought(Tail(q), Len(Tail(q)), s2, v)
  <2>1. Len(q) - 1 \in 0 .. Len(q) - 1 /\ (Len(q) - 1) + 1 = Len(q) /\ Len(Tail(q)) = Len(q) - 1
    BY HeadLemma
  <2> QED
    BY <1>1, <2>1, TailLemma
<1>2. ASSUME Backed(q, s), NEW k \in 1 .. Len(Tail(q)), Tail(q)[k].kind = "reply"
      PROVE  Brought(Tail(q), k - 1, s2, Tail(q)[k].value)
  <2>1. k + 1 \in 1 .. Len(q) /\ Tail(q)[k] = q[k + 1] /\ k - 1 \in 0 .. Len(q) - 1
        /\ (k + 1) - 1 = (k - 1) + 1
    BY HeadLemma
  <2>2. Brought(q, (k - 1) + 1, s, Tail(q)[k].value)
    BY <1>2, <2>1 DEF Backed
  <2> QED
    BY <2>1, <2>2, TailLemma
<1> QED
  BY <1>1, <1>2 DEF Backed

(* Sending one more message to a copy that the others bring to v: a change *)
(* to the value the object is at, an older INIT, a message without a value *)
(* of its own, a reply that was sent after v.                              *)
LEMMA SendLemma ==
  ASSUME NEW q \in Seq(Messages), NEW s \in Nat, NEW r \in Nat, InOrder(q, s, r),
         NEW m \in Messages, NEW r2 \in Nat, r <= r2, NEW v,
         Carries(m) => m.value <= r2, m.kind = "change" => m.value = r2,
         m.kind = "reply" => m.value = v
  PROVE  /\ Append(q, m) \in Seq(Messages)
         /\ InOrder(Append(q, m), s, r2)
         /\ Carries(m) => Brought(Append(q, m), Len(Append(q, m)), s, m.value)
         /\ ~Carries(m) /\ Brought(q, Len(q), s, v) => Brought(Append(q, m), Len(Append(q, m)), s, v)
         /\ Backed(q, s) /\ (m.kind = "reply" => Brought(q, Len(q), s, v)) => Backed(Append(q, m), s)
<1> DEFINE a == Append(q, m)
<1>1. /\ Len(q) \in Nat /\ a \in Seq(Messages) /\ Len(a) = Len(q) + 1
      /\ \A i \in 1 .. Len(q) : a[i] = q[i]
      /\ a[Len(q) + 1] = m
      /\ \A i \in 1 .. Len(q) : q[i] \in Messages
  BY AppendProperties, ElementOfSeq, LenProperties
<1> HIDE DEF a
<1>2. InOrder(a, s, r2)
  <2>1. \A i \in 1 .. Len(q) :
          /\ a[i].value \in Nat
          /\ Carries(a[i]) => a[i].value <= r /\ a[i].value <= r2
          /\ a[i].kind = "change" => s <= a[i].value
    <3> TAKE i \in 1 .. Len(q)
    <3>1. a[i] = q[i] /\ q[i].value \in Nat
      BY <1>1 DEF Messages
    <3>2. (Carries(q[i]) => q[i].value <= r) /\ (q[i].kind = "change" => s <= q[i].value)
      BY DEF InOrder
    <3> QED
      BY <3>1, <3>2
  <2>2. s <= r2
    BY DEF InOrder
  <2>3. ASSUME NEW i \in 1 .. Len(a)
        PROVE  /\ Carries(a[i]) => a[i].value <= r2
               /\ a[i].kind = "change" => s <= a[i].value
    <3>1. CASE i \in 1 .. Len(q)
      BY <2>1, <3>1
    <3>2. CASE i = Len(q) + 1
      BY <1>1, <2>2, <3>2
    <3> QED
      BY <1>1, <3>1, <3>2
  <2>4. ASSUME NEW i \in 1 .. Len(a), NEW j \in 1 .. Len(a), i < j,
               Carries(a[i]), a[j].kind = "change"
        PROVE  a[i].value <= a[j].value
    <3>1. i \in 1 .. Len(q)
      BY <1>1, <2>4
    <3>2. CASE j \in 1 .. Len(q)
      BY <1>1, <2>4, <3>1, <3>2 DEF InOrder
    <3>3. CASE j = Len(q) + 1
      BY <1>1, <2>1, <2>4, <3>1, <3>3
    <3> QED
      BY <1>1, <3>2, <3>3
  <2> QED
    BY <2>2, <2>3, <2>4 DEF InOrder
<1>3. ASSUME Carries(m) PROVE Brought(a, Len(a), s, m.value)
  <2>1. /\ Len(a) \in 1 .. Len(a) /\ a[Len(a)] = m
        /\ \A j \in 1 .. Len(a) : ~(Len(a) < j)
    BY <1>1
  <2> QED
    BY <1>3, <2>1 DEF Brought
<1>4. ASSUME NEW n \in 0 .. Len(q), NEW w, Brought(q, n, s, w)
      PROVE  Brought(a, n, s, w)
  <2>1. \A i \in 1 .. n : a[i] = q[i]
    BY <1>1
  <2> QED
    BY <1>4, <2>1 DEF Brought
<1>5. ASSUME ~Carries(m), Brought(q, Len(q), s, v) PROVE Brought(a, Len(a), s, v)
  <2>1. \A j \in 1 .. Len(a) : (j \in 1 .. Len(q) /\ a[j] = q[j]) \/ ~Carries(a[j])
    BY <1>1, <1>5
  <2>2. \A j \in 1 .. Len(q) : j \in 1 .. Len(a) /\ a[j] = q[j]
    BY <1>1
  <2> QED
    BY <1>5, <2>1, <2>2 DEF Brought
<1>6. ASSUME Backed(q, s), m.kind = "reply" => Brought(q, Len(q), s, v),
             NEW k \in 1 .. Len(a), a[k].kind = "reply"
      PROVE  Brought(a, k - 1, s, a[k].value)
  <2>1. CASE k \in 1 .. Len(q)
    <3>1. Brought(q, k - 1, s, a[k].value) /\ k - 1 \in 0 .. Len(q)
      BY <1>1, <1>6, <2>1 DEF Backed
    <3> QED
      BY <1>4, <3>1
  <2>2. CASE k = Len(q) + 1
    <3>1. a[k] = m /\ k - 1 = Len(q) /\ m.value = v /\ Len(q) \in 0 .. Len(q)
      BY <1>1, <1>6, <2>2
    <3> QED
      BY <1>4, <1>6, <3>1
  <2> QED
    BY <1>1, <2>1, <2>2
<1> QED
  BY <1>1, <1>2, <1>3, <1>5, <1>6 DEF Backed, a

(* A connection that is lost may cut off the end of what was under way.    *)
LEMMA CutLemma ==
  ASSUME NEW q \in Seq(Messages), NEW s \in Nat, NEW r \in Nat, InOrder(q, s, r),
         NEW n \in 0 .. Len(q)
  PROVE  /\ SubSeq(q, 1, n) \in Seq(Messages)
         /\ InOrder(SubSeq(q, 1, n), s, r)
         /\ Backed(q, s) => Backed(SubSeq(q, 1, n), s)
<1> DEFINE a == SubSeq(q, 1, n)
<1>1. /\ Len(q) \in Nat /\ n \in Nat /\ n <= Len(q)
      /\ a \in Seq(Messages) /\ Len(a) = n
      /\ \A i \in 1 .. n : a[i] = q[i]
  BY LenProperties, SubSeqProperties
<1> HIDE DEF a
<1>2. InOrder(a, s, r)
  BY <1>1 DEF InOrder
<1>3. ASSUME Backed(q, s), NEW k \in 1 .. Len(a), a[k].kind = "reply"
      PROVE  Brought(a, k - 1, s, a[k].value)
  <2>1. k \in 1 .. Len(q) /\ a[k] = q[k] /\ \A i \in 1 .. k - 1 : a[i] = q[i]
    BY <1>1
  <2>2. Brought(q, k - 1, s, q[k].value)
    BY <1>3, <2>1 DEF Backed
  <2> QED
    BY <2>1, <2>2 DEF Brought
<1> QED
  BY <1>1, <1>2, <1>3 DEF Backed, a
-----------------------------------------------------------------------------
(* The value the copy has, or is about to have.                            *)
Latest == IF pc[Reader] = "locking" THEN work.value ELSE state

Requests == {"link", "set", "invoke"}

(* The variables that carry data, but for the bound of state.              *)
DataOK ==
  /\ listening \in BOOLEAN
  /\ state \in Nat
  /\ registered \in BOOLEAN
  /\ remote \in Nat
  /\ linked \in BOOLEAN
  /\ lost \in BOOLEAN
  /\ letter \in Nat
  /\ told \in Nat
  /\ overtaken \in BOOLEAN
  /\ outbox \in Seq(Requests)
  /\ inbox \in Seq(Messages)
  /\ work \in [kind : {"init", "change"}, value : Nat]
  /\ ops \in Nat

(* Until it is linked the server sends nothing, and the request to link is *)
(* the first it will see; it is there until INIT is sent.  Once the        *)
(* connection is gone there are no links and no requests.                  *)
LinkFirst ==
  /\ linked = FALSE /\ lost = FALSE => inbox = <<>> /\ outbox # <<>> /\ Head(outbox) = "link"
  /\ lost = TRUE => linked = FALSE /\ outbox = <<>>
  /\ letter # 0 => linked = TRUE

(* What a copy that is registered gets it gets in order, and it is brought *)
(* to what it was told last, as long as there is a connection.             *)
Fed ==
  /\ state <= remote /\ letter <= remote /\ told <= remote
  /\ InOrder(inbox, Latest, remote)
  /\ registered = TRUE => Backed(inbox, Latest)
  /\ lost = FALSE /\ registered = TRUE => Brought(inbox, Len(inbox), Latest, told)

(* A change that is being stored does not set the copy back.               *)
Rising == pc[Reader] = "locking" /\ work.kind = "change" => state <= work.value

(* A client that has got INIT is told the last there is, unless INIT was   *)
(* overtaken.                                                              *)
Told ==
  lost = FALSE /\ overtaken = FALSE /\ (outbox = <<>> \/ Head(outbox) # "link")
    => told = remote

(* The answer to a call, or the error instead of it.                       *)
Answers == {"reply", "error"}

(* A call that waits has its request or its answer on the way, as long as  *)
(* there is a connection.                                                  *)
Awaited ==
  pc[Loop] = "wait" => \/ lost = TRUE
                       \/ \E i \in 1 .. Len(outbox) : outbox[i] = "invoke"
                       \/ \E i \in 1 .. Len(inbox) : inbox[i].kind \in Answers

IInv == LocksHeld /\ DataOK /\ LinkFirst /\ Fed /\ Awaited /\ Rising /\ Told

(* The inductive invariant implies the types.                              *)
LEMMA TypesLemma == IInv => TypeOK
<1> SUFFICES ASSUME IInv PROVE TypeOK
  OBVIOUS
<1>1. mu \in Lock!RWLocks /\ em \in Lock!RWLocks
  BY DEF IInv, LocksHeld, Is
<1>2. sink \in {Nobody, Reader} /\ pc[Loop] \in LoopPhases /\ pc[Reader] \in ReaderPhases
  BY DEF IInv, LocksHeld
<1>3. state <= remote /\ letter <= remote /\ told <= remote /\ DataOK
  BY DEF IInv, Fed
<1>4. state \in 0 .. remote /\ letter \in 0 .. remote /\ told \in 0 .. remote
  BY <1>3 DEF DataOK
<1> QED
  BY <1>1, <1>2, <1>3, <1>4 DEF TypeOK, DataOK, LoopPhases, ReaderPhases, Messages, Requests

(* Initially the request to link is on its way and nothing else.           *)
LEMMA InitLemma == Init => IInv
<1> SUFFICES ASSUME Init PROVE IInv
  OBVIOUS
<1> USE DEF Init
<1>1. <<"link">> \in Seq(Requests) /\ <<"link">> # <<>> /\ Head(<<"link">>) = "link"
  BY DEF Requests
<1>2. <<>> \in Seq(Messages) /\ Len(<<>>) = 0
  BY EmptySeq
<1>3. DataOK /\ LinkFirst
  BY <1>1, <1>2 DEF DataOK, LinkFirst
<1>4. pc[Loop] = "idle" /\ pc[Reader] = "idle"
  BY DEF Threads
<1>5. Fed /\ Awaited /\ Rising
  BY <1>2, <1>4 DEF Fed, InOrder, Backed, Brought, Latest, Awaited, Rising
<1>6. Told
  BY <1>1 DEF Told
<1> QED
  BY LocksInit, <1>3, <1>5, <1>6 DEF IInv

(* A step that leaves both queues and the value to have alone, and lets    *)
(* nobody begin to wait, keeps what there is to say of them.               *)
LEMMA QuietLemma ==
  ASSUME IInv, UNCHANGED <<registered, serverVars, outbox, inbox>>,
         Latest' = Latest, state' <= remote,
         pc'[Loop] = "wait" => pc[Loop] = "wait"
  PROVE  LinkFirst' /\ Fed' /\ Awaited'
BY DEF IInv, LinkFirst, Fed, Awaited, serverVars, history

(* So does one that sends a request.                                       *)
LEMMA RequestLemma ==
  ASSUME IInv, UNCHANGED <<registered, serverVars, inbox, state>>, Latest' = Latest,
         NEW q \in Requests, outbox' = Sent(q),
         pc'[Loop] = "wait" => pc[Loop] = "wait" \/ q = "invoke"
  PROVE  outbox' \in Seq(Requests) /\ LinkFirst' /\ Fed' /\ Awaited'
<1>0. CASE lost = TRUE
  <2>1. outbox' = outbox
    BY <1>0 DEF Sent
  <2> QED
    BY <1>0, <2>1 DEF IInv, DataOK, LinkFirst, Fed, Awaited, serverVars, history
<1> SUFFICES ASSUME lost = FALSE
             PROVE  outbox' \in Seq(Requests) /\ LinkFirst' /\ Fed' /\ Awaited'
  BY <1>0 DEF IInv, DataOK
<1>1. /\ outbox \in Seq(Requests) /\ Len(outbox) \in Nat
      /\ outbox' \in Seq(Requests) /\ outbox' # <<>> /\ Len(outbox') = Len(outbox) + 1
      /\ \A i \in 1 .. Len(outbox) : outbox'[i] = outbox[i]
      /\ outbox'[Len(outbox) + 1] = q
      /\ outbox # <<>> => Head(outbox') = Head(outbox)
  <2>1. outbox' = Append(outbox, q)
    BY DEF Sent
  <2> QED
    BY <2>1, AppendProperties, HeadTailAppend, LenProperties DEF IInv, DataOK
<1>2. LinkFirst'
  BY <1>1 DEF IInv, LinkFirst, serverVars, history
<1>3. Fed'
  BY DEF IInv, Fed, serverVars, history
<1>4. Awaited'
  BY <1>1 DEF IInv, Awaited
<1> QED
  BY <1>1, <1>2, <1>3, <1>4

(* What the reader takes from the inbox.                                   *)
LEMMA InboxLemma ==
  ASSUME IInv, inbox # <<>>
  PROVE  /\ Head(inbox) \in Messages /\ Tail(inbox) \in Seq(Messages)
         /\ linked = TRUE \/ lost = TRUE
         /\ (Head(inbox).kind \notin Answers /\ \E i \in 1 .. Len(inbox) : inbox[i].kind \in Answers)
              => \E i \in 1 .. Len(Tail(inbox)) : Tail(inbox)[i].kind \in Answers
<1>1. /\ inbox \in Seq(Messages) /\ Head(inbox) \in Messages /\ Tail(inbox) \in Seq(Messages)
      /\ Len(inbox) \in Nat \ {0} /\ Len(Tail(inbox)) = Len(inbox) - 1
      /\ \A i \in 1 .. Len(inbox) - 1 : Tail(inbox)[i] = inbox[i + 1]
      /\ Head(inbox) = inbox[1]
  BY EmptySeq, HeadTailProperties DEF IInv, DataOK
<1>2. linked = TRUE \/ lost = TRUE
  BY DEF IInv, DataOK, LinkFirst
<1>3. ASSUME NEW i \in 1 .. Len(inbox), inbox[i].kind \in Answers, Head(inbox).kind \notin Answers
      PROVE  \E j \in 1 .. Len(Tail(inbox)) : Tail(inbox)[j].kind \in Answers
  <2>1. i - 1 \in 1 .. Len(Tail(inbox)) /\ Tail(inbox)[i - 1] = inbox[i]
    BY <1>1, <1>3
  <2> QED
    BY <1>3, <2>1
<1> QED
  BY <1>1, <1>2, <1>3

(* What the server takes from the outbox.                                  *)
LEMMA OutboxLemma ==
  ASSUME IInv, outbox # <<>>
  PROVE  /\ Tail(outbox) \in Seq(Requests)
         /\ lost = FALSE
         /\ Head(outbox) # "link" => linked = TRUE
         /\ (Head(outbox) # "invoke" /\ \E i \in 1 .. Len(outbox) : outbox[i] = "invoke")
              => \E i \in 1 .. Len(Tail(outbox)) : Tail(outbox)[i] = "invoke"
<1>1. /\ Tail(outbox) \in Seq(Requests)
      /\ Len(outbox) \in Nat \ {0} /\ Len(Tail(outbox)) = Len(outbox) - 1
      /\ \A i \in 1 .. Len(outbox) - 1 : Tail(outbox)[i] = outbox[i + 1]
      /\ Head(outbox) = outbox[1]
  BY EmptySeq, HeadTailProperties DEF IInv, DataOK
<1>2. lost = FALSE /\ (Head(outbox) # "link" => linked = TRUE)
  BY DEF IInv, DataOK, LinkFirst
<1>3. ASSUME NEW i \in 1 .. Len(outbox), outbox[i] = "invoke", Head(outbox) # "invoke"
      PROVE  \E j \in 1 .. Len(Tail(outbox)) : Tail(outbox)[j] = "invoke"
  <2>1. i - 1 \in 1 .. Len(Tail(outbox)) /\ Tail(outbox)[i - 1] = outbox[i]
    BY <1>1, <1>3
  <2> QED
    BY <1>3, <2>1
<1> QED
  BY <1>1, <1>2, <1>3

News(v) == [kind |-> "change", value |-> v]
Answer(kind, v) == [kind |-> kind, value |-> v]
Signal == [kind |-> "signal", value |-> 0]

(* What is under way is in order, and brings a copy that is registered to  *)
(* v, and it there before each reply.                                      *)
Stream(q, r, v) ==
  /\ q \in Seq(Messages)
  /\ InOrder(q, Latest, r)
  /\ registered = TRUE => Brought(q, Len(q), Latest, v) /\ Backed(q, Latest)

(* With a connection, the inbox is such a stream.                          *)
LEMMA StreamLemma ==
  ASSUME IInv, lost = FALSE
  PROVE  Stream(inbox, remote, told) /\ Latest \in Nat /\ remote \in Nat /\ told \in Nat
BY DEF IInv, DataOK, Fed, Latest, Stream

(* What the server sends of a change, or of a signal, to a linked client.  *)
LEMMA PushLemma ==
  ASSUME IInv, linked = TRUE, NEW v \in Nat
  PROVE  /\ inbox \o Push("change", v) = Append(inbox, News(v))
         /\ inbox \o Push("signal", 0) = Append(inbox, Signal)
         /\ News(v) \in Messages /\ Signal \in Messages /\ \A k \in Answers : Answer(k, v) \in Messages
<1>1. inbox \in Seq(Messages)
  BY DEF IInv, DataOK
<1>2. News(v) \in Messages /\ Signal \in Messages /\ \A k \in Answers : Answer(k, v) \in Messages
  BY DEF Messages, News, Signal, Answer, Answers
<1>3. Push("change", v) = <<News(v)>> /\ Push("signal", 0) = <<Signal>>
  BY DEF Push, Msg, News, Signal
<1> QED
  BY <1>1, <1>2, <1>3, AppendIsConcat

(* Whatever is sent next keeps the stream one.                             *)
LEMMA NextSentLemma ==
  ASSUME IInv, NEW q, NEW r \in Nat, NEW v \in Nat, Stream(q, r, v),
         NEW m \in Messages, NEW r2 \in Nat, r <= r2,
         Carries(m) => m.value <= r2, m.kind = "change" => m.value = r2,
         m.kind = "reply" => m.value = v
  PROVE  /\ Stream(Append(q, m), r2, IF Carries(m) THEN m.value ELSE v)
         /\ \A i \in 1 .. Len(q) : i \in 1 .. Len(Append(q, m)) /\ Append(q, m)[i] = q[i]
         /\ Len(Append(q, m)) \in 1 .. Len(Append(q, m)) /\ Append(q, m)[Len(Append(q, m))] = m
<1>1. q \in Seq(Messages) /\ Latest \in Nat /\ InOrder(q, Latest, r)
  BY DEF Stream, IInv, DataOK, Latest
<1> HIDE DEF Latest
<1>2. /\ Append(q, m) \in Seq(Messages)
      /\ InOrder(Append(q, m), Latest, r2)
      /\ Carries(m) => Brought(Append(q, m), Len(Append(q, m)), Latest, m.value)
      /\ ~Carries(m) /\ Brought(q, Len(q), Latest, v)
           => Brought(Append(q, m), Len(Append(q, m)), Latest, v)
      /\ Backed(q, Latest) /\ (m.kind = "reply" => Brought(q, Len(q), Latest, v))
           => Backed(Append(q, m), Latest)
  BY <1>1, SendLemma
<1>3. Stream(Append(q, m), r2, IF Carries(m) THEN m.value ELSE v)
  BY <1>2 DEF Stream
<1> QED
  BY <1>1, <1>3, AppendProperties, LenProperties

(* A change of the object is sent to a linked client.                      *)
LEMMA ChangedLemma ==
  ASSUME IInv, linked = TRUE
  PROVE  LET q == Append(inbox, News(remote + 1)) IN
         /\ Stream(q, remote + 1, remote + 1)
         /\ (\E i \in 1 .. Len(inbox) : inbox[i].kind \in Answers)
               => \E i \in 1 .. Len(q) : q[i].kind \in Answers
<1>1. lost = FALSE /\ Stream(inbox, remote, told) /\ remote \in Nat /\ told \in Nat
  BY StreamLemma DEF IInv, DataOK, LinkFirst
<1>2. /\ News(remote + 1) \in Messages /\ Carries(News(remote + 1))
      /\ News(remote + 1).value = remote + 1 /\ News(remote + 1).kind = "change"
      /\ remote + 1 \in Nat /\ remote <= remote + 1 /\ remote + 1 <= remote + 1
  BY <1>1 DEF Messages, Carries, News
<1> QED
  BY <1>1, <1>2, NextSentLemma

(* So is a signal, which changes nothing.                                  *)
LEMMA SignalLemma ==
  ASSUME IInv, linked = TRUE
  PROVE  Stream(Append(inbox, Signal), remote, told)
<1>1. lost = FALSE /\ Stream(inbox, remote, told) /\ remote \in Nat /\ told \in Nat
  BY StreamLemma DEF IInv, DataOK, LinkFirst
<1>2. Signal \in Messages /\ Signal.kind = "signal" /\ ~Carries(Signal) /\ remote <= remote
  BY <1>1 DEF Messages, Signal, Carries
<1> QED
  BY <1>1, <1>2, NextSentLemma

(* An answer comes last, and a reply says what was sent before.            *)
LEMMA AnswerLemma ==
  ASSUME IInv, NEW q, NEW r \in Nat, NEW v \in Nat, Stream(q, r, v), NEW kind \in Answers
  PROVE  LET a == Append(q, Answer(kind, v)) IN
         /\ Stream(a, r, v)
         /\ \E i \in 1 .. Len(a) : a[i].kind \in Answers
<1>1. /\ Answer(kind, v) \in Messages /\ Answer(kind, v).value = v
      /\ Answer(kind, v).kind \in Answers /\ ~Carries(Answer(kind, v))
      /\ Answer(kind, v).kind # "change" /\ r <= r
  BY DEF Messages, Answer, Answers, Carries
<1> QED
  BY <1>1, NextSentLemma

(* A served method: what it changes or signals is sent, then its answer.   *)
AnswerAfter(q, kind) ==
  /\ \/ q = inbox /\ remote' = remote /\ told' = told
     \/ q = Append(inbox, News(remote + 1)) /\ remote' = remote + 1 /\ told' = remote + 1
     \/ q = Append(inbox, Signal) /\ remote' = remote /\ told' = told
  /\ inbox' = Append(q, Answer(kind, told'))

LEMMA InvokedLemma ==
  ASSUME IInv, NEW kind \in Answers, Serve("invoke", Msg(kind, told))
  PROVE  /\ outbox # <<>> /\ Head(outbox) = "invoke" /\ outbox' = Tail(outbox)
         /\ \E q : AnswerAfter(q, kind)
<1>1. outbox # <<>> /\ Head(outbox) = "invoke" /\ outbox' = Tail(outbox)
  BY DEF Serve
<1>2. linked = TRUE /\ remote \in Nat /\ told \in Nat /\ inbox \in Seq(Messages)
  BY <1>1, OutboxLemma DEF IInv, DataOK
<1>3. \A r \in Nat : Msg(kind, r) = <<Answer(kind, r)>> /\ Answer(kind, r) \in Messages
  BY DEF Msg, Answer, Answers, Messages
<1>4. CASE inbox' = inbox \o Msg(kind, told) /\ remote' = remote /\ told' = told
  <2>1. inbox' = Append(inbox, Answer(kind, told'))
    BY <1>2, <1>3, <1>4, AppendIsConcat
  <2>2. AnswerAfter(inbox, kind)
    BY <1>4, <2>1 DEF AnswerAfter
  <2> QED
    BY <1>1, <2>2
<1>5. CASE /\ remote' = remote + 1 /\ told' = remote + 1
           /\ inbox' = inbox \o Push("change", remote') \o
                [i \in DOMAIN Msg(kind, told) |->
                   [Msg(kind, told)[i] EXCEPT !.value = remote']]
  <2>1. [i \in DOMAIN Msg(kind, told) |-> [Msg(kind, told)[i] EXCEPT !.value = remote + 1]]
          = <<Answer(kind, remote + 1)>>
    BY <1>2 DEF Msg, Answer
  <2>2. /\ inbox \o Push("change", remote + 1) = Append(inbox, News(remote + 1))
        /\ Append(inbox, News(remote + 1)) \in Seq(Messages)
    <3>1. remote + 1 \in Nat
      BY <1>2
    <3> QED
      BY <1>2, <3>1, PushLemma, ChangedLemma DEF Stream
  <2>3. remote' = remote + 1 /\ told' = remote + 1 /\ remote + 1 \in Nat
    BY <1>2, <1>5
  <2>4. inbox' = Append(inbox, News(remote + 1)) \o <<Answer(kind, remote + 1)>>
    BY <1>5, <2>1, <2>2, <2>3
  <2>5. inbox' = Append(Append(inbox, News(remote + 1)), Answer(kind, told'))
    BY <1>3, <2>2, <2>3, <2>4, AppendIsConcat
  <2>6. AnswerAfter(Append(inbox, News(remote + 1)), kind)
    BY <2>3, <2>5 DEF AnswerAfter
  <2> QED
    BY <1>1, <2>6
<1>6. CASE inbox' = inbox \o Push("signal", 0) \o Msg(kind, told) /\ remote' = remote /\ told' = told
  <2>1. /\ inbox \o Push("signal", 0) = Append(inbox, Signal)
        /\ Append(inbox, Signal) \in Seq(Messages)
    BY <1>2, PushLemma, SignalLemma DEF Stream
  <2>2. inbox' = Append(Append(inbox, Signal), Answer(kind, told'))
    BY <1>2, <1>3, <1>6, <2>1, AppendIsConcat
  <2>3. AnswerAfter(Append(inbox, Signal), kind)
    BY <1>6, <2>2 DEF AnswerAfter
  <2> QED
    BY <1>1, <2>3
<1>7. \/ inbox' = inbox \o Msg(kind, told) /\ remote' = remote /\ told' = told
      \/ /\ remote' = remote + 1 /\ told' = remote + 1
         /\ inbox' = inbox \o Push("change", remote') \o
                [i \in DOMAIN Msg(kind, told) |->
                   [Msg(kind, told)[i] EXCEPT !.value = remote']]
      \/ inbox' = inbox \o Push("signal", 0) \o Msg(kind, told) /\ remote' = remote /\ told' = told
  BY <1>2 DEF Serve, Change, history
<1> QED
  BY <1>4, <1>5, <1>6, <1>7

(* Every step keeps the types of the data, the order and completeness of   *)
(* what is under way, and that calls that wait are answered.               *)
LEMMA FedStep ==
  ASSUME IInv, [Next]_vars
  PROVE  DataOK' /\ LinkFirst' /\ Fed' /\ Awaited'
<1> USE ClientAssumption DEF Goto, lockVars, serverVars, history
<1>0. /\ LocksHeld /\ DataOK /\ Loop # Reader
      /\ pc \in [Threads -> Phases] /\ Loop \in Threads /\ Reader \in Threads
  BY DEF IInv, LocksHeld, Threads
<1>1. ASSUME NEW op \in Ops, Start(op)
      PROVE  DataOK' /\ LinkFirst' /\ Fed' /\ Awaited'
  <2>1. /\ Latest' = Latest /\ op # "wait" /\ pc' = [pc EXCEPT ![Loop] = op]
        /\ UNCHANGED <<registered, serverVars, outbox, inbox, state>>
    BY <1>0, <1>1 DEF Start, Latest, AllOps
  <2>2. state' <= remote
    BY <2>1 DEF IInv, Fed
  <2>3. LinkFirst' /\ Fed' /\ Awaited'
    BY <1>0, <2>1, <2>2, QuietLemma
  <2> QED
    BY <1>0, <1>1, <2>3 DEF Start, DataOK
<1>2. CASE GetProperty
  BY <1>0, <1>2, QuietLemma DEF GetProperty, DataOK, Latest, IInv, Fed
<1>3. CASE SetProperty
  <2>1. "set" \in Requests /\ Latest' = Latest /\ pc'[Loop] = "idle"
    BY <1>0, <1>3 DEF SetProperty, Requests, Latest
  <2> QED
    BY <1>0, <1>3, <2>1, RequestLemma DEF SetProperty, DataOK
<1>4. CASE OnProperty
  BY <1>0, <1>4, QuietLemma DEF OnProperty, DataOK, Latest, IInv, Fed
<1>5. CASE Add
  BY <1>0, <1>5, QuietLemma DEF Add, DataOK, Latest, IInv, Fed
<1>6. CASE CallMethod
  <2>1. "invoke" \in Requests /\ Latest' = Latest
    BY <1>0, <1>6 DEF CallMethod, Requests, Latest
  <2> QED
    BY <1>0, <1>6, <2>1, RequestLemma DEF CallMethod, DataOK
<1>7. CASE Close
  BY <1>0, <1>7, QuietLemma DEF Close, DataOK, Latest, IInv, Fed
<1>8. CASE UnregisterSink
  <2>1. Latest' = Latest /\ pc'[Loop] = "idle"
    BY <1>0, <1>8 DEF UnregisterSink, Latest
  <2> QED
    BY <1>0, <1>8, <2>1 DEF UnregisterSink, DataOK, IInv, LinkFirst, Fed, Awaited
<1>9. CASE HandleChange
  <2>1. /\ inbox # <<>> /\ Carries(Head(inbox)) /\ Head(inbox).kind \notin Answers
        /\ inbox' = Tail(inbox) /\ Latest' = Head(inbox).value /\ Latest = state /\ Latest \in Nat
        /\ pc'[Loop] = pc[Loop] /\ UNCHANGED <<outbox, serverVars, registered, state>>
        /\ work' = Head(inbox)
    BY <1>0, <1>9 DEF HandleChange, NextIs, Latest, Carries, Answers, DataOK
  <2>2. /\ inbox \in Seq(Messages) /\ remote \in Nat /\ InOrder(inbox, Latest, remote)
    BY DEF IInv, DataOK, Fed
  <2>3. /\ InOrder(inbox', Latest', remote)
        /\ Brought(inbox, Len(inbox), Latest, told) => Brought(inbox', Len(inbox'), Latest', told)
        /\ Backed(inbox, Latest) => Backed(inbox', Latest')
    BY <2>1, <2>2, OrderLemma, TakeLemma
  <2>4. (linked = TRUE \/ lost = TRUE) /\ inbox' \in Seq(Messages) /\ work' \in [kind : {"init", "change"}, value : Nat]
    BY <2>1, InboxLemma DEF Messages, Carries
  <2>5. Fed'
    BY <2>1, <2>3, <2>4 DEF IInv, Fed
  <2>6. Awaited'
    BY <2>1, InboxLemma DEF IInv, Awaited
  <2> QED
    BY <1>0, <1>9, <2>1, <2>3, <2>4, <2>5, <2>6 DEF HandleChange, IInv, DataOK, LinkFirst
<1>10. CASE SetLocalProperty
  <2>1. /\ Latest' = Latest /\ state' = Latest /\ Latest \in Nat /\ Latest <= remote
        /\ pc'[Loop] = pc[Loop]
    BY <1>0, <1>10 DEF SetLocalProperty, DataOK, Latest, IInv, Fed, InOrder
  <2> QED
    BY <1>0, <1>10, <2>1, QuietLemma DEF SetLocalProperty, DataOK
<1>11. CASE Emit
  <2>1. pc[Reader] = "emit" /\ pc'[Reader] \in {"emitted", "listener"} /\ pc'[Loop] = pc[Loop]
    BY <1>0, <1>11 DEF Emit
  <2> QED
    BY <1>0, <1>11, <2>1, QuietLemma DEF Emit, DataOK, Latest, IInv, Fed
<1>12. CASE Emitted
  BY <1>0, <1>12, QuietLemma DEF Emitted, DataOK, Latest, IInv, Fed
<1>13. CASE HandleSignal
  <2>1. /\ inbox # <<>> /\ ~Carries(Head(inbox)) /\ Head(inbox).kind \notin Answers
        /\ inbox' = Tail(inbox) /\ Latest' = Latest /\ Latest \in Nat
        /\ pc'[Loop] = pc[Loop] /\ UNCHANGED <<outbox, serverVars, registered, state>>
    BY <1>0, <1>13 DEF HandleSignal, NextIs, Latest, Carries, Answers, DataOK
  <2>2. /\ inbox \in Seq(Messages) /\ remote \in Nat /\ InOrder(inbox, Latest, remote)
    BY DEF IInv, DataOK, Fed
  <2>3. (linked = TRUE \/ lost = TRUE) /\ inbox' \in Seq(Messages)
    BY <2>1, InboxLemma
  <2>4. Fed'
    BY <2>1, <2>2, OrderLemma, TakeLemma DEF IInv, Fed
  <2>5. Awaited'
    BY <2>1, InboxLemma DEF IInv, Awaited
  <2> QED
    BY <1>0, <1>13, <2>1, <2>3, <2>4, <2>5 DEF HandleSignal, IInv, DataOK, LinkFirst
<1>14. CASE SignalHandled
  BY <1>0, <1>14, QuietLemma DEF SignalHandled, DataOK, Latest, IInv, Fed
<1>15. CASE CallFromSignal
  <2>1. "invoke" \in Requests /\ Latest' = Latest /\ pc'[Loop] = pc[Loop]
    BY <1>0, <1>15 DEF CallFromSignal, Requests, Latest
  <2> QED
    BY <1>0, <1>15, <2>1, RequestLemma DEF CallFromSignal, DataOK
<1>16. CASE HandleReply
  <2>1. /\ inbox # <<>> /\ ~Carries(Head(inbox))
        /\ inbox' = Tail(inbox) /\ Latest' = Latest /\ Latest \in Nat
        /\ pc'[Loop] = "idle" /\ UNCHANGED <<outbox, serverVars, registered, state>>
    BY <1>0, <1>16 DEF HandleReply, NextIs, Latest, Carries, Answers, DataOK
  <2>2. /\ inbox \in Seq(Messages) /\ remote \in Nat /\ InOrder(inbox, Latest, remote)
    BY DEF IInv, DataOK, Fed
  <2>3. (linked = TRUE \/ lost = TRUE) /\ inbox' \in Seq(Messages)
    BY <2>1, InboxLemma
  <2>4. Fed'
    BY <2>1, <2>2, OrderLemma, TakeLemma DEF IInv, Fed
  <2> QED
    BY <1>0, <1>16, <2>1, <2>3, <2>4 DEF HandleReply, IInv, DataOK, LinkFirst, Awaited
<1>17. CASE Drop
  <2>1. /\ inbox # <<>> /\ Head(inbox).kind \notin Answers /\ registered' = FALSE
        /\ inbox' = Tail(inbox) /\ Latest' = Latest /\ Latest \in Nat
        /\ UNCHANGED <<outbox, serverVars, registered, state, pc>>
    BY <1>0, <1>17 DEF Drop, NextIs, Latest, Answers, DataOK
  <2>2. /\ inbox \in Seq(Messages) /\ remote \in Nat /\ InOrder(inbox, Latest, remote)
    BY DEF IInv, DataOK, Fed
  <2>3. (linked = TRUE \/ lost = TRUE) /\ inbox' \in Seq(Messages)
    BY <2>1, InboxLemma
  <2>4. Fed'
    BY <2>1, <2>2, OrderLemma, TakeLemma DEF IInv, Fed
  <2>5. Awaited'
    BY <2>1, InboxLemma DEF IInv, Awaited
  <2> QED
    BY <1>0, <1>17, <2>1, <2>3, <2>4, <2>5 DEF Drop, IInv, DataOK, LinkFirst
<1>18. ASSUME NEW kind \in Answers, Serve("invoke", Msg(kind, told))
       PROVE  DataOK' /\ LinkFirst' /\ Fed' /\ Awaited'
  <2>1. /\ UNCHANGED <<linked, lost, letter, registered, state, work, pc, listening, ops>>
        /\ Latest' = Latest /\ overtaken' \in BOOLEAN
    BY <1>0, <1>18 DEF Serve, Change, Latest, DataOK
  <2>2. /\ outbox # <<>> /\ outbox' = Tail(outbox) /\ outbox' \in Seq(Requests)
        /\ linked = TRUE /\ lost = FALSE
    BY <1>18, InvokedLemma, OutboxLemma
  <2>3. PICK q : AnswerAfter(q, kind)
    BY <1>18, InvokedLemma
  <2>4. Stream(inbox, remote, told) /\ remote \in Nat /\ remote + 1 \in Nat /\ told \in Nat
    <3>1. Stream(inbox, remote, told) /\ remote \in Nat /\ told \in Nat
      BY <2>2, StreamLemma
    <3> QED
      BY <3>1
  <2>5. /\ remote' \in Nat /\ told' \in Nat /\ Stream(q, remote', told')
        /\ remote <= remote' /\ told' <= remote'
    <3>1. state <= remote /\ letter <= remote /\ told <= remote
      BY DEF IInv, Fed
    <3>2. CASE q = inbox /\ remote' = remote /\ told' = told
      BY <2>4, <3>1, <3>2
    <3>3. CASE q = Append(inbox, News(remote + 1)) /\ remote' = remote + 1 /\ told' = remote + 1
      <4>1. Stream(Append(inbox, News(remote + 1)), remote + 1, remote + 1)
        BY <2>2, ChangedLemma
      <4> QED
        BY <2>4, <3>3, <4>1
    <3>4. CASE q = Append(inbox, Signal) /\ remote' = remote /\ told' = told
      BY <2>2, <2>4, <3>1, <3>4, SignalLemma
    <3> QED
      BY <2>3, <3>2, <3>3, <3>4 DEF AnswerAfter
  <2>6. /\ Stream(inbox', remote', told')
        /\ \E i \in 1 .. Len(inbox') : inbox'[i].kind \in Answers
    <3>1. inbox' = Append(q, Answer(kind, told'))
      BY <2>3 DEF AnswerAfter
    <3> QED
      BY <2>5, <3>1, AnswerLemma
  <2>7. Fed'
    BY <1>0, <2>1, <2>4, <2>5, <2>6 DEF IInv, Fed, Stream, DataOK
  <2> QED
    BY <1>0, <2>1, <2>2, <2>5, <2>6, <2>7 DEF DataOK, LinkFirst, Awaited, Stream, IInv
<1>19. CASE Assigned
  <2>1. /\ UNCHANGED <<linked, lost, letter, registered, state, work, pc, listening, ops>>
        /\ Latest' = Latest /\ overtaken' \in BOOLEAN
        /\ outbox # <<>> /\ Head(outbox) = "set" /\ outbox' = Tail(outbox)
    BY <1>0, <1>19 DEF Assigned, Serve, Change, Latest, DataOK
  <2>2. outbox' \in Seq(Requests) /\ linked = TRUE /\ lost = FALSE
    BY <2>1, OutboxLemma
  <2>3. Stream(inbox, remote, told) /\ remote \in Nat /\ remote + 1 \in Nat /\ told \in Nat
    <3>1. Stream(inbox, remote, told) /\ remote \in Nat /\ told \in Nat
      BY <2>2, StreamLemma
    <3> QED
      BY <3>1
  <2>4. \/ inbox' = inbox /\ remote' = remote /\ told' = told
        \/ inbox' = Append(inbox, News(remote + 1)) /\ remote' = remote + 1 /\ told' = remote + 1
    <3>1. CASE inbox' = inbox \o <<>> /\ UNCHANGED <<remote, history>>
      BY <2>3, <3>1, ConcatEmptySeq DEF Stream
    <3>2. CASE /\ Change
               /\ inbox' = inbox \o Push("change", remote') \o
                     [j \in DOMAIN <<>> |-> [<<>>[j] EXCEPT !.value = remote']]
      <4>1. [j \in DOMAIN <<>> |-> [<<>>[j] EXCEPT !.value = remote']] = <<>>
        OBVIOUS
      <4>2. /\ inbox \o Push("change", remote + 1) = Append(inbox, News(remote + 1))
            /\ Append(inbox, News(remote + 1)) \in Seq(Messages)
        BY <2>2, <2>3, PushLemma, ChangedLemma DEF Stream
      <4>3. remote' = remote + 1 /\ told' = remote + 1
        BY <2>2, <3>2 DEF Change
      <4>4. inbox' = Append(inbox, News(remote + 1)) \o <<>>
        BY <3>2, <4>1, <4>2, <4>3
      <4> QED
        BY <4>2, <4>3, <4>4, ConcatEmptySeq
    <3> QED
      BY <1>19, <3>1, <3>2 DEF Assigned, Serve
  <2>5. CASE inbox' = inbox /\ remote' = remote /\ told' = told
    <3>1. Fed' /\ Awaited'
      BY <2>1, <2>5, OutboxLemma DEF IInv, Fed, Awaited
    <3> QED
      BY <1>0, <2>1, <2>2, <2>5, <3>1 DEF DataOK, LinkFirst, IInv
  <2>6. CASE inbox' = Append(inbox, News(remote + 1)) /\ remote' = remote + 1 /\ told' = remote + 1
    <3>1. /\ Stream(inbox', remote', told')
          /\ (\E i \in 1 .. Len(inbox) : inbox[i].kind \in Answers)
               => \E i \in 1 .. Len(inbox') : inbox'[i].kind \in Answers
      BY <2>2, <2>6, ChangedLemma
    <3>2. Fed'
      BY <1>0, <2>1, <2>3, <2>6, <3>1 DEF IInv, Fed, Stream, DataOK
    <3>3. Awaited'
      BY <2>1, <3>1, OutboxLemma DEF IInv, Awaited
    <3> QED
      BY <1>0, <2>1, <2>2, <2>3, <2>6, <3>1, <3>2, <3>3 DEF DataOK, LinkFirst, Stream, IInv
  <2> QED
    BY <2>4, <2>5, <2>6
<1>20. CASE Linked
  <2>1. /\ UNCHANGED <<remote, lost, letter, told, overtaken, registered, state, work, pc,
                       listening, ops, outbox, inbox>>
        /\ Latest' = Latest /\ linked' = TRUE /\ outbox # <<>>
    BY <1>0, <1>20 DEF Linked, Linking, Latest, DataOK
  <2>2. lost = FALSE
    BY <2>1, OutboxLemma
  <2> QED
    BY <1>0, <2>1, <2>2 DEF IInv, DataOK, LinkFirst, Fed, Awaited
<1>26. CASE Marshal
  <2>1. /\ UNCHANGED <<remote, linked, lost, told, overtaken, registered, state, work, pc,
                       listening, ops, outbox, inbox>>
        /\ Latest' = Latest /\ letter' = remote /\ linked = TRUE
    BY <1>0, <1>26 DEF Marshal, Latest, DataOK
  <2> QED
    BY <1>0, <2>1 DEF IInv, DataOK, LinkFirst, Fed, Awaited
<1>27. CASE SendInit
  <2>1. /\ UNCHANGED <<remote, linked, lost, registered, state, work, pc, listening, ops>>
        /\ Latest' = Latest /\ letter # 0 /\ letter' = 0 /\ told' = letter
        /\ overtaken' \in BOOLEAN
        /\ outbox # <<>> /\ Head(outbox) = "link" /\ outbox' = Tail(outbox)
        /\ inbox' = inbox \o Msg("init", letter)
    BY <1>0, <1>27 DEF SendInit, Linking, Latest, DataOK
  <2>2. /\ outbox' \in Seq(Requests) /\ lost = FALSE /\ linked = TRUE
        /\ letter \in Nat /\ letter <= remote /\ remote \in Nat
    BY <2>1, OutboxLemma DEF IInv, DataOK, LinkFirst, Fed
  <2>3. Stream(inbox, remote, told) /\ told \in Nat /\ inbox \in Seq(Messages)
    BY <2>2, StreamLemma DEF Stream
  <2> DEFINE m == [kind |-> "init", value |-> letter]
  <2>4. /\ m \in Messages /\ m.value = letter /\ Carries(m) /\ m.kind \notin Answers
        /\ m.kind # "change" /\ m.kind # "reply" /\ remote <= remote
    BY <2>2 DEF Messages, Carries, Answers
  <2>5. Msg("init", letter) = <<m>>
    BY DEF Msg
  <2> HIDE DEF m
  <2>6. inbox' = Append(inbox, m)
    BY <2>1, <2>3, <2>4, <2>5, AppendIsConcat
  <2>7. /\ Stream(inbox', remote, letter)
        /\ \A i \in 1 .. Len(inbox) : i \in 1 .. Len(inbox') /\ inbox'[i] = inbox[i]
    BY <2>2, <2>3, <2>4, <2>6, NextSentLemma
  <2>8. Fed'
    BY <2>1, <2>2, <2>7 DEF IInv, Fed, Stream
  <2>9. Awaited'
    BY <2>1, <2>7, OutboxLemma DEF IInv, Awaited
  <2> QED
    BY <1>0, <2>1, <2>2, <2>7, <2>8, <2>9 DEF DataOK, LinkFirst, Stream
<1>21. CASE Changed
  <2>1. /\ UNCHANGED <<linked, lost, letter, registered, state, work, pc, listening, ops, outbox>>
        /\ Latest' = Latest /\ Latest \in Nat /\ remote' = remote + 1 /\ remote + 1 \in Nat
        /\ told' = (IF linked THEN remote + 1 ELSE told) /\ overtaken' \in BOOLEAN
        /\ inbox' = inbox \o Push("change", remote + 1)
    BY <1>0, <1>21 DEF Changed, Change, Latest, DataOK
  <2>2. inbox \in Seq(Messages) /\ remote \in Nat
    BY DEF IInv, DataOK
  <2>3. CASE linked = TRUE
    <3>1. inbox' = Append(inbox, News(remote + 1)) /\ told' = remote + 1
      BY <2>1, <2>3, PushLemma
    <3>2. /\ Stream(inbox', remote', told')
          /\ (\E i \in 1 .. Len(inbox) : inbox[i].kind \in Answers)
               => \E i \in 1 .. Len(inbox') : inbox'[i].kind \in Answers
      BY <2>1, <2>3, <3>1, ChangedLemma
    <3>3. Fed'
      BY <1>0, <2>1, <2>2, <3>1, <3>2 DEF IInv, Fed, Stream, DataOK
    <3>4. Awaited'
      BY <2>1, <3>2 DEF IInv, Awaited
    <3> QED
      BY <1>0, <2>1, <2>3, <3>1, <3>2, <3>3, <3>4 DEF IInv, DataOK, LinkFirst, Stream
  <2>4. CASE linked = FALSE
    <3>1. inbox' = inbox /\ told' = told
      BY <2>1, <2>2, <2>4, ConcatEmptySeq DEF Push
    <3>2. InOrder(inbox, Latest, remote) /\ remote \in Nat
      BY <1>0 DEF IInv, Fed, DataOK
    <3>3. InOrder(inbox, Latest, remote + 1)
      <4>1. /\ Latest <= remote + 1
            /\ \A i \in 1 .. Len(inbox) : inbox[i].value \in Nat
        <5>1. Latest <= remote
          BY <3>2 DEF InOrder
        <5>2. \A i \in 1 .. Len(inbox) : inbox[i] \in Messages
          BY <2>2, ElementOfSeq
        <5> HIDE DEF Latest
        <5> QED
          BY <2>1, <3>2, <5>1, <5>2 DEF Messages
      <4> HIDE DEF Latest
      <4> QED
        BY <3>2, <4>1 DEF InOrder
    <3>4. Fed'
      <4>1. state <= remote + 1 /\ letter <= remote + 1 /\ told <= remote + 1
        BY <1>0, <2>2 DEF IInv, Fed, DataOK
      <4>2. /\ registered = TRUE => Backed(inbox, Latest)
            /\ lost = FALSE /\ registered = TRUE => Brought(inbox, Len(inbox), Latest, told)
        BY DEF IInv, Fed
      <4> HIDE DEF Latest
      <4> QED
        BY <2>1, <3>1, <3>3, <4>1, <4>2 DEF Fed
    <3> QED
      BY <1>0, <2>1, <3>1, <3>4 DEF IInv, DataOK, LinkFirst, Awaited
  <2> QED
    BY <1>0, <2>3, <2>4 DEF DataOK
<1>22. CASE UNCHANGED vars
  BY <1>0, <1>22, QuietLemma DEF vars, DataOK, Latest, IInv, Fed
<1>23. CASE HandleError
  <2>1. /\ inbox # <<>> /\ ~Carries(Head(inbox))
        /\ inbox' = Tail(inbox) /\ Latest' = Latest /\ Latest \in Nat
        /\ pc'[Loop] = "refused" /\ UNCHANGED <<outbox, serverVars, registered, state>>
    BY <1>0, <1>23 DEF HandleError, NextIs, Latest, Carries, DataOK
  <2>2. /\ inbox \in Seq(Messages) /\ remote \in Nat /\ InOrder(inbox, Latest, remote)
    BY DEF IInv, DataOK, Fed
  <2>3. (linked = TRUE \/ lost = TRUE) /\ inbox' \in Seq(Messages)
    BY <2>1, InboxLemma
  <2>4. Fed'
    BY <2>1, <2>2, OrderLemma, TakeLemma DEF IInv, Fed
  <2>5. LinkFirst' /\ Awaited'
    BY <2>1, <2>3 DEF IInv, LinkFirst, Awaited
  <2> QED
    BY <1>0, <1>23, <2>1, <2>3, <2>4, <2>5 DEF HandleError, DataOK
<1>24. CASE Lost
  <2>1. PICK n \in 0 .. Len(inbox) : inbox' = SubSeq(inbox, 1, n)
    BY <1>24 DEF Lost
  <2>2. /\ lost' = TRUE /\ linked' = FALSE /\ outbox' = <<>> /\ outbox' \in Seq(Requests)
        /\ letter' = 0 /\ Latest' = Latest /\ Latest \in Nat
        /\ UNCHANGED <<listening, state, registered, remote, told, overtaken, work, pc, ops>>
    BY <1>0, <1>24, EmptySeq DEF Lost, Latest, DataOK
  <2>3. inbox \in Seq(Messages) /\ remote \in Nat /\ InOrder(inbox, Latest, remote)
    BY DEF IInv, DataOK, Fed
  <2>4. /\ inbox' \in Seq(Messages) /\ InOrder(inbox', Latest, remote)
        /\ Backed(inbox, Latest) => Backed(inbox', Latest)
    BY <2>1, <2>2, <2>3, CutLemma
  <2>5. Fed'
    BY <2>2, <2>3, <2>4 DEF IInv, Fed
  <2> QED
    BY <1>0, <2>2, <2>4, <2>5 DEF DataOK, LinkFirst, Awaited
<1>25. Invoked \/ Refused => \E kind \in Answers : Serve("invoke", Msg(kind, told))
  BY DEF Invoked, Refused, Answers
<1> QED
  BY <1>1, <1>2, <1>3, <1>4, <1>5, <1>6, <1>7, <1>8, <1>9, <1>10, <1>11, <1>12, <1>13, <1>14,
     <1>15, <1>16, <1>17, <1>18, <1>19, <1>20, <1>21, <1>22, <1>23, <1>24, <1>25, <1>26,
     <1>27 DEF Next, Script, Read, Server
(* The reader takes the changes in their order.                            *)
LEMMA RisingStep ==
  ASSUME IInv, [Next]_vars
  PROVE  Rising'
<1>1. /\ pc \in [Threads -> Phases] /\ Loop \in Threads /\ Reader \in Threads /\ Loop # Reader
  BY ClientAssumption DEF IInv, LocksHeld, Threads
<1>2. CASE HandleChange
  <2>1. /\ pc[Reader] = "idle" /\ inbox # <<>> /\ state' = state /\ work' = Head(inbox)
        /\ InOrder(inbox, state, remote) /\ inbox \in Seq(Messages)
    BY <1>1, <1>2 DEF HandleChange, NextIs, Goto, IInv, Fed, Latest, DataOK
  <2>2. Head(inbox) = inbox[1] /\ 1 \in 1 .. Len(inbox)
    BY <2>1, HeadLemma
  <2>3. Head(inbox).kind = "change" => state <= Head(inbox).value
    BY <2>1, <2>2 DEF InOrder
  <2> QED
    BY <2>1, <2>3 DEF Rising
<1>3. CASE SetLocalProperty
  BY <1>1, <1>3 DEF SetLocalProperty, Goto, Rising
<1>4. CASE UNCHANGED <<state, work>> /\ (pc'[Reader] = "locking" => pc[Reader] = "locking")
  BY <1>4 DEF IInv, Rising
<1>5. \/ HandleChange \/ SetLocalProperty
      \/ UNCHANGED <<state, work>> /\ (pc'[Reader] = "locking" => pc[Reader] = "locking")
  BY <1>1, ClientAssumption
     DEF Next, Script, Read, Server, vars, serverVars, history, lockVars, Goto, Start, GetProperty,
         SetProperty, OnProperty, Add, CallMethod, Close, UnregisterSink, Emit, Emitted,
         HandleSignal, SignalHandled, CallFromSignal, HandleReply, HandleError, Drop, Invoked,
         Refused, Assigned, Serve, Linked, Marshal, SendInit, Changed, Lost
<1> QED
  BY <1>2, <1>3, <1>4, <1>5

(* The client is told of every change from its link on.                    *)
LEMMA ToldStep ==
  ASSUME IInv, [Next]_vars
  PROVE  Told'
<1> USE DEF Told
<1>0. Told /\ LinkFirst /\ lost \in BOOLEAN /\ linked \in BOOLEAN /\ overtaken \in BOOLEAN
  BY DEF IInv, DataOK
<1>1. CASE UNCHANGED <<remote, lost, told, overtaken, outbox>>
  BY <1>0, <1>1
<1>2. ASSUME NEW q \in {"set", "invoke"}, outbox' = Sent(q), UNCHANGED <<remote, lost, told, overtaken>>
      PROVE  Told'
  <2>1. outbox' = outbox \/ outbox' = Append(outbox, q)
    BY <1>2 DEF Sent
  <2>2. outbox \in Seq(Requests) /\ q \in Requests
    BY DEF IInv, DataOK, Requests
  <2>3. outbox' = Append(outbox, q) /\ outbox # <<>> => Head(outbox') = Head(outbox)
    BY <2>2, HeadTailAppend
  <2> QED
    BY <1>0, <1>2, <2>1, <2>3
<1>3. ASSUME NEW request \in {"set", "invoke"}, NEW answer, Serve(request, answer) PROVE Told'
  <2>1. /\ outbox # <<>> /\ Head(outbox) # "link" /\ lost' = lost /\ lost = FALSE /\ linked = TRUE
        /\ Change \/ UNCHANGED <<remote, history>>
    BY <1>0, <1>3 DEF Serve, LinkFirst
  <2> QED
    BY <1>0, <2>1 DEF Change, history
<1>4. CASE SendInit
  BY <1>0, <1>4 DEF SendInit
<1>5. CASE Changed
  BY <1>0, <1>5 DEF Changed, Change, LinkFirst
<1>6. CASE Lost
  BY <1>6 DEF Lost
<1>7. \/ UNCHANGED <<remote, lost, told, overtaken, outbox>>
      \/ \E q \in {"set", "invoke"} : outbox' = Sent(q) /\ UNCHANGED <<remote, lost, told, overtaken>>
      \/ \E request \in {"set", "invoke"} : \E answer : Serve(request, answer)
      \/ SendInit \/ Changed \/ Lost
  BY DEF Next, Script, Read, Server, vars, serverVars, history, Start, GetProperty,
         SetProperty, OnProperty, Add, CallMethod, Close, UnregisterSink, HandleChange,
         SetLocalProperty, Emit, Emitted, HandleSignal, SignalHandled, CallFromSignal, HandleReply,
         HandleError, Drop, Invoked, Refused, Assigned, Linked, Marshal
<1> QED
  BY <1>1, <1>2, <1>3, <1>4, <1>5, <1>6, <1>7
-----------------------------------------------------------------------------
(* Every reachable state satisfies the inductive invariant.                *)
LEMMA InvLemma == Spec => []IInv
<1>1. IInv /\ [Next]_vars => IInv'
  BY LocksStep, FedStep, RisingStep, ToldStep DEF IInv
<1> QED
  BY <1>1, InitLemma, PTL DEF Spec

(* Every variable has its type, and the copy is never ahead of the object. *)
THEOREM TypeCorrect == Spec => []TypeOK
BY InvLemma, TypesLemma, PTL

(* With nothing under way, the copy is what the object is, whatever the    *)
(* script, its listeners and the other users of the object have done, but  *)
(* for an INIT that was overtaken by a change and not followed by another. *)
THEOREM UpToDateCorrect == Spec => []UpToDate
<1>1. IInv => UpToDate
  <2> SUFFICES ASSUME IInv, ~lost, ~overtaken, registered, inbox = <<>>, outbox = <<>>,
                      pc[Reader] = "idle"
               PROVE  state = remote
    BY DEF UpToDate
  <2>1. registered = TRUE /\ lost = FALSE /\ overtaken = FALSE
    BY DEF IInv, DataOK
  <2>2. Brought(inbox, 0, state, told)
    BY <2>1, EmptySeq DEF IInv, Fed, Latest
  <2>3. told = remote
    BY <2>1 DEF IInv, Told
  <2> QED
    BY <2>2, <2>3 DEF Brought
<1> QED
  BY <1>1, InvLemma, PTL

(* What the script knows of the object gets older by an INIT only, since   *)
(* the reader stores the changes in the order the server made them.        *)
THEOREM BackwardsCorrect == Spec => NeverBackwards
<1>1. IInv /\ [Next]_vars => (state' >= state \/ work.kind = "init" \/ UNCHANGED vars)
  <2> SUFFICES ASSUME IInv, [Next]_vars PROVE state' >= state \/ work.kind = "init"
    OBVIOUS
  <2>1. state \in Nat /\ work \in [kind : {"init", "change"}, value : Nat] /\ Rising
    BY DEF IInv, DataOK
  <2>2. state' = state \/ SetLocalProperty
    BY DEF Next, Script, Read, Server, vars, serverVars, lockVars, Start, GetProperty, SetProperty,
           OnProperty, Add, CallMethod, Close, UnregisterSink, HandleChange, Emit, Emitted,
           HandleSignal, SignalHandled, CallFromSignal, HandleReply, HandleError, Drop, Invoked,
           Refused, Assigned, Serve, Linked, Marshal, SendInit, Changed, Lost
  <2>3. CASE SetLocalProperty
    BY <2>1, <2>3 DEF SetLocalProperty, Goto, Rising
  <2> QED
    BY <2>1, <2>2, <2>3
<1>2. IInv /\ [Next]_vars => [state' >= state \/ work.kind = "init"]_vars
  BY <1>1
<1> QED
  BY <1>2, InvLemma, PTL DEF Spec, NeverBackwards

(* When a call returns to a client that is registered, INIT and all the    *)
(* changes the server had sent before it replied are stored.               *)
THEOREM EffectsCorrect == Spec => CallsSeeTheirEffects
<1>1. ASSUME IInv, [Next]_vars, pc[Loop] = "wait", pc'[Loop] = "idle", registered
      PROVE  state >= Head(inbox).value
  <2>1. HandleReply
    <3>1. /\ pc \in [Threads -> Phases] /\ Loop \in Threads /\ Reader \in Threads /\ Loop # Reader
      BY <1>1, ClientAssumption DEF IInv, LocksHeld, Threads
    <3> QED
      BY <1>1, <3>1, ClientAssumption
         DEF Next, Script, Read, Server, vars, serverVars, lockVars, Goto, Start, GetProperty,
             SetProperty, OnProperty, Add, CallMethod, Close, UnregisterSink, HandleChange,
             SetLocalProperty, Emit, Emitted, HandleSignal, SignalHandled, CallFromSignal, HandleError,
             Drop, Invoked, Refused, Assigned, Serve, Linked, Marshal, SendInit, Changed, Lost, AllOps
  <2>2. inbox # <<>> /\ Head(inbox).kind = "reply" /\ Latest = state /\ state \in Nat
        /\ registered = TRUE
    BY <1>1, <2>1 DEF HandleReply, NextIs, Latest, IInv, DataOK
  <2>3. Backed(inbox, state)
    BY <1>1, <2>2, InboxLemma DEF IInv, Fed
  <2>4. Len(inbox) \in Nat \ {0} /\ Head(inbox) = inbox[1] /\ Head(inbox) \in Messages
    BY <1>1, <2>2, EmptySeq, HeadTailProperties DEF IInv, DataOK
  <2>5. Brought(inbox, 0, state, Head(inbox).value)
    BY <2>2, <2>3, <2>4 DEF Backed
  <2> QED
    BY <2>2, <2>5 DEF Brought
<1>2. IInv /\ [Next]_vars =>
        [(pc[Loop] = "wait" /\ pc'[Loop] = "idle" /\ registered)
           => state >= Head(inbox).value]_vars
  BY <1>1
<1> QED
  BY <1>2, InvLemma, PTL DEF Spec, CallsSeeTheirEffects

(* Whenever all that is begun waits, it is in one of the ways named: the   *)
(* write lock asked for between two nested read locks, the sink's mutex    *)
(* wanted under a read lock, a listener that uses its own client, a call   *)
(* whose method failed, or a call whose connection is gone.                *)
THEOREM HangsCorrect == Spec => []HangsOnlyAsNamed
<1>1. IInv => HangsOnlyAsNamed
  <2> SUFFICES ASSUME IInv, Hangs
               PROVE  \/ /\ pc[Reader] = "locking"
                         /\ pc[Loop] \in {"call", "close", "unregister"}
                         /\ mu.readers[Loop] = 1
                      \/ ListenerUses /\ pc[Reader] = "listener"
                      \/ ListenerCalls /\ pc[Reader] = "wait"
                      \/ pc[Loop] = "refused"
                      \/ pc[Loop] = "wait" /\ lost
    BY DEF HangsOnlyAsNamed
  <2> USE ClientAssumption DEF Hangs, LoopWaits, Lock!CanRLock, Lock!CanAsk, Lock!CanEnter
  <2>0. /\ LocksHeld
        /\ mu.readers[Loop] = IF pc[Loop] \in Reading THEN 1 ELSE 0
        /\ mu.readers[Reader] = IF pc[Reader] \in {"signal", "wait"} THEN 1 ELSE 0
        /\ mu.writer = IF pc[Reader] \in Storing \cup {"locking"} THEN Reader ELSE Nobody
        /\ mu.held = IF pc[Reader] \in Storing THEN TRUE ELSE FALSE
        /\ em.readers[Loop] = 0
        /\ em.readers[Reader] = IF pc[Reader] \in {"listener", "emitted"} THEN 1 ELSE 0
        /\ em.writer = IF pc[Loop] = "add" THEN Loop ELSE Nobody
        /\ em.held = FALSE
        /\ pc[Reader] \in ReaderPhases /\ pc[Loop] \in LoopPhases
    BY DEF IInv, LocksHeld, Is
  <2>1. CASE pc[Reader] = "idle"
    <3>1. /\ pc[Loop] # "idle" /\ LoopWaits /\ ~ReaderWaits
          /\ mu.writer = Nobody /\ sink = Nobody
      BY <2>0, <2>1 DEF ReaderWaits, LocksHeld, Storing
    <3>2. CASE pc[Loop] = "wait"
      <4>1. inbox = <<>> /\ outbox = <<>>
        BY <3>1, <3>2
      <4> QED
        BY <3>2, <4>1, EmptySeq DEF IInv, Awaited
    <3>3. CASE pc[Loop] = "add"
      BY <2>0, <2>1, <3>1, <3>3 DEF Threads
    <3> QED
      BY <2>0, <2>1, <3>1, <3>2, <3>3
  <2>2. CASE pc[Reader] = "locking"
    <3>1. pc[Loop] \in Reading
      BY <2>0, <2>2 DEF ReaderWaits, Storing, Threads
    <3>2. LoopWaits
      BY <3>1 DEF Reading
    <3>3. pc[Loop] # "add" /\ pc[Loop] # "on"
      BY <2>0, <2>2, <3>2 DEF Threads
    <3> QED
      BY <2>0, <2>2, <3>1, <3>2, <3>3 DEF Reading
  <2>3. CASE pc[Reader] = "emit"
    <3>1. pc[Loop] = "add"
      BY <2>0, <2>3 DEF ReaderWaits
    <3> QED
      BY <2>0, <2>3, <3>1 DEF LocksHeld, Storing, Reading
  <2>4. CASE pc[Reader] \in {"listener", "wait"}
    BY <2>0, <2>4 DEF LocksHeld
  <2>5. CASE pc[Reader] \in {"emitted", "signal"}
    BY <2>5 DEF ReaderWaits
  <2> QED
    BY <2>0, <2>1, <2>2, <2>3, <2>4, <2>5 DEF ReaderPhases
<1> QED
  BY <1>1, InvLemma, PTL
=============================================================================
