----------------------------- MODULE SimService -----------------------------
(***************************************************************************)
(* One simulated object: ObjectService (properties, listeners) behind its  *)
(* OLinkSource, used by the script's event loop and by one goroutine per   *)
(* client connection at the same time.                                     *)
(*                                                                         *)
(* The OLinkSource has a read/write lock (src) that a request holds for    *)
(* reading while the service code and the script's method run, and that    *)
(* sending a notification takes for reading again.  The service itself has *)
(* no lock; only its listener table (em) has one, held for reading while   *)
(* the listeners run.  A method is the guarded increment of the service    *)
(* examples; a listener may assign to the property it listens to, or add   *)
(* another listener.                                                       *)
(*                                                                         *)
(* A client is the sequence of values sent to it; as a connection keeps    *)
(* their order, the last one (views) is all the properties need.  INIT is  *)
(* made from the live property map, one property after the other, and sent *)
(* after that, with no lock held: other threads get between these steps.   *)
(***************************************************************************)
EXTENDS Naturals, Sequences

CONSTANTS
  Conns,      \* connection goroutines, one per remote client
  Loop,       \* the event loop goroutine of the script
  Nobody,     \* no thread, no node
  Props,      \* property names
  MaxValue,   \* properties range over 0..MaxValue
  Limit,      \* "max" of the example service: increment stays below it
  Assigned,   \* the values clients and the script assign
  Mutators,   \* the threads that change properties in this instance
  ListenerDoes  \* what else the script's listener does: "assign", "add"

Threads == Conns \cup {Loop}

Values == 0 .. MaxValue

Unknown == MaxValue + 1

(* MaxValue is a bound of the model: counting stops there.                 *)
Capped(v) == IF v > MaxValue THEN MaxValue ELSE v

ASSUME ServiceAssumption ==
  /\ Loop \notin Conns
  /\ Nobody \notin Threads
  /\ MaxValue \in Nat
  /\ Limit \in Values
  /\ Assigned \subseteq Values
  /\ Mutators \subseteq Threads
  /\ ListenerDoes \subseteq {"assign", "add"}

VARIABLES
  props,      \* ObjectService.properties
  listeners,  \* the properties that have an entry in propertyEmitter
  em,         \* propertyEmitter.mu
  node,       \* OLinkSource.node
  src,        \* OLinkSource.mu
  linked,     \* the registry's remote nodes of this object
  inits,      \* what the INIT that is made for each client has so far
  views,      \* the properties as last sent to each client
  published,  \* the last value of each property that was notified
  pc,         \* where each thread is
  frames,     \* the setProperty calls each thread is inside, innermost first
  overtaken   \* observed: the properties whose last change was sent to a client
              \* when the INIT sent after it had been given an older value

vars == <<props, listeners, em, node, src, linked, inits, views, published, pc, frames,
          overtaken>>

dataVars == <<props, listeners, linked, inits, views, published, overtaken>>

Lock == INSTANCE RWLock WITH Threads <- Threads, NoThread <- Nobody

(* An open call of setProperty: the property and the value assigned.      *)
Frame == [prop : Props, value : Values]

NoView == [p \in Props |-> Unknown]

Init ==
  /\ props \in [Props -> 0 .. Limit]
  /\ listeners = {}
  /\ em = Lock!Unlocked
  /\ node = Nobody
  /\ src = Lock!Unlocked
  /\ linked = {}
  /\ inits = [c \in Conns |-> NoView]
  /\ views = [c \in Conns |-> NoView]
  /\ published = props
  /\ pc = [t \in Threads |-> "idle"]
  /\ frames = [t \in Threads |-> <<>>]
  /\ overtaken = [c \in Conns |-> {}]

Goto(t, from, to) == /\ pc[t] = from
                     /\ pc' = [pc EXCEPT ![t] = to]

Push(t, p, v) == frames' = [frames EXCEPT ![t] = <<[prop |-> p, value |-> v]>> \o @]

Top(t) == Head(frames[t])

(* A setProperty call ends: the method that made it goes on, or the        *)
(* listener that made it returns to the emit of the call around it.        *)
Pop(t) == /\ frames' = [frames EXCEPT ![t] = Tail(@)]
          /\ pc' = [pc EXCEPT ![t] = IF Len(frames[t]) = 1 THEN "return" ELSE "emitted"]

(***************************************************************************)
(* A request or a job starts.  A remote request takes the source's read    *)
(* lock for as long as it runs, a job of the script takes none.            *)
(***************************************************************************)
Enter(t) == IF t \in Conns THEN /\ Lock!CanRLock(src)
                                /\ src' = Lock!RLocked(src, t)
                           ELSE UNCHANGED src

Invoke(t) ==
  /\ t \in Mutators
  /\ Goto(t, "idle", "body")
  /\ Enter(t)
  /\ UNCHANGED <<dataVars, em, node, frames>>

SetProperty(t, p, v) ==
  /\ t \in Mutators
  /\ Goto(t, "idle", "compare")
  /\ Enter(t)
  /\ Push(t, p, v)
  /\ UNCHANGED <<dataVars, em, node>>

(* The method body: if (this.count < this.max) this.count++.  The property *)
(* is read through the proxy twice, to compare it and to count on.         *)
BelowMax(t, p) ==
  /\ props[p] < Limit
  /\ Goto(t, "body", "count")
  /\ UNCHANGED <<dataVars, em, node, src, frames>>

Increment(t, p) ==
  /\ Goto(t, "count", "compare")
  /\ Push(t, p, Capped(props[p] + 1))
  /\ UNCHANGED <<dataVars, em, node, src>>

AtLimit(t, p) ==
  /\ props[p] >= Limit
  /\ Goto(t, "body", "return")
  /\ UNCHANGED <<dataVars, em, node, src, frames>>

(* The request ends: its read lock goes.                                   *)
ReturnUnlocksAlways(t) ==
  /\ Goto(t, "return", "idle")
  /\ src' = Lock!RUnlocked(src, t)
  /\ UNCHANGED <<dataVars, em, node, frames>>

Return(t) ==
  /\ Goto(t, "return", "idle")
  /\ src' = IF t \in Conns THEN Lock!RUnlocked(src, t) ELSE src
  /\ UNCHANGED <<dataVars, em, node, frames>>

(***************************************************************************)
(* ObjectService.setProperty: compare, store, run the listeners, notify.   *)
(***************************************************************************)
CompareSame(t) ==
  /\ pc[t] = "compare"
  /\ props[Top(t).prop] = Top(t).value
  /\ Pop(t)
  /\ UNCHANGED <<dataVars, em, node, src>>

CompareNew(t) ==
  /\ Goto(t, "compare", "store")
  /\ props[Top(t).prop] # Top(t).value
  /\ UNCHANGED <<dataVars, em, node, src, frames>>

Store(t) ==
  /\ Goto(t, "store", "emit")
  /\ props' = [props EXCEPT ![Top(t).prop] = Top(t).value]
  /\ UNCHANGED <<listeners, linked, inits, views, published, em, node, src, frames,
                 overtaken>>

(* Emitter.Emit holds the table for reading while the listener runs.  A    *)
(* listener that assigns a smaller value is a setProperty inside this one. *)
Emit(t) ==
  /\ pc[t] = "emit"
  /\ Lock!CanRLock(em)
  /\ em' = Lock!RLocked(em, t)
  /\ LET p == Top(t).prop
         assigns == "assign" \in ListenerDoes /\ p \in listeners /\ Top(t).value > Limit
     IN  \/ /\ IF assigns
                 THEN Push(t, p, Limit) /\ pc' = [pc EXCEPT ![t] = "compare"]
                 ELSE pc' = [pc EXCEPT ![t] = "emitted"] /\ UNCHANGED frames
         \/ /\ "add" \in ListenerDoes /\ p \in listeners
            /\ pc' = [pc EXCEPT ![t] = "listen"]
            /\ UNCHANGED frames
  /\ UNCHANGED <<dataVars, node, src>>

Emitted(t) ==
  /\ Goto(t, "emitted", "notify")
  /\ em' = Lock!RUnlocked(em, t)
  /\ UNCHANGED <<dataVars, node, src, frames>>

(* NotifyPropertyChanged: under the source's read lock, through the node   *)
(* that linked last, to every client the registry has for the object.  A   *)
(* client whose INIT has an older value already gets the change before it. *)
Announce(f, clients) ==
  /\ published' = [published EXCEPT ![f.prop] = f.value]
  /\ views' = [c \in Conns |-> IF c \in clients THEN [views[c] EXCEPT ![f.prop] = f.value]
                                                ELSE views[c]]
  /\ overtaken' = [c \in Conns |->
                     IF c \notin clients THEN overtaken[c]
                     ELSE IF inits[c][f.prop] \in {Unknown, f.value}
                            THEN overtaken[c] \ {f.prop}
                     ELSE overtaken[c] \cup {f.prop}]

Linkers == IF node = Nobody THEN {} ELSE linked

NotifyLastLinked(t) ==
  /\ pc[t] = "notify"
  /\ Lock!CanRLock(src)
  /\ Announce(Top(t), {node} \cap linked)
  /\ Pop(t)
  /\ UNCHANGED <<props, listeners, linked, inits, em, node, src>>

NotifyKeepsLock(t) ==
  /\ pc[t] = "notify"
  /\ Lock!CanRLock(src)
  /\ src' = Lock!RLocked(src, t)
  /\ Announce(Top(t), Linkers)
  /\ Pop(t)
  /\ UNCHANGED <<props, listeners, linked, inits, em, node>>

Notify(t) ==
  /\ pc[t] = "notify"
  /\ Lock!CanRLock(src)
  /\ Announce(Top(t), Linkers)
  /\ Pop(t)
  /\ UNCHANGED <<props, listeners, linked, inits, em, node, src>>

(***************************************************************************)
(* A client links: the registry notes the node, Linked stores it under the *)
(* write lock, and CollectProperties gives out the live property map under *)
(* the read lock.  INIT is marshalled from the map, property by property,  *)
(* and put on the connection when the lock has long been given back.       *)
(***************************************************************************)
Link(c) ==
  /\ c \notin linked
  /\ Lock!CanAsk(src)
  /\ Goto(c, "idle", "link")
  /\ linked' = linked \cup {c}
  /\ src' = Lock!Asked(src, c)
  /\ UNCHANGED <<props, listeners, inits, views, published, em, node, frames, overtaken>>

LinkedKeepsLock(c) ==
  /\ Goto(c, "link", "collect")
  /\ Lock!CanEnter(src, c)
  /\ node' = c
  /\ src' = Lock!Entered(src)
  /\ UNCHANGED <<dataVars, em, frames>>

Linked(c) ==
  /\ Goto(c, "link", "collect")
  /\ Lock!CanEnter(src, c)
  /\ node' = c
  /\ src' = Lock!WUnlocked(src)
  /\ UNCHANGED <<dataVars, em, frames>>

CollectProperties(c) ==
  /\ Goto(c, "collect", "init")
  /\ Lock!CanRLock(src)
  /\ UNCHANGED <<dataVars, em, node, src, frames>>

MarshalPublished(c, p) ==
  /\ pc[c] = "init"
  /\ inits[c][p] = Unknown
  /\ inits' = [inits EXCEPT ![c][p] = published[p]]
  /\ UNCHANGED <<props, listeners, linked, views, published, em, node, src, pc, frames,
                 overtaken>>

Marshal(c, p) ==
  /\ pc[c] = "init"
  /\ inits[c][p] = Unknown
  /\ inits' = [inits EXCEPT ![c][p] = props[p]]
  /\ UNCHANGED <<props, listeners, linked, views, published, em, node, src, pc, frames,
                 overtaken>>

SendInit(c) ==
  /\ Goto(c, "init", "idle")
  /\ \A p \in Props : inits[c][p] # Unknown
  /\ views' = [views EXCEPT ![c] = inits[c]]
  /\ inits' = [inits EXCEPT ![c] = NoView]
  /\ UNCHANGED <<props, listeners, linked, published, em, node, src, frames, overtaken>>

(* The client unlinks or its connection ends: the registry forgets it, the *)
(* source is not told.                                                     *)
Unlink(c) ==
  /\ c \in linked
  /\ pc[c] = "idle"
  /\ linked' = linked \ {c}
  /\ views' = [views EXCEPT ![c] = NoView]
  /\ overtaken' = [overtaken EXCEPT ![c] = {}]
  /\ UNCHANGED <<props, listeners, inits, published, em, node, src, pc, frames>>

(***************************************************************************)
(* The script registers a listener (OnProperty, Emitter.Add), in a job of  *)
(* its own or in a listener, under the read lock of the Emit around it.    *)
(***************************************************************************)
Ask(t, from, to) ==
  /\ Lock!CanAsk(em)
  /\ Goto(t, from, to)
  /\ em' = Lock!Asked(em, t)
  /\ UNCHANGED <<dataVars, node, src, frames>>

OnProperty == Ask(Loop, "idle", "add")

OnPropertyInside(t) == Ask(t, "listen", "inside")

Add(t, p) ==
  /\ pc[t] \in {"add", "inside"}
  /\ Lock!CanEnter(em, t)
  /\ listeners' = listeners \cup {p}
  /\ em' = Lock!WUnlocked(em)
  /\ pc' = [pc EXCEPT ![t] = IF pc[t] = "add" THEN "idle" ELSE "emitted"]
  /\ UNCHANGED <<props, linked, inits, views, published, node, src, frames, overtaken>>

(* What a client's connection, and any thread, does by itself once it has  *)
(* begun something.                                                        *)
Joins(c) ==
  Linked(c) \/ CollectProperties(c) \/ (\E p \in Props : Marshal(c, p)) \/ SendInit(c)

Continue(t) ==
  \/ \E p \in Props : BelowMax(t, p) \/ AtLimit(t, p) \/ Increment(t, p)
  \/ CompareSame(t) \/ CompareNew(t) \/ Store(t)
  \/ Emit(t) \/ OnPropertyInside(t) \/ Emitted(t) \/ Notify(t) \/ Return(t)
  \/ \E p \in Props : Add(t, p)
  \/ t \in Conns /\ Joins(t)

Begin(t) ==
  \/ Invoke(t)
  \/ \E p \in Props, v \in Assigned : SetProperty(t, p, v)

Connection(c) == Link(c) \/ Unlink(c)

Next ==
  \/ \E t \in Threads : Begin(t) \/ Continue(t)
  \/ \E c \in Conns : Connection(c)
  \/ OnProperty

Spec == Init /\ [][Next]_vars
-----------------------------------------------------------------------------
(***************************************************************************)
(* Fairness: the Go scheduler runs every goroutine that can run, and a     *)
(* thread that waits for one of the locks is let in when the lock keeps    *)
(* being released (an RWMutex admits the readers that waited for a writer  *)
(* before the next writer).  Starting a job or a request is up to the      *)
(* script and the clients.                                                 *)
(***************************************************************************)
Fairness == \A t \in Threads : SF_vars(Continue(t))

FairSpec == Spec /\ Fairness
-----------------------------------------------------------------------------
(* The phases of a method or an assignment, and those of an assignment.    *)
Setting == {"compare", "store", "emit", "listen", "inside", "emitted", "notify"}

Working == Setting \cup {"body", "count", "return"}

Phases == Working \cup {"idle", "link", "collect", "init", "add"}

(* Every variable has its type.                                            *)
TypeOK ==
  /\ props \in [Props -> Values]
  /\ listeners \in SUBSET Props
  /\ em \in Lock!RWLocks
  /\ node \in Conns \cup {Nobody}
  /\ src \in Lock!RWLocks
  /\ linked \in SUBSET Conns
  /\ inits \in [Conns -> [Props -> Values \cup {Unknown}]]
  /\ views \in [Conns -> [Props -> Values \cup {Unknown}]]
  /\ published \in [Props -> Values]
  /\ pc \in [Threads -> Phases]
  /\ frames \in [Threads -> Seq(Frame)]
  /\ overtaken \in [Conns -> SUBSET Props]

(* Every lock that is held is accounted for by what its thread does: a     *)
(* thread has a setProperty call open in exactly the phases of one; the    *)
(* source's read lock belongs to the remote request being served, the      *)
(* listener table's to each assignment whose listeners are running.  So a  *)
(* thread that comes to rest has released all it took.                     *)
Accounted(t) ==
  /\ (frames[t] # <<>>) <=> (pc[t] \in Setting)
  /\ src.readers[t] = IF t \in Conns /\ pc[t] \in Working THEN 1 ELSE 0
  /\ em.readers[t] = IF pc[t] \in {"listen", "inside", "emitted"} THEN Len(frames[t])
                     ELSE IF pc[t] \in Setting THEN Len(frames[t]) - 1 ELSE 0

LocksAccounted == \A t \in Threads : Accounted(t)

Joining(c) == pc[c] \in {"link", "collect", "init"}

Quiet == \A t \in Threads : pc[t] = "idle"

(* A client has joined once INIT is on its way to it.                      *)
Joined == {c \in linked : ~Joining(c)}

(* When nothing is going on, every linked client holds the properties the  *)
(* service has, but for those whose last change was sent to it before the  *)
(* INIT that already had an older value: nothing else, a source whose node *)
(* is that of a client long gone included, leaves a client behind.         *)
Converged ==
  Quiet => \A c \in linked : \A p \in Props \ overtaken[c] : views[c][p] = props[p]

(* The service is a PropertyFeed: written, published, written again, with  *)
(* clients joining and leaving at any moment, given values that are those  *)
(* of the moment they were copied.                                         *)
Feed == INSTANCE PropertyFeed WITH
          Clients <- Conns,
          current <- props,
          members <- Joined,
          letters <- inits,
          views   <- [c \in Conns |-> IF c \in Joined THEN views[c] ELSE NoView]

ImplementsFeed == Feed!Spec

Waits(t) ==
  \/ pc[t] \in {"notify", "collect"} /\ ~Lock!CanRLock(src)
  \/ pc[t] = "link" /\ ~Lock!CanEnter(src, t)
  \/ pc[t] = "emit" /\ ~Lock!CanRLock(em)
  \/ pc[t] = "listen" /\ ~Lock!CanAsk(em)
  \/ pc[t] \in {"add", "inside"} /\ ~Lock!CanEnter(em, t)

Stuck == ~Quiet /\ \A t \in Threads : pc[t] # "idle" => Waits(t)

(* The threads can only all wait for each other in three ways: a client    *)
(* links while a request of another is about to notify, inside the read    *)
(* lock it already has; the script adds a listener while a listener that   *)
(* runs is about to assign or to add one; or a listener has asked to add   *)
(* one and waits for the Emit it is called from.                           *)
StuckOnlyByNesting ==
  Stuck => \/ \E l \in Conns, r \in Conns \cap Mutators :
                /\ pc[l] = "link" /\ pc[r] = "notify"
                /\ src.readers[r] > 0
           \/ \E t \in Mutators :
                /\ pc[Loop] = "add" /\ pc[t] \in {"emit", "listen"}
                /\ em.readers[t] > 0
           \/ \E t \in Mutators : pc[t] = "inside" /\ em.writer = t /\ em.readers[t] > 0

(* Whatever a thread has begun it finishes: with the script as the only    *)
(* writer no job, link or INIT is left hanging.                            *)
Responsive == \A t \in Threads : (pc[t] # "idle") ~> (pc[t] = "idle")
=============================================================================
