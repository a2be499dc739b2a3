------------------------------- MODULE RWLock -------------------------------
(***************************************************************************)
(* The reader/writer lock every locked type of the program is built on     *)
(* (sync.RWMutex, and deadlock.RWMutex which wraps it).  The lock is a     *)
(* value, so a specification keeps one variable per lock and moves it with *)
(* the operators below:                                                    *)
(*                                                                         *)
(*   - RLock blocks while a writer holds the lock or has asked for it,     *)
(*     also when the calling thread already holds a read lock;             *)
(*   - Lock first asks (which shuts new readers out), then enters once the *)
(*     readers that were inside have left;                                 *)
(*   - the lock has no owner: nothing stops a thread that holds it from    *)
(*     asking again, it just waits for itself.                             *)
(***************************************************************************)
EXTENDS Naturals

CONSTANTS
  Threads,  \* the goroutines that use the lock
  NoThread  \* "nobody", not one of them

(* readers counts the read locks of each thread (they nest), writer is the *)
(* thread that asked for, or has, the write lock, held tells these apart.  *)
RWLocks == [readers : [Threads -> Nat],
            writer  : Threads \cup {NoThread},
            held    : BOOLEAN]

Unlocked == [readers |-> [t \in Threads |-> 0],
             writer  |-> NoThread,
             held    |-> FALSE]

CanRLock(l) == l.writer = NoThread

RLocked(l, t) == [l EXCEPT !.readers[t] = @ + 1]

RUnlocked(l, t) == [l EXCEPT !.readers[t] = @ - 1]

CanAsk(l) == l.writer = NoThread

Asked(l, t) == [l EXCEPT !.writer = t]

CanEnter(l, t) == /\ l.writer = t
                  /\ ~l.held
                  /\ \A u \in Threads : l.readers[u] = 0

Entered(l) == [l EXCEPT !.held = TRUE]

WUnlocked(l) == [l EXCEPT !.writer = NoThread, !.held = FALSE]
=============================================================================
