------------------------------ MODULE SimClient ------------------------------
(***************************************************************************)
(* The other side of a link: ObjectClient, which keeps a copy of a remote  *)
(* object for the script, and its ObjectClientSink, which the connection's *)
(* reader calls for every message.  Two goroutines meet in it: the event   *)
(* loop of the script (Loop), which reads, writes, listens, calls methods  *)
(* and waits for their replies, and the reader (Reader), which stores what *)
(* the server sends and runs the script's listeners.                       *)
(*                                                                         *)
(* Locks: the sink's mutex, the client's read/write lock, and inside it    *)
(* the lock of the listener table.  The server is the environment: it      *)
(* answers in order, over a connection that keeps the order until it is    *)
(* lost.  INIT is made from the live properties and sent after that, and a *)
(* change may be sent in between.  A method that fails is answered with an *)
(* error, which the connection's node only logs: nobody tells the call     *)
(* that waits for it.                                                      *)
(*                                                                         *)
(* A property is abstracted to how often it has changed on the server, so  *)
(* that "older" and "newer" can be told apart.                             *)
(***************************************************************************)
EXTENDS Naturals, Sequences

CONSTANTS
  Loop,         \* the event loop goroutine of the script
  Reader,       \* the goroutine that reads the connection
  Nobody,       \* no thread
  Ops,          \* what the script does with its client
  ListenerUses, \* whether a listener of a property may use the client
  ListenerCalls,\* whether a listener of a signal may call a method of it
  MaxOps,       \* how many operations the script makes
  MaxChanges    \* how often the remote object changes

Threads == {Loop, Reader}

AllOps == {"get", "set", "on", "call", "close"}

ASSUME ClientAssumption ==
  /\ Loop # Reader
  /\ Nobody \notin Threads
  /\ Ops \subseteq AllOps
  /\ ListenerUses \in BOOLEAN
  /\ ListenerCalls \in BOOLEAN
  /\ MaxOps \in Nat
  /\ MaxChanges \in Nat

VARIABLES
  mu,         \* ObjectClient.mu
  sink,       \* ObjectClientSink.mu: the thread that holds it
  em,         \* the lock of stateEmitter
  listening,  \* whether stateEmitter has a listener
  state,      \* ObjectClient.state: the last change known, 0 before INIT
  registered, \* whether the connection's registry has the sink
  remote,     \* the remote object: the number of its last change
  linked,     \* whether the server has linked this client
  lost,       \* whether the connection is gone
  letter,     \* what the INIT that is being made says, 0 if nothing yet
  told,       \* observed: the last value sent to the client, 0 if none
  overtaken,  \* observed: is it that of an INIT sent after a newer one?
  outbox,     \* requests on their way to the server
  inbox,      \* messages on their way to the reader
  work,       \* the change or INIT the reader is storing
  pc,         \* where each thread is
  ops         \* operations the script has made

vars == <<mu, sink, em, listening, state, registered, remote, linked, lost, letter, told,
          overtaken, outbox, inbox, work, pc, ops>>

lockVars == <<mu, sink, em>>
history == <<told, overtaken>>
serverVars == <<remote, linked, lost, letter, history>>

Lock == INSTANCE RWLock WITH NoThread <- Nobody

(* NewObjectClient has registered the sink and sent LINK.                  *)
Init ==
  /\ mu = Lock!Unlocked
  /\ sink = Nobody
  /\ em = Lock!Unlocked
  /\ listening = FALSE
  /\ state = 0
  /\ registered = TRUE
  /\ remote = 1
  /\ linked = FALSE
  /\ lost = FALSE
  /\ letter = 0 /\ told = 0 /\ overtaken = FALSE
  /\ outbox = <<"link">>
  /\ inbox = <<>>
  /\ work = [kind |-> "init", value |-> 0]
  /\ pc = [t \in Threads |-> "idle"]
  /\ ops = 0

(* What is written to a connection that is gone is lost; no error reaches  *)
(* the client.                                                             *)
Sent(request) == IF lost THEN outbox ELSE Append(outbox, request)

Goto(t, from, to) == pc[t] = from /\ pc' = [pc EXCEPT ![t] = to]

(***************************************************************************)
(* The script.  Every operation starts with the client's read lock; op is  *)
(* also the name of the phase it is then in.                               *)
(***************************************************************************)
Start(op) ==
  /\ op \in Ops
  /\ ops < MaxOps
  /\ Lock!CanRLock(mu)
  /\ Goto(Loop, "idle", op)
  /\ mu' = Lock!RLocked(mu, Loop)
  /\ ops' = ops + 1
  /\ UNCHANGED <<sink, em, listening, state, registered, serverVars, outbox, inbox, work>>

GetPropertyUnlocksTwice ==
  /\ Goto(Loop, "get", "idle")
  /\ mu' = Lock!RUnlocked(Lock!RUnlocked(mu, Loop), Loop)
  /\ UNCHANGED <<sink, em, listening, state, registered, serverVars, outbox, inbox, work, ops>>

GetProperty ==
  /\ Goto(Loop, "get", "idle")
  /\ mu' = Lock!RUnlocked(mu, Loop)
  /\ UNCHANGED <<sink, em, listening, state, registered, serverVars, outbox, inbox, work, ops>>

SetPropertyKeepsLock ==
  /\ Goto(Loop, "set", "idle")
  /\ outbox' = Sent("set")
  /\ UNCHANGED <<lockVars, listening, state, registered, serverVars, inbox, work, ops>>

SetProperty ==
  /\ Goto(Loop, "set", "idle")
  /\ outbox' = Sent("set")
  /\ mu' = Lock!RUnlocked(mu, Loop)
  /\ UNCHANGED <<sink, em, listening, state, registered, serverVars, inbox, work, ops>>

(* Adding a listener takes the table's write lock inside the read lock.    *)
OnProperty ==
  /\ Lock!CanAsk(em)
  /\ Goto(Loop, "on", "add")
  /\ em' = Lock!Asked(em, Loop)
  /\ UNCHANGED <<mu, sink, listening, state, registered, serverVars, outbox, inbox, work, ops>>

Add ==
  /\ Lock!CanEnter(em, Loop)
  /\ Goto(Loop, "add", "idle")
  /\ listening' = TRUE
  /\ em' = Lock!WUnlocked(em)
  /\ mu' = Lock!RUnlocked(mu, Loop)
  /\ UNCHANGED <<sink, state, registered, serverVars, outbox, inbox, work, ops>>

(* CallMethod asks node() for the connection, which takes the read lock    *)
(* again; it gives both back before it sends the request and waits.        *)
CallMethod ==
  /\ Lock!CanRLock(mu)
  /\ Goto(Loop, "call", "wait")
  /\ outbox' = Sent("invoke")
  /\ mu' = Lock!RUnlocked(mu, Loop)
  /\ UNCHANGED <<sink, em, listening, state, registered, serverVars, inbox, work, ops>>

(* Close asks connector(), which takes the read lock again, and then, with *)
(* the first read lock still held, UnregisterSink, which takes the sink's  *)
(* mutex for its object id.                                                *)
Close ==
  /\ Lock!CanRLock(mu)
  /\ Goto(Loop, "close", "unregister")
  /\ UNCHANGED <<lockVars, listening, state, registered, serverVars, outbox, inbox, work, ops>>

UnregisterSink ==
  /\ sink = Nobody
  /\ Goto(Loop, "unregister", "idle")
  /\ registered' = FALSE
  /\ mu' = Lock!RUnlocked(mu, Loop)
  /\ UNCHANGED <<sink, em, listening, state, serverVars, outbox, inbox, work, ops>>

(***************************************************************************)
(* The reader takes the messages in the order they come.  A change or INIT *)
(* is stored and its listeners run under the client's write lock, the      *)
(* listeners of a signal run under its read lock, both under the sink's    *)
(* mutex.                                                                  *)
(***************************************************************************)
NextIs(kinds) == inbox # <<>> /\ Head(inbox).kind \in kinds

HandleAnyChange ==
  /\ \E i \in 1 .. Len(inbox) :
       /\ inbox[i].kind \in {"init", "change"}
       /\ work' = inbox[i]
       /\ inbox' = SubSeq(inbox, 1, i - 1) \o SubSeq(inbox, i + 1, Len(inbox))
  /\ registered
  /\ sink = Nobody
  /\ Goto(Reader, "idle", "locking")
  /\ sink' = Reader
  /\ mu' = Lock!Asked(mu, Reader)
  /\ UNCHANGED <<em, listening, state, registered, serverVars, outbox, ops>>

(* HandleInit and HandlePropertyChange; no other thread asks for this      *)
(* write lock, so that asking for it never waits.                          *)
HandleChange ==
  /\ NextIs({"init", "change"})
  /\ registered
  /\ sink = Nobody
  /\ Goto(Reader, "idle", "locking")
  /\ sink' = Reader
  /\ work' = Head(inbox)
  /\ inbox' = Tail(inbox)
  /\ mu' = Lock!Asked(mu, Reader)
  /\ UNCHANGED <<em, listening, state, registered, serverVars, outbox, ops>>

SetLocalProperty ==
  /\ Lock!CanEnter(mu, Reader)
  /\ Goto(Reader, "locking", "emit")
  /\ mu' = Lock!Entered(mu)
  /\ state' = work.value
  /\ UNCHANGED <<sink, em, listening, registered, serverVars, outbox, inbox, work, ops>>

(* A listener that uses the client takes the read lock of it first, under  *)
(* the write lock of this goroutine: it stays in "listener".               *)
Emit ==
  /\ Lock!CanRLock(em)
  /\ \/ Goto(Reader, "emit", "emitted")
     \/ ListenerUses /\ listening /\ Goto(Reader, "emit", "listener")
  /\ em' = Lock!RLocked(em, Reader)
  /\ UNCHANGED <<mu, sink, listening, state, registered, serverVars, outbox, inbox, work, ops>>

Emitted ==
  /\ Goto(Reader, "emitted", "idle")
  /\ em' = Lock!RUnlocked(em, Reader)
  /\ mu' = Lock!WUnlocked(mu)
  /\ sink' = Nobody
  /\ UNCHANGED <<listening, state, registered, serverVars, outbox, inbox, work, ops>>

HandleSignal ==
  /\ NextIs({"signal"})
  /\ registered
  /\ sink = Nobody
  /\ Lock!CanRLock(mu)
  /\ Goto(Reader, "idle", "signal")
  /\ sink' = Reader
  /\ mu' = Lock!RLocked(mu, Reader)
  /\ inbox' = Tail(inbox)
  /\ UNCHANGED <<em, listening, state, registered, serverVars, outbox, work, ops>>

SignalHandled ==
  /\ Goto(Reader, "signal", "idle")
  /\ mu' = Lock!RUnlocked(mu, Reader)
  /\ sink' = Nobody
  /\ UNCHANGED <<em, listening, state, registered, serverVars, outbox, inbox, work, ops>>

(* A listener of a signal that calls a method waits for a reply that only  *)
(* the reader itself could take.                                           *)
CallFromSignal ==
  /\ ListenerCalls
  /\ Goto(Reader, "signal", "wait")
  /\ outbox' = Sent("invoke")
  /\ UNCHANGED <<lockVars, listening, state, registered, serverVars, inbox, work, ops>>

HandleAnyReply ==
  /\ pc[Reader] = "idle"
  /\ \E i \in 1 .. Len(inbox) :
       /\ inbox[i].kind = "reply"
       /\ inbox' = SubSeq(inbox, 1, i - 1) \o SubSeq(inbox, i + 1, Len(inbox))
  /\ Goto(Loop, "wait", "idle")
  /\ UNCHANGED <<lockVars, listening, state, registered, serverVars, outbox, work, ops>>

HandleReply ==
  /\ pc[Reader] = "idle"
  /\ NextIs({"reply"})
  /\ inbox' = Tail(inbox)
  /\ Goto(Loop, "wait", "idle")
  /\ UNCHANGED <<lockVars, listening, state, registered, serverVars, outbox, work, ops>>

(* The node logs the error and forgets it.  The loop waits as before; that *)
(* its answer has come is what its phase says from now on.                 *)
HandleError ==
  /\ pc[Reader] = "idle"
  /\ NextIs({"error"})
  /\ inbox' = Tail(inbox)
  /\ Goto(Loop, "wait", "refused")
  /\ UNCHANGED <<lockVars, listening, state, registered, serverVars, outbox, work, ops>>

(* The registry has no sink for the object any more.                       *)
Drop ==
  /\ pc[Reader] = "idle"
  /\ NextIs({"init", "change", "signal"})
  /\ ~registered
  /\ inbox' = Tail(inbox)
  /\ UNCHANGED <<lockVars, listening, state, registered, serverVars, outbox, work, pc, ops>>

(***************************************************************************)
(* The server takes the requests in the order they come.  A method or an   *)
(* assignment changes the object or not, a method may emit a signal, and   *)
(* all of it is on its way before the reply is, or the error if the method *)
(* fails in the end or does not exist.                                     *)
(***************************************************************************)
Msg(kind, v) == <<[kind |-> kind, value |-> v]>>

Push(kind, v) == IF linked THEN Msg(kind, v) ELSE <<>>

Change ==
  /\ remote < MaxChanges
  /\ remote' = remote + 1
  /\ told' = IF linked THEN remote' ELSE told
  /\ overtaken' = (overtaken /\ ~linked)

Serve(request, answer) ==
  /\ outbox # <<>> /\ Head(outbox) = request
  /\ outbox' = Tail(outbox)
  /\ \/ /\ inbox' = inbox \o answer
        /\ UNCHANGED <<remote, history>>
     \/ /\ Change
        /\ inbox' = inbox \o Push("change", remote') \o
             [i \in DOMAIN answer |-> [answer[i] EXCEPT !.value = remote']]
     \/ /\ request = "invoke"
        /\ inbox' = inbox \o Push("signal", 0) \o answer
        /\ UNCHANGED <<remote, history>>
  /\ UNCHANGED <<lockVars, listening, state, registered, linked, lost, letter, work, pc, ops>>

Invoked == Serve("invoke", Msg("reply", told))

Refused == Serve("invoke", Msg("error", told))

Assigned == Serve("set", <<>>)

(* LINK: the server notes the client, makes INIT and sends it.             *)
Linking == outbox # <<>> /\ Head(outbox) = "link"

Linked ==
  /\ Linking /\ ~linked
  /\ linked' = TRUE
  /\ UNCHANGED <<lockVars, listening, state, registered, remote, lost, letter, history, outbox,
                 inbox, work, pc, ops>>

Marshal ==
  /\ Linking /\ linked /\ letter = 0
  /\ letter' = remote
  /\ UNCHANGED <<lockVars, listening, state, registered, remote, linked, lost, history, outbox,
                 inbox, work, pc, ops>>

SendInit ==
  /\ Linking /\ letter # 0
  /\ outbox' = Tail(outbox)
  /\ inbox' = inbox \o Msg("init", letter)
  /\ letter' = 0
  /\ told' = letter /\ overtaken' = (letter # remote)
  /\ UNCHANGED <<lockVars, listening, state, registered, remote, linked, lost, work, pc, ops>>

(* Somebody else changes the object.                                       *)
Changed ==
  /\ Change
  /\ inbox' = inbox \o Push("change", remote')
  /\ UNCHANGED <<lockVars, listening, state, registered, linked, lost, letter, outbox, work, pc,
                 ops>>

(* The connection goes.  What has not been read by then may be lost, in    *)
(* either direction, and nobody unregisters the sink, or ends the calls    *)
(* that wait.                                                              *)
Lost ==
  /\ ~lost
  /\ lost' = TRUE
  /\ linked' = FALSE /\ letter' = 0
  /\ outbox' = <<>>
  /\ \E n \in 0 .. Len(inbox) : inbox' = SubSeq(inbox, 1, n)
  /\ UNCHANGED <<lockVars, listening, state, registered, remote, history, work, pc, ops>>

Script == GetProperty \/ SetProperty \/ OnProperty \/ Add \/ CallMethod \/ Close \/ UnregisterSink

Read == \/ HandleChange \/ SetLocalProperty \/ Emit \/ Emitted
        \/ HandleSignal \/ SignalHandled \/ CallFromSignal \/ HandleReply
        \/ HandleError \/ Drop

Server == Invoked \/ Refused \/ Assigned \/ Linked \/ Marshal \/ SendInit

Next == (\E op \in Ops : Start(op)) \/ Script \/ Read \/ Server \/ Changed \/ Lost

Spec == Init /\ [][Next]_vars
-----------------------------------------------------------------------------
(* Every variable has its type.                                            *)
TypeOK ==
  /\ mu \in Lock!RWLocks
  /\ sink \in {Nobody, Reader}
  /\ em \in Lock!RWLocks
  /\ listening \in BOOLEAN
  /\ state \in 0 .. remote
  /\ registered \in BOOLEAN
  /\ remote \in Nat
  /\ linked \in BOOLEAN
  /\ lost \in BOOLEAN
  /\ letter \in 0 .. remote
  /\ told \in 0 .. remote
  /\ overtaken \in BOOLEAN
  /\ outbox \in Seq({"link", "set", "invoke"})
  /\ inbox \in Seq([kind : {"init", "change", "signal", "reply", "error"}, value : Nat])
  /\ work \in [kind : {"init", "change"}, value : Nat]
  /\ pc[Loop] \in AllOps \cup {"idle", "add", "wait", "refused", "unregister"}
  /\ pc[Reader] \in {"idle", "locking", "emit", "listener", "emitted", "signal", "wait"}
  /\ ops \in Nat

(* What the script knows of the object never gets older, but by an INIT    *)
(* that was made before a change which was sent ahead of it.               *)
NeverBackwards == [][state' >= state \/ work.kind = "init"]_vars

(* When a call returns, all that the server had sent before it replied is  *)
(* stored: INIT, the changes of the method, and those others made before.  *)
CallsSeeTheirEffects ==
  [][(pc[Loop] = "wait" /\ pc'[Loop] = "idle" /\ registered)
       => state >= Head(inbox).value]_vars

(* With nothing under way, over a connection that is still there, the copy *)
(* is what the object is, unless INIT was the last thing sent and had been *)
(* made before a change that was sent ahead of it.                         *)
UpToDate ==
  (~lost /\ ~overtaken /\ registered /\ inbox = <<>> /\ outbox = <<>> /\ pc[Reader] = "idle")
    => state = remote

ReaderWaits ==
  \/ pc[Reader] = "locking" /\ ~Lock!CanEnter(mu, Reader)
  \/ pc[Reader] = "emit" /\ ~Lock!CanRLock(em)
  \/ pc[Reader] \in {"listener", "wait"}

LoopWaits ==
  \/ pc[Loop] \in {"call", "close"} /\ ~Lock!CanRLock(mu)
  \/ pc[Loop] = "on" /\ ~Lock!CanAsk(em)
  \/ pc[Loop] = "add" /\ ~Lock!CanEnter(em, Loop)
  \/ pc[Loop] = "unregister" /\ sink # Nobody
  \/ pc[Loop] = "refused"
  \/ pc[Loop] = "wait" /\ (ReaderWaits \/ (inbox = <<>> /\ outbox = <<>>))

Hangs == /\ pc[Loop] # "idle" => LoopWaits
         /\ pc[Reader] # "idle" => ReaderWaits
         /\ pc[Loop] # "idle" \/ pc[Reader] # "idle"

(* The client can hang in five ways only.  Three are its locks: the reader *)
(* has asked for the write lock between the two read locks of one call, or *)
(* of Close; Close waits for the sink that the reader keeps while it waits *)
(* for Close; or a listener uses the client it is called from.  Two are    *)
(* calls without a reply: the method failed, or the connection is gone.    *)
HangsOnlyAsNamed ==
  Hangs => \/ /\ pc[Reader] = "locking"
              /\ pc[Loop] \in {"call", "close", "unregister"}
              /\ mu.readers[Loop] = 1
           \/ ListenerUses /\ pc[Reader] = "listener"
           \/ ListenerCalls /\ pc[Reader] = "wait"
           \/ pc[Loop] = "refused"
           \/ pc[Loop] = "wait" /\ lost
=============================================================================
