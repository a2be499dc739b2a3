----------------------------- MODULE TaskManager -----------------------------
(***************************************************************************)
(* The runner of solutions (sol.Runner) on its TaskManager: callers run,   *)
(* watch and stop tasks by name, and a watched task has a goroutine that   *)
(* runs it again whenever one of its files is written.                     *)
(*                                                                         *)
(* The manager's lock is held for single steps only (a look into the map,  *)
(* an entry added or deleted together with the event it fires), so a step  *)
(* of a caller is one such section; between two of them other callers and  *)
(* the watchers get their turn.  The fields of a TaskItem have no lock.    *)
(***************************************************************************)
EXTENDS Naturals

CONSTANTS
  Callers,    \* goroutines that use the runner
  Names,      \* names of tasks: the solution files
  Nothing,    \* no task item, no watch
  Ops,        \* the operations the callers use
  MaxItems    \* bound: how many task items are made

Items == 1 .. MaxItems

(* A watch has the number of the item its caller made for it.              *)
Watches == Items

ASSUME TaskAssumption ==
  /\ MaxItems \in Nat
  /\ Nothing \notin Items
  /\ Ops \subseteq {"run", "watch", "stop", "clear"}

VARIABLES
  tasks,       \* TaskManager.tasks: the item of each name
  event,       \* the last event the hook was given of each item
  named,       \* TaskItem.name
  cancel,      \* TaskItem.cancel: the context of the latest run
  watchCancel, \* TaskItem.watchCancel: the watch it cancels
  watch,       \* where each watcher goroutine is
  watched,     \* the item it watches
  done,        \* the watches whose context is cancelled
  written,     \* the watches that have a write event to take
  pc,          \* where each caller is
  op,          \* what it is doing
  name,        \* with which name
  own,         \* the item it makes
  target       \* the item it has looked up

mapVars == <<tasks, event, named>>
watchVars == <<watchCancel, watch, watched, done, written>>
callVars == <<op, name, own>>
vars == <<mapVars, cancel, watchVars, pc, callVars, target>>

Init ==
  /\ tasks = [n \in Names |-> Nothing]
  /\ event = [i \in Items |-> "none"]
  /\ named \in [Items -> Names]
  /\ cancel = [i \in Items |-> "none"]
  /\ watchCancel = [i \in Items |-> Nothing]
  /\ watch = [w \in Watches |-> "none"]
  /\ watched = [w \in Watches |-> Nothing]
  /\ done = {}
  /\ written = {}
  /\ pc = [c \in Callers |-> "idle"]
  /\ op = [c \in Callers |-> "clear"]
  /\ name \in [Callers -> Names]
  /\ own = [c \in Callers |-> Nothing]
  /\ target = [c \in Callers |-> Nothing]

Goto(c, from, to) == pc[c] = from /\ pc' = [pc EXCEPT ![c] = to]

Listed(c) == tasks[name[c]] # Nothing

LookUp(c) == target' = [target EXCEPT ![c] = tasks[name[c]]]

Fire(i, e) == event' = [event EXCEPT ![i] = e]

(* TaskItem.Cancel: an item that never ran has nothing to cancel.          *)
CancelRuns(is) ==
  cancel' = [i \in Items |-> IF i \in is /\ cancel[i] = "live" THEN "cancelled" ELSE cancel[i]]

(* TaskItem.Run cancels the context of the run before and makes a new one. *)
NewRun(i) == cancel' = [cancel EXCEPT ![i] = "live"]

(***************************************************************************)
(* RunSource, RunDoc, WatchSource and WatchDoc make an item and register   *)
(* it: an item of that name is removed, then the new one is added, unless  *)
(* somebody else has added one meanwhile.                                  *)
(***************************************************************************)
Register(c, o, n, i) ==
  /\ o \in Ops \cap {"run", "watch"}
  /\ event[i] = "none" /\ \A j \in Items : j < i => event[j] # "none"
  /\ Goto(c, "idle", "has")
  /\ Fire(i, "made")
  /\ named' = [named EXCEPT ![i] = n]
  /\ op' = [op EXCEPT ![c] = o]
  /\ name' = [name EXCEPT ![c] = n]
  /\ own' = [own EXCEPT ![c] = i]
  /\ target' = [target EXCEPT ![c] = Nothing]
  /\ UNCHANGED <<tasks, cancel, watchVars>>

HasAssumesNone(c) ==
  /\ Goto(c, "has", "addHas")
  /\ UNCHANGED <<mapVars, cancel, watchVars, callVars, target>>

Has(c) ==
  /\ Goto(c, "has", IF Listed(c) THEN "get" ELSE "addHas")
  /\ UNCHANGED <<mapVars, cancel, watchVars, callVars, target>>

RmTaskGet(c) ==
  /\ Goto(c, "get", IF Listed(c) THEN "rmCancel" ELSE "addHas")
  /\ LookUp(c)
  /\ UNCHANGED <<mapVars, cancel, watchVars, callVars>>

RmTaskCancel(c) ==
  /\ Goto(c, "rmCancel", "delete")
  /\ CancelRuns({target[c]})
  /\ UNCHANGED <<mapVars, watchVars, callVars, target>>

(* The name is deleted, whichever item it stands for by now.               *)
RmTaskKeeps(c) ==
  /\ Goto(c, "delete", "addHas")
  /\ Fire(target[c], "removed")
  /\ UNCHANGED <<tasks, named, cancel, watchVars, callVars, target>>

RmTask(c) ==
  /\ Goto(c, "delete", "addHas")
  /\ tasks' = [tasks EXCEPT ![name[c]] = Nothing]
  /\ Fire(target[c], "removed")
  /\ UNCHANGED <<named, cancel, watchVars, callVars, target>>

AddTaskHas(c) ==
  /\ Goto(c, "addHas", IF Listed(c) THEN "lookUp" ELSE "add")
  /\ UNCHANGED <<mapVars, cancel, watchVars, callVars, target>>

AddTask(c) ==
  /\ Goto(c, "add", "lookUp")
  /\ tasks' = [tasks EXCEPT ![name[c]] = own[c]]
  /\ Fire(own[c], "added")
  /\ UNCHANGED <<named, cancel, watchVars, callVars, target>>

(***************************************************************************)
(* Run and Watch look the task up by its name and run it; another caller   *)
(* that is registering the same name may have removed it.                  *)
(***************************************************************************)
Find(c) ==
  /\ Goto(c, "lookUp", IF Listed(c) THEN "found" ELSE "idle")
  /\ LookUp(c)
  /\ UNCHANGED <<mapVars, cancel, watchVars, callVars>>

Run(c) ==
  /\ Goto(c, "found", "running")
  /\ IF op[c] = "run" THEN Fire(target[c], "running") ELSE UNCHANGED event
  /\ NewRun(target[c])
  /\ UNCHANGED <<tasks, named, watchVars, callVars, target>>

(* The task function returns, with an error or without.                    *)
Finish(c) ==
  /\ op[c] = "run"
  /\ Goto(c, "running", "idle")
  /\ \E e \in {"finished", "failed"} : Fire(target[c], e)
  /\ UNCHANGED <<tasks, named, cancel, watchVars, callVars, target>>

(* Watch starts the watcher goroutine even when the run has failed.        *)
Watch(c) ==
  /\ op[c] = "watch"
  /\ Goto(c, "running", "idle")
  /\ watch' = [watch EXCEPT ![own[c]] = "started"]
  /\ watched' = [watched EXCEPT ![own[c]] = target[c]]
  /\ Fire(target[c], "watching")
  /\ UNCHANGED <<tasks, named, cancel, watchCancel, done, written, callVars, target>>

(***************************************************************************)
(* The watcher goroutine.  It cancels the watch its item knows of, makes   *)
(* itself known to the item and listens to the files until it is told to   *)
(* end; a select takes a write event as readily as the end.                *)
(***************************************************************************)
ReplaceWatchUnknown(w) ==
  /\ watch[w] = "started"
  /\ watch' = [watch EXCEPT ![w] = "replacing"]
  /\ done' = done \cup {watchCancel[watched[w]]}
  /\ UNCHANGED <<mapVars, cancel, watchCancel, watched, written, pc, callVars, target>>

ReplaceWatch(w) ==
  /\ watch[w] = "started"
  /\ watch' = [watch EXCEPT ![w] = "replacing"]
  /\ done' = done \cup ({watchCancel[watched[w]]} \ {Nothing})
  /\ UNCHANGED <<mapVars, cancel, watchCancel, watched, written, pc, callVars, target>>

BeginWatch(w) ==
  /\ watch[w] = "replacing"
  /\ watch' = [watch EXCEPT ![w] = "watching"]
  /\ watchCancel' = [watchCancel EXCEPT ![watched[w]] = w]
  /\ UNCHANGED <<mapVars, cancel, watched, done, written, pc, callVars, target>>

WatchRun(w) ==
  /\ watch[w] = "watching"
  /\ w \in written
  /\ watch' = [watch EXCEPT ![w] = "running"]
  /\ written' = written \ {w}
  /\ NewRun(watched[w])
  /\ UNCHANGED <<mapVars, watchCancel, watched, done, pc, callVars, target>>

WatchRan(w) ==
  /\ watch[w] = "running"
  /\ watch' = [watch EXCEPT ![w] = "watching"]
  /\ UNCHANGED <<mapVars, cancel, watchCancel, watched, done, written, pc, callVars, target>>

EndWatchWhenIdle(w) ==
  /\ watch[w] = "watching"
  /\ w \in done
  /\ written = {}
  /\ watch' = [watch EXCEPT ![w] = "ended"]
  /\ UNCHANGED <<mapVars, cancel, watchCancel, watched, done, written, pc, callVars, target>>

EndWatch(w) ==
  /\ watch[w] = "watching"
  /\ w \in done
  /\ watch' = [watch EXCEPT ![w] = "ended"]
  /\ UNCHANGED <<mapVars, cancel, watchCancel, watched, done, written, pc, callVars, target>>

(* A file of the task is written.                                          *)
Write(n) ==
  /\ written' = {w \in Watches : \/ w \in written
                                 \/ watch[w] \in {"watching", "running"} /\ named[watched[w]] = n}
  /\ written' # written
  /\ UNCHANGED <<mapVars, cancel, watchCancel, watch, watched, done, pc, callVars, target>>

(***************************************************************************)
(* StopWatch is Cancel: of the item that has the name, the watch it knows  *)
(* and then the run.  Clear is CancelAll: the runs of all that are listed. *)
(***************************************************************************)
StopWatch(c, n) ==
  /\ "stop" \in Ops
  /\ Goto(c, "idle", IF tasks[n] # Nothing THEN "cancelWatch" ELSE "idle")
  /\ op' = [op EXCEPT ![c] = "stop"]
  /\ name' = [name EXCEPT ![c] = n]
  /\ own' = [own EXCEPT ![c] = Nothing]
  /\ target' = [target EXCEPT ![c] = tasks[n]]
  /\ UNCHANGED <<mapVars, cancel, watchVars>>

CancelWatchForgets(c) ==
  /\ Goto(c, "cancelWatch", "cancel")
  /\ UNCHANGED <<mapVars, cancel, watchVars, callVars, target>>

CancelWatch(c) ==
  /\ Goto(c, "cancelWatch", "cancel")
  /\ done' = done \cup ({watchCancel[target[c]]} \ {Nothing})
  /\ UNCHANGED <<mapVars, cancel, watchCancel, watch, watched, written, callVars, target>>

Cancel(c) ==
  /\ Goto(c, "cancel", "idle")
  /\ CancelRuns({target[c]})
  /\ Fire(target[c], "stopped")
  /\ UNCHANGED <<tasks, named, watchVars, callVars, target>>

Clear(c) ==
  /\ "clear" \in Ops
  /\ pc[c] = "idle"
  /\ op' = [op EXCEPT ![c] = "clear"]
  /\ own' = [own EXCEPT ![c] = Nothing]
  /\ CancelRuns({i \in Items : \E n \in Names : tasks[n] = i})
  /\ UNCHANGED <<mapVars, watchVars, pc, name, target>>

Call(c) ==
  \/ Has(c) \/ RmTaskGet(c) \/ RmTaskCancel(c) \/ RmTask(c)
  \/ AddTaskHas(c) \/ AddTask(c)
  \/ Find(c) \/ Run(c) \/ Finish(c) \/ Watch(c)
  \/ CancelWatch(c) \/ Cancel(c)

Watcher(w) == ReplaceWatch(w) \/ BeginWatch(w) \/ WatchRun(w) \/ WatchRan(w) \/ EndWatch(w)

Next ==
  \/ \E c \in Callers :
       \/ \E o \in Ops, n \in Names, i \in Items : Register(c, o, n, i)
       \/ \E n \in Names : StopWatch(c, n)
       \/ Clear(c)
       \/ Call(c)
  \/ \E w \in Watches : Watcher(w)
  \/ \E n \in Names : Write(n)

Spec == Init /\ [][Next]_vars
-----------------------------------------------------------------------------
(***************************************************************************)
(* Fairness: goroutines that can run do, and of the cases of its select    *)
(* that stay ready a watcher takes each in the end, since Go picks one at  *)
(* random.                                                                 *)
(***************************************************************************)
Fairness ==
  /\ \A c \in Callers : WF_vars(Call(c))
  /\ \A w \in Watches : /\ WF_vars(ReplaceWatch(w) \/ BeginWatch(w) \/ WatchRan(w))
                        /\ SF_vars(WatchRun(w))
                        /\ SF_vars(EndWatch(w))

FairSpec == Spec /\ Fairness
-----------------------------------------------------------------------------
Fired == {"added", "running", "finished", "failed", "watching", "stopped"}

(* Every variable has its type.                                            *)
TypeOK ==
  /\ tasks \in [Names -> Items \cup {Nothing}]
  /\ event \in [Items -> Fired \cup {"none", "made", "removed"}]
  /\ named \in [Items -> Names]
  /\ cancel \in [Items -> {"none", "live", "cancelled"}]
  /\ watchCancel \in [Items -> Watches \cup {Nothing}]
  /\ watch \in [Watches -> {"none", "started", "replacing", "watching", "running", "ended"}]
  /\ watched \in [Watches -> Items \cup {Nothing}]
  /\ done \subseteq Watches
  /\ written \subseteq Watches
  /\ pc \in [Callers -> {"idle", "has", "get", "rmCancel", "delete", "addHas", "add", "lookUp",
                          "found", "running", "cancelWatch", "cancel"}]
  /\ op \in [Callers -> {"run", "watch", "stop", "clear"}]
  /\ name \in [Callers -> Names]
  /\ own \in [Callers -> Items \cup {Nothing}]
  /\ target \in [Callers -> Items \cup {Nothing}]

(* The hook and the map agree: the listed items are those that were added  *)
(* and not removed, each under its own name.                               *)
ListedAsTold ==
  \A n \in Names, i \in Items : tasks[n] = i <=> (named[i] = n /\ event[i] \in Fired)

(* What a caller runs is the task it has just registered, not one from     *)
(* before or of somebody else (RunDoc "should not act on a cached value"). *)
RunsItsOwn == \A c \in Callers : pc[c] \in {"found", "running"} => target[c] = own[c]

Begun(w) == watch[w] \in {"watching", "running"}

(* A task is run twice at the same time only when a watch has outlived its *)
(* item: a task that is registered again while it is watched is not        *)
(* unwatched.                                                              *)
RunsOverlapOnlyWhenOutlived ==
  \A w \in Watches : watch[w] = "running" =>
    /\ \A c \in Callers :
         (pc[c] = "running" /\ name[c] = named[watched[w]]) => event[watched[w]] = "removed"
    /\ \A v \in Watches \ {w} :
         (watch[v] = "running" /\ named[watched[v]] = named[watched[w]])
            => "removed" \in {event[watched[v]], event[watched[w]]}

(* StopWatch tells every watch of the listed task that listens already.    *)
StopReachesBegun ==
  [][\A c \in Callers :
       (pc[c] = "cancelWatch" /\ pc'[c] = "cancel") =>
         \A w \in Watches : Begun(w) /\ watched[w] = target[c] => w \in done']_vars

(* A watch that is told to end does end, however often its files are       *)
(* written.                                                                *)
ToldWatchEnds == \A w \in Watches : (w \in done) ~> (watch[w] = "ended")
=============================================================================
