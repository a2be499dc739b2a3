--------------------------- MODULE TaskManagerProofs ---------------------------
(***************************************************************************)
(* Proofs about TaskManager for any callers, names and number of items:    *)
(* the types, what a listed task is and how a call can lose its task; and  *)
(* for a runner with one caller, that the hook tells exactly what is       *)
(* listed and that a call runs the task it was made for.                   *)
(***************************************************************************)
EXTENDS TaskManager, TLAPS

(* Where a caller has made an item, and where it has looked one up.        *)
Registering ==
  {"has", "get", "rmCancel", "delete", "addHas", "add", "lookUp", "found", "running"}

Aiming == {"rmCancel", "delete", "found", "running", "cancelWatch", "cancel"}

(* The items that a caller or a watcher is about to use are there.         *)
Known ==
  /\ \A c \in Callers : /\ pc[c] \in Registering => own[c] \in Items
                        /\ pc[c] \in Aiming => target[c] \in Items
  /\ \A w \in Watches : watch[w] # "none" => watched[w] \in Items

(* Initially the types are right and nothing is in use.                    *)
LEMMA TypeInit == Init => TypeOK /\ Known
BY TaskAssumption DEF Init, TypeOK, Known, Items, Watches, Fired, Registering, Aiming

(* Every step keeps the types, and what is used is known.                  *)
LEMMA TypeStep ==
  ASSUME TypeOK, Known, [Next]_vars
  PROVE  TypeOK' /\ Known'
<1> USE DEF TypeOK, Known, Fired, Registering, Aiming, Watches
<1>1. ASSUME NEW c \in Callers, NEW o \in Ops, NEW n \in Names, NEW i \in Items, Register(c, o, n, i)
      PROVE  TypeOK' /\ Known'
  BY <1>1, TaskAssumption DEF Register, Goto, Fire, mapVars, watchVars, callVars
<1>2. ASSUME NEW c \in Callers, NEW n \in Names, StopWatch(c, n)
      PROVE  TypeOK' /\ Known'
  BY <1>2, TaskAssumption DEF StopWatch, Goto, mapVars, watchVars, callVars
<1>3. ASSUME NEW c \in Callers, Clear(c)
      PROVE  TypeOK' /\ Known'
  BY <1>3, TaskAssumption DEF Clear, CancelRuns, mapVars, watchVars, callVars
<1>4. ASSUME NEW c \in Callers, Has(c)
      PROVE  TypeOK' /\ Known'
  BY <1>4, TaskAssumption DEF Has, Goto, Listed, mapVars, watchVars, callVars
<1>5. ASSUME NEW c \in Callers, RmTaskGet(c)
      PROVE  TypeOK' /\ Known'
  BY <1>5, TaskAssumption DEF RmTaskGet, Goto, LookUp, Listed, mapVars, watchVars, callVars
<1>6. ASSUME NEW c \in Callers, RmTaskCancel(c)
      PROVE  TypeOK' /\ Known'
  BY <1>6, TaskAssumption DEF RmTaskCancel, Goto, CancelRuns, mapVars, watchVars, callVars
<1>7. ASSUME NEW c \in Callers, RmTask(c)
      PROVE  TypeOK' /\ Known'
  BY <1>7, TaskAssumption DEF RmTask, Goto, Fire, mapVars, watchVars, callVars
<1>8. ASSUME NEW c \in Callers, AddTaskHas(c)
      PROVE  TypeOK' /\ Known'
  BY <1>8, TaskAssumption DEF AddTaskHas, Goto, Listed, mapVars, watchVars, callVars
<1>9. ASSUME NEW c \in Callers, AddTask(c)
      PROVE  TypeOK' /\ Known'
  BY <1>9, TaskAssumption DEF AddTask, Goto, Fire, mapVars, watchVars, callVars
<1>10. ASSUME NEW c \in Callers, Find(c)
      PROVE  TypeOK' /\ Known'
  BY <1>10, TaskAssumption DEF Find, Goto, Listed, LookUp, mapVars, watchVars, callVars
<1>11. ASSUME NEW c \in Callers, Run(c)
      PROVE  TypeOK' /\ Known'
  BY <1>11, TaskAssumption DEF Run, Goto, Fire, NewRun, mapVars, watchVars, callVars
<1>12. ASSUME NEW c \in Callers, Finish(c)
      PROVE  TypeOK' /\ Known'
  BY <1>12, TaskAssumption DEF Finish, Goto, Fire, mapVars, watchVars, callVars
<1>13. ASSUME NEW c \in Callers, Watch(c)
      PROVE  TypeOK' /\ Known'
  BY <1>13, TaskAssumption DEF Watch, Goto, Fire, mapVars, watchVars, callVars
<1>14. ASSUME NEW c \in Callers, CancelWatch(c)
      PROVE  TypeOK' /\ Known'
  BY <1>14, TaskAssumption DEF CancelWatch, Goto, mapVars, watchVars, callVars
<1>15. ASSUME NEW c \in Callers, Cancel(c)
      PROVE  TypeOK' /\ Known'
  BY <1>15, TaskAssumption DEF Cancel, Goto, Fire, CancelRuns, mapVars, watchVars, callVars
<1>16. ASSUME NEW w \in Watches, ReplaceWatch(w)
      PROVE  TypeOK' /\ Known'
  BY <1>16, TaskAssumption DEF ReplaceWatch, mapVars, watchVars, callVars
<1>17. ASSUME NEW w \in Watches, BeginWatch(w)
      PROVE  TypeOK' /\ Known'
  BY <1>17, TaskAssumption DEF BeginWatch, mapVars, watchVars, callVars
<1>18. ASSUME NEW w \in Watches, WatchRun(w)
      PROVE  TypeOK' /\ Known'
  BY <1>18, TaskAssumption DEF WatchRun, NewRun, mapVars, watchVars, callVars
<1>19. ASSUME NEW w \in Watches, WatchRan(w)
      PROVE  TypeOK' /\ Known'
  BY <1>19, TaskAssumption DEF WatchRan, mapVars, watchVars, callVars
<1>20. ASSUME NEW w \in Watches, EndWatch(w)
      PROVE  TypeOK' /\ Known'
  BY <1>20, TaskAssumption DEF EndWatch, mapVars, watchVars, callVars
<1>21. ASSUME NEW n \in Names, Write(n)
      PROVE  TypeOK' /\ Known'
  BY <1>21, TaskAssumption DEF Write, mapVars, watchVars, callVars
<1>22. CASE UNCHANGED vars
  BY <1>22 DEF vars, mapVars, watchVars, callVars
<1> QED
  BY <1>1, <1>2, <1>3, <1>4, <1>5, <1>6, <1>7, <1>8, <1>9, <1>10, <1>11, <1>12, <1>13, <1>14, <1>15, <1>16, <1>17, <1>18, <1>19, <1>20, <1>21, <1>22 DEF Next, Call, Watcher

(* Every reachable state has the types of TypeOK.                          *)
THEOREM TypeCorrect == Spec => []TypeOK
<1>1. Init => TypeOK /\ Known
  BY TypeInit
<1>2. TypeOK /\ Known /\ [Next]_vars => (TypeOK /\ Known)'
  BY TypeStep
<1> QED
  BY <1>1, <1>2, PTL DEF Spec

(* However many callers there are, what is listed has been added under its *)
(* own name, and nothing that is removed is listed still.                  *)
ListedWasAdded ==
  \A n \in Names, i \in Items : tasks[n] = i => (named[i] = n /\ event[i] \in Fired)

(* A call that has registered its task fails to find it only while another *)
(* call is between removing that name and adding it.                       *)
LostToAnother ==
  \A c \in Callers :
    pc[c] = "lookUp" /\ ~Listed(c) =>
      \E d \in Callers \ {c} : name[d] = name[c] /\ pc[d] \in {"addHas", "add"}

(* What a caller makes and looks up is named as its call is, and is not    *)
(* made twice.                                                             *)
Listings ==
  /\ ListedWasAdded
  /\ \A c \in Callers :
       /\ pc[c] \in Registering => named[own[c]] = name[c] /\ event[own[c]] # "none"
       /\ pc[c] \in {"rmCancel", "delete"} => named[target[c]] = name[c]
       /\ pc[c] \in Aiming => event[target[c]] # "none"

(* Every step keeps Listings: a name is deleted in the step that tells of  *)
(* the removal.                                                            *)
LEMMA ListingsStep ==
  ASSUME TypeOK, Known, Listings, [Next]_vars
  PROVE  Listings'
<1> USE DEF Listings, ListedWasAdded, TypeOK, Known, Fired, Registering, Aiming, Watches
<1>1. ASSUME NEW c \in Callers, NEW o \in Ops, NEW n \in Names, NEW i \in Items, Register(c, o, n, i)
      PROVE  Listings'
  BY <1>1, TaskAssumption DEF Register, Goto, Fire, mapVars, watchVars, callVars
<1>2. ASSUME NEW c \in Callers, NEW n \in Names, StopWatch(c, n)
      PROVE  Listings'
  BY <1>2, TaskAssumption DEF StopWatch, Goto, mapVars, watchVars, callVars
<1>3. ASSUME NEW c \in Callers, Clear(c)
      PROVE  Listings'
  BY <1>3, TaskAssumption DEF Clear, CancelRuns, mapVars, watchVars, callVars
<1>4. ASSUME NEW c \in Callers, Has(c)
      PROVE  Listings'
  BY <1>4, TaskAssumption DEF Has, Goto, Listed, mapVars, watchVars, callVars
<1>5. ASSUME NEW c \in Callers, RmTaskGet(c)
      PROVE  Listings'
  BY <1>5, TaskAssumption DEF RmTaskGet, Goto, LookUp, Listed, mapVars, watchVars, callVars
<1>6. ASSUME NEW c \in Callers, RmTaskCancel(c)
      PROVE  Listings'
  BY <1>6, TaskAssumption DEF RmTaskCancel, Goto, CancelRuns, mapVars, watchVars, callVars
<1>7. ASSUME NEW c \in Callers, RmTask(c)
      PROVE  Listings'
  BY <1>7, TaskAssumption DEF RmTask, Goto, Fire, mapVars, watchVars, callVars
<1>8. ASSUME NEW c \in Callers, AddTaskHas(c)
      PROVE  Listings'
  BY <1>8, TaskAssumption DEF AddTaskHas, Goto, Listed, mapVars, watchVars, callVars
<1>9. ASSUME NEW c \in Callers, AddTask(c)
      PROVE  Listings'
  BY <1>9, TaskAssumption DEF AddTask, Goto, Fire, mapVars, watchVars, callVars
<1>10. ASSUME NEW c \in Callers, Find(c)
      PROVE  Listings'
  BY <1>10, TaskAssumption DEF Find, Goto, Listed, LookUp, mapVars, watchVars, callVars
<1>11. ASSUME NEW c \in Callers, Run(c)
      PROVE  Listings'
  BY <1>11, TaskAssumption DEF Run, Goto, Fire, NewRun, mapVars, watchVars, callVars
<1>12. ASSUME NEW c \in Callers, Finish(c)
      PROVE  Listings'
  BY <1>12, TaskAssumption DEF Finish, Goto, Fire, mapVars, watchVars, callVars
<1>13. ASSUME NEW c \in Callers, Watch(c)
      PROVE  Listings'
  BY <1>13, TaskAssumption DEF Watch, Goto, Fire, mapVars, watchVars, callVars
<1>14. ASSUME NEW c \in Callers, CancelWatch(c)
      PROVE  Listings'
  BY <1>14, TaskAssumption DEF CancelWatch, Goto, mapVars, watchVars, callVars
<1>15. ASSUME NEW c \in Callers, Cancel(c)
      PROVE  Listings'
  BY <1>15, TaskAssumption DEF Cancel, Goto, Fire, CancelRuns, mapVars, watchVars, callVars
<1>16. ASSUME NEW w \in Watches, ReplaceWatch(w)
      PROVE  Listings'
  BY <1>16, TaskAssumption DEF ReplaceWatch, mapVars, watchVars, callVars
<1>17. ASSUME NEW w \in Watches, BeginWatch(w)
      PROVE  Listings'
  BY <1>17, TaskAssumption DEF BeginWatch, mapVars, watchVars, callVars
<1>18. ASSUME NEW w \in Watches, WatchRun(w)
      PROVE  Listings'
  BY <1>18, TaskAssumption DEF WatchRun, NewRun, mapVars, watchVars, callVars
<1>19. ASSUME NEW w \in Watches, WatchRan(w)
      PROVE  Listings'
  BY <1>19, TaskAssumption DEF WatchRan, mapVars, watchVars, callVars
<1>20. ASSUME NEW w \in Watches, EndWatch(w)
      PROVE  Listings'
  BY <1>20, TaskAssumption DEF EndWatch, mapVars, watchVars, callVars
<1>21. ASSUME NEW n \in Names, Write(n)
      PROVE  Listings'
  BY <1>21, TaskAssumption DEF Write, mapVars, watchVars, callVars
<1>22. CASE UNCHANGED vars
  BY <1>22 DEF vars, mapVars, watchVars, callVars
<1> QED
  BY <1>1, <1>2, <1>3, <1>4, <1>5, <1>6, <1>7, <1>8, <1>9, <1>10, <1>11, <1>12, <1>13, <1>14, <1>15, <1>16, <1>17, <1>18, <1>19, <1>20, <1>21, <1>22 DEF Next, Call, Watcher

(* Every step keeps LostToAnother: who removes a name goes on to add it.   *)
LEMMA LostStep ==
  ASSUME TypeOK, Known, LostToAnother, [Next]_vars
  PROVE  LostToAnother'
<1> USE DEF LostToAnother, Listed, TypeOK, Known, Registering, Aiming
<1>1. ASSUME NEW c \in Callers, NEW o \in Ops, NEW n \in Names, NEW i \in Items, Register(c, o, n, i)
      PROVE  LostToAnother'
  BY <1>1, TaskAssumption DEF Register, Goto, Fire, mapVars, watchVars, callVars
<1>2. ASSUME NEW c \in Callers, NEW n \in Names, StopWatch(c, n)
      PROVE  LostToAnother'
  BY <1>2, TaskAssumption DEF StopWatch, Goto, mapVars, watchVars, callVars
<1>3. ASSUME NEW c \in Callers, Clear(c)
      PROVE  LostToAnother'
  BY <1>3, TaskAssumption DEF Clear, CancelRuns, mapVars, watchVars, callVars
<1>4. ASSUME NEW c \in Callers, Has(c)
      PROVE  LostToAnother'
  BY <1>4, TaskAssumption DEF Has, Goto, Listed, mapVars, watchVars, callVars
<1>5. ASSUME NEW c \in Callers, RmTaskGet(c)
      PROVE  LostToAnother'
  BY <1>5, TaskAssumption DEF RmTaskGet, Goto, LookUp, Listed, mapVars, watchVars, callVars
<1>6. ASSUME NEW c \in Callers, RmTaskCancel(c)
      PROVE  LostToAnother'
  BY <1>6, TaskAssumption DEF RmTaskCancel, Goto, CancelRuns, mapVars, watchVars, callVars
<1>7. ASSUME NEW c \in Callers, RmTask(c)
      PROVE  LostToAnother'
  BY <1>7, TaskAssumption DEF RmTask, Goto, Fire, mapVars, watchVars, callVars
<1>8. ASSUME NEW c \in Callers, AddTaskHas(c)
      PROVE  LostToAnother'
  BY <1>8, TaskAssumption DEF AddTaskHas, Goto, Listed, mapVars, watchVars, callVars
<1>9. ASSUME NEW c \in Callers, AddTask(c)
      PROVE  LostToAnother'
  BY <1>9, TaskAssumption DEF AddTask, Goto, Fire, mapVars, watchVars, callVars
<1>10. ASSUME NEW c \in Callers, Find(c)
      PROVE  LostToAnother'
  BY <1>10, TaskAssumption DEF Find, Goto, Listed, LookUp, mapVars, watchVars, callVars
<1>11. ASSUME NEW c \in Callers, Run(c)
      PROVE  LostToAnother'
  BY <1>11, TaskAssumption DEF Run, Goto, Fire, NewRun, mapVars, watchVars, callVars
<1>12. ASSUME NEW c \in Callers, Finish(c)
      PROVE  LostToAnother'
  BY <1>12, TaskAssumption DEF Finish, Goto, Fire, mapVars, watchVars, callVars
<1>13. ASSUME NEW c \in Callers, Watch(c)
      PROVE  LostToAnother'
  BY <1>13, TaskAssumption DEF Watch, Goto, Fire, mapVars, watchVars, callVars
<1>14. ASSUME NEW c \in Callers, CancelWatch(c)
      PROVE  LostToAnother'
  BY <1>14, TaskAssumption DEF CancelWatch, Goto, mapVars, watchVars, callVars
<1>15. ASSUME NEW c \in Callers, Cancel(c)
      PROVE  LostToAnother'
  BY <1>15, TaskAssumption DEF Cancel, Goto, Fire, CancelRuns, mapVars, watchVars, callVars
<1>16. ASSUME NEW w \in Watches, ReplaceWatch(w)
      PROVE  LostToAnother'
  BY <1>16, TaskAssumption DEF ReplaceWatch, mapVars, watchVars, callVars
<1>17. ASSUME NEW w \in Watches, BeginWatch(w)
      PROVE  LostToAnother'
  BY <1>17, TaskAssumption DEF BeginWatch, mapVars, watchVars, callVars
<1>18. ASSUME NEW w \in Watches, WatchRun(w)
      PROVE  LostToAnother'
  BY <1>18, TaskAssumption DEF WatchRun, NewRun, mapVars, watchVars, callVars
<1>19. ASSUME NEW w \in Watches, WatchRan(w)
      PROVE  LostToAnother'
  BY <1>19, TaskAssumption DEF WatchRan, mapVars, watchVars, callVars
<1>20. ASSUME NEW w \in Watches, EndWatch(w)
      PROVE  LostToAnother'
  BY <1>20, TaskAssumption DEF EndWatch, mapVars, watchVars, callVars
<1>21. ASSUME NEW n \in Names, Write(n)
      PROVE  LostToAnother'
  BY <1>21, TaskAssumption DEF Write, mapVars, watchVars, callVars
<1>22. CASE UNCHANGED vars
  BY <1>22 DEF vars, mapVars, watchVars, callVars
<1> QED
  BY <1>1, <1>2, <1>3, <1>4, <1>5, <1>6, <1>7, <1>8, <1>9, <1>10, <1>11, <1>12, <1>13, <1>14, <1>15, <1>16, <1>17, <1>18, <1>19, <1>20, <1>21, <1>22 DEF Next, Call, Watcher

(* With any number of callers, a listed task has been added under its own  *)
(* name and not been removed: AddTask and RmTask fire the hook under the   *)
(* lock that guards the map.                                               *)
THEOREM ListedCorrect == Spec => []ListedWasAdded
<1>1. Init => TypeOK /\ Known /\ Listings
  BY TypeInit, TaskAssumption DEF Init, Listings, ListedWasAdded, Registering, Aiming, Items
<1>2. TypeOK /\ Known /\ Listings /\ [Next]_vars => (TypeOK /\ Known /\ Listings)'
  BY TypeStep, ListingsStep
<1>3. Listings => ListedWasAdded
  BY DEF Listings
<1> QED
  BY <1>1, <1>2, <1>3, PTL DEF Spec

(* With any number of callers, a call can miss the task it has registered  *)
(* only while another call of the same name is between RmTask and AddTask. *)
THEOREM LostCorrect == Spec => []LostToAnother
<1>1. Init => TypeOK /\ Known /\ LostToAnother
  BY TypeInit DEF Init, LostToAnother
<1>2. TypeOK /\ Known /\ LostToAnother /\ [Next]_vars => (TypeOK /\ Known /\ LostToAnother)'
  BY TypeStep, LostStep
<1> QED
  BY <1>1, <1>2, PTL DEF Spec
-----------------------------------------------------------------------------
(* The runner has one caller.                                              *)
Alone == \A c, d \in Callers : c = d

(* A lone caller finds the map as it left it.                              *)
AsLeft ==
  \A c \in Callers :
    /\ pc[c] \in Aiming => tasks[name[c]] = target[c]
    /\ pc[c] \in {"found", "running"} => target[c] = own[c]
    /\ pc[c] = "lookUp" => tasks[name[c]] = own[c]
    /\ pc[c] \in {"addHas", "add"} => ~Listed(c)
    /\ pc[c] \in Registering \ {"lookUp", "found", "running"} => event[own[c]] = "made"

(* A lone caller's steps keep the hook and the map agreed.                 *)
LEMMA AloneStep ==
  ASSUME Alone, TypeOK, Known, Listings, AsLeft, ListedAsTold, [Next]_vars
  PROVE  AsLeft' /\ ListedAsTold'
<1> USE DEF Alone, AsLeft, ListedAsTold, Listings, ListedWasAdded, Listed, TypeOK, Known, Fired, Registering, Aiming, Watches
<1>1. ASSUME NEW c \in Callers, NEW o \in Ops, NEW n \in Names, NEW i \in Items, Register(c, o, n, i)
      PROVE  AsLeft' /\ ListedAsTold'
  BY <1>1, TaskAssumption DEF Register, Goto, Fire, mapVars, watchVars, callVars
<1>2. ASSUME NEW c \in Callers, NEW n \in Names, StopWatch(c, n)
      PROVE  AsLeft' /\ ListedAsTold'
  BY <1>2, TaskAssumption DEF StopWatch, Goto, mapVars, watchVars, callVars
<1>3. ASSUME NEW c \in Callers, Clear(c)
      PROVE  AsLeft' /\ ListedAsTold'
  BY <1>3, TaskAssumption DEF Clear, CancelRuns, mapVars, watchVars, callVars
<1>4. ASSUME NEW c \in Callers, Has(c)
      PROVE  AsLeft' /\ ListedAsTold'
  BY <1>4, TaskAssumption DEF Has, Goto, Listed, mapVars, watchVars, callVars
<1>5. ASSUME NEW c \in Callers, RmTaskGet(c)
      PROVE  AsLeft' /\ ListedAsTold'
  BY <1>5, TaskAssumption DEF RmTaskGet, Goto, LookUp, Listed, mapVars, watchVars, callVars
<1>6. ASSUME NEW c \in Callers, RmTaskCancel(c)
      PROVE  AsLeft' /\ ListedAsTold'
  BY <1>6, TaskAssumption DEF RmTaskCancel, Goto, CancelRuns, mapVars, watchVars, callVars
<1>7. ASSUME NEW c \in Callers, RmTask(c)
      PROVE  AsLeft' /\ ListedAsTold'
  BY <1>7, TaskAssumption DEF RmTask, Goto, Fire, mapVars, watchVars, callVars
<1>8. ASSUME NEW c \in Callers, AddTaskHas(c)
      PROVE  AsLeft' /\ ListedAsTold'
  BY <1>8, TaskAssumption DEF AddTaskHas, Goto, Listed, mapVars, watchVars, callVars
<1>9. ASSUME NEW c \in Callers, AddTask(c)
      PROVE  AsLeft' /\ ListedAsTold'
  BY <1>9, TaskAssumption DEF AddTask, Goto, Fire, mapVars, watchVars, callVars
<1>10. ASSUME NEW c \in Callers, Find(c)
      PROVE  AsLeft' /\ ListedAsTold'
  BY <1>10, TaskAssumption DEF Find, Goto, Listed, LookUp, mapVars, watchVars, callVars
<1>11. ASSUME NEW c \in Callers, Run(c)
      PROVE  AsLeft' /\ ListedAsTold'
  BY <1>11, TaskAssumption DEF Run, Goto, Fire, NewRun, mapVars, watchVars, callVars
<1>12. ASSUME NEW c \in Callers, Finish(c)
      PROVE  AsLeft' /\ ListedAsTold'
  BY <1>12, TaskAssumption DEF Finish, Goto, Fire, mapVars, watchVars, callVars
<1>13. ASSUME NEW c \in Callers, Watch(c)
      PROVE  AsLeft' /\ ListedAsTold'
  BY <1>13, TaskAssumption DEF Watch, Goto, Fire, mapVars, watchVars, callVars
<1>14. ASSUME NEW c \in Callers, CancelWatch(c)
      PROVE  AsLeft' /\ ListedAsTold'
  BY <1>14, TaskAssumption DEF CancelWatch, Goto, mapVars, watchVars, callVars
<1>15. ASSUME NEW c \in Callers, Cancel(c)
      PROVE  AsLeft' /\ ListedAsTold'
  BY <1>15, TaskAssumption DEF Cancel, Goto, Fire, CancelRuns, mapVars, watchVars, callVars
<1>16. ASSUME NEW w \in Watches, ReplaceWatch(w)
      PROVE  AsLeft' /\ ListedAsTold'
  BY <1>16, TaskAssumption DEF ReplaceWatch, mapVars, watchVars, callVars
<1>17. ASSUME NEW w \in Watches, BeginWatch(w)
      PROVE  AsLeft' /\ ListedAsTold'
  BY <1>17, TaskAssumption DEF BeginWatch, mapVars, watchVars, callVars
<1>18. ASSUME NEW w \in Watches, WatchRun(w)
      PROVE  AsLeft' /\ ListedAsTold'
  BY <1>18, TaskAssumption DEF WatchRun, NewRun, mapVars, watchVars, callVars
<1>19. ASSUME NEW w \in Watches, WatchRan(w)
      PROVE  AsLeft' /\ ListedAsTold'
  BY <1>19, TaskAssumption DEF WatchRan, mapVars, watchVars, callVars
<1>20. ASSUME NEW w \in Watches, EndWatch(w)
      PROVE  AsLeft' /\ ListedAsTold'
  BY <1>20, TaskAssumption DEF EndWatch, mapVars, watchVars, callVars
<1>21. ASSUME NEW n \in Names, Write(n)
      PROVE  AsLeft' /\ ListedAsTold'
  BY <1>21, TaskAssumption DEF Write, mapVars, watchVars, callVars
<1>22. CASE UNCHANGED vars
  BY <1>22 DEF vars, mapVars, watchVars, callVars
<1> QED
  BY <1>1, <1>2, <1>3, <1>4, <1>5, <1>6, <1>7, <1>8, <1>9, <1>10, <1>11, <1>12, <1>13, <1>14, <1>15, <1>16, <1>17, <1>18, <1>19, <1>20, <1>21, <1>22 DEF Next, Call, Watcher

(* A lone caller's watch is of the item it was made for, and is the one    *)
(* its item knows of as soon as it listens.                                *)
WatchesOwn ==
  /\ \A c \in Callers : pc[c] \in Registering => watch[own[c]] = "none"
  /\ \A w \in Watches :
       /\ watch[w] # "none" => watched[w] = w /\ event[w] \in Fired \cup {"removed"}
       /\ Begun(w) => watchCancel[w] = w

(* Every step of a lone caller and its watchers keeps that.                *)
LEMMA WatchStep ==
  ASSUME Alone, TypeOK, Known, AsLeft, WatchesOwn, [Next]_vars
  PROVE  WatchesOwn'
<1> USE DEF Alone, AsLeft, WatchesOwn, Begun, Listed, TypeOK, Known, Fired, Registering, Aiming, Watches
<1>1. ASSUME NEW c \in Callers, NEW o \in Ops, NEW n \in Names, NEW i \in Items, Register(c, o, n, i)
      PROVE  WatchesOwn'
  BY <1>1, TaskAssumption DEF Register, Goto, Fire, mapVars, watchVars, callVars
<1>2. ASSUME NEW c \in Callers, NEW n \in Names, StopWatch(c, n)
      PROVE  WatchesOwn'
  BY <1>2, TaskAssumption DEF StopWatch, Goto, mapVars, watchVars, callVars
<1>3. ASSUME NEW c \in Callers, Clear(c)
      PROVE  WatchesOwn'
  BY <1>3, TaskAssumption DEF Clear, CancelRuns, mapVars, watchVars, callVars
<1>4. ASSUME NEW c \in Callers, Has(c)
      PROVE  WatchesOwn'
  BY <1>4, TaskAssumption DEF Has, Goto, Listed, mapVars, watchVars, callVars
<1>5. ASSUME NEW c \in Callers, RmTaskGet(c)
      PROVE  WatchesOwn'
  BY <1>5, TaskAssumption DEF RmTaskGet, Goto, LookUp, Listed, mapVars, watchVars, callVars
<1>6. ASSUME NEW c \in Callers, RmTaskCancel(c)
      PROVE  WatchesOwn'
  BY <1>6, TaskAssumption DEF RmTaskCancel, Goto, CancelRuns, mapVars, watchVars, callVars
<1>7. ASSUME NEW c \in Callers, RmTask(c)
      PROVE  WatchesOwn'
  BY <1>7, TaskAssumption DEF RmTask, Goto, Fire, mapVars, watchVars, callVars
<1>8. ASSUME NEW c \in Callers, AddTaskHas(c)
      PROVE  WatchesOwn'
  BY <1>8, TaskAssumption DEF AddTaskHas, Goto, Listed, mapVars, watchVars, callVars
<1>9. ASSUME NEW c \in Callers, AddTask(c)
      PROVE  WatchesOwn'
  BY <1>9, TaskAssumption DEF AddTask, Goto, Fire, mapVars, watchVars, callVars
<1>10. ASSUME NEW c \in Callers, Find(c)
      PROVE  WatchesOwn'
  BY <1>10, TaskAssumption DEF Find, Goto, Listed, LookUp, mapVars, watchVars, callVars
<1>11. ASSUME NEW c \in Callers, Run(c)
      PROVE  WatchesOwn'
  BY <1>11, TaskAssumption DEF Run, Goto, Fire, NewRun, mapVars, watchVars, callVars
<1>12. ASSUME NEW c \in Callers, Finish(c)
      PROVE  WatchesOwn'
  BY <1>12, TaskAssumption DEF Finish, Goto, Fire, mapVars, watchVars, callVars
<1>13. ASSUME NEW c \in Callers, Watch(c)
      PROVE  WatchesOwn'
  BY <1>13, TaskAssumption DEF Watch, Goto, Fire, mapVars, watchVars, callVars
<1>14. ASSUME NEW c \in Callers, CancelWatch(c)
      PROVE  WatchesOwn'
  BY <1>14, TaskAssumption DEF CancelWatch, Goto, mapVars, watchVars, callVars
<1>15. ASSUME NEW c \in Callers, Cancel(c)
      PROVE  WatchesOwn'
  BY <1>15, TaskAssumption DEF Cancel, Goto, Fire, CancelRuns, mapVars, watchVars, callVars
<1>16. ASSUME NEW w \in Watches, ReplaceWatch(w)
      PROVE  WatchesOwn'
  BY <1>16, TaskAssumption DEF ReplaceWatch, mapVars, watchVars, callVars
<1>17. ASSUME NEW w \in Watches, BeginWatch(w)
      PROVE  WatchesOwn'
  BY <1>17, TaskAssumption DEF BeginWatch, mapVars, watchVars, callVars
<1>18. ASSUME NEW w \in Watches, WatchRun(w)
      PROVE  WatchesOwn'
  BY <1>18, TaskAssumption DEF WatchRun, NewRun, mapVars, watchVars, callVars
<1>19. ASSUME NEW w \in Watches, WatchRan(w)
      PROVE  WatchesOwn'
  BY <1>19, TaskAssumption DEF WatchRan, mapVars, watchVars, callVars
<1>20. ASSUME NEW w \in Watches, EndWatch(w)
      PROVE  WatchesOwn'
  BY <1>20, TaskAssumption DEF EndWatch, mapVars, watchVars, callVars
<1>21. ASSUME NEW n \in Names, Write(n)
      PROVE  WatchesOwn'
  BY <1>21, TaskAssumption DEF Write, mapVars, watchVars, callVars
<1>22. CASE UNCHANGED vars
  BY <1>22 DEF vars, mapVars, watchVars, callVars
<1> QED
  BY <1>1, <1>2, <1>3, <1>4, <1>5, <1>6, <1>7, <1>8, <1>9, <1>10, <1>11, <1>12, <1>13, <1>14, <1>15, <1>16, <1>17, <1>18, <1>19, <1>20, <1>21, <1>22 DEF Next, Call, Watcher

(* What holds of a runner with one caller.                                 *)
AloneInv == TypeOK /\ Known /\ Listings /\ AsLeft /\ ListedAsTold /\ WatchesOwn

(* With one caller every reachable state is as that caller left it.        *)
LEMMA AloneLemma ==
  ASSUME Alone
  PROVE  Spec => []AloneInv
<1>1. Init => AloneInv
  BY TypeInit, TaskAssumption DEF Init, AloneInv, Listings, ListedWasAdded, AsLeft, ListedAsTold,
                                  WatchesOwn, Begun, Watches, Registering, Aiming, Items, Fired
<1>2. AloneInv /\ [Next]_vars => AloneInv'
  BY TypeStep, ListingsStep, AloneStep, WatchStep DEF AloneInv
<1> QED
  BY <1>1, <1>2, PTL DEF Spec

(* With one caller, the tasks that are listed are exactly those the hook   *)
(* has told of as added and not removed.                                   *)
THEOREM ToldCorrect ==
  ASSUME Alone
  PROVE  Spec => []ListedAsTold
<1>1. AloneInv => ListedAsTold
  BY DEF AloneInv
<1> QED
  BY <1>1, AloneLemma, PTL

(* With one caller, RunDoc and WatchDoc run the task they were given and   *)
(* never one that was registered before.                                   *)
THEOREM OwnCorrect ==
  ASSUME Alone
  PROVE  Spec => []RunsItsOwn
<1>1. AloneInv => RunsItsOwn
  BY DEF AloneInv, AsLeft, RunsItsOwn
<1> QED
  BY <1>1, AloneLemma, PTL

(* With one caller, a task runs twice at the same time only when a watch   *)
(* has outlived its item, which RmTask does not unwatch.                   *)
THEOREM OverlapCorrect ==
  ASSUME Alone
  PROVE  Spec => []RunsOverlapOnlyWhenOutlived
<1>1. AloneInv => RunsOverlapOnlyWhenOutlived
  <2> SUFFICES ASSUME AloneInv, NEW w \in Watches, watch[w] = "running"
               PROVE  /\ \A c \in Callers :
                           (pc[c] = "running" /\ name[c] = named[watched[w]])
                              => event[watched[w]] = "removed"
                      /\ \A v \in Watches \ {w} :
                           (watch[v] = "running" /\ named[watched[v]] = named[watched[w]])
                              => "removed" \in {event[watched[v]], event[watched[w]]}
    BY DEF RunsOverlapOnlyWhenOutlived
  <2>1. /\ \A v \in Watches : watch[v] = "running" =>
               watched[v] = v /\ (event[v] # "removed" => tasks[named[v]] = v)
        /\ watch \in [Watches -> {"none", "started", "replacing", "watching", "running", "ended"}]
    BY DEF AloneInv, WatchesOwn, ListedAsTold, TypeOK, Watches
  <2>2. ASSUME NEW c \in Callers, pc[c] = "running", name[c] = named[watched[w]]
        PROVE  event[watched[w]] = "removed"
    <3>1. tasks[name[c]] = own[c] /\ watch[own[c]] = "none"
      BY <2>2 DEF AloneInv, AsLeft, WatchesOwn, Aiming, Registering
    <3> QED
      BY <2>1, <2>2, <3>1
  <2>3. ASSUME NEW v \in Watches \ {w}, watch[v] = "running", named[watched[v]] = named[watched[w]]
        PROVE  "removed" \in {event[watched[v]], event[watched[w]]}
    BY <2>1, <2>3
  <2> QED
    BY <2>2, <2>3
<1> QED
  BY <1>1, AloneLemma, PTL

(* With one caller, StopWatch tells every watch of the listed task that    *)
(* listens to its files already.                                           *)
THEOREM StopCorrect ==
  ASSUME Alone
  PROVE  Spec => StopReachesBegun
<1> DEFINE Reached(c) ==
      (pc[c] = "cancelWatch" /\ pc'[c] = "cancel") =>
         \A w \in Watches : Begun(w) /\ watched[w] = target[c] => w \in done'
<1>1. ASSUME AloneInv, [Next]_vars, NEW c \in Callers, pc[c] = "cancelWatch", pc'[c] = "cancel",
             NEW w \in Watches, Begun(w), watched[w] = target[c]
      PROVE  w \in done'
  <2>1. CancelWatch(c)
    <3>1. pc \in [Callers -> {"idle", "has", "get", "rmCancel", "delete", "addHas", "add", "lookUp",
                               "found", "running", "cancelWatch", "cancel"}]
      BY <1>1 DEF AloneInv, TypeOK
    <3> QED
      BY <1>1, <3>1
         DEF Alone, Next, Call, Watcher, vars, mapVars, watchVars, callVars, Goto, Register, StopWatch,
             Clear, Has, RmTaskGet, RmTaskCancel, RmTask, AddTaskHas, AddTask, Find, Run, Finish,
             Watch, Cancel, ReplaceWatch, BeginWatch, WatchRun, WatchRan, EndWatch, Write
  <2>2. watchCancel[target[c]] = w /\ w # Nothing
    BY <1>1, TaskAssumption DEF AloneInv, WatchesOwn, Begun, Watches
  <2> QED
    BY <2>1, <2>2 DEF CancelWatch
<1>2. AloneInv /\ [Next]_vars => [\A c \in Callers : Reached(c)]_vars
  BY <1>1
<1> QED
  BY <1>2, AloneLemma, PTL DEF Spec, StopReachesBegun
=============================================================================
