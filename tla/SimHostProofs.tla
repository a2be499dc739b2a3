---------------------------- MODULE SimHostProofs ----------------------------
(***************************************************************************)
(* Proofs about SimHost for any number of scripts, objects and urls: the   *)
(* types, that a script that is replaced is silent, and that an object is  *)
(* served by the script that created a service for it last.                *)
(***************************************************************************)
EXTENDS SimHost, SequenceTheorems, TLAPS

(* An engine in which nothing is going on, nor will be.                    *)
Silent(e) == queue[e] = <<>> /\ at[e] = "idle"

(* Where the manager is, and what it has made sure of by then.             *)
Managed ==
  /\ pc \in {"close", "terminate", "drain"} => engine # 0 /\ (rerun => engine < MaxEngines)
  /\ pc = "make" => engine < MaxEngines /\ (engine # 0 => loop[engine] = "terminated")
  /\ pc = "drain" => loop[engine] = "terminated"
  /\ pc = "script" => engine # 0 /\ loop[engine] # "terminated"
  /\ pc \in {"terminate", "drain"} => rw[engine] = Control

(* Engines yet to be made have done nothing, a terminated one is silent    *)
(* unless the manager is running what was queued, and a job that closes    *)
(* its engine keeps the loop running.                                      *)
Quiet ==
  /\ \A e \in Engines :
       e > engine => Silent(e) /\ e \notin armed /\ loop[e] = "new" /\ services[e] = {}
  /\ \A e \in Engines : loop[e] = "terminated" => e \notin armed
  /\ \A e \in Engines : at[e] # "idle" => loop[e] \in {"running", "terminated"}
  /\ \A e \in Engines : at[e] = "closing" => loop[e] = "running" /\ rw[e] = Script
  /\ engine # 0 /\ loop[engine] = "terminated" /\ pc # "drain" => Silent(engine)

(* Initially nothing has been made.                                        *)
LEMMA HostInit == Init => TypeOK /\ Managed /\ Quiet /\ ReplacedIsSilent /\ NewestServes
<1> SUFFICES ASSUME Init
             PROVE  TypeOK /\ Managed /\ Quiet /\ ReplacedIsSilent /\ NewestServes
  OBVIOUS
<1> USE HostAssumption DEF Init, Engines
<1>1. TypeOK
  <2>1. <<>> \in Seq({"script", "function", "timer"})
    OBVIOUS
  <2>2. object \in [Engines -> Objects]
    OBVIOUS
  <2>3. queue \in [Engines -> Seq({"script", "function", "timer"})]
    BY <2>1
  <2>4. stopping \subseteq Engines /\ armed \subseteq Engines
    OBVIOUS
  <2>5. /\ services \in [Engines -> SUBSET Objects]
        /\ conns \in [Engines -> SUBSET Urls]
    OBVIOUS
  <2>6. registry \in [Objects -> 0 .. MaxEngines]
    OBVIOUS
  <2>7. /\ rw \in [Engines -> {Control, Script, Nobody}]
        /\ loop \in [Engines -> {"new", "running", "stopped", "terminated"}]
        /\ job \in [Engines -> {"none", "script", "function", "timer"}]
        /\ at \in [Engines -> {"idle", "job", "register", "quit", "closing"}]
        /\ world \in [Engines -> {"empty", "services", "channels"}]
    OBVIOUS
  <2>8. rerun \in BOOLEAN
    BY Zenon
  <2>9. /\ engine \in 0 .. MaxEngines
        /\ pc \in {"idle", "close", "terminate", "drain", "make", "script"}
    OBVIOUS
  <2> QED
    BY <2>2, <2>3, <2>4, <2>5, <2>6, <2>7, <2>8, <2>9 DEF TypeOK
<1>2. Managed
  BY DEF Managed
<1>3. Quiet
  BY DEF Quiet, Silent
<1>4. ReplacedIsSilent
  BY DEF ReplacedIsSilent
<1>5. NewestServes
  BY DEF NewestServes
<1> QED
  BY <1>1, <1>2, <1>3, <1>4, <1>5

(* Only the manager ever gets its loop to terminate: the loop of a job     *)
(* that closes its own engine runs.                                        *)
LEMMA ClosingLemma ==
  ASSUME TypeOK, Managed, Quiet, NEW e \in Engines,
         (e = engine /\ pc = "terminate") \/ at[e] = "closing",
         loop[e] # "running"
  PROVE  e = engine /\ pc = "terminate" /\ rw[e] = Control
BY DEF Managed, Quiet

(* Every step keeps the types and what the manager has made sure of.       *)
LEMMA TypeStep ==
  ASSUME TypeOK, Managed, Quiet, [Next]_vars
  PROVE  TypeOK' /\ Managed'
<1> USE HostAssumption DEF TypeOK, Managed, Engines
<1>1. ASSUME ScriptRun
      PROVE  TypeOK' /\ Managed'
  BY <1>1 DEF ScriptRun, Goto, jobVars, worldVars
<1>2. ASSUME ScriptStop
      PROVE  TypeOK' /\ Managed'
  BY <1>2 DEF ScriptStop, Goto, jobVars, worldVars
<1>3. ASSUME FunctionRun
      PROVE  TypeOK' /\ Managed'
  BY <1>3 DEF FunctionRun, jobVars, worldVars
<1>4. ASSUME Close
      PROVE  TypeOK' /\ Managed'
  BY <1>4 DEF Close, Goto, jobVars, worldVars
<1>5. ASSUME NEW e \in Engines, Terminate(e)
      PROVE  TypeOK' /\ Managed'
  <2>1. e = engine /\ pc = "terminate" /\ rw[e] = Control
    BY <1>5, ClosingLemma DEF Terminate
  <2> QED
    BY <1>5, <2>1 DEF Terminate, jobVars, worldVars
<1>6. ASSUME Closed
      PROVE  TypeOK' /\ Managed'
  BY <1>6 DEF Closed, Goto, jobVars, worldVars
<1>7. ASSUME NewEngine
      PROVE  TypeOK' /\ Managed'
  BY <1>7 DEF NewEngine, Goto, jobVars, worldVars
<1>8. ASSUME RunScript
      PROVE  TypeOK' /\ Managed'
  BY <1>8 DEF RunScript, Goto, jobVars, worldVars
<1>9. ASSUME NEW e \in Engines, StartJob(e)
      PROVE  TypeOK' /\ Managed'
  <2>1. queue' \in [Engines -> Seq({"script", "function", "timer"})]
    BY <1>9 DEF StartJob, Step
  <2>2. Head(queue[e]) \in {"script", "function", "timer"}
    BY <1>9 DEF StartJob
  <2>3. job' \in [Engines -> {"none", "script", "function", "timer"}]
    BY <1>9, <2>2 DEF StartJob
  <2>4. at' \in [Engines -> {"idle", "job", "register", "quit", "closing"}]
    BY <1>9 DEF StartJob, Step
  <2> QED
    BY <1>9, <2>1, <2>3, <2>4 DEF StartJob, jobVars, worldVars
<1>10. ASSUME NEW e \in Engines, EndJob(e)
      PROVE  TypeOK' /\ Managed'
  BY <1>10 DEF EndJob, Step, jobVars, worldVars
<1>11. ASSUME NEW e \in Engines, LoopStops(e)
      PROVE  TypeOK' /\ Managed'
  BY <1>11 DEF LoopStops, jobVars, worldVars
<1>12. ASSUME NEW e \in Engines, RegisterSource(e)
      PROVE  TypeOK' /\ Managed'
  BY <1>12 DEF RegisterSource, Step, jobVars, worldVars
<1>13. ASSUME NEW e \in Engines, QuitClose(e)
      PROVE  TypeOK' /\ Managed'
  BY <1>13 DEF QuitClose, Step, jobVars, worldVars
<1>14. ASSUME NEW e \in Engines, Quit(e)
      PROVE  TypeOK' /\ Managed'
  BY <1>14 DEF Quit, Step, jobVars, worldVars
<1>15. ASSUME NEW e \in Engines, NEW o \in Objects, CreateService(e, o)
      PROVE  TypeOK' /\ Managed'
  BY <1>15 DEF CreateService, Step, jobVars, worldVars
<1>16. ASSUME NEW e \in Engines, NEW u \in Urls, CreateChannel(e, u)
      PROVE  TypeOK' /\ Managed'
  <2>1. CASE conns' = [conns EXCEPT ![e] = @ \cup {u}]
    BY <1>16, <2>1 DEF CreateChannel, jobVars, worldVars
  <2>2. CASE UNCHANGED conns
    BY <1>16, <2>2 DEF CreateChannel, jobVars, worldVars
  <2> QED
    BY <1>16, <2>1, <2>2 DEF CreateChannel
<1>17. ASSUME NEW e \in Engines, SetTimer(e)
      PROVE  TypeOK' /\ Managed'
  BY <1>17 DEF SetTimer, jobVars, worldVars
<1>18. ASSUME NEW e \in Engines, Timer(e)
      PROVE  TypeOK' /\ Managed'
  <2>1. queue' \in [Engines -> Seq({"script", "function", "timer"})]
    BY <1>18 DEF Timer
  <2>2. armed' \subseteq Engines
    BY <1>18 DEF Timer
  <2> QED
    BY <1>18, <2>1, <2>2 DEF Timer, worldVars
<1>19. CASE UNCHANGED vars
  BY <1>19 DEF vars, jobVars, worldVars
<1> QED
  BY <1>1, <1>2, <1>3, <1>4, <1>5, <1>6, <1>7, <1>8, <1>9, <1>10, <1>11, <1>12, <1>13, <1>14, <1>15, <1>16, <1>17, <1>18, <1>19 DEF Next, Call, Manage, Loop, Do

(* Whatever is going on goes on in the manager's engine.                   *)
LEMMA ActiveLemma ==
  ASSUME TypeOK, Quiet, ReplacedIsSilent, NEW e \in Engines,
         at[e] # "idle" \/ Executes(e) \/ loop[e] = "running"
  PROVE  e = engine /\ (loop[engine] # "terminated" \/ pc = "drain")
BY HostAssumption DEF TypeOK, Quiet, Silent, ReplacedIsSilent, Engines, Executes

(* Every step leaves the replaced and the new engines alone.               *)
LEMMA SilentStep ==
  ASSUME TypeOK, Managed, Quiet, ReplacedIsSilent, [Next]_vars
  PROVE  Quiet' /\ ReplacedIsSilent'
<1> USE HostAssumption DEF TypeOK, Managed, Quiet, Silent, ReplacedIsSilent, Engines
<1>1. ASSUME ScriptRun
      PROVE  Quiet' /\ ReplacedIsSilent'
  BY <1>1 DEF ScriptRun, Goto, jobVars, worldVars
<1>2. ASSUME ScriptStop
      PROVE  Quiet' /\ ReplacedIsSilent'
  BY <1>2 DEF ScriptStop, Goto, jobVars, worldVars
<1>3. ASSUME FunctionRun
      PROVE  Quiet' /\ ReplacedIsSilent'
  BY <1>3 DEF FunctionRun, jobVars, worldVars
<1>4. ASSUME Close
      PROVE  Quiet' /\ ReplacedIsSilent'
  BY <1>4 DEF Close, Goto, jobVars, worldVars
<1>5. ASSUME NEW e \in Engines, Terminate(e)
      PROVE  Quiet' /\ ReplacedIsSilent'
  <2>1. e = engine /\ pc = "terminate" /\ rw[e] = Control
    BY <1>5, ClosingLemma DEF Terminate
  <2> QED
    BY <1>5, <2>1 DEF Terminate, jobVars, worldVars
<1>6. ASSUME Closed
      PROVE  Quiet' /\ ReplacedIsSilent'
  BY <1>6 DEF Closed, Goto, jobVars, worldVars
<1>7. ASSUME NewEngine
      PROVE  Quiet' /\ ReplacedIsSilent'
  <2>1. /\ pc = "make" /\ engine' = engine + 1 /\ engine + 1 \in Engines
        /\ loop' = [loop EXCEPT ![engine + 1] = "running"]
        /\ UNCHANGED <<queue, at, armed, services, rw>>
    BY <1>7 DEF NewEngine, Goto, jobVars, worldVars
  <2>2. loop'[engine'] = "running"
    BY <2>1
  <2>3. Quiet'
    <3>1. \A d \in Engines : d > engine' => d > engine /\ loop'[d] = loop[d]
      BY <2>1
    <3>2. \A d \in Engines : d > engine' =>
            Silent(d)' /\ d \notin armed' /\ loop'[d] = "new" /\ services'[d] = {}
      BY <2>1, <3>1
    <3>3. \A d \in Engines : loop'[d] = loop[d] \/ (d = engine + 1 /\ loop'[d] = "running")
      BY <2>1
    <3>4. \A d \in Engines : loop'[d] = "terminated" => d \notin armed'
      BY <2>1, <3>3
    <3>5. at[engine + 1] = "idle"
      <4>1. engine + 1 > engine
        OBVIOUS
      <4> QED
        BY <2>1, <4>1
    <3>6. \A d \in Engines : at'[d] # "idle" => loop'[d] \in {"running", "terminated"}
      BY <2>1, <3>3, <3>5
    <3>7. \A d \in Engines : at'[d] = "closing" => loop'[d] = "running" /\ rw'[d] = Script
      BY <2>1, <3>3, <3>5
    <3> QED
      BY <2>2, <3>2, <3>4, <3>6, <3>7
  <2>4. ASSUME NEW d \in Engines, d < engine'
        PROVE  loop'[d] = "terminated" /\ queue'[d] = <<>> /\ at'[d] = "idle" /\ d \notin armed'
    <3>1. CASE d < engine
      <4>1. d # engine + 1
        BY <3>1
      <4>2. loop[d] = "terminated" /\ queue[d] = <<>> /\ at[d] = "idle" /\ d \notin armed
        BY <3>1
      <4>3. loop'[d] = loop[d]
        BY <2>1, <4>1
      <4> QED
        BY <2>1, <4>2, <4>3
    <3>2. CASE d = engine
      BY <2>1, <3>2
    <3> QED
      BY <2>1, <2>4, <3>1, <3>2
  <2> QED
    BY <2>3, <2>4
<1>8. ASSUME RunScript
      PROVE  Quiet' /\ ReplacedIsSilent'
  BY <1>8 DEF RunScript, Goto, jobVars, worldVars
<1>9. ASSUME NEW e \in Engines, StartJob(e)
      PROVE  Quiet' /\ ReplacedIsSilent'
  <2>1. e = engine /\ (loop[engine] # "terminated" \/ pc = "drain")
    BY <1>9, ActiveLemma DEF StartJob, Step, Executes
  <2> QED
    BY <1>9, <2>1 DEF StartJob, Step, Executes, jobVars, worldVars
<1>10. ASSUME NEW e \in Engines, EndJob(e)
      PROVE  Quiet' /\ ReplacedIsSilent'
  <2>1. e = engine /\ (loop[engine] # "terminated" \/ pc = "drain")
    BY <1>10, ActiveLemma DEF EndJob, Step
  <2> QED
    BY <1>10, <2>1 DEF EndJob, Step, jobVars, worldVars
<1>11. ASSUME NEW e \in Engines, LoopStops(e)
      PROVE  Quiet' /\ ReplacedIsSilent'
  <2>1. e = engine /\ (loop[engine] # "terminated" \/ pc = "drain")
    BY <1>11, ActiveLemma DEF LoopStops
  <2> QED
    BY <1>11, <2>1 DEF LoopStops, jobVars, worldVars
<1>12. ASSUME NEW e \in Engines, RegisterSource(e)
      PROVE  Quiet' /\ ReplacedIsSilent'
  <2>1. e = engine /\ (loop[engine] # "terminated" \/ pc = "drain")
    BY <1>12, ActiveLemma DEF RegisterSource, Step
  <2> QED
    BY <1>12, <2>1 DEF RegisterSource, Step, jobVars, worldVars
<1>13. ASSUME NEW e \in Engines, QuitClose(e)
      PROVE  Quiet' /\ ReplacedIsSilent'
  <2>1. e = engine /\ (loop[engine] # "terminated" \/ pc = "drain")
    BY <1>13, ActiveLemma DEF QuitClose, Step
  <2>2. loop[e] = "running" /\ pc # "drain"
    BY <1>13, <2>1 DEF QuitClose, Step
  <2> QED
    BY <1>13, <2>1, <2>2 DEF QuitClose, Step, jobVars, worldVars
<1>14. ASSUME NEW e \in Engines, Quit(e)
      PROVE  Quiet' /\ ReplacedIsSilent'
  <2>1. e = engine /\ (loop[engine] # "terminated" \/ pc = "drain")
    BY <1>14, ActiveLemma DEF Quit, Step
  <2> QED
    BY <1>14, <2>1 DEF Quit, Step, jobVars, worldVars
<1>15. ASSUME NEW e \in Engines, NEW o \in Objects, CreateService(e, o)
      PROVE  Quiet' /\ ReplacedIsSilent'
  <2>1. e = engine /\ (loop[engine] # "terminated" \/ pc = "drain")
    BY <1>15, ActiveLemma DEF CreateService, Step
  <2> QED
    BY <1>15, <2>1 DEF CreateService, Step, jobVars, worldVars
<1>16. ASSUME NEW e \in Engines, NEW u \in Urls, CreateChannel(e, u)
      PROVE  Quiet' /\ ReplacedIsSilent'
  <2>1. e = engine /\ (loop[engine] # "terminated" \/ pc = "drain")
    BY <1>16, ActiveLemma DEF CreateChannel
  <2> QED
    BY <1>16, <2>1 DEF CreateChannel, jobVars, worldVars
<1>17. ASSUME NEW e \in Engines, SetTimer(e)
      PROVE  Quiet' /\ ReplacedIsSilent'
  <2>1. e = engine /\ (loop[engine] # "terminated" \/ pc = "drain")
    BY <1>17, ActiveLemma DEF SetTimer
  <2> QED
    BY <1>17, <2>1 DEF SetTimer, jobVars, worldVars
<1>18. ASSUME NEW e \in Engines, Timer(e)
      PROVE  Quiet' /\ ReplacedIsSilent'
  <2>1. e = engine /\ (loop[engine] # "terminated" \/ pc = "drain")
    BY <1>18, ActiveLemma DEF Timer
  <2> QED
    BY <1>18, <2>1 DEF Timer, jobVars, worldVars
<1>19. CASE UNCHANGED vars
  BY <1>19 DEF vars, jobVars, worldVars
<1> QED
  BY <1>1, <1>2, <1>3, <1>4, <1>5, <1>6, <1>7, <1>8, <1>9, <1>10, <1>11, <1>12, <1>13, <1>14, <1>15, <1>16, <1>17, <1>18, <1>19 DEF Next, Call, Manage, Loop, Do

(* Only the engine of the manager registers sources.                       *)
LEMMA ServesStep ==
  ASSUME TypeOK, Quiet, ReplacedIsSilent, NewestServes, [Next]_vars
  PROVE  NewestServes'
<1> USE HostAssumption DEF TypeOK, Quiet, Silent, ReplacedIsSilent, NewestServes, Engines
<1>1. ASSUME NEW e \in Engines, RegisterSource(e)
      PROVE  NewestServes'
  <2>1. e = engine /\ (loop[engine] # "terminated" \/ pc = "drain")
    BY <1>1, ActiveLemma DEF RegisterSource, Step
  <2>2. /\ object[e] \in Objects /\ e # 0
        /\ registry' = [registry EXCEPT ![object[e]] = e]
        /\ services' = [services EXCEPT ![e] = @ \cup {object[e]}]
    BY <1>1 DEF RegisterSource
  <2> SUFFICES ASSUME NEW o \in Objects
               PROVE  /\ \A d \in Engines : o \in services'[d] => registry'[o] >= d
                      /\ registry'[o] # 0 => o \in services'[registry'[o]]
    OBVIOUS
  <2>3. CASE o = object[e]
    <3>1. registry'[o] = e /\ o \in services'[e]
      BY <2>2, <2>3
    <3>2. \A d \in Engines : o \in services'[d] => d <= e
      BY <2>1, <2>2
    <3>3. \A d \in Engines : o \in services'[d] => registry'[o] >= d
      BY <3>1, <3>2, <2>2
    <3> QED
      BY <3>1, <3>3
  <2>4. CASE o # object[e]
    <3>1. registry'[o] = registry[o]
      BY <2>2, <2>4
    <3>2. \A d \in Engines : o \in services'[d] <=> o \in services[d]
      BY <2>2, <2>4
    <3>3. registry[o] # 0 => registry[o] \in Engines /\ o \in services[registry[o]]
      OBVIOUS
    <3>4. registry'[o] # 0 => o \in services'[registry'[o]]
      BY <3>1, <3>2, <3>3
    <3>5. \A d \in Engines : o \in services'[d] => registry'[o] >= d
      BY <3>1, <3>2
    <3> QED
      BY <3>4, <3>5
  <2> QED
    BY <2>3, <2>4
<1>2. CASE UNCHANGED <<services, registry>>
  BY <1>2
<1>3. (\E e \in Engines : RegisterSource(e)) \/ UNCHANGED <<services, registry>>
  BY DEF Next, Call, Manage, Loop, Do, vars, jobVars, worldVars, ScriptRun, ScriptStop, FunctionRun,
         Close, Terminate, Closed, NewEngine, RunScript, StartJob, EndJob, SetTimer, Timer, LoopStops,
         CreateService, CreateChannel, Quit, QuitClose
<1> QED
  BY <1>1, <1>2, <1>3

(* The inductive invariant: each part needs the ones before it.            *)
HostInv == TypeOK /\ Managed /\ Quiet /\ ReplacedIsSilent /\ NewestServes

(* The invariants together hold in every reachable state.                  *)
LEMMA HostInvariant == Spec => []HostInv
<1>1. Init => HostInv
  BY HostInit DEF HostInv
<1>2. HostInv /\ [Next]_vars => HostInv'
  BY TypeStep, SilentStep, ServesStep DEF HostInv
<1> QED
  BY <1>1, <1>2, PTL DEF Spec

(* Every reachable state has the types of TypeOK.                          *)
THEOREM TypeCorrect == Spec => []TypeOK
<1>1. HostInv => TypeOK
  BY DEF HostInv
<1> QED
  BY <1>1, HostInvariant, PTL

(* A script that ScriptRun has replaced runs no job any more, because      *)
(* Close waits for its loop and empties its queue.                         *)
THEOREM SilentCorrect == Spec => []ReplacedIsSilent
<1>1. HostInv => ReplacedIsSilent
  BY DEF HostInv
<1> QED
  BY <1>1, HostInvariant, PTL

(* However many scripts are run one after the other, the server serves an  *)
(* object by the latest of them that created a service for it.             *)
THEOREM ServesCorrect == Spec => []NewestServes
<1>1. HostInv => NewestServes
  BY DEF HostInv
<1> QED
  BY <1>1, HostInvariant, PTL
=============================================================================
