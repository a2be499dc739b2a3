------------------------------- MODULE SimHost -------------------------------
(***************************************************************************)
(* Running scripts: the Manager of a host runs one script after the other, *)
(* each in an Engine of its own with an event loop, a World and a          *)
(* connector, on the one OlinkServer the host has.                         *)
(*                                                                         *)
(* Two kinds of goroutines meet: the manager's (the command, or the        *)
(* watcher that runs the script again when its file is written), and the   *)
(* event loop of each engine, which takes the queued jobs in order.  An    *)
(* engine's mutex (rw) is taken to close it and to register a source.      *)
(*                                                                         *)
(* The event loop is a library: stopping it lets it finish the job it is   *)
(* at, Terminate waits for that and runs what is queued still on the       *)
(* goroutine that calls it, and a terminated loop takes no more jobs.      *)
(***************************************************************************)
EXTENDS Naturals, Sequences

CONSTANTS
  Objects,    \* the object ids scripts create services for
  Urls,       \* the servers scripts open channels to
  Control,    \* the goroutine of the manager
  Script,     \* the goroutine of an engine's loop
  Nobody,     \* nobody holds the mutex
  MaxEngines, \* bound: how many scripts are run
  MaxJobs     \* bound: how many jobs are queued

Engines == 1 .. MaxEngines

ASSUME HostAssumption ==
  /\ MaxEngines \in Nat
  /\ MaxJobs \in Nat
  /\ Control # Script
  /\ Nobody \notin {Control, Script}

VARIABLES
  engine,   \* Manager.engine, 0 when it has none
  rw,       \* Engine.rw: who holds it
  loop,     \* the event loop of each engine
  stopping, \* the engines whose loop has been asked to stop
  queue,    \* the jobs queued on it
  job,      \* the job that is being run
  at,       \* where that job is
  armed,    \* the engines whose script has set a timer
  object,   \* the object a job is creating a service for
  world,    \* World.servicesLoaded, channelsLoaded
  services, \* World.services
  conns,    \* OlinkConnector.conns
  registry, \* OlinkServer.registry: the engine that serves each object, or 0
  pc,       \* where the manager is
  rerun     \* whether it closes an engine to run the next script

jobVars == <<queue, job, at, object, armed>>
worldVars == <<world, services, conns, registry>>
vars == <<engine, rw, loop, stopping, jobVars, worldVars, pc, rerun>>

Init ==
  /\ engine = 0
  /\ rw = [e \in Engines |-> Nobody]
  /\ loop = [e \in Engines |-> "new"]
  /\ stopping = {}
  /\ queue = [e \in Engines |-> <<>>]
  /\ job = [e \in Engines |-> "none"]
  /\ at = [e \in Engines |-> "idle"]
  /\ armed = {}
  /\ object \in [Engines -> Objects]
  /\ world = [e \in Engines |-> "empty"]
  /\ services = [e \in Engines |-> {}]
  /\ conns = [e \in Engines |-> {}]
  /\ registry = [o \in Objects |-> 0]
  /\ pc = "idle"
  /\ rerun = FALSE

Goto(from, to) == pc = from /\ pc' = to

Step(e, from, to) == at[e] = from /\ at' = [at EXCEPT ![e] = to]

(***************************************************************************)
(* The manager.                                                            *)
(***************************************************************************)
ScriptRun ==
  /\ engine < MaxEngines
  /\ Goto("idle", IF engine = 0 THEN "make" ELSE "close")
  /\ rerun' = TRUE
  /\ UNCHANGED <<engine, rw, loop, stopping, jobVars, worldVars>>

(* Stop and ScriptStop close the engine and keep it.                       *)
ScriptStop ==
  /\ engine # 0
  /\ Goto("idle", "close")
  /\ rerun' = FALSE
  /\ UNCHANGED <<engine, rw, loop, stopping, jobVars, worldVars>>

FunctionRun ==
  /\ engine # 0
  /\ pc = "idle"
  /\ loop[engine] # "terminated"
  /\ Len(queue[engine]) < MaxJobs
  /\ queue' = [queue EXCEPT ![engine] = Append(@, "function")]
  /\ UNCHANGED <<engine, rw, loop, stopping, armed, job, at, object, worldVars, pc, rerun>>

CloseNoWait ==
  /\ Goto("close", IF rerun THEN "make" ELSE "idle")
  /\ rw[engine] = Nobody
  /\ stopping' = stopping \cup {engine}
  /\ UNCHANGED <<engine, rw, loop, jobVars, worldVars, rerun>>

(* Engine.Close takes the mutex, asks the loop to stop and terminates it.  *)
Close ==
  /\ Goto("close", "terminate")
  /\ rw[engine] = Nobody
  /\ rw' = [rw EXCEPT ![engine] = Control]
  /\ stopping' = stopping \cup {engine}
  /\ UNCHANGED <<engine, loop, jobVars, worldVars, rerun>>

(* Terminate waits until the loop has stopped and refuses jobs and timers  *)
(* from then on; whoever holds the mutex goes on with Close.               *)
Terminate(e) ==
  /\ (e = engine /\ pc = "terminate") \/ at[e] = "closing"
  /\ loop[e] # "running"
  /\ loop' = [loop EXCEPT ![e] = "terminated"]
  /\ armed' = armed \ {e}
  /\ pc' = IF rw[e] = Control THEN "drain" ELSE pc
  /\ at' = [at EXCEPT ![e] = IF rw[e] = Script THEN "job" ELSE @]
  /\ UNCHANGED <<engine, rw, stopping, queue, job, object, worldVars, rerun>>

ClosedKeepsLock ==
  /\ Goto("drain", IF rerun THEN "make" ELSE "idle")
  /\ queue[engine] = <<>>
  /\ at[engine] = "idle"
  /\ UNCHANGED <<engine, rw, loop, stopping, jobVars, worldVars, rerun>>

Closed ==
  /\ Goto("drain", IF rerun THEN "make" ELSE "idle")
  /\ queue[engine] = <<>>
  /\ at[engine] = "idle"
  /\ rw' = [rw EXCEPT ![engine] = Nobody]
  /\ UNCHANGED <<engine, loop, stopping, jobVars, worldVars, rerun>>

(* NewEngine returns when the loop runs and knows its world.               *)
NewEngine ==
  /\ Goto("make", "script")
  /\ engine' = engine + 1
  /\ loop' = [loop EXCEPT ![engine + 1] = "running"]
  /\ UNCHANGED <<rw, stopping, jobVars, worldVars, rerun>>

RunScript ==
  /\ Goto("script", "idle")
  /\ queue' = [queue EXCEPT ![engine] = Append(@, "script")]
  /\ UNCHANGED <<engine, rw, loop, stopping, armed, job, at, object, worldVars, rerun>>

(***************************************************************************)
(* The event loop of engine e.                                             *)
(***************************************************************************)
Executes(e) == loop[e] = "running" \/ (e = engine /\ pc = "drain")

StartJob(e) ==
  /\ Executes(e)
  /\ queue[e] # <<>>
  /\ Step(e, "idle", "job")
  /\ job' = [job EXCEPT ![e] = Head(queue[e])]
  /\ queue' = [queue EXCEPT ![e] = Tail(@)]
  /\ UNCHANGED <<engine, rw, loop, stopping, armed, object, worldVars, pc, rerun>>

EndJob(e) ==
  /\ Step(e, "job", "idle")
  /\ job' = [job EXCEPT ![e] = "none"]
  /\ UNCHANGED <<engine, rw, loop, stopping, armed, queue, object, worldVars, pc, rerun>>

(* setTimeout and setInterval are refused by a terminated loop.            *)
SetTimer(e) ==
  /\ at[e] = "job"
  /\ loop[e] = "running"
  /\ armed' = armed \cup {e}
  /\ UNCHANGED <<engine, rw, loop, stopping, queue, job, at, object, worldVars, pc, rerun>>

Timer(e) ==
  /\ e \in armed
  /\ loop[e] = "running"
  /\ Len(queue[e]) < MaxJobs
  /\ queue' = [queue EXCEPT ![e] = Append(@, "timer")]
  /\ armed' \in {armed, armed \ {e}}
  /\ UNCHANGED <<engine, rw, loop, stopping, job, at, object, worldVars, pc, rerun>>

LoopStops(e) ==
  /\ loop[e] = "running"
  /\ e \in stopping
  /\ at[e] = "idle"
  /\ loop' = [loop EXCEPT ![e] = "stopped"]
  /\ UNCHANGED <<engine, rw, stopping, jobVars, worldVars, pc, rerun>>

(***************************************************************************)
(* What a job does with its world: services or channels, not both.         *)
(***************************************************************************)
CreateService(e, o) ==
  /\ world[e] # "channels"
  /\ Step(e, "job", "register")
  /\ world' = [world EXCEPT ![e] = "services"]
  /\ object' = [object EXCEPT ![e] = o]
  /\ UNCHANGED <<engine, rw, loop, stopping, armed, queue, job, services, conns, registry, pc, rerun>>

(* The engine's mutex is taken and given back around RegisterSource, which *)
(* puts the new source in the place of the one the object had.             *)
RegisterSource(e) ==
  /\ rw[e] = Nobody
  /\ Step(e, "register", "job")
  /\ registry' = [registry EXCEPT ![object[e]] = e]
  /\ services' = [services EXCEPT ![e] = @ \cup {object[e]}]
  /\ UNCHANGED <<engine, rw, loop, stopping, armed, queue, job, object, world, conns, pc, rerun>>

(* A channel whose connection fails is not kept, the world is one of       *)
(* channels all the same.                                                  *)
CreateChannel(e, u) ==
  /\ at[e] = "job"
  /\ world[e] # "services"
  /\ world' = [world EXCEPT ![e] = "channels"]
  /\ \/ conns' = [conns EXCEPT ![e] = @ \cup {u}]
     \/ u \notin conns[e] /\ UNCHANGED conns
  /\ UNCHANGED <<engine, rw, loop, stopping, jobVars, services, registry, pc, rerun>>

QuitLeavesNil(e) ==
  /\ Step(e, "job", "quit")
  /\ conns' = [conns EXCEPT ![e] = {Nobody}]
  /\ UNCHANGED <<engine, rw, loop, stopping, armed, queue, job, object, world, services, registry, pc, rerun>>

(* $quit disconnects the channels and closes the engine on its own loop.   *)
Quit(e) ==
  /\ Step(e, "job", "quit")
  /\ conns' = [conns EXCEPT ![e] = {}]
  /\ UNCHANGED <<engine, rw, loop, stopping, armed, queue, job, object, world, services, registry, pc, rerun>>

QuitClose(e) ==
  /\ rw[e] = Nobody
  /\ Step(e, "quit", "closing")
  /\ rw' = [rw EXCEPT ![e] = Script]
  /\ stopping' = stopping \cup {e}
  /\ UNCHANGED <<engine, loop, armed, queue, job, object, worldVars, pc, rerun>>

Manage == Close \/ Closed \/ NewEngine \/ RunScript

Call == ScriptRun \/ ScriptStop \/ FunctionRun

Do(e) ==
  \/ \E o \in Objects : CreateService(e, o)
  \/ \E u \in Urls : CreateChannel(e, u)
  \/ SetTimer(e)
  \/ Quit(e)

Loop(e) ==
  \/ StartJob(e) \/ EndJob(e) \/ Timer(e)
  \/ Terminate(e) \/ LoopStops(e) \/ RegisterSource(e) \/ QuitClose(e)

Next ==
  \/ Call
  \/ Manage
  \/ \E e \in Engines : Loop(e) \/ Do(e)

Spec == Init /\ [][Next]_vars
-----------------------------------------------------------------------------
(* Fairness: goroutines that can run do, a job of a script comes to its    *)
(* end, and a loop that is asked to stop does so though timers keep it     *)
(* busy: it looks after each batch of jobs.                                *)
Fairness ==
  /\ WF_vars(Manage)
  /\ \A e \in Engines : /\ WF_vars(StartJob(e)) /\ WF_vars(RegisterSource(e)) /\ WF_vars(Terminate(e))
                        /\ SF_vars(LoopStops(e)) /\ SF_vars(EndJob(e))

FairSpec == Spec /\ Fairness
-----------------------------------------------------------------------------
(* Every variable has its type.                                            *)
TypeOK ==
  /\ engine \in 0 .. MaxEngines
  /\ rw \in [Engines -> {Control, Script, Nobody}]
  /\ loop \in [Engines -> {"new", "running", "stopped", "terminated"}]
  /\ stopping \subseteq Engines
  /\ queue \in [Engines -> Seq({"script", "function", "timer"})]
  /\ job \in [Engines -> {"none", "script", "function", "timer"}]
  /\ at \in [Engines -> {"idle", "job", "register", "quit", "closing"}]
  /\ armed \subseteq Engines
  /\ object \in [Engines -> Objects]
  /\ world \in [Engines -> {"empty", "services", "channels"}]
  /\ services \in [Engines -> SUBSET Objects]
  /\ conns \in [Engines -> SUBSET Urls]
  /\ registry \in [Objects -> 0 .. MaxEngines]
  /\ pc \in {"idle", "close", "terminate", "drain", "make", "script"}
  /\ rerun \in BOOLEAN

(* A script that has been replaced does nothing any more: its loop is      *)
(* terminated, no job of it is queued or under way and no timer is set.    *)
ReplacedIsSilent ==
  \A e \in Engines :
    e < engine =>
      loop[e] = "terminated" /\ queue[e] = <<>> /\ at[e] = "idle" /\ e \notin armed

(* An object is served by the script that created a service for it last;   *)
(* a script that is replaced never takes an object back.                   *)
NewestServes ==
  \A o \in Objects :
    /\ \A e \in Engines : o \in services[e] => registry[o] >= e
    /\ registry[o] # 0 => o \in services[registry[o]]

(* Closing an engine comes to its end, also when it was closed before,     *)
(* unless the script registers a service or quits just then: these wait    *)
(* for the mutex that Close holds, or for the loop they run on.            *)
CloseReturns ==
  (pc = "close") ~> (pc \in {"idle", "make"} \/ at[engine] \in {"register", "quit", "closing"})

(* "Exit after 1 second" (demo.sim.js): a script that quits has its loop   *)
(* terminated, and takes no further jobs.                                  *)
QuitTerminates ==
  \A e \in Engines : (at[e] = "closing") ~> (loop[e] = "terminated")
=============================================================================
