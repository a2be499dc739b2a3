# ApiGear CLI, verified: TLA+ models and proofs

This directory holds TLA+ specifications of the parts of the ApiGear command
line tool that are hard to test: the simulation (scripts that stand in for a
service or a client, with real clients connected over ObjectLink), the tasks
that run and watch solutions, the way from an ObjectAPI document to the model
and from there to generated files, the template registry and cache, and the
network services with the monitor. Each module is written from the Go code
under `src/`; `PROJECT.json` maps every definition to the lines it models.

    tlc -workers 2 -config service_feed.cfg MCSimService.tla    # model-check
    tlapm SimServiceProofs.tla                                  # check proofs

## 1. The system

| Component | State it keeps | Operations | Hard behaviour | What makes it correct |
|---|---|---|---|---|
| `pkg/sim` object service: `ObjectService`, `OLinkSource`, `Emitter` | property map, listeners, methods; the node that linked last; two RW locks | set a property, invoke a method, listen, link, unlink, notify | the script's loop and one goroutine per connection call it at once; read locks nest; listeners assign and add listeners; INIT is made from a live map | a linked client ends up with the service's properties, unless a change overtook its INIT; locks are given back; the ways in which threads wait for each other are known |
| `pkg/sim` object client: `ObjectClient`, `ObjectClientSink` | a copy of a remote object, listeners; three locks | get, set, listen, call and wait, close; INIT, changes, signals and replies from the reader | script and reader meet in three nested locks; a call blocks on a reply that may never come | the copy catches up and goes back only by an overtaken INIT; a call returns after its effects arrived |
| `pkg/sim` script host: `Manager`, `Engine`, `World`, `OlinkServer`, `OlinkConnector` | the current engine, its loop, job queue and timers, its world; the server's registry | run, stop and replace a script, call a function, create services and channels, `$quit` | closing waits for a loop that may wait for the closer; jobs are still queued when a script is replaced | a replaced script is silent; the newest script serves an object; closing returns |
| `pkg/tasks`: `TaskManager`, `TaskItem` | tasks by name, per task a run's and a watch's cancel; a hook | register, run, watch, stop, clear | several lock sections per call; goroutines that outlive their task; files written at any time | the right task runs, what is listed was added, a watch that is told to end ends |
| `pkg/idl`: parser, listener | rule stack and error recovery; the tree; one node under construction per kind | parse, walk, check | the tree is walked after syntax errors; state left by one handler is read by another | the model is what the tree says; panics come from syntax errors and from numbers that no `int` holds, nothing else |
| `pkg/model` | modules, interfaces, structs, enums, externs, schemas | add, look up, validate, resolve | names across modules; numbering of enums; a second validation | a symbol is the one declaration it names |
| `pkg/gen/filters` | none | forty filters in ten languages | the same case distinction by hand in each | the filters of a language agree on what there is a text for, and name the right declaration |
| `pkg/spec`, `pkg/sol`, `pkg/gen` | the solution document with what was computed, features to skip, files on disk | read, validate, compute, plan, copy, render, write | runs side by side; failures half way; caches; cycles of features | a run leaves what its rules ask for, a second one changes nothing, preserved files stay |
| `pkg/repos`, `pkg/git` | template directories and registry on disk, the registry in memory | load, update, reset, save; install, import, remove, clean | processes share the disk without a lock; two-step installs and updates that fail or are killed | an installed version is that version; a successful update is complete; calls end |
| `pkg/net`, `pkg/mon`, feeds | servers and connections, the monitor's hook | start, enable the monitor, subscribe, stop; take a batch, fire, publish | requests before, during and after; partial failure of a start and of a batch; another NATS server | an answer tells what became of the events; nothing happens after a stop; stopping returns |
| `pkg/evt` bus | handlers, middleware, subscription | register, use, publish, request | handlers run under the lock they may want | not modelled, see section 7 |
| `pkg/cfg`, `pkg/prj` | at most 5 recent entries in the config file | append, remove, list; directories made at start | read-modify-write in two lock sections | not modelled, but for the directories |
| `pkg/vfs`, `pkg/tpl`, `pkg/up`, `pkg/mcp`, `pkg/cmd`, `pkg/log`, `pkg/helper` | little or none | formatting, glue | sequential | not modelled, see section 7 |

How they interact: `apigear sim run` starts the `NetworkManager`, gives its
HTTP server an `OlinkServer` (`Manager.Start`), registers a task that calls
`ScriptRun` and runs or watches it with the `TaskManager`. `ScriptRun` makes an
`Engine`; jobs on its event loop create services (registered at the server,
where remote clients link to them) or channels with clients (connected to a
server, perhaps another process of the same program). A service announces
changes through its source to the linked clients; an `ObjectClient` on the
other side stores them. `apigear generate` uses the solution runner, which
registers a task per solution with the same `TaskManager`. A run asks the
template cache for its template, has its inputs parsed into one system of
modules, and renders the documents its rules ask for; the templates call the
filters with the resolved schemas. `apigear mon run` starts the same network
services; `mon feed` is their client.

## 2. Modules

| Module | Models | Uses |
|---|---|---|
| `RWLock` | `sync.RWMutex` as a value: `RLock` waits for a writer that has asked, read locks nest and count, no owner | |
| `PropertyFeed` | abstract: what a service promises its clients | |
| `SimService` | `ObjectService`, `OLinkSource`, `Emitter`, connection goroutines | `RWLock` for two locks, refines `PropertyFeed` |
| `SimClient` | `ObjectClient`, `ObjectClientSink`, the connection's reader; the server as environment | `RWLock` for two locks |
| `SimHost` | `Manager`, `Engine`, `World`, `OlinkServer`, `OlinkConnector`; the event loop as environment | |
| `TaskManager` | `TaskManager`, `TaskItem`, the hook, `sol.Runner` | |
| `ObjectApiGrammar` | the rule functions of the generated parser, as graphs | |
| `ApiModel` | nodes, lookups, validation and resolution of `pkg/model`, as operators | |
| `Filters` | the filters of ten languages: what their text names, for each kind of schema | |
| `ObjectApi` | the parser with its error recovery, the tree walker, the listener, data files, validation | composes the three above |
| `Rules` | `RulesDoc`: features, scopes, documents, as operators | |
| `Solution` | `sol.Runner`, `SolutionDoc`, `SolutionTarget`, the generator's writing | `Rules` |
| `Templates` | `repos.registry`, `repos.cache`, `git`, several processes, remote repositories | |
| `Network` | `NetworkManager`, the HTTP and NATS servers, the monitor's handler, feeding clients | |
| `ObjectApiInvariants` | the inductive invariant of `ObjectApi`, as definitions | `ObjectApi` |
| `MC...` | model values and small sets for TLC | the module of that name |
| `...Proofs` | theorems (`ObjectApiProofs` has those of `Filters` too) | the module of that name |

In each module a variable is a field of the Go code (its comment names it), an
action is a stretch of code between two points where another goroutine can
see or change something: taking a lock, reading or writing shared data outside
a lock, sending. `pc` says where a goroutine is. Definitions that no action of
`Next` uses, such as `NotifyLastLinked`, are the mutants of section 8.

**SimService.** `src` and `em` are the locks of `OLinkSource` and of the
emitter. A request of a client takes `src` for reading (`Enter`), runs
(`Invoke`: the guarded increment of `examples/service-api.js`; `SetProperty`)
and gives it back (`Return`). `setProperty` is `Compare...`, `Store`, `Emit`,
`Emitted`, `Notify`; since a listener may assign, the open calls of a thread are
a stack, `frames`. A listener may also add a listener (`OnPropertyInside`), for
which it asks for the write lock of the emitter that called it. Linking is `Link`
(the registry), `Linked` (under the write lock), `CollectProperties`, `Marshal`
and `SendInit`: the source gives out the live map, INIT is made from it property
by property (`inits`) with no lock held, and written to the connection later, so
that changes are stored and announced in between. `overtaken` remembers the
properties of a client for which that happened after they had been copied.
`Notify` reaches every linked client if the source has any node, as
`remote.Node.NotifyPropertyChange` broadcasts by object id. A client is what it
was last sent, as a connection keeps its order.

**SimClient.** One property, counted by its changes, so that older and newer
are comparable. `Start` is the read lock all operations begin with;
`CallMethod` and `Close` take it again through `node()` and `connector()`. The
reader's `HandleChange`, `SetLocalProperty`, `Emit`, `Emitted` are one message:
sink mutex, write lock, store, listeners, release. Listeners may use the client
and call methods, when the constants say so. The server is the environment, with
what its own code allows: it links (`Linked`), makes INIT (`Marshal`) and sends it
(`SendInit`) in three steps, changes the property between any two, and answers an
invoke with a reply (`Invoked`) or, if the method failed, an error (`Refused`).
The client only logs an error (`HandleError`), so its caller waits on (phase
`refused`). `Lost` ends the connection with what is still on it. `letter` is the
value INIT was made with, `told` the value that was sent last, and `overtaken` says that
INIT was sent after a newer one.

**SimHost.** The manager's goroutine is `pc`: `ScriptRun` closes the engine it
has (`Close`, `Terminate`, the drain in which queued jobs run on the closing
goroutine, `Closed`), makes a new one (`NewEngine`) and queues the script
(`RunScript`). The loop of each engine runs its `queue` job by job; within a job
the script may create a service (`CreateService`, then `RegisterSource` under
the engine's mutex), open a channel, set a timer or quit. `Terminate` is one
action for whoever closes: the manager, or the job that called `$quit`, for
which its guard never holds.

**TaskManager.** A caller goes through `RunSource`, `WatchSource` (or their
`Doc` forms) one lock section at a time: `Has`, `RmTaskGet`, `RmTaskCancel`,
`RmTask`, `AddTaskHas`, `AddTask`, the look-up of `Run` and `Watch`, the run. A
watcher is its own goroutine (`ReplaceWatch`, `BeginWatch`, then `WatchRun` or
`EndWatch` as its select picks). `event` is what the hook last told of an item.

**ObjectApi.** `stack` is the rule functions that are running; a move of
`Grammar` is a token to match or a rule to call. A token that does not fit is
skipped, made up, or the rule is abandoned, as ANTLR's default strategy does;
`recovering` is its error recovery mode, in which nothing is reported again.
Then the walker (`Enter...`, `Exit...`) tells the listener, whose fields are `o`:
each handler is an action, with the assertions it logs in `wrong`. A nil
dereference ends the process (phase `panicked`), and so does the number of an enum
member that `strconv.Atoi` refuses: the grammar takes integers of any length, of
which only those in `IntRange` are read (`NumberIsRead`). Data files add modules to the same system (`ParseData`)
and `Validate` runs `System.Validate`. Texts are members of small sets; a token
that was made up is called what ANTLR calls it.

**Filters.** A filter maps a view of a schema (its kind, whether it is an array,
whether it is imported, whether the module at hand has a declaration of the same
name, whether an enum has members) to what its text names: a plain type, the
declaration in the own module (`local`) or the imported one (`import`), an array
of nothing (`hollow`), an empty text, or an error. How a text is spelt is left
out.

**Solution.** A runner goes through `read` (ReadSolutionDoc validates),
`validate`, `parse`, `templates`, `rules`, `write` for each target. Each access to
the disk is a step, since another runner and the user change it in between. A
runner in `Sourced` reads its document for every run, one in `Held` keeps it, and
with it what `Compute` found (`doc`). Writing is `CopyFile` or `RenderFile`, for which
`WriteFile` looks whether the file is there and `Compare` what is in it, before
`WriteToOutput` writes, as steps of their own: in between the user or the other
runner may make, change or delete the file. A write may fail and leave a truncated
file. A target that names no features gets `all` (`Wanted`). `Rules` has the
pure part: the walk
through required features, and the documents in the order the generator has. The
calls of `walkRequired` inside each other are one list of the names that are left
(`WalkName` takes the first and puts what it requires in front), so that the walk
is a function that calls itself once.

**Templates.** The registry's directory is missing, empty, without its file, or a
list; `reg` is what is on disk, `mem` what a process has read. `Load` and
`registry.Update` call each other, so `call` says what the load belongs to and
whether an outer load has already failed (`lost`). A version is a commit: the
directory of version v should be at commit v. `Exit` ends or kills a process
anywhere, `Start` makes the directory if it is missing, `Push`, `Release` and
`Publish` are the authors of repositories.

**Network.** `pc` is the process from `StartHTTP` to `StopNATS`; a step that fails
ends the process (`Dies`) and the requests under way. Requests are served by
goroutines (`handler`) from the moment the HTTP server listens, also before the
route is there. A body arrives in full (`SendBody`) or its client gives up; one
that leaves after the whole body was sent is still served. For each event a handler
makes its message (`EventFails`: a `null` in the array, which panics, or an event
that does not marshal; both are answered 500), fires the hook and publishes.
`Connection` is the code's: into the process when the server
listens, else over the port, where another NATS server (`broker`) may be. What NATS
does with a published message is not modelled.

## 3. What the runs check

Bounds are in the `.cfg` files; every one is a constant of the module.

| Run | Instance | Shows |
|---|---|---|
| `service_feed` | 2 clients, 1 property of 3 values, the script writes | `Converged`: with nothing going on, each linked client has the properties, whatever the order of INIT, change, link and unlink, but for those whose change overtook its INIT; `ImplementsFeed`: the service refines `PropertyFeed`; `Responsive`: what is begun ends (links and INIT against notifications; requests are in `service_shared`) |
| `service_shared` | script and a client both write, 3 values, listeners that assign or add listeners | `LocksAccounted`: every read lock, that of a request being served included, is held by a call; `StuckOnlyByNesting`: threads can all wait for each other in three ways only |
| `client_copy` | 4 operations, 4 changes, listeners that use the client | `UpToDate` and `NeverBackwards`, but for an overtaken INIT; `CallsSeeTheirEffects`; `HangsOnlyAsNamed`: the client hangs in five ways only, three by its locks and two by calls that get no reply |
| `tasks_alone` | 1 caller, 1 name, 2 items, watchers | `ListedAsTold`, `RunsItsOwn`, `RunsOverlapOnlyWhenOutlived`, `StopReachesBegun`; `ToldWatchEnds` |
| `host` | 2 scripts, 2 objects, 1 channel, 2 queued jobs | `ReplacedIsSilent`, `NewestServes`; `CloseReturns`, unless the job at hand wants the mutex or quits |
| `host_quit` | the same | *violated* `QuitTerminates`: `$quit` waits for its own loop |
| `api_model` | documents with a declaration of up to 13 contexts or two in 11, with one error or optional part, beside another module | `ModelIsTree`: what the walk builds is what the tree says; `PanicsOnlyOnBadInput`: a syntax error or a number out of range; `ClashOnlyByMixing`: two members of an enum share a number only if one of them is written with one; `ResolvedRight`: symbols are the declarations they name; `FiltersAgree`: the validation gives the filters only views for which their texts agree |
| `idl_check` | the same with 7 contexts | *violated* `CheckReportsErrors`: a document with a syntax error passes |
| `generate` | 2 runners (one holds its document), 2 targets, 2 template versions, 4 features with a cycle | `CurrentAfterRun`: after a run by itself the output is what inputs, templates and rules on disk ask for, whatever was there; `SecondRunWritesNothing`; `ExactlyNeeded`: the features that run are the least closed set, that of `all` for a target that names none; `GuardedFilesStay`, but for a run that looked before the file was there |
| `generate_dir` | 1 runner, an input directory with a module and a solution | *violated* `DirectoryIsParsed`: the module is left out |
| `templates` | 2 processes, 1 template with 2 commits, 2 calls | `VersionIsItsTag`: a version's directory is at its tag but for the named exceptions; `UpdateIsComplete`; `CallsEnd`, but for the named exceptions |
| `network` | 2 clients with 2 events, another NATS server, all options | `AnswerTellsAll`: what an answer says of the events fired and published; `NothingAfterStop`: once the HTTP server's stop has returned nothing is fired or published; `StopReturns` |

Each passing run also checks its module's `TypeOK` (for `service_shared`, that of
`service_feed`). `TypeOK` of `ObjectApi` includes the assertions the listener makes
of itself and only logs.

Why the bounds are enough. *Service:* a client is left behind by what happens
between its own link and one change, or between its link and another client's
unlink, so two clients. In `service_feed` a value can change and come back while
INIT is made; the third value of `service_shared` lets a listener's assignment
differ from both. *Client:* four operations allow listening, a call, and two more in
any order; four changes put INIT, a change that overtook it, a change of the method
and one of somebody else in one inbox. *Host:* the second script is the one that replaces;
each has a script, a function or a timer queued when it is closed. *Tasks:*
one item replaces another. *Documents:* 13 contexts hold an interface with
an operation that has a parameter and a return, or an enum with three members,
written with and without numbers; 11 hold a declaration beside one that refers to
it; with one error every rule is entered with each way of recovery. *Generation:* two targets with one
output, a feature cycle, a template whose new version lacks a source, one change
by the user (of an input, a template or an output), and two runs: the second either
follows the first or interleaves with it. *Templates:* an update and an install, or two of a kind, interleave,
while the template gets a second commit and tag; each network call may fail and
each process be killed at each step. *Network:* two events put a failure
before, between and after them; two clients have one request served while another
is refused. The proofs of section 5 remove these bounds for the properties they
cover.

Runs with `CHECK_DEADLOCK FALSE` are of systems that may stop: the bound on
operations, items, runs or scripts is used up, a document is done, or a lock is
waited for as a property of that run says.

## 4. Fairness

Go's scheduler runs a goroutine that can run, so steps inside a call are weakly
fair. Waiting for a lock that is taken and released again and again is strongly
fair, because an `RWMutex` queues: a writer that has asked shuts new readers out,
and the readers that waited go before the next writer. A `select` picks at
random among the cases that are ready, so a watcher (`EndWatch`) and the event
loop (`LoopStops`) are strongly fair towards the case that asks them to end. A
script's job and a method are assumed to end (`EndJob`, `Return`). Nothing makes
a client, a script's author or a file's writer act: starting an operation has
no fairness.

In `Templates` a process in a call goes on, whatever the network answers
(libraries return an answer or an error); nothing makes an author publish or a
process be killed. In `Network` the process and its handlers go on; a
client need not send the rest of a body, but one that has given up has closed its
connection, which ends the reading of it.

## 5. What is proved

TLAPS checks these for all values of the constants that the assumptions of the
modules (`ServiceAssumption`, `ClientAssumption`, `TaskAssumption`,
`HostAssumption`, `SolutionAssumption`, `TemplatesAssumption`,
`NetworkAssumption`, `NilAssumption`, `DocumentAssumption`) allow: distinct names,
sets of the right kind, natural bounds. `SolutionAssumption` also asks for at least one target, since a runner of
the model stands at one; for rules and symbols of the shape the documents have
(`IsRules`, `IsModule`); and for two template versions. `TemplatesAssumption` tells
the states of a directory (missing, empty, without its file) from registries.
`DocumentAssumption` gives the texts of a document their types, as the lexer and
`strconv` do, and says that no declaration is named as a type of the language:
these names are keywords (`ObjectApi.g4:55`), which no identifier is.
`NilAssumption` tells nil from every node. `Grammar` is no constant: the proofs
are about the rule functions as they are.

| Theorem | States |
|---|---|
| `SimServiceProofs!TypeCorrect`, `LocksCorrect` | `[]TypeOK`, `[]LocksAccounted` for any number of clients, writers and properties, with or without listeners that assign or add listeners |
| `SimServiceProofs!StuckCorrect` | `[]StuckOnlyByNesting` for the same |
| `SimServiceProofs!ConvergedCorrect`, `FeedCorrect` | `[]Converged`, and `Spec => ImplementsFeed` (the refinement of `PropertyFeed`), under `OneWriter`: one thread changes the service, its listeners do not |
| `SimClientProofs!TypeCorrect`, `UpToDateCorrect`, `BackwardsCorrect`, `EffectsCorrect`, `HangsCorrect` | all properties of the client, for any bounds and listeners |
| `TaskManagerProofs!TypeCorrect`, `ListedCorrect`, `LostCorrect` | `[]TypeOK`, `[]ListedWasAdded`, `[]LostToAnother` for any number of callers |
| `TaskManagerProofs!ToldCorrect`, `OwnCorrect`, `OverlapCorrect`, `StopCorrect` | `[]ListedAsTold`, `[]RunsItsOwn`, `[]RunsOverlapOnlyWhenOutlived`, `StopReachesBegun` under `Alone`: a single caller, whose watches are goroutines of their own |
| `SimHostProofs!TypeCorrect`, `SilentCorrect`, `ServesCorrect` | `[]TypeOK`, `[]ReplacedIsSilent`, `[]NewestServes` for any number of scripts |
| `ObjectApiProofs!Invariant` | `[]Inv`: parser, tree, listener and system keep the inductive invariant of `ObjectApiInvariants`, for documents of any length, with any number of syntax errors and data files |
| `ObjectApiProofs!TypeCorrect`, `PanicsCorrect`, `ModelCorrect`, `NumbersCorrect`, `ResolvedCorrect` | `[]TypeOK`, `[]PanicsOnlyOnBadInput`, `[]ModelIsTree`, `[]ClashOnlyByMixing`, `[]ResolvedRight` for the same |
| `ObjectApiProofs!FiltersCorrect` | `[]FiltersAgree` if no data file declares a name that is a type (`NoTypeDeclared`) |
| `ObjectApiProofs!NothingIsLeftOut`, `DeclarationIsRight`, `UnresolvedIsSeen` | the three parts of `FiltersAgree`, for every view a filter can be given, not only those of small documents |
| `SolutionProofs!TypeCorrect`, `GuardedCorrect` | `[]TypeOK`, `GuardedFilesStay` for any runners, targets, inputs and rules |
| `SolutionProofs!ComputeCorrect` | for any rules and wanted features: `ComputeFeatures` ends, and unless it fails enables the least closed set `Needed` |
| `SolutionProofs!CurrentCorrect`, `SecondRunCorrect` | `[]CurrentAfterRun`, `[]SecondRunWritesNothing` for the same |
| `SolutionProofs!ExactlyCorrect` | `[]ExactlyNeeded` under `DistinctNames`: no two features of one template version share a name |
| `TemplatesProofs!TypeCorrect`, `VersionCorrect`, `UpdateCorrect` | `[]TypeOK`, `[]VersionIsItsTag`, `[]UpdateIsComplete` for any number of processes, templates and versions |
| `NetworkProofs!TypeCorrect`, `AnswerCorrect`, `NothingAfterStopCorrect` | `[]TypeOK`, `[]AnswerTellsAll`, `NothingAfterStop` for any number of clients and events |

The hypotheses are what the properties need and no more. With two writers
`Converged` fails (a change may overtake another between `Store` and `Notify`),
and so does the refinement. With one writer a change can still overtake an INIT,
which is no hypothesis but the exception that `Converged` names (`overtaken`); with two callers of one name `LostCorrect` is what
remains of `RunsItsOwn`. `FeatureNamesMap` has one entry for each name, so that
of two features with one name only the last is told of; the runs use
documents that meet each hypothesis. `FiltersCorrect` needs its hypothesis: nothing
checks the names in a data file, and beside an interface called `bytes` the Qt
filters look a schema of the type `bytes` up first, so that one writes the
interface where another writes nothing.

The arguments:

- *Locks of the service.* `TypeOK` is not inductive alone: giving back a read
  lock must not make a count negative. `LocksAccounted` says how many read locks
  a thread holds in each phase and that its stack of calls is non-empty exactly
  within `setProperty`; the two together (`IInv`) are inductive.
- *Who waits for whom in the service.* `WritersAsk` adds that no step ends with
  a write lock held, and that a writer is where it asks. If every thread waits,
  someone waits for a writer that has asked (else a reader could go on), the
  writer waits for a reader to leave, and that reader must itself be waiting for
  a lock: going round the two locks leaves the nestings that the property names
  (`NestedLink`, `NestedListener`, and `ListenerInside` when the reader is the
  writer itself).
- *Convergence.* `InStep` is the strengthening: only the writer works, its stack
  is at most one deep, a stored value that is not yet published is on its way,
  a source with a linked client has a node, and of the properties that have not
  overtaken an INIT and whose published value is current, each INIT being made has
  either none or the current value (`LettersInStep`), and each client that was sent
  its INIT has the current value (`JoinedInStep`). When all is idle nothing is on
  its way, so everything is published and every client has what did not overtake
  its INIT.
- *Refinement.* Each action of `SimService` is matched with one of
  `PropertyFeed`: `Store` writes, `Marshal` copies one property into a letter,
  `Notify` publishes, `SendInit` joins with the letter, however old its values
  are, `Unlink` leaves, the rest changes nothing the mapping sees. `News` makes
  the match exact: what is on its way differs from what was last published.
- *The client.* `LocksHeld` gives each of the three locks as a function of where
  script and reader are. `Fed` orders what is in the inbox: a change is not older
  than what comes before it, and the last message that carries a value brings the
  copy to what the server told last (`told`). `Told` says that this is the
  remote's value, unless an INIT was overtaken or the connection is gone; with
  empty boxes the two are `UpToDate`. `NeverBackwards` follows since a change that
  is stored is never below the copy (`Rising`), `CallsSeeTheirEffects` since
  behind a reply nothing is missing that was told before it. `Awaited` says that a
  call that waits has its request, its reply or an error on the way, or has lost
  its connection: that and `LocksHeld`, which tells who can hold what a thread asks
  for, leave the five cases of `HangsOnlyAsNamed`.
- *Tasks.* A call that has registered its item owns it (`own`) and names it;
  an item is added once, by its owner. For `LostToAnother` a call at its look-up
  either finds the name listed or another call has deleted it and not added its
  own yet. With one caller the map and the hook are changed in the same step
  (`AsLeft`), and a watch that listens has its own item's cancel (`WatchesOwn`),
  which is why stopping the listed item reaches it.
- *Scripts.* What goes on goes on in the current engine (`ActiveLemma`): engines
  to come have done nothing, those before are terminated with nothing queued and
  no timer (`Quiet`, `ReplacedIsSilent`), because `Close` holds the mutex while
  the queue is drained (`Managed`). So `RegisterSource` is always of the highest
  engine so far, which is `NewestServes`.
- *Documents.* The six properties of `ObjectApi` speak of the end of a long walk,
  so none is inductive; `Inv` is, and has three parts. `ParserInv` is about the
  tree while it is made: the numbers of the contexts are the order of the walk, so
  each context is closed before the first one outside it begins (`Nested`,
  `StackIsOpen`); a rule calls only what the grammar lets it call, some of it only
  once (`CalledOnce`, with `Positions` for what a running rule has called so far);
  and with no error nothing a rule has passed is missing (`Whole`). That the
  grammar has these shapes is checked rule by rule (`RuleFits`), which is where a
  rule without its type would show. `ListenerInv` is about the walk: what has been
  left is the set `(1 .. seen) \ Open`, and each field of the listener is what the
  tree says of the context around the walker of the field's kind, restricted to that
  set, and nil if there is no such context (`FieldsFit`). This is what `TypeOK` and
  `ModelIsTree` lack: between two handlers a field holds part of a node, and only
  the tree tells which part. Two fields outlive their contexts (`return` and
  `schema`, until the context around takes them) and have their own clauses; the
  running number of an enum is how many of its members so far had none. Each Enter
  adds one number to `Open` and each Exit moves one to the set of what is done, so a
  handler disturbs the fields of one kind, and of the kind around it when it appends;
  `FitOnEnter` and `FitOnExit` keep the others. Since what is left is always
  the greatest number among its siblings, the lists grow at the end (`InOrder`,
  `Sorted`). With an empty `Open` this is `ModelIsTree`. A panic needs a part that
  is missing, which `Whole` and `Readable` exclude without an error, or a member
  whose number is not in `IntRange`. `SystemInv` says
  that a valid system is the validation of one whose names differ; that is enough
  for `ResolvedRight`, as a lookup in distinct names finds the one declaration.
  `ClashOnlyByMixing` needs besides that an enum whose values are all zero is
  renumbered, and that counts of earlier members differ.
- *Filters.* For the theorems about all views there is nothing to induct over:
  each is a case distinction over kinds, split by language. `FiltersCorrect` adds
  that a valid system gives only such views (`SeenViewsAreViews`).
- *Types and guarded files of a solution.* `Position` says where a runner is:
  its plan comes from the rules of some version (`Comes`), what is left of it
  belongs to the target at hand, and past validation every target is computed.
  A document for a guarded file is neither raw nor allowed to overwrite, so
  `WriteFile` skips it when the file is there, and a runner gets to `Compare` only
  for documents that may overwrite. What is left is the run that has looked while
  the file was not there, which the property excepts (`TooEarly`).
- *The walk through features.* A recursive function that calls itself once, on
  the next state of the walk, exists whether or not it ends (`TailRecursion`:
  take an end that lies in every set the steps cannot leave). It does end: each
  name that is looked up is marked first, and between two of these what is left
  gets shorter (`WalkNameLess`). What it has seen is within every closed set that
  has the wanted names, and is closed itself but for what is left (`Walked`).
- *What a run leaves.* `QInv` follows a runner that has been by itself. `Course`
  says that its plan is what disk and rules ask for of the targets so far
  (`Upto`), and that of the documents already dealt with the last one to
  overwrite a file has made it (`Made`). For a second run `Repeat` adds that each
  document that shares its file with no other finds it as it would make it
  (`Steady`): that is what `Made` becomes at the end of the first run, even if that
  one was forced (`UptoSimilar`), and writing a shared file does not disturb it.
  `UptoStep` and `UptoPrefix` say that the plan grows at its end.
- *Templates.* `VersionIsItsTag` is inductive with `Shape` (each directory and
  process has a place). A directory leaves its tag only when it is cloned or
  pulled, after which its process is about to check it out; the process leaves
  that point by checking out, by failing, or by being killed, and the last two
  are remembered. For `UpdateIsComplete` a fresh update is alone (`Alone`): from
  its load on the registry on disk is the published one, at its save what it has
  in memory is that with the latest versions.
- *Network.* `AnswerTellsAll` speaks of answered requests, so its strengthening
  says the same of those being served: `UpToEvent` (what came before the event at
  hand is fired and published), `SentFirst` (nothing is published before it is
  sent, so that a new request begins with nothing known of it) and `Served` (a
  request being served has no answer, and its client does not send another).
  For `NothingAfterStop` it is enough that a server that is stopped takes no
  request and has drained those it had (`StoppedQuiet`).

## 6. What only TLC checks

Liveness (`Responsive`, `ToldWatchEnds`, `CloseReturns`, `CallsEnd`,
`StopReturns`): the prover has no support for fairness and `ENABLED`. The runs that
end in a violation are counterexamples, for which there is nothing to prove. Every
invariant and every action property of a passing run is stated by a theorem of
section 5, some of them under the hypotheses given there. That the interesting
states are reached at all (a document repaired and walked, a valid system) is
shown by the runs, not by the theorems.

## 7. What is not modelled

- `EmitSignal`, removing methods and properties, and closing an
  `ObjectService` (no script function reaches it).
- The goja interpreter: a statement of a script on the loop and one in a method
  invoked by a connection interleave as the two goroutines do; the interpreter's
  own state is left out.
- The messages' bytes. A connection delivers in order and does not lose
  messages while it is up; the service sees one end as `Unlink`, the client as
  `Lost`.
- Go's own check of concurrent map use: INIT is marshalled from the property map
  without a lock, which the runtime may end the process for (`concurrent map
  iteration and map write`) if a property is stored meanwhile. The model has the
  outcome in which INIT mixes older and newer values.
- Disk accesses below those the code makes: `os.WriteFile` (truncate and write) is
  one step that may fail and leave a truncated file, and so is what `Compare`
  reads of a file.
- What NATS does with a message once `Publish` has returned.
- Requests that reach the services of a stopped or replaced script.
- The lexer (a table interpreted by a library); checksums, visitors and reserved
  words of the model.
- Filters for names, variables, namespaces and letter case: functions on texts.
- Meta imports, engine versions and layers of a solution, which are logged or
  passed to the templates; dry runs and statistics.
- Listing and searching templates, which change nothing; `Upgrade` and
  `UpgradeAll`, `HTTPServer.Restart` and `HandleMonitorRequest`, which nothing
  calls; starting a `NetworkManager` twice, which no command does.
- The event bus `pkg/evt`: only its own test imports it, so there is no use of it
  to model. The recent projects of `pkg/cfg`: a list of five names on which nothing
  depends (`AppendRecentEntry` drops the most recent entry of a full list,
  `api.go:37`, although the comment above it says that entry comes first).
- Parts of straight-line I/O and formatting: project creation, archives,
  command-line glue, logging, self update.

Known weaknesses of the code that the models have and that no run repeats:
two callers of one task name lose a task to each other (`LostCorrect` says to
whom); a stop that comes before the watcher has stored its cancel reaches
nothing; a loop of client calls hangs in its second read lock, and any call whose
method fails or whose connection ends waits for ever; a client that links while a
property changes can be sent an INIT older than the change it already has; a file
made between a run's look and its write is overwritten although its rule preserves
it; the guarded
increment of the example service passes its limit with two callers; with
`--no-serve` the simulation command fails before it runs a script, since the
monitor it enables wants the HTTP server; starting a NATS server again after a
failure does nothing; a feed ignores the status of the answers; a repeat count
below zero sends nothing.

Assumptions about libraries, each an external entry of the map: `RWMutex` as in
`RWLock`; ObjectLink's registry and node (`Link`, `Marshal`, `SendInit`, `Unlink`); the event
loop of goja_nodejs, which finishes its job when it is asked to stop, and whose
`Terminate` waits for that, runs what is queued on the calling goroutine and
refuses jobs and timers afterwards; fsnotify, which tells every watcher of a
file of a write to it; ANTLR's default error strategy; go-git, which makes a
directory before it clones into it and removes it when that fails.

## 8. Findings and mutants

Three runs end in a violation, each of a statement the repository makes of
itself: the end of the demo (`host_quit`), the check of documents (`idl_check`)
and the input directories of a solution (`generate_dir`). `PROJECT.json` quotes
the statements.

Every property of a passing run is also run against a mutant, a plausible slip
in the code: a lock that is kept, a check that is dropped, a notification that
reaches one client, a symbol looked up in the wrong module, a list computed once
too often or too seldom, a failure that is ignored. The mutants are the
definitions next to the actions they replace, with a telling name.

## 9. Plan

Done: the concurrent core, the way from documents to files, the registry and the
cache, the network services, and proofs of every safety and action property of
these. What is left:

1. *Hypotheses:* the theorems of `TaskManager` under `Alone` and of convergence
   under `OneWriter` say what holds for one writer; what remains with several is
   proved only for `LostToAnother`.
2. *Composition:* `SimHost` with `SimService`, for the requests that reach the
   services of a replaced script.
