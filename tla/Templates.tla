------------------------------ MODULE Templates ------------------------------
(***************************************************************************)
(* The template registry and the template cache (package repos): two       *)
(* directories on disk that the processes of the program share, without a  *)
(* lock.  The registry is a clone of a git repository with one file, which *)
(* lists the templates and their latest versions; a process keeps what it  *)
(* has read of it.  The cache has a directory for each template and        *)
(* version, a clone of the template's repository at the version's tag.     *)
(*                                                                         *)
(* A repository is the number of its commits, of which some are tagged;    *)
(* version v is commit v, and version 0 is `latest'.  Each call over the   *)
(* network may fail, and a process may be killed at any moment.            *)
(***************************************************************************)
EXTENDS Naturals, FiniteSetsExt

CONSTANTS
  Processes, \* processes of the program
  Names,     \* templates
  MaxCommit, \* bound: commits of a template
  MaxCalls,  \* bound: calls of all processes
  NoDir, Empty, NoFile, \* a registry that is not there, an empty directory,
             \* a repository without the registry's file
  Nil,       \* no registry in memory
  Absent, Cloning \* a cache directory that is not there, one being cloned

Versions == 0 .. MaxCommit
Ids == Names \X Versions

(* A registry: some templates, with their versions.                        *)
RegistryOf == UNION {[S -> Versions] : S \in SUBSET Names}

ASSUME TemplatesAssumption ==
  /\ Names # {}
  /\ MaxCommit \in Nat \ {0} /\ MaxCalls \in Nat
  /\ {Absent, Cloning} \cap Nat = {}
  /\ NoDir # Empty /\ NoDir # NoFile /\ Empty # NoFile
  /\ {NoDir, Empty, NoFile} \cap RegistryOf = {}

VARIABLES
  head, tagged, \* the remote repositories: commits, and which have a tag
  published,    \* the remote registry: templates with their latest versions
  reg,          \* the registry on disk
  mem,          \* registry.Registry of each process
  cache,        \* the commit each directory of the cache is at
  pc, call,     \* where each process is, in which call
  result,       \* how its last call ended, "none" before the first
  calls,
  unpinned,     \* history: directories pulled, or cloned, without a checkout since
  fresh         \* history: updates that began alone, and no other call and
                \* no change of a repository since

remote == <<head, tagged, published>>
local == <<reg, cache>>
history == <<unpinned, fresh>>
vars == <<remote, local, mem, pc, call, result, calls, history>>

Latest(n) == IF tagged[n] = {} THEN 0 ELSE Max(tagged[n])

NoCall == [kind |-> "none", id |-> <<CHOOSE n \in Names : TRUE, 0>>, next |-> "idle",
           lost |-> FALSE]

Init ==
  /\ head = [n \in Names |-> 1]
  /\ tagged \in [Names -> {{}, {1}}]
  /\ published \in {NoFile} \cup UNION {[S -> {0}] : S \in SUBSET Names}
  /\ reg = NoDir
  /\ mem = [p \in Processes |-> Nil]
  /\ cache = [id \in Ids |-> Absent]
  /\ pc = [p \in Processes |-> "off"]
  /\ call = [p \in Processes |-> NoCall]
  /\ result = [p \in Processes |-> "none"]
  /\ calls = 0
  /\ unpinned = {}
  /\ fresh = {}

Id(p) == call[p].id

Goto(p, from, to) == pc[p] = from /\ pc' = [pc EXCEPT ![p] = to]

Set(p, c) == call' = [call EXCEPT ![p] = c]

(* A command that is one call ends its process with it.                    *)
End(p, from, how) ==
  /\ Goto(p, from, IF call[p].kind = "get" THEN "idle" ELSE "off")
  /\ result' = [result EXCEPT ![p] = how]
  /\ call' = [call EXCEPT ![p] = NoCall]

Quiet(p) == pc[p] \in {"off", "idle"}

(* A process starts: its configuration makes the directory if it is not    *)
(* there.                                                                  *)
Start(p) ==
  /\ Goto(p, "off", "idle")
  /\ reg' = IF reg = NoDir THEN Empty ELSE reg
  /\ result' = [result EXCEPT ![p] = "none"]
  /\ UNCHANGED <<remote, cache, mem, call, calls, history>>

(* A process ends, or is killed in a call, which leaves the disk as it is. *)
Exit(p) ==
  /\ pc[p] # "off"
  /\ pc' = [pc EXCEPT ![p] = "off"]
  /\ mem' = [mem EXCEPT ![p] = Nil]
  /\ call' = [call EXCEPT ![p] = NoCall]
  /\ result' = [result EXCEPT ![p] = "none"]
  /\ unpinned' = IF pc[p] = "checkout" THEN unpinned \cup {Id(p)} ELSE unpinned
  /\ UNCHANGED <<remote, local, calls, fresh>>

(***************************************************************************)
(* The calls: GetOrInstallTemplateFromRepoID, which a process may make     *)
(* often, and those that are a command, and so a process, of their own:    *)
(* Registry.Update, Cache.Install (template import), Remove and Clean.     *)
(***************************************************************************)
Begin(p, c, start) ==
  /\ calls < MaxCalls
  /\ calls' = calls + 1
  /\ Goto(p, "idle", start)
  /\ Set(p, c)
  /\ result' = [result EXCEPT ![p] = "none"]
  /\ fresh' = IF c.kind = "update" /\ \A q \in Processes : Quiet(q)
              THEN {p} ELSE {}
  /\ UNCHANGED <<remote, local, mem, unpinned>>

(* FixRepoId asks the registry only for the latest version.                *)
GetOrInstall(p, id) ==
  Begin(p, [NoCall EXCEPT !.kind = "get", !.id = id, !.next = "fix"],
        IF id[2] = 0 THEN "ensure" ELSE "exists")

UpdateInPlace(p) ==
  result[p] = "none" /\ Begin(p, [NoCall EXCEPT !.kind = "update", !.next = "fetch"], "ensure")

Update(p) ==
  result[p] = "none" /\ Begin(p, [NoCall EXCEPT !.kind = "update", !.next = "fetch"], "reset")

Import(p, id) ==
  /\ result[p] = "none" /\ id[2] # 0
  /\ Begin(p, [NoCall EXCEPT !.kind = "import", !.id = id], "install")

Remove(id) ==
  /\ cache[id] # Absent
  /\ cache' = [cache EXCEPT ![id] = Absent]
  /\ unpinned' = unpinned \ {id}
  /\ UNCHANGED <<remote, reg, mem, pc, call, result, calls, fresh>>

Clean ==
  /\ cache' = [id \in Ids |-> Absent]
  /\ unpinned' = {}
  /\ UNCHANGED <<remote, reg, mem, pc, call, result, calls, fresh>>

(***************************************************************************)
(* registry.ensureRegistry: a missing directory is cloned, and whether     *)
(* that worked is only logged; a registry in memory is as good as any.     *)
(***************************************************************************)
EnsureDir(p) ==
  /\ Goto(p, "ensure", "load")
  /\ reg' \in IF reg = NoDir THEN {NoDir, published} ELSE {reg}
  /\ UNCHANGED <<remote, cache, mem, call, result, calls, history>>

LoadUnchecked(p) ==
  /\ Goto(p, "load", call[p].next)
  /\ mem' = [mem EXCEPT ![p] = IF mem[p] # Nil THEN mem[p] ELSE reg]
  /\ UNCHANGED <<remote, local, call, result, calls, history>>

(* registry.Load: without the file the registry is updated, but whatever   *)
(* comes of that, this Load and the calls it is in fail (`lost').          *)
Load(p) ==
  /\ pc[p] = "load"
  /\ IF mem[p] # Nil \/ reg \notin {NoDir, Empty, NoFile}
     THEN /\ Goto(p, "load", call[p].next)
          /\ mem' = [mem EXCEPT ![p] = IF mem[p] # Nil THEN mem[p] ELSE reg]
          /\ UNCHANGED call
     ELSE /\ Goto(p, "load", "reset")
          /\ Set(p, [call[p] EXCEPT !.lost = TRUE, !.next = "fetch"])
          /\ UNCHANGED mem
  /\ UNCHANGED <<remote, local, result, calls, history>>

(* registry.Reset: the directory is removed, then cloned, or pulled when   *)
(* another process has cloned it meanwhile.  One that another process has  *)
(* only made can neither be cloned into nor pulled.                        *)
RemoveDir(p) ==
  /\ Goto(p, "reset", "clone")
  /\ reg' = NoDir
  /\ UNCHANGED <<remote, cache, mem, call, result, calls, history>>

CloneRegistry(p) ==
  /\ reg # Empty
  /\ Goto(p, "clone", "ensure")
  /\ reg' \in IF reg = NoDir THEN {published} ELSE {published, reg}
  /\ UNCHANGED <<remote, cache, mem, call, result, calls, history>>

CloneFailureIgnored(p) ==
  /\ Goto(p, "clone", "ensure")
  /\ UNCHANGED <<remote, local, mem, call, result, calls, history>>

CloneRegistryFails(p) ==
  /\ End(p, "clone", "failed")
  /\ UNCHANGED <<remote, local, mem, calls, history>>

(* The rest of registry.Update: each entry is asked for its versions; the  *)
(* first that does not answer ends the process with a nil dereference.     *)
Fetch(p) ==
  /\ Goto(p, "fetch", "save")
  /\ mem' = [mem EXCEPT ![p] = [n \in DOMAIN mem[p] |-> Latest(n)]]
  /\ UNCHANGED <<remote, local, call, result, calls, history>>

FetchPanics(p) ==
  /\ pc[p] = "fetch" /\ DOMAIN mem[p] # {}
  /\ Exit(p)

AfterSave(p) == [mem EXCEPT ![p] = IF call[p].kind = "update" THEN Nil ELSE mem[p]]

SaveKeepsFile(p) ==
  /\ End(p, "save", IF call[p].lost THEN "failed" ELSE "ok")
  /\ mem' = AfterSave(p)
  /\ UNCHANGED <<remote, local, calls, history>>

Save(p) ==
  /\ End(p, "save", IF call[p].lost \/ reg = NoDir THEN "failed" ELSE "ok")
  /\ reg' = IF reg = NoDir THEN NoDir ELSE mem[p]
  /\ mem' = AfterSave(p)
  /\ UNCHANGED <<remote, cache, calls, history>>

(***************************************************************************)
(* GetOrInstallTemplateFromRepoID: `latest' becomes the latest version the *)
(* registry knows, if any; a directory that exists is taken as it is.      *)
(***************************************************************************)
FixRepoId(p) ==
  /\ pc[p] = "fix"
  /\ IF Id(p)[1] \in DOMAIN mem[p]
     THEN /\ Goto(p, "fix", "exists")
          /\ Set(p, [call[p] EXCEPT !.id = <<Id(p)[1], mem[p][Id(p)[1]]>>])
          /\ UNCHANGED result
     ELSE End(p, "fix", "failed")
  /\ UNCHANGED <<remote, local, mem, calls, history>>

Exists(p) ==
  /\ pc[p] = "exists"
  /\ IF cache[Id(p)] # Absent THEN End(p, "exists", "ok")
     ELSE /\ Goto(p, "exists", "ensure")
          /\ Set(p, [call[p] EXCEPT !.next = "get"])
          /\ UNCHANGED result
  /\ UNCHANGED <<remote, local, mem, calls, history>>

Get(p) ==
  /\ pc[p] = "get"
  /\ IF Id(p)[1] \in DOMAIN mem[p] THEN Goto(p, "get", "install") /\ UNCHANGED <<call, result>>
     ELSE End(p, "get", "failed")
  /\ UNCHANGED <<remote, local, mem, calls, history>>

(***************************************************************************)
(* cache.Install: CloneOrPull, which makes the directory first and then    *)
(* fills it, then CheckoutTag.  When that fails, because there is no such  *)
(* tag, the directory stays as it is.                                      *)
(***************************************************************************)
Clone(p) ==
  /\ Goto(p, "install", "cloning")
  /\ cache[Id(p)] = Absent
  /\ cache' = [cache EXCEPT ![Id(p)] = Cloning]
  /\ UNCHANGED <<remote, reg, mem, call, result, calls, history>>

Cloned(p) ==
  /\ Goto(p, "cloning", "checkout")
  /\ cache' = [cache EXCEPT ![Id(p)] = head[Id(p)[1]]]
  /\ UNCHANGED <<remote, reg, mem, call, result, calls, history>>

CloneFails(p) ==
  /\ End(p, "cloning", "failed")
  /\ cache' = [cache EXCEPT ![Id(p)] = Absent]
  /\ unpinned' = unpinned \ {Id(p)}
  /\ UNCHANGED <<remote, reg, mem, calls, fresh>>

Pull(p) ==
  /\ Goto(p, "install", "checkout")
  /\ cache[Id(p)] \notin {Absent, Cloning}
  /\ cache' = [cache EXCEPT ![Id(p)] = head[Id(p)[1]]]
  /\ UNCHANGED <<remote, reg, mem, call, result, calls, history>>

PullFails(p) ==
  /\ End(p, "install", "failed")
  /\ cache[Id(p)] # Absent
  /\ UNCHANGED <<remote, local, mem, calls, history>>

CheckoutTagNever(p) ==
  /\ End(p, "checkout", "ok")
  /\ UNCHANGED <<remote, local, mem, calls, history>>

CheckoutTag(p) ==
  /\ cache[Id(p)] \notin {Absent, Cloning} /\ Id(p)[2] \in tagged[Id(p)[1]]
  /\ End(p, "checkout", "ok")
  /\ cache' = [cache EXCEPT ![Id(p)] = Id(p)[2]]
  /\ unpinned' = unpinned \ {Id(p)}
  /\ UNCHANGED <<remote, reg, mem, calls, fresh>>

CheckoutTagFails(p) ==
  /\ End(p, "checkout", "failed")
  /\ unpinned' = unpinned \cup {Id(p)}
  /\ UNCHANGED <<remote, local, mem, calls, fresh>>

(***************************************************************************)
(* The remote repositories: authors push, tag a release, publish a list.   *)
(***************************************************************************)
Push(n) ==
  /\ head[n] < MaxCommit
  /\ head' = [head EXCEPT ![n] = @ + 1]
  /\ fresh' = {}
  /\ UNCHANGED <<tagged, published, local, mem, pc, call, result, calls, unpinned>>

Release(n) ==
  /\ head[n] \notin tagged[n]
  /\ tagged' = [tagged EXCEPT ![n] = @ \cup {head[n]}]
  /\ fresh' = {}
  /\ UNCHANGED <<head, published, local, mem, pc, call, result, calls, unpinned>>

Publish(S) ==
  /\ published' = [n \in S |-> Latest(n)]
  /\ published' # published
  /\ fresh' = {}
  /\ UNCHANGED <<head, tagged, local, mem, pc, call, result, calls, unpinned>>

-----------------------------------------------------------------------------
RegistryStep(p) ==
  \/ EnsureDir(p) \/ Load(p) \/ RemoveDir(p)
  \/ CloneRegistry(p) \/ CloneRegistryFails(p)
  \/ Fetch(p) \/ FetchPanics(p) \/ Save(p)

CacheStep(p) ==
  \/ FixRepoId(p) \/ Exists(p) \/ Get(p)
  \/ Clone(p) \/ Cloned(p) \/ CloneFails(p) \/ Pull(p) \/ PullFails(p)
  \/ CheckoutTag(p) \/ CheckoutTagFails(p)

CommandStep ==
  \/ \E p \in Processes : Start(p) \/ Exit(p) \/ Update(p)
  \/ \E p \in Processes, id \in Ids : GetOrInstall(p, id) \/ Import(p, id)
  \/ \E id \in Ids : Remove(id)
  \/ Clean

RemoteStep ==
  \/ \E n \in Names : Push(n) \/ Release(n)
  \/ \E S \in SUBSET Names : Publish(S)

Next ==
  \/ \E p \in Processes : RegistryStep(p) \/ CacheStep(p)
  \/ CommandStep
  \/ RemoteStep

Spec == Init /\ [][Next]_vars

(* A process that is in a call goes on, whatever the network answers.      *)
FairSpec == Spec /\ \A p \in Processes : WF_vars(RegistryStep(p) \/ CacheStep(p))

-----------------------------------------------------------------------------
(* Where the processes are, and what the disks hold.                       *)
TypeOK ==
  /\ head \in [Names -> 1 .. MaxCommit] /\ tagged \in [Names -> SUBSET (1 .. MaxCommit)]
  /\ published \in RegistryOf \cup {NoFile} /\ reg \in RegistryOf \cup {NoDir, Empty, NoFile}
  /\ mem \in [Processes -> RegistryOf \cup {Nil}]
  /\ cache \in [Ids -> (1 .. MaxCommit) \cup {Absent, Cloning}]
  /\ pc \in [Processes -> {"off", "idle", "ensure", "load", "reset", "clone", "fetch", "save",
                            "fix", "exists", "get", "install", "cloning", "checkout"}]
  /\ \A p \in Processes : Id(p) \in Ids
  /\ unpinned \subseteq Ids /\ fresh \subseteq Processes

(* The directory of a version holds the commit with that version's tag,    *)
(* unless an installation is just about to check it out, or has failed to  *)
(* or was killed before it could: also when two processes install, remove  *)
(* and clean the same directory.  The failed one is taken as installed.    *)
VersionIsItsTag ==
  \A id \in Ids :
    cache[id] \in {id[2], Absent, Cloning} \/ id \in unpinned
      \/ \E p \in Processes : pc[p] = "checkout" /\ Id(p) = id

(* An update that ran alone and reports success has the templates the      *)
(* remote registry lists, all of them with their latest tags, on disk.     *)
UpdateIsComplete ==
  \A p \in fresh : result[p] = "ok" =>
    published # NoFile /\ reg = [n \in DOMAIN published |-> Latest(n)]

(* A call ends, but for the load that updates the registry and the update  *)
(* that loads it, which call each other for ever when the remote registry  *)
(* has no file, or another process removes it each time.                   *)
CallsEnd ==
  \A p \in Processes :
    ~ Quiet(p) ~> \/ Quiet(p)
                  \/ published = NoFile
                  \/ \E q \in Processes \ {p} : ~ Quiet(q)
=============================================================================
