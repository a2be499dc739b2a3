------------------------------ MODULE Solution ------------------------------
(***************************************************************************)
(* Running a solution: a SolutionDoc is validated, and for each of its     *)
(* targets the inputs are parsed, the templates are parsed, the rules are  *)
(* read and the documents they ask for are written to the output.          *)
(*                                                                         *)
(* Runners work side by side (the TaskManager does not exclude them) and   *)
(* share nothing but the disk, which the user changes at any moment.  Each *)
(* look at an output, comparison with it and write of it is a step of its  *)
(* own; so is reading the inputs, the templates and the rules of a target. *)
(* A runner in Sourced reads the solution file for every run (RunSource,   *)
(* WatchSource); one in Held keeps one SolutionDoc (RunDoc, WatchDoc) with *)
(* what was computed.                                                      *)
(***************************************************************************)
EXTENDS Rules, FiniteSets

CONSTANTS
  Sourced, Held, \* the runners
  Targets,       \* sequence of [inputs, output, features, force]; an input is
                 \* a file or a directory
  Files,         \* the input files
  Kind,          \* of each file: "module", "solution", "script" or "text"
  Dirs,          \* of each directory: its files, in the order of their names
  Symbols,       \* of each file: the module it holds, as in Rules
  Template,      \* of each valid version: [sources, features]
  Nothing,       \* not computed yet
  MaxChanges,    \* bound: how often the user changes something
  MaxRuns        \* bound: how many runs are started

Runners == Sourced \cup Held
Versions == {"old", "new"}
Places == {"local", "cache"}
Nobody == "nobody"

ASSUME SolutionAssumption ==
  /\ Sourced \cap Held = {} /\ Nobody \notin Runners
  /\ Targets # <<>> /\ IsSequence(Targets)
  /\ \A t \in DOMAIN Targets : Targets[t].inputs \in Seq(Files \cup DOMAIN Dirs)
  /\ \A d \in DOMAIN Dirs : Dirs[d] \in Seq(Files)
  /\ \A f \in Files : IsModule(Symbols[f])
  /\ DOMAIN Template = Versions /\ \A v \in Versions : IsRules(Template[v].features)
  /\ Nothing \notin [dir : Places, inputs : Seq(Files)]
  /\ MaxChanges \in Nat /\ MaxRuns \in Nat

VARIABLES
  file,    \* the input files on disk: "absent", "broken" or a version
  tpl,     \* the template beside the solution and the one in the cache
  out,     \* the output files that exist, and what is in them
  doc,     \* SolutionTarget: template directory and expandedInputs, computed
  run,     \* where each runner is and what it has at hand
  settled, \* whose run ended well with nothing happening since it began
  changes, runs

disk == <<file, tpl, out>>
bounds == <<changes, runs>>
vars == <<disk, doc, run, settled, bounds>>

Edited == [by |-> "user"]
Torn == [by |-> "failed write"]
Copied(source, version) == [by |-> "copy", source |-> source, version |-> version]
Rendered(job, version, system) ==
  [by |-> "template", source |-> job.source, context |-> job.context, told |-> job.told,
   version |-> version, system |-> system]

NewDoc == [t \in DOMAIN Targets |-> Nothing]

Idle == [pc |-> "idle", target |-> 1, forced |-> FALSE, system |-> <<>>, version |-> "absent",
         plan |-> <<>>, next |-> 1, at |-> "check", written |-> {}, again |-> FALSE,
         quiet |-> FALSE, ok |-> FALSE]

Init ==
  /\ file \in [Files -> {"absent", "old"}]
  /\ tpl \in {[local |-> v, cache |-> "absent"] : v \in {"absent", "old"}}
  /\ out = <<>>
  /\ doc = [r \in Runners |-> NewDoc]
  /\ run = [r \in Runners |-> Idle]
  /\ settled = Nobody
  /\ changes = 0 /\ runs = 0

Active(r) == run[r].pc # "idle"

(* The others cannot rely on an unchanged disk any more.                   *)
Disturbed(rs, r) == [q \in Runners |-> IF q = r THEN rs[q] ELSE [rs[q] EXCEPT !.quiet = FALSE]]

(***************************************************************************)
(* Starting a run: RunSource and every run of WatchSource read the         *)
(* solution file again, with --force for all targets.                      *)
(***************************************************************************)
Begin(r, pc, forced) ==
  /\ ~Active(r) /\ runs < MaxRuns
  /\ runs' = runs + 1
  /\ run' = Disturbed([run EXCEPT ![r] =
       [Idle EXCEPT !.pc = pc, !.forced = forced, !.again = (settled = r),
                    !.quiet = \A q \in Runners : ~Active(q)]], r)
  /\ settled' = Nobody
  /\ UNCHANGED <<disk, changes>>

RunSourceCached(r, forced) ==
  /\ r \in Sourced
  /\ Begin(r, "read", forced)
  /\ UNCHANGED doc

RunSource(r, forced) ==
  /\ r \in Sourced
  /\ Begin(r, "read", forced)
  /\ doc' = [doc EXCEPT ![r] = NewDoc]

RunDoc(r) ==
  /\ r \in Held
  /\ Begin(r, "validate", FALSE)
  /\ UNCHANGED doc

Goto(r, pc, target) == [run EXCEPT ![r].pc = pc, ![r].target = target]

Fail(r) ==
  /\ run' = [run EXCEPT ![r].pc = "idle", ![r].at = "check", ![r].ok = FALSE]
  /\ UNCHANGED settled

Current(r) == Targets[run[r].target]
Place(r) == doc[r][run[r].target].dir
Forced(r) == run[r].forced \/ Current(r).force

(* helper.ExpandInputs: of a directory the files that the filter for       *)
(* module files does not match; anything else as it is, existing or not.   *)
ExpandInputs(inputs) ==
  FlattenSeq([i \in DOMAIN inputs |->
    IF inputs[i] \in DOMAIN Dirs
    THEN Among(Dirs[inputs[i]], {f \in Files : file[f] # "absent" /\ Kind[f] # "module"})
    ELSE <<inputs[i]>>])

(***************************************************************************)
(* SolutionTarget.compute, once per document: the template beside the      *)
(* solution or else one from the cache, installed when it is not there;    *)
(* then the list of inputs.  Installing may fail.                          *)
(***************************************************************************)
Uncomputed(r) == run[r].pc \in {"read", "validate"} /\ doc[r][run[r].target] = Nothing

Computed(r, dir) ==
  /\ doc' = [doc EXCEPT ![r][run[r].target] =
       [dir |-> dir, inputs |-> ExpandInputs(Current(r).inputs)]]
  /\ UNCHANGED <<run, settled>>

Compute(r) ==
  /\ Uncomputed(r)
  /\ tpl["local"] # "absent"
  /\ Computed(r, "local")
  /\ UNCHANGED <<disk, bounds>>

ComputeCached(r, version) ==
  /\ Uncomputed(r)
  /\ tpl["local"] = "absent"
  /\ tpl["cache"] \in {"absent", version}
  /\ tpl' = [tpl EXCEPT !["cache"] = version]
  /\ Computed(r, "cache")
  /\ UNCHANGED <<file, out, bounds>>

InstallFails(r) ==
  /\ Uncomputed(r)
  /\ tpl["local"] = "absent" /\ tpl["cache"] = "absent"
  /\ Fail(r)
  /\ UNCHANGED <<disk, doc, bounds>>

(***************************************************************************)
(* SolutionDoc.Validate: the template's directories and rules must exist   *)
(* and every input must pass CheckFile, which knows no text files.         *)
(* ReadSolutionDoc validates, and so does runSolution.                     *)
(***************************************************************************)
CheckFile(f) == Kind[f] # "text" /\ file[f] \in Versions

Valid(r) ==
  /\ tpl[Place(r)] # "absent"
  /\ \A f \in ToSet(doc[r][run[r].target].inputs) : CheckFile(f)

AfterValidateOffByOne(r) ==
  IF run[r].target <= Len(Targets) THEN Goto(r, run[r].pc, run[r].target + 1)
  ELSE Goto(r, IF run[r].pc = "read" THEN "validate" ELSE "parse", 1)

AfterValidate(r) ==
  IF run[r].target < Len(Targets) THEN Goto(r, run[r].pc, run[r].target + 1)
  ELSE Goto(r, IF run[r].pc = "read" THEN "validate" ELSE "parse", 1)

Validate(r) ==
  /\ run[r].pc \in {"read", "validate"} /\ ~Uncomputed(r)
  /\ IF Valid(r) THEN run' = AfterValidate(r) /\ UNCHANGED settled ELSE Fail(r)
  /\ UNCHANGED <<disk, doc, bounds>>

(* parseInputs: a solution in the list is parsed as if it were a module, a *)
(* script is skipped.                                                      *)
Parsed(inputs) == Among(inputs, {f \in Files : Kind[f] \in {"module", "solution"}})

ParseInputs(r) ==
  LET parsed == Parsed(doc[r][run[r].target].inputs)
  IN /\ run[r].pc = "parse"
     /\ IF \A f \in ToSet(parsed) : file[f] \in Versions
        THEN /\ run' = [run EXCEPT ![r].pc = "templates",
                          ![r].system = [i \in DOMAIN parsed |-> <<parsed[i], file[parsed[i]]>>]]
             /\ UNCHANGED settled
        ELSE Fail(r)
     /\ UNCHANGED <<disk, doc, bounds>>

(* gen.New parses the templates of the directory.                          *)
ParseTemplatesDir(r) ==
  /\ run[r].pc = "templates"
  /\ IF tpl[Place(r)] = "absent" THEN Fail(r)
     ELSE run' = [run EXCEPT ![r].pc = "rules", ![r].version = tpl[Place(r)]] /\ UNCHANGED settled
  /\ UNCHANGED <<disk, doc, bounds>>

(***************************************************************************)
(* ReadRulesDoc and the first half of ProcessRules: the rules are those on *)
(* disk by now; the documents of the enabled features are written next.    *)
(***************************************************************************)
Plan(t, forced, features, on, system) ==
  LET documents == Documents(features, on, [i \in DOMAIN system |-> Symbols[system[i][1]]])
      Entry(d) == [feature |-> d.feature, source |-> d.source, raw |-> d.raw, context |-> d.context,
                 path |-> <<Targets[t].output, d.target[1], d.target[2]>>,
                 overwrites |-> forced \/ d.raw \/ ~d.preserve,
                 told |-> FeatureNamesMap(features, on), for |-> t]
  IN [i \in DOMAIN documents |-> Entry(documents[i])]

ReadRulesDoc(r) ==
  IF tpl[Place(r)] = "absent" THEN Nothing ELSE Template[tpl[Place(r)]].features

(* Validate and gen.New: a target that names no features wants all.        *)
Wanted(t) == IF Targets[t].features = <<>> THEN <<All>> ELSE Targets[t].features

ProcessRules(r) ==
  LET features == ReadRulesDoc(r)
      computed == ComputeFeatures(features, Wanted(run[r].target))
  IN /\ run[r].pc = "rules"
     /\ IF features = Nothing THEN Fail(r)
        ELSE IF ~RulesValid(features) \/ computed.failed THEN Fail(r)
        ELSE /\ run' = [run EXCEPT ![r].pc = "write",
                  ![r].plan = @ \o Plan(run[r].target, Forced(r), features, computed.on, run[r].system)]
             /\ UNCHANGED settled
     /\ UNCHANGED <<disk, doc, bounds>>

Job(r) == run[r].plan[run[r].next]
Writing(r) == run[r].pc = "write" /\ run[r].next <= Len(run[r].plan)

With(path, content) ==
  [p \in DOMAIN out \cup {path} |-> IF p = path THEN content ELSE out[p]]

(* fsWriter.Write truncates the file before it writes.                     *)
Put(r, content) ==
  \/ /\ out' = With(Job(r).path, content)
     /\ run' = [run EXCEPT ![r].next = @ + 1, ![r].at = "check",
                           ![r].written = @ \cup {Job(r).path}]
     /\ UNCHANGED settled
  \/ out' = With(Job(r).path, Torn) /\ Fail(r)
  \/ UNCHANGED out /\ Fail(r)

(* CopyFile: from the templates as they are by now, over whatever is there.*)
CopyFile(r) ==
  /\ Writing(r) /\ Job(r).raw
  /\ IF tpl[Place(r)] # "absent" /\ Job(r).source \in Template[tpl[Place(r)]].sources
     THEN Put(r, Copied(Job(r).source, tpl[Place(r)]))
     ELSE UNCHANGED out /\ Fail(r)
  /\ UNCHANGED <<file, tpl, doc, bounds>>

Skip(r) ==
  /\ run' = [run EXCEPT ![r].next = @ + 1, ![r].at = "check"]
  /\ UNCHANGED <<out, settled>>

Exists(p) == p \in DOMAIN out

Content(r) == Rendered(Job(r), run[r].version, run[r].system)

(***************************************************************************)
(* WriteFile: forced, it writes.  Else it looks whether the file is there: *)
(* one that is not it writes, one that is it leaves alone if it is         *)
(* preserved or has this content, and overwrites if not.  Looking,         *)
(* comparing and writing are apart, and what was found is not looked at    *)
(* again.                                                                  *)
(***************************************************************************)
Found(r, at) ==
  /\ run' = [run EXCEPT ![r].at = at]
  /\ UNCHANGED <<out, settled>>

WriteFileComparesOnly(r) ==
  IF Forced(r) THEN Put(r, Content(r))
  ELSE Found(r, IF Exists(Job(r).path) THEN "compare" ELSE "create")

WriteFileAlways(r) ==
  IF Forced(r) THEN Put(r, Content(r))
  ELSE IF ~Exists(Job(r).path) THEN Found(r, "create")
  ELSE IF Job(r).overwrites THEN Found(r, "replace")
  ELSE Skip(r)

WriteFile(r) ==
  IF Forced(r) THEN Put(r, Content(r))
  ELSE IF ~Exists(Job(r).path) THEN Found(r, "create")
  ELSE IF Job(r).overwrites THEN Found(r, "compare")
  ELSE Skip(r)

RenderFile(r) ==
  /\ Writing(r) /\ ~Job(r).raw /\ run[r].at = "check"
  /\ IF Job(r).source \in Template[run[r].version].sources THEN WriteFile(r)
     ELSE UNCHANGED out /\ Fail(r)
  /\ UNCHANGED <<file, tpl, doc, bounds>>

(* CompareContentWithFile: a file that is gone by now is not the same, one *)
(* that cannot be read ends the run.                                       *)
Compare(r) ==
  /\ Writing(r) /\ run[r].at = "compare"
  /\ \/ IF Exists(Job(r).path) /\ out[Job(r).path] = Content(r)
        THEN Skip(r) ELSE Found(r, "replace")
     \/ Exists(Job(r).path) /\ UNCHANGED out /\ Fail(r)
  /\ UNCHANGED <<file, tpl, doc, bounds>>

WriteToOutput(r) ==
  /\ Writing(r) /\ run[r].at \in {"create", "replace"}
  /\ Put(r, Content(r))
  /\ UNCHANGED <<file, tpl, doc, bounds>>

(* The next target, or the end of the run.                                 *)
NextTarget(r) ==
  /\ run[r].pc = "write" /\ ~Writing(r)
  /\ IF run[r].target < Len(Targets)
     THEN run' = Goto(r, "parse", run[r].target + 1) /\ UNCHANGED settled
     ELSE /\ run' = [run EXCEPT ![r].pc = "idle", ![r].ok = TRUE]
          /\ settled' = IF run[r].quiet THEN r ELSE Nobody
  /\ UNCHANGED <<disk, doc, bounds>>

(***************************************************************************)
(* The user: writes and deletes inputs, outputs and templates.             *)
(***************************************************************************)
Change ==
  /\ changes < MaxChanges
  /\ changes' = changes + 1
  /\ run' = [r \in Runners |-> [run[r] EXCEPT !.quiet = FALSE]]
  /\ settled' = Nobody
  /\ UNCHANGED <<doc, runs>>

ChangeInput(f, v) == Change /\ file[f] # v /\ file' = [file EXCEPT ![f] = v] /\ UNCHANGED <<tpl, out>>

ChangeTemplate(p, v) == Change /\ tpl[p] # v /\ tpl' = [tpl EXCEPT ![p] = v] /\ UNCHANGED <<file, out>>

Outputs == DOMAIN out \cup {Job(r).path : r \in {q \in Runners : Writing(q)}}

EditOutput(p) == Change /\ out' = With(p, Edited) /\ UNCHANGED <<file, tpl>>

DeleteOutput(p) == Change /\ Exists(p) /\ out' = Restrict(out, DOMAIN out \ {p}) /\ UNCHANGED <<file, tpl>>

RunnerStep(r) ==
  \/ Compute(r)
  \/ \E v \in Versions : ComputeCached(r, v)
  \/ InstallFails(r)
  \/ Validate(r)
  \/ ParseInputs(r)
  \/ ParseTemplatesDir(r)
  \/ ProcessRules(r)
  \/ CopyFile(r)
  \/ RenderFile(r)
  \/ Compare(r)
  \/ WriteToOutput(r)
  \/ NextTarget(r)

Next ==
  \/ \E r \in Runners, forced \in BOOLEAN : RunSource(r, forced)
  \/ \E r \in Runners : RunDoc(r) \/ RunnerStep(r)
  \/ \E f \in Files, v \in {"absent", "broken", "new"} : ChangeInput(f, v)
  \/ \E p \in Places, v \in {"absent", "new"} : ChangeTemplate(p, v)
  \/ \E p \in Outputs : EditOutput(p) \/ DeleteOutput(p)

Spec == Init /\ [][Next]_vars

-----------------------------------------------------------------------------
(* Types: files and templates have a version, a computed target knows its  *)
(* template and its inputs, a runner its place in the target and the plan. *)
TypeOK ==
  /\ file \in [Files -> {"absent", "broken"} \cup Versions]
  /\ tpl \in [Places -> {"absent"} \cup Versions]
  /\ \A r \in Runners, t \in DOMAIN Targets :
       doc[r][t] # Nothing => doc[r][t].dir \in Places /\ ToSet(doc[r][t].inputs) \subseteq Files
  /\ \A r \in Runners :
       /\ run[r].pc \in {"idle", "read", "validate", "parse", "templates", "rules", "write"}
       /\ run[r].target \in DOMAIN Targets
       /\ run[r].next \in 1 .. Len(run[r].plan) + 1
       /\ run[r].at \in {"check", "compare", "create", "replace"}
       /\ run[r].at # "check" => Writing(r) /\ ~Job(r).raw
       /\ run[r].pc \notin {"idle", "read", "validate"} =>
            \A t \in DOMAIN Targets : doc[r][t] # Nothing
  /\ settled \in Runners \cup {Nobody}
  /\ changes \in 0 .. MaxChanges /\ runs \in 0 .. MaxRuns

(***************************************************************************)
(* What a run should do, from the disk alone: the features that are wanted *)
(* or needed by one that is, as the least set of names with the wanted     *)
(* ones that is closed under `requires'.  Of features with one name all    *)
(* count when the name is wanted, and else the first.                      *)
(***************************************************************************)
Needed(features, wanted) ==
  LET names == {features[i].name : i \in DOMAIN features}
      closed == {N \in SUBSET names :
                   /\ ToSet(wanted) \subseteq N
                   /\ \A i \in DOMAIN features :
                        LET name == features[i].name
                        IN name \in ToSet(wanted) \/ (name \in N /\ i = FeatureByName(features, name)) =>
                             ToSet(features[i].requires) \subseteq N}
  IN IF All \in ToSet(wanted) THEN DOMAIN features
     ELSE {FeatureByName(features, n) : n \in {m \in names : \A N \in closed : m \in N}}

(* A runner that reads its solution looks for template and inputs itself;  *)
(* one that holds a document has what was computed the first time.         *)
Target(r, t) ==
  IF r \in Held THEN doc[r][t]
  ELSE [dir |-> IF tpl["local"] # "absent" THEN "local" ELSE "cache",
        inputs |-> ExpandInputs(Targets[t].inputs)]

System(r, t) ==
  LET parsed == Parsed(Target(r, t).inputs)
  IN [i \in DOMAIN parsed |-> <<parsed[i], file[parsed[i]]>>]

NeededPlan(r, t) ==
  LET features == Template[tpl[Target(r, t).dir]].features
  IN Plan(t, run[r].forced \/ Targets[t].force, features, Needed(features, Wanted(t)), System(r, t))

(* A run that has ended well, and nothing else has happened since it began.*)
AtRest(r) == ~Active(r) /\ run[r].ok /\ run[r].quiet

(***************************************************************************)
(* After a run by itself every file that its rules ask for is there, and   *)
(* is what the last document for it that may overwrite makes of the inputs *)
(* and templates on disk, whatever was there before: files of older runs,  *)
(* of runs that failed half way, files the user edited, torn files.        *)
(***************************************************************************)
CurrentAfterRun ==
  \A r \in Runners : AtRest(r) =>
    LET plan == FlattenSeq([t \in DOMAIN Targets |-> NeededPlan(r, t)])
        last(p) == {i \in DOMAIN plan : plan[i].path = p /\ plan[i].overwrites /\
                      \A j \in DOMAIN plan : j > i /\ plan[j].path = p => ~plan[j].overwrites}
    IN \A k \in DOMAIN plan :
         /\ Exists(plan[k].path)
         /\ \A i \in last(plan[k].path) :
              LET place == tpl[Target(r, plan[i].for).dir]
              IN out[plan[i].path] =
                   IF plan[i].raw THEN Copied(plan[i].source, place)
                   ELSE Rendered(plan[i], place, System(r, plan[i].for))

(* Run again with nothing changed and no force, a solution writes only     *)
(* what it copies, and files that two documents write in turn.             *)
SecondRunWritesNothing ==
  \A r \in Runners :
    AtRest(r) /\ run[r].again /\ ~run[r].forced /\ (\A t \in DOMAIN Targets : ~Targets[t].force) =>
      \A p \in run[r].written : \E i \in DOMAIN run[r].plan :
        LET job == run[r].plan[i]
        IN job.path = p /\ (job.raw \/ \E j \in DOMAIN run[r].plan :
                              j # i /\ run[r].plan[j].path = p)

(* The features that are processed, and that the templates are told of,    *)
(* are those that are wanted or needed by a wanted one, cycles or not.     *)
ExactlyNeeded ==
  \A r \in Runners : run[r].pc = "write" /\ run[r].quiet =>
    LET t == run[r].target
        mine == {i \in DOMAIN run[r].plan : run[r].plan[i].for = t}
        needed == NeededPlan(r, t)
    IN /\ {run[r].plan[i].feature : i \in mine} = {needed[i].feature : i \in DOMAIN needed}
       /\ \A i \in mine : run[r].plan[i].told =
            {Template[tpl[Place(r)]].features[k].name :
               k \in Needed(Template[tpl[Place(r)]].features, Wanted(t))}

(* Documents that may write to a path, by the rules of any version.        *)
Guarded(p) ==
  \A v \in Versions, t \in DOMAIN Targets :
    \A f \in ToSet(Template[v].features) : \A s \in ToSet(f.scopes) : \A d \in ToSet(s.documents) :
      Targets[t].output = p[1] /\ (IF d.target = "" THEN d.source ELSE d.target) = p[2] =>
        d.preserve /\ ~d.raw /\ ~Targets[t].force

(* A run that has looked for the file before it was there.                 *)
TooEarly(r, p) == Writing(r) /\ Job(r).path = p /\ run[r].at = "create"

(* A file that all rules preserve never changes once it is there, except   *)
(* by its user, by a run with --force or by a run that looked before the   *)
(* file was there and has not written since, whatever runs side by side.   *)
GuardedFilesStay ==
  [][\A p \in DOMAIN out : Guarded(p) /\ changes' = changes /\
       (\A r \in Runners : ~TooEarly(r, p) /\ (run[r].pc = "write" => ~run[r].forced)) =>
         p \in DOMAIN out' /\ out'[p] = out[p]]_vars

(* pkg/sol/parse.go: the files in an input directory are parsed.           *)
DirectoryIsParsed ==
  \A r \in Sourced : AtRest(r) =>
    \A d \in ToSet(Targets[Len(Targets)].inputs) \cap DOMAIN Dirs : \A f \in ToSet(Dirs[d]) :
      Kind[f] = "module" /\ file[f] # "absent" =>
        \E i \in DOMAIN run[r].system : run[r].system[i][1] = f
=============================================================================
