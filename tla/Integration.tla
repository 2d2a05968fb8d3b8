----------------------------- MODULE Integration -----------------------------
(***************************************************************************)
(* The decision task of a change to this repository, in staging: it reads   *)
(* the tasks of a Firefox CI decision task and makes tasks that run them    *)
(* again in staging - one kind that fetches the artifacts they need, one    *)
(* that is the tests themselves - and leaves out the tests that the change  *)
(* cannot break.                                                            *)
(*   src/taskcluster/fxci_config_taskgraph/util/integration.py              *)
(*   src/taskcluster/fxci_config_taskgraph/transforms/*.py, optimizations.py *)
(* Firefox CI's index, queue and task graphs are external, as is taskgraph, *)
(* which loads the kinds one after the other, each in some worker process:  *)
(* the environment and the cache of integration.py are of a process.        *)
(***************************************************************************)
EXTENDS Integers, SequencesExt

CONSTANTS
  Tasks,        \* [task id -> task]: every task of Firefox CI
  Graphs,       \* [decision task -> sequence of its tasks]: task-graph.json
  Ancestors,    \* [task id -> sequence of the tasks upstream of it]
  Expired,      \* tasks the queue has no definition of any more
  RootUrls,     \* where the decision task may run: {"staging", "firefoxci"}
  Selects,      \* include-attrs: the kinds of task to run again
  Excludes,     \* exclude-attrs: the platforms not to run
  IncludeDeps,  \* [kind -> the names that its include-deps match]
  MirrorPublic, \* the names that mirror-public-fetches match
  LevelOne,     \* [provisioner -> provisioner], "3" replaced with "1"
  MaxMoves,     \* bound: new decision tasks while this one runs
  MaxFaults     \* bound: requests to Firefox CI that fail

NoTask == ""

Fetch == [task : DOMAIN Tasks, artifact : STRING, public : BOOLEAN]
ASSUME TasksAssumption ==
  \A t \in DOMAIN Tasks :
    Tasks[t].image \in DOMAIN Tasks \cup {NoTask} /\ Tasks[t].fetches \in Seq(Fetch)
ASSUME GraphsAssumption ==
  NoTask \notin DOMAIN Graphs /\ \A g \in DOMAIN Graphs : Graphs[g] \in Seq(DOMAIN Tasks)

\* What is run again has what it needs fetched: kinds/*/kind.yml.
ASSUME KindsAssumption ==
  /\ DOMAIN IncludeDeps = {"firefoxci-artifact", "integration-test"}
  /\ IncludeDeps["integration-test"] \subseteq IncludeDeps["firefoxci-artifact"]

VARIABLES
  deployment, \* TASKCLUSTER_ROOT_URL of the decision task
  root,      \* that of the worker that loads the kind
  origRoot,  \* the one get_ancestors is to restore
  latest,    \* the decision task that the index path leads to
  graph,     \* the decision task whose graph the worker has cached, or NoTask
  sources,   \* [kind -> the decision task whose graph it was made of]
  kind,      \* the kind being loaded, or what the decision task does then
  step,      \* what find_tasks is doing for it
  scan,      \* the tasks of the graph it has still to look at
  found,     \* the tasks it has found, in order
  upstream,  \* those found upstream of them
  artifacts, \* [task id -> sequence of artifacts]: the firefoxci-artifact tasks
  tests,     \* the integration-test tasks, in order
  kept,      \* the tests that are not optimized away
  moves, faults

graphVars == <<deployment, root, origRoot, latest, graph, sources, kind, step, scan, found,
               upstream, artifacts, tests, kept, moves, faults>>

-----------------------------------------------------------------------------
(* The firefoxci-artifact kind.                                            *)

Public(fetch) == fetch.public
Mirrored(t, f) == ~Public(f) \/ Tasks[t].name \in MirrorPublic

WithArtifact(made, id, artifact) ==
  [i \in DOMAIN made \cup {id} |->
     IF i # id THEN made[i]
     ELSE IF i \in DOMAIN made THEN Append(made[i], artifact) ELSE <<artifact>>]

\* The image of a task, unless something of that task is fetched already, and
\* its private fetches; its public ones if they are to be mirrored.
AddArtifactsOf(made, t) ==
  LET image == Tasks[t].image
  IN FoldLeft(LAMBDA m, f : IF Mirrored(t, f) THEN WithArtifact(m, f.task, f.artifact) ELSE m,
              IF image = NoTask \/ image \in DOMAIN made THEN made
              ELSE WithArtifact(made, image, "image.tar.zst"),
              Tasks[t].fetches)
ArtifactTasks(ids) == FoldLeft(AddArtifactsOf, <<>>, ids)

-----------------------------------------------------------------------------
(* The integration-test kind. The label of a task is a record of what it is. *)

Test(name)    == [test |-> name]
Artifact(id)  == [artifact |-> id]
FirefoxCI(id) == [firefoxci |-> id]     \* not a label: a task that is not here
Apply         == [apply |-> "staging"]

ImageDependency(t)   == {Artifact(i) : i \in {Tasks[t].image} \ {NoTask}}
Private(t) == {f \in ToSet(Tasks[t].fetches) : ~Public(f)}
OwnDependencies(t) == {Apply} \cup ImageDependency(t) \cup {Artifact(f.task) : f \in Private(t)}

\* Dependencies that are run again too, and those of which artifacts are here.
MirroredDeps(t, ids) ==
  {d \in Tasks[t].dependencies :
     d \in ToSet(ids) /\ Tasks[d].name \in IncludeDeps["integration-test"]}
ArtifactDeps(t) ==
  {d \in Tasks[t].dependencies : d \in DOMAIN artifacts /\ Artifact(d) \notin OwnDependencies(t)}

\* Where a fetch is redirected to. Once private fetches have been, MOZ_FETCHES is
\* no longer a string and load_fetches finds nothing in it.
Redirected(t, f, ids) ==
  CASE ~Public(f) -> Artifact(f.task)
    [] Public(f) /\ Private(t) = {} /\ f.task \in ArtifactDeps(t) -> Artifact(f.task)
    [] Public(f) /\ Private(t) = {} /\ f.task \in MirroredDeps(t, ids) \ ArtifactDeps(t) ->
         Test(Tasks[f.task].name)
    [] OTHER -> FirefoxCI(f.task)

\* Where the transform takes it to be: the "fetch-..." a private one is renamed
\* to is the name of no task.
InStaging(t, f, ids) == Public(f) /\ "firefoxci" \notin DOMAIN Redirected(t, f, ids)
\* Mutant: fetches of both clusters are let through.
NeverMixed(t, ids) == FALSE

Mixed(t, ids) ==
  \E f, g \in ToSet(Tasks[t].fetches) : InStaging(t, f, ids) /\ ~InStaging(t, g, ids)

Description(t, ids) ==
  [name         |-> Tasks[t].name,
   queue        |-> <<Tasks[t].workerType, LevelOne[Tasks[t].provisioner]>>,
   dependencies |-> OwnDependencies(t)
                      \cup {Test(Tasks[d].name) : d \in MirroredDeps(t, ids)}
                      \cup {Artifact(d) : d \in ArtifactDeps(t)},
   fetches      |-> {[artifact |-> f.artifact, public |-> f.public, from |-> f.task,
                      task |-> Redirected(t, f, ids)] : f \in ToSet(Tasks[t].fetches)},
   \* patch_root_url, if a fetch is taken to be in production
   patched      |-> \E f \in ToSet(Tasks[t].fetches) : ~InStaging(t, f, ids)]

\* Of tasks with one name only the first is made.
FirstOfItsName(ids) ==
  FoldLeft(LAMBDA made, t : IF \E i \in DOMAIN made : Tasks[made[i]].name = Tasks[t].name
                              THEN made ELSE Append(made, t),
           <<>>, ids)

-----------------------------------------------------------------------------
(* find_tasks, for one kind after the other.                               *)

GraphInit ==
  /\ deployment \in RootUrls /\ root = deployment /\ origRoot = root
  /\ latest \in DOMAIN Graphs
  /\ graph = NoTask /\ sources = <<>>
  /\ kind = "firefoxci-artifact" /\ step = "start"
  /\ scan = <<>> /\ found = <<>> /\ upstream = <<>>
  /\ artifacts = <<>> /\ tests = <<>> /\ kept = {}
  /\ moves = 0 /\ faults = 0

NextKind == IF kind = "firefoxci-artifact" THEN "integration-test" ELSE "optimize"

\* Outside staging the transforms yield nothing.
SkipKind ==
  /\ step = "start" /\ kind \in DOMAIN IncludeDeps /\ root # "staging"
  /\ kind' = NextKind
  /\ UNCHANGED <<deployment, root, origRoot, latest, graph, sources, step, scan, found,
                 upstream, artifacts, tests, kept, moves, faults>>

\* The kind is loaded in another worker than the one before it: a fork of the
\* decision task's own process, which has fetched nothing.
AnotherWorker ==
  /\ step = "start" /\ kind \in DOMAIN IncludeDeps
  /\ root' = deployment /\ graph' = NoTask
  /\ UNCHANGED <<deployment, origRoot, latest, sources, kind, step, scan, found,
                 upstream, artifacts, tests, kept, moves, faults>>

\* _fetch_task_graph, which is cached in the worker.
Fetched == IF graph = NoTask THEN latest ELSE graph

StartKind ==
  /\ step = "start" /\ kind \in DOMAIN IncludeDeps /\ root = "staging"
  /\ graph' = Fetched
  /\ sources' = [k \in DOMAIN sources \cup {kind} |-> IF k = kind THEN Fetched ELSE sources[k]]
  /\ scan' = Graphs[Fetched]
  /\ step' = "scan" /\ found' = <<>> /\ upstream' = <<>>
  /\ UNCHANGED <<deployment, root, origRoot, latest, kind, artifacts, tests, kept,
                 moves, faults>>

\* Neither a task for hardware nor one that needs an administrator, and of the
\* attributes asked for.
Wanted(t) ==
  /\ Tasks[t].provisioner # "releng-hardware"
  /\ ~Tasks[t].admin
  /\ Tasks[t].kind \in Selects
  /\ Tasks[t].platform \notin Excludes

ASSUME AncestorsAssumption ==
  \A g \in DOMAIN Graphs : \A t \in ToSet(Graphs[g]) :
    Wanted(t) => t \in DOMAIN Ancestors /\ Ancestors[t] \in Seq(DOMAIN Tasks)

PassOver ==
  /\ step = "scan" /\ scan # <<>> /\ ~Wanted(Head(scan))
  /\ scan' = Tail(scan)
  /\ UNCHANGED <<deployment, root, origRoot, latest, graph, sources, kind, step, found,
                 upstream, artifacts, tests, kept, moves, faults>>

\* With include-deps get_ancestors is called, which makes the process one of
\* Firefox CI for as long as it asks.
Find ==
  /\ step = "scan" /\ scan # <<>> /\ Wanted(Head(scan))
  /\ scan' = Tail(scan)
  /\ found' = Append(found, Head(scan))
  /\ IF IncludeDeps[kind] = {} THEN UNCHANGED <<root, origRoot, step>>
     ELSE step' = "ask" /\ origRoot' = root /\ root' = "firefoxci"
  /\ UNCHANGED <<deployment, latest, graph, sources, kind, upstream, artifacts, tests,
                 kept, moves, faults>>

Matching(before, ids) ==
  FoldLeft(LAMBDA all, t : IF Tasks[t].name \in IncludeDeps[kind] THEN Append(all, t) ELSE all,
           before, ids)

\* Mutant: the worker is left one of Firefox CI.
AnswerKeepsRoot ==
  /\ step = "ask"
  /\ upstream' = Matching(upstream, Ancestors[Last(found)])
  /\ step' = "scan"
  /\ UNCHANGED <<deployment, root, origRoot, latest, graph, sources, kind, scan, found,
                 artifacts, tests, kept, moves, faults>>

Answer ==
  /\ step = "ask"
  /\ upstream' = Matching(upstream, Ancestors[Last(found)])
  /\ root' = origRoot
  /\ step' = "scan"
  /\ UNCHANGED <<deployment, origRoot, latest, graph, sources, kind, scan, found,
                 artifacts, tests, kept, moves, faults>>

\* A request to the index, the queue or for the artifact fails, and with it the
\* decision task; get_ancestors restores the root URL in any case.
RequestFails ==
  /\ faults < MaxFaults
  /\ \/ step = "start" /\ kind \in DOMAIN IncludeDeps /\ root = "staging"
        /\ graph = NoTask /\ UNCHANGED root
     \/ step = "ask" /\ root' = origRoot
     \/ step = "scan" /\ scan = <<>> /\ upstream # <<>> /\ UNCHANGED root
  /\ faults' = faults + 1
  /\ kind' = "failed" /\ step' = "start"
  /\ UNCHANGED <<deployment, origRoot, latest, graph, sources, scan, found, upstream,
                 artifacts, tests, kept, moves>>

\* The found tasks and, after them, those upstream of which there still is a
\* definition.
Found ==
  FoldLeft(LAMBDA ids, t : IF t \in ToSet(ids) \cup Expired THEN ids ELSE Append(ids, t),
           found, upstream)

EndScan(k) ==
  /\ step = "scan" /\ scan = <<>> /\ kind = k
  /\ step' = "start"
  /\ UNCHANGED <<deployment, root, origRoot, latest, graph, sources, scan, found,
                 upstream, kept, moves, faults>>

MakeArtifactTasks ==
  /\ EndScan("firefoxci-artifact")
  /\ artifacts' = ArtifactTasks(Found)
  /\ kind' = NextKind
  /\ UNCHANGED tests

Unrunnable == \E t \in ToSet(FirstOfItsName(Found)) : Mixed(t, Found)

MakeTests ==
  /\ EndScan("integration-test")
  /\ ~Unrunnable
  /\ tests' = [i \in DOMAIN FirstOfItsName(Found) |-> Description(FirstOfItsName(Found)[i], Found)]
  /\ kind' = NextKind
  /\ UNCHANGED artifacts

\* A test with fetches of both clusters raises, and ends the decision task.
RefuseTests ==
  /\ EndScan("integration-test")
  /\ Unrunnable
  /\ kind' = "failed"
  /\ UNCHANGED <<artifacts, tests>>

\* IntegrationTestStrategy: a test is kept if the worker pool it runs in is
\* modified, or else if the transforms or the kinds are.
Optimize(modified, filesChanged) ==
  /\ kind = "optimize"
  /\ kept' = {test \in ToSet(tests) : filesChanged \/ test.queue \in modified}
  /\ kind' = IF filesChanged THEN "done for files" ELSE "done"
  /\ UNCHANGED <<deployment, root, origRoot, latest, graph, sources, step, scan, found,
                 upstream, artifacts, tests, moves, faults>>

\* The push of a new revision to Firefox CI: the index path leads to its
\* decision task.
IndexMoves ==
  /\ moves < MaxMoves /\ kind \in DOMAIN IncludeDeps
  /\ \E d \in DOMAIN Graphs \ {latest} : latest' = d
  /\ moves' = moves + 1
  /\ UNCHANGED <<deployment, root, origRoot, graph, sources, kind, step, scan, found,
                 upstream, artifacts, tests, kept, faults>>

LoadKinds ==
  \/ AnotherWorker \/ SkipKind \/ StartKind \/ PassOver \/ Find \/ Answer \/ RequestFails
  \/ MakeArtifactTasks \/ MakeTests \/ RefuseTests \/ IndexMoves

-----------------------------------------------------------------------------
\* The graph of a decision task that ends well can be submitted: no two tests
\* have one label, whatever a task depends on is made too, and in staging there
\* is a test for every wanted task of the Firefox CI decision task they were made
\* of. (Unless the index moved between the kinds, whose workers do not share the
\* cache of integration.py:48: a test of one graph may then depend on artifacts
\* of tasks that the other does not have.)
Loaded == kind \in {"optimize", "done", "done for files"}
SameGraph == \A k, l \in DOMAIN sources : sources[k] = sources[l]
TestsOf(name) == {i \in DOMAIN tests : tests[i].name = name}
Made(label) ==
  \/ label = Apply
  \/ "test" \in DOMAIN label /\ TestsOf(label.test) # {}
  \/ "artifact" \in DOMAIN label /\ label.artifact \in DOMAIN artifacts
OfTheOtherGraph(label) == ~SameGraph /\ "artifact" \in DOMAIN label
GraphWhole ==
  /\ \A i, j \in DOMAIN tests : tests[i].name = tests[j].name => i = j
  /\ Loaded => \A i \in DOMAIN tests : \A label \in tests[i].dependencies :
                 Made(label) \/ OfTheOtherGraph(label)
  /\ Loaded /\ deployment = "staging" =>
       /\ DOMAIN sources = DOMAIN IncludeDeps
       /\ \A t \in ToSet(Graphs[sources["integration-test"]]) :
            Wanted(t) => TestsOf(Tasks[t].name) # {}

\* What a test fetches is where it looks for it: private artifacts are asked of
\* its own cluster, and so are public ones, unless its root URL is patched. (A
\* public artifact of a task whose other artifacts are mirrored is only there if
\* the fetching task is one of mirror-public-fetches; integration_test.py:240.
\* Artifacts may be of the other graph, as above.)
HereIs(fetch) ==
  \/ "test" \in DOMAIN fetch.task /\ TestsOf(fetch.task.test) # {}
  \/ /\ "artifact" \in DOMAIN fetch.task
     /\ fetch.from \in DOMAIN artifacts
     /\ fetch.artifact \in ToSet(artifacts[fetch.from])
MirroredElsewhere(test, fetch) ==
  fetch.public /\ test.name \notin MirrorPublic /\ fetch.from \in DOMAIN artifacts
FetchesServed ==
  Loaded => \A i \in DOMAIN tests : \A fetch \in tests[i].fetches :
    CASE fetch.public /\ tests[i].patched -> "firefoxci" \in DOMAIN fetch.task
      [] OTHER -> \/ HereIs(fetch) \/ MirroredElsewhere(tests[i], fetch)
                  \/ OfTheOtherGraph(fetch.task)
=============================================================================
