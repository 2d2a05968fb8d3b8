-------------------------------- MODULE Review --------------------------------
(***************************************************************************)
(* The review of a change to worker-images.yml: the decision task loads the *)
(* integration tests of Integration and, to know which to keep, has the     *)
(* worker pools of WorkerPools generated from the changed files and         *)
(* compared with those that Firefox CI has (tc-admin diff, external).       *)
(*   src/taskcluster/fxci_config_taskgraph/optimizations.py                 *)
(* The two share no state, so nothing is lost by loading all kinds first.   *)
(***************************************************************************)
EXTENDS WorkerPools, Integration

CONSTANT DeployedImages   \* worker-images.yml as it is deployed

reviewVars == <<poolVars, graphVars>>

\* A pool is made of its own definition: no anchor's machine type is a template.
ASSUME TemplatesAssumption ==
  \A i \in DOMAIN Pools : \A v \in DOMAIN Pools[i].variants : ~BorrowsTemplate(<<i, v>>)
Deployed(pv) == WorkerPool(VariantOf(pv, Anchors), DeployedImages, Defaults)

\* Mutant: the lines of pools that the change adds, which begin with a "+".
AddedWorkerPools == {made[pv].name : pv \in {x \in DOMAIN made : Deployed(x).name # made[x].name}}

\* The lines of the diff that begin with a "!": pools that are there and differ.
ModifiedWorkerPools ==
  {made[pv].name : pv \in {x \in DOMAIN made : Deployed(x).name = made[x].name /\ Deployed(x) # made[x]}}

ReviewInit == Init /\ GraphInit

Load == pass = "idle" /\ LoadKinds /\ UNCHANGED poolVars

\* The pools are only generated for tests there are.
MakePools == kind = "optimize" /\ tests # <<>> /\ Next /\ UNCHANGED graphVars

Decide ==
  /\ pass = "generated" \/ tests = <<>>
  /\ \E filesChanged \in BOOLEAN : Optimize(ModifiedWorkerPools, filesChanged)
  /\ UNCHANGED poolVars

\* A diff that ends in an error ends the decision task.
DiffFails ==
  /\ kind = "optimize" /\ pass = "raised"
  /\ kind' = "failed"
  /\ UNCHANGED <<poolVars, deployment, root, origRoot, latest, graph, sources, step, scan,
                 found, upstream, artifacts, tests, kept, moves, faults>>

ReviewNext == Load \/ MakePools \/ Decide \/ DiffFails

ReviewSpec == ReviewInit /\ [][ReviewNext]_reviewVars

\* A change to the images keeps every test that runs in a pool that then starts
\* workers of another image, through however many aliases and layers, and none
\* whose pool's image is as it was; a change to the transforms or the kinds keeps
\* all.
Imaged(pv, file) ==
  LET v == VariantOf(pv, Anchors) IN ImageFor(file, v.image, v.provider)
Starts(pv) ==
  LET v == VariantOf(pv, Anchors) IN v.provider \in DOMAIN Providers /\ Placements(v) # {}
ImageOf(starts) ==
  IF "image" \in DOMAIN starts THEN starts.image ELSE starts.deployment.parameters.imageId
StartsOthers(pv) ==
  LET v == VariantOf(pv, Anchors)
      started(p, file) == ImageOf(Launch(v, p, file, Defaults).starts)
  IN Starts(pv) /\ \E p \in Placements(v) : started(p, images) # started(p, DeployedImages)
TestsIn(pools) == {test \in ToSet(tests) : \E pv \in pools : made[pv].name = test.queue}
TestsOfChangedPoolsKept ==
  /\ kind = "done for files" => kept = ToSet(tests)
  /\ kind = "done" =>
       /\ TestsIn({pv \in DOMAIN made : StartsOthers(pv)}) \subseteq kept
       /\ kept \subseteq TestsIn({pv \in DOMAIN made :
                    Starts(pv) /\ Imaged(pv, images) # Imaged(pv, DeployedImages)})
===============================================================================
