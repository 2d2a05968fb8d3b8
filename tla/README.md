# fxci-config in TLA+

This directory specifies the programs of this repository that keep Firefox CI
configured and turn pushes and schedules into tasks. Each module models one
component as a state machine; TLC checks the configurations listed below on
small instances, and TLAPS proves the main results for every instance.

Paths are relative to the directory that holds `src/`. `generate/` stands for
`src/src/ciadmin/generate/`, `build_decision/` for
`src/build-decision/src/build_decision/`.

## The system

Three programs and two workflows share a handful of services (hooks, queue,
index, secrets of Taskcluster; hg.mozilla.org; GitHub).

| Component | State | Operations | Talks to |
|---|---|---|---|
| `tc-admin` with `ciadmin` (`src/src/ciadmin`) | the resources generated in one run; caches of files, branches and `.taskcluster.yml` | generators per kind of resource, then diff and apply | GitHub and hg for files and branches, the services it manages |
| in-tree actions (`generate/in_tree_actions.py`) | hashes of `.taskcluster.yml`, hooks to keep | hash the files of all branches, generate hooks, retain outdated ones | hooks service: list, status, then create and delete through apply |
| deploy (`.github/workflows/deploy.yml`) | the `deploy-apply` concurrency group | check, then apply | runs the above |
| poller (`.github/workflows/tc-yml-watch.yml`) | `tc-yml-watch-state`, an entry of the Actions cache | resolve watched files, compare, replace the entry, deploy | calls deploy |
| `build-decision cron` (`build_decision/cron/`) | none of its own; the time and revision of a task | read the pushlog and `.cron.yml`, run the jobs that are due | created by cron hooks every 15 minutes; queue, index, hooks |
| `build-decision hg-push` (`build_decision/hg_push.py`) | none of its own | read the pushlog and `.taskcluster.yml`, create the decision task | fired by pulse messages |
| `build-decision git-push`, trigger action | none | render one task; find and trigger an action's hook | queue, hooks |
| `fxci` (`src/src/fxci`) | none | create worker secrets, replay a push, list workers | secrets, hooks |
| grants, worker pools, images, clients, roles (`generate/`) | none: functions of YAML files | expand, merge, resolve | `tc-admin` |
| file caches and GitHub client (`generate/branches.py`, `tcyml.py`, `util/github.py`) | a cache and a lock per key; one client for all | list branches, read files, close the client | GitHub, hg |
| checks (`src/src/ciadmin/check`) | resources cached per session | compare resources with tables; read policies | the caches above |
| taskgraph transforms (`src/taskcluster`) | caches of another deployment's tasks; the root URL of the process | find tasks and their ancestors, rewrite them, keep those a change concerns | queue and index of firefox-ci, `tc-admin diff` |

What is hard about them is not the rendering but the time in between: apply
works from what was read minutes before while developers push and users fire
hooks; runs are cancelled, replaced and killed; the pushlog lags behind the
messages about it; tasks are rerun after their effects; one request of several
fails. `PROJECT.json` lists the hazards, each at its line.

What makes each component correct:

- *in-tree actions*: a hook comes only from a file some branch of its level and
  domain has held; no hook in use is removed, not even by a deploy that overlaps
  a push; outdated hooks retire; deploys recover.
- *deploy and poller*: every change of a watched file is deployed; the entry
  never says more than what is deployed or on its way; redundant deploys are
  bounded and harmless.
- *cron*: a job runs once per slot, on the revision that asks for it; a failing
  job costs no other; a green task has run what was due: a pushlog that lags by less
  than the retries costs no slot.
- *hg-push*: push info, `.taskcluster.yml` and index route of a decision task
  speak of one changeset; every push gets its task.
- *file caches, client*: a key is read once however many ask, a failure is not
  kept and blocks nobody, a listing is whole, and nobody sends a request on a
  client that is closed.
- *worker secrets*: nothing is skipped, nothing is overwritten that need not be.
- *grants*: no context holds a scope above its level, whatever roles cover it;
  pull requests get what is granted to their kind; nothing asked for is lost.
- *managed resources*: a deploy takes back what is no longer granted, and
  leaves alone what another repository keeps in the same namespaces.
- *pools, images*: a pool is made from its own definition only, although
  definitions share objects; launch configurations are placed and told apart; an
  image nobody uses is found.
- *transforms*: the graph of the decision task can be submitted, what a test
  fetches is where it looks for it, and a change keeps the tests it concerns.

## The modules

| Module | Models | Proofs | TLC instance |
|---|---|---|---|
| `InTreeActions` | in-tree actions and apply | `InTreeActions_proofs` | `MCInTreeActions` |
| `DeployPipeline` | `deploy.yml`, `tc-yml-watch.yml` | `DeployPipeline_proofs` | itself |
| `CronTask` | cron hooks and their tasks | `CronTask_proofs` | `MCCronTask` |
| `HgPush` | hg-push hooks, their tasks, the replay command | `HgPush_proofs` | itself |
| `WorkerSecrets` | the secrets commands | `WorkerSecrets_proofs` | `MCWorkerSecrets` |
| `Grants` | who is granted what: matching, levels, roles, and the roles of push and cron hooks | `ManagedResources_proofs` | (operators) |
| `ManagedResources` | extends `Grants`: generated resources, managed patterns, deploys | `ManagedResources_proofs` | `MCManagedResources` |
| `ReadOnce` | the abstract specification: what a cache promises its readers | `FileFetch_proofs` | (refined) |
| `FileFetch` | branches, files, the shared client, tests of a session; implements `ReadOnce` twice | `FileFetch_proofs` | `MCFileFetch` |
| `KeyedBy` | values that depend on attributes | `Review_proofs` uses it unexpanded | (operators) |
| `WorkerPools` | extends `KeyedBy`: pools, images, the check of images | `Review_proofs` | `MCReview` |
| `Integration` | the kinds of the decision task that run Firefox CI's tasks in staging | `Review_proofs` | `MCReview` |
| `Review` | composes `WorkerPools` and `Integration`: the review of a change | `Review_proofs` | `MCReview` |

In every module, `Mutant:` operators are faulty variants of a definition beside
them; the specification does not use them. They show that each property
notices a bug of the kind it is meant for (`PROJECT.json`, "mutants").

### InTreeActions

`tcyml` is what branches hold, `hooks` and `age` the hooks service (which hooks
exist, days since the last fire), `phase`, `fetched`, `resources`, `unlisted`,
`unchecked` the local variables of one run.

| Action | Code |
|---|---|
| `StartRun`, `Answer`, `AnswerNotFound` | `hash_taskcluster_ymls`: all requests in flight, each answered at its own moment; a 404 leaves `gather` and ends the run |
| `Generate`, `GenerateRaises` | `update_resources` up to line 434, without an await |
| `ListHooks`, `CheckStatus`, `NextDomain` | the retention loop, one request per step |
| `CreateHook`, `RemoveHook`, `FinishRun` | `tc-admin apply`, one call per step |
| `Push`, `Fire`, `NextDay`, `Crash` | developers, users, the clock, failures |

A content and its hash are one value. The age of a hook saturates one day after
the retention time, so days need no bound. Branches, levels and actions are
constants: they come from data, and a change of data is a new commit and a new
run. The roles of the same module are static and left out, and so are updates
of a hook that exists (its id contains the hash). Nobody edits hooks by hand.

### DeployPipeline

Commits and file versions are numbers. `watch` is the poller's run with its
local variables, `tick` the run that waits for it, `checking`, `pending` and
`applying` are deploy runs before, waiting in and holding the concurrency group.
Actions follow the steps of the workflows; `Evict` and the failing branch of
`DeleteCache` are the cache's. A run works on the commit main had when it was
triggered. Watched files are read by the apply job, not by the run's checkout.
Re-running an old workflow run by hand is not modelled.

### CronTask

Time is counted in units of which `SlotLength` make 15 minutes. `HookFires`
and `TargetFires` create tasks, `Start` to `Finish` follow `run()`, one request
per step; `RunEnds`, `WorkerDies` and `Expire` are the queue's. Revision `r` is
the `r`-th push. A decision task has an id chosen before it is created, so a
repeated request does nothing; the trigger of an action's hook is repeated.

### HgPush

Changeset `k` of push `p` is `<<p, k>>`. `Push` includes the pulse message;
`Redeliver` and `Replay` fire the hook again. A task reads the push info
(`GetPushInfo`, with `get_push_info`'s attempts and the test of the push's age)
and then `.taskcluster.yml` (`Submit`, which creates the decision task). The
deadline of the task is not modelled: an expired task is one that fails.

### WorkerSecrets

`procs` are commands that run at once; `Get` and `Set` are requests of the loop
over the pools, `EditTemplate` and `EditSecret` what people do in between.

### Grants and ManagedResources

`Grants` has the functions from a project of `projects.yml` and a grantee of
`grants.d` to roles and levels, one operator for each filter of
`add_scopes_for_projects`, and at its end how Taskcluster reads the result: a
*context* is what a task of a project runs as (a push to a branch, a cron job, an
action, a pull request of a kind), and holds the scopes of every role that
covers it. Names are sequences of words with `*` as a last word; a grant's scope
is one with `{level}` in it, all that separates contexts.

`ManagedResources` turns a configuration (one project, one grantee, the roles of
role grantees, and hooks, clients and pools of our own) into resources and the
patterns each generator manages. `Start` reads configuration and service and
computes what to create, change and delete; `Apply` does one of these; `Fail`
ends a deploy between any two. `Merge` changes the configuration at any time,
`OthersCreate` and `OthersDelete` are another repository's deploys. Deploys do
not overlap, which `DeployPipeline` shows of the workflows. `--resources`, the
modifiers of staging, conditions on the environment, and the interpreted clients'
placeholders are left out.

Initial states also range over configurations under review, which are checked
and not deployed: the properties of generation are evaluated on them.

### FileFetch and ReadOnce

A session is a sequence of tests in one event loop and one process: a deploy is a
session of one test that generates, `ciadmin check` one of several, of which
`check_pull_request_policies` reads files as well. `main` is the coroutine of each
test, `fetch` the coroutines of `tcyml.get` that `hash_taskcluster_ymls` starts, one
for each entry of a listing. `branchCache`, `branchLock`, `fileCache` and `fileLock`
are the module variables; `client`, `open` and `closing` those of `util/github.py`.

| Action | Code |
|---|---|
| `StartTest`, `Abandon`, `TestEnds` | `conftest.py`: what was generated is not generated again; a generator that raises ends `gather` and the test, not the other coroutines |
| `ListHg`, `AskBranches`, `BranchesCached`, `LockBranches`, `RequestBranches`, `AnswerPage`, `PageFails` | `branches.get`, one page per step |
| `Gathered`, `GatherRaises`, `NothingToClose`, `StartClose`, `ClientClosed` | the end of `hash_taskcluster_ymls`, and `close_client`, whose await lies between closing and forgetting |
| `AskPolicy`, `PolicyRead`, `PoliciesRead` | the check of policies, which closes the client after each file |
| `FileCached` to `FetchFails` | `tcyml.get` |

`GetClient` is no step of its own, since nothing is awaited between the release of
its lock and the request. An hg file is read in the aiohttp session of the test.
`PushFile`, `CreateBranch` and `DeleteBranch` change the repositories between any two
pages.

`ReadOnce` says what the caches promise: `Read` is a reader's own request, `Recall`
a cached answer, `Fail` a request that fails. `Files` and `Branches` are its two
instances in `FileFetch`, with the caches as `memo` and what each reader was given as
`answer`: `FileFetch` implements both. The cache of `ciconfig/get.py` has the same
form over the file system.

### KeyedBy and WorkerPools

`KeyedBy` is `evaluate_keyed_by` for values nested at most `Depth` deep. In
`WorkerPools` `anchors` are the objects that YAML anchors make one, `images` is
`worker-images.yml`; a pass goes through all variants of all pools, to generate
(`Generate`) or to check the images (`Collect`), and two passes of one process see
the same objects. A variant that borrows the instance types of its attributes has
them formatted in place (`Formatted`); everything else is copied. `Variant` is
`generate_pool_variants`, `WorkerPool` is `make_worker_pool` with the three
providers' functions: placements, disks, ARM layers, manager and worker configs, and
the launch config id, which is given or else stands for what is hashed. What is
hashed is not one record for all: without a template it has the machine and the image
(unless the type's `launchConfig` gives others) and the disks (`PlainLaunch`); with one
it has the resource group and the template's parameters (`ArmLaunch`), among which
machine and image are defaults that any layer may replace. `Copies` says which disks of
a list are one object when the zone is written into them. A text is words and a hole
for one attribute; the attribute `environment` is an object and no text, so a value
keyed by it raises (`Object`). `UsedImages` is the check's pass over the images, `Resolved` how
`WorkerImages` follows aliases: as many times as there are images, after which it
never ends if there still is one (`InCircle`, and theorem `AliasesFollowed`).

Left out: tags, subnets, user data, spot options, accelerators, weights, lifecycles and
metadata, which are set or merged and read by nothing else; lists, which `merge`
appends.

### Integration and Review

`Integration` is a decision task of this repository. taskgraph loads
`firefoxci-artifact` and then `integration-test`, which needs it, each in some worker
process: `AnotherWorker` is a kind that comes to a worker that has loaded none, so the
graph that `_fetch_task_graph` has cached (`graph`) and the root URL (`root`) may be
those of the kind before or fresh ones. `find_tasks` goes through the graph of a
Firefox CI decision task (`StartKind`, `PassOver`, `Find`), asks for the ancestors of
each task with the root URL swapped (`Answer`), and tasks are made
(`MakeArtifactTasks`, `MakeTests`, `RefuseTests`); `sources` records which graph each
kind was made of. `Redirected` and `InStaging` follow the rewrites of fetches in their
order, `Optimize` is the optimization. The index path may move at any time
(`IndexMoves`) and requests fail (`RequestFails`). One task of each kind and one index
path are modelled.

`Review` runs both: `MakePools` is `tc-admin diff` in the decision task of a change
to `worker-images.yml`, `ModifiedWorkerPools` what is read off its lines, and
`Decide` keeps the tests of the pools that are modified. `TestsOfChangedPoolsKept`
does not compare pools but the images they start workers of (`Imaged`), so it says
more than that the code keeps what the diff lists.

## The runs

| Run | Question | Bounds |
|---|---|---|
| `hooks` | `TypeOK`, `HookProvenance`, `RecentHooksKept`, `NoOutage`, `CurrentHooksDeployed`, `OutdatedHooksRetire` | three branches (level 3 and level 1, and one without a level, of two domains), one content besides a missing and an unusable file, pr hooks, retention of 1 day, 1 push, 1 crash (no file without tasks: `Blank` is empty) |
| `hooks_pr_retention` | `AllRecentHooksKept`: violated | one branch |
| `deploy` | `TypeOK`, `NoChangeForgotten`, `RedundantDeploysBounded`, `ChangesDeployed` | two watched targets, one of which changes once, 2 commits, runs by hand, 1 unresolved target, and 1 fault: a loss of the entry, a failed deletion of it or a failing job |
| `deploy_rollback` | `RedundantDeployIsSafe`: violated | one watched file, 2 commits, 1 loss |
| `cron_slots` | `OncePerSlot`, `NoStorm` | one job, 3 slots of 2 time units, lag below the attempts, 1 fault |
| `cron_jobs` | `JobsOfTheirRevision`, `GreenMeansRun`, `NoJobLeftUnrun` | two jobs, five kinds of file, 2 pushes, 1 forced run, 1 fault, one slot, a pushlog that lags once and 2 attempts |
| `hg_safety` | `TypeOK`, `DecisionsOfTheHead`, `NoPushLost` | two pushes of up to two changesets and heads, a day that passes, 1 replay or redelivery, lag below the attempts, 1 fault |
| `secrets_safety` | `TypeOK`, `CreatedSecretsExist`, `UpdatedSecretsMatch`, `SecretsKeptWithoutFaults` | two commands, two pools, two values, 2 edits, 1 fault |
| `managed` | `LevelsSeparated`, `PullRequestsAsGranted`, `EveryJobServed` on 25 projects with 92 grantees each; `PrivilegesRevoked`, `Leftovers`, `OthersKept` over deploys | two configurations to deploy (level 3, then level 1 with role grantees), three resources of others |
| `managed_external` | `ExternalKept`: violated | one configuration, five resources of others |
| `fetch` | `TypeOK`, `ListingComplete`, `NotCutOff`, `ClientLifecycle`, `CachesReadOnce`, `SessionEnds` | a test of policies between two that generate; an hg and a git repository of three branches, one of which is read; pages of one branch; 1 change, 1 fault |
| `review` | `OfItsOwnDefinition`, `LaunchesPlaced`, `UnusedImagesFound`, `GraphWhole`, `FetchesServed`, `TestsOfChangedPoolsKept` | four pools of six variants on three providers, every way to alias three of five images, circles among them, in both orders; a pool of five vm sizes of which layers and `launchConfig`s replace machine or image; two passes; three graphs of one to four tasks, kinds in one worker or two, 1 move of the index, 1 failing request |

Why these are enough: every property is about one run or task against one
disturbance, or two that overlap. Two pushes let something happen between two
reads; one fault per run suffices because a second one only ends or restarts
what the first could have; two slots (three with the one that is still to come)
let a late task meet the next. Lag is kept below the attempts of
`get_push_info` (2 for 5 in the code): a longer lag does end a cron task
quietly, as `NoPushesError` is meant for new repositories (`GreenMeansRun` says so).
In `deploy` the second target does not change by itself, which is enough for one
target to be unresolved while another makes the poller deploy. `SYMMETRY` is used
for the commands and values of `WorkerSecrets`, of which no definition names
one, in runs without liveness. In `fetch` two tests beside
a stray coroutine are the least for a client to be closed by one and used by the
other, and three pages the least for one to shift while another is read. In `review`
three aliases are the least for a chain whose order in the file matters, two anchors
shared by three variants the least for one variant to see what another wrote.
Deadlock is not checked for `CronTask` and `HgPush`, whose clock and pushes are
bounded and end, nor for `FileFetch` and `Review`, which are one session and one
decision task.

### Fairness

- `InTreeActions`: `WF(RunStep)`: `deploy.yml` runs on every push to main and
  is called by the poller, and a run whose requests are answered goes on;
  `WF(NextDay)`. Pushes and crashes are not fair. Deploys that always crash are
  excluded by the bound on faults.
- `DeployPipeline`: the schedule of the poller keeps firing and runs of it go
  on; a check ends, since GitHub limits the time of a job. Checks of every single
  run are fair: a run has a runner of its own.

- `FileFetch`: every coroutine that can go on is run by the event loop, and every
  request ends, since the HTTP sessions have timeouts: `WF` of each test's and each
  reader's steps. Changes and failures of others are not fair.

The other modules have no fairness and no liveness properties: what must happen
in `CronTask` and `HgPush` is said of tasks that have ended (`NoJobLeftUnrun`,
`NoPushLost`).

### Where the code does not do what it says

- Outdated pull-request hooks are not retained (`hooks_pr_retention`): they are
  managed, but the retention loop lists `in-tree-action-*` only.
- A redundant deploy of the poller is not always harmless
  (`deploy_rollback`): it applies the commit of its own run, possibly after a
  newer one.
- A deploy deletes clients of another repository in a namespace
  `externally-managed.yml` lists (`managed_external`): `clients.py` manages
  `Client=` without the exclusions.

Noted while modelling, without a run of their own: a target of the poller that
cannot be resolved may cost a redundant deploy, where `tc-yml-watch.yml:18-20` says
it "neither blocks deploys for the others nor causes a spurious deploy": one that has
no previous SHA, or whose SHA has changed meanwhile, is seen to change at the next
poll (`misses` in `RedundantDeploysBounded`); `tcyml.get` says that it returns `None`
for a file that is not found (`tcyml.py:24`) and raises (line 91); one missing
`.taskcluster.yml` ends every deploy, though the callback that meets the 404
returns as if it were to be skipped (`NothingMissing` in
`CurrentHooksDeployed`); a cron job whose `when` cannot be evaluated ends the
loop (`Evaluable` in `NoJobLeftUnrun`); an hg message of several heads starts a
decision task for the tip of the default branch; the replay command
accepts a changeset that is not the tip, and its task fails;
`create-worker-secrets` without `--update` overwrites a secret when its `get`
fails for any reason (the `faults` of `SecretsKeptWithoutFaults`); a grantee with
both a `level` and branch jobs, the example of `grants.d/grants.yml:28`, gets
nothing on Mercurial projects, whose branches have no level (`Quirk` in
`EveryJobServed`); a project whose access stands for no level matches no
grantee with a `level`, without a word (`matching.py:120`; no project is one); `include_pull_requests: false` does not hold back the `*` of
a project whose default branch is level 1 (`PullRequestsAsGranted`); a role with
grants takes roles of longer names under management (`OthersKept`), and one
outside the managed prefixes stays when its last grant goes (`Leftovers`).

Of the newer modules: a branch deleted between two pages hides one that exists
throughout (`shrunk` in `ListingComplete`); in-tree actions that another
generator's failure left behind may close the client of the next test
(`abandoned` in `NotCutOff`); a machine type that is a template in shared
attributes keeps the value of the first variant (`BorrowsTemplate`; no pool has
one); aliases in a circle hang the generation while the check of unused images
passes; that check, in one pass, may report an image that only an alias of an alias
leads to, depending on the order of the file; AWS pools with two instance types raise
(dictionaries are sorted); `merge` says it modifies no argument, but a nested
dictionary of a later argument may be modified by the next merge; names of resource
groups are cut to 90 characters and may collide; two vm sizes of a pool get one
launch config id if a layer of their ARM deployment, or a `launchConfig`, replaces the
machine of one by that of the other (`Replaced` in `LaunchesPlaced`; no pool has
such a layer). The cache of `_fetch_task_graph` is one of each process, and taskgraph
may load the kinds in several: when the index path moves between them, tests are made
of another graph than the artifacts, and may depend on artifact tasks nobody made
(`OfTheOtherGraph` in `GraphWhole` and `FetchesServed`). An image task of which
something is fetched already gets no image artifact (`firefoxci_artifact.py:50`); a public
artifact of a task that is mirrored for another task's sake is looked for where it is
not (`MirroredElsewhere` in `FetchesServed`); a private fetch is renamed
`fetch-...`, which counts as one of production (`InStaging`); `find_tasks` binds the
values of several excluded attributes late (`integration.py:147`), so all of them get
the last one's; names of created tests are remembered per index path only.

## The proofs

All theorems hold for every value of the constants that the named assumptions
allow: `DataAssumption`, `BoundsAssumption`, `CronAssumption`,
`SecretsAssumption`, `FetchAssumption` (types and disjointness of the constants,
and that the bounds are numbers), and of `ManagedResources` `WordAssumption` (names
are texts of words, those of the definitions among them), `ConfigAssumption` (every
configuration is one the data classes accept), `OthersAssumption` (the other
repository keeps to the namespaces listed for it), `LevelsAssumption` (a `*` is only
the end of a branch's name, levels are at most 3, and a project has the push feature
of its own kind of repository) and `JobsAssumption` (jobs and policies are those
there are). Those of the review say what the files are like:
`AnchorsAssumption`, `PoolsAssumption`, `ImagesAssumption` (their shape: a type has
the fields of one, the disks written down are in no zone yet, an image is a key of
its file), `MachinesAssumption` (the anchors a pool names are there, and of the
machine types of one pool none is another's with a word more, which would give two
launch configs of one zone the same machine), `TemplatesAssumption` (no machine
type of an anchor is a template, as in `worker-pools.yml`), `TasksAssumption`,
`GraphsAssumption`, `AncestorsAssumption` (tasks, fetches and ancestors are tasks
there are), `KindsAssumption` (what `kinds/integration-test` includes
`kinds/firefoxci-artifact` includes too). TLC evaluates each on the instance.

- `InTreeActions_proofs`. `TypeCorrect`. `Provenance`: `HookProvenance` is not
  inductive, since hooks come from `resources`, and those from `fetched`;
  `ProvenanceInv` says of all three what the property says of `hooks`.
  `RetentionHolds`: `RetentionInv` says that in a run past its listing
  every recently fired hook is in `resources`, still to be listed or checked, or
  was fired since. `NoOutageHolds`: `AnswersInv` says that an answer is what the
  branch still holds unless it was pushed to, and that `resources` holds what
  the answers ask for.
- `DeployPipeline_proofs`. `TypeCorrect`. `NothingForgotten`, from
  `VersionsInv` (versions only grow, so an apply reads at least what the entry
  records), `PollerRunInv` (the poller has at most one deploy, and waits for
  it) and `IdleApplyInv` (nothing is pending while nothing is applied).
  `RedundantBounded`: by `PollInv` versions only grow and a target is seen or
  guessed; by `CreditInv` there is one lost entry or wrong guess more than redundant
  deploys while the restored entry differs from what the last deploy saw or a target
  is guessed wrong, and two if both: each of the two can cost one more deploy.
- `CronTask_proofs`. `SlotInv`: the schedule fires once in a slot, so of two tasks
  that submit for one time one was forced; `SubInv` and `RunInv` say of what has been
  submitted which run did it and for which revision: a run submits for one only.
  `RecordInv` and `LoopInv` say of a task in its loop which jobs are behind it. From
  these `OnceHolds`, `RevisionsHold`, `GreenHolds`, `NoStormHolds` and `NoJobLeft`;
  `GreenHolds` also counts tries: a task has tried at most as often as the pushlog has
  lagged, unless the repository had no pushes when its run began.
- `FileFetch_proofs`. `FilesInv`: a reader at work on a file holds its lock, and
  nobody has read the file; `BranchesInv` the same of listings. `CachesHold` maps every
  step to one of `ReadOnce` or to a stutter. `LifecycleHolds` rests on `ClientInv` (a client that
  nobody closes is open), `NotCutOffHolds` on `CutInv` with `OrderInv` (tests
  follow each other, so only abandoned actions run beside one), `ListingHolds` on
  `ListInv` (the pages read have what of `lasting` lies before the next page).
- `ManagedResources_proofs`. `Invariant`: of one id there is one resource, and what
  exists is the other repository's or wanted by some configuration (`ServiceInv`); a
  running deploy has an operation for what is wanted and missing and for what else
  must go (`DeployInv`). Lemmas on names show which patterns match which ids: the
  first words of a role tell its namespace. `LeftoversHold`, `RevokedHolds` and
  `OthersKeptHolds` follow from both.
- In the same module, of what `Grants` generates, for any project and any grantee.
  Covering is
  transitive among names without an inner `*` (`GlobThrough`), of two patterns for one
  name one covers the other (`GlobOneCovers`), and a pattern covers a longer name under
  the same first words only if it covers the rest (`GlobAfter`); roles of jobs of
  different kinds do not cover each other (`SameKind`). So a branch's context holds
  only grants of branches whose first matching entry is that of the branch or one
  `Orderly` puts at most at its level, and `LevelsHold` follows case by case of job
  and context; the hooks of a project likewise. `PullRequestsHold` shows in addition
  that trusted and untrusted pull requests share a role only where the policy has one
  kind of them (`PullRequestRoles`). `JobsServed` goes the other way: for each context a
  grantee names it finds the job, the entry or the `*` by which the context gets its
  scope (`BranchServed`, `OtherServed`).
- `HgPush_proofs`. `TypeCorrect`, together with `RunInv`: what a task that is
  past its push info knows of it. The pushlog only grows, so the tip of a push
  stays (`Stable`). `DecisionsHold` follows. `NothingLost` shows `NoPushLost` when
  the lag is below the attempts: by `TriesInv` a task has tried at most as often as
  the pushlog has lagged.
- `WorkerSecrets_proofs`. `TypeCorrect`; `CreatedHolds` from `PassedInv` (every
  pool the loop has passed has its secret) and `UpdatedHolds` with `WantedInv`;
  `KeptHolds` from `ReasonInv` (a command sets a secret only with `--update` or,
  while no request failed, if it was missing or others have changed it).

- `Review_proofs`, in three parts, beside lemmas on folds. The model's folds are
  `FoldLeft`, which the community modules define by a function on sets of indices;
  `FoldExists` shows by induction on their number that there is such a function,
  `FoldSteps` that it goes from index to index, and the lemmas `...Steps` say so of
  each fold. (Induction is over a set, `Induction`, and rests on
  `FS_StrictSubsetOrderingWellFounded`; the library's induction theorems, which take
  an operator, are not needed.) *Pools*: `OfItsOwnDefinition` is not inductive, since a
  pool is made of the shared objects as they are then. `PoolInv` says that each
  object is as it was read, or was a template and is filled in (`CellOf`), so whoever
  borrows what is no template gets what was written (`OwnTypesKept`); formatting
  puts at most one word after a machine type, so those of one pool stay apart
  (`TypesApart`) and with the zones tell launch configs apart, unless one starts the
  machine of another type (`LaunchesApart`); a copied disk is one object in one place
  of its list, so it is told its zone once (`DisksPlaced`).
  *Images*: by `UsedIsReached` the check's one pass counts only what can be reached,
  so it misses nothing; `UnusedImagesExact` says when it is exact. `AliasesFollowed`
  is a pigeonhole argument: more names than images with an alias repeat, and what
  repeats repeats for ever. *The graph*: `GraphWhole` speaks of decision tasks that
  have loaded all kinds; `GraphInv` says of one that has not that the root URL is
  that of staging but while ancestors are asked for (`RootsOK`), that in staging each
  kind made so far is made of a graph there is (`SourcesOK`), that what is found
  and what is still to be looked at are all the wanted tasks of the worker's graph, with
  those upstream of all but the last (`ScanOK`), and that, once the first kind is made,
  every task of *its* graph that the second could find there has its image and its
  fetches among the artifacts (`ArtifactsOK`). `MakeTestsKeeps` then goes through each
  dependency and each fetch of a test, which are there if the second kind is made of
  that graph too. `ChangedPoolsTested` joins both: two pools made of one
  definition differ if they start workers of images with different ids, and only
  if their images differ (`PoolsDiffer`).

Only model-checked: the liveness properties (`CurrentHooksDeployed`,
`OutdatedHooksRetire`, `ChangesDeployed`, `SessionEnds`), since the prover does not
reason about fairness; and the violations. `EvaluateKeyedBy` is left unexpanded in
proofs: what they say holds whatever values evaluate to.

## What is not modelled

- `git-push`, `workers`, argument parsing, scripts: straight lines or pure I/O.
- The checks, but for those of images and policies: each compares generated
  data with a table.
- Of `build-decision`'s trigger action the choice of the action and its scopes.
- `rewrite_mounts`, `rewrite_caches` and the datestamps of the transforms: each
  replaces texts of one task by others and reads nothing else.
- Formatting, logging, the contents of task definitions, scopes of tasks.

## Plan

1. Done: the modules above, their runs, and the proofs listed.
2. `TriggerAction` and `GitPush`.
3. Refinements: an abstract hook retention that `InTreeActions` implements;
   `DeployPipeline`'s apply as a run of `InTreeActions`.
4. Theorems: the refinements of 3.
