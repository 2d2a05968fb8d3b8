--------------------------- MODULE ManagedResources ---------------------------
(***************************************************************************)
(* What `tc-admin apply` creates, changes and deletes: the configuration of *)
(* one project, its grants, hooks, clients and worker pools becomes         *)
(* resources; the generators also say which resources are managed, and a    *)
(* deploy deletes what is managed and not generated. Another repository     *)
(* keeps resources of its own in some of the same namespaces.               *)
(*   src/src/ciadmin/generate/{grants,hooks,clients,worker_pools,           *)
(*   cron_tasks,hg_pushes,git_pushes,scm_group_roles}.py                    *)
(*   src/src/ciadmin/generate/ciconfig/externally_managed.py                *)
(* tc-admin itself (diff, apply) is external.                               *)
(* A resource id is a kind and a text of words. Of contents only the scopes *)
(* of roles are kept: a level a {level} scope has, or a role assumed.       *)
(***************************************************************************)
EXTENDS Grants

CONSTANTS
  Proposals,    \* configurations that are checked, never deployed
  Configs,      \* configurations of main, which deploys apply
  OtherIds,     \* what the other repository may create, within External
  BranchNames,  \* the branches contexts are formed with
  Word          \* what names are made of

Text == Seq(Word) \ {<< >>}

\* Those the definitions name.
ASSUME WordAssumption ==
  {"*", ":", "repo", "project", "fuzzing", "project/fuzzing", "proj-fuzzing",
   "project-fuzzing", "hook-id", "mozilla-group", "mozillians-group", "login-identity",
   "mozilla-auth0", "static/taskcluster", "active_scm_level", "1", "2", "3", "trusted",
   "untrusted", "pull-request", "pull-request-untrusted", "branch", "hg-push", "git-push",
   "project-releng", "cron-task", "nightly"} \cup SplitKinds \subseteq Word

Id(kind, text) == [kind |-> kind, text |-> text]

\* Roles of projects are those of their repositories (`repo:`), and a role grantee
\* is no pattern for all roles.
ASSUME ConfigAssumption ==
  /\ BranchNames \subseteq Text
  /\ \A c \in Configs \cup Proposals :
       /\ ValidProject(c.project)
       /\ c.project.path \in Text /\ c.project.path[1] = "repo"
       /\ c.project.is["alias"] \in Word
       /\ \A b \in ToSet(c.project.branches) : b.name \in Text
       /\ c.project.targets \subseteq Word
       /\ \A j \in c.grant.job : j.kind \in Word /\ j.text \in Seq(Word)
       /\ c.roles \subseteq Text /\ \A r \in c.roles : r[1] # "*"
       /\ \A i \in c.own : i = Id(i.kind, i.text) /\ i.text \in Text

\* What keeps levels apart besides the filters: a `*` ends a name, features go with
\* the kind of repository their hooks are for, and jobs are of the kinds known.
ASSUME LevelsAssumption ==
  \A c \in Configs \cup Proposals :
    LET p == c.project IN
      /\ p.access \in 0 .. 3 /\ p.branches \in Seq([name : Text, level : 0 .. 3])
      /\ \A b \in ToSet(p.branches) : \A i \in 1 .. Len(b.name) - 1 : b.name[i] # "*"
      /\ IF IsGit(p) THEN "hg-push" \notin p.features ELSE "git-push" \notin p.features
      /\ \A j \in c.grant.job :
           j = EveryJob \/ j.kind \in SplitKinds \cup {"branch", "pull-request"}

\* Policies and jobs are those there are; `pull-request` alone may be asked for.
ASSUME JobsAssumption ==
  \A c \in Configs \cup Proposals :
    /\ c.project.policy \in {"", "public", "collaborators", "public_restricted"}
    /\ \A j \in c.grant.job :
         \/ j = [kind |-> "pull-request", text |-> << >>]
         \/ j.kind = "pull-request" /\ j \in {PR("*"), PR("trusted"), PR("untrusted")}
         \/ /\ j = [kind |-> j.kind, text |-> j.text] /\ j.kind # "pull-request"
            /\ j.text \in Text /\ \A i \in 1 .. Len(j.text) - 1 : j.text[i] # "*"

VARIABLES
  config,    \* the configuration of main (or under review, at first)
  service,   \* the resources that exist: [id, holds] records
  deploy,    \* {} or the deploy that runs: {[config, todo]}
  deployed   \* {} or what the last deploy applied, if it ended well: {config}

vars == <<config, service, deploy, deployed>>

Resource(kind, text, holds) == [id |-> Id(kind, text), holds |-> holds]
LevelScope(level) == [level |-> level, assumes |-> << >>]
Assume(role)      == [level |-> NoLevel, assumes |-> role]
OtherScope        == [level |-> NoLevel, assumes |-> << >>]

HookRole(name) == <<"hook-id">> \o name
-----------------------------------------------------------------------------
(* Patterns are matched from the start of the id (re.match).                *)

Prefix(kind, text) == [kind |-> kind, text |-> text, whole |-> FALSE, minus |-> {}]

Begins(pat, id) ==
  /\ pat.kind = id.kind
  /\ IF pat.whole THEN pat.text = id.text ELSE IsPrefix(pat.text, id.text)

Matches(pat, id) == Begins(pat, id) /\ \A m \in pat.minus : ~Begins(m, id)

\* externally-managed.yml.
External ==
  {Prefix("Role", <<"project", "fuzzing", ":">>), Prefix("Client", <<"project/fuzzing">>),
   Prefix("WorkerPool", <<"proj-fuzzing">>), Prefix("Hook", <<"project-fuzzing">>),
   Prefix("Role", <<"hook-id", "project-fuzzing">>)}

\* Mutant: the exclusions are forgotten.
ManageAll(kind, text) == Prefix(kind, text)

ManageWithExclusions(kind, text) ==
  [Prefix(kind, text) EXCEPT !.minus = {e \in External : e.kind = kind}]

ManageIndividual(kind, text) == [Prefix(kind, text) EXCEPT !.whole = TRUE]
-----------------------------------------------------------------------------
(* The generators: what each asks for, and which patterns it manages.       *)

\* A configuration c, of one environment, has one project and one project grantee;
\* c.roles are the roles of role and group grantees, c.own the ids of hooks.yml,
\* clients.yml and worker-pools.yml.
OwnOf(c, kind) == {i.text : i \in {x \in c.own : x.kind = kind}}
GrantedRoles(c) == {e.role : e \in ProjectGrants(c.grant, c.project)} \cup c.roles

GrantResources(c) ==
  {Resource("Role", r,
     {LevelScope(e.level) : e \in {x \in ProjectGrants(c.grant, c.project) : x.role = r}}
     \cup {s \in {OtherScope} : r \in c.roles}) : r \in GrantedRoles(c)}

\* Mutant: the roles of repositories are managed one by one only.
GrantPatternsNoRepos(c) ==
  {Prefix("Role", <<"mozilla-group">>), ManageWithExclusions("Role", <<"hook-id">>),
   ManageWithExclusions("Role", <<"project">>)}
  \cup {Prefix("Role", r) : r \in GrantedRoles(c)}

\* Roles with grants are managed by their id, of which longer ids are matches too.
GrantPatterns(c) ==
  {Prefix("Role", <<"mozilla-group">>), Prefix("Role", <<"mozillians-group">>),
   Prefix("Role", <<"login-identity">>), ManageWithExclusions("Role", <<"hook-id">>),
   ManageWithExclusions("Role", <<"project">>), Prefix("Role", <<"repo">>)}
  \cup {Prefix("Role", r) : r \in GrantedRoles(c)}

HookResources(c) ==
  UNION {{Resource("Hook", h, {}), Resource("Role", HookRole(h), {OtherScope})} :
           h \in OwnOf(c, "Hook")}

\* Mutant: the hooks asked for are not managed one by one.
HookPatternsBase(c) ==
  {ManageWithExclusions("Hook", << >>), ManageWithExclusions("Role", <<"hook-id">>)}

HookPatterns(c) ==
  {ManageWithExclusions("Hook", << >>), ManageWithExclusions("Role", <<"hook-id">>)}
  \cup {ManageIndividual("Hook", h) : h \in OwnOf(c, "Hook")}
  \cup {ManageIndividual("Role", HookRole(h)) : h \in OwnOf(c, "Hook")}

\* Clients of taskcluster itself are left alone, the others' are not.
ClientPatterns ==
  {[Prefix("Client", << >>) EXCEPT
      !.minus = {Prefix("Client", <<"mozilla-auth0">>), Prefix("Client", <<"static/taskcluster">>)}]}

\* Mutant: pools are managed one by one only.
PoolPatternsOwn(c) == {ManageIndividual("WorkerPool", w) : w \in OwnOf(c, "WorkerPool")}

PoolPatterns(c) ==
  {ManageWithExclusions("WorkerPool", << >>)}
  \cup {ManageIndividual("WorkerPool", w) : w \in OwnOf(c, "WorkerPool")}

\* cron_tasks, hg_pushes and git_pushes; hg-push/ is managed if a project has the feature.
ProjectHookResources(p) ==
  UNION {{Resource("Hook", h.name, {LevelScope(h.level)}),
          Resource("Role", HookRole(h.name), {Assume(h.assumes)})} : h \in ProjectHooks(p)}

ProjectHookPatterns(p) ==
  LET names == {<<"project-releng", "cron-task">>, <<"git-push">>}
               \cup {n \in {<<"hg-push">>} : "hg-push" \in p.features}
  IN UNION {{Prefix("Hook", n), Prefix("Role", HookRole(n))} : n \in names}

\* The groups of everyone at a level; every group gets the level 1 projects.
ScmGroup(level) == <<"mozilla-group", "active_scm_level", level>>

ScmGroupResources(p) ==
  {Resource("Role", ScmGroup(l), {OtherScope} \cup
     {s \in {Assume(p.path \o Star)} :
        ~IsGit(p) /\ \E b \in ToSet(p.branches) : GetLevel(p, b.name) = 1}) :
     l \in {"1", "2", "3"}}

ScmGroupPatterns == {Prefix("Role", ScmGroup(l)) : l \in {"1", "2", "3"}}

IdsOf(resources) == {r.id : r \in resources}

ClientResources(c) == {Resource("Client", t, {}) : t \in OwnOf(c, "Client")}
PoolResources(c) == {Resource("WorkerPool", t, {}) : t \in OwnOf(c, "WorkerPool")}

Wanted(c) ==
  GrantResources(c) \cup HookResources(c) \cup ClientResources(c) \cup PoolResources(c)
  \cup ProjectHookResources(c.project) \cup ScmGroupResources(c.project)

Patterns(c) ==
  GrantPatterns(c) \cup HookPatterns(c) \cup ClientPatterns \cup PoolPatterns(c)
  \cup ProjectHookPatterns(c.project) \cup ScmGroupPatterns

ManagedIds(c, ids) ==
  LET pats == Patterns(c) IN {id \in ids : \E pat \in pats : Matches(pat, id)}

\* A grant may raise, and so do two resources of one id that differ.
Raises(c) ==
  \/ GrantRaises(c.grant, c.project)
  \/ LET w == Wanted(c) IN \E r, s \in w : r.id = s.id /\ r # s
\* The other repository creates resources of its namespaces that no configuration
\* asks for, and no configuration has clients of taskcluster itself.
ASSUME OthersAssumption ==
  /\ \A id \in OtherIds :
       /\ id = Id(id.kind, id.text) /\ id.text \in Text
       /\ \E e \in External : Begins(e, id)
       /\ \A c \in Configs : id \notin IdsOf(Wanted(c))
  /\ \A c \in Configs \cup Proposals : \A i \in c.own :
       i.kind = "Client" => \A pat \in ClientPatterns : Matches(pat, i)
-----------------------------------------------------------------------------
(* Deploys, one at a time (the concurrency group of deploy.yml).            *)

\* tc-admin's diff: create or update, and delete what is managed and not wanted.
Ops(c, existing) ==
  LET wanted == Wanted(c)
      stale  == ManagedIds(c, IdsOf(existing)) \ IdsOf(wanted)
  IN {[id |-> r.id, new |-> {r}] : r \in wanted \ existing}
     \cup {[id |-> i, new |-> {}] : i \in stale}

Init ==
  /\ config \in Configs \cup Proposals
  /\ service = {} /\ deploy = {} /\ deployed = {}

\* A change is merged.
Merge ==
  /\ config' \in Configs \ {config}
  /\ UNCHANGED <<service, deploy, deployed>>

\* The other repository deploys or removes a resource (once a first
\* configuration is merged: a bound).
OthersCreate ==
  \E id \in OtherIds :
    /\ config \in Configs
    /\ \A r \in service : r.id # id
    /\ service' = service \cup {[id |-> id, holds |-> {}]}
    /\ UNCHANGED <<config, deploy, deployed>>

OthersDelete ==
  \E id \in OtherIds :
    /\ service' = {r \in service : r.id # id}
    /\ service' # service
    /\ UNCHANGED <<config, deploy, deployed>>

\* A deploy reads the configuration and the service; one that raises does nothing.
Start ==
  /\ config \in Configs /\ deploy = {} /\ ~Raises(config)
  /\ ManagedIds(config, IdsOf(Wanted(config))) = IdsOf(Wanted(config))
  /\ deploy' = {[config |-> config, todo |-> Ops(config, service)]}
  /\ deployed' = {}
  /\ UNCHANGED <<config, service>>

Put(op) == {r \in service : r.id # op.id} \cup op.new

\* One request, in any order.
Apply ==
  \E d \in deploy : \E op \in d.todo :
    /\ service' = Put(op)
    /\ deploy' = {[d EXCEPT !.todo = @ \ {op}]}
    /\ UNCHANGED <<config, deployed>>

Finish ==
  \E d \in deploy :
    /\ d.todo = {}
    /\ deploy' = {} /\ deployed' = {d.config}
    /\ UNCHANGED <<config, service>>

\* A request fails, or the job is cancelled or dies.
Fail ==
  /\ deploy # {} /\ deploy' = {}
  /\ UNCHANGED <<config, service, deployed>>

Next == Merge \/ OthersCreate \/ OthersDelete \/ Start \/ Apply \/ Finish \/ Fail

Spec == Init /\ [][Next]_vars
-----------------------------------------------------------------------------
(* Properties of every configuration that generates. They speak of the      *)
(* configuration alone, so they are evaluated before anything is deployed.  *)

Fresh == service = {} /\ deploy = {}

ProjectContexts(p) == Contexts(p, BranchNames)
HeldBy(p, c, granted) == Held(ContextRole(p, c), granted)

\* A branch pattern that covers an earlier one has at most its level, and an
\* organisation is level 1, its default branch too, as in projects.yml.
Orderly(p) ==
  /\ \A i, k \in DOMAIN p.branches :
       i < k /\ GlobMatch(p.branches[k].name, p.branches[i].name)
         => p.branches[k].level <= p.branches[i].level
  /\ Starred(p) => /\ DefaultBranchLevel(p) = 1
                   /\ \A b \in ToSet(p.branches) : b.level = 1

\* No context of a project holds a scope of a level above its own
\* (src/src/ciadmin/check/check_grants.py:137), whichever roles cover it.
ContextsAtTheirLevel ==
  LET p == config.project
      granted == ProjectGrants(config.grant, p)
  IN Fresh /\ Orderly(p) /\ ~Raises(config) =>
       \A c \in ProjectContexts(p) :
         \A e \in HeldBy(p, c, granted) : e.level <= ContextLevel(p, c)

\* And whoever fires a push or cron hook reaches only scopes of the level its tasks
\* have, unless branches of several levels nest.
HooksAtTheirLevel ==
  LET p == config.project
      granted == ProjectGrants(config.grant, p)
      nested == \E a, b \in ToSet(p.branches) :
                  a.level # b.level /\ GlobMatch(a.name, b.name)
  IN Fresh /\ ~nested /\ ~Starred(p) /\ ~Raises(config) =>
       \A h \in ProjectHooks(p) :
         \A e \in Assumed(h.assumes, granted) : e.level <= h.level

\* Neither a task nor whoever fires a hook comes by scopes above its level.
LevelsSeparated == ContextsAtTheirLevel /\ HooksAtTheirLevel

\* Grants to trusted pull requests do not reach untrusted ones, nor the other way
\* round; a pull request holds only what was granted to its own kind or to every
\* job, and with include_pull_requests false nothing (but the `*` of a project
\* whose default branch is level 1).
PullRequestsAsGranted ==
  LET p == config.project
      g == config.grant
      granted == ProjectGrants(g, p)
  IN Fresh /\ ~Starred(p) /\ ~Raises(config) =>
       \A c \in {x \in ProjectContexts(p) : x.kind = "pull-request"} :
         HeldBy(p, c, granted) # {} =>
           /\ g.job \cap {EveryJob, PR("*"), c} # {}
           /\ g.include \/ (EveryJob \in g.job /\ DefaultBranchLevel(p) = 1)

\* Every context a grantee's jobs name, with its feature on and its level among
\* the grantee's, holds the scope at its own level: nothing asked for is lost on
\* the way. A branch is named by the entry of projects.yml that gives its level.
\* Left out: branch jobs of a Mercurial project under a level condition, and
\* pr-actions under one the default branch does not meet.
EveryJobServed ==
  LET p == config.project
      g == config.grant
      granted == ProjectGrants(g, p)
      NamesBranch(j, b, c) ==
        /\ GlobMatch(j.text, b.name) /\ GlobMatch(b.name, c.text)
        /\ IsGit(p) => b.level = ContextLevel(p, c)
      Names(j, c) ==
        \/ j.kind = "any"
        \/ j.kind = c.kind /\ IF c.kind = "branch"
                                THEN \E b \in ToSet(p.branches) : NamesBranch(j, b, c)
                                ELSE GlobMatch(j.text, c.text)
      Served(c) == \E e \in HeldBy(p, c, granted) : e.level = ContextLevel(p, c)
      Quirk(c) ==
        \/ c.kind = "branch" /\ ~IsGit(p) /\ g.level # {} /\ EveryJob \notin g.job
        \/ c.kind = "pr-action" /\ ~LevelMatch(g, DefaultBranchLevel(p))
  IN Fresh /\ ~Raises(config) /\ ~Starred(p) /\ ProjectMatch(g, p) =>
       \A c \in ProjectContexts(p) :
         /\ \E j \in g.job : Names(j, c)
         /\ LevelMatch(g, ContextLevel(p, c))
         /\ FeatureOn(p, c.kind) /\ (c.kind \in PRKinds => g.include)
         /\ ~Quirk(c)
         => Served(c)

\* tc-admin refuses a resource no pattern manages, so that one exclusion too many
\* would stop every deploy.
EverythingManaged ==
  Fresh /\ ~Raises(config) =>
    ManagedIds(config, IdsOf(Wanted(config))) = IdsOf(Wanted(config))
-----------------------------------------------------------------------------
(* Properties of deploys.                                                   *)

\* After a deploy that ended well, every context of every project holds exactly
\* what the configuration deployed grants: what an earlier configuration, or a
\* deploy that died half way, left behind is revoked.
PrivilegesRevoked ==
  \A d \in deployed :
    LET RolesOf(rs) == {[role |-> r.id.text, holds |-> r.holds] :
                          r \in {x \in rs : x.id.kind = "Role"}}
        now    == RolesOf(service)
        wanted == RolesOf(Wanted(d))
    IN \A c \in Configs : \A x \in ProjectContexts(c.project) :
         HeldBy(c.project, x, now) = HeldBy(c.project, x, wanted)

\* What a deploy that ended well leaves beside the resources asked for: others'
\* resources, those of ours that lie in the others' namespaces, and roles of role
\* grantees that no other pattern covers. With EverythingManaged it says that the
\* managed patterns are those of this repository's resources and, so far, no more.
NothingElseLeft ==
  \A d \in deployed : LET wanted == Wanted(d) IN \A r \in service \ wanted :
    \/ \E e \in External : Begins(e, r.id)
    \/ r.id.kind = "Role" /\ \E c \in Configs : r.id.text \in c.roles

\* Everything generated is managed, and a deploy leaves nothing managed beside it.
Leftovers == EverythingManaged /\ NothingElseLeft

\* A deploy never changes or deletes a resource of the other repository, but for
\* clients and for roles whose id extends one that has grants.
OthersKept ==
  [][\A d \in deploy : deploy' # deploy =>
       \A r \in service \ service' :
         r.id \in OtherIds =>
           \/ r.id.kind = "Client"
           \/ \E g \in GrantedRoles(d.config) : IsPrefix(g, r.id.text)]_vars

\* externally-managed.yml:2: they "should NOT be deleted by tc-admin".
ExternalKept ==
  [][deploy' # deploy => \A r \in service \ service' : r.id \notin OtherIds]_vars
=============================================================================
