-------------------------------- MODULE Grants --------------------------------
(***************************************************************************)
(* From grants.d, projects.yml and hooks to the scopes of roles.            *)
(*   src/src/ciadmin/generate/grants.py, src/src/ciadmin/util/matching.py   *)
(*   src/src/ciadmin/generate/ciconfig/projects.py, and the roles of        *)
(*   cron_tasks.py, hg_pushes.py, git_pushes.py                             *)
(* Names, patterns and role ids are sequences of words, of which a last "*" *)
(* stands for anything: `branch:release*` is <<"branch", "release", "*">>.  *)
(* A grant has one scope, with {level} in it; a grantee holds one scope.     *)
(*                                                                         *)
(* A project p: p.is holds what conditions are compared with (alias,        *)
(* repo_type, ...), p.access the level its access stands for or NoLevel,    *)
(* p.policy the pull-request policy or "", and a path that ends with "*" is *)
(* an organisation. A grantee g: g.where has its conditions, each with the  *)
(* values it accepts, g.wants and g.shuns its features f and !f, g.level is *)
(* {} without such a condition, g.include is include_pull_requests.         *)
(***************************************************************************)
EXTENDS Integers, SequencesExt

NoLevel == 0
Star    == <<"*">>

\* glob_match with one pattern.
GlobMatch(g, name) == g = name \/ (Last(g) = "*" /\ IsPrefix(Front(g), name))

IsGit(p)   == p.is["repo_type"] = "git"
Starred(p) == Last(p.path) = "*"

\* Git projects have the levels of their branches, Mercurial ones their access's.
ValidProject(p) ==
  /\ IsGit(p) => p.access = NoLevel
  /\ \A b \in ToSet(p.branches) : IF IsGit(p) THEN b.level \in 1..3 ELSE b.level = NoLevel

\* get_level: the level of the access, else of the first branch that matches.
GetLevel(p, name) ==
  LET hits == {i \in DOMAIN p.branches : GlobMatch(p.branches[i].name, name)}
  IN IF p.access # NoLevel THEN p.access
     ELSE IF hits = {} THEN NoLevel
     ELSE p.branches[CHOOSE i \in hits : \A k \in hits : i <= k].level

DefaultBranchLevel(p) == GetLevel(p, p.default)

\* match on a level: no condition, or one of its values.
LevelMatch(g, level) == g.level = {} \/ level \in g.level

FeatureMatch(g, p) == g.wants \subseteq p.features /\ g.shuns \cap p.features = {}

\* A level is a condition on a project that has an access, as Mercurial ones have
\* and git ones have not; one whose access stands for no level then never matches.
ProjectMatch(g, p) ==
  /\ \A c \in DOMAIN g.where : p.is[c] \in g.where[c]
  /\ ~IsGit(p) => LevelMatch(g, DefaultBranchLevel(p))
  /\ FeatureMatch(g, p)
-----------------------------------------------------------------------------
(* Which jobs that are not branches a grantee gets (add_scopes_for_projects).*)

EveryJob   == [kind |-> "any", text |-> Star]
PR(which)  == [kind |-> "pull-request", text |-> <<which>>]
SplitKinds == {"cron", "action", "pr-action", "release"}
PRKinds    == {"pull-request", "pr-action"}

\* GitHub mixes pull requests and other tasks under one prefix, so `*` is split
\* unless the default branch is level 1.
Split(jobs, p) ==
  IF EveryJob \in jobs /\ IsGit(p) /\ DefaultBranchLevel(p) # 1
    THEN (jobs \ {EveryJob}) \cup {PR("*")}
         \cup {[kind |-> k, text |-> Star] : k \in SplitKinds}
    ELSE jobs

FeatureOn(p, kind) ==
  /\ kind = "cron" => "taskgraph-cron" \in p.features
  /\ kind = "action" => p.features \cap {"taskgraph-actions", "gecko-actions"} # {}
  /\ kind = "pr-action" => "pr-actions" \in p.features

\* Pull requests are granted scopes where that makes sense, at level 1.
PRsIncluded(g, p) == IsGit(p) /\ p.policy # "" /\ g.include /\ LevelMatch(g, 1)

\* Mutant: the policy is not looked at.
AllowedByPolicyAlways(p, j) == TRUE

\* public has no trusted pull requests, collaborators no untrusted ones.
AllowedByPolicy(p, j) ==
  /\ p.policy = "public" => j # PR("trusted")
  /\ p.policy = "collaborators" => j # PR("untrusted")

NonBranchJobs(g, p) ==
  LET kept  == {j \in Split({i \in g.job : i.kind # "branch"}, p) :
                  FeatureOn(p, j.kind) /\ (j.kind \in PRKinds => PRsIncluded(g, p))}
      pulls == IF PR("*") \in kept THEN {PR("trusted"), PR("untrusted")} ELSE {}
  IN {j \in (kept \ {PR("*")}) \cup pulls : AllowedByPolicy(p, j)}

\* Mutant: pull requests are filtered by the level of the default branch too.
JobMatchAll(g, p, j) == IsGit(p) => LevelMatch(g, DefaultBranchLevel(p))

\* The level of the default branch filters, except pull requests.
JobMatch(g, p, j) ==
  IsGit(p) /\ j.kind # "pull-request" => LevelMatch(g, DefaultBranchLevel(p))

\* Mutant: pr-actions keep the level of the default branch.
JobLevelPRsOnly(p, j) == IF j.kind = "pull-request" THEN 1 ELSE DefaultBranchLevel(p)

\* What {level} stands for: pull requests and their actions are level 1.
JobLevel(p, j) == IF j.kind \in PRKinds THEN 1 ELSE DefaultBranchLevel(p)
-----------------------------------------------------------------------------
(* Which scopes which roles get.                                            *)

\* format_role_id. All pull requests share a role but for the untrusted ones of a
\* public_restricted project; an organisation has one role for everything.
FormatRoleId(path, policy, j) ==
  IF Last(path) = "*" THEN path
  ELSE IF j.kind = "any" THEN path \o Star
  ELSE IF j.kind # "pull-request" THEN path \o <<j.kind>> \o j.text
  ELSE IF j = PR("untrusted") /\ policy = "public_restricted"
         THEN Append(path, "pull-request-untrusted")
         ELSE Append(path, "pull-request")

RoleId(p, j) == FormatRoleId(p.path, p.policy, j)

BranchRole(p, name) == RoleId(p, [kind |-> "branch", text |-> name])

\* The branches of the project for which a branch job of the grantee, or `*`, asks.
BranchesGranted(g, p) ==
  {b \in ToSet(p.branches) :
     /\ LevelMatch(g, b.level) /\ LevelMatch(g, GetLevel(p, b.name))
     /\ \E j \in g.job : j.kind = "any" \/ (j.kind = "branch" /\ GlobMatch(j.text, b.name))}

JobsGranted(g, p) == {j \in NonBranchJobs(g, p) : JobMatch(g, p, j)}

\* add_scopes_for_projects, for one project.
ProjectGrants(g, p) ==
  IF ~ProjectMatch(g, p) THEN {}
  ELSE {[role |-> RoleId(p, j), level |-> JobLevel(p, j)] : j \in JobsGranted(g, p)}
       \cup {[role |-> BranchRole(p, b.name), level |-> GetLevel(p, b.name)] :
               b \in BranchesGranted(g, p)}

\* `pull-request` alone is refused, and a job or branch without a level a KeyError.
GrantRaises(g, p) ==
  /\ ProjectMatch(g, p)
  /\ \/ [kind |-> "pull-request", text |-> << >>] \in g.job
     \/ JobsGranted(g, p) # {} /\ DefaultBranchLevel(p) = NoLevel
     \/ \E b \in BranchesGranted(g, p) : GetLevel(p, b.name) = NoLevel

\* Mutant: the hook of a branch takes the role of all of them.
PushRoleOfAll(p, name) == BranchRole(p, Star)

\* The role the git-push hook of a branch assumes.
PushRole(p, name) == BranchRole(p, name)

\* The id of that hook has no `*`: `release` and `release*` share one.
PushHookName(p, name) ==
  <<"git-push", p.is["alias"]>> \o (IF Last(name) = "*" THEN Front(name) ELSE name)

\* What a hook of the project assumes, and the level its tasks have.
ProjectHook(name, role, level) == [name |-> name, assumes |-> role, level |-> level]

HgPushHooks(p) ==
  {ProjectHook(<<n, p.is["alias"]>>, BranchRole(p, Star), DefaultBranchLevel(p)) :
     n \in {"hg-push"} \cap p.features}

GitPushHooks(p) ==
  {ProjectHook(PushHookName(p, b.name), PushRole(p, b.name), b.level) :
     b \in {x \in ToSet(p.branches) : "git-push" \in p.features}}

\* One hook for all cron jobs and one for each target.
CronHooks(p) ==
  LET name == <<"project-releng", "cron-task", p.is["alias"]>>
      CronRole(text) == RoleId(p, [kind |-> "cron", text |-> text])
  IN IF "taskgraph-cron" \notin p.features THEN {}
     ELSE {ProjectHook(name, CronRole(Star), DefaultBranchLevel(p))}
          \cup {ProjectHook(Append(name, t), CronRole(<<t>>), DefaultBranchLevel(p)) :
                  t \in p.targets}

ProjectHooks(p) == HgPushHooks(p) \cup GitPushHooks(p) \cup CronHooks(p)
-----------------------------------------------------------------------------
(* Who holds what. A task of a project runs in a context; Taskcluster gives *)
(* it the scopes of every role that is the context's, or ends with `*` and  *)
(* is a prefix of it.                                                      *)

\* The contexts of a project: pushes to the branches in names, the other tasks,
\* and pull requests as its policy has them.
Contexts(p, names) ==
  {[kind |-> "branch", text |-> b] : b \in {n \in names : GetLevel(p, n) # NoLevel}}
  \cup {[kind |-> k, text |-> <<"nightly">>] : k \in SplitKinds \ {"pr-action"}}
  \cup (IF IsGit(p) /\ p.policy # ""
          THEN {c \in {PR("trusted"), PR("untrusted"),
                       [kind |-> "pr-action", text |-> <<"nightly">>]} :
                  AllowedByPolicy(p, c)}
          ELSE {})

ContextLevel(p, c) ==
  IF c.kind \in PRKinds THEN 1
  ELSE IF c.kind = "branch" THEN GetLevel(p, c.text) ELSE DefaultBranchLevel(p)

\* The role of a context; a repository of an organisation is not starred.
ContextRole(p, c) ==
  FormatRoleId(IF Starred(p) THEN Front(p.path) \o <<"repo">> ELSE p.path, p.policy, c)

Held(role, granted) == {e \in granted : GlobMatch(e.role, role)}

\* assume: of a role that ends with `*` assumes every role it covers too.
Assumed(role, granted) ==
  {e \in granted : GlobMatch(e.role, role) \/ GlobMatch(role, e.role)}
=============================================================================
