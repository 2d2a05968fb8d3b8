-------------------------- MODULE MCManagedResources --------------------------
(* Small instances of ManagedResources.                                     *)
EXTENDS ManagedResources

Branch(name, level) == [name |-> name, level |-> level]
Features == {"taskgraph-cron", "taskgraph-actions", "pr-actions", "git-push"}

Git(branches, policy, features) ==
  [is |-> [alias |-> "app", repo_type |-> "git"], access |-> NoLevel,
   policy |-> policy, path |-> <<"repo", "app">>, branches |-> branches,
   default |-> <<"main">>, features |-> features, targets |-> {"nightly"}]

Hg(access) ==
  [is |-> [alias |-> "central", repo_type |-> "hg"], access |-> access,
   policy |-> "", path |-> <<"repo", "central">>,
   branches |-> <<Branch(Star, NoLevel), Branch(<<"default">>, NoLevel)>>,
   default |-> <<"default">>, features |-> {"hg-push", "gecko-actions"}, targets |-> {}]

Policies == {"", "public", "collaborators", "public_restricted"}

\* Levels by name, a level 1 catch-all after or before, patterns that nest in
\* order or out of order, a `*` all of level 1, a default branch without a level,
\* and names that lose their `*`.
Layouts ==
  {<<Branch(<<"main">>, 3), Branch(<<"release", "*">>, 3), Branch(Star, 1)>>,
   <<Branch(<<"main">>, 1), Branch(<<"release", "*">>, 3)>>,
   <<Branch(Star, 1), Branch(<<"main">>, 3)>>,
   <<Branch(<<"main">>, 3), Branch(<<"release", "1">>, 1), Branch(<<"release", "*">>, 3)>>,
   <<Branch(Star, 1)>>,
   <<Branch(<<"release", "*">>, 3)>>,
   <<Branch(<<"main">>, 3), Branch(<<"release">>, 3), Branch(<<"release", "*">>, 3)>>}

Organisation ==
  [Git(<<Branch(<<"main">>, 1)>>, "public_restricted", {"taskgraph-actions"})
     EXCEPT !.path = <<"repo", "org", "*">>]

SomeProjects ==
  {Git(b, "public_restricted", f) : b \in Layouts, f \in {{}, Features}}
  \cup {Git(CHOOSE b \in Layouts : Len(b) = 1 /\ b[1].level = 1, y, Features) : y \in Policies}
  \cup {Git(<<Branch(<<"main">>, 3), Branch(Star, 1)>>, y, Features) : y \in Policies}
  \cup {Organisation} \cup {Hg(l) : l \in {NoLevel, 1, 3}}

Job(kind, text) == [kind |-> kind, text |-> text]
SomeJobs ==
  {{EveryJob}, {Job("branch", Star)}, {Job("branch", <<"main">>), Job("cron", Star)},
   {Job("branch", <<"release", "*">>)}, {Job("cron", <<"nightly">>)},
   {Job("action", Star), Job("release", Star)}, {Job("pr-action", Star)},
   {PR("*")}, {PR("trusted")}, {PR("untrusted"), Job("branch", <<"main">>)},
   {Job("pull-request", << >>)}}

Grantee(where, level, wants, shuns, job, include) ==
  [where |-> where, level |-> level, wants |-> wants, shuns |-> shuns,
   job |-> job, include |-> include]
Anyone == [c \in {} |-> {}]

SomeGrantees ==
  {Grantee(Anyone, l, {}, {}, j, i) :
     l \in {{}, {1}, {3}, {1, 3}}, j \in SomeJobs, i \in BOOLEAN}
  \cup {Grantee([repo_type |-> {"git"}], {}, w, s, {EveryJob}, TRUE) :
          w \in {{}, {"pr-actions"}}, s \in {{}, {"git-push"}}}

Configuration(p, g, roles, own) == [project |-> p, grant |-> g, roles |-> roles, own |-> own]

ProposedConfigs == {Configuration(p, g, {}, {}) : p \in SomeProjects, g \in SomeGrantees}

\* A level 3 project with a client, a pool and a hook among the others'; the same
\* project at level 1, roles of role grantees instead, one of which the ids of
\* others extend.
Generous == Grantee(Anyone, {}, {}, {}, {EveryJob}, TRUE)

First == Configuration(Git(<<Branch(<<"main">>, 3)>>, "public", {}),
  Grantee(Anyone, {3}, {}, {}, {EveryJob}, TRUE), {},
  {Id("Client", <<"project/fuzzing", "ours">>), Id("WorkerPool", <<"gecko", "build">>),
   Id("Hook", <<"project-fuzzing", "bugmon">>)})
Lowered == Configuration(Git(<<Branch(<<"main">>, 1)>>, "public", {}), Generous,
  {<<"worker-pool", "gecko">>, <<"project", "fuzzing">>}, {})

MainConfigs   == {First, Lowered}
WithoutRoles  == {First}
NoProposals   == {}

Theirs == {Id("Client", <<"project/fuzzing", "theirs">>),
           Id("Hook", <<"project-fuzzing", "linux-pool">>),
           Id("WorkerPool", <<"proj-fuzzing", "ci">>),
           Id("Role", <<"project", "fuzzing", ":", "grizzly">>),
           Id("Role", <<"hook-id", "project-fuzzing", "linux-pool">>)}
OneOfEach == {t \in Theirs : t.kind # "WorkerPool" /\ t.text[1] # "hook-id"}

Words == STRING
Names == {<<"main">>, <<"release">>, <<"release", "1">>, <<"topic">>, <<"default">>}
=============================================================================
