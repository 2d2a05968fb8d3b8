------------------------ MODULE ManagedResources_proofs ------------------------
(***************************************************************************)
(* Theorems about deploys: what they leave behind and what they keep, for   *)
(* any configurations and any resources of the other repository; and about  *)
(* who is granted what.                                                     *)
(***************************************************************************)
EXTENDS ManagedResources, SequenceTheorems, FiniteSetTheorems, WellFoundedInduction, TLAPS

-----------------------------------------------------------------------------
(* Names: their first words tell the namespaces apart.                     *)

Config == Configs \cup Proposals

LEMMA TextTypes ==
  ASSUME NEW t \in Text
  PROVE  t \in Seq(Word) /\ Len(t) \in Nat \ {0} /\ t[1] \in Word
<1>1. t \in Seq(Word) /\ Len(t) \in Nat \ {0}
  BY EmptySeq DEF Text
<1>2. QED BY <1>1

LEMMA Words ==
  /\ \A w \in Word : <<w>> \in Text /\ Len(<<w>>) = 1 /\ <<w>>[1] = w
  /\ Star \in Text
BY WordAssumption DEF Text, Star

LEMMA PrefixPointwise ==
  ASSUME NEW s \in Seq(Word), NEW t \in Seq(Word)
  PROVE  IsPrefix(s, t) <=> Len(s) <= Len(t) /\ \A i \in 1 .. Len(s) : s[i] = t[i]
<1>1. Len(s) \in Nat /\ Len(t) \in Nat OBVIOUS
<1>2. ASSUME Len(s) <= Len(t)
      PROVE  SubSeq(s, 1, Len(s)) = SubSeq(t, 1, Len(s))
             <=> \A i \in 1 .. Len(s) : s[i] = t[i]
  BY <1>1, <1>2
<1>3. QED BY <1>2 DEF IsPrefix

LEMMA FirstWord ==
  ASSUME NEW w \in Word, NEW t \in Text
  PROVE  IsPrefix(<<w>>, t) <=> t[1] = w
<1> DEFINE s == <<w>>
<1>1. /\ s \in Seq(Word) /\ Len(s) = 1 /\ s[1] = w
      /\ t \in Seq(Word) /\ Len(t) \in Nat \ {0}
  BY TextTypes, Words
<1>2. SUFFICES IsPrefix(s, t) <=> t[1] = w
  OBVIOUS
<1> HIDE DEF s
<1>3. IsPrefix(s, t) <=> Len(s) <= Len(t) /\ \A i \in 1 .. Len(s) : s[i] = t[i]
  BY <1>1, PrefixPointwise
<1>4. QED BY <1>1, <1>3

LEMMA Appended ==
  ASSUME NEW p \in Text, NEW x \in Seq(Word)
  PROVE  p \o x \in Text /\ (p \o x)[1] = p[1] /\ IsPrefix(p, p \o x)
<1>1. p \in Seq(Word) /\ Len(p) \in Nat \ {0} /\ Len(x) \in Nat BY TextTypes
<1>2. /\ p \o x \in Seq(Word) /\ Len(p \o x) = Len(p) + Len(x)
      /\ \A i \in 1 .. Len(p) : (p \o x)[i] = p[i]
  BY <1>1, ConcatProperties
<1>3. p \o x # << >> BY <1>1, <1>2
<1>4. (p \o x)[1] = p[1] BY <1>1, <1>2
<1>5. IsPrefix(p, p \o x)
  <2> DEFINE t == p \o x
  <2>1. /\ t \in Seq(Word) /\ Len(p) <= Len(t) /\ p \in Seq(Word)
        /\ \A i \in 1 .. Len(p) : p[i] = t[i]
    BY <1>1, <1>2
  <2> HIDE DEF t
  <2>2. IsPrefix(p, t) BY <2>1, PrefixPointwise
  <2>3. QED BY <2>2 DEF t
<1>6. QED BY <1>2, <1>3, <1>4, <1>5 DEF Text

LEMMA PrefixOfItself == ASSUME NEW t \in Text PROVE IsPrefix(t, t)
BY TextTypes, PrefixPointwise

LEMMA HookRoles ==
  ASSUME NEW n \in Text, NEW name \in Text, IsPrefix(n, name)
  PROVE  /\ IsPrefix(HookRole(n), HookRole(name))
         /\ HookRole(name) \in Text /\ HookRole(name)[1] = "hook-id"
<1>1. /\ n \in Seq(Word) /\ Len(n) \in Nat /\ name \in Seq(Word) /\ Len(name) \in Nat
      /\ Len(n) <= Len(name) /\ \A i \in 1 .. Len(n) : n[i] = name[i]
  BY TextTypes, PrefixPointwise
<1> DEFINE h == <<"hook-id">>
<1>2. h \in Text /\ h \in Seq(Word) /\ Len(h) = 1 /\ h[1] = "hook-id"
  BY Words, WordAssumption, TextTypes
<1>a. \A m : HookRole(m) = h \o m BY DEF HookRole
<1> HIDE DEF h
<1>3. ASSUME NEW m \in Seq(Word)
      PROVE  /\ HookRole(m) \in Text /\ HookRole(m)[1] = "hook-id"
             /\ HookRole(m) \in Seq(Word) /\ Len(HookRole(m)) = 1 + Len(m)
             /\ \A i \in 1 .. 1 + Len(m) :
                  HookRole(m)[i] = IF i <= 1 THEN h[i] ELSE m[i - 1]
  <2>1. /\ h \o m \in Text /\ (h \o m)[1] = h[1]
    BY <1>2, Appended
  <2>2. /\ h \o m \in Seq(Word) /\ Len(h \o m) = Len(h) + Len(m)
        /\ \A i \in 1 .. Len(h) + Len(m) :
             (h \o m)[i] = IF i <= Len(h) THEN h[i] ELSE m[i - Len(h)]
    BY <1>2, ConcatProperties
  <2>3. QED BY <1>2, <1>a, <2>1, <2>2
<1>4. \A i \in 1 .. 1 + Len(n) : HookRole(n)[i] = HookRole(name)[i]
  <2> SUFFICES ASSUME NEW i \in 1 .. 1 + Len(n) PROVE HookRole(n)[i] = HookRole(name)[i]
    OBVIOUS
  <2>1. CASE i = 1 BY <1>1, <1>3, <2>1
  <2>2. CASE i # 1
    <3>1. i - 1 \in 1 .. Len(n) /\ i \in 1 .. 1 + Len(name) BY <1>1, <2>2
    <3>2. HookRole(n)[i] = n[i - 1] /\ HookRole(name)[i] = name[i - 1]
      BY <1>1, <1>3, <2>2, <3>1
    <3>3. QED BY <1>1, <3>1, <3>2
  <2>3. QED BY <2>1, <2>2
<1>5. IsPrefix(HookRole(n), HookRole(name))
  <2>1. /\ HookRole(n) \in Seq(Word) /\ HookRole(name) \in Seq(Word)
        /\ Len(HookRole(n)) = 1 + Len(n) /\ Len(HookRole(n)) <= Len(HookRole(name))
    BY <1>1, <1>3
  <2>2. QED BY <1>4, <2>1, PrefixPointwise
<1>6. QED BY <1>1, <1>3, <1>5

\* A pattern that covers a name begins with the same word, if it has a word.
LEMMA GlobFirst ==
  ASSUME NEW g \in Text, NEW t \in Text, GlobMatch(g, t), g[1] # "*"
  PROVE  g[1] = t[1]
<1>1. CASE g = t BY <1>1
<1>2. CASE Last(g) = "*" /\ IsPrefix(Front(g), t)
  <2>1. g \in Seq(Word) /\ Len(g) \in Nat \ {0} BY TextTypes
  <2>2. Len(g) > 1 BY <1>2, <2>1 DEF Last
  <2>3. /\ Front(g) \in Seq(Word) /\ Len(Front(g)) = Len(g) - 1
        /\ Front(g)[1] = g[1]
    BY <2>1, <2>2 DEF Front
  <2>4. t \in Seq(Word) BY TextTypes
  <2>5. Front(g)[1] = t[1] BY <1>2, <2>1, <2>2, <2>3, <2>4, PrefixPointwise
  <2>6. QED BY <2>3, <2>5
<1>3. QED BY <1>1, <1>2 DEF GlobMatch

\* Roles of a project begin like its path.
LEMMA RoleNames ==
  ASSUME NEW path \in Text, NEW policy, NEW j, j.kind \in Word, j.text \in Seq(Word)
  PROVE  /\ FormatRoleId(path, policy, j) \in Text
         /\ FormatRoleId(path, policy, j)[1] = path[1]
<1>1. ASSUME NEW x \in Seq(Word)
      PROVE  path \o x \in Text /\ (path \o x)[1] = path[1]
  BY <1>1, Appended
<1>2. ASSUME NEW w \in Word
      PROVE  Append(path, w) \in Text /\ Append(path, w)[1] = path[1]
  BY <1>2, TextTypes DEF Text
<1>3. path \o Star \in Text /\ (path \o Star)[1] = path[1]
  BY <1>1, Words DEF Text
<1>4. /\ path \o <<j.kind>> \o j.text \in Text
      /\ (path \o <<j.kind>> \o j.text)[1] = path[1]
  <2>1. path \o <<j.kind>> \in Text /\ (path \o <<j.kind>>)[1] = path[1]
    BY <1>1, Words DEF Text
  <2>2. QED BY <2>1, Appended
<1>5. "pull-request" \in Word /\ "pull-request-untrusted" \in Word
  BY WordAssumption
<1>6. CASE Last(path) = "*" BY <1>6 DEF FormatRoleId
<1>7. CASE Last(path) # "*" /\ j.kind = "any" BY <1>3, <1>7 DEF FormatRoleId
<1>8. CASE Last(path) # "*" /\ j.kind # "any" /\ j.kind # "pull-request"
  BY <1>4, <1>8 DEF FormatRoleId
<1>9. CASE Last(path) # "*" /\ j.kind # "any" /\ j.kind = "pull-request"
  <2>1. \/ FormatRoleId(path, policy, j) = Append(path, "pull-request-untrusted")
        \/ FormatRoleId(path, policy, j) = Append(path, "pull-request")
    BY <1>9 DEF FormatRoleId
  <2>2. \A w \in Word : Append(path, w) \in Text /\ Append(path, w)[1] = path[1]
    BY <1>2
  <2> DEFINE f == FormatRoleId(path, policy, j)
  <2>3. CASE f = Append(path, "pull-request-untrusted") BY <1>5, <2>2, <2>3
  <2>4. CASE f = Append(path, "pull-request") BY <1>5, <2>2, <2>4
  <2>5. QED BY <2>1, <2>3, <2>4
<1>10. QED BY <1>6, <1>7, <1>8, <1>9

LEMMA JobTypes ==
  ASSUME NEW c \in Config, NEW j \in JobsGranted(c.grant, c.project)
  PROVE  j.kind \in Word /\ j.text \in Seq(Word)
<1>1. j \in NonBranchJobs(c.grant, c.project) BY DEF JobsGranted
<1>2. \A i \in c.grant.job : i.kind \in Word /\ i.text \in Seq(Word)
  BY ConfigAssumption DEF Config
<1>3. \A w \in Word : PR(w).kind \in Word /\ PR(w).text \in Seq(Word)
  BY Words, WordAssumption DEF PR, Text
<1>4. \A k \in SplitKinds : k \in Word BY WordAssumption
<1>5. \A i \in Split({x \in c.grant.job : x.kind # "branch"}, c.project) :
        i.kind \in Word /\ i.text \in Seq(Word)
  BY <1>2, <1>3, <1>4, Words, WordAssumption DEF Split, Text
<1>6. \/ j \in Split({x \in c.grant.job : x.kind # "branch"}, c.project)
      \/ j \in {PR("trusted"), PR("untrusted")}
  BY <1>1 DEF NonBranchJobs
<1>7. "trusted" \in Word /\ "untrusted" \in Word BY WordAssumption
<1>8. QED BY <1>3, <1>5, <1>6, <1>7

\* What a project grantee is granted goes to roles of repositories.
LEMMA GrantNames ==
  ASSUME NEW c \in Config, NEW e \in ProjectGrants(c.grant, c.project)
  PROVE  e.role \in Text /\ e.role[1] = "repo"
<1>1. c.project.path \in Text /\ c.project.path[1] = "repo"
  BY ConfigAssumption DEF Config
<1>2. ASSUME NEW j \in JobsGranted(c.grant, c.project), e.role = RoleId(c.project, j)
      PROVE  e.role \in Text /\ e.role[1] = "repo"
  BY <1>1, <1>2, JobTypes, RoleNames DEF RoleId
<1>3. ASSUME NEW b \in BranchesGranted(c.grant, c.project),
             e.role = BranchRole(c.project, b.name)
      PROVE  e.role \in Text /\ e.role[1] = "repo"
  <2>1. b.name \in Seq(Word)
    BY ConfigAssumption DEF Config, BranchesGranted, Text
  <2> DEFINE j == [kind |-> "branch", text |-> b.name]
  <2>2. j.kind \in Word /\ j.text \in Seq(Word)
    BY <2>1, WordAssumption
  <2>3. e.role = FormatRoleId(c.project.path, c.project.policy, j)
    BY <1>3 DEF RoleId, BranchRole
  <2> HIDE DEF j
  <2>4. QED BY <1>1, <2>2, <2>3, RoleNames
<1>4. QED BY <1>2, <1>3 DEF ProjectGrants

\* The role of a context is one of a repository.
LEMMA ContextNames ==
  ASSUME NEW c \in Config, NEW x \in ProjectContexts(c.project)
  PROVE  ContextRole(c.project, x) \in Text /\ ContextRole(c.project, x)[1] = "repo"
<1>1. c.project.path \in Text /\ c.project.path[1] = "repo" /\ BranchNames \subseteq Text
  BY ConfigAssumption DEF Config
<1>2. x.kind \in Word /\ x.text \in Seq(Word)
  <2>1. <<"nightly">> \in Seq(Word) BY Words, WordAssumption DEF Text
  <2>2. PR("trusted") \in [kind : Word, text : Seq(Word)]
        /\ PR("untrusted") \in [kind : Word, text : Seq(Word)]
    BY Words, WordAssumption DEF PR, Text
  <2>3. ASSUME NEW b \in BranchNames PROVE b \in Seq(Word) BY <1>1, <2>3 DEF Text
  <2>4. "branch" \in Word /\ SplitKinds \subseteq Word /\ "pr-action" \in Word
    BY WordAssumption DEF SplitKinds
  <2>5. \/ \E b \in BranchNames : x = [kind |-> "branch", text |-> b]
        \/ \E k \in SplitKinds : x = [kind |-> k, text |-> <<"nightly">>]
        \/ x \in {PR("trusted"), PR("untrusted"),
                  [kind |-> "pr-action", text |-> <<"nightly">>]}
    BY DEF ProjectContexts, Contexts
  <2>6. ASSUME NEW b \in BranchNames, x = [kind |-> "branch", text |-> b]
        PROVE  x.kind \in Word /\ x.text \in Seq(Word)
    BY <2>3, <2>4, <2>6
  <2>7. ASSUME NEW k \in SplitKinds, x = [kind |-> k, text |-> <<"nightly">>]
        PROVE  x.kind \in Word /\ x.text \in Seq(Word)
    BY <2>1, <2>4, <2>7
  <2>8. CASE x \in {PR("trusted"), PR("untrusted"),
                   [kind |-> "pr-action", text |-> <<"nightly">>]}
    <3>1. CASE x = [kind |-> "pr-action", text |-> <<"nightly">>]
      BY <2>7, <3>1 DEF SplitKinds
    <3>2. CASE x = PR("trusted") BY <2>2, <3>2
    <3>3. CASE x = PR("untrusted") BY <2>2, <3>3
    <3>4. QED BY <2>8, <3>1, <3>2, <3>3
  <2>9. QED BY <2>5, <2>6, <2>7, <2>8
<1>3. ASSUME Starred(c.project)
      PROVE  /\ Front(c.project.path) \o <<"repo">> \in Text
             /\ (Front(c.project.path) \o <<"repo">>)[1] = "repo"
  <2>1. Len(c.project.path) > 1
    BY <1>1, <1>3, TextTypes DEF Starred, Last
  <2>2. Front(c.project.path) \in Text /\ Front(c.project.path)[1] = "repo"
    <3>1. /\ c.project.path \in Seq(Word) /\ Len(c.project.path) \in Nat
          /\ \A i \in 1 .. Len(c.project.path) : c.project.path[i] \in Word
      BY <1>1, TextTypes
    <3>2. /\ Front(c.project.path) \in Seq(Word)
          /\ Len(Front(c.project.path)) = Len(c.project.path) - 1
          /\ \A i \in 1 .. Len(c.project.path) - 1 :
               Front(c.project.path)[i] = c.project.path[i]
      BY <2>1, <3>1, SubSeqProperties DEF Front
    <3>3. Front(c.project.path) # << >> BY <2>1, <3>1, <3>2, EmptySeq
    <3>4. QED BY <1>1, <2>1, <3>1, <3>2, <3>3 DEF Text
  <2>3. QED BY <2>2, Appended, Words DEF Text
<1>4. QED BY <1>1, <1>2, <1>3, RoleNames DEF ContextRole
-----------------------------------------------------------------------------
(***************************************************************************)
(* What the patterns of a configuration cover.                             *)
(***************************************************************************)
Managed(c, id) == \E pat \in Patterns(c) : Matches(pat, id)
IsExternal(id) == \E e \in External : Begins(e, id)

LEMMA ManagedIdsAre ==
  ASSUME NEW c, NEW ids PROVE ManagedIds(c, ids) = {id \in ids : Managed(c, id)}
BY DEF ManagedIds, Managed

\* A pattern without exclusions; with them; for one id.
LEMMA PrefixCovers ==
  ASSUME NEW id, NEW text, IsPrefix(text, id.text)
  PROVE  Matches(Prefix(id.kind, text), id)
BY DEF Matches, Begins, Prefix

LEMMA ExclusionsCover ==
  ASSUME NEW id, NEW text, IsPrefix(text, id.text)
  PROVE  Matches(ManageWithExclusions(id.kind, text), id) \/ IsExternal(id)
BY DEF Matches, Begins, Prefix, ManageWithExclusions, IsExternal

LEMMA IndividualCovers ==
  ASSUME NEW id PROVE Matches(ManageIndividual(id.kind, id.text), id)
BY DEF Matches, Begins, Prefix, ManageIndividual

\* The patterns of which every configuration has all.
LEMMA CommonPatterns ==
  ASSUME NEW c
  PROVE  /\ Prefix("Role", <<"repo">>) \in Patterns(c)
         /\ ManageWithExclusions("Role", <<"hook-id">>) \in Patterns(c)
         /\ ManageWithExclusions("Hook", << >>) \in Patterns(c)
         /\ ManageWithExclusions("WorkerPool", << >>) \in Patterns(c)
         /\ Prefix("Role", <<"mozilla-group">>) \in Patterns(c)
         /\ ClientPatterns \subseteq Patterns(c)
BY DEF Patterns, GrantPatterns, HookPatterns, PoolPatterns

LEMMA EmptyPrefix == ASSUME NEW t \in Text PROVE IsPrefix(<< >>, t)
<1>1. t \in Seq(Word) /\ Len(t) \in Nat BY TextTypes
<1>2. Len(<< >>) = 0 /\ SubSeq(<< >>, 1, 0) = << >> /\ SubSeq(t, 1, 0) = << >>
  BY <1>1
<1>3. QED BY <1>1, <1>2 DEF IsPrefix

LEMMA ScmGroups ==
  ASSUME NEW l \in {"1", "2", "3"}
  PROVE  ScmGroup(l) \in Text /\ ScmGroup(l)[1] = "mozilla-group"
<1>1. "mozilla-group" \in Word /\ "active_scm_level" \in Word /\ l \in Word
  BY WordAssumption
<1>2. QED BY <1>1 DEF ScmGroup, Text

\* The hooks of a project have one of three first words.
LEMMA ProjectHookNames ==
  ASSUME NEW c \in Config, NEW h \in ProjectHooks(c.project)
  PROVE  /\ h.name \in Text
         /\ \E n \in {<<"project-releng", "cron-task">>, <<"git-push">>}
                   \cup {m \in {<<"hg-push">>} : "hg-push" \in c.project.features} :
              n \in Text /\ IsPrefix(n, h.name)
<1> DEFINE alias == c.project.is["alias"]
<1>0. /\ alias \in Word /\ c.project.targets \subseteq Word
      /\ \A b \in ToSet(c.project.branches) : b.name \in Text
      /\ "hg-push" \in Word /\ "git-push" \in Word
      /\ "project-releng" \in Word /\ "cron-task" \in Word
  BY ConfigAssumption, WordAssumption DEF Config
<1>1. CASE h \in HgPushHooks(c.project)
  <2>1. "hg-push" \in c.project.features /\ h.name = <<"hg-push", alias>>
    BY <1>1 DEF HgPushHooks, ProjectHook
  <2>2. h.name \in Text /\ h.name[1] = "hg-push" BY <1>0, <2>1 DEF Text
  <2>3. <<"hg-push">> \in Text /\ IsPrefix(<<"hg-push">>, h.name)
    BY <1>0, <2>2, FirstWord, Words
  <2>4. QED BY <2>1, <2>2, <2>3
<1>2. CASE h \in GitPushHooks(c.project)
  <2>1. PICK b \in ToSet(c.project.branches) : h.name = PushHookName(c.project, b.name)
    BY <1>2 DEF GitPushHooks, ProjectHook
  <2>2. b.name \in Text BY <1>0
  <2>3. PICK x \in Seq(Word) : h.name = <<"git-push", alias>> \o x
    <3>1. Front(b.name) \in Seq(Word) /\ b.name \in Seq(Word)
      BY <2>2, TextTypes DEF Front
    <3>2. QED BY <2>1, <3>1 DEF PushHookName
  <2> DEFINE g == <<"git-push", alias>>
  <2>4. g \in Text /\ g[1] = "git-push" BY <1>0 DEF Text
  <2>5. h.name = g \o x BY <2>3
  <2> HIDE DEF g
  <2>6. h.name \in Text /\ h.name[1] = "git-push" BY <2>4, <2>5, Appended
  <2>7. <<"git-push">> \in Text /\ IsPrefix(<<"git-push">>, h.name)
    BY <1>0, <2>6, FirstWord, Words
  <2>8. QED BY <2>6, <2>7
<1>3. CASE h \in CronHooks(c.project)
  <2> DEFINE n == <<"project-releng", "cron-task">>
             m == <<"project-releng", "cron-task", alias>>
  <2>1. h.name = m \/ \E t \in c.project.targets : h.name = Append(m, t)
    <3>1. \/ \E r, l : h = ProjectHook(m, r, l)
          \/ \E t \in c.project.targets : \E r, l : h = ProjectHook(Append(m, t), r, l)
      BY <1>3 DEF CronHooks
    <3>2. QED BY <3>1 DEF ProjectHook
  <2>2. n \in Text /\ m \in Text /\ Len(n) = 2 /\ Len(m) = 3 /\ n[1] = m[1] /\ n[2] = m[2]
    BY <1>0 DEF Text
  <2> HIDE DEF n, m
  <2>3. h.name \in Seq(Word) /\ Len(h.name) \in Nat /\ Len(h.name) >= 3
        /\ h.name[1] = m[1] /\ h.name[2] = m[2]
    <3>1. CASE h.name = m
      <4>1. m \in Seq(Word) /\ Len(m) = 3 BY <2>2, TextTypes
      <4>2. QED BY <3>1, <4>1
    <3>2. ASSUME NEW t \in c.project.targets, h.name = Append(m, t)
          PROVE  h.name \in Seq(Word) /\ Len(h.name) \in Nat /\ Len(h.name) >= 3
                 /\ h.name[1] = m[1] /\ h.name[2] = m[2]
      BY <1>0, <2>2, <3>2, TextTypes, AppendProperties
    <3>3. QED BY <2>1, <3>1, <3>2
  <2>4. n \in Seq(Word) /\ \A i \in 1 .. Len(n) : n[i] = h.name[i]
    BY <2>2, <2>3, TextTypes
  <2>5. IsPrefix(n, h.name) BY <2>2, <2>3, <2>4, PrefixPointwise
  <2>6. h.name \in Text BY <2>3, EmptySeq DEF Text
  <2>7. QED BY <2>2, <2>5, <2>6 DEF n
<1>4. QED BY <1>1, <1>2, <1>3 DEF ProjectHooks

\* Where a resource comes from.
LEMMA WantedCases ==
  ASSUME NEW c \in Config, NEW w \in Wanted(c)
  PROVE  \/ \E r \in GrantedRoles(c) : w.id = Id("Role", r)
         \/ \E h \in OwnOf(c, "Hook") : w.id = Id("Hook", h) \/ w.id = Id("Role", HookRole(h))
         \/ \E t \in OwnOf(c, "Client") : w.id = Id("Client", t)
         \/ \E t \in OwnOf(c, "WorkerPool") : w.id = Id("WorkerPool", t)
         \/ \E h \in ProjectHooks(c.project) :
              w.id = Id("Hook", h.name) \/ w.id = Id("Role", HookRole(h.name))
         \/ \E l \in {"1", "2", "3"} : w.id = Id("Role", ScmGroup(l))
<1>1. CASE w \in GrantResources(c) BY <1>1 DEF GrantResources, Resource
<1>2. CASE w \in HookResources(c) BY <1>2 DEF HookResources, Resource
<1>3. CASE w \in ClientResources(c) BY <1>3 DEF ClientResources, Resource
<1>4. CASE w \in PoolResources(c) BY <1>4 DEF PoolResources, Resource
<1>5. CASE w \in ProjectHookResources(c.project)
  BY <1>5 DEF ProjectHookResources, Resource
<1>6. CASE w \in ScmGroupResources(c.project) BY <1>6 DEF ScmGroupResources, Resource
<1>7. QED BY <1>1, <1>2, <1>3, <1>4, <1>5, <1>6 DEF Wanted

LEMMA OwnNames ==
  ASSUME NEW c \in Config, NEW kind, NEW t \in OwnOf(c, kind)
  PROVE  /\ t \in Text /\ Id(kind, t) \in c.own
BY ConfigAssumption DEF Config, OwnOf, Id

LEMMA GrantedNames ==
  ASSUME NEW c \in Config, NEW r \in GrantedRoles(c)
  PROVE  r \in Text /\ (r[1] = "repo" \/ r \in c.roles)
BY ConfigAssumption, GrantNames DEF Config, GrantedRoles

\* Whatever a configuration asks for, it manages.
LEMMA WantedManaged ==
  ASSUME NEW c \in Config, NEW w \in Wanted(c)
  PROVE  Managed(c, w.id)
<1>1. ASSUME NEW r \in GrantedRoles(c), w.id = Id("Role", r) PROVE Managed(c, w.id)
  <2>1. Prefix("Role", r) \in Patterns(c) BY DEF Patterns, GrantPatterns
  <2>2. IsPrefix(r, r) BY GrantedNames, PrefixOfItself
  <2>3. w.id.kind = "Role" /\ w.id.text = r BY <1>1 DEF Id
  <2>4. Matches(Prefix("Role", r), w.id) BY <2>2, <2>3, PrefixCovers
  <2>5. QED BY <2>1, <2>4 DEF Managed
<1>2. ASSUME NEW h \in OwnOf(c, "Hook"),
             w.id = Id("Hook", h) \/ w.id = Id("Role", HookRole(h))
      PROVE  Managed(c, w.id)
  <2>1. ManageIndividual("Hook", h) \in Patterns(c)
        /\ ManageIndividual("Role", HookRole(h)) \in Patterns(c)
    BY DEF Patterns, HookPatterns
  <2>2. Matches(ManageIndividual(w.id.kind, w.id.text), w.id) BY IndividualCovers
  <2>3. QED BY <1>2, <2>1, <2>2 DEF Managed, Id
<1>3. ASSUME NEW t \in OwnOf(c, "Client"), w.id = Id("Client", t) PROVE Managed(c, w.id)
  <2>1. w.id \in c.own /\ w.id.kind = "Client" BY <1>3, OwnNames DEF Id
  <2>2. PICK pat : pat \in ClientPatterns BY DEF ClientPatterns
  <2>3. Matches(pat, w.id) BY <2>1, <2>2, OthersAssumption DEF Config
  <2>4. QED BY <2>2, <2>3, CommonPatterns DEF Managed
<1>4. ASSUME NEW t \in OwnOf(c, "WorkerPool"), w.id = Id("WorkerPool", t)
      PROVE  Managed(c, w.id)
  <2>1. ManageIndividual("WorkerPool", t) \in Patterns(c) BY DEF Patterns, PoolPatterns
  <2>2. Matches(ManageIndividual(w.id.kind, w.id.text), w.id) BY IndividualCovers
  <2>3. QED BY <1>4, <2>1, <2>2 DEF Managed, Id
<1>5. ASSUME NEW h \in ProjectHooks(c.project),
             w.id = Id("Hook", h.name) \/ w.id = Id("Role", HookRole(h.name))
      PROVE  Managed(c, w.id)
  <2>1. PICK n \in {<<"project-releng", "cron-task">>, <<"git-push">>}
                   \cup {m \in {<<"hg-push">>} : "hg-push" \in c.project.features} :
               n \in Text /\ IsPrefix(n, h.name)
    BY ProjectHookNames
  <2>2. Prefix("Hook", n) \in Patterns(c) /\ Prefix("Role", HookRole(n)) \in Patterns(c)
    BY <2>1 DEF Patterns, ProjectHookPatterns
  <2>3. IsPrefix(HookRole(n), HookRole(h.name)) BY <2>1, ProjectHookNames, HookRoles
  <2>4. CASE w.id = Id("Hook", h.name)
    <3>1. w.id.kind = "Hook" /\ w.id.text = h.name BY <2>4 DEF Id
    <3>2. Matches(Prefix("Hook", n), w.id) BY <2>1, <3>1, PrefixCovers
    <3>3. QED BY <2>2, <3>2 DEF Managed
  <2>5. CASE w.id = Id("Role", HookRole(h.name))
    <3>1. w.id.kind = "Role" /\ w.id.text = HookRole(h.name) BY <2>5 DEF Id
    <3>2. Matches(Prefix("Role", HookRole(n)), w.id) BY <2>3, <3>1, PrefixCovers
    <3>3. QED BY <2>2, <3>2 DEF Managed
  <2>6. QED BY <1>5, <2>4, <2>5
<1>6. ASSUME NEW l \in {"1", "2", "3"}, w.id = Id("Role", ScmGroup(l))
      PROVE  Managed(c, w.id)
  <2>1. Prefix("Role", ScmGroup(l)) \in Patterns(c)
    BY DEF Patterns, ScmGroupPatterns
  <2>2. IsPrefix(ScmGroup(l), ScmGroup(l)) BY ScmGroups, PrefixOfItself
  <2>3. w.id.kind = "Role" /\ w.id.text = ScmGroup(l) BY <1>6 DEF Id
  <2>4. Matches(Prefix("Role", ScmGroup(l)), w.id) BY <2>2, <2>3, PrefixCovers
  <2>5. QED BY <2>1, <2>4 DEF Managed
<1>7. QED BY WantedCases, <1>1, <1>2, <1>3, <1>4, <1>5, <1>6

\* What the deploy of another configuration does not take away.
Stays(id) ==
  \/ IsExternal(id)
  \/ /\ id.kind = "Role" /\ id.text \in Text /\ id.text[1] \notin {"repo", "*"}
     /\ \E c \in Configs : id.text \in c.roles

\* Whatever one configuration asks for another manages, or it stays.
LEMMA ManagedByAll ==
  ASSUME NEW c \in Configs, NEW d \in Configs, NEW w \in Wanted(c)
  PROVE  Managed(d, w.id) \/ Stays(w.id)
<1>0. c \in Config /\ d \in Config BY DEF Config
<1>r. ASSUME w.id.kind = "Role", w.id.text \in Text, w.id.text[1] = "repo"
      PROVE  Managed(d, w.id)
  <2>1. IsPrefix(<<"repo">>, w.id.text) BY <1>r, FirstWord, WordAssumption
  <2>2. Matches(Prefix("Role", <<"repo">>), w.id) BY <1>r, <2>1, PrefixCovers
  <2>3. QED BY <2>2, CommonPatterns DEF Managed
<1>h. ASSUME w.id.kind = "Role", w.id.text \in Text, w.id.text[1] = "hook-id"
      PROVE  Managed(d, w.id) \/ Stays(w.id)
  <2>1. IsPrefix(<<"hook-id">>, w.id.text) BY <1>h, FirstWord, WordAssumption
  <2>2. Matches(ManageWithExclusions("Role", <<"hook-id">>), w.id) \/ IsExternal(w.id)
    BY <1>h, <2>1, ExclusionsCover
  <2>3. QED BY <2>2, CommonPatterns DEF Managed, Stays
<1>k. ASSUME w.id.kind \in {"Hook", "WorkerPool"}, w.id.text \in Text
      PROVE  Managed(d, w.id) \/ Stays(w.id)
  <2>1. IsPrefix(<< >>, w.id.text) BY <1>k, EmptyPrefix
  <2>2. Matches(ManageWithExclusions(w.id.kind, << >>), w.id) \/ IsExternal(w.id)
    BY <2>1, ExclusionsCover
  <2>3. QED BY <1>k, <2>2, CommonPatterns DEF Managed, Stays
<1>1. ASSUME NEW r \in GrantedRoles(c), w.id = Id("Role", r)
      PROVE  Managed(d, w.id) \/ Stays(w.id)
  <2>1. w.id.kind = "Role" /\ w.id.text = r BY <1>1 DEF Id
  <2>2. r \in Text /\ (r[1] = "repo" \/ r \in c.roles) BY <1>0, GrantedNames
  <2>3. CASE r[1] = "repo" BY <1>r, <2>1, <2>2, <2>3
  <2>4. CASE r[1] # "repo" /\ r \in c.roles
    <3>1. r[1] # "*" BY <1>0, <2>4, ConfigAssumption
    <3>2. QED BY <2>1, <2>2, <2>4, <3>1 DEF Stays
  <2>5. QED BY <2>2, <2>3, <2>4
<1>2. ASSUME NEW h \in Text, w.id = Id("Hook", h) \/ w.id = Id("Role", HookRole(h))
      PROVE  Managed(d, w.id) \/ Stays(w.id)
  <2>1. HookRole(h) \in Text /\ HookRole(h)[1] = "hook-id"
    BY HookRoles, PrefixOfItself
  <2>2. CASE w.id = Id("Hook", h) BY <1>k, <2>2 DEF Id
  <2>3. CASE w.id = Id("Role", HookRole(h)) BY <1>h, <2>1, <2>3 DEF Id
  <2>4. QED BY <1>2, <2>2, <2>3
<1>3. ASSUME NEW t \in OwnOf(c, "Client"), w.id = Id("Client", t)
      PROVE  Managed(d, w.id)
  <2>1. w.id \in c.own /\ w.id.kind = "Client" BY <1>0, <1>3, OwnNames DEF Id
  <2>2. PICK pat : pat \in ClientPatterns BY DEF ClientPatterns
  <2>3. Matches(pat, w.id) BY <2>1, <2>2, OthersAssumption
  <2>4. QED BY <2>2, <2>3, CommonPatterns DEF Managed
<1>4. ASSUME NEW t \in OwnOf(c, "WorkerPool"), w.id = Id("WorkerPool", t)
      PROVE  Managed(d, w.id) \/ Stays(w.id)
  BY <1>0, <1>4, <1>k, OwnNames DEF Id
<1>5. ASSUME NEW l \in {"1", "2", "3"}, w.id = Id("Role", ScmGroup(l))
      PROVE  Managed(d, w.id)
  <2>1. w.id.kind = "Role" /\ w.id.text = ScmGroup(l) BY <1>5 DEF Id
  <2>2. IsPrefix(<<"mozilla-group">>, w.id.text)
    BY <2>1, ScmGroups, FirstWord, WordAssumption
  <2>3. Matches(Prefix("Role", <<"mozilla-group">>), w.id) BY <2>1, <2>2, PrefixCovers
  <2>4. QED BY <2>3, CommonPatterns DEF Managed
<1>6. \A h \in OwnOf(c, "Hook") : h \in Text BY <1>0, OwnNames
<1>7. \A h \in ProjectHooks(c.project) : h.name \in Text BY <1>0, ProjectHookNames
<1>8. QED BY <1>0, WantedCases, <1>1, <1>2, <1>3, <1>4, <1>5, <1>6, <1>7

\* External namespaces by the first words of their ids.
LEMMA ExternalNames ==
  ASSUME NEW id, id.text \in Text, IsExternal(id)
  PROVE  \/ id.kind = "Role" /\ id.text[1] = "project"
         \/ id.kind = "Client"
         \/ id.kind = "WorkerPool"
         \/ id.kind = "Hook" /\ id.text[1] = "project-fuzzing"
         \/ id.kind = "Role" /\ id.text[1] = "hook-id" /\ id.text[2] = "project-fuzzing"
            /\ Len(id.text) >= 2
<1>1. PICK e \in External : Begins(e, id) BY DEF IsExternal
<1>2. id.kind = e.kind /\ IsPrefix(e.text, id.text)
  BY <1>1 DEF Begins, External, Prefix
<1>3. id.text \in Seq(Word) /\ Len(id.text) \in Nat BY TextTypes
<1>4. "project" \in Word /\ "fuzzing" \in Word /\ ":" \in Word /\ "hook-id" \in Word
      /\ "project-fuzzing" \in Word
  BY WordAssumption
<1>5. CASE e = Prefix("Role", <<"project", "fuzzing", ":">>)
  <2> DEFINE s == <<"project", "fuzzing", ":">>
  <2>1. s \in Seq(Word) /\ Len(s) = 3 /\ s[1] = "project" BY <1>4
  <2>2. IsPrefix(s, id.text) /\ id.kind = "Role" BY <1>2, <1>5 DEF Prefix
  <2> HIDE DEF s
  <2>3. \A i \in 1 .. Len(s) : s[i] = id.text[i]
    BY <1>3, <2>1, <2>2, PrefixPointwise
  <2>4. QED BY <2>1, <2>2, <2>3
<1>6. CASE e = Prefix("Client", <<"project/fuzzing">>) BY <1>2, <1>6 DEF Prefix
<1>7. CASE e = Prefix("WorkerPool", <<"proj-fuzzing">>) BY <1>2, <1>7 DEF Prefix
<1>8. CASE e = Prefix("Hook", <<"project-fuzzing">>)
  BY <1>2, <1>4, <1>8, FirstWord DEF Prefix
<1>9. CASE e = Prefix("Role", <<"hook-id", "project-fuzzing">>)
  <2> DEFINE s == <<"hook-id", "project-fuzzing">>
  <2>1. s \in Seq(Word) /\ Len(s) = 2 /\ s[1] = "hook-id" /\ s[2] = "project-fuzzing"
    BY <1>4
  <2>2. IsPrefix(s, id.text) /\ id.kind = "Role" BY <1>2, <1>9 DEF Prefix
  <2> HIDE DEF s
  <2>3. id.text[1] = s[1] /\ id.text[2] = s[2] /\ Len(id.text) >= 2
    BY <1>3, <2>1, <2>2, PrefixPointwise
  <2>4. QED BY <2>1, <2>2, <2>3
<1>10. QED BY <1>5, <1>6, <1>7, <1>8, <1>9 DEF External

\* A pattern with exclusions covers no external id of its kind.
LEMMA NotExcluded ==
  ASSUME NEW kind, NEW text, NEW id, Matches(ManageWithExclusions(kind, text), id),
         IsExternal(id)
  PROVE  FALSE
<1>1. id.kind = kind BY DEF Matches, Begins, ManageWithExclusions, Prefix
<1>2. PICK e \in External : Begins(e, id) BY DEF IsExternal
<1>3. e.kind = kind BY <1>1, <1>2 DEF Begins
<1>4. QED BY <1>2, <1>3 DEF Matches, ManageWithExclusions, Prefix

\* A pattern for a prefix without exclusions covers ids that begin with it.
LEMMA PrefixMatches ==
  ASSUME NEW kind, NEW text, NEW id, Matches(Prefix(kind, text), id)
  PROVE  id.kind = kind /\ IsPrefix(text, id.text)
BY DEF Matches, Begins, Prefix

LEMMA IndividualMatches ==
  ASSUME NEW kind, NEW text, NEW id, Matches(ManageIndividual(kind, text), id)
  PROVE  id.kind = kind /\ id.text = text
BY DEF Matches, Begins, Prefix, ManageIndividual

\* Of the other repository's ids a configuration manages clients, and the roles
\* whose ids extend one that has grants.
LEMMA OthersManaged ==
  ASSUME NEW c \in Configs, NEW id \in OtherIds, Managed(c, id)
  PROVE  id.kind = "Client" \/ \E g \in GrantedRoles(c) : IsPrefix(g, id.text)
<1> SUFFICES ASSUME id.kind # "Client", ~\E g \in GrantedRoles(c) : IsPrefix(g, id.text)
             PROVE  FALSE
  OBVIOUS
<1>0. /\ c \in Config /\ IsExternal(id) /\ id = Id(id.kind, id.text) /\ id.text \in Text
      /\ id \notin IdsOf(Wanted(c))
  BY OthersAssumption DEF Config, IsExternal
<1>1. PICK pat \in Patterns(c) : Matches(pat, id) BY DEF Managed
\* The role ids of no prefix that is not excluded.
<1>2. ASSUME NEW w \in {"mozilla-group", "mozillians-group", "login-identity", "repo"},
             Matches(Prefix("Role", <<w>>), id)
      PROVE  FALSE
  <2>1. id.kind = "Role" /\ IsPrefix(<<w>>, id.text) BY <1>2, PrefixMatches
  <2>2. id.text[1] = w BY <1>0, <2>1, FirstWord, WordAssumption
  <2>3. QED BY <1>0, <2>1, <2>2, ExternalNames
<1>3. ASSUME NEW i, Matches(ManageIndividual(i.kind, i.text), id), i = Id(i.kind, i.text),
             i \in IdsOf(Wanted(c))
      PROVE  FALSE
  BY <1>0, <1>3, IndividualMatches
<1>4. CASE pat \in GrantPatterns(c)
  <2>1. ASSUME NEW r \in GrantedRoles(c), pat = Prefix("Role", r) PROVE FALSE
    BY <1>1, <2>1, PrefixMatches
  <2>2. QED BY <1>0, <1>1, <1>2, <1>4, <2>1, NotExcluded DEF GrantPatterns
<1>5. CASE pat \in HookPatterns(c)
  <2>1. ASSUME NEW h \in OwnOf(c, "Hook"),
               pat = ManageIndividual("Hook", h)
               \/ pat = ManageIndividual("Role", HookRole(h))
        PROVE  FALSE
    <3>1. Resource("Hook", h, {}) \in Wanted(c)
          /\ Resource("Role", HookRole(h), {OtherScope}) \in Wanted(c)
      BY DEF Wanted, HookResources
    <3>2. Id("Hook", h) \in IdsOf(Wanted(c)) /\ Id("Role", HookRole(h)) \in IdsOf(Wanted(c))
      BY <3>1 DEF IdsOf, Resource
    <3>3. id = Id("Hook", h) \/ id = Id("Role", HookRole(h))
      BY <1>0, <1>1, <2>1, IndividualMatches
    <3>4. QED BY <1>0, <3>2, <3>3
  <2>2. QED BY <1>0, <1>1, <1>5, <2>1, NotExcluded DEF HookPatterns
<1>6. CASE pat \in ClientPatterns
  <2>1. id.kind = "Client"
    BY <1>1, <1>6 DEF ClientPatterns, Prefix, Matches, Begins
  <2>2. QED BY <2>1
<1>7. CASE pat \in PoolPatterns(c)
  <2>1. ASSUME NEW t \in OwnOf(c, "WorkerPool"), pat = ManageIndividual("WorkerPool", t)
        PROVE  FALSE
    <3>1. Resource("WorkerPool", t, {}) \in Wanted(c) BY DEF Wanted, PoolResources
    <3>2. Id("WorkerPool", t) \in IdsOf(Wanted(c)) BY <3>1 DEF IdsOf, Resource
    <3>3. id = Id("WorkerPool", t) BY <1>0, <1>1, <2>1, IndividualMatches
    <3>4. QED BY <1>0, <3>2, <3>3
  <2>2. QED BY <1>0, <1>1, <1>7, <2>1, NotExcluded DEF PoolPatterns
<1>8. CASE pat \in ProjectHookPatterns(c.project)
  <2> DEFINE names == {<<"project-releng", "cron-task">>, <<"git-push">>, <<"hg-push">>}
  <2>1. PICK n \in names : pat = Prefix("Hook", n) \/ pat = Prefix("Role", HookRole(n))
    BY <1>8 DEF ProjectHookPatterns
  <2>2. /\ n \in Text /\ n \in Seq(Word) /\ Len(n) \in Nat \ {0}
        /\ n[1] \in {"project-releng", "git-push", "hg-push"}
    <3>1. n \in Text /\ n[1] \in {"project-releng", "git-push", "hg-push"}
      <4>1. <<"git-push">> \in Text /\ <<"hg-push">> \in Text
        BY Words, WordAssumption
      <4>2. "project-releng" \in Word /\ "cron-task" \in Word BY WordAssumption
      <4>3. <<"project-releng", "cron-task">> \in Text BY <4>2 DEF Text
      <4>4. CASE n = <<"git-push">> BY <4>1, <4>4
      <4>5. CASE n = <<"hg-push">> BY <4>1, <4>5
      <4>6. CASE n = <<"project-releng", "cron-task">> BY <4>3, <4>6
      <4>7. QED BY <2>1, <4>4, <4>5, <4>6
    <3>2. QED BY <3>1, TextTypes
  <2>3. id.text \in Seq(Word) /\ Len(id.text) \in Nat BY <1>0, TextTypes
  <2>4. CASE pat = Prefix("Hook", n)
    <3>1. id.kind = "Hook" /\ IsPrefix(n, id.text) BY <1>1, <2>4, PrefixMatches
    <3>2. id.text[1] = n[1] BY <2>2, <2>3, <3>1, PrefixPointwise
    <3>3. QED BY <1>0, <2>2, <3>1, <3>2, ExternalNames
  <2>5. CASE pat = Prefix("Role", HookRole(n))
    <3>1. id.kind = "Role" /\ IsPrefix(HookRole(n), id.text) BY <1>1, <2>5, PrefixMatches
    <3> DEFINE h == <<"hook-id">>
    <3>2. h \in Seq(Word) /\ Len(h) = 1 /\ h[1] = "hook-id"
      BY WordAssumption
    <3>3. HookRole(n) = h \o n BY DEF HookRole
    <3> HIDE DEF h
    <3>4. /\ HookRole(n) \in Seq(Word) /\ Len(HookRole(n)) = 1 + Len(n)
          /\ HookRole(n)[1] = "hook-id" /\ HookRole(n)[2] = n[1]
      <4>1. /\ h \o n \in Seq(Word) /\ Len(h \o n) = Len(h) + Len(n)
            /\ \A i \in 1 .. Len(h) + Len(n) :
                 (h \o n)[i] = IF i <= Len(h) THEN h[i] ELSE n[i - Len(h)]
        BY <2>2, <3>2, ConcatProperties
      <4>2. QED BY <2>2, <3>2, <3>3, <4>1
    <3>5. id.text[1] = "hook-id" /\ id.text[2] = n[1]
      BY <2>2, <2>3, <3>1, <3>4, PrefixPointwise
    <3>6. QED BY <1>0, <2>2, <3>1, <3>5, ExternalNames
  <2>6. QED BY <2>1, <2>4, <2>5
<1>9. CASE pat \in ScmGroupPatterns
  <2>1. PICK l \in {"1", "2", "3"} : pat = Prefix("Role", ScmGroup(l))
    BY <1>9 DEF ScmGroupPatterns
  <2>2. id.kind = "Role" /\ IsPrefix(ScmGroup(l), id.text) BY <1>1, <2>1, PrefixMatches
  <2>3. /\ ScmGroup(l) \in Seq(Word) /\ Len(ScmGroup(l)) \in Nat \ {0}
        /\ id.text \in Seq(Word) /\ Len(id.text) \in Nat
    BY <1>0, ScmGroups, TextTypes
  <2>4. id.text[1] = "mozilla-group" BY <2>2, <2>3, ScmGroups, PrefixPointwise
  <2>5. QED BY <1>0, <2>2, <2>4, ExternalNames
<1>10. QED BY <1>1, <1>4, <1>5, <1>6, <1>7, <1>8, <1>9 DEF Patterns

\* Nothing that stays covers a context of a project.
LEMMA StaysApart ==
  ASSUME NEW id, id.kind = "Role", id.text \in Text, Stays(id),
         NEW t \in Text, t[1] = "repo"
  PROVE  ~GlobMatch(id.text, t)
<1>1. id.text[1] \notin {"repo", "*"} BY ExternalNames DEF Stays
<1>2. QED BY <1>1, GlobFirst
-----------------------------------------------------------------------------
(***************************************************************************)
(* Deploys.  What exists is of the other repository or was asked for by     *)
(* some configuration; a running deploy has in hand, as an operation, what- *)
(* ever it asks for that is missing and whatever else must go.              *)
(***************************************************************************)
ServiceInv ==
  /\ config \in Config
  /\ \A r, s \in service : r.id = s.id => r = s
  /\ \A r \in service : r.id \in OtherIds \/ \E c \in Configs : r \in Wanted(c)
  /\ \A d, e \in deploy : d = e
  /\ deploy # {} => deployed = {}

DeployInv(d) ==
  /\ d = [config |-> d.config, todo |-> d.todo]
  /\ d.config \in Configs /\ ~Raises(d.config)
  /\ \A op \in d.todo :
       \/ op.new = {} /\ op.id \notin IdsOf(Wanted(d.config)) /\ Managed(d.config, op.id)
       \/ \E w \in Wanted(d.config) : op = [id |-> w.id, new |-> {w}]
  /\ \A w \in Wanted(d.config) : w \in service \/ [id |-> w.id, new |-> {w}] \in d.todo
  /\ \A r \in service :
       r \in Wanted(d.config) \/ Stays(r.id) \/ \E op \in d.todo : op.id = r.id

DeployedInv(c) ==
  /\ c \in Configs /\ Wanted(c) \subseteq service
  /\ \A r \in service : r \in Wanted(c) \/ Stays(r.id)

ResourceInv ==
  /\ ServiceInv
  /\ \A d \in deploy : DeployInv(d)
  /\ \A c \in deployed : DeployedInv(c)

\* One id, one resource.
LEMMA OneOfEachId ==
  ASSUME NEW c, ~Raises(c), NEW r \in Wanted(c), NEW s \in Wanted(c), r.id = s.id
  PROVE  r = s
BY DEF Raises

LEMMA OthersApart ==
  ASSUME NEW c \in Configs, NEW w \in Wanted(c)
  PROVE  w.id \notin OtherIds
BY OthersAssumption DEF IdsOf

LEMMA StartInv ==
  ASSUME ResourceInv, Start
  PROVE  \A d \in deploy' : DeployInv(d)'
<1> SUFFICES ASSUME NEW d \in deploy' PROVE DeployInv(d)'
  OBVIOUS
<1> DEFINE c == d.config
<1>1. /\ c = config /\ d = [config |-> c, todo |-> Ops(c, service)]
      /\ c \in Configs /\ ~Raises(c) /\ service' = service
  BY DEF Start
<1>2. Ops(c, service) =
        {[id |-> r.id, new |-> {r}] : r \in Wanted(c) \ service}
        \cup {[id |-> i, new |-> {}] :
                i \in ManagedIds(c, IdsOf(service)) \ IdsOf(Wanted(c))}
  BY DEF Ops
<1>3. ASSUME NEW op \in Ops(c, service)
      PROVE  \/ op.new = {} /\ op.id \notin IdsOf(Wanted(c)) /\ Managed(c, op.id)
             \/ \E w \in Wanted(c) : op = [id |-> w.id, new |-> {w}]
  BY <1>2, ManagedIdsAre
<1>4. ASSUME NEW w \in Wanted(c)
      PROVE  w \in service \/ [id |-> w.id, new |-> {w}] \in Ops(c, service)
  BY <1>2
<1>5. ASSUME NEW r \in service, r \notin Wanted(c), ~Stays(r.id)
      PROVE  \E op \in Ops(c, service) : op.id = r.id
  <2>1. CASE r.id \in IdsOf(Wanted(c))
    <3>1. PICK w \in Wanted(c) : w.id = r.id BY <2>1 DEF IdsOf
    <3>2. w \notin service BY <1>5, <3>1 DEF ResourceInv, ServiceInv
    <3>3. [id |-> w.id, new |-> {w}] \in Ops(c, service) BY <1>2, <3>2
    <3>4. QED BY <3>1, <3>3
  <2>2. CASE r.id \notin IdsOf(Wanted(c))
    <3>1. Managed(c, r.id)
      <4>1. r.id \notin OtherIds BY <1>5, OthersAssumption DEF Stays, IsExternal
      <4>2. PICK b \in Configs : r \in Wanted(b) BY <4>1 DEF ResourceInv, ServiceInv
      <4>3. QED BY <1>1, <1>5, <4>2, ManagedByAll
    <3>2. r.id \in ManagedIds(c, IdsOf(service)) BY <3>1, ManagedIdsAre DEF IdsOf
    <3>3. [id |-> r.id, new |-> {}] \in Ops(c, service) BY <1>2, <2>2, <3>2
    <3>4. QED BY <3>3
  <2>3. QED BY <2>1, <2>2
<1>6. d.todo = Ops(c, service) BY <1>1
<1>7. QED BY <1>1, <1>3, <1>4, <1>5, <1>6 DEF DeployInv

LEMMA ApplyInv ==
  ASSUME ResourceInv, Apply
  PROVE  ResourceInv'
<1>0. PICK d \in deploy :
        \E op \in d.todo :
          /\ service' = Put(op)
          /\ deploy' = {[d EXCEPT !.todo = @ \ {op}]}
          /\ UNCHANGED <<config, deployed>>
  BY Zenon DEF Apply
<1>1. PICK op \in d.todo :
        /\ service' = Put(op)
        /\ deploy' = {[d EXCEPT !.todo = @ \ {op}]}
        /\ UNCHANGED <<config, deployed>>
  BY <1>0
<1> DEFINE e == [d EXCEPT !.todo = @ \ {op}]
           c == d.config
<1>2. DeployInv(d) /\ deployed' = {}
  BY <1>1 DEF ResourceInv, ServiceInv
<1>3. e = [config |-> c, todo |-> d.todo \ {op}] /\ e.config = c /\ e.todo = d.todo \ {op}
  <2>1. d = [config |-> d.config, todo |-> d.todo] BY <1>2 DEF DeployInv
  <2>2. ASSUME NEW a, NEW b, d = [config |-> a, todo |-> b]
        PROVE  e = [config |-> a, todo |-> b \ {op}]
    BY <2>2
  <2>3. e = [config |-> d.config, todo |-> d.todo \ {op}] BY <2>1, <2>2
  <2>4. QED BY <2>3
<1>4. \/ op.new = {} /\ op.id \notin IdsOf(Wanted(c))
      \/ \E w \in Wanted(c) : op = [id |-> w.id, new |-> {w}]
  BY <1>2 DEF DeployInv
<1>5. \A r \in service' : \/ r \in service /\ r.id # op.id
                          \/ r \in Wanted(c) /\ r.id = op.id /\ op.new = {r}
  BY <1>1, <1>4 DEF Put
<1>6. \A r \in service : r.id # op.id => r \in service'
  BY <1>1 DEF Put
<1>7. \A r \in op.new : r \in service'
  BY <1>1 DEF Put
<1>8. c \in Configs /\ ~Raises(c) BY <1>2 DEF DeployInv
<1>9. ServiceInv'
  <2>1. ASSUME NEW r \in service', NEW s \in service', r.id = s.id PROVE r = s
    BY <1>5, <2>1 DEF ResourceInv, ServiceInv
  <2>2. ASSUME NEW r \in service'
        PROVE  r.id \in OtherIds \/ \E b \in Configs : r \in Wanted(b)
    BY <1>5, <1>8 DEF ResourceInv, ServiceInv
  <2>3. QED BY <1>1, <1>2, <2>1, <2>2 DEF ResourceInv, ServiceInv
<1>10. ASSUME NEW w \in Wanted(c)
       PROVE  w \in service' \/ [id |-> w.id, new |-> {w}] \in e.todo
  <2>1. w \in service \/ [id |-> w.id, new |-> {w}] \in d.todo
    BY <1>2 DEF DeployInv
  <2>2. CASE w.id = op.id
    <3>1. w.id \in IdsOf(Wanted(c)) BY DEF IdsOf
    <3>2. PICK v \in Wanted(c) : op = [id |-> v.id, new |-> {v}] BY <1>4, <2>2, <3>1
    <3>3. v = w BY <1>8, <2>2, <3>2, OneOfEachId
    <3>4. QED BY <1>7, <3>2, <3>3
  <2>3. CASE w.id # op.id
    <3>1. w \in service => w \in service' BY <1>6, <2>3
    <3>2. [id |-> w.id, new |-> {w}] # op BY <2>3
    <3>3. QED BY <1>3, <2>1, <3>1, <3>2
  <2>4. QED BY <2>2, <2>3
<1>11. ASSUME NEW r \in service'
       PROVE  r \in Wanted(c) \/ Stays(r.id) \/ \E o \in e.todo : o.id = r.id
  BY <1>2, <1>3, <1>5 DEF DeployInv
<1>12. \A o \in e.todo : o \in d.todo BY <1>3
<1>13. e \in deploy' /\ \A f \in deploy' : f = e BY <1>1
<1> HIDE DEF e, c
<1>14. DeployInv(e)'
  <2>1. \A o \in e.todo :
          \/ o.new = {} /\ o.id \notin IdsOf(Wanted(c)) /\ Managed(c, o.id)
          \/ \E w \in Wanted(c) : o = [id |-> w.id, new |-> {w}]
    BY <1>2, <1>12 DEF DeployInv, c
  <2>2. QED BY <1>3, <1>8, <1>10, <1>11, <2>1 DEF DeployInv
<1>15. QED BY <1>2, <1>9, <1>13, <1>14 DEF ResourceInv

\* Names of what exists.
LEMMA NamesExist ==
  ASSUME ResourceInv, NEW r \in service PROVE r.id.text \in Text
<1>1. CASE r.id \in OtherIds BY <1>1, OthersAssumption
<1>2. ASSUME NEW c \in Configs, r \in Wanted(c) PROVE r.id.text \in Text
  <2>1. c \in Config BY DEF Config
  <2>2. \A g \in GrantedRoles(c) : g \in Text BY <2>1, GrantedNames
  <2>3. \A kind : \A h \in OwnOf(c, kind) : h \in Text BY <2>1, OwnNames
  <2>4. \A h \in ProjectHooks(c.project) : h.name \in Text BY <2>1, ProjectHookNames
  <2>5. \A h \in Text : HookRole(h) \in Text BY HookRoles, PrefixOfItself
  <2>6. \A l \in {"1", "2", "3"} : ScmGroup(l) \in Text BY ScmGroups
  <2>7. \A kind, t : Id(kind, t).text = t BY DEF Id
  <2>8. QED BY <1>2, <2>1, <2>2, <2>3, <2>4, <2>5, <2>6, <2>7, WantedCases
<1>3. QED BY <1>1, <1>2 DEF ResourceInv, ServiceInv

(***************************************************************************)
(* The invariant.                                                          *)
(***************************************************************************)
THEOREM Invariant == Spec => []ResourceInv
<1>1. Init => ResourceInv
  BY DEF Init, ResourceInv, ServiceInv, Config
<1>2. ResourceInv /\ [Next]_vars => ResourceInv'
  <2> SUFFICES ASSUME ResourceInv, [Next]_vars PROVE ResourceInv'
    OBVIOUS
  <2>1. CASE Merge
    <3>1. UNCHANGED <<service, deploy, deployed>> /\ config' \in Config
      BY <2>1 DEF Merge, Config
    <3>2. QED BY <3>1 DEF ResourceInv, ServiceInv, DeployInv, DeployedInv
  <2>2. CASE OthersCreate
    <3>1. PICK id \in OtherIds :
            /\ \A r \in service : r.id # id
            /\ service' = service \cup {[id |-> id, holds |-> {}]}
            /\ UNCHANGED <<config, deploy, deployed>>
      BY <2>2 DEF OthersCreate
    <3>2. Stays(id) BY OthersAssumption DEF Stays, IsExternal
    <3>3. \A r \in service' : r \in service \/ (r.id = id /\ Stays(r.id))
      BY <3>1, <3>2
    <3>4. service \subseteq service' BY <3>1
    <3>5. ServiceInv'
      BY <3>1 DEF ResourceInv, ServiceInv
    <3>6. ASSUME NEW d \in deploy' PROVE DeployInv(d)'
      <4>1. DeployInv(d) BY <3>1 DEF ResourceInv
      <4>2. QED BY <3>3, <3>4, <4>1 DEF DeployInv
    <3>7. ASSUME NEW c \in deployed' PROVE DeployedInv(c)'
      <4>1. DeployedInv(c) BY <3>1 DEF ResourceInv
      <4>2. QED BY <3>3, <3>4, <4>1 DEF DeployedInv
    <3>8. QED BY <3>5, <3>6, <3>7 DEF ResourceInv
  <2>3. CASE OthersDelete
    <3>1. PICK id \in OtherIds :
            /\ service' = {r \in service : r.id # id}
            /\ UNCHANGED <<config, deploy, deployed>>
      BY <2>3 DEF OthersDelete
    <3>2. ASSUME NEW c \in Configs, NEW w \in Wanted(c), w \in service PROVE w \in service'
      BY <3>1, <3>2, OthersApart
    <3>3. service' \subseteq service BY <3>1
    <3>4. ServiceInv' BY <3>1, <3>3 DEF ResourceInv, ServiceInv
    <3>5. ASSUME NEW d \in deploy' PROVE DeployInv(d)'
      <4>1. DeployInv(d) BY <3>1 DEF ResourceInv
      <4>2. QED BY <3>2, <3>3, <4>1 DEF DeployInv
    <3>6. ASSUME NEW c \in deployed' PROVE DeployedInv(c)'
      <4>1. DeployedInv(c) BY <3>1 DEF ResourceInv
      <4>2. QED BY <3>2, <3>3, <4>1 DEF DeployedInv
    <3>7. QED BY <3>4, <3>5, <3>6 DEF ResourceInv
  <2>4. CASE Start
    <3>1. \A d \in deploy' : DeployInv(d)' BY <2>4, StartInv
    <3>2. ServiceInv' BY <2>4 DEF Start, ResourceInv, ServiceInv
    <3>3. deployed' = {} BY <2>4 DEF Start
    <3>4. QED BY <3>1, <3>2, <3>3 DEF ResourceInv
  <2>5. CASE Apply BY <2>5, ApplyInv
  <2>6. CASE Finish
    <3>1. PICK d \in deploy : /\ d.todo = {} /\ deploy' = {} /\ deployed' = {d.config}
                              /\ UNCHANGED <<config, service>>
      BY <2>6 DEF Finish
    <3>2. DeployInv(d) BY DEF ResourceInv
    <3>3. DeployedInv(d.config)' BY <3>1, <3>2 DEF DeployInv, DeployedInv
    <3>4. QED BY <3>1, <3>3 DEF ResourceInv, ServiceInv
  <2>7. CASE Fail BY <2>7 DEF Fail, ResourceInv, ServiceInv, DeployedInv
  <2>8. CASE UNCHANGED vars
    BY <2>8 DEF vars, ResourceInv, ServiceInv, DeployInv, DeployedInv
  <2>9. QED BY <2>1, <2>2, <2>3, <2>4, <2>5, <2>6, <2>7, <2>8 DEF Next
<1>3. QED BY <1>1, <1>2, PTL DEF Spec

(***************************************************************************)
(* A deploy that ended well leaves nothing beside what it asks for, but for *)
(* others' resources and role grantees' roles; and nothing is generated     *)
(* that no pattern manages.                                                 *)
(***************************************************************************)
THEOREM LeftoversHold == Spec => []Leftovers
<1>1. ResourceInv => EverythingManaged
  <2> SUFFICES ASSUME ResourceInv
               PROVE  ManagedIds(config, IdsOf(Wanted(config))) = IdsOf(Wanted(config))
    BY DEF EverythingManaged
  <2>1. ASSUME NEW id \in IdsOf(Wanted(config)) PROVE Managed(config, id)
    BY WantedManaged DEF IdsOf, ResourceInv, ServiceInv
  <2>2. QED BY <2>1, ManagedIdsAre
<1>2. ResourceInv => NothingElseLeft
  BY DEF ResourceInv, DeployedInv, NothingElseLeft, Stays, IsExternal
<1>3. QED BY <1>1, <1>2, Invariant, PTL DEF Leftovers

(***************************************************************************)
(* After it every context holds exactly what is granted: what else remains  *)
(* is no role of a repository.                                              *)
(***************************************************************************)
THEOREM RevokedHolds == Spec => []PrivilegesRevoked
<1>1. ResourceInv => PrivilegesRevoked
  <2> SUFFICES ASSUME ResourceInv, NEW d \in deployed, NEW c \in Configs,
                      NEW x \in ProjectContexts(c.project)
               PROVE  LET RolesOf(rs) == {[role |-> r.id.text, holds |-> r.holds] :
                                            r \in {s \in rs : s.id.kind = "Role"}}
                      IN HeldBy(c.project, x, RolesOf(service))
                           = HeldBy(c.project, x, RolesOf(Wanted(d)))
    BY DEF PrivilegesRevoked
  <2> DEFINE RolesOf(rs) == {[role |-> r.id.text, holds |-> r.holds] :
                               r \in {s \in rs : s.id.kind = "Role"}}
             t == ContextRole(c.project, x)
  <2>1. t \in Text /\ t[1] = "repo" BY ContextNames DEF Config
  <2>2. DeployedInv(d) BY DEF ResourceInv
  <2>3. RolesOf(Wanted(d)) \subseteq RolesOf(service) BY <2>2 DEF DeployedInv
  <2>4. ASSUME NEW e \in RolesOf(service), GlobMatch(e.role, t)
        PROVE  e \in RolesOf(Wanted(d))
    <3>1. PICK r \in service : r.id.kind = "Role"
                               /\ e = [role |-> r.id.text, holds |-> r.holds]
      OBVIOUS
    <3>2. CASE r \in Wanted(d) BY <3>1, <3>2
    <3>3. CASE Stays(r.id)
      <4>1. r.id.text \in Text
        BY NamesExist
      <4>2. QED BY <2>1, <2>4, <3>1, <3>3, <4>1, StaysApart
    <3>4. QED BY <2>2, <3>2, <3>3 DEF DeployedInv
  <2>5. HeldBy(c.project, x, RolesOf(service))
          = {e \in RolesOf(service) : GlobMatch(e.role, t)}
        /\ HeldBy(c.project, x, RolesOf(Wanted(d)))
             = {e \in RolesOf(Wanted(d)) : GlobMatch(e.role, t)}
    BY DEF HeldBy, Held
  <2>6. QED BY <2>3, <2>4, <2>5
<1>2. QED BY <1>1, Invariant, PTL

(***************************************************************************)
(* A deploy keeps what is of the other repository, but for clients and for  *)
(* roles whose ids extend one that has grants.                              *)
(***************************************************************************)
THEOREM OthersKeptHolds == Spec => OthersKept
<1> DEFINE Kept == \A d \in deploy : deploy' # deploy =>
                     \A r \in service \ service' :
                       r.id \in OtherIds =>
                         \/ r.id.kind = "Client"
                         \/ \E g \in GrantedRoles(d.config) : IsPrefix(g, r.id.text)
<1>1. ResourceInv /\ [Next]_vars => [Kept]_vars
  <2> SUFFICES ASSUME ResourceInv, Next, NEW d \in deploy, deploy' # deploy,
                      NEW r \in service \ service', r.id \in OtherIds
               PROVE  \/ r.id.kind = "Client"
                      \/ \E g \in GrantedRoles(d.config) : IsPrefix(g, r.id.text)
    OBVIOUS
  <2>1. Apply
    BY DEF Next, Merge, OthersCreate, OthersDelete, Start, Finish, Fail
  <2>2. PICK e \in deploy : \E o \in e.todo : service' = Put(o)
    BY <2>1, Zenon DEF Apply
  <2>3. e = d /\ DeployInv(d) BY DEF ResourceInv, ServiceInv
  <2>o. PICK op \in e.todo : service' = Put(op) BY <2>2
  <2>4. r.id = op.id BY <2>o DEF Put
  <2>5. r.id \notin IdsOf(Wanted(d.config)) BY <2>3, OthersAssumption DEF DeployInv
  <2>6. Managed(d.config, op.id)
    <3>1. ASSUME NEW w \in Wanted(d.config), op = [id |-> w.id, new |-> {w}] PROVE FALSE
      BY <2>4, <2>5, <3>1 DEF IdsOf
    <3>2. QED BY <2>3, <3>1 DEF DeployInv
  <2>7. QED BY <2>3, <2>4, <2>6, OthersManaged DEF DeployInv
<1>2. QED BY <1>1, Invariant, PTL DEF Spec, OthersKept

(***************************************************************************)
(* Grants: for any project and any grantee, levels are kept apart, pull     *)
(* requests hold what is granted to them, and nothing asked for is lost.    *)
(***************************************************************************)
-----------------------------------------------------------------------------
(* Patterns and what they cover.                                            *)

Plain(t) == \A i \in 1 .. Len(t) - 1 : t[i] # "*"

\* A pattern and a name, word by word.
Agree(g, t, n) == n <= Len(t) /\ \A i \in 1 .. n : g[i] = t[i]

LEMMA GlobPointwise ==
  ASSUME NEW g \in Text, NEW t \in Text
  PROVE  GlobMatch(g, t) <=> g = t \/ (g[Len(g)] = "*" /\ Agree(g, t, Len(g) - 1))
<1>1. /\ g \in Seq(Word) /\ Len(g) \in Nat \ {0}
      /\ t \in Seq(Word) /\ Len(t) \in Nat \ {0}
  BY TextTypes
<1>2. Last(g) = g[Len(g)] BY DEF Last
<1>3. /\ Front(g) \in Seq(Word) /\ Len(Front(g)) = Len(g) - 1
      /\ \A i \in 1 .. Len(g) - 1 : Front(g)[i] = g[i]
  <2> DEFINE n == Len(g) - 1
  <2>1. n \in Nat /\ \A i \in 1 .. n : g[i] \in Word BY <1>1
  <2>2. Front(g) = SubSeq(g, 1, n) BY DEF Front
  <2>3. n \in Int /\ 1 \in Int /\ n - 1 + 1 = n BY <2>1
  <2> HIDE DEF n
  <2>4. /\ SubSeq(g, 1, n) \in Seq(Word)
        /\ Len(SubSeq(g, 1, n)) = IF 1 <= n THEN n - 1 + 1 ELSE 0
        /\ \A i \in 1 .. n - 1 + 1 : SubSeq(g, 1, n)[i] = g[1 + i - 1]
    BY <2>1, <2>3, SubSeqProperties
  <2>5. /\ SubSeq(g, 1, n) \in Seq(Word) /\ Len(SubSeq(g, 1, n)) = n
        /\ \A i \in 1 .. n : SubSeq(g, 1, n)[i] = g[i]
    BY <2>1, <2>3, <2>4
  <2>6. QED BY <2>2, <2>5 DEF n
<1>4. IsPrefix(Front(g), t) <=> Agree(g, t, Len(g) - 1)
  BY <1>1, <1>3, PrefixPointwise DEF Agree
<1>5. QED BY <1>2, <1>4 DEF GlobMatch

\* Covering is transitive, but for patterns with a `*` inside.
LEMMA GlobThrough ==
  ASSUME NEW g \in Text, NEW h \in Text, NEW t \in Text,
         Plain(g), GlobMatch(g, h), GlobMatch(h, t)
  PROVE  GlobMatch(g, t)
<1>1. /\ Len(g) \in Nat \ {0} /\ Len(h) \in Nat \ {0} /\ Len(t) \in Nat \ {0}
  BY TextTypes
<1>2. SUFFICES ASSUME g # h, h # t PROVE GlobMatch(g, t)
  OBVIOUS
<1>3. /\ g[Len(g)] = "*" /\ Agree(g, h, Len(g) - 1)
      /\ h[Len(h)] = "*" /\ Agree(h, t, Len(h) - 1)
  BY <1>2, GlobPointwise
<1>4. Len(g) - 1 # Len(h)
  <2> SUFFICES ASSUME Len(g) - 1 = Len(h) PROVE FALSE OBVIOUS
  <2>1. Len(h) \in 1 .. Len(g) - 1 BY <1>1
  <2>2. g[Len(h)] = h[Len(h)] BY <1>3, <2>1 DEF Agree
  <2>3. QED BY <1>3, <2>1, <2>2 DEF Plain
<1>5. Len(g) - 1 <= Len(h) - 1 BY <1>1, <1>3, <1>4 DEF Agree
<1>6. Agree(g, t, Len(g) - 1)
  <2>1. Len(g) - 1 <= Len(t) BY <1>1, <1>3, <1>5 DEF Agree
  <2>2. ASSUME NEW i \in 1 .. Len(g) - 1 PROVE g[i] = t[i]
    <3>1. i \in 1 .. Len(h) - 1 BY <1>1, <1>5
    <3>2. QED BY <1>3, <3>1 DEF Agree
  <2>3. QED BY <2>1, <2>2 DEF Agree
<1>7. QED BY <1>3, <1>6, GlobPointwise

\* Of two patterns that cover one name, one covers the other.
LEMMA GlobOneCovers ==
  ASSUME NEW g \in Text, NEW h \in Text, NEW t \in Text,
         GlobMatch(g, t), GlobMatch(h, t)
  PROVE  GlobMatch(g, h) \/ GlobMatch(h, g)
<1>1. CASE g = t \/ h = t BY <1>1
<1>2. CASE g # t /\ h # t
  <2>1. /\ Len(g) \in Nat \ {0} /\ Len(h) \in Nat \ {0} /\ Len(t) \in Nat \ {0}
    BY TextTypes
  <2>2. /\ g[Len(g)] = "*" /\ Agree(g, t, Len(g) - 1)
        /\ h[Len(h)] = "*" /\ Agree(h, t, Len(h) - 1)
    BY <1>2, GlobPointwise
  <2>3. ASSUME Len(g) <= Len(h) PROVE Agree(g, h, Len(g) - 1)
    BY <2>1, <2>2, <2>3 DEF Agree
  <2>4. ASSUME Len(h) <= Len(g) PROVE Agree(h, g, Len(h) - 1)
    BY <2>1, <2>2, <2>4 DEF Agree
  <2>5. CASE Len(g) <= Len(h) BY <2>2, <2>3, <2>5, GlobPointwise
  <2>6. CASE Len(h) <= Len(g) BY <2>2, <2>4, <2>6, GlobPointwise
  <2>7. QED BY <2>1, <2>5, <2>6
<1>3. QED BY <1>1, <1>2

\* What two names begin with does not matter.
LEMMA GlobAfter ==
  ASSUME NEW p \in Text, NEW g \in Text, NEW t \in Text, GlobMatch(p \o g, p \o t)
  PROVE  GlobMatch(g, t)
<1>1. /\ p \in Seq(Word) /\ Len(p) \in Nat \ {0}
      /\ g \in Seq(Word) /\ Len(g) \in Nat \ {0}
      /\ t \in Seq(Word) /\ Len(t) \in Nat \ {0}
  BY TextTypes
<1>2. ASSUME NEW x \in Text, x \in Seq(Word), Len(x) \in Nat \ {0}
      PROVE  /\ p \o x \in Text /\ Len(p \o x) = Len(p) + Len(x)
             /\ \A i \in 1 .. Len(x) : (p \o x)[Len(p) + i] = x[i]
  <2>1. p \o x \in Text BY <1>2, Appended
  <2>2. /\ Len(p \o x) = Len(p) + Len(x)
        /\ \A i \in 1 .. Len(p) + Len(x) :
             (p \o x)[i] = IF i <= Len(p) THEN p[i] ELSE x[i - Len(p)]
    BY <1>1, <1>2, ConcatProperties
  <2>3. ASSUME NEW i \in 1 .. Len(x) PROVE (p \o x)[Len(p) + i] = x[i]
    <3>1. /\ Len(p) + i \in 1 .. Len(p) + Len(x) /\ ~(Len(p) + i <= Len(p))
          /\ Len(p) + i - Len(p) = i
      BY <1>1, <1>2, <2>3
    <3>2. QED BY <2>2, <3>1
  <2>4. QED BY <2>1, <2>2, <2>3
<1> DEFINE P == p \o g
           T == p \o t
<1>3. /\ P \in Text /\ Len(P) = Len(p) + Len(g)
      /\ \A i \in 1 .. Len(g) : P[Len(p) + i] = g[i]
  BY <1>1, <1>2
<1>4. /\ T \in Text /\ Len(T) = Len(p) + Len(t)
      /\ \A i \in 1 .. Len(t) : T[Len(p) + i] = t[i]
  BY <1>1, <1>2
<1>5. GlobMatch(P, T) OBVIOUS
<1>6. P = T => g = t BY <1>1, ConcatSimplifications
<1> HIDE DEF P, T
<1>7. CASE P = T BY <1>6, <1>7 DEF GlobMatch
<1>8. CASE P # T
  <2>1. P[Len(P)] = "*" /\ Agree(P, T, Len(P) - 1) BY <1>3, <1>4, <1>5, <1>8, GlobPointwise
  <2>2. g[Len(g)] = "*"
    <3>1. Len(g) \in 1 .. Len(g) BY <1>1
    <3>2. QED BY <1>3, <2>1, <3>1
  <2>3. ASSUME NEW i \in 1 .. Len(g) - 1 PROVE i \in 1 .. Len(t) /\ g[i] = t[i]
    <3>1. /\ i \in 1 .. Len(g) /\ i \in 1 .. Len(t)
          /\ Len(p) + i \in 1 .. Len(P) - 1
      BY <1>1, <1>3, <1>4, <2>1, <2>3 DEF Agree
    <3>2. P[Len(p) + i] = T[Len(p) + i] BY <2>1, <3>1 DEF Agree
    <3>3. QED BY <1>3, <1>4, <3>1, <3>2
  <2>4. Agree(g, t, Len(g) - 1) BY <1>1, <1>3, <1>4, <2>1, <2>3 DEF Agree
  <2>5. QED BY <2>2, <2>4, GlobPointwise
<1>9. QED BY <1>7, <1>8

LEMMA GlobBefore ==
  ASSUME NEW p \in Text, NEW g \in Text, NEW t \in Text, GlobMatch(g, t)
  PROVE  GlobMatch(p \o g, p \o t)
<1>1. /\ p \in Seq(Word) /\ Len(p) \in Nat \ {0}
      /\ g \in Seq(Word) /\ Len(g) \in Nat \ {0}
      /\ t \in Seq(Word) /\ Len(t) \in Nat \ {0}
  BY TextTypes
<1>2. ASSUME NEW x \in Text, x \in Seq(Word), Len(x) \in Nat \ {0}
      PROVE  /\ p \o x \in Text /\ Len(p \o x) = Len(p) + Len(x)
             /\ \A i \in 1 .. Len(p) + Len(x) :
                  (p \o x)[i] = IF i <= Len(p) THEN p[i] ELSE x[i - Len(p)]
  <2>1. p \o x \in Text BY <1>2, Appended
  <2>2. QED BY <1>1, <1>2, <2>1, ConcatProperties
<1> DEFINE P == p \o g
           T == p \o t
<1>3. /\ P \in Text /\ Len(P) = Len(p) + Len(g)
      /\ \A i \in 1 .. Len(p) + Len(g) : P[i] = IF i <= Len(p) THEN p[i] ELSE g[i - Len(p)]
  BY <1>1, <1>2
<1>4. /\ T \in Text /\ Len(T) = Len(p) + Len(t)
      /\ \A i \in 1 .. Len(p) + Len(t) : T[i] = IF i <= Len(p) THEN p[i] ELSE t[i - Len(p)]
  BY <1>1, <1>2
<1>5. CASE g = t BY <1>5 DEF GlobMatch
<1>6. CASE g # t
  <2>1. g[Len(g)] = "*" /\ Agree(g, t, Len(g) - 1) BY <1>6, GlobPointwise
  <2> HIDE DEF P, T
  <2>2. P[Len(P)] = "*"
    <3>1. /\ Len(P) \in 1 .. Len(p) + Len(g) /\ ~(Len(P) <= Len(p))
          /\ Len(P) - Len(p) = Len(g)
      BY <1>1, <1>3
    <3>2. QED BY <1>3, <2>1, <3>1
  <2>3. ASSUME NEW i \in 1 .. Len(P) - 1 PROVE P[i] = T[i]
    <3>1. i \in 1 .. Len(p) + Len(g) /\ i \in 1 .. Len(p) + Len(t)
      BY <1>1, <1>3, <2>1, <2>3 DEF Agree
    <3>2. CASE i <= Len(p) BY <1>3, <1>4, <3>1, <3>2
    <3>3. CASE ~(i <= Len(p))
      <4>1. i - Len(p) \in 1 .. Len(g) - 1 BY <1>1, <1>3, <2>3, <3>3
      <4>2. g[i - Len(p)] = t[i - Len(p)] BY <2>1, <4>1 DEF Agree
      <4>3. QED BY <1>3, <1>4, <3>1, <3>3, <4>2
    <3>4. QED BY <3>2, <3>3
  <2>4. Agree(P, T, Len(P) - 1) BY <1>1, <1>3, <1>4, <2>1, <2>3 DEF Agree
  <2>5. GlobMatch(P, T) BY <1>3, <1>4, <2>2, <2>4, GlobPointwise
  <2>6. QED BY <2>5 DEF P, T
<1>7. QED BY <1>5, <1>6

LEMMA StarCovers == ASSUME NEW t \in Text PROVE GlobMatch(Star, t)
<1>1. Star \in Text /\ Len(Star) = 1 /\ Star[1] = "*" BY Words DEF Star
<1>2. Agree(Star, t, Len(Star) - 1) BY <1>1, TextTypes DEF Agree
<1> DEFINE s == Star
<1>3. s \in Text /\ s[Len(s)] = "*" /\ Agree(s, t, Len(s) - 1) BY <1>1, <1>2
<1> HIDE DEF s
<1>4. GlobMatch(s, t) BY <1>3, GlobPointwise
<1>5. QED BY <1>4 DEF s
-----------------------------------------------------------------------------
(***************************************************************************)
(* Levels of branches.                                                     *)
(***************************************************************************)
LEMMA Element ==
  ASSUME NEW S, NEW s \in Seq(S), NEW i \in DOMAIN s
  PROVE  s[i] \in S /\ s[i] \in ToSet(s) /\ i \in Nat
<1>1. s[i] \in S /\ i \in Nat OBVIOUS
<1>2. QED BY <1>1 DEF ToSet

LEMMA ProjectTypes ==
  ASSUME NEW c \in Config
  PROVE  LET p == c.project IN
           /\ p.access \in 0 .. 3 /\ p.branches \in Seq([name : Text, level : 0 .. 3])
           /\ ValidProject(p) /\ p.path \in Text
           /\ \A b \in ToSet(p.branches) : Plain(b.name) /\ b.name \in Text
BY ConfigAssumption, LevelsAssumption DEF Config, Plain

\* A set of numbers that is not empty has a least one.
LEMMA Least ==
  ASSUME NEW S, S \subseteq Nat, S # {}
  PROVE  \E i \in S : \A k \in S : i <= k
<1> DEFINE R == StrictSubsetOrdering(Nat)
           T == {1 .. i : i \in S}
<1>1. IsWellFoundedOn(R, FiniteSubsetsOf(Nat)) BY FS_StrictSubsetOrderingWellFounded
<1>2. T \subseteq FiniteSubsetsOf(Nat) BY FS_Interval DEF FiniteSubsetsOf
<1>3. T # {} OBVIOUS
<1>4. PICK t \in T : \A y \in T : ~(<<y, t>> \in R)
  <2> HIDE DEF R, T
  <2>1. QED BY <1>1, <1>2, <1>3, WFMin
<1>5. PICK i \in S : t = 1 .. i OBVIOUS
<1>6. ASSUME NEW k \in S PROVE i <= k
  <2> SUFFICES ASSUME k < i PROVE FALSE OBVIOUS
  <2>1. 1 .. k \subseteq 1 .. i /\ i \in 1 .. i /\ i \notin 1 .. k OBVIOUS
  <2>2. 1 .. k \in SUBSET Nat /\ 1 .. i \in SUBSET Nat OBVIOUS
  <2>3. <<1 .. k, 1 .. i>> \in R BY <2>1, <2>2 DEF StrictSubsetOrdering
  <2>4. QED BY <1>4, <1>5, <2>3
<1>7. QED BY <1>6

First(p, name, i) ==
  /\ i \in DOMAIN p.branches /\ GlobMatch(p.branches[i].name, name)
  /\ \A k \in DOMAIN p.branches : GlobMatch(p.branches[k].name, name) => i <= k

\* Without an access, the level of a branch is that of the first entry for it.
LEMMA LevelOfFirst ==
  ASSUME NEW c \in Config, NEW name, c.project.access = NoLevel
  PROVE  LET p == c.project IN
           \/ /\ GetLevel(p, name) = NoLevel
              /\ \A i \in DOMAIN p.branches : ~GlobMatch(p.branches[i].name, name)
           \/ \E i \in DOMAIN p.branches :
                First(p, name, i) /\ GetLevel(p, name) = p.branches[i].level
<1> DEFINE p == c.project
           hits == {i \in DOMAIN p.branches : GlobMatch(p.branches[i].name, name)}
           least == CHOOSE i \in hits : \A k \in hits : i <= k
<1>1. p.branches \in Seq([name : Text, level : 0 .. 3]) BY ProjectTypes
<1>2. hits \subseteq Nat BY <1>1
<1>3. CASE hits = {} BY <1>3 DEF GetLevel
<1>4. CASE hits # {}
  <2>1. \E i \in hits : \A k \in hits : i <= k
    <3> HIDE DEF hits
    <3>1. QED BY <1>2, <1>4, Least
  <2>2. least \in hits /\ \A k \in hits : least <= k BY <2>1
  <2>3. GetLevel(p, name) = p.branches[least].level BY <1>4 DEF GetLevel
  <2>4. First(p, name, least) BY <2>2 DEF First
  <2>5. QED BY <2>2, <2>3, <2>4
<1>5. QED BY <1>3, <1>4

LEMMA LevelTypes ==
  ASSUME NEW c \in Config, NEW name
  PROVE  /\ GetLevel(c.project, name) \in 0 .. 3
         /\ c.project.access # NoLevel => GetLevel(c.project, name) = c.project.access
         /\ ~IsGit(c.project) /\ c.project.access = NoLevel =>
              GetLevel(c.project, name) = NoLevel
<1> DEFINE p == c.project
<1>1. p.access \in 0 .. 3 /\ p.branches \in Seq([name : Text, level : 0 .. 3])
  BY ProjectTypes
<1>2. CASE p.access # NoLevel BY <1>1, <1>2 DEF GetLevel
<1>3. CASE p.access = NoLevel
  <2>1. \/ GetLevel(p, name) = NoLevel
        \/ \E i \in DOMAIN p.branches : GetLevel(p, name) = p.branches[i].level
    BY <1>3, LevelOfFirst
  <2>2. \A i \in DOMAIN p.branches :
          p.branches[i].level \in 0 .. 3 /\ p.branches[i] \in ToSet(p.branches)
    <3> SUFFICES ASSUME NEW i \in DOMAIN p.branches
                 PROVE  p.branches[i].level \in 0 .. 3 /\ p.branches[i] \in ToSet(p.branches)
      OBVIOUS
    <3>1. p.branches[i] \in [name : Text, level : 0 .. 3] /\ p.branches[i] \in ToSet(p.branches)
      BY <1>1, Element
    <3>2. QED BY <3>1
  <2>3. ~IsGit(p) => \A b \in ToSet(p.branches) : b.level = NoLevel
    BY ProjectTypes DEF ValidProject
  <2>4. QED BY <1>3, <2>1, <2>2, <2>3 DEF NoLevel
<1>4. QED BY <1>2, <1>3

\* The scope of an entry is of the level of any branch it covers, at most.
LEMMA CoveredBranch ==
  ASSUME NEW c \in Config, NEW b \in ToSet(c.project.branches), NEW name \in Text,
         Orderly(c.project), GlobMatch(b.name, name), GetLevel(c.project, name) # NoLevel
  PROVE  GetLevel(c.project, b.name) <= GetLevel(c.project, name)
<1> DEFINE p == c.project
<1>1. /\ p.branches \in Seq([name : Text, level : 0 .. 3])
      /\ \A x \in ToSet(p.branches) : Plain(x.name) /\ x.name \in Text
  BY ProjectTypes
<1>2. GetLevel(p, name) \in 0 .. 3 /\ GetLevel(p, b.name) \in 0 .. 3 BY LevelTypes
<1>3. CASE p.access # NoLevel
  <2>1. GetLevel(p, b.name) = GetLevel(p, name) BY <1>3, LevelTypes
  <2>2. QED BY <1>2, <2>1
<1>4. CASE p.access = NoLevel
  <2>1. PICK i \in DOMAIN p.branches :
          First(p, name, i) /\ GetLevel(p, name) = p.branches[i].level
    BY <1>4, LevelOfFirst
  <2>2. CASE GetLevel(p, b.name) = NoLevel BY <1>2, <2>2 DEF NoLevel
  <2>3. CASE GetLevel(p, b.name) # NoLevel
    <3>1. PICK k \in DOMAIN p.branches :
            First(p, b.name, k) /\ GetLevel(p, b.name) = p.branches[k].level
      BY <1>4, <2>3, LevelOfFirst
    <3> DEFINE I == p.branches[i].name
               K == p.branches[k].name
    <3>2. /\ I \in Text /\ K \in Text /\ b.name \in Text /\ Plain(I) /\ Plain(K)
          /\ i \in Nat /\ k \in Nat
      BY <1>1, Element
    <3>3. GlobMatch(I, name) /\ GlobMatch(K, b.name) BY <2>1, <3>1 DEF First
    <3> HIDE DEF I, K
    <3>4. GlobMatch(K, name) BY <3>2, <3>3, GlobThrough
    <3>5. i <= k BY <2>1, <3>4 DEF First, K
    <3>6. CASE i = k BY <1>2, <2>1, <3>1, <3>6
    <3>7. CASE i # k
      <4>1. i < k BY <3>2, <3>5, <3>7
      <4>2. ~GlobMatch(I, b.name) BY <3>1, <3>2, <4>1 DEF First, I
      <4>3. ~GlobMatch(I, K) BY <3>2, <3>3, <4>2, GlobThrough
      <4>4. GlobMatch(K, I) BY <3>2, <3>3, <3>4, <4>3, GlobOneCovers
      <4>5. p.branches[k].level <= p.branches[i].level
        BY <4>1, <4>4 DEF Orderly, I, K
      <4>6. QED BY <2>1, <3>1, <4>5
    <3>8. QED BY <3>6, <3>7
  <2>4. QED BY <2>2, <2>3
<1>5. QED BY <1>3, <1>4
-----------------------------------------------------------------------------
(***************************************************************************)
(* Roles of different kinds of jobs do not cover each other.               *)
(***************************************************************************)
Kinds == SplitKinds \cup {"branch", "pull-request"}
IsJob(j) == j.kind \in Word /\ j.text \in Seq(Word)

\* What the role of a job has after the path of its project.
RoleTail(policy, j) ==
  IF j.kind = "any" THEN Star
  ELSE IF j.kind # "pull-request" THEN <<j.kind>> \o j.text
  ELSE IF j = PR("untrusted") /\ policy = "public_restricted"
         THEN <<"pull-request-untrusted">>
         ELSE <<"pull-request">>

LEMMA RoleTails ==
  ASSUME NEW path \in Text, Last(path) # "*", NEW policy, NEW j, IsJob(j)
  PROVE  /\ RoleTail(policy, j) \in Text
         /\ FormatRoleId(path, policy, j) = path \o RoleTail(policy, j)
         /\ j.kind # "any" /\ j.kind # "pull-request" => RoleTail(policy, j)[1] = j.kind
         /\ j.kind = "pull-request" =>
              RoleTail(policy, j)[1] \in {"pull-request", "pull-request-untrusted"}
<1>0. /\ path \in Seq(Word) /\ j.kind \in Word /\ j.text \in Seq(Word)
      /\ \A w \in Word : <<w>> \in Text /\ <<w>>[1] = w /\ <<w>> \in Seq(Word)
      /\ "pull-request" \in Word /\ "pull-request-untrusted" \in Word
  BY TextTypes, Words, WordAssumption DEF IsJob
<1>1. CASE j.kind = "any" BY <1>1, Words DEF FormatRoleId, RoleTail
<1>2. CASE j.kind # "any" /\ j.kind # "pull-request"
  <2> DEFINE k == <<j.kind>>
             x == j.text
  <2>1. k \in Text /\ k[1] = j.kind /\ k \in Seq(Word) /\ x \in Seq(Word) BY <1>0
  <2>2. RoleTail(policy, j) = k \o x /\ FormatRoleId(path, policy, j) = (path \o k) \o x
    BY <1>2 DEF FormatRoleId, RoleTail
  <2> HIDE DEF k, x
  <2>3. k \o x \in Text /\ (k \o x)[1] = k[1] BY <2>1, Appended
  <2>4. (path \o k) \o x = path \o (k \o x) BY <1>0, <2>1, ConcatAssociative
  <2>5. QED BY <1>2, <2>1, <2>2, <2>3, <2>4
<1>3. CASE j.kind = "pull-request"
  <2>1. \A w \in Word : Append(path, w) = path \o <<w>> BY <1>0, AppendIsConcat
  <2>2. PICK w \in {"pull-request", "pull-request-untrusted"} :
          RoleTail(policy, j) = <<w>> /\ FormatRoleId(path, policy, j) = Append(path, w)
    BY <1>3 DEF FormatRoleId, RoleTail
  <2>3. w \in Word BY <1>0
  <2>4. QED BY <1>0, <1>3, <2>1, <2>2, <2>3
<1>4. QED BY <1>1, <1>2, <1>3

LEMMA SameKind ==
  ASSUME NEW path \in Text, Last(path) # "*", NEW policy,
         NEW j, IsJob(j), j.kind \in Kinds, NEW k, IsJob(k), k.kind \in Kinds,
         GlobMatch(FormatRoleId(path, policy, j), FormatRoleId(path, policy, k))
  PROVE  j.kind = k.kind
<1> DEFINE t == RoleTail(policy, j)
           u == RoleTail(policy, k)
<1>1. /\ t \in Text /\ FormatRoleId(path, policy, j) = path \o t
      /\ u \in Text /\ FormatRoleId(path, policy, k) = path \o u
  BY RoleTails
<1>2. /\ t[1] = j.kind \/ (j.kind = "pull-request"
                             /\ t[1] \in {"pull-request", "pull-request-untrusted"})
      /\ u[1] = k.kind \/ (k.kind = "pull-request"
                             /\ u[1] \in {"pull-request", "pull-request-untrusted"})
  BY RoleTails DEF Kinds, SplitKinds
<1> HIDE DEF t, u
<1>3. GlobMatch(t, u) BY <1>1, GlobAfter
<1>4. t[1] # "*" BY <1>2 DEF Kinds, SplitKinds
<1>5. t[1] = u[1] BY <1>1, <1>3, <1>4, GlobFirst
<1>6. QED BY <1>2, <1>5 DEF Kinds, SplitKinds

\* Roles of branches cover each other as the names do.
LEMMA BranchRoles ==
  ASSUME NEW path \in Text, Last(path) # "*", NEW policy,
         NEW g \in Text, NEW t \in Text,
         GlobMatch(FormatRoleId(path, policy, [kind |-> "branch", text |-> g]),
                   FormatRoleId(path, policy, [kind |-> "branch", text |-> t]))
  PROVE  GlobMatch(g, t)
<1> DEFINE w == <<"branch">>
           J(x) == [kind |-> "branch", text |-> x]
<1>1. w \in Text BY Words, WordAssumption
<1>2. ASSUME NEW x \in Text
      PROVE  /\ FormatRoleId(path, policy, J(x)) = path \o (w \o x)
             /\ w \o x \in Text
  <2>1. IsJob(J(x)) BY <1>2, TextTypes, WordAssumption DEF IsJob
  <2>2. RoleTail(policy, J(x)) = w \o x BY DEF RoleTail
  <2>3. /\ RoleTail(policy, J(x)) \in Text
        /\ FormatRoleId(path, policy, J(x)) = path \o RoleTail(policy, J(x))
    <3> HIDE DEF J
    <3>1. QED BY <2>1, RoleTails
  <2>4. QED BY <2>2, <2>3
<1>3. GlobMatch(path \o (w \o g), path \o (w \o t)) BY <1>2
<1>4. w \o g \in Text /\ w \o t \in Text BY <1>2
<1> HIDE DEF w
<1>5. GlobMatch(w \o g, w \o t) BY <1>3, <1>4, GlobAfter
<1>6. QED BY <1>1, <1>5, GlobAfter
-----------------------------------------------------------------------------
(***************************************************************************)
(* What is granted, and what a context is.                                 *)
(***************************************************************************)
LEMMA GrantedJobs ==
  ASSUME NEW c \in Config, NEW j \in JobsGranted(c.grant, c.project)
  PROVE  /\ IsJob(j) /\ j.kind # "branch"
         /\ j = EveryJob \/ j.kind \in Kinds
         /\ j = EveryJob /\ IsGit(c.project) => DefaultBranchLevel(c.project) = 1
<1> DEFINE p == c.project
           jobs == {i \in c.grant.job : i.kind # "branch"}
<1>1. IsJob(j) BY JobTypes DEF IsJob
<1>2. \A i \in jobs : i = EveryJob \/ i.kind \in Kinds BY LevelsAssumption DEF Config, Kinds
<1>3. \A i \in Split(jobs, p) :
        /\ i.kind # "branch" /\ (i = EveryJob \/ i.kind \in Kinds)
        /\ i = EveryJob /\ IsGit(p) => DefaultBranchLevel(p) = 1
  <2>1. ASSUME NEW i \in Split(jobs, p), i \in jobs \ {EveryJob}
        PROVE  i.kind # "branch" /\ i.kind \in Kinds /\ i # EveryJob
    BY <1>2, <2>1
  <2>2. PR("*").kind = "pull-request" /\ "pull-request" \in Kinds /\ PR("*") # EveryJob
    BY DEF PR, Kinds, EveryJob
  <2>3. \A k \in SplitKinds : k \in Kinds /\ k # "branch" /\ k # "any"
    BY DEF Kinds, SplitKinds
  <2>4. EveryJob.kind = "any" BY DEF EveryJob
  <2>5. CASE EveryJob \in jobs /\ IsGit(p) /\ DefaultBranchLevel(p) # 1
    <3>1. Split(jobs, p) = (jobs \ {EveryJob}) \cup {PR("*")}
                           \cup {[kind |-> k, text |-> Star] : k \in SplitKinds}
      BY <2>5 DEF Split
    <3>2. ASSUME NEW i \in Split(jobs, p)
          PROVE  i.kind # "branch" /\ i.kind \in Kinds /\ i # EveryJob
      <4>1. CASE i \in jobs \ {EveryJob} BY <2>1, <4>1
      <4>2. CASE i = PR("*") BY <2>2, <4>2
      <4>3. CASE \E k \in SplitKinds : i = [kind |-> k, text |-> Star]
        BY <2>3, <2>4, <4>3
      <4>4. QED BY <3>1, <4>1, <4>2, <4>3
    <3>3. QED BY <3>2
  <2>6. CASE ~(EveryJob \in jobs /\ IsGit(p) /\ DefaultBranchLevel(p) # 1)
    <3>1. Split(jobs, p) = jobs BY <2>6 DEF Split
    <3>2. QED BY <1>2, <2>6, <3>1
  <2>7. QED BY <2>5, <2>6
<1>4. j \in Split(jobs, p) \/ j \in {PR("trusted"), PR("untrusted")}
  BY DEF JobsGranted, NonBranchJobs
<1>5. \A w : PR(w).kind = "pull-request" /\ PR(w) # EveryJob /\ "pull-request" \in Kinds
  BY DEF PR, EveryJob, Kinds
<1>6. QED BY <1>1, <1>3, <1>4, <1>5

\* A grant is one of a job or one of a branch.
LEMMA GrantCases ==
  ASSUME NEW g, NEW p, NEW e \in ProjectGrants(g, p)
  PROVE  \/ \E j \in JobsGranted(g, p) : e.role = RoleId(p, j) /\ e.level = JobLevel(p, j)
         \/ \E b \in ToSet(p.branches) :
              e.role = BranchRole(p, b.name) /\ e.level = GetLevel(p, b.name)
BY DEF ProjectGrants, BranchesGranted

LEMMA ContextKinds ==
  ASSUME NEW c \in Config, NEW x \in ProjectContexts(c.project)
  PROVE  /\ IsJob(x) /\ x.kind \in Kinds
         /\ x.kind \in PRKinds =>
              IsGit(c.project) /\ c.project.policy # "" /\ AllowedByPolicy(c.project, x)
         /\ x.kind = "pull-request" => x \in {PR("trusted"), PR("untrusted")}
         /\ x.text \in Text
         /\ x.kind = "branch" =>
              x.text \in Text /\ x = [kind |-> "branch", text |-> x.text]
              /\ GetLevel(c.project, x.text) # NoLevel
<1> DEFINE p == c.project
<1>1. BranchNames \subseteq Text BY ConfigAssumption
<1>2. \A w \in Word : <<w>> \in Seq(Word) /\ <<w>> \in Text BY Words, TextTypes
<1>3. /\ "trusted" \in Word /\ "untrusted" \in Word /\ "nightly" \in Word
      /\ "pull-request" \in Word /\ "branch" \in Word /\ SplitKinds \subseteq Word
  BY WordAssumption
<1>4. CASE \E b \in BranchNames : x = [kind |-> "branch", text |-> b] /\ GetLevel(p, b) # NoLevel
  <2>1. PICK b \in BranchNames : x = [kind |-> "branch", text |-> b] /\ GetLevel(p, b) # NoLevel
    BY <1>4
  <2>2. b \in Text /\ b \in Seq(Word) BY <1>1, TextTypes
  <2>3. x.kind = "branch" /\ x.text = b BY <2>1
  <2>4. "branch" \notin PRKinds /\ "branch" \in Kinds /\ "branch" # "pull-request"
    BY DEF PRKinds, Kinds
  <2>5. QED BY <1>3, <2>1, <2>2, <2>3, <2>4 DEF IsJob
<1>5. CASE \E k \in SplitKinds \ {"pr-action"} : x = [kind |-> k, text |-> <<"nightly">>]
  <2>1. PICK k \in SplitKinds \ {"pr-action"} : x = [kind |-> k, text |-> <<"nightly">>]
    BY <1>5
  <2>2. k \in Kinds /\ k \notin PRKinds /\ k # "branch" /\ k # "pull-request" /\ k \in Word
    BY <1>3 DEF Kinds, PRKinds, SplitKinds
  <2>3. QED BY <1>2, <1>3, <2>1, <2>2 DEF IsJob
<1>6. CASE /\ IsGit(p) /\ p.policy # "" /\ AllowedByPolicy(p, x)
           /\ x \in {PR("trusted"), PR("untrusted"), [kind |-> "pr-action", text |-> <<"nightly">>]}
  <2>1. PICK k \in PRKinds, w \in {"trusted", "untrusted", "nightly"} :
          x = [kind |-> k, text |-> <<w>>]
    BY <1>6 DEF PR, PRKinds
  <2>2. k \in Kinds /\ k # "branch" /\ k \in Word
    BY <1>3, <2>1 DEF Kinds, PRKinds, SplitKinds
  <2>3. x.kind = "pull-request" => x \in {PR("trusted"), PR("untrusted")}
    <3>1. [kind |-> "pr-action", text |-> <<"nightly">>].kind = "pr-action" OBVIOUS
    <3>2. QED BY <1>6, <3>1
  <2>4. QED BY <1>2, <1>3, <1>6, <2>1, <2>2, <2>3 DEF IsJob
<1>7. QED BY <1>4, <1>5, <1>6 DEF ProjectContexts, Contexts
-----------------------------------------------------------------------------
(***************************************************************************)
(* Contexts.                                                               *)
(***************************************************************************)
LEMMA ContextLevels ==
  ASSUME NEW c \in Config, NEW x \in ProjectContexts(c.project)
  PROVE  /\ ContextLevel(c.project, x) \in 0 .. 3
         /\ DefaultBranchLevel(c.project) = 1 => ContextLevel(c.project, x) >= 1
         /\ c.project.access # NoLevel /\ ~IsGit(c.project) =>
              ContextLevel(c.project, x) = c.project.access
<1> DEFINE p == c.project
<1>1. /\ x.kind \in PRKinds => IsGit(p)
      /\ x.kind = "branch" => GetLevel(p, x.text) # NoLevel
  BY ContextKinds
<1>2. \A name : /\ GetLevel(p, name) \in 0 .. 3
                /\ p.access # NoLevel => GetLevel(p, name) = p.access
  BY LevelTypes
<1>3. CASE x.kind \in PRKinds BY <1>1, <1>3 DEF ContextLevel
<1>4. CASE x.kind = "branch"
  <2>1. ContextLevel(p, x) = GetLevel(p, x.text) BY <1>4 DEF ContextLevel, PRKinds
  <2>2. QED BY <1>1, <1>2, <1>4, <2>1 DEF NoLevel
<1>5. CASE x.kind \notin PRKinds /\ x.kind # "branch"
  <2>1. ContextLevel(p, x) = DefaultBranchLevel(p) BY <1>5 DEF ContextLevel
  <2>2. QED BY <1>2, <2>1 DEF DefaultBranchLevel
<1>6. QED BY <1>3, <1>4, <1>5

\* An organisation is level 1, so that nothing of a higher level is granted.
LEMMA OrganisationGrants ==
  ASSUME NEW c \in Config, Orderly(c.project), Starred(c.project),
         NEW e \in ProjectGrants(c.grant, c.project)
  PROVE  e.level \in 0 .. 1
<1> DEFINE p == c.project
<1>1. DefaultBranchLevel(p) = 1 /\ \A b \in ToSet(p.branches) : b.level = 1 BY DEF Orderly
<1>2. \A j : JobLevel(p, j) = 1 BY <1>1 DEF JobLevel
<1>3. ASSUME NEW name PROVE GetLevel(p, name) \in 0 .. 1
  <2>1. CASE p.access # NoLevel
    <3>1. GetLevel(p, name) = GetLevel(p, p.default) BY <2>1, LevelTypes
    <3>2. QED BY <1>1, <3>1 DEF DefaultBranchLevel
  <2>2. CASE p.access = NoLevel
    <3>1. \/ GetLevel(p, name) = NoLevel
          \/ \E i \in DOMAIN p.branches : GetLevel(p, name) = p.branches[i].level
      BY <2>2, LevelOfFirst
    <3>2. \A i \in DOMAIN p.branches : p.branches[i] \in ToSet(p.branches)
      BY ProjectTypes, Element
    <3>3. QED BY <1>1, <3>1, <3>2 DEF NoLevel
  <2>3. QED BY <2>1, <2>2
<1>4. QED BY <1>2, <1>3, GrantCases

LEMMA ContextHolds ==
  ASSUME NEW c \in Config, Orderly(c.project), NEW x \in ProjectContexts(c.project),
         NEW e \in HeldBy(c.project, x, ProjectGrants(c.grant, c.project))
  PROVE  e.level <= ContextLevel(c.project, x)
<1> DEFINE p == c.project
           g == c.grant
           level == ContextLevel(p, x)
<1>1. e \in ProjectGrants(g, p) /\ GlobMatch(e.role, ContextRole(p, x)) BY DEF HeldBy, Held
<1>2. /\ level \in 0 .. 3
      /\ DefaultBranchLevel(p) = 1 => level >= 1
      /\ p.access # NoLevel /\ ~IsGit(p) => level = p.access
  BY ContextLevels
<1>3. /\ IsJob(x) /\ x.kind \in Kinds
      /\ x.kind \in PRKinds => IsGit(p)
      /\ x.kind = "branch" => /\ x.text \in Text /\ x = [kind |-> "branch", text |-> x.text]
                              /\ GetLevel(p, x.text) # NoLevel
  BY ContextKinds
<1>4. CASE Starred(p)
  <2>1. e.level \in 0 .. 1 BY <1>1, <1>4, OrganisationGrants
  <2>2. level >= 1 BY <1>2, <1>4 DEF Orderly
  <2>3. QED BY <1>2, <2>1, <2>2
<1>5. CASE ~Starred(p)
  <2>1. p.path \in Text /\ Last(p.path) # "*" BY <1>5, ProjectTypes DEF Starred
  <2>2. ContextRole(p, x) = FormatRoleId(p.path, p.policy, x) BY <1>5 DEF ContextRole
  <2>3. ASSUME NEW j \in JobsGranted(g, p), e.role = RoleId(p, j), e.level = JobLevel(p, j)
        PROVE  e.level <= level
    <3>1. /\ IsJob(j) /\ j.kind # "branch" /\ (j = EveryJob \/ j.kind \in Kinds)
          /\ j = EveryJob /\ IsGit(p) => DefaultBranchLevel(p) = 1
      BY GrantedJobs
    <3>2. CASE j = EveryJob
      <4>1. e.level = DefaultBranchLevel(p)
        BY <2>3, <3>2 DEF JobLevel, PRKinds, EveryJob
      <4>2. CASE IsGit(p) BY <1>2, <3>1, <3>2, <4>1, <4>2
      <4>3. CASE ~IsGit(p)
        <5>1. /\ p.access # NoLevel => DefaultBranchLevel(p) = p.access
              /\ p.access = NoLevel => DefaultBranchLevel(p) = NoLevel
          BY <4>3, LevelTypes DEF DefaultBranchLevel
        <5>2. QED BY <1>2, <4>1, <4>3, <5>1 DEF NoLevel
      <4>4. QED BY <4>2, <4>3
    <3>3. CASE j.kind \in Kinds
      <4>1. GlobMatch(FormatRoleId(p.path, p.policy, j), FormatRoleId(p.path, p.policy, x))
        BY <1>1, <2>2, <2>3 DEF RoleId
      <4>2. j.kind = x.kind BY <1>3, <2>1, <3>1, <3>3, <4>1, SameKind
      <4>3. JobLevel(p, j) = level BY <3>1, <4>2 DEF JobLevel, ContextLevel
      <4>4. QED BY <1>2, <2>3, <4>3
    <3>4. QED BY <3>1, <3>2, <3>3
  <2>4. ASSUME NEW b \in ToSet(p.branches), e.role = BranchRole(p, b.name),
               e.level = GetLevel(p, b.name)
        PROVE  e.level <= level
    <3> DEFINE j == [kind |-> "branch", text |-> b.name]
    <3>1. b.name \in Text BY ProjectTypes
    <3>2. IsJob(j) /\ j.kind \in Kinds /\ j.kind = "branch"
      BY <3>1, TextTypes, WordAssumption DEF IsJob, Kinds
    <3>3. GlobMatch(FormatRoleId(p.path, p.policy, j), FormatRoleId(p.path, p.policy, x))
      BY <1>1, <2>2, <2>4 DEF BranchRole, RoleId
    <3>4. x.kind = "branch"
      <4> HIDE DEF j
      <4>1. QED BY <1>3, <2>1, <3>2, <3>3, SameKind
    <3>5. GlobMatch(b.name, x.text) BY <1>3, <2>1, <3>1, <3>3, <3>4, BranchRoles
    <3>6. level = GetLevel(p, x.text) BY <3>4 DEF ContextLevel, PRKinds
    <3>7. QED BY <1>3, <2>4, <3>4, <3>5, <3>6, CoveredBranch
  <2>5. QED BY <1>1, <2>3, <2>4, GrantCases
<1>6. QED BY <1>4, <1>5
-----------------------------------------------------------------------------
(***************************************************************************)
(* Hooks.                                                                  *)
(***************************************************************************)
Nested(p) ==
  \E a, b \in ToSet(p.branches) : a.level # b.level /\ GlobMatch(a.name, b.name)

\* The scope of an entry is of the entry's own level, unless branches nest.
LEMMA OwnLevel ==
  ASSUME NEW c \in Config, IsGit(c.project), ~Nested(c.project),
         NEW b \in ToSet(c.project.branches)
  PROVE  GetLevel(c.project, b.name) \in {NoLevel, b.level}
<1> DEFINE p == c.project
<1>1. p.access = NoLevel /\ \A i \in DOMAIN p.branches : p.branches[i] \in ToSet(p.branches)
  BY ProjectTypes, Element DEF ValidProject
<1>2. SUFFICES ASSUME NEW i \in DOMAIN p.branches, First(p, b.name, i),
                      GetLevel(p, b.name) = p.branches[i].level
               PROVE  p.branches[i].level = b.level
  BY <1>1, LevelOfFirst
<1>3. QED BY <1>1, <1>2 DEF Nested, First

LEMMA HookHolds ==
  ASSUME NEW c \in Config, ~Nested(c.project), ~Starred(c.project),
         NEW h \in ProjectHooks(c.project),
         NEW e \in Assumed(h.assumes, ProjectGrants(c.grant, c.project))
  PROVE  e.level <= h.level
<1> DEFINE p == c.project
           g == c.grant
           Job(k, t) == [kind |-> k, text |-> t]
           default == DefaultBranchLevel(p)
<1>1. /\ e \in ProjectGrants(g, p)
      /\ GlobMatch(e.role, h.assumes) \/ GlobMatch(h.assumes, e.role)
  BY DEF Assumed
<1>2. p.path \in Text /\ Last(p.path) # "*" BY ProjectTypes DEF Starred
<1>3. \A name : GetLevel(p, name) \in 0 .. 3 BY LevelTypes
<1>4. ASSUME NEW k \in {"branch", "cron"}, NEW t \in Seq(Word),
             h.assumes = RoleId(p, Job(k, t)),
             NEW j, IsJob(j), j.kind \in Kinds, e.role = RoleId(p, j)
      PROVE  j.kind = k
  <2> DEFINE m == Job(k, t)
  <2>1. IsJob(m) /\ m.kind \in Kinds /\ m.kind = k
    BY <1>4, WordAssumption DEF IsJob, Kinds, SplitKinds
  <2> HIDE DEF m
  <2>2. \/ GlobMatch(FormatRoleId(p.path, p.policy, j), FormatRoleId(p.path, p.policy, m))
        \/ GlobMatch(FormatRoleId(p.path, p.policy, m), FormatRoleId(p.path, p.policy, j))
    BY <1>1, <1>4 DEF RoleId, m
  <2>3. QED BY <1>2, <1>4, <2>1, <2>2, SameKind
<1>5. ASSUME NEW b \in ToSet(p.branches)
      PROVE  /\ b.name \in Text /\ b.name \in Seq(Word)
             /\ IsJob(Job("branch", b.name)) /\ Job("branch", b.name).kind \in Kinds
  BY <1>5, ProjectTypes, TextTypes, WordAssumption DEF IsJob, Kinds
<1>6. CASE h \in HgPushHooks(p)
  <2>1. /\ "hg-push" \in p.features /\ h.level = default
        /\ h.assumes = RoleId(p, Job("branch", Star))
    BY <1>6 DEF HgPushHooks, ProjectHook, BranchRole
  <2>2. ~IsGit(p) BY <2>1, LevelsAssumption DEF Config
  <2>3. Star \in Seq(Word) BY Words, TextTypes
  <2>4. ASSUME NEW j \in JobsGranted(g, p), e.role = RoleId(p, j), e.level = JobLevel(p, j)
        PROVE  e.level = default
    <3>1. IsJob(j) /\ j.kind # "branch" /\ (j = EveryJob \/ j.kind \in Kinds) BY GrantedJobs
    <3>2. j = EveryJob BY <1>4, <2>1, <2>3, <2>4, <3>1
    <3>3. QED BY <2>4, <3>2 DEF JobLevel, PRKinds, EveryJob
  <2>5. \A name : GetLevel(p, name) = default
    BY <2>2, LevelTypes DEF DefaultBranchLevel
  <2>6. e.level = default BY <1>1, <2>4, <2>5, GrantCases
  <2>7. QED BY <1>3, <2>1, <2>6 DEF DefaultBranchLevel
<1>7. CASE h \in GitPushHooks(p)
  <2>1. PICK b \in ToSet(p.branches) :
          /\ "git-push" \in p.features /\ h.level = b.level
          /\ h.assumes = RoleId(p, Job("branch", b.name))
    BY <1>7 DEF GitPushHooks, ProjectHook, BranchRole, PushRole
  <2>2. IsGit(p) BY <2>1, LevelsAssumption DEF Config
  <2>3. b.level \in 1 .. 3 BY <2>1, <2>2, ProjectTypes DEF ValidProject
  <2>4. ASSUME NEW j \in JobsGranted(g, p), e.role = RoleId(p, j), e.level = JobLevel(p, j)
        PROVE  e.level = 1
    <3>1. /\ IsJob(j) /\ j.kind # "branch" /\ (j = EveryJob \/ j.kind \in Kinds)
          /\ j = EveryJob => default = 1
      BY <2>2, GrantedJobs
    <3>2. j = EveryJob BY <1>4, <1>5, <2>1, <2>4, <3>1
    <3>3. QED BY <2>4, <3>1, <3>2 DEF JobLevel
  <2>5. ASSUME NEW a \in ToSet(p.branches), e.role = BranchRole(p, a.name),
               e.level = GetLevel(p, a.name)
        PROVE  e.level \in {NoLevel, b.level}
    <3>1. GlobMatch(a.name, b.name) \/ GlobMatch(b.name, a.name)
      <4>1. a.name \in Text /\ b.name \in Text BY <1>5
      <4>2. /\ e.role = FormatRoleId(p.path, p.policy, Job("branch", a.name))
            /\ h.assumes = FormatRoleId(p.path, p.policy, Job("branch", b.name))
        BY <2>1, <2>5 DEF BranchRole, RoleId
      <4>3. QED BY <1>1, <1>2, <4>1, <4>2, BranchRoles
    <3>2. a.level = b.level BY <3>1 DEF Nested
    <3>3. QED BY <2>2, <2>5, <3>2, OwnLevel
  <2>6. QED BY <1>1, <2>1, <2>3, <2>4, <2>5, GrantCases DEF NoLevel
<1>8. CASE h \in CronHooks(p)
  <2>1. PICK t \in Seq(Word) :
          h.level = default /\ h.assumes = RoleId(p, Job("cron", t))
    <3>1. /\ Star \in Seq(Word) /\ \A w \in p.targets : <<w>> \in Seq(Word)
      BY Words, TextTypes, ConfigAssumption DEF Config
    <3>2. \E n : \/ h = ProjectHook(n, RoleId(p, Job("cron", Star)), default)
                 \/ \E w \in p.targets : h = ProjectHook(n, RoleId(p, Job("cron", <<w>>)), default)
      BY <1>8 DEF CronHooks
    <3>3. PICK t \in Seq(Word) : \E n : h = ProjectHook(n, RoleId(p, Job("cron", t)), default)
      BY <3>1, <3>2
    <3>4. QED BY <3>3 DEF ProjectHook
  <2>2. ASSUME NEW j \in JobsGranted(g, p), e.role = RoleId(p, j), e.level = JobLevel(p, j)
        PROVE  e.level = default
    <3>1. IsJob(j) /\ (j = EveryJob \/ j.kind \in Kinds) BY GrantedJobs
    <3>2. j = EveryJob \/ j.kind = "cron" BY <1>4, <2>1, <2>2, <3>1
    <3>3. QED BY <2>2, <3>2 DEF JobLevel, PRKinds, EveryJob
  <2>3. ASSUME NEW a \in ToSet(p.branches), e.role = BranchRole(p, a.name)
        PROVE  FALSE
    <3> DEFINE j == Job("branch", a.name)
    <3>1. IsJob(j) /\ j.kind \in Kinds /\ j.kind = "branch" /\ e.role = RoleId(p, j)
      BY <1>5, <2>3 DEF BranchRole
    <3> HIDE DEF j
    <3>2. j.kind = "cron" BY <1>4, <2>1, <3>1
    <3>3. QED BY <3>1, <3>2
  <2>4. e.level = default BY <1>1, <2>2, <2>3, GrantCases
  <2>5. QED BY <1>3, <2>1, <2>4 DEF DefaultBranchLevel
<1>9. QED BY <1>6, <1>7, <1>8 DEF ProjectHooks

-----------------------------------------------------------------------------
(***************************************************************************)
(* Pull requests.                                                          *)
(***************************************************************************)
JobsToSplit(g) == {i \in g.job : i.kind # "branch"}

LEMMA NonBranchCases ==
  ASSUME NEW g, NEW p, NEW j \in NonBranchJobs(g, p)
  PROVE  /\ AllowedByPolicy(p, j)
         /\ \/ j \in Split(JobsToSplit(g), p) /\ (j.kind \in PRKinds => PRsIncluded(g, p))
            \/ /\ PR("*") \in Split(JobsToSplit(g), p) /\ PRsIncluded(g, p)
               /\ j \in {PR("trusted"), PR("untrusted")}
<1>1. PR("*").kind \in PRKinds BY DEF PR, PRKinds
<1>2. QED BY <1>1 DEF NonBranchJobs, JobsToSplit

LEMMA SplitCases ==
  ASSUME NEW g, NEW p, NEW j \in Split(JobsToSplit(g), p)
  PROVE  \/ j \in g.job
         \/ EveryJob \in g.job
BY DEF Split, JobsToSplit

\* A pull request has a role of its own only if the policy tells them apart.
LEMMA PullRequestRoles ==
  ASSUME NEW c \in Config, ~Starred(c.project),
         NEW j \in {PR("trusted"), PR("untrusted")}, NEW x \in {PR("trusted"), PR("untrusted")},
         AllowedByPolicy(c.project, j), AllowedByPolicy(c.project, x), c.project.policy # "",
         GlobMatch(RoleId(c.project, j), FormatRoleId(c.project.path, c.project.policy, x))
  PROVE  j = x
<1> DEFINE p == c.project
<1>0. /\ <<"pull-request">>[1] = "pull-request"
      /\ <<"pull-request-untrusted">>[1] = "pull-request-untrusted"
  OBVIOUS
<1>1. p.path \in Text /\ Last(p.path) # "*" BY ProjectTypes DEF Starred
<1>2. p.policy \in {"public", "collaborators", "public_restricted"}
  BY JobsAssumption DEF Config
<1>3. PR("trusted") # PR("untrusted")
  <2>1. PR("trusted").text[1] = "trusted" /\ PR("untrusted").text[1] = "untrusted" BY DEF PR
  <2>2. QED BY <2>1
<1>4. CASE p.policy \in {"public", "collaborators"} BY <1>3, <1>4 DEF AllowedByPolicy
<1>5. CASE p.policy = "public_restricted"
  <2>1. \A y : /\ y = PR("trusted") => RoleTail(p.policy, y)[1] = "pull-request"
               /\ y = PR("untrusted") => RoleTail(p.policy, y)[1] = "pull-request-untrusted"
    <3> SUFFICES ASSUME NEW y
                 PROVE  /\ y = PR("trusted") => RoleTail(p.policy, y)[1] = "pull-request"
                        /\ y = PR("untrusted") =>
                             RoleTail(p.policy, y)[1] = "pull-request-untrusted"
      OBVIOUS
    <3>1. CASE y = PR("trusted")
      <4>1. y.kind = "pull-request" /\ y # PR("untrusted") BY <1>3, <3>1 DEF PR
      <4>2. RoleTail(p.policy, y) = <<"pull-request">> BY <4>1 DEF RoleTail
      <4>3. RoleTail(p.policy, y)[1] = "pull-request" BY <1>0, <4>2
      <4>4. QED BY <4>1, <4>3
    <3>2. CASE y = PR("untrusted")
      <4>1. y.kind = "pull-request" /\ y # PR("trusted") BY <1>3, <3>2 DEF PR
      <4>2. RoleTail(p.policy, y) = <<"pull-request-untrusted">>
        BY <1>5, <3>2, <4>1 DEF RoleTail
      <4>3. RoleTail(p.policy, y)[1] = "pull-request-untrusted" BY <1>0, <4>2
      <4>4. QED BY <4>1, <4>3
    <3>3. QED BY <3>1, <3>2
  <2>2. IsJob(j) /\ IsJob(x)
    <3>1. \A w \in Word : IsJob(PR(w)) BY Words, TextTypes, WordAssumption DEF IsJob, PR
    <3>2. "trusted" \in Word /\ "untrusted" \in Word BY WordAssumption
    <3>3. QED BY <3>1, <3>2
  <2> DEFINE t == RoleTail(p.policy, j)
             u == RoleTail(p.policy, x)
  <2>3. t \in Text /\ u \in Text /\ GlobMatch(p.path \o t, p.path \o u)
    BY <1>1, <2>2, RoleTails DEF RoleId
  <2>4. /\ j = PR("trusted") => t[1] = "pull-request"
        /\ j = PR("untrusted") => t[1] = "pull-request-untrusted"
        /\ x = PR("trusted") => u[1] = "pull-request"
        /\ x = PR("untrusted") => u[1] = "pull-request-untrusted"
    BY <2>1
  <2>5. t[1] = u[1]
    <3> HIDE DEF t, u
    <3>1. GlobMatch(t, u) BY <1>1, <2>3, GlobAfter
    <3>2. t[1] # "*" BY <2>4
    <3>3. QED BY <2>3, <3>1, <3>2, GlobFirst
  <2>6. QED BY <2>4, <2>5
<1>6. QED BY <1>2, <1>4, <1>5

LEMMA PullRequestHolds ==
  ASSUME NEW c \in Config, ~Starred(c.project), ~GrantRaises(c.grant, c.project),
         NEW x \in ProjectContexts(c.project), x.kind = "pull-request",
         NEW e \in HeldBy(c.project, x, ProjectGrants(c.grant, c.project))
  PROVE  /\ c.grant.job \cap {EveryJob, PR("*"), x} # {}
         /\ \/ c.grant.include
            \/ EveryJob \in c.grant.job /\ DefaultBranchLevel(c.project) = 1
<1> DEFINE p == c.project
           g == c.grant
<1>1. e \in ProjectGrants(g, p) /\ GlobMatch(e.role, ContextRole(p, x)) BY DEF HeldBy, Held
<1>2. /\ IsJob(x) /\ x.kind \in Kinds /\ x \in {PR("trusted"), PR("untrusted")}
      /\ IsGit(p) /\ p.policy # "" /\ AllowedByPolicy(p, x)
  BY ContextKinds DEF PRKinds
<1>3. p.path \in Text /\ Last(p.path) # "*" BY ProjectTypes DEF Starred
<1>4. ContextRole(p, x) = FormatRoleId(p.path, p.policy, x) BY DEF ContextRole
<1>5. ASSUME NEW b \in ToSet(p.branches), e.role = BranchRole(p, b.name)
      PROVE  FALSE
  <2> DEFINE j == [kind |-> "branch", text |-> b.name]
  <2>1. b.name \in Text BY ProjectTypes
  <2>2. IsJob(j) /\ j.kind \in Kinds /\ j.kind = "branch"
    BY <2>1, TextTypes, WordAssumption DEF IsJob, Kinds
  <2>3. GlobMatch(FormatRoleId(p.path, p.policy, j), FormatRoleId(p.path, p.policy, x))
    BY <1>1, <1>4, <1>5 DEF BranchRole, RoleId
  <2> HIDE DEF j
  <2>4. QED BY <1>2, <1>3, <2>2, <2>3, SameKind
<1>6. PICK j \in JobsGranted(g, p) : e.role = RoleId(p, j)
  BY <1>1, <1>5, GrantCases
<1>7. /\ IsJob(j) /\ (j = EveryJob \/ j.kind \in Kinds)
      /\ j = EveryJob => DefaultBranchLevel(p) = 1
  BY <1>2, GrantedJobs
<1>8. j \in NonBranchJobs(g, p) BY DEF JobsGranted
<1>9. CASE j = EveryJob
  <2>1. j \notin {PR("trusted"), PR("untrusted")} BY <1>9 DEF PR, EveryJob
  <2>2. EveryJob \in g.job BY <1>8, <1>9, <2>1, NonBranchCases, SplitCases
  <2>3. QED BY <1>7, <1>9, <2>2
<1>10. CASE j.kind \in Kinds
  <2>1. GlobMatch(FormatRoleId(p.path, p.policy, j), FormatRoleId(p.path, p.policy, x))
    BY <1>1, <1>4, <1>6 DEF RoleId
  <2>2. j.kind = "pull-request" BY <1>2, <1>3, <1>7, <1>10, <2>1, SameKind
  <2>3. /\ AllowedByPolicy(p, j) /\ PRsIncluded(g, p)
        /\ \/ j \in Split(JobsToSplit(g), p)
           \/ PR("*") \in Split(JobsToSplit(g), p) /\ j \in {PR("trusted"), PR("untrusted")}
    BY <1>8, <2>2, NonBranchCases DEF PRKinds
  <2>4. g.include BY <2>3 DEF PRsIncluded
  <2>5. CASE EveryJob \in g.job \/ PR("*") \in g.job BY <2>4, <2>5
  <2>6. CASE EveryJob \notin g.job /\ PR("*") \notin g.job
    <3>1. j \in g.job BY <2>3, <2>6, SplitCases
    <3>2. j # [kind |-> "pull-request", text |-> << >>]
      <4>1. ProjectMatch(g, p) BY <1>1 DEF ProjectGrants
      <4>2. QED BY <3>1, <4>1 DEF GrantRaises
    <3>3. j \in {PR("trusted"), PR("untrusted")}
      BY <2>2, <2>6, <3>1, <3>2, JobsAssumption DEF Config
    <3>4. j = x
      <4>1. GlobMatch(RoleId(p, j), FormatRoleId(p.path, p.policy, x)) BY <2>1 DEF RoleId
      <4>2. QED BY <1>2, <2>3, <3>3, <4>1, PullRequestRoles
    <3>5. QED BY <2>4, <3>1, <3>4
  <2>7. QED BY <2>5, <2>6
<1>11. QED BY <1>7, <1>9, <1>10
-----------------------------------------------------------------------------
(***************************************************************************)
(* What is asked for.                                                      *)
(***************************************************************************)
\* A context holds what its project grants to a job or branch that covers it.
LEMMA HeldRole ==
  ASSUME NEW c \in Config, ~Starred(c.project), NEW x \in ProjectContexts(c.project),
         NEW j, IsJob(j), NEW level,
         [role |-> RoleId(c.project, j), level |-> level] \in ProjectGrants(c.grant, c.project),
         \/ j = x
         \/ j = EveryJob
         \/ j.kind = x.kind /\ x.kind # "pull-request" /\ j.text \in Text
            /\ GlobMatch(j.text, x.text)
  PROVE  \E e \in HeldBy(c.project, x, ProjectGrants(c.grant, c.project)) : e.level = level
<1> DEFINE p == c.project
           t == RoleTail(p.policy, j)
           u == RoleTail(p.policy, x)
<1>1. p.path \in Text /\ Last(p.path) # "*" BY ProjectTypes DEF Starred
<1>2. IsJob(x) /\ x.text \in Text /\ x.kind \in Kinds BY ContextKinds
<1>3. /\ t \in Text /\ RoleId(p, j) = p.path \o t
      /\ u \in Text /\ ContextRole(p, x) = p.path \o u
  <2>1. t \in Text /\ FormatRoleId(p.path, p.policy, j) = p.path \o t BY <1>1, RoleTails
  <2>2. u \in Text /\ FormatRoleId(p.path, p.policy, x) = p.path \o u
    <3>1. IsJob(x) BY <1>2
    <3>2. QED BY <1>1, <3>1, RoleTails
  <2>3. /\ RoleId(p, j) = FormatRoleId(p.path, p.policy, j)
        /\ ContextRole(p, x) = FormatRoleId(p.path, p.policy, x)
    BY DEF RoleId, ContextRole
  <2> HIDE DEF t, u
  <2>4. QED BY <2>1, <2>2, <2>3
<1>4. GlobMatch(t, u)
  <2>1. CASE j = x BY <2>1 DEF GlobMatch
  <2>2. CASE j = EveryJob
    <3>1. t = Star BY <2>2 DEF RoleTail, EveryJob
    <3>2. QED BY <1>3, <3>1, StarCovers
  <2>3. CASE /\ j.kind = x.kind /\ x.kind # "pull-request" /\ j.text \in Text
             /\ GlobMatch(j.text, x.text)
    <3>1. x.kind # "any" BY <1>2 DEF Kinds, SplitKinds
    <3>2. t = <<x.kind>> \o j.text /\ u = <<x.kind>> \o x.text BY <2>3, <3>1 DEF RoleTail
    <3>3. <<x.kind>> \in Text BY <1>2, Words DEF IsJob
    <3> DEFINE a == j.text
               b == x.text
               k == <<x.kind>>
    <3>4. a \in Text /\ b \in Text /\ k \in Text /\ GlobMatch(a, b) BY <1>2, <2>3, <3>3
    <3>5. GlobMatch(k \o a, k \o b)
      <4> HIDE DEF a, b, k
      <4>1. QED BY <3>4, GlobBefore
    <3>6. QED BY <3>2, <3>5
  <2>4. QED BY <2>1, <2>2, <2>3
<1>5. GlobMatch(RoleId(p, j), ContextRole(p, x))
  <2> HIDE DEF t, u
  <2>1. QED BY <1>1, <1>3, <1>4, GlobBefore
<1>6. QED BY <1>5 DEF HeldBy, Held

LEMMA HeldBranch ==
  ASSUME NEW c \in Config, ~Starred(c.project), ProjectMatch(c.grant, c.project),
         NEW x \in ProjectContexts(c.project), x.kind = "branch",
         NEW b \in BranchesGranted(c.grant, c.project), GlobMatch(b.name, x.text)
  PROVE  \E e \in HeldBy(c.project, x, ProjectGrants(c.grant, c.project)) :
           e.level = GetLevel(c.project, b.name)
<1> DEFINE p == c.project
           j == [kind |-> "branch", text |-> b.name]
<1>1. b \in ToSet(p.branches) BY DEF BranchesGranted
<1>2. b.name \in Text BY <1>1, ProjectTypes
<1>3. /\ IsJob(j) /\ j.kind = x.kind /\ x.kind # "pull-request" /\ j.text \in Text
      /\ GlobMatch(j.text, x.text)
  BY <1>2, TextTypes, WordAssumption DEF IsJob
<1>4. [role |-> RoleId(p, j), level |-> GetLevel(p, b.name)] \in ProjectGrants(c.grant, p)
  BY DEF ProjectGrants, BranchRole
<1> HIDE DEF j
<1>5. QED BY <1>3, <1>4, HeldRole

LEMMA HeldJob ==
  ASSUME NEW c \in Config, ~Starred(c.project), ProjectMatch(c.grant, c.project),
         NEW x \in ProjectContexts(c.project), NEW j \in JobsGranted(c.grant, c.project),
         \/ j = x
         \/ j = EveryJob
         \/ j.kind = x.kind /\ x.kind # "pull-request" /\ j.text \in Text
            /\ GlobMatch(j.text, x.text)
  PROVE  \E e \in HeldBy(c.project, x, ProjectGrants(c.grant, c.project)) :
           e.level = JobLevel(c.project, j)
<1>1. IsJob(j) BY GrantedJobs
<1>2. [role |-> RoleId(c.project, j), level |-> JobLevel(c.project, j)]
        \in ProjectGrants(c.grant, c.project)
  BY DEF ProjectGrants
<1>3. QED BY <1>1, <1>2, HeldRole

\* The names by which the jobs of a grantee go (Names of EveryJobServed).
NamesContext(c, j, x) ==
  \/ j.kind = "any"
  \/ j.kind = x.kind /\ IF x.kind = "branch"
                        THEN \E b \in ToSet(c.project.branches) :
                               /\ GlobMatch(j.text, b.name) /\ GlobMatch(b.name, x.text)
                               /\ IsGit(c.project) => b.level = ContextLevel(c.project, x)
                        ELSE GlobMatch(j.text, x.text)

\* A pattern among a grantee's jobs.
LEMMA AskedJobs ==
  ASSUME NEW c \in Config, ~GrantRaises(c.grant, c.project),
         ProjectMatch(c.grant, c.project), NEW j \in c.grant.job
  PROVE  /\ IsJob(j) /\ j.text \in Text
         /\ j.kind # "pull-request" => Plain(j.text)
         /\ j.kind = "pull-request" => j \in {PR("*"), PR("trusted"), PR("untrusted")}
         /\ j.kind = "any" => j = EveryJob
<1>1. IsJob(j) BY ConfigAssumption DEF Config, IsJob
<1>2. j # [kind |-> "pull-request", text |-> << >>] BY DEF GrantRaises
<1>3. j.kind = "any" => j = EveryJob
  BY LevelsAssumption DEF Config, SplitKinds
<1>4. CASE j \in {PR("*"), PR("trusted"), PR("untrusted")}
  <2>1. PICK w \in {"*", "trusted", "untrusted"} : j = PR(w) BY <1>4
  <2>2. w \in Word BY WordAssumption
  <2>3. j.kind = "pull-request" /\ j.text \in Text BY <2>1, <2>2, Words DEF PR
  <2>4. QED BY <1>1, <1>3, <1>4, <2>3
<1>5. CASE /\ j.kind # "pull-request"
           /\ j.text \in Text /\ \A i \in 1 .. Len(j.text) - 1 : j.text[i] # "*"
  BY <1>1, <1>3, <1>5 DEF Plain
<1>6. QED BY <1>2, <1>4, <1>5, JobsAssumption DEF Config

\* A branch: some entry for it is granted, at its level.
LEMMA BranchServed ==
  ASSUME NEW c \in Config, ~Starred(c.project),
         ~GrantRaises(c.grant, c.project), ProjectMatch(c.grant, c.project),
         NEW x \in ProjectContexts(c.project), x.kind = "branch",
         NEW j \in c.grant.job, NamesContext(c, j, x),
         LevelMatch(c.grant, ContextLevel(c.project, x)),
         ~IsGit(c.project) => c.grant.level = {} \/ EveryJob \in c.grant.job
  PROVE  \E e \in HeldBy(c.project, x, ProjectGrants(c.grant, c.project)) :
           e.level = ContextLevel(c.project, x)
<1> DEFINE p == c.project
           g == c.grant
           level == ContextLevel(p, x)
           Asks(b) == \E i \in g.job : i.kind = "any" \/ (i.kind = "branch" /\ GlobMatch(i.text, b.name))
<1>1. /\ x.text \in Text /\ level = GetLevel(p, x.text) /\ level # NoLevel
  BY ContextKinds DEF ContextLevel, PRKinds
<1>2. /\ p.branches \in Seq([name : Text, level : 0 .. 3])
      /\ \A b \in ToSet(p.branches) : Plain(b.name) /\ b.name \in Text
  BY ProjectTypes
<1>3. ASSUME NEW b \in ToSet(p.branches), Asks(b), GlobMatch(b.name, x.text),
             GetLevel(p, b.name) = level, LevelMatch(g, b.level)
      PROVE  \E e \in HeldBy(p, x, ProjectGrants(g, p)) : e.level = level
  <2>1. b \in BranchesGranted(g, p) BY <1>3 DEF BranchesGranted
  <2>2. QED BY <1>3, <2>1, HeldBranch
<1>4. /\ IsJob(j) /\ j.text \in Text
      /\ j.kind # "pull-request" => Plain(j.text)
      /\ j.kind = "any" => j = EveryJob
  BY AskedJobs
<1>5. CASE IsGit(p)
  <2>1. p.access = NoLevel BY <1>5, ProjectTypes DEF ValidProject
  <2>2. PICK i \in DOMAIN p.branches :
          First(p, x.text, i) /\ level = p.branches[i].level
    BY <1>1, <2>1, LevelOfFirst
  <2> DEFINE b == p.branches[i]
  <2>3. b \in ToSet(p.branches) /\ b.name \in Text /\ Plain(b.name) /\ i \in Nat
    BY <1>2, Element
  <2>4. GlobMatch(b.name, x.text) BY <2>2 DEF First
  <2>5. ASSUME NEW a \in ToSet(p.branches), GlobMatch(a.name, x.text), GlobMatch(b.name, a.name)
        PROVE  GetLevel(p, a.name) = level
    <3>1. PICK k \in DOMAIN p.branches :
            First(p, a.name, k) /\ GetLevel(p, a.name) = p.branches[k].level
      BY <2>1, <2>5, LevelOfFirst
    <3>2. k <= i BY <2>5, <3>1 DEF First
    <3>3. i <= k
      <4>1. k \in Nat /\ p.branches[k].name \in Text /\ Plain(p.branches[k].name)
        BY <1>2, Element
      <4>2. a.name \in Text /\ GlobMatch(p.branches[k].name, a.name) BY <1>2, <3>1 DEF First
      <4>3. GlobMatch(p.branches[k].name, x.text) BY <1>1, <2>5, <4>1, <4>2, GlobThrough
      <4>4. QED BY <2>2, <4>3 DEF First
    <3>4. k \in Nat BY <1>2, Element
    <3>5. k = i BY <2>3, <3>2, <3>3, <3>4
    <3>6. QED BY <2>2, <3>1, <3>5
  <2>6. GetLevel(p, b.name) = level BY <2>3, <2>4, <2>5 DEF GlobMatch
  <2>7. LevelMatch(g, b.level) BY <2>2
  <2>8. CASE j.kind = "any" BY <1>3, <2>3, <2>4, <2>6, <2>7, <2>8
  <2>9. CASE j.kind # "any"
    <3>1. PICK a \in ToSet(p.branches) :
            j.kind = "branch" /\ GlobMatch(j.text, a.name) /\ GlobMatch(a.name, x.text)
            /\ a.level = level
      BY <1>5, <2>9 DEF NamesContext
    <3>2. a.name \in Text BY <1>2
    <3>3. CASE GlobMatch(b.name, a.name)
      <4>1. GetLevel(p, a.name) = level BY <2>5, <3>1, <3>3
      <4>2. Asks(a) /\ LevelMatch(g, a.level) BY <3>1
      <4>3. QED BY <1>3, <3>1, <4>1, <4>2
    <3>4. CASE ~GlobMatch(b.name, a.name)
      <4>1. GlobMatch(a.name, b.name)
        <5> HIDE DEF b
        <5>1. QED BY <1>1, <2>3, <2>4, <3>1, <3>2, <3>4, GlobOneCovers
      <4>2. GlobMatch(j.text, b.name)
        <5> DEFINE t == j.text
        <5>1. t \in Text /\ Plain(t) /\ GlobMatch(t, a.name) BY <1>4, <3>1
        <5> HIDE DEF b, t
        <5>2. GlobMatch(t, b.name) BY <2>3, <3>2, <4>1, <5>1, GlobThrough
        <5>3. QED BY <5>2 DEF t
      <4>3. Asks(b) BY <3>1, <4>2
      <4>4. QED BY <1>3, <2>3, <2>4, <2>6, <2>7, <4>3
    <3>5. QED BY <3>3, <3>4
  <2>10. QED BY <2>8, <2>9
<1>6. CASE ~IsGit(p)
  <2>1. \A name : GetLevel(p, name) = level BY <1>1, <1>6, LevelTypes
  <2>2. CASE EveryJob \in g.job
    <3>1. EveryJob \in Split(JobsToSplit(g), p)
      BY <1>6, <2>2 DEF Split, JobsToSplit, EveryJob
    <3>2. EveryJob \in NonBranchJobs(g, p)
      <4>1. /\ EveryJob # PR("*") /\ EveryJob.kind = "any"
            /\ EveryJob # PR("trusted") /\ EveryJob # PR("untrusted")
        BY DEF EveryJob, PR
      <4>2. QED BY <3>1, <4>1
              DEF NonBranchJobs, JobsToSplit, FeatureOn, PRKinds, AllowedByPolicy
    <3>3. EveryJob \in JobsGranted(g, p) BY <1>6, <3>2 DEF JobsGranted, JobMatch
    <3>4. JobLevel(p, EveryJob) = level
      BY <2>1 DEF JobLevel, DefaultBranchLevel, EveryJob, PRKinds
    <3>5. QED BY <3>3, <3>4, HeldJob
  <2>3. CASE EveryJob \notin g.job
    <3>1. g.level = {} BY <1>6, <2>3
    <3>2. PICK a \in ToSet(p.branches) :
            j.kind = "branch" /\ GlobMatch(j.text, a.name) /\ GlobMatch(a.name, x.text)
      BY <1>4, <2>3 DEF NamesContext
    <3>3. Asks(a) /\ LevelMatch(g, a.level) BY <3>1, <3>2 DEF LevelMatch
    <3>4. QED BY <1>3, <2>1, <3>2, <3>3
  <2>4. QED BY <2>2, <2>3
<1>7. QED BY <1>5, <1>6

\* What is kept of the jobs a grantee asks for.
LEMMA KeptJob ==
  ASSUME NEW g, NEW p, NEW j \in Split(JobsToSplit(g), p), j # PR("*"),
         FeatureOn(p, j.kind), j.kind \in PRKinds => PRsIncluded(g, p),
         AllowedByPolicy(p, j), JobMatch(g, p, j)
  PROVE  j \in JobsGranted(g, p)
BY DEF JobsGranted, NonBranchJobs, JobsToSplit

LEMMA KeptPullRequest ==
  ASSUME NEW g, NEW p, PR("*") \in Split(JobsToSplit(g), p), PRsIncluded(g, p),
         NEW x \in {PR("trusted"), PR("untrusted")}, AllowedByPolicy(p, x)
  PROVE  x \in JobsGranted(g, p)
<1>1. PR("*").kind = "pull-request" /\ x.kind = "pull-request" BY DEF PR
<1>2. FeatureOn(p, "pull-request") BY DEF FeatureOn
<1>3. x \in NonBranchJobs(g, p) BY <1>1, <1>2 DEF NonBranchJobs, JobsToSplit
<1>4. QED BY <1>1, <1>3 DEF JobsGranted, JobMatch

\* Every other task: its own job is granted, at its level, or the `*` it comes under.
LEMMA OtherServed ==
  ASSUME NEW c \in Config, ~Starred(c.project),
         ~GrantRaises(c.grant, c.project), ProjectMatch(c.grant, c.project),
         NEW x \in ProjectContexts(c.project), x.kind # "branch",
         NEW j \in c.grant.job, NamesContext(c, j, x),
         LevelMatch(c.grant, ContextLevel(c.project, x)),
         FeatureOn(c.project, x.kind), x.kind \in PRKinds => c.grant.include,
         x.kind = "pr-action" => LevelMatch(c.grant, DefaultBranchLevel(c.project))
  PROVE  \E e \in HeldBy(c.project, x, ProjectGrants(c.grant, c.project)) :
           e.level = ContextLevel(c.project, x)
<1> DEFINE p == c.project
           g == c.grant
           level == ContextLevel(p, x)
<1>1. /\ IsJob(x) /\ x.text \in Text
      /\ x.kind \in SplitKinds \/ x \in {PR("trusted"), PR("untrusted")}
      /\ x.kind \in PRKinds => IsGit(p) /\ p.policy # "" /\ AllowedByPolicy(p, x)
  BY ContextKinds DEF Kinds
<1>2. level = IF x.kind \in PRKinds THEN 1 ELSE DefaultBranchLevel(p)
  BY DEF ContextLevel
<1>3. x.kind \in PRKinds => PRsIncluded(g, p) BY <1>1, <1>2 DEF PRsIncluded
<1>4. /\ j.text \in Text
      /\ j.kind = "any" => j = EveryJob
      /\ j.kind = "pull-request" => j \in {PR("*"), PR("trusted"), PR("untrusted")}
  BY AskedJobs
<1>5. EveryJob.kind = "any" /\ EveryJob # PR("*") /\ \A w : PR(w).kind = "pull-request"
  BY DEF EveryJob, PR
<1>6. \A i : /\ i.kind # "pull-request" =>
                  AllowedByPolicy(p, i)
             /\ i.kind \notin PRKinds => JobLevel(p, i) = DefaultBranchLevel(p)
             /\ i.kind \in PRKinds => JobLevel(p, i) = 1
  BY <1>5 DEF AllowedByPolicy, JobLevel
\* A task that is no pull request, under a job of its kind that is kept.
<1>7. ASSUME NEW i \in Split(JobsToSplit(g), p), i.kind = x.kind, x.kind \in SplitKinds,
             i.text \in Text, GlobMatch(i.text, x.text)
      PROVE  \E e \in HeldBy(p, x, ProjectGrants(g, p)) : e.level = level
  <2>1. i.kind # "pull-request" /\ i # PR("*") BY <1>5, <1>7 DEF SplitKinds
  <2>2. JobMatch(g, p, i) BY <1>2, <1>7 DEF JobMatch, SplitKinds, PRKinds
  <2>3. FeatureOn(p, i.kind) /\ (i.kind \in PRKinds => PRsIncluded(g, p)) BY <1>3, <1>7
  <2>4. i \in JobsGranted(g, p) BY <1>6, <2>1, <2>2, <2>3, KeptJob
  <2>5. JobLevel(p, i) = level BY <1>2, <1>6, <1>7
  <2>6. i.kind = x.kind /\ x.kind # "pull-request" /\ i.text \in Text /\ GlobMatch(i.text, x.text)
    BY <1>7, <2>1
  <2>7. QED BY <2>4, <2>5, <2>6, HeldJob
\* A pull request whose own job is granted.
<1>8. ASSUME x \in JobsGranted(g, p), x \in {PR("trusted"), PR("untrusted")}
      PROVE  \E e \in HeldBy(p, x, ProjectGrants(g, p)) : e.level = level
  <2>1. x.kind \in PRKinds BY <1>5, <1>8 DEF PRKinds
  <2>2. JobLevel(p, x) = level BY <1>2, <1>6, <2>1
  <2>3. QED BY <1>8, <2>2, HeldJob
<1>9. CASE j.kind = "any"
  <2>1. EveryJob \in JobsToSplit(g) BY <1>4, <1>5, <1>9 DEF JobsToSplit
  <2>2. CASE IsGit(p) /\ DefaultBranchLevel(p) # 1
    <3>1. Split(JobsToSplit(g), p) = (JobsToSplit(g) \ {EveryJob}) \cup {PR("*")}
                                     \cup {[kind |-> k, text |-> Star] : k \in SplitKinds}
      BY <2>1, <2>2 DEF Split
    <3>2. CASE x.kind \in SplitKinds
      <4> DEFINE i == [kind |-> x.kind, text |-> Star]
      <4>1. i \in Split(JobsToSplit(g), p) BY <3>1, <3>2
      <4>2. GlobMatch(Star, x.text) BY <1>1, StarCovers
      <4>3. Star \in Text BY Words, WordAssumption DEF Star
      <4>4. i.kind = x.kind /\ i.text = Star OBVIOUS
      <4> HIDE DEF i
      <4>5. QED BY <1>7, <3>2, <4>1, <4>2, <4>3, <4>4
    <3>3. CASE x \in {PR("trusted"), PR("untrusted")}
      <4>1. x.kind \in PRKinds BY <1>5, <3>3 DEF PRKinds
      <4>2. PR("*") \in Split(JobsToSplit(g), p) BY <3>1
      <4>3. x \in JobsGranted(g, p) BY <1>1, <1>3, <3>3, <4>1, <4>2, KeptPullRequest
      <4>4. QED BY <1>8, <3>3, <4>3
    <3>4. QED BY <1>1, <3>2, <3>3
  <2>3. CASE ~(IsGit(p) /\ DefaultBranchLevel(p) # 1)
    <3>1. EveryJob \in Split(JobsToSplit(g), p) BY <2>1, <2>3 DEF Split
    <3>2. EveryJob.kind \notin PRKinds /\ FeatureOn(p, EveryJob.kind)
      BY <1>5 DEF PRKinds, FeatureOn
    <3>3. level = DefaultBranchLevel(p) BY <1>1, <1>2, <2>3
    <3>4. JobMatch(g, p, EveryJob) BY <3>3 DEF JobMatch
    <3>5. AllowedByPolicy(p, EveryJob) /\ JobLevel(p, EveryJob) = level
      BY <1>5, <1>6, <3>2, <3>3
    <3>6. EveryJob \in JobsGranted(g, p) BY <1>5, <3>1, <3>2, <3>4, <3>5, KeptJob
    <3>7. QED BY <3>5, <3>6, HeldJob
  <2>4. QED BY <2>2, <2>3
<1>10. CASE j.kind # "any"
  <2>1. j.kind = x.kind /\ GlobMatch(j.text, x.text) BY <1>10 DEF NamesContext
  <2>2. j # EveryJob /\ j \in JobsToSplit(g) BY <1>5, <1>10, <2>1 DEF JobsToSplit
  <2>3. j \in Split(JobsToSplit(g), p) BY <2>2 DEF Split
  <2>4. CASE x.kind \in SplitKinds BY <1>4, <1>7, <2>1, <2>3, <2>4
  <2>5. CASE x \in {PR("trusted"), PR("untrusted")}
    <3>1. x.kind = "pull-request" /\ x.kind \in PRKinds BY <1>5, <2>5 DEF PRKinds
    <3>2. CASE j = PR("*")
      <4>1. x \in JobsGranted(g, p) BY <1>1, <1>3, <2>3, <2>5, <3>1, <3>2, KeptPullRequest
      <4>2. QED BY <1>8, <2>5, <4>1
    <3>3. CASE j # PR("*")
      <4>1. PICK w \in {"trusted", "untrusted"} : j = PR(w) BY <1>4, <2>1, <3>1, <3>3
      <4>2. PICK v \in {"trusted", "untrusted"} : x = PR(v) BY <2>5
      <4>3. GlobMatch(<<w>>, <<v>>) BY <2>1, <4>1, <4>2 DEF PR
      <4>4. Last(<<w>>) # "*" BY <4>1 DEF Last
      <4>5. j = x BY <4>1, <4>2, <4>3, <4>4 DEF GlobMatch
      <4>6. PR("*") # x BY <3>3, <4>5
      <4>7. FeatureOn(p, x.kind) /\ JobMatch(g, p, x) BY <3>1 DEF FeatureOn, JobMatch
      <4>8. x \in JobsGranted(g, p) BY <1>1, <1>3, <2>3, <3>1, <4>5, <4>6, <4>7, KeptJob
      <4>9. QED BY <1>8, <2>5, <4>8
    <3>4. QED BY <3>2, <3>3
  <2>6. QED BY <1>1, <2>4, <2>5
<1>11. QED BY <1>9, <1>10
-----------------------------------------------------------------------------
(***************************************************************************)
(* The theorems.                                                           *)
(***************************************************************************)
\* Neither a task nor whoever fires a hook comes by scopes above its level, for any
\* project and any grantee (LevelsSeparated of ManagedResources).
THEOREM LevelsHold == Spec => []LevelsSeparated
<1>1. ResourceInv => LevelsSeparated
  <2> SUFFICES ASSUME ResourceInv PROVE LevelsSeparated
    OBVIOUS
  <2>1. config \in Config BY DEF ResourceInv, ServiceInv
  <2>2. ContextsAtTheirLevel BY <2>1, ContextHolds DEF ContextsAtTheirLevel
  <2>3. HooksAtTheirLevel BY <2>1, HookHolds DEF HooksAtTheirLevel, Nested
  <2>4. QED BY <2>2, <2>3 DEF LevelsSeparated
<1>2. QED BY <1>1, Invariant, PTL

\* A pull request holds only what was granted to its own kind or to every job, and
\* nothing where pull requests are not included (PullRequestsAsGranted).
THEOREM PullRequestsHold == Spec => []PullRequestsAsGranted
<1>1. ResourceInv => PullRequestsAsGranted
  <2> SUFFICES ASSUME ResourceInv PROVE PullRequestsAsGranted
    OBVIOUS
  <2>1. config \in Config BY DEF ResourceInv, ServiceInv
  <2>2. ~Raises(config) => ~GrantRaises(config.grant, config.project) BY DEF Raises
  <2>3. QED BY <2>1, <2>2, PullRequestHolds DEF PullRequestsAsGranted
<1>2. QED BY <1>1, Invariant, PTL

\* Nothing a grantee asks for is lost on the way through features, levels, policies and
\* the splitting of `*` (EveryJobServed).
THEOREM JobsServed == Spec => []EveryJobServed
<1>1. ResourceInv => EveryJobServed
  <2> SUFFICES ASSUME ResourceInv, ~Raises(config), ~Starred(config.project),
                      ProjectMatch(config.grant, config.project),
                      NEW x \in ProjectContexts(config.project),
                      NEW j \in config.grant.job, NamesContext(config, j, x),
                      LevelMatch(config.grant, ContextLevel(config.project, x)),
                      FeatureOn(config.project, x.kind),
                      x.kind \in PRKinds => config.grant.include,
                      ~( /\ x.kind = "branch" /\ ~IsGit(config.project)
                         /\ config.grant.level # {} /\ EveryJob \notin config.grant.job),
                      ~( /\ x.kind = "pr-action"
                         /\ ~LevelMatch(config.grant, DefaultBranchLevel(config.project)))
               PROVE  \E e \in HeldBy(config.project, x,
                                      ProjectGrants(config.grant, config.project)) :
                        e.level = ContextLevel(config.project, x)
    BY Zenon DEF EveryJobServed, NamesContext
  <2>1. config \in Config BY DEF ResourceInv, ServiceInv
  <2>2. ~GrantRaises(config.grant, config.project) BY DEF Raises
  <2>3. CASE x.kind = "branch" BY <2>1, <2>2, <2>3, BranchServed
  <2>4. CASE x.kind # "branch" BY <2>1, <2>2, <2>4, OtherServed
  <2>5. QED BY <2>3, <2>4
<1>2. QED BY <1>1, Invariant, PTL
=============================================================================
