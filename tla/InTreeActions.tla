---------------------------- MODULE InTreeActions ----------------------------
(***************************************************************************)
(* The life of the in-tree action hooks: how one `tc-admin apply` generates *)
(* them from the .taskcluster.yml of every branch, decides which outdated   *)
(* hooks to keep, and brings the hooks service in line, while developers    *)
(* push new .taskcluster.yml contents, users fire hooks and days pass.      *)
(* Source: src/src/ciadmin/generate/in_tree_actions.py; the hooks service   *)
(* and tc-admin's own diff-and-apply loop are external.                     *)
(*                                                                          *)
(* A .taskcluster.yml content and its 10-digit hash are the same value, and *)
(* the age of a hook's last fire is a count of days that saturates once it  *)
(* exceeds the retention time, so days need no bound.                       *)
(***************************************************************************)
EXTENDS Integers

CONSTANTS
  Head,          \* the (project, branch) pairs whose .taskcluster.yml is hashed
  TrustDomain,
  HeadDomain,    \* Head -> TrustDomain: the project's trust_domain
  HeadLevel,     \* Head -> Nat \cup {NoLevel}: project.get_level(branch)
  Content,       \* the parsable .taskcluster.yml contents
  Blank,         \* those of Content whose "tasks" list is empty
  NoFile,        \* the server answers 404 for the file
  Unusable,      \* a file that is empty, not YAML, or whose "tasks" is no list
  Pending,       \* no answer to the request yet
  Action,        \* the actions of actions.yml: [domain, level, perm] records
  PRDomain,      \* trust domains with a project that has the pr-actions feature
  Retention,     \* HOOK_RETENTION_TIME in days
  MaxPushes,     \* bound: how often developers push
  MaxFaults      \* bound: how often a run fails for a reason outside the code

NoLevel == -1    \* get_level() returned None
Never   == -1    \* the hook has no lastFire

Tcyml == Content \cup {NoFile, Unusable}
Hook  == [action : Action, hash : Content, pr : BOOLEAN]

ASSUME DataAssumption ==
  /\ HeadDomain \in [Head -> TrustDomain]
  /\ HeadLevel \in [Head -> Nat \cup {NoLevel}]
  /\ Blank \subseteq Content
  /\ NoFile \notin Content /\ Unusable \notin Content /\ Pending \notin Tcyml
  /\ NoFile # Unusable
  /\ Action # {}
  /\ \A a \in Action : a.domain \in TrustDomain /\ a.level \in Nat
  /\ PRDomain \subseteq TrustDomain
  /\ Retention \in Nat
  /\ MaxPushes \in Nat /\ MaxFaults \in Nat

VARIABLES
  tcyml,      \* what each branch holds now
  hooks,      \* the in-tree(-pr)-action hooks of the service
  age,        \* days since each hook was last fired, or Never
  phase,      \* where the deploy run is
  fetched,    \* the answers the run has so far
  resources,  \* the hooks the run has generated or decided to keep
  unlisted,   \* trust domains whose existing hooks are still to be listed
  unchecked,  \* listed hooks whose status is still to be read
  carried,    \* history: contents each branch has ever held
  pushed,     \* history: branches pushed to since the run started
  fired,      \* history: hooks fired since the run started
  pushes, faults

serviceVars == <<hooks, age>>
runVars     == <<phase, fetched, resources, unlisted, unchecked>>
historyVars == <<carried, pushed, fired>>
vars == <<tcyml, hooks, age, phase, fetched, resources, unlisted, unchecked,
          carried, pushed, fired, pushes, faults>>

Phase == {"idle", "fetch", "list", "status", "apply"}

-----------------------------------------------------------------------------
(* What a set of answers asks for.                                         *)

\* Hooks of the pr- kind are made for level 1 actions of a domain that has a
\* project with the pr-actions feature.
MakesPRHooks(a) == a.level = 1 /\ a.domain \in PRDomain

\* Branch h entitles action a to a hook: same trust domain, level high enough.
Entitles(h, a) == HeadDomain[h] = a.domain /\ HeadLevel[h] >= a.level

\* Mutant: the level test is dropped.
GeneratedAnyLevel(f) ==
  {k \in Hook : /\ \E h \in Head : f[h] = k.hash /\ HeadDomain[h] = k.action.domain
                /\ k.pr => MakesPRHooks(k.action)}

\* Mutant: a file that cannot be parsed is not passed over.
GeneratedUnparsed(f) ==
  {k \in [action : Action, hash : Content \cup {Unusable}, pr : BOOLEAN] :
     /\ \E h \in Head : f[h] = k.hash /\ Entitles(h, k.action)
     /\ k.pr => MakesPRHooks(k.action)}

\* The hooks made from answers f: every action at every content some branch
\* of at least its level and of its own trust domain holds.
Generated(f) ==
  {k \in Hook : /\ \E h \in Head : f[h] = k.hash /\ Entitles(h, k.action)
                /\ k.pr => MakesPRHooks(k.action)}

\* Generation raises: comparing a level of None, or taking tasks[0] of a blank
\* content.
GenerationRaises(f) ==
  \/ \E h \in Head : f[h] \in Content /\ HeadLevel[h] = NoLevel
  \/ \E k \in Generated(f) : k.hash \in Blank

\* The retention test of one existing hook, on the status just read.
TooOld(a) == a = Never \/ a > Retention

\* Hooks whose id matches the retention pattern in-tree-action-*.
Interesting(k) == ~k.pr

Roll(a) == IF a = Never \/ a > Retention THEN a ELSE a + 1

-----------------------------------------------------------------------------
Init ==
  /\ tcyml \in [Head -> Tcyml]
  /\ hooks = {}
  /\ age = [k \in Hook |-> Never]
  /\ phase = "idle"
  /\ fetched = [h \in Head |-> Pending]
  /\ resources = {} /\ unlisted = {} /\ unchecked = {}
  /\ carried = [h \in Head |-> {tcyml[h]} \cap Content]
  /\ pushed = {} /\ fired = {}
  /\ pushes = 0 /\ faults = 0

(* The environment.                                                        *)

\* A developer pushes another .taskcluster.yml (or removes it).
Push(h, c) ==
  /\ pushes < MaxPushes
  /\ c # tcyml[h]
  /\ tcyml' = [tcyml EXCEPT ![h] = c]
  /\ carried' = [carried EXCEPT ![h] = @ \cup ({c} \cap Content)]
  /\ pushed' = pushed \cup {h}
  /\ pushes' = pushes + 1
  /\ UNCHANGED <<serviceVars, runVars, fired, faults>>

\* Someone triggers an action of a task graph built with this content.
Fire(k) ==
  /\ k \in hooks
  /\ age' = [age EXCEPT ![k] = 0]
  /\ fired' = fired \cup {k}
  /\ UNCHANGED <<tcyml, hooks, runVars, carried, pushed, pushes, faults>>

NextDay ==
  /\ \E k \in Hook : age[k] # Roll(age[k])
  /\ age' = [k \in Hook |-> Roll(age[k])]
  /\ UNCHANGED <<tcyml, hooks, runVars, historyVars, pushes, faults>>

(* One deploy run at a time: deploy.yml serialises them.                   *)

StopRun ==
  /\ phase' = "idle"
  /\ fetched' = [h \in Head |-> Pending]
  /\ resources' = {} /\ unlisted' = {} /\ unchecked' = {}
  /\ pushed' = {} /\ fired' = {}

\* hash_taskcluster_ymls: all requests are in flight at once.
StartRun ==
  /\ phase = "idle"
  /\ phase' = "fetch"
  /\ pushed' = {} /\ fired' = {}
  /\ UNCHANGED <<tcyml, serviceVars, fetched, resources, unlisted, unchecked,
                 carried, pushes, faults>>

\* The answer for branch h arrives, with what the branch holds at that moment.
Answer(h) ==
  /\ phase = "fetch"
  /\ fetched[h] = Pending
  /\ tcyml[h] # NoFile
  /\ fetched' = [fetched EXCEPT ![h] = tcyml[h]]
  /\ UNCHANGED <<tcyml, serviceVars, phase, resources, unlisted, unchecked,
                 historyVars, pushes, faults>>

\* The answer is a 404. The callback returns early, but the same exception is
\* raised out of gather() and ends the run.
AnswerNotFound(h) ==
  /\ phase = "fetch"
  /\ fetched[h] = Pending
  /\ tcyml[h] = NoFile
  /\ StopRun
  /\ UNCHANGED <<tcyml, serviceVars, carried, pushes, faults>>

\* Mutant: gather() is not awaited.
GenerateEarly ==
  /\ phase = "fetch"
  /\ phase' = "list"
  /\ resources' = Generated(fetched)
  /\ unlisted' = {a.domain : a \in Action}
  /\ UNCHANGED <<tcyml, serviceVars, fetched, unchecked, historyVars, pushes, faults>>

\* All answers are in: generate hooks and roles without another await, then
\* turn to the existing hooks.
Generate ==
  /\ phase = "fetch"
  /\ \A h \in Head : fetched[h] # Pending
  /\ ~GenerationRaises(fetched)
  /\ phase' = "list"
  /\ resources' = Generated(fetched)
  /\ unlisted' = {a.domain : a \in Action}
  /\ UNCHANGED <<tcyml, serviceVars, fetched, unchecked, historyVars, pushes, faults>>

\* Mutant: the exception is swallowed and the run hangs.
GenerateHangs ==
  /\ phase = "fetch"
  /\ GenerationRaises(fetched)
  /\ UNCHANGED vars

GenerateRaises ==
  /\ phase = "fetch"
  /\ \A h \in Head : fetched[h] # Pending
  /\ GenerationRaises(fetched)
  /\ StopRun
  /\ UNCHANGED <<tcyml, serviceVars, carried, pushes, faults>>

\* listHooks of one trust domain's hook group. Hooks of another shape and hooks
\* already generated are passed over at once.
ListHooks(d) ==
  /\ phase = "list"
  /\ d \in unlisted
  /\ phase' = "status"
  /\ unlisted' = unlisted \ {d}
  /\ unchecked' = {k \in hooks : k.action.domain = d /\ Interesting(k)} \ resources
  /\ UNCHANGED <<tcyml, serviceVars, fetched, resources, historyVars, pushes, faults>>

\* Mutant: a hook fired exactly the retention time ago is dropped.
CheckStatusOffByOne(k) ==
  /\ phase = "status"
  /\ k \in unchecked
  /\ unchecked' = unchecked \ {k}
  /\ resources' = IF TooOld(age[k]) \/ age[k] = Retention
                    THEN resources ELSE resources \cup {k}
  /\ UNCHANGED <<tcyml, serviceVars, phase, fetched, unlisted, historyVars, pushes, faults>>

\* Mutant: a hook that was ever fired is kept, however long ago.
CheckStatusEverFired(k) ==
  /\ phase = "status"
  /\ k \in unchecked
  /\ unchecked' = unchecked \ {k}
  /\ resources' = IF age[k] = Never THEN resources ELSE resources \cup {k}
  /\ UNCHANGED <<tcyml, serviceVars, phase, fetched, unlisted, historyVars, pushes, faults>>

\* getHookStatus of one listed hook, and the decision to keep it.
CheckStatus(k) ==
  /\ phase = "status"
  /\ k \in unchecked
  /\ unchecked' = unchecked \ {k}
  /\ resources' = IF TooOld(age[k]) THEN resources ELSE resources \cup {k}
  /\ UNCHANGED <<tcyml, serviceVars, phase, fetched, unlisted, historyVars, pushes, faults>>

NextDomain ==
  /\ phase = "status"
  /\ unchecked = {}
  /\ phase' = IF unlisted = {} THEN "apply" ELSE "list"
  /\ UNCHANGED <<tcyml, serviceVars, fetched, resources, unlisted, unchecked,
                 historyVars, pushes, faults>>

\* tc-admin brings the managed hooks in line, one API call at a time. Removing
\* a hook removes its status with it.
CreateHook(k) ==
  /\ phase = "apply"
  /\ k \in resources \ hooks
  /\ hooks' = hooks \cup {k}
  /\ UNCHANGED <<tcyml, age, runVars, historyVars, pushes, faults>>

RemoveHook(k) ==
  /\ phase = "apply"
  /\ k \in hooks \ resources
  /\ hooks' = hooks \ {k}
  /\ age' = [age EXCEPT ![k] = Never]
  /\ UNCHANGED <<tcyml, runVars, historyVars, pushes, faults>>

FinishRun ==
  /\ phase = "apply"
  /\ hooks = resources
  /\ StopRun
  /\ UNCHANGED <<tcyml, serviceVars, carried, pushes, faults>>

\* A request or an API call fails for good, or the runner dies.
Crash ==
  /\ phase # "idle"
  /\ faults < MaxFaults
  /\ faults' = faults + 1
  /\ StopRun
  /\ UNCHANGED <<tcyml, serviceVars, carried, pushes>>

RunStep ==
  \/ StartRun \/ Generate \/ GenerateRaises \/ NextDomain \/ FinishRun
  \/ \E h \in Head : Answer(h) \/ AnswerNotFound(h)
  \/ \E d \in TrustDomain : ListHooks(d)
  \/ \E k \in Hook : CheckStatus(k) \/ CreateHook(k) \/ RemoveHook(k)

Next ==
  \/ \E h \in Head, c \in Tcyml : Push(h, c)
  \/ \E k \in Hook : Fire(k)
  \/ NextDay
  \/ RunStep
  \/ Crash

Spec == Init /\ [][Next]_vars

\* Runs keep being started (deploy.yml runs on every push and is called by
\* tc-yml-watch.yml) and a run that can take a step takes one; days pass.
FairSpec == Spec /\ WF_vars(RunStep) /\ WF_vars(NextDay)

-----------------------------------------------------------------------------
TypeOK ==
  /\ tcyml \in [Head -> Tcyml]
  /\ hooks \subseteq Hook
  /\ age \in [Hook -> {Never} \cup 0 .. Retention + 1]
  /\ phase \in Phase
  /\ fetched \in [Head -> Tcyml \cup {Pending}]
  /\ resources \subseteq Hook
  /\ unlisted \subseteq TrustDomain
  /\ unchecked \subseteq Hook
  /\ carried \in [Head -> SUBSET Content]
  /\ pushed \subseteq Head
  /\ fired \subseteq Hook
  /\ pushes \in 0 .. MaxPushes
  /\ faults \in 0 .. MaxFaults

\* A hook that runs with the scopes of a level and a trust domain only ever
\* runs a .taskcluster.yml that some branch of at least that level, in that
\* domain, has held: pushing to a lower level branch, or to another domain,
\* whatever runs are under way or have failed half way, makes no such hook
\* (the level and domain tests of update_resources).
HookProvenance ==
  \A k \in hooks : \E h \in Head : Entitles(h, k.action) /\ k.hash \in carried[h]

\* When a deploy removes a hook, the hook was not fired within the retention
\* time, unless it was fired while that very deploy was running (after its
\* status had been read). Said of the in-tree-action-* hooks.
Unused(k) == TooOld(age[k]) \/ k \in fired
RecentHooksKept ==
  [][\A k \in hooks \ hooks' : k.pr \/ Unused(k)]_vars

\* The same of every in-tree hook, the pr- kind included.
AllRecentHooksKept ==
  [][\A k \in hooks \ hooks' : Unused(k)]_vars

\* A deploy never removes the hook for the file a branch holds, unless someone
\* pushed to that branch while the deploy was running.
NoOutage ==
  [][\A k \in hooks \ hooks', h \in Head :
        tcyml[h] = k.hash /\ Entitles(h, k.action) => h \in pushed]_vars

\* Once developers stop changing files, every hook they ask for is eventually
\* there for good, provided no file is missing or makes generation raise.
HooksDeployed(f) == Generated(f) \subseteq hooks
NothingRaises == ~GenerationRaises(tcyml)
NothingMissing == \A h \in Head : tcyml[h] # NoFile
CurrentHooksDeployed ==
  <>[](NothingRaises /\ NothingMissing) => <>[]HooksDeployed(tcyml)

\* An outdated hook that stays in the service for ever is one that is fired
\* again and again.
OutdatedHooksRetire ==
  \A k \in Hook :
    /\ <>[](NothingRaises /\ NothingMissing /\ k \notin Generated(tcyml))
    /\ []<>(k \in hooks)
    => []<>(age[k] = 0)
=============================================================================
