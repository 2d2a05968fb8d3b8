---------------------------- MODULE DeployPipeline ----------------------------
(***************************************************************************)
(* How a change reaches the service: commits to this repository's main      *)
(* branch and changes of the .taskcluster.yml files it watches.             *)
(*   src/.github/workflows/deploy.yml        check, then one apply at a time *)
(*   src/.github/workflows/tc-yml-watch.yml  the poller that starts deploys  *)
(* Commits and file versions are counted 1, 2, ...; 0 is "none".  GitHub's  *)
(* part (events, concurrency groups, the Actions cache) is external, taken  *)
(* from how the workflows use it: a run works on the commit main had when   *)
(* the run was triggered, and a concurrency group holds one running and one *)
(* pending member, a newer pending one replacing an older.                  *)
(***************************************************************************)
EXTENDS Integers

CONSTANTS
  NumTargets,    \* length of the WATCHED list
  MaxCommits,    \* bound: commits to main
  Changing,      \* bound: the targets whose files change
  MaxVersions,   \* bound: versions of a watched file
  MaxFlakes,     \* bound: watched targets that cannot be resolved
  MaxFaults      \* bound: losses of the cache entry, failed deletions of it and
                 \* failing jobs

ASSUME BoundsAssumption ==
  /\ NumTargets \in Nat \ {0} /\ MaxCommits \in Nat \ {0}
  /\ Changing \subseteq 1 .. NumTargets /\ MaxVersions \in Nat \ {0}
  /\ MaxFlakes \in Nat /\ MaxFaults \in Nat

Target  == 1 .. NumTargets
Commit  == 1 .. MaxCommits
Version == 0 .. MaxVersions

VARIABLES
  main,       \* the head commit of main
  files,      \* the version of every watched .taskcluster.yml
  cache,      \* the tc-yml-watch-state entry: target -> version
  cached,     \* whether that entry exists
  watch,      \* the poller's run
  tick,       \* commit of a poller run that waits for its turn, or 0
  checking,   \* deploy runs in their check job
  pending,    \* the deploy run waiting in the deploy-apply group
  applying,   \* the deploy run in its apply job
  read,       \* what the running apply has read of the watched files
  applied,    \* commit and files the service reflects
  polled,     \* history: the files when the last poll that led to a deploy saw them
  redundant,  \* history: deploys the poller started although they had not changed
  misses,     \* history: unresolved targets whose SHA was not the one carried forward
  flakes, evictions, failures,
  lost        \* history: a job failed since files were last read by an apply

cacheVars  == <<cache, cached>>
deployVars == <<checking, pending, applying, read, applied, polled,
                redundant, lost>>
boundVars  == <<misses, flakes, evictions, failures>>
vars == <<main, files, cache, cached, watch, tick, checking, pending, applying,
          read, applied, polled, redundant, misses, flakes, evictions, failures, lost>>

Nothing == [t \in Target |-> 0]
NoRun   == [by |-> "none", commit |-> 0, spurious |-> FALSE]

\* A deploy run: who triggered it, its commit, and (history) whether the poller
\* started it although no watched file had changed.
DeployRun ==
  {r \in [by : {"push", "watch"}, commit : Commit, spurious : BOOLEAN] :
     r.spurious => r.by = "watch"}

\* The poller's run: next is the target to resolve next, cur the state.tsv it
\* is writing, prev the one it restored (if restored), and (history) truth the
\* files as they were when it asked.
WatchPhase == {"idle", "collect", "delete", "save", "saved", "deploy"}
IdleWatch ==
  [phase |-> "idle", commit |-> 0, next |-> 1, cur |-> Nothing,
   prev |-> Nothing, restored |-> FALSE, truth |-> Nothing]

FaultLeft == evictions + failures < MaxFaults
-----------------------------------------------------------------------------
Init ==
  /\ main = 1
  /\ files = [t \in Target |-> 1]
  /\ cache = Nothing /\ cached = FALSE
  /\ watch = IdleWatch /\ tick = 0
  /\ checking = {} /\ pending = NoRun /\ applying = NoRun
  /\ read = Nothing
  /\ applied = [commit |-> 1, files |-> [t \in Target |-> 1]]
  /\ polled = Nothing /\ redundant = 0
  /\ misses = 0 /\ flakes = 0 /\ evictions = 0 /\ failures = 0
  /\ lost = FALSE

(* Changes from outside.                                                   *)

ChangeFile(t) ==
  /\ t \in Changing /\ files[t] < MaxVersions
  /\ files' = [files EXCEPT ![t] = @ + 1]
  /\ UNCHANGED <<main, cacheVars, watch, tick, deployVars, boundVars>>

\* A push to main triggers a deploy run of that commit.
PushMain ==
  /\ main < MaxCommits
  /\ main' = main + 1
  /\ checking' = checking \cup {[by |-> "push", commit |-> main + 1, spurious |-> FALSE]}
  /\ UNCHANGED <<files, cacheVars, watch, tick, pending, applying, read, applied,
                 polled, redundant, lost, boundVars>>

\* Someone starts a deploy run of main by hand (workflow_dispatch).
Dispatch ==
  /\ checking' = checking \cup {[by |-> "push", commit |-> main, spurious |-> FALSE]}
  /\ UNCHANGED <<main, files, cacheVars, watch, tick, pending, applying, read,
                 applied, polled, redundant, lost, boundVars>>

\* The Actions cache drops the entry.
Evict ==
  /\ cached
  /\ FaultLeft
  /\ cached' = FALSE /\ cache' = Nothing
  /\ evictions' = evictions + 1
  /\ UNCHANGED <<main, files, watch, tick, deployVars, misses, flakes, failures>>

(* tc-yml-watch.yml.                                                       *)

\* Restore previous state: the entry, if there is one, becomes prev.
Restore(c) ==
  watch' = [IdleWatch EXCEPT !.phase = "collect", !.commit = c,
                             !.prev = cache, !.restored = cached]

\* The schedule fires. The group tc-yml-watch lets one run proceed and keeps
\* the newest of the others waiting.
Tick ==
  \/ /\ watch.phase = "idle" /\ tick = 0
     /\ Restore(main)
     /\ UNCHANGED <<main, files, cacheVars, tick, deployVars, boundVars>>
  \/ /\ watch.phase # "idle"
     /\ tick' = main
     /\ UNCHANGED <<main, files, cacheVars, watch, deployVars, boundVars>>

NextTick ==
  /\ watch.phase = "idle" /\ tick # 0
  /\ Restore(tick)
  /\ tick' = 0
  /\ UNCHANGED <<main, files, cacheVars, deployVars, boundVars>>

\* Mutant: the loop runs once too often.
ResolvePastEnd ==
  /\ watch.phase = "collect" /\ watch.next <= NumTargets + 1
  /\ watch' = [watch EXCEPT !.cur[watch.next] = files[NumTargets], !.next = @ + 1]
  /\ UNCHANGED <<main, files, cacheVars, tick, deployVars, boundVars>>

\* The loop over WATCHED: the target's commit, if it can be resolved.
Resolve ==
  /\ watch.phase = "collect" /\ watch.next \in Target
  /\ watch' = [watch EXCEPT !.cur[watch.next] = files[watch.next],
                            !.truth[watch.next] = files[watch.next],
                            !.next = @ + 1]
  /\ UNCHANGED <<main, files, cacheVars, tick, deployVars, boundVars>>

\* Mutant: the target is left out, whether there is a previous one or not.
CarryNothingForward ==
  /\ watch.phase = "collect" /\ watch.next \in Target
  /\ flakes < MaxFlakes
  /\ flakes' = flakes + 1
  /\ misses' = IF watch.prev[watch.next] = files[watch.next] THEN misses ELSE misses + 1
  /\ watch' = [watch EXCEPT !.truth[watch.next] = files[watch.next], !.next = @ + 1]
  /\ UNCHANGED <<main, files, cacheVars, tick, deployVars, evictions, failures>>

\* It cannot: the previous one is carried forward; without a previous one (0)
\* the target is left out.
CarryForward ==
  /\ watch.phase = "collect" /\ watch.next \in Target
  /\ flakes < MaxFlakes
  /\ flakes' = flakes + 1
  /\ misses' = IF watch.prev[watch.next] = files[watch.next] THEN misses ELSE misses + 1
  /\ watch' = [watch EXCEPT !.cur[watch.next] = watch.prev[watch.next],
                            !.truth[watch.next] = files[watch.next],
                            !.next = @ + 1]
  /\ UNCHANGED <<main, files, cacheVars, tick, deployVars, evictions, failures>>

\* Mutant: the comparison with the previous state is dropped.
ChangedOnFirstRun == ~watch.restored

Changed == ~watch.restored \/ watch.cur # watch.prev

\* Nothing resolved at all fails the tick; no change ends it; a change goes on
\* to replace the entry.
Compare ==
  /\ watch.phase = "collect" /\ watch.next = NumTargets + 1
  /\ watch' = IF watch.cur # Nothing /\ Changed
                THEN [watch EXCEPT !.phase = "delete"]
                ELSE IdleWatch
  /\ UNCHANGED <<main, files, cacheVars, tick, deployVars, boundVars>>

\* `gh cache delete ... || true`: a failure goes unnoticed.
DeleteCache ==
  /\ watch.phase = "delete"
  /\ watch' = [watch EXCEPT !.phase = "save"]
  /\ \/ /\ cached' = FALSE /\ cache' = Nothing
        /\ UNCHANGED evictions
     \/ /\ cached /\ FaultLeft
        /\ evictions' = evictions + 1
        /\ UNCHANGED cacheVars
  /\ UNCHANGED <<main, files, tick, deployVars, misses, flakes, failures>>

\* Entries are immutable: saving under an existing key keeps the old entry.
SaveCache ==
  /\ watch.phase = "save"
  /\ watch' = [watch EXCEPT !.phase = "saved"]
  /\ cached' = TRUE
  /\ cache' = IF cached THEN cache ELSE watch.cur
  /\ UNCHANGED <<main, files, tick, deployVars, boundVars>>

\* The deploy job calls deploy.yml, on the commit the poller's run has.
StartDeploy ==
  /\ watch.phase = "saved"
  /\ watch' = [watch EXCEPT !.phase = "deploy"]
  /\ checking' = checking \cup
       {[by |-> "watch", commit |-> watch.commit, spurious |-> watch.truth = polled]}
  /\ polled' = watch.truth
  /\ redundant' = IF watch.truth = polled THEN redundant + 1 ELSE redundant
  /\ UNCHANGED <<main, files, cacheVars, tick, pending, applying, read, applied,
                 lost, boundVars>>

\* The check-change job dies.
WatchDies ==
  /\ watch.phase \in {"collect", "delete", "save", "saved"}
  /\ FaultLeft
  /\ failures' = failures + 1
  /\ lost' = TRUE
  /\ watch' = IdleWatch
  /\ UNCHANGED <<main, files, cacheVars, tick, checking, pending, applying, read,
                 applied, polled, redundant, misses, flakes, evictions>>

(* deploy.yml.                                                             *)

\* The poller's run lasts until its deploy is over, one way or another.
WatchAfter(gone) == IF gone.by = "watch" THEN IdleWatch ELSE watch

\* Mutant: a run that finds the group busy is skipped instead of queued.
CheckPassesSkips(r) ==
  /\ r \in checking
  /\ checking' = checking \ {r}
  /\ \/ /\ applying = NoRun
        /\ applying' = r
        /\ UNCHANGED watch
     \/ /\ applying # NoRun
        /\ watch' = WatchAfter(r)
        /\ UNCHANGED applying
  /\ UNCHANGED <<main, files, cacheVars, tick, pending, read, applied, polled,
                 redundant, lost, boundVars>>

\* The check job succeeds and the apply job asks for the deploy-apply group:
\* it runs if the group is free, and is the pending one otherwise, which
\* cancels whichever was pending before.
CheckPasses(r) ==
  /\ r \in checking
  /\ checking' = checking \ {r}
  /\ \/ /\ applying = NoRun
        /\ applying' = r
        /\ UNCHANGED <<pending, watch>>
     \/ /\ applying # NoRun
        /\ pending' = r
        /\ watch' = WatchAfter(pending)
        /\ UNCHANGED applying
  /\ UNCHANGED <<main, files, cacheVars, tick, read, applied, polled, redundant,
                 lost, boundVars>>

CheckFails(r) ==
  /\ r \in checking
  /\ FaultLeft
  /\ failures' = failures + 1
  /\ lost' = TRUE
  /\ checking' = checking \ {r}
  /\ watch' = WatchAfter(r)
  /\ UNCHANGED <<main, files, cacheVars, tick, pending, applying, read, applied,
                 polled, redundant, misses, flakes, evictions>>

\* tc-admin apply reads the watched files ...
ApplyReads ==
  /\ applying # NoRun
  /\ read = Nothing
  /\ read' = files
  /\ lost' = FALSE
  /\ UNCHANGED <<main, files, cacheVars, watch, tick, checking, pending, applying,
                 applied, polled, redundant, boundVars>>

\* The apply job is over: the pending one takes its place.
EndApply ==
  /\ applying' = pending
  /\ pending' = NoRun
  /\ read' = Nothing
  /\ watch' = WatchAfter(applying)
  /\ UNCHANGED <<main, files, cacheVars, tick, checking, polled, redundant,
                 misses, flakes, evictions>>

\* ... and brings the service in line with them and with its own commit.
ApplySucceeds ==
  /\ applying # NoRun /\ read # Nothing
  /\ applied' = [commit |-> applying.commit, files |-> read]
  /\ EndApply
  /\ UNCHANGED <<lost, failures>>

ApplyFails ==
  /\ applying # NoRun
  /\ FaultLeft
  /\ failures' = failures + 1
  /\ lost' = TRUE
  /\ EndApply
  /\ UNCHANGED applied

WatchStep ==
  NextTick \/ Resolve \/ CarryForward \/ Compare \/ DeleteCache \/ SaveCache \/ StartDeploy
DeployStep ==
  ApplyReads \/ ApplySucceeds \/ \E r \in checking : CheckPasses(r)

Next ==
  \/ \E t \in Target : ChangeFile(t)
  \/ PushMain \/ Dispatch \/ Evict
  \/ Tick \/ WatchStep \/ WatchDies
  \/ DeployStep \/ ApplyFails \/ \E r \in checking : CheckFails(r)

Spec == Init /\ [][Next]_vars

\* The schedule keeps firing, and jobs that can go on do. The check of every
\* single run ends (GitHub limits its time).
FairSpec ==
  /\ Spec
  /\ WF_vars(Tick /\ watch.phase = "idle") /\ WF_vars(WatchStep)
  /\ WF_vars(ApplyReads) /\ WF_vars(ApplySucceeds)
  /\ \A r \in DeployRun : WF_vars(CheckPasses(r))
-----------------------------------------------------------------------------
Files == [Target -> Version]

WatchRun ==
  {w \in [phase : WatchPhase, commit : Commit \cup {0}, next : 1 .. NumTargets + 1,
          cur : Files, prev : Files, restored : BOOLEAN, truth : Files] :
     w.phase # "idle" => w.commit # 0}

TypeOK ==
  /\ main \in Commit
  /\ files \in Files
  /\ cache \in Files /\ cached \in BOOLEAN
  /\ watch \in WatchRun
  /\ tick \in Commit \cup {0}
  /\ checking \subseteq DeployRun
  /\ pending \in DeployRun \cup {NoRun}
  /\ applying \in DeployRun \cup {NoRun}
  /\ read \in Files
  /\ applied \in [commit : Commit, files : Files]
  /\ polled \in Files
  /\ redundant \in Nat
  /\ misses \in 0 .. flakes
  /\ flakes \in 0 .. MaxFlakes
  /\ evictions \in 0 .. MaxFaults
  /\ failures \in 0 .. MaxFaults
  /\ lost \in BOOLEAN

\* The poller advances its state before the deploy has run, let alone
\* succeeded.  Still, unless a job has failed since, a version its state entry
\* records is in the service or on its way there: cancelled pending runs, lost
\* entries, unresolved targets and waiting polls lose no change.
OnItsWay(t) ==
  \/ watch.phase = "saved"
  \/ checking # {}
  \/ pending # NoRun
  \/ applying # NoRun /\ (read = Nothing \/ read[t] >= cache[t])
NoChangeForgotten ==
  lost \/ \A t \in Target : cache[t] > applied.files[t] => OnItsWay(t)

\* The poller costs few deploys: one that it starts although no watched file has
\* changed since the last goes back to an entry that was lost or could not be
\* deleted, or to a target it could not resolve, and none of these costs more than
\* one. A target that was as its previous SHA has it costs none; one that has no
\* previous SHA, or one that is out of date, may: the next poll sees it change.
RedundantDeploysBounded == redundant <= misses + evictions

\* A deploy the poller starts without need does not take the service back to an
\* older commit of the configuration.
RedundantDeployIsSafe ==
  [][applying.spurious => applied'.commit >= applied.commit]_vars

\* Unless a job fails, every new version of a watched file, or a later one,
\* reaches the service.
ChangesDeployed ==
  \A t \in Target : \A v \in 2 .. MaxVersions :
    files[t] = v ~> (applied.files[t] >= v \/ failures > 0)
=============================================================================
