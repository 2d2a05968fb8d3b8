------------------------ MODULE DeployPipeline_proofs ------------------------
(***************************************************************************)
(* Proof that the poller forgets no change, for any number of watched       *)
(* targets and any bounds.                                                  *)
(***************************************************************************)
EXTENDS DeployPipeline, TLAPS

-----------------------------------------------------------------------------
(* Type correctness.                                                       *)

LEMMA NothingType == Nothing \in Files
BY BoundsAssumption DEF Nothing, Files, Version

LEMMA RunTypes ==
  /\ IdleWatch \in WatchRun
  /\ NoRun \notin DeployRun
  /\ \A c \in Commit, b \in BOOLEAN :
       /\ [by |-> "push", commit |-> c, spurious |-> FALSE] \in DeployRun
       /\ [by |-> "watch", commit |-> c, spurious |-> b] \in DeployRun
  /\ \A r \in DeployRun : r.commit \in Commit
BY BoundsAssumption, NothingType
   DEF IdleWatch, WatchRun, WatchPhase, NoRun, DeployRun

LEMMA RestoreType ==
  ASSUME cache \in Files, cached \in BOOLEAN, NEW c \in Commit, Restore(c)
  PROVE  watch' \in WatchRun
<1>1. watch' = [phase |-> "collect", commit |-> c, next |-> 1, cur |-> Nothing,
                prev |-> cache, restored |-> cached, truth |-> Nothing]
  BY DEF Restore, IdleWatch
<1>2. QED
  BY <1>1, BoundsAssumption, NothingType DEF WatchRun, WatchPhase, Commit

LEMMA PhaseType ==
  ASSUME NEW w \in WatchRun, NEW p \in WatchPhase \ {"idle"}, w.phase # "idle"
  PROVE  [w EXCEPT !.phase = p] \in WatchRun
BY DEF WatchRun, WatchPhase

LEMMA FilesExcept ==
  ASSUME NEW f \in Files, NEW t \in Target, NEW v \in Version
  PROVE  [f EXCEPT ![t] = v] \in Files /\ f[t] \in Version
BY DEF Files

LEMMA NextTargetType ==
  ASSUME NEW w \in WatchRun, NEW v \in Version, NEW u \in Version,
         w.phase = "collect", w.next \in Target
  PROVE  [w EXCEPT !.cur[w.next] = v, !.truth[w.next] = u, !.next = @ + 1] \in WatchRun
<1>1. [w.cur EXCEPT ![w.next] = v] \in Files /\ [w.truth EXCEPT ![w.next] = u] \in Files
  BY FilesExcept DEF WatchRun
<1>2. w.next + 1 \in 1 .. NumTargets + 1
  BY BoundsAssumption DEF Target
<1>3. [w EXCEPT !.cur[w.next] = v, !.truth[w.next] = u, !.next = @ + 1]
        = [w EXCEPT !.cur = [w.cur EXCEPT ![w.next] = v],
                    !.truth = [w.truth EXCEPT ![w.next] = u], !.next = w.next + 1]
  BY DEF WatchRun
<1>4. QED BY <1>1, <1>2, <1>3 DEF WatchRun

\* Every variable keeps its type.
THEOREM TypeCorrect == Spec => []TypeOK
<1>1. Init => TypeOK
  <2>1. [t \in Target |-> 1] \in Files /\ 1 \in Commit
    BY BoundsAssumption DEF Files, Version, Commit
  <2>2. ASSUME Init PROVE cached \in BOOLEAN /\ lost \in BOOLEAN
    BY <2>2 DEF Init
  <2>3. ASSUME Init PROVE applied \in [commit : Commit, files : Files]
    BY <2>1, <2>3 DEF Init
  <2>4. ASSUME Init
        PROVE  misses \in 0 .. flakes /\ flakes \in 0 .. MaxFlakes /\ evictions \in 0 .. MaxFaults
               /\ failures \in 0 .. MaxFaults
    BY <2>4, BoundsAssumption DEF Init
  <2>5. ASSUME Init PROVE watch \in WatchRun /\ tick \in Commit \cup {0}
    BY <2>5, RunTypes DEF Init
  <2>6. ASSUME Init PROVE cache \in Files /\ polled \in Files /\ read \in Files
    BY <2>6, NothingType DEF Init
  <2>7. ASSUME Init PROVE redundant \in Nat
    BY <2>7 DEF Init
  <2>8. QED BY <2>1, <2>2, <2>3, <2>4, <2>5, <2>6, <2>7 DEF Init, TypeOK
<1>2. TypeOK /\ [Next]_vars => TypeOK'
  <2> SUFFICES ASSUME TypeOK, [Next]_vars PROVE TypeOK'
    OBVIOUS
  <2> USE BoundsAssumption, NothingType
  <2> USE DEF TypeOK, cacheVars, deployVars, boundVars, FaultLeft
  <2>w. ASSUME NEW r PROVE WatchAfter(r) \in WatchRun
    BY RunTypes DEF WatchAfter
  <2>1. ASSUME NEW t \in Target, ChangeFile(t) PROVE TypeOK'
    <3>1. files[t] + 1 \in Version BY <2>1 DEF ChangeFile, Files, Version
    <3>2. files' \in Files BY <2>1, <3>1, FilesExcept DEF ChangeFile
    <3>3. QED BY <2>1, <3>2 DEF ChangeFile
  <2>2. CASE PushMain
    <3>1. main + 1 \in Commit BY <2>2 DEF PushMain, Commit
    <3>2. QED BY <2>2, <3>1, RunTypes DEF PushMain
  <2>3. CASE Dispatch BY <2>3, RunTypes DEF Dispatch
  <2>4. CASE Evict
    <3>1. cached' \in BOOLEAN BY <2>4 DEF Evict
    <3>2. cache' \in Files BY <2>4 DEF Evict
    <3>3. evictions' \in 0 .. MaxFaults BY <2>4 DEF Evict
    <3>4. QED BY <2>4, <3>1, <3>2, <3>3 DEF Evict
  <2>5. CASE Tick
    <3>1. CASE watch.phase = "idle" /\ tick = 0 /\ Restore(main)
      BY <2>5, <3>1, RestoreType DEF Tick
    <3>2. CASE watch.phase # "idle" /\ tick' = main
      BY <2>5, <3>2 DEF Tick
    <3>3. QED BY <2>5, <3>1, <3>2 DEF Tick
  <2>6. CASE NextTick BY <2>6, RestoreType DEF NextTick
  <2>7. CASE Resolve
    <3>1. files[watch.next] \in Version BY <2>7, FilesExcept DEF Resolve, Files
    <3>2. watch' \in WatchRun BY <2>7, <3>1, NextTargetType DEF Resolve
    <3>3. QED BY <2>7, <3>2 DEF Resolve
  <2>8. CASE CarryForward
    <3>1. files[watch.next] \in Version /\ watch.prev[watch.next] \in Version
      BY <2>8 DEF CarryForward, Files, WatchRun
    <3>2. watch' \in WatchRun BY <2>8, <3>1, NextTargetType DEF CarryForward
    <3>3. QED BY <2>8, <3>2 DEF CarryForward
  <2>9. CASE Compare
    <3>1. watch' \in WatchRun BY <2>9, RunTypes, PhaseType DEF Compare, WatchPhase
    <3>2. QED BY <2>9, <3>1 DEF Compare
  <2>10. CASE DeleteCache
    <3>1. watch' \in WatchRun BY <2>10, PhaseType DEF DeleteCache, WatchPhase
    <3>2. cached' \in BOOLEAN /\ cache' \in Files BY <2>10 DEF DeleteCache
    <3>3. evictions' \in 0 .. MaxFaults BY <2>10 DEF DeleteCache
    <3>4. QED BY <2>10, <3>1, <3>2, <3>3 DEF DeleteCache
  <2>11. CASE SaveCache
    <3>1. watch' \in WatchRun BY <2>11, PhaseType DEF SaveCache, WatchPhase
    <3>2. watch.cur \in Files BY DEF WatchRun
    <3>3. QED BY <2>11, <3>1, <3>2 DEF SaveCache
  <2>12. CASE StartDeploy
    <3>1. watch' \in WatchRun BY <2>12, PhaseType DEF StartDeploy, WatchPhase
    <3>2. watch.commit \in Commit /\ watch.truth \in Files
      BY <2>12 DEF StartDeploy, WatchRun
    <3>3. checking' \subseteq DeployRun
      <4>1. (watch.truth = polled) \in BOOLEAN OBVIOUS
      <4>2. QED BY <2>12, <3>2, <4>1, RunTypes DEF StartDeploy
    <3>4. QED BY <2>12, <3>1, <3>2, <3>3 DEF StartDeploy
  <2>13. CASE WatchDies BY <2>13, RunTypes DEF WatchDies
  <2>14. ASSUME NEW r \in checking, CheckPasses(r) PROVE TypeOK'
    BY <2>14, <2>w DEF CheckPasses
  <2>15. ASSUME NEW r \in checking, CheckFails(r) PROVE TypeOK'
    BY <2>15, <2>w DEF CheckFails
  <2>16. CASE ApplyReads BY <2>16 DEF ApplyReads
  <2>17. CASE ApplySucceeds
    <3>1. applied' \in [commit : Commit, files : Files]
      BY <2>17, RunTypes DEF ApplySucceeds
    <3>2. QED BY <2>17, <3>1, <2>w DEF ApplySucceeds, EndApply
  <2>18. CASE ApplyFails BY <2>18, <2>w DEF ApplyFails, EndApply
  <2>19. CASE UNCHANGED vars BY <2>19 DEF vars
  <2>20. QED
    BY <2>1, <2>2, <2>3, <2>4, <2>5, <2>6, <2>7, <2>8, <2>9, <2>10, <2>11, <2>12,
       <2>13, <2>14, <2>15, <2>16, <2>17, <2>18, <2>19
       DEF Next, WatchStep, DeployStep
<1>3. QED BY <1>1, <1>2, PTL DEF Spec
-----------------------------------------------------------------------------
(***************************************************************************)
(* No change is forgotten.  Versions only grow, so whatever an apply reads  *)
(* from now on is at least what the state entry records, what the poller    *)
(* has in hand and what the service reflects.                               *)
(***************************************************************************)
VersionsInv ==
  \A t \in Target :
    /\ cache[t] <= files[t]
    /\ watch.cur[t] <= files[t]
    /\ watch.prev[t] <= files[t]
    /\ applied.files[t] <= files[t]
    /\ read # Nothing => applied.files[t] <= read[t] /\ read[t] <= files[t]

IdleApplyInv == applying = NoRun => read = Nothing /\ pending = NoRun

LEMMA FilesNat ==
  ASSUME NEW f \in Files, NEW t \in Target PROVE f[t] \in Nat
BY BoundsAssumption DEF Files, Version

LEMMA VersionTypes ==
  ASSUME TypeOK, NEW t \in Target
  PROVE  /\ cache[t] \in Nat /\ files[t] \in Nat /\ read[t] \in Nat
         /\ watch.cur[t] \in Nat /\ watch.prev[t] \in Nat
         /\ applied.files[t] \in Nat
         /\ Nothing[t] = 0
BY FilesNat DEF TypeOK, WatchRun, Nothing

LEMMA VersionsInvariant == Spec => []VersionsInv
<1>1. Init => VersionsInv
  BY DEF Init, VersionsInv, Nothing, IdleWatch
<1>2. TypeOK /\ VersionsInv /\ [Next]_vars => VersionsInv'
  <2> SUFFICES ASSUME TypeOK, VersionsInv, [Next]_vars, NEW u \in Target
               PROVE  VersionsInv!(u)'
    BY DEF VersionsInv
  <2> USE VersionTypes
  <2> USE DEF cacheVars, deployVars, boundVars
  <2>a. VersionsInv!(u) BY DEF VersionsInv
  <2>1. ASSUME NEW t \in Target, ChangeFile(t) PROVE VersionsInv!(u)'
    <3>1. files'[u] \in Nat /\ files[u] <= files'[u]
      BY <2>1, VersionTypes DEF ChangeFile, TypeOK, Files
    <3>2. QED BY <2>1, <2>a, <3>1 DEF ChangeFile
  <2>2. CASE PushMain BY <2>2, <2>a DEF PushMain
  <2>3. CASE Dispatch BY <2>3, <2>a DEF Dispatch
  <2>4. CASE Evict BY <2>4, <2>a DEF Evict
  <2>5. CASE Tick
    <3>1. ASSUME NEW c, Restore(c) PROVE watch'.cur = Nothing /\ watch'.prev = cache
      BY <3>1 DEF Restore, IdleWatch
    <3>2. watch' = watch \/ (watch'.cur = Nothing /\ watch'.prev = cache)
      BY <2>5, <3>1 DEF Tick
    <3>3. UNCHANGED <<files, cacheVars, deployVars>> BY <2>5 DEF Tick
    <3>4. watch'.cur[u] <= files[u] /\ watch'.prev[u] <= files[u]
      <4>1. CASE watch' = watch BY <4>1, <2>a
      <4>2. CASE watch'.cur = Nothing /\ watch'.prev = cache BY <4>2, <2>a
      <4>3. QED BY <3>2, <4>1, <4>2
    <3>5. QED BY <2>a, <3>3, <3>4
  <2>6. CASE NextTick BY <2>6, <2>a DEF NextTick, Restore, IdleWatch
  <2>7. CASE Resolve BY <2>7, <2>a DEF Resolve, TypeOK, WatchRun, Files
  <2>8. CASE CarryForward BY <2>8, <2>a DEF CarryForward, TypeOK, WatchRun, Files
  <2>9. CASE Compare BY <2>9, <2>a DEF Compare, IdleWatch, TypeOK, WatchRun
  <2>10. CASE DeleteCache BY <2>10, <2>a DEF DeleteCache, TypeOK, WatchRun
  <2>11. CASE SaveCache BY <2>11, <2>a DEF SaveCache, TypeOK, WatchRun
  <2>12. CASE StartDeploy BY <2>12, <2>a DEF StartDeploy, TypeOK, WatchRun
  <2>13. CASE WatchDies BY <2>13, <2>a DEF WatchDies, IdleWatch
  <2>14. ASSUME NEW r \in checking, CheckPasses(r) PROVE VersionsInv!(u)'
    BY <2>14, <2>a DEF CheckPasses, WatchAfter, IdleWatch
  <2>15. ASSUME NEW r \in checking, CheckFails(r) PROVE VersionsInv!(u)'
    BY <2>15, <2>a DEF CheckFails, WatchAfter, IdleWatch
  <2>16. CASE ApplyReads BY <2>16, <2>a DEF ApplyReads
  <2>17. CASE ApplySucceeds
    BY <2>17, <2>a DEF ApplySucceeds, EndApply, WatchAfter, IdleWatch
  <2>18. CASE ApplyFails BY <2>18, <2>a DEF ApplyFails, EndApply, WatchAfter, IdleWatch
  <2>19. CASE UNCHANGED vars BY <2>19, <2>a DEF vars
  <2>20. QED
    BY <2>1, <2>2, <2>3, <2>4, <2>5, <2>6, <2>7, <2>8, <2>9, <2>10, <2>11, <2>12,
       <2>13, <2>14, <2>15, <2>16, <2>17, <2>18, <2>19
       DEF Next, WatchStep, DeployStep
<1>3. QED BY <1>1, <1>2, TypeCorrect, PTL DEF Spec

\* The deploy run of the poller, if there is one, is unique, and the poller's
\* own run waits for it.
PollerRunInv ==
  /\ \A r \in checking \cup {pending, applying} : r.by = "watch" => watch.phase = "deploy"
  /\ \A r, s \in checking : r.by = "watch" /\ s.by = "watch" => r = s
  /\ \A r \in checking : r.by = "watch" => pending.by # "watch" /\ applying.by # "watch"
  /\ pending.by = "watch" => applying.by # "watch"

LEMMA PollerRun == Spec => []PollerRunInv
<1>1. Init => PollerRunInv
  BY DEF Init, PollerRunInv, NoRun
<1>2. TypeOK /\ PollerRunInv /\ [Next]_vars => PollerRunInv'
  <2> SUFFICES ASSUME TypeOK, PollerRunInv, [Next]_vars PROVE PollerRunInv'
    OBVIOUS
  <2> USE DEF PollerRunInv, cacheVars, deployVars, boundVars
  <2>w. watch \in [phase : WatchPhase, commit : Commit \cup {0},
                   next : 1 .. NumTargets + 1, cur : Files, prev : Files,
                   restored : BOOLEAN, truth : Files]
    BY DEF TypeOK, WatchRun
  <2>1. ASSUME NEW t \in Target, ChangeFile(t) PROVE PollerRunInv'
    BY <2>1 DEF ChangeFile
  <2>2. CASE PushMain BY <2>2 DEF PushMain
  <2>3. CASE Dispatch BY <2>3 DEF Dispatch
  <2>4. CASE Evict BY <2>4 DEF Evict
  <2>5. CASE Tick BY <2>5 DEF Tick, Restore
  <2>6. CASE NextTick BY <2>6 DEF NextTick, Restore
  <2>7. CASE Resolve BY <2>7, <2>w DEF Resolve
  <2>8. CASE CarryForward BY <2>8, <2>w DEF CarryForward
  <2>9. CASE Compare BY <2>9 DEF Compare
  <2>10. CASE DeleteCache BY <2>10 DEF DeleteCache
  <2>11. CASE SaveCache BY <2>11 DEF SaveCache
  <2>12. CASE StartDeploy BY <2>12, <2>w DEF StartDeploy
  <2>13. CASE WatchDies BY <2>13 DEF WatchDies
  <2>14. ASSUME NEW r \in checking, CheckPasses(r) PROVE PollerRunInv'
    BY <2>14 DEF CheckPasses, WatchAfter, NoRun
  <2>15. ASSUME NEW r \in checking, CheckFails(r) PROVE PollerRunInv'
    BY <2>15 DEF CheckFails, WatchAfter
  <2>16. CASE ApplyReads BY <2>16 DEF ApplyReads
  <2>17. CASE ApplySucceeds
    BY <2>17 DEF ApplySucceeds, EndApply, WatchAfter, NoRun
  <2>18. CASE ApplyFails BY <2>18 DEF ApplyFails, EndApply, WatchAfter, NoRun
  <2>19. CASE UNCHANGED vars BY <2>19 DEF vars
  <2>20. QED
    BY <2>1, <2>2, <2>3, <2>4, <2>5, <2>6, <2>7, <2>8, <2>9, <2>10, <2>11, <2>12,
       <2>13, <2>14, <2>15, <2>16, <2>17, <2>18, <2>19
       DEF Next, WatchStep, DeployStep
<1>3. QED BY <1>1, <1>2, TypeCorrect, PTL DEF Spec

LEMMA IdleApply == Spec => []IdleApplyInv
<1>1. Init => IdleApplyInv
  BY DEF Init, IdleApplyInv
<1>2. TypeOK /\ IdleApplyInv /\ [Next]_vars => IdleApplyInv'
  BY RunTypes
     DEF TypeOK, IdleApplyInv, Next, vars, cacheVars, deployVars, boundVars, WatchStep,
         DeployStep, ChangeFile, PushMain, Dispatch, Evict, Tick, NextTick, Resolve,
         CarryForward, Compare, DeleteCache, SaveCache, StartDeploy, WatchDies,
         CheckPasses, CheckFails, ApplyReads, ApplySucceeds, ApplyFails, EndApply
<1>3. QED BY <1>1, <1>2, TypeCorrect, PTL DEF Spec

\* Unless a job failed, what the poller's state entry records is in the service
\* or on its way there.
THEOREM NothingForgotten == Spec => []NoChangeForgotten
<1>1. Init => NoChangeForgotten
  BY DEF Init, NoChangeForgotten, Nothing
<1>2. TypeOK /\ VersionsInv /\ IdleApplyInv /\ PollerRunInv /\ NoChangeForgotten
        /\ [Next]_vars
        => NoChangeForgotten'
  <2> SUFFICES ASSUME TypeOK, VersionsInv, IdleApplyInv, PollerRunInv,
                      NoChangeForgotten, [Next]_vars, ~lost', NEW u \in Target, cache'[u] > applied'.files[u]
               PROVE  OnItsWay(u)'
    BY DEF NoChangeForgotten
  <2> USE DEF NoChangeForgotten, OnItsWay, cacheVars, deployVars, boundVars
  <2>a. VersionsInv!(u) BY DEF VersionsInv
  <2>b. NoRun \notin checking /\ (pending # NoRun => applying # NoRun)
    BY RunTypes DEF TypeOK, IdleApplyInv
  <2>1. ASSUME NEW t \in Target, ChangeFile(t) PROVE OnItsWay(u)'
    BY <2>1 DEF ChangeFile
  <2>2. CASE PushMain BY <2>2 DEF PushMain
  <2>3. CASE Dispatch BY <2>3 DEF Dispatch
  <2>4. CASE Evict BY <2>4, VersionTypes DEF Evict
  <2>5. CASE Tick BY <2>5 DEF Tick, Restore, IdleWatch
  <2>6. CASE NextTick BY <2>6 DEF NextTick, Restore, IdleWatch
  <2>7. CASE Resolve BY <2>7 DEF Resolve, TypeOK, WatchRun
  <2>8. CASE CarryForward BY <2>8 DEF CarryForward, TypeOK, WatchRun
  <2>9. CASE Compare BY <2>9 DEF Compare, TypeOK, WatchRun
  <2>10. CASE DeleteCache BY <2>10, VersionTypes DEF DeleteCache, TypeOK, WatchRun
  <2>11. CASE SaveCache BY <2>11 DEF SaveCache, TypeOK, WatchRun
  <2>12. CASE StartDeploy BY <2>12 DEF StartDeploy
  <2>13. CASE WatchDies BY <2>13 DEF WatchDies
  <2>14. ASSUME NEW r \in checking, CheckPasses(r) PROVE OnItsWay(u)'
    BY <2>14, <2>b DEF CheckPasses, IdleApplyInv
  <2>15. ASSUME NEW r \in checking, CheckFails(r) PROVE OnItsWay(u)'
    BY <2>15 DEF CheckFails
  <2>16. CASE ApplyReads BY <2>16, <2>a DEF ApplyReads
  <2>17. CASE ApplySucceeds
    <3>1. cache[u] > read[u] /\ cache[u] > applied.files[u]
      BY <2>17, <2>a, VersionTypes DEF ApplySucceeds, EndApply
    <3>2. OnItsWay(u) /\ ~(applying # NoRun /\ (read = Nothing \/ read[u] >= cache[u]))
      BY <2>17, <3>1, VersionTypes DEF ApplySucceeds, EndApply
    <3>3. watch.phase = "saved" => watch'.phase = "saved"
      BY <2>17 DEF ApplySucceeds, EndApply, WatchAfter, PollerRunInv
    <3>4. QED BY <2>17, <3>2, <3>3, <2>b DEF ApplySucceeds, EndApply
  <2>18. CASE ApplyFails BY <2>18 DEF ApplyFails
  <2>19. CASE UNCHANGED vars BY <2>19 DEF vars
  <2>20. QED
    BY <2>1, <2>2, <2>3, <2>4, <2>5, <2>6, <2>7, <2>8, <2>9, <2>10, <2>11, <2>12,
       <2>13, <2>14, <2>15, <2>16, <2>17, <2>18, <2>19
       DEF Next, WatchStep, DeployStep
<1>3. QED BY <1>1, <1>2, TypeCorrect, VersionsInvariant, IdleApply, PollerRun, PTL DEF Spec
-----------------------------------------------------------------------------
(***************************************************************************)
(* The poller costs few deploys without need.  The bound says nothing of    *)
(* what a poll has in hand, so it is not inductive.  A deploy without need   *)
(* is one whose files are those of the last deploy; the entry it restored    *)
(* differs from these, or a target is guessed (carried forward).  Both are   *)
(* paid for: of the misses and evictions so far, one more than there were    *)
(* deploys without need while either is the case, two more if both are.      *)
(***************************************************************************)
Seen(t)  == t < watch.next
Compared == watch.phase \in {"delete", "save", "saved"}

\* What the poll knows: versions only grow, and a target is seen or guessed.
PollInv ==
  /\ \A t \in Target : 1 <= files[t] /\ polled[t] <= files[t]
  /\ ~cached => cache = Nothing
  /\ ~watch.restored => watch.prev = Nothing
  /\ Compared => watch.next = NumTargets + 1
  /\ \A t \in Target : (watch.phase = "collect" \/ Compared) /\ Seen(t) =>
       /\ 1 <= watch.truth[t]
       /\ polled[t] <= watch.truth[t] /\ watch.truth[t] <= files[t]
       /\ watch.cur[t] \in {watch.truth[t], watch.prev[t]}

\* Some file has changed since the last deploy of the poller; this poll is
\* bound to see it; the poll has guessed a target wrong.
Moved    == \E t \in Target : polled[t] < files[t]
WillMove == \E t \in Target : \/ Seen(t) /\ polled[t] < watch.truth[t]
                              \/ ~Seen(t) /\ polled[t] < files[t]
Guessed  == \E t \in Target : Seen(t) /\ watch.cur[t] # watch.truth[t]

Spare(n)   == redundant + n <= misses + evictions
Owes(A, B) == /\ Spare(0)
              /\ A => Spare(1)
              /\ B => Spare(1)
              /\ A /\ B => Spare(2)

CreditInv ==
  /\ Owes(cache # polled /\ ~Moved, FALSE)
  /\ watch.phase = "collect" => Owes(watch.prev # polled /\ ~WillMove, Guessed)
  /\ watch.phase = "delete" => Owes(watch.truth = polled, watch.cur # watch.truth)
  /\ watch.phase = "save" =>
       Owes(watch.truth = polled, cached \/ watch.cur # watch.truth)
  /\ watch.phase = "saved" => Owes(watch.truth = polled, cache # watch.truth)

LEMMA CreditTypes ==
  ASSUME TypeOK
  PROVE  /\ redundant \in Nat /\ misses \in Nat /\ evictions \in Nat
         /\ NumTargets \in Nat /\ watch.next \in 1 .. NumTargets + 1
         /\ watch.cur \in Files /\ watch.prev \in Files /\ watch.truth \in Files
         /\ watch.restored \in BOOLEAN /\ cached \in BOOLEAN
         /\ watch = [phase |-> watch.phase, commit |-> watch.commit,
                     next |-> watch.next, cur |-> watch.cur, prev |-> watch.prev,
                     restored |-> watch.restored, truth |-> watch.truth]
         /\ \A t \in Target :
              /\ t \in Nat /\ 1 <= t /\ t <= NumTargets /\ Nothing[t] = 0
              /\ cache[t] \in Nat /\ files[t] \in Nat /\ polled[t] \in Nat
              /\ watch.cur[t] \in Nat /\ watch.prev[t] \in Nat /\ watch.truth[t] \in Nat
<1>1. /\ watch.cur \in Files /\ watch.prev \in Files /\ watch.truth \in Files
      /\ cache \in Files /\ files \in Files /\ polled \in Files
  BY DEF TypeOK, WatchRun
<1>2. \A t \in Target :
              /\ cache[t] \in Nat /\ files[t] \in Nat /\ polled[t] \in Nat
              /\ watch.cur[t] \in Nat /\ watch.prev[t] \in Nat /\ watch.truth[t] \in Nat
  BY <1>1, FilesNat
<1>3. \A t \in Target : t \in Nat /\ 1 <= t /\ t <= NumTargets /\ Nothing[t] = 0
  BY BoundsAssumption DEF Target, Nothing
<1>4. QED BY <1>1, <1>2, <1>3, BoundsAssumption DEF TypeOK, WatchRun

\* Two functions of Files are equal when they agree on every target.
LEMMA FilesEqual ==
  ASSUME NEW f \in Files, NEW g \in Files, \A t \in Target : f[t] = g[t]
  PROVE  f = g
BY DEF Files

\* Steps that leave the poll's part alone, or end the poll, keep both.
LEMMA PollLeftAlone ==
  ASSUME TypeOK, PollInv, watch' = watch \/ watch' = IdleWatch,
         UNCHANGED <<files, cacheVars, polled>>
  PROVE  PollInv'
<1>1. CASE watch' = watch
  BY <1>1 DEF PollInv, Compared, Seen, cacheVars
<1>2. CASE watch' = IdleWatch
  BY <1>2 DEF PollInv, Compared, Seen, cacheVars, IdleWatch
<1>3. QED BY <1>1, <1>2

LEMMA CreditLeftAlone ==
  ASSUME TypeOK, CreditInv, watch' = watch \/ watch' = IdleWatch,
         UNCHANGED <<files, cacheVars, polled, redundant, misses, evictions>>
  PROVE  CreditInv'
<1>1. CASE watch' = watch
  BY <1>1 DEF CreditInv, Owes, Spare, Moved, WillMove, Guessed, Seen, cacheVars
<1>2. CASE watch' = IdleWatch
  BY <1>2 DEF CreditInv, Owes, Spare, Moved, cacheVars, IdleWatch
<1>3. QED BY <1>1, <1>2

\* The steps of which this is true.
LEMMA Elsewhere ==
  ASSUME \/ PushMain \/ Dispatch \/ WatchDies
         \/ ApplyReads \/ ApplySucceeds \/ ApplyFails
         \/ \E r \in checking : CheckPasses(r) \/ CheckFails(r)
         \/ UNCHANGED vars
  PROVE  /\ watch' = watch \/ watch' = IdleWatch
         /\ UNCHANGED <<files, cacheVars, polled, redundant, misses, evictions>>
BY DEF PushMain, Dispatch, WatchDies, ApplyReads, ApplySucceeds, ApplyFails, EndApply,
       CheckPasses, CheckFails, WatchAfter, vars, cacheVars, deployVars, boundVars

LEMMA PollInvariant == Spec => []PollInv
<1>1. Init => PollInv
  BY BoundsAssumption DEF Init, PollInv, Compared, Nothing, IdleWatch
<1>2. TypeOK /\ PollInv /\ [Next]_vars => PollInv'
  <2> SUFFICES ASSUME TypeOK, PollInv, [Next]_vars PROVE PollInv'
    OBVIOUS
  <2> USE CreditTypes
  <2> USE DEF cacheVars, deployVars, boundVars
  <2>0. ASSUME \/ PushMain \/ Dispatch \/ WatchDies
               \/ ApplyReads \/ ApplySucceeds \/ ApplyFails
               \/ \E r \in checking : CheckPasses(r) \/ CheckFails(r)
               \/ UNCHANGED vars
        PROVE  PollInv'
    BY <2>0, Elsewhere, PollLeftAlone
  <2>1. ASSUME NEW t \in Target, ChangeFile(t) PROVE PollInv'
    <3>1. \A u \in Target : files'[u] \in Nat /\ files[u] <= files'[u]
      BY <2>1 DEF ChangeFile, TypeOK, Files
    <3>2. QED BY <2>1, <3>1 DEF ChangeFile, PollInv, Compared, Seen
  <2>2. CASE Evict BY <2>2 DEF Evict, PollInv, Compared, Seen
  <2>3. ASSUME NEW c, Restore(c), UNCHANGED <<files, cacheVars, polled>> PROVE PollInv'
    BY <2>3 DEF Restore, IdleWatch, PollInv, Compared, Seen
  <2>4. CASE Tick
    <3>1. CASE Restore(main) BY <2>3, <2>4, <3>1 DEF Tick
    <3>2. CASE watch' = watch BY <2>4, <3>2, PollLeftAlone DEF Tick
    <3>3. QED BY <2>4, <3>1, <3>2 DEF Tick
  <2>5. CASE NextTick BY <2>3, <2>5 DEF NextTick
  <2>6. ASSUME watch.phase = "collect", watch.next \in Target, NEW v,
               v \in {files[watch.next], watch.prev[watch.next]},
               watch' = [watch EXCEPT !.cur[watch.next] = v,
                                      !.truth[watch.next] = files[watch.next],
                                      !.next = @ + 1],
               UNCHANGED <<files, cacheVars, polled>>
        PROVE  PollInv'
    <3>1. /\ watch'.phase = "collect" /\ watch'.next = watch.next + 1
          /\ watch'.prev = watch.prev /\ watch'.restored = watch.restored
          /\ watch'.cur = [watch.cur EXCEPT ![watch.next] = v]
          /\ watch'.truth = [watch.truth EXCEPT ![watch.next] = files[watch.next]]
      BY <2>6
    <3>2. watch'.cur[watch.next] = v /\ watch'.truth[watch.next] = files[watch.next]
      BY <2>6, <3>1 DEF Files
    <3>3. ASSUME NEW t \in Target, t < watch.next + 1, t # watch.next
          PROVE  /\ t < watch.next
                 /\ watch'.cur[t] = watch.cur[t] /\ watch'.truth[t] = watch.truth[t]
      BY <3>1, <3>3 DEF Files
    <3>4. QED BY <2>6, <3>1, <3>2, <3>3 DEF PollInv, Compared, Seen
  <2>7. CASE Resolve BY <2>6, <2>7 DEF Resolve
  <2>8. CASE CarryForward BY <2>6, <2>8 DEF CarryForward
  <2>9. CASE Compare
    <3>1. CASE watch' = [watch EXCEPT !.phase = "delete"]
      BY <2>9, <3>1 DEF Compare, PollInv, Compared, Seen
    <3>2. CASE watch' = IdleWatch BY <2>9, <3>2, PollLeftAlone DEF Compare
    <3>3. QED BY <2>9, <3>1, <3>2 DEF Compare
  <2>10. CASE DeleteCache BY <2>10 DEF DeleteCache, PollInv, Compared, Seen
  <2>11. CASE SaveCache BY <2>11 DEF SaveCache, PollInv, Compared, Seen
  <2>12. CASE StartDeploy BY <2>12 DEF StartDeploy, PollInv, Compared, Seen
  <2>13. QED
    BY <2>0, <2>1, <2>2, <2>4, <2>5, <2>7, <2>8, <2>9, <2>10, <2>11, <2>12
       DEF Next, WatchStep, DeployStep
<1>3. QED BY <1>1, <1>2, TypeCorrect, PTL DEF Spec

\* A poll that has seen every target: what it saw is what it was bound to see.
LEMMA SeenAll ==
  ASSUME TypeOK, PollInv, watch.phase = "collect" \/ Compared, watch.next = NumTargets + 1
  PROVE  /\ watch.truth = polled <=> ~WillMove
         /\ watch.truth # polled => Moved
         /\ watch.cur # watch.truth <=> Guessed
         /\ watch.truth # Nothing
<1> USE CreditTypes
<1>1. \A t \in Target : Seen(t) BY DEF Seen
<1>2. watch.truth = polled <=> \A t \in Target : watch.truth[t] = polled[t]
  BY FilesEqual DEF TypeOK
<1>3. watch.cur = watch.truth <=> \A t \in Target : watch.cur[t] = watch.truth[t]
  BY FilesEqual
<1>4. 1 \in Target BY BoundsAssumption DEF Target
<1>5. watch.truth # Nothing BY <1>1, <1>4 DEF PollInv
<1>6. watch.truth = polled <=> ~WillMove BY <1>1, <1>2 DEF PollInv, WillMove
<1>7. watch.truth # polled => Moved BY <1>1, <1>2 DEF PollInv, Moved
<1>8. QED BY <1>1, <1>3, <1>5, <1>6, <1>7 DEF Guessed

LEMMA CreditInvariant == Spec => []CreditInv
<1>1. Init => CreditInv
  BY DEF Init, CreditInv, Owes, Spare, IdleWatch
<1>2. TypeOK /\ PollInv /\ PollInv' /\ CreditInv /\ [Next]_vars
        => CreditInv'
  <2> SUFFICES ASSUME TypeOK, PollInv, PollInv', CreditInv, [Next]_vars
               PROVE  CreditInv'
    OBVIOUS
  <2> USE CreditTypes
  <2> USE DEF cacheVars, deployVars, boundVars, Owes, Spare
  <2>0. ASSUME \/ PushMain \/ Dispatch \/ WatchDies
               \/ ApplyReads \/ ApplySucceeds \/ ApplyFails
               \/ \E r \in checking : CheckPasses(r) \/ CheckFails(r)
               \/ UNCHANGED vars
        PROVE  CreditInv'
    BY <2>0, Elsewhere, CreditLeftAlone
  <2>1. ASSUME NEW t \in Target, ChangeFile(t) PROVE CreditInv'
    <3>1. \A u \in Target : files'[u] \in Nat /\ files[u] <= files'[u]
      BY <2>1 DEF ChangeFile, TypeOK, Files
    <3>2. (Moved => Moved') /\ (WillMove => WillMove') /\ (Guessed' => Guessed)
      BY <2>1, <3>1 DEF ChangeFile, Moved, WillMove, Guessed, Seen
    <3>3. QED BY <2>1, <3>2 DEF ChangeFile, CreditInv
  <2>2. CASE Evict
    <3>1. (Moved <=> Moved') /\ (WillMove <=> WillMove') /\ (Guessed' <=> Guessed)
      BY <2>2 DEF Evict, Moved, WillMove, Guessed, Seen
    <3>2. QED BY <2>2, <3>1 DEF Evict, CreditInv
  <2>3. ASSUME NEW c, Restore(c),
               UNCHANGED <<files, cacheVars, polled, redundant, misses, evictions>>
        PROVE  CreditInv'
    <3>1. watch'.phase = "collect" /\ watch'.next = 1 /\ watch'.prev = cache
      BY <2>3 DEF Restore, IdleWatch
    <3>2. (Moved <=> Moved') /\ (WillMove' <=> Moved) /\ ~Guessed'
      BY <2>3, <3>1 DEF Moved, WillMove, Guessed, Seen
    <3>3. QED BY <2>3, <3>1, <3>2 DEF CreditInv
  <2>4. CASE Tick
    <3>1. CASE Restore(main) BY <2>3, <2>4, <3>1 DEF Tick
    <3>2. CASE watch' = watch BY <2>4, <3>2, CreditLeftAlone DEF Tick
    <3>3. QED BY <2>4, <3>1, <3>2 DEF Tick
  <2>5. CASE NextTick BY <2>3, <2>5 DEF NextTick
  \* A target that is resolved or guessed right is as it is; one guessed wrong counts.
  <2>6. ASSUME watch.phase = "collect", watch.next \in Target, NEW v,
               watch' = [watch EXCEPT !.cur[watch.next] = v,
                                      !.truth[watch.next] = files[watch.next],
                                      !.next = @ + 1],
               UNCHANGED <<files, cacheVars, polled, redundant, evictions>>,
               \/ v = files[watch.next] /\ misses' = misses
               \/ misses' = misses + 1
        PROVE  CreditInv'
    <3>1. /\ watch'.phase = "collect" /\ watch'.next = watch.next + 1
          /\ watch'.prev = watch.prev
          /\ watch'.cur = [watch.cur EXCEPT ![watch.next] = v]
          /\ watch'.truth = [watch.truth EXCEPT ![watch.next] = files[watch.next]]
      BY <2>6
    <3>2. watch'.cur[watch.next] = v /\ watch'.truth[watch.next] = files[watch.next]
      BY <2>6, <3>1 DEF Files
    <3>3. ASSUME NEW t \in Target, t # watch.next
          PROVE  /\ t < watch.next + 1 <=> t < watch.next
                 /\ watch'.cur[t] = watch.cur[t] /\ watch'.truth[t] = watch.truth[t]
      BY <3>1, <3>3 DEF Files
    <3>4. Moved <=> Moved' BY <2>6 DEF Moved
    <3>5. WillMove <=> WillMove'
      BY <2>6, <3>1, <3>2, <3>3 DEF WillMove, Seen
    <3>6. v = files[watch.next] => (Guessed' => Guessed)
      BY <2>6, <3>1, <3>2, <3>3 DEF Guessed, Seen
    <3>7. QED BY <2>6, <3>1, <3>4, <3>5, <3>6 DEF CreditInv
  <2>7. CASE Resolve BY <2>6, <2>7 DEF Resolve
  <2>8. CASE CarryForward BY <2>6, <2>8 DEF CarryForward
  \* A poll that restored what the last deploy saw, and sees nothing else, ends.
  <2>9. CASE Compare
    <3>1. CASE watch' = [watch EXCEPT !.phase = "delete"] /\ Changed
      <4>1. /\ watch'.phase = "delete" /\ watch'.truth = watch.truth
            /\ watch'.cur = watch.cur
        BY <3>1
      <4>2. Moved <=> Moved' BY <2>9 DEF Compare, Moved
      <4>3. /\ watch.truth = polled <=> ~WillMove
            /\ watch.cur # watch.truth <=> Guessed
            /\ watch.truth # Nothing
        BY <2>9, SeenAll DEF Compare
      <4>4. ASSUME watch.truth = polled PROVE watch.prev # polled
        <5>1. ASSUME watch.prev = polled PROVE FALSE
          <6>1. watch.restored BY <4>3, <4>4, <5>1 DEF PollInv
          <6>2. \A t \in Target : watch.cur[t] = watch.prev[t]
            BY <2>9, <4>4, <5>1 DEF Compare, PollInv, Seen
          <6>3. watch.cur = watch.prev BY <6>2, FilesEqual
          <6>4. QED BY <3>1, <6>1, <6>3 DEF Changed
        <5>2. QED BY <5>1
      <4>5. QED BY <2>9, <4>1, <4>2, <4>3, <4>4 DEF Compare, CreditInv
    <3>2. CASE watch' = IdleWatch BY <2>9, <3>2, CreditLeftAlone DEF Compare
    <3>3. QED BY <2>9, <3>1, <3>2 DEF Compare
  <2>10. CASE DeleteCache
    <3>1. /\ watch'.phase = "save" /\ watch'.truth = watch.truth
          /\ watch'.cur = watch.cur
      BY <2>10 DEF DeleteCache
    <3>2. Moved <=> Moved' BY <2>10 DEF DeleteCache, Moved
    <3>3. watch.truth # polled => Moved
      BY <2>10, SeenAll DEF DeleteCache, PollInv, Compared
    <3>4. QED BY <2>10, <3>1, <3>2, <3>3 DEF DeleteCache, CreditInv
  <2>11. CASE SaveCache
    <3>1. watch'.phase = "saved" /\ watch'.truth = watch.truth
      BY <2>11 DEF SaveCache
    <3>2. Moved <=> Moved' BY <2>11 DEF SaveCache, Moved
    <3>3. watch.truth # polled => Moved
      BY <2>11, SeenAll DEF SaveCache, PollInv, Compared
    <3>4. QED BY <2>11, <3>1, <3>2, <3>3 DEF SaveCache, CreditInv
  <2>12. CASE StartDeploy
    <3>1. watch'.phase = "deploy" BY <2>12 DEF StartDeploy
    <3>2. QED BY <2>12, <3>1 DEF StartDeploy, CreditInv
  <2>13. QED
    BY <2>0, <2>1, <2>2, <2>4, <2>5, <2>7, <2>8, <2>9, <2>10, <2>11, <2>12
       DEF Next, WatchStep, DeployStep
<1>3. QED BY <1>1, <1>2, TypeCorrect, PollInvariant, PTL DEF Spec

\* Every deploy the poller starts without need is paid for by an eviction,
\* or a target carried forward with a SHA that was not its own, of its own.
THEOREM RedundantBounded == Spec => []RedundantDeploysBounded
<1>1. TypeOK /\ CreditInv => RedundantDeploysBounded
  BY CreditTypes DEF CreditInv, Owes, Spare, RedundantDeploysBounded
<1>2. QED BY <1>1, TypeCorrect, CreditInvariant, PTL
=============================================================================
