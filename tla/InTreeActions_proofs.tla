------------------------- MODULE InTreeActions_proofs -------------------------
(***************************************************************************)
(* Proofs of the safety properties of InTreeActions, for every set of       *)
(* branches, contents, actions and trust domains and every retention time.  *)
(***************************************************************************)
EXTENDS InTreeActions, TLAPS

LEMMA RollType ==
  ASSUME NEW a \in {Never} \cup 0 .. Retention + 1
  PROVE  /\ Roll(a) \in {Never} \cup 0 .. Retention + 1
         /\ TooOld(a) => TooOld(Roll(a))
BY DataAssumption DEF Roll, TooOld, Never

LEMMA GeneratedType == \A f : Generated(f) \subseteq Hook
BY DEF Generated

(***************************************************************************)
(* Type correctness.                                                       *)
(***************************************************************************)
THEOREM TypeCorrect == Spec => []TypeOK
<1>1. Init => TypeOK
  BY DataAssumption DEF Init, TypeOK, Phase, Tcyml, Never
<1>2. TypeOK /\ [Next]_vars => TypeOK'
  <2> SUFFICES ASSUME TypeOK, [Next]_vars PROVE TypeOK'
    OBVIOUS
  <2> USE DataAssumption
  <2> USE DEF TypeOK, Phase, serviceVars, runVars, historyVars, StopRun
  <2>1. ASSUME NEW h \in Head, NEW c \in Tcyml, Push(h, c) PROVE TypeOK'
    <3>1. carried' \in [Head -> SUBSET Content]
      BY <2>1 DEF Push
    <3>2. QED BY <3>1, <2>1 DEF Push
  <2>2. ASSUME NEW k \in Hook, Fire(k) PROVE TypeOK'
    BY <2>2 DEF Fire, Never
  <2>3. CASE NextDay
    <3>1. age' \in [Hook -> {Never} \cup 0 .. Retention + 1]
      BY <2>3, RollType DEF NextDay
    <3>2. QED BY <2>3, <3>1 DEF NextDay
  <2>4. CASE StartRun BY <2>4 DEF StartRun
  <2>5. CASE Generate
    <3>1. resources' \subseteq Hook BY <2>5, GeneratedType DEF Generate
    <3>2. unlisted' \subseteq TrustDomain BY <2>5 DEF Generate
    <3>3. QED BY <2>5, <3>1, <3>2 DEF Generate
  <2>6. CASE GenerateRaises BY <2>6 DEF GenerateRaises
  <2>7. CASE NextDomain BY <2>7 DEF NextDomain
  <2>8. CASE FinishRun BY <2>8 DEF FinishRun
  <2>9. ASSUME NEW h \in Head, Answer(h) PROVE TypeOK'
    BY <2>9 DEF Answer
  <2>10. ASSUME NEW h \in Head, AnswerNotFound(h) PROVE TypeOK'
    BY <2>10 DEF AnswerNotFound
  <2>11. ASSUME NEW d \in TrustDomain, ListHooks(d) PROVE TypeOK'
    BY <2>11 DEF ListHooks
  <2>12. ASSUME NEW k \in Hook, CheckStatus(k) PROVE TypeOK'
    BY <2>12 DEF CheckStatus
  <2>13. ASSUME NEW k \in Hook, CreateHook(k) PROVE TypeOK'
    BY <2>13 DEF CreateHook
  <2>14. ASSUME NEW k \in Hook, RemoveHook(k) PROVE TypeOK'
    BY <2>14 DEF RemoveHook, Never
  <2>15. CASE Crash BY <2>15 DEF Crash
  <2>16. CASE UNCHANGED vars BY <2>16 DEF vars
  <2>17. QED
    BY <2>1, <2>2, <2>3, <2>4, <2>5, <2>6, <2>7, <2>8, <2>9, <2>10, <2>11,
       <2>12, <2>13, <2>14, <2>15, <2>16 DEF Next, RunStep
<1>3. QED BY <1>1, <1>2, PTL DEF Spec

(***************************************************************************)
(* Provenance.  HookProvenance speaks of the hooks in the service; a run    *)
(* works from older answers, so the invariant follows a content from the    *)
(* branch through the answers and the run's resources to the service.       *)
(***************************************************************************)
Sourced(k) == \E h \in Head : Entitles(h, k.action) /\ k.hash \in carried[h]

ProvenanceInv ==
  /\ \A h \in Head : tcyml[h] \in Content => tcyml[h] \in carried[h]
  /\ \A h \in Head : fetched[h] \in Content => fetched[h] \in carried[h]
  /\ unchecked \subseteq hooks
  /\ phase # "status" => unchecked = {}
  /\ \A k \in resources : Sourced(k)
  /\ \A k \in hooks : Sourced(k)

LEMMA HookFields ==
  ASSUME NEW k \in Hook
  PROVE  k.action \in Action /\ k.hash \in Content /\ k.pr \in BOOLEAN
BY DEF Hook

\* Contents never leave carried, so whatever was sourced stays sourced.
LEMMA SourcedStable ==
  ASSUME \A h \in Head : carried[h] \subseteq carried'[h], NEW k, Sourced(k)
  PROVE  Sourced(k)'
BY DEF Sourced, Entitles

\* No hook runs a file that no sufficiently privileged branch ever held.
THEOREM Provenance == Spec => []HookProvenance
<1>1. Init => ProvenanceInv
  BY DataAssumption DEF Init, ProvenanceInv, Tcyml
<1>2. TypeOK /\ ProvenanceInv /\ [Next]_vars => ProvenanceInv'
  <2> SUFFICES ASSUME TypeOK, ProvenanceInv, [Next]_vars PROVE ProvenanceInv'
    OBVIOUS
  <2> USE DataAssumption DEF ProvenanceInv, serviceVars, runVars, historyVars, StopRun
  <2>a. ASSUME UNCHANGED carried, NEW k, Sourced(k) PROVE Sourced(k)'
    BY <2>a DEF Sourced, Entitles
  <2>b. Pending \notin Content
    BY DEF Tcyml
  <2>1. ASSUME NEW h \in Head, NEW c \in Tcyml, Push(h, c) PROVE ProvenanceInv'
    <3>1. \A i \in Head : carried[i] \subseteq carried'[i]
      BY <2>1 DEF Push, TypeOK
    <3>2. \A i \in Head : tcyml'[i] \in Content => tcyml'[i] \in carried'[i]
      BY <2>1, <3>1 DEF Push, TypeOK
    <3>3. \A k \in hooks \cup resources : Sourced(k)'
      BY <3>1, SourcedStable
    <3>4. QED BY <2>1, <3>1, <3>2, <3>3 DEF Push, TypeOK
  <2>2. ASSUME NEW k \in Hook, Fire(k) PROVE ProvenanceInv'
    BY <2>2, <2>a DEF Fire
  <2>3. CASE NextDay BY <2>3, <2>a DEF NextDay
  <2>4. CASE StartRun BY <2>4, <2>a DEF StartRun
  <2>5. CASE Generate
    <3>1. ASSUME NEW k \in Generated(fetched) PROVE Sourced(k)
      <4>1. PICK h \in Head : fetched[h] = k.hash /\ Entitles(h, k.action)
        BY DEF Generated
      <4>2. k.hash \in Content BY GeneratedType, HookFields
      <4>3. QED BY <4>1, <4>2 DEF Sourced
    <3>2. \A k \in resources' : Sourced(k) BY <2>5, <3>1 DEF Generate
    <3>3. QED BY <2>5, <3>2, <2>a DEF Generate
  <2>6. CASE GenerateRaises BY <2>6, <2>a, <2>b DEF GenerateRaises
  <2>7. CASE NextDomain BY <2>7, <2>a DEF NextDomain
  <2>8. CASE FinishRun BY <2>8, <2>a, <2>b DEF FinishRun
  <2>9. ASSUME NEW h \in Head, Answer(h) PROVE ProvenanceInv'
    <3>1. \A i \in Head : fetched'[i] \in Content => fetched'[i] \in carried[i]
      BY <2>9 DEF Answer, TypeOK
    <3>2. QED BY <2>9, <3>1, <2>a DEF Answer
  <2>10. ASSUME NEW h \in Head, AnswerNotFound(h) PROVE ProvenanceInv'
    BY <2>10, <2>a, <2>b DEF AnswerNotFound
  <2>11. ASSUME NEW d \in TrustDomain, ListHooks(d) PROVE ProvenanceInv'
    BY <2>11, <2>a DEF ListHooks
  <2>12. ASSUME NEW k \in Hook, CheckStatus(k) PROVE ProvenanceInv'
    BY <2>12, <2>a DEF CheckStatus
  <2>13. ASSUME NEW k \in Hook, CreateHook(k) PROVE ProvenanceInv'
    BY <2>13, <2>a DEF CreateHook
  <2>14. ASSUME NEW k \in Hook, RemoveHook(k) PROVE ProvenanceInv'
    BY <2>14, <2>a DEF RemoveHook
  <2>15. CASE Crash BY <2>15, <2>a, <2>b DEF Crash
  <2>16. CASE UNCHANGED vars BY <2>16, <2>a DEF vars
  <2>17. QED
    BY <2>1, <2>2, <2>3, <2>4, <2>5, <2>6, <2>7, <2>8, <2>9, <2>10, <2>11,
       <2>12, <2>13, <2>14, <2>15, <2>16 DEF Next, RunStep
<1>3. ProvenanceInv => HookProvenance
  BY DEF ProvenanceInv, HookProvenance, Sourced
<1>4. QED BY <1>1, <1>2, <1>3, TypeCorrect, PTL DEF Spec

(***************************************************************************)
(* Retention.  Between the generation and the removals, an existing hook    *)
(* that the run has neither generated nor kept is still to be listed, still *)
(* to be checked, or was found unused; Fire and NextDay preserve that.      *)
(***************************************************************************)
RetentionInv ==
  /\ phase # "status" => unchecked = {}
  /\ phase = "apply" => unlisted = {}
  /\ phase \in {"list", "status", "apply"} =>
       \A k \in hooks : \/ k.pr
                        \/ k \in resources
                        \/ k.action.domain \in unlisted
                        \/ k \in unchecked
                        \/ Unused(k)

LEMMA RetentionInvariant == Spec => []RetentionInv
<1>1. Init => RetentionInv
  BY DEF Init, RetentionInv
<1>2. TypeOK /\ RetentionInv /\ [Next]_vars => RetentionInv'
  <2> SUFFICES ASSUME TypeOK, RetentionInv, [Next]_vars PROVE RetentionInv'
    OBVIOUS
  <2> USE DEF RetentionInv, serviceVars, runVars, historyVars, StopRun
  <2>1. ASSUME NEW h \in Head, NEW c \in Tcyml, Push(h, c) PROVE RetentionInv'
    BY <2>1 DEF Push, Unused
  <2>2. ASSUME NEW k \in Hook, Fire(k) PROVE RetentionInv'
    <3>1. \A j \in hooks : Unused(j) => Unused(j)'
      BY <2>2 DEF Fire, Unused, TypeOK
    <3>2. QED BY <2>2, <3>1 DEF Fire
  <2>3. CASE NextDay
    <3>1. \A j \in hooks : Unused(j) => Unused(j)'
      BY <2>3, RollType DEF NextDay, Unused, TypeOK
    <3>2. QED BY <2>3, <3>1 DEF NextDay
  <2>4. CASE StartRun
    BY <2>4 DEF StartRun
  <2>5. CASE Generate
    <3>1. \A j \in hooks : j.action.domain \in unlisted'
      BY <2>5, HookFields DEF Generate, TypeOK
    <3>2. QED BY <2>5, <3>1 DEF Generate
  <2>6. CASE GenerateRaises
    BY <2>6 DEF GenerateRaises
  <2>7. CASE NextDomain
    BY <2>7 DEF NextDomain, Unused
  <2>8. CASE FinishRun
    BY <2>8 DEF FinishRun
  <2>9. ASSUME NEW h \in Head, Answer(h) PROVE RetentionInv'
    BY <2>9 DEF Answer
  <2>10. ASSUME NEW h \in Head, AnswerNotFound(h) PROVE RetentionInv'
    BY <2>10 DEF AnswerNotFound
  <2>11. ASSUME NEW d \in TrustDomain, ListHooks(d) PROVE RetentionInv'
    BY <2>11 DEF ListHooks, Interesting, Unused
  <2>12. ASSUME NEW k \in Hook, CheckStatus(k) PROVE RetentionInv'
    BY <2>12 DEF CheckStatus, Unused
  <2>13. ASSUME NEW k \in Hook, CreateHook(k) PROVE RetentionInv'
    BY <2>13 DEF CreateHook, Unused
  <2>14. ASSUME NEW k \in Hook, RemoveHook(k) PROVE RetentionInv'
    <3>1. \A j \in hooks' : Unused(j) => Unused(j)'
      BY <2>14 DEF RemoveHook, Unused, TypeOK
    <3>2. QED BY <2>14, <3>1 DEF RemoveHook
  <2>15. CASE Crash
    BY <2>15 DEF Crash
  <2>16. CASE UNCHANGED vars
    BY <2>16 DEF vars, Unused
  <2>17. QED
    BY <2>1, <2>2, <2>3, <2>4, <2>5, <2>6, <2>7, <2>8, <2>9, <2>10, <2>11,
       <2>12, <2>13, <2>14, <2>15, <2>16 DEF Next, RunStep
<1>3. QED BY <1>1, <1>2, TypeCorrect, PTL DEF Spec

\* A deploy removes no in-tree-action-* hook that was fired within the
\* retention time, but for a fire that came after its status was read.
THEOREM RetentionHolds == Spec => RecentHooksKept
<1>1. RetentionInv /\ [Next]_vars
        => [\A k \in hooks \ hooks' : k.pr \/ Unused(k)]_vars
  <2> SUFFICES ASSUME RetentionInv, Next, NEW j \in hooks \ hooks'
               PROVE  j.pr \/ Unused(j)
    OBVIOUS
  <2>1. PICK k \in Hook : RemoveHook(k)
    BY DEF Next, RunStep, Push, Fire, NextDay, StartRun, Generate, GenerateRaises,
       NextDomain, FinishRun, Answer, AnswerNotFound, ListHooks, CheckStatus,
       CreateHook, Crash, serviceVars
  <2>2. j = k BY <2>1 DEF RemoveHook
  <2>3. QED BY <2>1, <2>2 DEF RemoveHook, RetentionInv
<1>2. QED BY <1>1, RetentionInvariant, PTL DEF Spec, RecentHooksKept

(***************************************************************************)
(* No outage.  The answers of a branch nobody pushed to during the run are  *)
(* what the branch holds, and what they generate is never dropped.          *)
(***************************************************************************)
AnswersInv ==
  /\ phase = "idle" => \A h \in Head : fetched[h] = Pending
  /\ \A h \in Head : fetched[h] # Pending /\ h \notin pushed => fetched[h] = tcyml[h]
  /\ phase \in {"list", "status", "apply"} =>
       /\ \A h \in Head : fetched[h] # Pending
       /\ Generated(fetched) \subseteq resources
  /\ unchecked \subseteq hooks
  /\ phase # "status" => unchecked = {}
  /\ \A k \in hooks \cup resources : k.pr => MakesPRHooks(k.action)

LEMMA AnswersInvariant == Spec => []AnswersInv
<1>1. Init => AnswersInv
  BY DEF Init, AnswersInv
<1>2. TypeOK /\ AnswersInv /\ [Next]_vars => AnswersInv'
  <2> SUFFICES ASSUME TypeOK, AnswersInv, [Next]_vars PROVE AnswersInv'
    OBVIOUS
  <2> USE DEF AnswersInv, serviceVars, runVars, historyVars, StopRun
  <2>1. ASSUME NEW h \in Head, NEW c \in Tcyml, Push(h, c) PROVE AnswersInv'
    BY <2>1 DEF Push, TypeOK
  <2>2. ASSUME NEW k \in Hook, Fire(k) PROVE AnswersInv'
    BY <2>2 DEF Fire
  <2>3. CASE NextDay
    BY <2>3 DEF NextDay
  <2>4. CASE StartRun
    BY <2>4 DEF StartRun
  <2>5. CASE Generate
    BY <2>5 DEF Generate, Generated
  <2>6. CASE GenerateRaises
    BY <2>6 DEF GenerateRaises
  <2>7. CASE NextDomain
    BY <2>7 DEF NextDomain
  <2>8. CASE FinishRun
    BY <2>8 DEF FinishRun
  <2>9. ASSUME NEW h \in Head, Answer(h) PROVE AnswersInv'
    BY <2>9 DEF Answer, TypeOK
  <2>10. ASSUME NEW h \in Head, AnswerNotFound(h) PROVE AnswersInv'
    BY <2>10 DEF AnswerNotFound
  <2>11. ASSUME NEW d \in TrustDomain, ListHooks(d) PROVE AnswersInv'
    BY <2>11 DEF ListHooks
  <2>12. ASSUME NEW k \in Hook, CheckStatus(k) PROVE AnswersInv'
    BY <2>12 DEF CheckStatus
  <2>13. ASSUME NEW k \in Hook, CreateHook(k) PROVE AnswersInv'
    BY <2>13 DEF CreateHook
  <2>14. ASSUME NEW k \in Hook, RemoveHook(k) PROVE AnswersInv'
    BY <2>14 DEF RemoveHook
  <2>15. CASE Crash
    BY <2>15 DEF Crash
  <2>16. CASE UNCHANGED vars
    BY <2>16 DEF vars
  <2>17. QED
    BY <2>1, <2>2, <2>3, <2>4, <2>5, <2>6, <2>7, <2>8, <2>9, <2>10, <2>11,
       <2>12, <2>13, <2>14, <2>15, <2>16 DEF Next, RunStep
<1>3. QED BY <1>1, <1>2, TypeCorrect, PTL DEF Spec

\* A deploy removes no hook that a branch still asks for, unless someone pushed
\* to that branch in the meantime.
THEOREM NoOutageHolds == Spec => NoOutage
<1> DEFINE Missed(k, h) == tcyml[h] = k.hash /\ Entitles(h, k.action) => h \in pushed
<1>1. TypeOK /\ AnswersInv /\ [Next]_vars
        => [\A k \in hooks \ hooks', h \in Head : Missed(k, h)]_vars
  <2> SUFFICES ASSUME TypeOK, AnswersInv, Next, NEW j \in hooks \ hooks', NEW h \in Head,
                      tcyml[h] = j.hash, Entitles(h, j.action), h \notin pushed
               PROVE  FALSE
    OBVIOUS
  <2>1. PICK k \in Hook : RemoveHook(k)
    BY DEF Next, RunStep, Push, Fire, NextDay, StartRun, Generate, GenerateRaises,
       NextDomain, FinishRun, Answer, AnswerNotFound, ListHooks, CheckStatus,
       CreateHook, Crash, serviceVars
  <2>2. j = k /\ phase = "apply" /\ j \notin resources BY <2>1 DEF RemoveHook
  <2>3. fetched[h] = j.hash BY <2>2 DEF AnswersInv
  <2>4. j \in Generated(fetched) BY <2>2, <2>3 DEF Generated, AnswersInv
  <2>5. QED BY <2>2, <2>4 DEF AnswersInv
<1>2. QED BY <1>1, AnswersInvariant, TypeCorrect, PTL DEF Spec, NoOutage
=============================================================================
