----------------------------- MODULE HgPush_proofs -----------------------------
(* Theorems about HgPush, for any number of pushes, attempts and faults.    *)
EXTENDS HgPush, TLAPS

(***************************************************************************)
(* What a run knows.  Its revision is the head of its message or None; once *)
(* it has push_info, the push exists, and for a message with one head the   *)
(* revision is the tip of that push.                                        *)
(***************************************************************************)
RunInv ==
  \A t \in Id :
    /\ tasks[t].rev \in {None, tasks[t].head}
    /\ tasks[t].phase \in {"push", "file"} /\ tasks[t].single
       => tasks[t].rev = tasks[t].head
    /\ tasks[t].phase = "file" =>
         /\ tasks[t].push \in Pushes
         /\ tasks[t].single => tasks[t].rev = Tip(tasks[t].push)

IInv == TypeOK /\ RunInv

LEMMA NoneIsNoChangeset == None \notin Changeset
BY DEF None, Changeset

LEMMA TipType ==
  ASSUME pushlog \in Seq(PushRecord), Len(pushlog) <= MaxPushes, NEW p \in Pushes
  PROVE  Tip(p) \in Changeset /\ Tip(p)[1] = p
<1>1. p \in 1 .. MaxPushes BY BoundsAssumption DEF Pushes
<1>2. pushlog[p] \in PushRecord BY DEF Pushes
<1>3. pushlog[p].size \in 1 .. MaxSize BY <1>2 DEF PushRecord
<1>4. QED BY <1>1, <1>3 DEF Tip, Changeset

LEMMA RunOfATask == ASSUME NEW r \in TaskRecord PROVE r.run \in Nat
<1>1. r.run \in 0 .. MaxFaults BY DEF TaskRecord
<1>2. QED BY <1>1

\* A change of task t's record alone, which keeps what IInv says of it.
LEMMA TaskChanges ==
  ASSUME IInv, NEW t \in Id, NEW r \in TaskRecord, tasks' = [tasks EXCEPT ![t] = r],
         UNCHANGED <<today, pushlog>>, faults <= faults', faults' \in 0 .. MaxFaults,
         r.head = tasks[t].head, r.single = tasks[t].single, r.run <= faults',
         r.phase \in {"pending", "push"} => r.tries < Attempts,
         r.rev \in {None, r.head},
         r.phase \in {"push", "file"} /\ r.single => r.rev = r.head,
         r.phase = "file" => /\ r.push \in Pushes
                             /\ r.single => r.rev = Tip(r.push),
         extra' \in 0 .. MaxExtra,
         lags' \in 0 .. MaxLag,
         decisions' \subseteq
           [by : Id, run : 0 .. MaxFaults, push : Pushes, file : Changeset]
  PROVE  IInv'
<1> USE DEF IInv, TypeOK
<1>1. tasks' \in Seq(TaskRecord) /\ Id' = Id BY DEF Id
<1>2. Pushes' = Pushes /\ \A p : Tip(p)' = Tip(p) BY DEF Pushes, Tip
<1>3. \A u \in Id : tasks'[u] = IF u = t THEN r ELSE tasks[u] BY DEF Id
<1>4. \A u \in Id : /\ tasks'[u].head = tasks[u].head
                    /\ tasks'[u].run <= faults'
                    /\ tasks'[u].phase \in {"pending", "push"}
                       => tasks'[u].tries < Attempts
  <2> SUFFICES ASSUME NEW u \in Id
               PROVE  /\ tasks'[u].head = tasks[u].head
                      /\ tasks'[u].run <= faults'
                      /\ tasks'[u].phase \in {"pending", "push"}
                         => tasks'[u].tries < Attempts
    OBVIOUS
  <2>1. CASE u = t BY <2>1, <1>3
  <2>2. CASE u # t
    <3>1. tasks'[u] = tasks[u] /\ tasks[u].run <= faults BY <2>2, <1>3
    <3>2. tasks[u] \in TaskRecord BY DEF Id
    <3>3. tasks[u].run \in Nat BY <3>2, RunOfATask
    <3>4. faults \in Nat /\ faults' \in Nat BY BoundsAssumption
    <3>5. QED BY <3>1, <3>3, <3>4
  <2>3. QED BY <2>1, <2>2
<1>5. TypeOK' BY <1>1, <1>2, <1>4
<1>6. RunInv' BY <1>1, <1>2, <1>3 DEF RunInv
<1>7. QED BY <1>5, <1>6

\* A message arrives: a task is added, for a changeset of a push there is.
LEMMA TaskAdded ==
  ASSUME IInv, NEW r \in Changeset, NEW single \in BOOLEAN, NEW replayed \in BOOLEAN,
         tasks' = Append(tasks, NewTask(r, single, replayed)),
         pushlog' \in Seq(PushRecord), Len(pushlog) <= Len(pushlog'),
         Len(pushlog') <= MaxPushes,
         \A p \in Pushes : pushlog'[p] = pushlog[p],
         r[1] \in 1 .. Len(pushlog'),
         UNCHANGED <<today, decisions, lags, faults>>,
         extra' \in 0 .. MaxExtra
  PROVE  IInv'
<1> DEFINE n == NewTask(r, single, replayed)
<1> USE DEF IInv, TypeOK
<1>1. n \in TaskRecord
  BY BoundsAssumption DEF NewTask, TaskRecord, Over
<1>2. /\ tasks' \in Seq(TaskRecord) /\ Len(tasks') = Len(tasks) + 1
      /\ tasks'[Len(tasks) + 1] = n
      /\ \A u \in Id : tasks'[u] = tasks[u]
  BY <1>1 DEF Id
<1>3. Id' = Id \cup {Len(tasks) + 1} /\ Id \subseteq Id' /\ Pushes \subseteq Pushes'
  BY <1>2 DEF Id, Pushes
<1>4. \A p \in Pushes : Tip(p)' = Tip(p) BY DEF Tip
<1>5. TypeOK'
  <2>1. \A u \in Id' : /\ tasks'[u].head[1] \in Pushes' /\ tasks'[u].run <= faults'
                       /\ tasks'[u].phase \in {"pending", "push"}
                          => tasks'[u].tries < Attempts
    <3> SUFFICES ASSUME NEW u \in Id'
                 PROVE  /\ tasks'[u].head[1] \in Pushes' /\ tasks'[u].run <= faults'
                        /\ tasks'[u].phase \in {"pending", "push"}
                           => tasks'[u].tries < Attempts
      OBVIOUS
    <3>1. CASE u = Len(tasks) + 1
      <4>1. tasks'[u] = n BY <3>1, <1>2
      <4>2. n.head[1] \in Pushes' /\ n.run = 0 /\ n.tries = 0 BY DEF NewTask, Pushes
      <4>3. 0 <= faults' /\ 0 < Attempts BY BoundsAssumption
      <4>4. QED BY <4>1, <4>2, <4>3
    <3>2. CASE u \in Id
      <4>1. tasks'[u] = tasks[u] BY <3>2, <1>2
      <4>2. tasks[u].head[1] \in Pushes' BY <3>2, <1>3
      <4>3. QED BY <3>2, <4>1, <4>2
    <3>3. QED BY <1>3, <3>1, <3>2
  <2>2. decisions' \subseteq
          [by : Id', run : 0 .. MaxFaults, push : Pushes', file : Changeset]
    BY <1>3
  <2>3. QED BY <1>2, <2>1, <2>2
<1>6. RunInv'
  <2> SUFFICES ASSUME NEW u \in Id' PROVE RunInv!(u)'
    BY DEF RunInv
  <2>1. CASE u = Len(tasks) + 1 BY <2>1, <1>2 DEF NewTask
  <2>2. CASE u \in Id BY <2>2, <1>2, <1>3, <1>4 DEF RunInv
  <2>3. QED BY <1>3, <2>1, <2>2
<1>7. QED BY <1>5, <1>6

LEMMA FieldsOfATask ==
  ASSUME IInv, NEW t \in Id
  PROVE  /\ tasks[t] \in TaskRecord /\ DOMAIN tasks = Id
         /\ tasks[t].head \in Changeset /\ tasks[t].head[1] \in Pushes
         /\ tasks[t].run \in Nat /\ tasks[t].run <= faults
         /\ tasks[t].tries \in Nat /\ tasks[t].rev \in {None, tasks[t].head}
<1>1. tasks[t] \in TaskRecord /\ DOMAIN tasks = Id BY DEF IInv, TypeOK, Id
<1>2. tasks[t].head \in Changeset /\ tasks[t].tries \in Nat
  BY <1>1, BoundsAssumption DEF TaskRecord
<1>3. tasks[t].run \in Nat BY <1>1, RunOfATask
<1>4. /\ tasks[t].head[1] \in Pushes /\ tasks[t].run <= faults
      /\ tasks[t].rev \in {None, tasks[t].head}
  BY DEF IInv, TypeOK, RunInv
<1>5. QED BY <1>1, <1>2, <1>3, <1>4

LEMMA InitOK == Init => IInv
<1> SUFFICES ASSUME Init PROVE IInv OBVIOUS
<1>1. TypeOK BY BoundsAssumption DEF Init, TypeOK, Id, Pushes
<1>2. RunInv BY DEF Init, RunInv, Id
<1>3. QED BY <1>1, <1>2 DEF IInv

LEMMA NextDayOK == IInv /\ NextDay => IInv'
<1> SUFFICES ASSUME IInv, NextDay PROVE IInv' OBVIOUS
<1>1. UNCHANGED <<pushlog, tasks, decisions, extra, lags, faults>>
  BY DEF NextDay, boundVars
<1>2. today' \in 0 .. MaxDays BY BoundsAssumption DEF NextDay, IInv, TypeOK
<1>3. TypeOK' BY <1>1, <1>2 DEF IInv, TypeOK, Id, Pushes
<1>4. RunInv' BY <1>1 DEF IInv, RunInv, Id, Pushes, Tip
<1>5. QED BY <1>3, <1>4 DEF IInv

LEMMA PushOK ==
  ASSUME IInv, NEW size \in 1 .. MaxSize, NEW k \in 1 .. MaxSize, NEW heads \in {1, 2},
         Push(size, heads, k)
  PROVE  IInv'
<1> DEFINE r == <<Len(pushlog) + 1, k>>
           e == [size |-> size, heads |-> heads, day |-> today]
<1>1. /\ pushlog \in Seq(PushRecord) /\ today \in 0 .. MaxDays
      /\ Len(pushlog) < MaxPushes /\ Len(pushlog) \in Nat
  BY DEF IInv, TypeOK, Push
<1>2. e \in PushRecord BY <1>1 DEF PushRecord
<1>3. r \in Changeset BY <1>1, BoundsAssumption DEF Changeset
<1>4. /\ pushlog' = Append(pushlog, e)
      /\ tasks' = Append(tasks, NewTask(r, heads = 1, FALSE))
      /\ UNCHANGED <<today, decisions, extra, lags, faults>>
  BY DEF Push, boundVars
<1>5. /\ pushlog' \in Seq(PushRecord) /\ Len(pushlog') = Len(pushlog) + 1
      /\ \A p \in Pushes : pushlog'[p] = pushlog[p]
  BY <1>1, <1>2, <1>4 DEF Pushes
<1>6. /\ Len(pushlog) <= Len(pushlog') /\ Len(pushlog') <= MaxPushes
      /\ r[1] \in 1 .. Len(pushlog')
  BY <1>1, <1>5, BoundsAssumption
<1>7. extra' \in 0 .. MaxExtra
  BY <1>4 DEF IInv, TypeOK
<1>8. (heads = 1) \in BOOLEAN /\ FALSE \in BOOLEAN OBVIOUS
<1> HIDE DEF r
<1>9. QED BY <1>3, <1>4, <1>5, <1>6, <1>7, <1>8, TaskAdded

LEMMA RedeliverOK == ASSUME IInv, NEW t \in Id, Redeliver(t) PROVE IInv'
<1>1. /\ tasks' = Append(tasks, NewTask(tasks[t].head, tasks[t].single, FALSE))
      /\ UNCHANGED <<today, pushlog, decisions, lags, faults>>
      /\ extra < MaxExtra /\ extra' = extra + 1
  BY DEF Redeliver
<1>2. tasks[t].single \in BOOLEAN BY FieldsOfATask DEF TaskRecord
<1>3. /\ pushlog' \in Seq(PushRecord) /\ Len(pushlog) <= Len(pushlog')
      /\ Len(pushlog') <= MaxPushes
      /\ \A p \in Pushes : pushlog'[p] = pushlog[p]
      /\ tasks[t].head[1] \in 1 .. Len(pushlog')
  BY <1>1, FieldsOfATask DEF IInv, TypeOK, Pushes
<1>4. extra' \in 0 .. MaxExtra
  BY <1>1, BoundsAssumption DEF IInv, TypeOK
<1>5. tasks[t].head \in Changeset /\ FALSE \in BOOLEAN BY FieldsOfATask
<1>6. QED BY <1>1, <1>2, <1>3, <1>4, <1>5, TaskAdded

LEMMA ReplayOK == ASSUME IInv, NEW r \in Changeset, Replay(r) PROVE IInv'
<1>1. /\ tasks' = Append(tasks, NewTask(r, TRUE, TRUE)) /\ r[1] \in Pushes
      /\ UNCHANGED <<today, pushlog, decisions, lags, faults>>
      /\ extra < MaxExtra /\ extra' = extra + 1
  BY DEF Replay
<1>2. /\ pushlog' \in Seq(PushRecord) /\ Len(pushlog) <= Len(pushlog')
      /\ Len(pushlog') <= MaxPushes
      /\ \A p \in Pushes : pushlog'[p] = pushlog[p]
      /\ r[1] \in 1 .. Len(pushlog')
  BY <1>1 DEF IInv, TypeOK, Pushes
<1>3. extra' \in 0 .. MaxExtra
  BY <1>1, BoundsAssumption DEF IInv, TypeOK
<1>4. TRUE \in BOOLEAN OBVIOUS
<1>5. QED BY <1>1, <1>2, <1>3, <1>4, TaskAdded

LEMMA CountersType ==
  ASSUME IInv
  PROVE  /\ extra \in 0 .. MaxExtra
         /\ lags \in 0 .. MaxLag /\ faults \in 0 .. MaxFaults /\ faults <= faults
         /\ decisions \subseteq
              [by : Id, run : 0 .. MaxFaults, push : Pushes, file : Changeset]
BY BoundsAssumption DEF IInv, TypeOK

LEMMA StartOK == ASSUME IInv, NEW t \in Id, Start(t) PROVE IInv'
<1> DEFINE r == [tasks[t] EXCEPT !.phase = "push", !.rev = RevisionFromPulseMessage(t)]
<1>1. tasks[t] \in TaskRecord /\ tasks[t].head \in Changeset BY FieldsOfATask
<1>2. RevisionFromPulseMessage(t) \in {None, tasks[t].head}
  BY DEF RevisionFromPulseMessage
<1>3. r \in TaskRecord BY <1>1, <1>2 DEF TaskRecord
<1>4. tasks' = [tasks EXCEPT ![t] = r]
  BY <1>1 DEF Start
<1>5. UNCHANGED <<today, pushlog, decisions, extra, lags, faults>>
  BY DEF Start, boundVars
<1>6. /\ r.head = tasks[t].head /\ r.single = tasks[t].single /\ r.run = tasks[t].run
      /\ r.phase = "push" /\ r.tries = tasks[t].tries
      /\ r.rev = RevisionFromPulseMessage(t)
  BY <1>1 DEF TaskRecord
<1>7. tasks[t].tries < Attempts BY DEF Start, IInv, TypeOK
<1>8. r.single => r.rev = r.head BY <1>6 DEF RevisionFromPulseMessage
<1> HIDE DEF r
<1>9. QED BY <1>2, <1>3, <1>4, <1>5, <1>6, <1>7, <1>8, FieldsOfATask, CountersType, TaskChanges

LEMMA NoPushesOK ==
  ASSUME IInv, NEW t \in Id, tasks[t].phase = "push", NoPushes(t),
         UNCHANGED <<today, pushlog, decisions, extra, faults>>
  PROVE  IInv'
<1> DEFINE q == IF tasks[t].tries + 1 < Attempts THEN "push" ELSE "failed"
           r == [tasks[t] EXCEPT !.tries = tasks[t].tries + 1, !.phase = q]
<1>1. /\ tasks[t] \in TaskRecord /\ tasks[t].tries \in Nat
      /\ tasks[t].rev \in {None, tasks[t].head}
  BY FieldsOfATask
<1>2. tasks[t].tries < Attempts BY DEF IInv, TypeOK
<1>3. /\ tasks[t].tries + 1 \in 0 .. Attempts
      /\ q \in {"push", "failed"} /\ (q = "push" => tasks[t].tries + 1 < Attempts)
  BY <1>1, <1>2, BoundsAssumption
<1> HIDE DEF q
<1>4. r \in TaskRecord BY <1>1, <1>3 DEF TaskRecord, Over
<1>5. tasks' = [tasks EXCEPT ![t] = r] BY <1>1 DEF NoPushes, q
<1>6. /\ r.head = tasks[t].head /\ r.single = tasks[t].single /\ r.run = tasks[t].run
      /\ r.phase = q /\ r.tries = tasks[t].tries + 1 /\ r.rev = tasks[t].rev
  BY <1>1 DEF TaskRecord
<1>7. tasks[t].single => tasks[t].rev = tasks[t].head BY DEF IInv, RunInv
<1>8. lags' \in 0 .. MaxLag BY BoundsAssumption DEF NoPushes, IInv, TypeOK
<1>9. q # "file" BY <1>3
<1> HIDE DEF r
<1>10. QED
  BY <1>1, <1>3, <1>4, <1>5, <1>6, <1>7, <1>8, <1>9, FieldsOfATask, CountersType, TaskChanges

\* The push asked for exists, and if the answer is not an error its tip is the
\* revision, when there is one.
LEMMA PushAskedType ==
  ASSUME IInv, NEW t \in Id
  PROVE  /\ PushAsked(t) \in Pushes
         /\ IsTip(t) /\ tasks[t].rev # None => tasks[t].rev = Tip(PushAsked(t))
<1>1. /\ tasks[t].head[1] \in Pushes /\ tasks[t].rev \in {None, tasks[t].head}
  BY FieldsOfATask
<1>2. Len(pushlog) \in Pushes BY <1>1 DEF Pushes, IInv, TypeOK
<1>3. QED BY <1>1, <1>2 DEF PushAsked, IsTip

LEMMA PushInfoOK ==
  ASSUME IInv, NEW t \in Id, tasks[t].phase = "push",
         tasks' = [tasks EXCEPT
             ![t].push = PushAsked(t),
             ![t].phase = IF ~IsTip(t) THEN "failed"
                          ELSE IF TooOld(PushAsked(t)) THEN "old" ELSE "file"],
         UNCHANGED <<today, pushlog, decisions, extra, lags, faults>>
  PROVE  IInv'
<1> DEFINE q == IF ~IsTip(t) THEN "failed"
                ELSE IF TooOld(PushAsked(t)) THEN "old" ELSE "file"
           r == [tasks[t] EXCEPT !.push = PushAsked(t), !.phase = q]
<1>1. /\ tasks[t] \in TaskRecord /\ tasks[t].head \in Changeset
      /\ tasks[t].rev \in {None, tasks[t].head}
      /\ PushAsked(t) \in Pushes
  BY FieldsOfATask, PushAskedType
<1>0. PushAsked(t) \in 0 .. MaxPushes
  BY <1>1, BoundsAssumption DEF Pushes, IInv, TypeOK
<1>2. q \in {"failed", "old", "file"} /\ (q = "file" => IsTip(t)) OBVIOUS
<1>3. tasks' = [tasks EXCEPT ![t] = r] BY <1>1
<1> HIDE DEF q
<1>4. r \in TaskRecord BY <1>0, <1>1, <1>2 DEF TaskRecord, Over
<1>5. /\ r.head = tasks[t].head /\ r.single = tasks[t].single /\ r.run = tasks[t].run
      /\ r.phase = q /\ r.push = PushAsked(t) /\ r.rev = tasks[t].rev
  BY <1>1 DEF TaskRecord
<1> HIDE DEF r
<1>6. tasks[t].single => tasks[t].rev = tasks[t].head BY DEF IInv, RunInv
<1>7. q = "file" /\ tasks[t].single => r.rev = Tip(r.push)
  BY <1>1, <1>2, <1>5, <1>6, PushAskedType, NoneIsNoChangeset
<1>8. /\ r.phase \notin {"pending", "push"} /\ r.rev \in {None, r.head}
      /\ r.push \in Pushes /\ (r.phase = "file" /\ r.single => r.rev = Tip(r.push))
  BY <1>1, <1>2, <1>5, <1>7
<1>9. /\ r.run <= faults' /\ faults <= faults' /\ faults' \in 0 .. MaxFaults
      /\ extra' \in 0 .. MaxExtra
      /\ lags' \in 0 .. MaxLag
      /\ decisions' \subseteq
           [by : Id, run : 0 .. MaxFaults, push : Pushes, file : Changeset]
  BY <1>5, FieldsOfATask, CountersType
<1>10. r.phase \in {"push", "file"} /\ r.single => r.rev = r.head
  BY <1>5, <1>6
<1>11. QED BY <1>3, <1>4, <1>5, <1>8, <1>9, <1>10, TaskChanges

LEMMA GetPushInfoOK == ASSUME IInv, NEW t \in Id, GetPushInfo(t) PROVE IInv'
BY NoPushesOK, PushInfoOK DEF GetPushInfo

LEMMA FileReadType ==
  ASSUME IInv, NEW t \in Id, tasks[t].phase = "file"
  PROVE  /\ FileRead(t) \in Changeset /\ tasks[t].push \in Pushes
         /\ tasks[t].single => FileRead(t) = tasks[t].head /\ FileRead(t) = Tip(tasks[t].push)
<1>1. /\ tasks[t].head \in Changeset /\ tasks[t].head[1] \in Pushes
      /\ tasks[t].rev \in {None, tasks[t].head}
  BY FieldsOfATask
<1>2. Len(pushlog) \in Pushes BY <1>1 DEF Pushes, IInv, TypeOK
<1>3. Tip(Len(pushlog)) \in Changeset BY <1>2, TipType DEF IInv, TypeOK
<1>4. /\ tasks[t].push \in Pushes
      /\ tasks[t].single => tasks[t].rev = tasks[t].head /\ tasks[t].rev = Tip(tasks[t].push)
  BY DEF IInv, RunInv
<1>5. QED BY <1>1, <1>3, <1>4, NoneIsNoChangeset DEF FileRead

LEMMA SubmitOK == ASSUME IInv, NEW t \in Id, Submit(t) PROVE IInv'
<1> DEFINE r == [tasks[t] EXCEPT !.phase = "done"]
           d == [by |-> t, run |-> tasks[t].run, push |-> tasks[t].push,
                 file |-> FileRead(t)]
<1>1. tasks[t].phase = "file" /\ tasks[t] \in TaskRecord BY FieldsOfATask DEF Submit
<1>2. FileRead(t) \in Changeset /\ tasks[t].push \in Pushes BY <1>1, FileReadType
<1>3. tasks[t].run \in 0 .. MaxFaults BY <1>1 DEF TaskRecord
<1>4. d \in [by : Id, run : 0 .. MaxFaults, push : Pushes, file : Changeset]
  BY <1>2, <1>3
<1>5. /\ decisions' = decisions \cup {d} /\ tasks' = [tasks EXCEPT ![t] = r]
      /\ UNCHANGED <<today, pushlog, extra, lags, faults>>
  BY <1>1 DEF Submit, boundVars
<1>6. r \in TaskRecord BY <1>1 DEF TaskRecord, Over
<1>7. /\ r.head = tasks[t].head /\ r.single = tasks[t].single /\ r.run = tasks[t].run
      /\ r.phase = "done" /\ r.rev = tasks[t].rev
  BY <1>1 DEF TaskRecord
<1> HIDE DEF d, r
<1>8. decisions' \subseteq
        [by : Id, run : 0 .. MaxFaults, push : Pushes, file : Changeset]
  BY <1>4, <1>5, CountersType
<1>9. QED BY <1>5, <1>6, <1>7, <1>8, FieldsOfATask, CountersType, TaskChanges

LEMMA FailOK == ASSUME IInv, NEW t \in Id, Fail(t) PROVE IInv'
<1> DEFINE r == [tasks[t] EXCEPT !.phase = "failed"]
<1>1. /\ tasks[t] \in TaskRecord /\ tasks[t].run \in Nat /\ tasks[t].run <= faults
      /\ faults \in 0 .. MaxFaults
  BY FieldsOfATask, CountersType
<1>2. /\ tasks' = [tasks EXCEPT ![t] = r] /\ faults < MaxFaults /\ faults' = faults + 1
      /\ UNCHANGED <<today, pushlog, decisions, extra, lags>>
  BY <1>1 DEF Fail
<1>3. r \in TaskRecord BY <1>1 DEF TaskRecord, Over
<1>4. /\ r.head = tasks[t].head /\ r.single = tasks[t].single /\ r.run = tasks[t].run
      /\ r.phase = "failed" /\ r.rev = tasks[t].rev
  BY <1>1 DEF TaskRecord
<1> HIDE DEF r
<1>5. faults <= faults' /\ faults' \in 0 .. MaxFaults /\ r.run <= faults'
  BY <1>1, <1>2, <1>4, BoundsAssumption
<1>6. QED BY <1>2, <1>3, <1>4, <1>5, FieldsOfATask, CountersType, TaskChanges

LEMMA WorkerDiesOK == ASSUME IInv, NEW t \in Id, WorkerDies(t) PROVE IInv'
<1> DEFINE r == [NewTask(tasks[t].head, tasks[t].single, tasks[t].replayed)
                  EXCEPT !.run = tasks[t].run + 1]
<1>1. /\ tasks[t] \in TaskRecord /\ tasks[t].run \in Nat /\ tasks[t].run <= faults
      /\ faults \in 0 .. MaxFaults
  BY FieldsOfATask, CountersType
<1>2. /\ tasks' = [tasks EXCEPT ![t] = r] /\ faults < MaxFaults /\ faults' = faults + 1
      /\ UNCHANGED <<today, pushlog, decisions, extra, lags>>
  BY DEF WorkerDies
<1>3. tasks[t].run + 1 \in 0 .. MaxFaults /\ 0 \in 0 .. Attempts /\ 0 \in 0 .. MaxPushes
  BY <1>1, <1>2, BoundsAssumption
<1>4. r \in TaskRecord BY <1>1, <1>3 DEF TaskRecord, NewTask
<1>5. /\ r.head = tasks[t].head /\ r.single = tasks[t].single
      /\ r.run = tasks[t].run + 1 /\ r.phase = "pending" /\ r.tries = 0 /\ r.rev = None
  BY DEF NewTask
<1> HIDE DEF r
<1>6. /\ faults <= faults' /\ faults' \in 0 .. MaxFaults /\ r.run <= faults'
      /\ r.tries < Attempts
  BY <1>1, <1>2, <1>5, BoundsAssumption
<1>7. QED BY <1>2, <1>4, <1>5, <1>6, FieldsOfATask, CountersType, TaskChanges

LEMMA StepOK == IInv /\ [Next]_vars => IInv'
<1> SUFFICES ASSUME IInv, [Next]_vars PROVE IInv' OBVIOUS
<1>1. CASE NextDay BY <1>1, NextDayOK
<1>2. CASE \E size, k \in 1 .. MaxSize, heads \in {1, 2} : Push(size, heads, k)
  BY <1>2, PushOK
<1>3. CASE \E r \in Changeset : Replay(r) BY <1>3, ReplayOK
<1>4. CASE \E t \in Id : Redeliver(t) \/ TaskStep(t) \/ Fail(t) \/ WorkerDies(t)
  BY <1>4, RedeliverOK, StartOK, GetPushInfoOK, SubmitOK, FailOK, WorkerDiesOK
     DEF TaskStep
<1>5. CASE UNCHANGED vars
  BY <1>5 DEF vars, IInv, TypeOK, RunInv, Id, Pushes, Tip
<1>6. QED BY <1>1, <1>2, <1>3, <1>4, <1>5 DEF Next

LEMMA RunInvariant == Spec => []IInv
BY InitOK, StepOK, PTL DEF Spec

\* TypeOK: every number stays within its bound and every decision task names a
\* push there is, however pushes, deliveries, replays and reruns interleave.
THEOREM TypeCorrect == Spec => []TypeOK
BY RunInvariant, PTL DEF IInv

(***************************************************************************)
(* DecisionsOfTheHead.  It is kept by every step because the message of a   *)
(* task and the tip of a push never change (Stable), and a decision task is *)
(* created from a run of which RunInv holds.                                *)
(***************************************************************************)
Stable ==
  /\ Id \subseteq Id' /\ Pushes \subseteq Pushes'
  /\ \A t \in Id : tasks'[t].head = tasks[t].head /\ tasks'[t].single = tasks[t].single
  /\ \A p \in Pushes : Tip(p)' = Tip(p)

LEMMA GrowthIsStable ==
  ASSUME IInv, NEW r, NEW single, NEW replayed,
         tasks' = Append(tasks, NewTask(r, single, replayed)),
         Len(pushlog') \in Nat, Len(pushlog) <= Len(pushlog'),
         \A p \in Pushes : pushlog'[p] = pushlog[p]
  PROVE  Stable
<1>1. tasks \in Seq(TaskRecord) /\ pushlog \in Seq(PushRecord) BY DEF IInv, TypeOK
<1>2. Len(tasks') = Len(tasks) + 1 /\ \A t \in Id : tasks'[t] = tasks[t]
  BY <1>1 DEF Id
<1>3. Id \subseteq Id' /\ Pushes \subseteq Pushes' BY <1>1, <1>2 DEF Id, Pushes
<1>4. QED BY <1>2, <1>3 DEF Stable, Tip

LEMMA ChangeIsStable ==
  ASSUME IInv, NEW t \in Id, NEW r, tasks' = [tasks EXCEPT ![t] = r], pushlog' = pushlog,
         r.head = tasks[t].head, r.single = tasks[t].single
  PROVE  Stable
<1>1. tasks \in Seq(TaskRecord) BY DEF IInv, TypeOK
<1>2. Id' = Id /\ Pushes' = Pushes BY <1>1 DEF Id, Pushes
<1>3. \A u \in Id : tasks'[u] = IF u = t THEN r ELSE tasks[u] BY <1>1 DEF Id
<1>4. QED BY <1>2, <1>3 DEF Stable, Tip

\* Every step leaves the messages and the tips alone; only Submit adds a
\* decision task, the one of RunInv.
LEMMA StepIsStable ==
  ASSUME IInv, [Next]_vars
  PROVE  /\ Stable
         /\ \/ decisions' = decisions
            \/ \E t \in Id : Submit(t)
<1>0. \A t \in Id : /\ tasks[t] \in TaskRecord
                     /\ DOMAIN tasks = Id
  BY FieldsOfATask
<1>1. CASE NextDay
  BY <1>1 DEF NextDay, Stable, Id, Pushes, Tip, boundVars
<1>2. CASE \E size, k \in 1 .. MaxSize, heads \in {1, 2} : Push(size, heads, k)
  <2> PICK size \in 1 .. MaxSize, k \in 1 .. MaxSize, heads \in {1, 2} :
        Push(size, heads, k)
    BY <1>2
  <2> DEFINE e == [size |-> size, heads |-> heads, day |-> today]
  <2>1. pushlog \in Seq(PushRecord) /\ today \in 0 .. MaxDays BY DEF IInv, TypeOK
  <2>2. e \in PushRecord BY <2>1 DEF PushRecord
  <2>3. pushlog' = Append(pushlog, e) BY DEF Push
  <2>4. Len(pushlog') = Len(pushlog) + 1 /\ \A p \in Pushes : pushlog'[p] = pushlog[p]
    BY <2>1, <2>2, <2>3 DEF Pushes
  <2>5. Len(pushlog') \in Nat /\ Len(pushlog) <= Len(pushlog') BY <2>1, <2>4
  <2>6. tasks' = Append(tasks, NewTask(<<Len(pushlog) + 1, k>>, heads = 1, FALSE))
    BY DEF Push
  <2>7. Stable BY <2>4, <2>5, <2>6, GrowthIsStable
  <2>8. decisions' = decisions BY DEF Push
  <2>9. QED BY <2>7, <2>8
<1>3. CASE \E r \in Changeset : Replay(r)
  <2>1. Len(pushlog) \in Nat BY DEF IInv, TypeOK
  <2>2. PICK r \in Changeset : Replay(r) BY <1>3
  <2>3. /\ tasks' = Append(tasks, NewTask(r, TRUE, TRUE))
        /\ pushlog' = pushlog /\ decisions' = decisions
    BY <2>2 DEF Replay
  <2>4. /\ Len(pushlog') \in Nat /\ Len(pushlog) <= Len(pushlog')
        /\ \A p \in Pushes : pushlog'[p] = pushlog[p]
    BY <2>1, <2>3
  <2>5. Stable BY <2>3, <2>4, GrowthIsStable
  <2>6. QED BY <2>3, <2>5
<1>4. CASE \E t \in Id : Redeliver(t)
  <2>1. Len(pushlog) \in Nat BY DEF IInv, TypeOK
  <2>2. PICK t \in Id : Redeliver(t) BY <1>4
  <2>3. /\ tasks' = Append(tasks, NewTask(tasks[t].head, tasks[t].single, FALSE))
        /\ pushlog' = pushlog /\ decisions' = decisions
    BY <2>2 DEF Redeliver
  <2>4. /\ Len(pushlog') \in Nat /\ Len(pushlog) <= Len(pushlog')
        /\ \A p \in Pushes : pushlog'[p] = pushlog[p]
    BY <2>1, <2>3
  <2>5. Stable BY <2>3, <2>4, GrowthIsStable
  <2>6. QED BY <2>3, <2>5
<1>5. ASSUME NEW t \in Id, TaskStep(t) \/ Fail(t) \/ WorkerDies(t)
      PROVE  /\ Stable
             /\ decisions' = decisions \/ \E u \in Id : Submit(u)
  <2>1. \E r : /\ tasks' = [tasks EXCEPT ![t] = r]
               /\ r.head = tasks[t].head /\ r.single = tasks[t].single
    <3>0. tasks[t] \in TaskRecord /\ DOMAIN tasks = Id BY <1>0
    <3>1. CASE Start(t)
      <4> DEFINE r == [tasks[t] EXCEPT !.phase = "push",
                                       !.rev = RevisionFromPulseMessage(t)]
      <4>1. tasks' = [tasks EXCEPT ![t] = r] BY <3>0, <3>1 DEF Start
      <4>2. r.head = tasks[t].head /\ r.single = tasks[t].single BY <3>0 DEF TaskRecord
      <4>3. QED BY <4>1, <4>2
    <3>2. CASE GetPushInfo(t)
      <4>1. CASE NoPushes(t)
        <5> DEFINE r == [tasks[t] EXCEPT !.tries = tasks[t].tries + 1,
              !.phase = IF tasks[t].tries + 1 < Attempts THEN "push" ELSE "failed"]
        <5>1. tasks' = [tasks EXCEPT ![t] = r] BY <3>0, <4>1 DEF NoPushes
        <5>2. r.head = tasks[t].head /\ r.single = tasks[t].single BY <3>0 DEF TaskRecord
        <5>3. QED BY <5>1, <5>2
      <4>2. CASE ~NoPushes(t)
        <5> DEFINE r == [tasks[t] EXCEPT !.push = PushAsked(t),
              !.phase = IF ~IsTip(t) THEN "failed"
                        ELSE IF TooOld(PushAsked(t)) THEN "old" ELSE "file"]
        <5>1. tasks' = [tasks EXCEPT ![t] = r] BY <3>0, <3>2, <4>2 DEF GetPushInfo
        <5>2. r.head = tasks[t].head /\ r.single = tasks[t].single BY <3>0 DEF TaskRecord
        <5>3. QED BY <5>1, <5>2
      <4>3. QED BY <4>1, <4>2
    <3>3. CASE Submit(t) \/ Fail(t)
      <4>1. \E q \in {"done", "failed"} : tasks' = [tasks EXCEPT ![t].phase = q]
        BY <3>3 DEF Submit, Fail
      <4>2. PICK q \in {"done", "failed"} : tasks' = [tasks EXCEPT ![t].phase = q]
        BY <4>1
      <4> DEFINE r == [tasks[t] EXCEPT !.phase = q]
      <4>3. tasks' = [tasks EXCEPT ![t] = r] BY <3>0, <4>2
      <4>4. r.head = tasks[t].head /\ r.single = tasks[t].single BY <3>0 DEF TaskRecord
      <4>5. QED BY <4>3, <4>4
    <3>4. CASE WorkerDies(t)
      <4> DEFINE r == [NewTask(tasks[t].head, tasks[t].single, tasks[t].replayed)
                         EXCEPT !.run = tasks[t].run + 1]
      <4>1. tasks' = [tasks EXCEPT ![t] = r] BY <3>4 DEF WorkerDies
      <4>2. r.head = tasks[t].head /\ r.single = tasks[t].single BY DEF NewTask
      <4>3. QED BY <4>1, <4>2
    <3>5. QED BY <1>5, <3>1, <3>2, <3>3, <3>4 DEF TaskStep
  <2>2. pushlog' = pushlog
    BY <1>5 DEF TaskStep, Start, GetPushInfo, Submit, Fail, WorkerDies
  <2>3. decisions' = decisions \/ Submit(t)
    BY <1>5 DEF TaskStep, Start, GetPushInfo, Fail, WorkerDies
  <2>4. QED BY <2>1, <2>2, <2>3, ChangeIsStable
<1>6. CASE UNCHANGED vars
  BY <1>6 DEF vars, Stable, Id, Pushes, Tip
<1>7. QED BY <1>1, <1>2, <1>3, <1>4, <1>5, <1>6 DEF Next

\* DecisionsOfTheHead: the push info, .taskcluster.yml and the index route of a
\* decision task whose message has one head speak of that one changeset.
THEOREM DecisionsHold == Spec => []DecisionsOfTheHead
<1>1. Init => DecisionsOfTheHead BY DEF Init, DecisionsOfTheHead
<1>2. IInv /\ DecisionsOfTheHead /\ [Next]_vars => DecisionsOfTheHead'
  <2> SUFFICES ASSUME IInv, DecisionsOfTheHead, [Next]_vars,
                      NEW d \in decisions', tasks'[d.by].single
               PROVE  d.file = tasks'[d.by].head /\ d.file = Tip(d.push)'
    BY DEF DecisionsOfTheHead
  <2>1. Stable /\ (decisions' = decisions \/ \E t \in Id : Submit(t)) BY StepIsStable
  <2>2. CASE d \in decisions
    <3>1. d.by \in Id /\ d.push \in Pushes BY <2>2, CountersType
    <3>2. QED BY <2>1, <2>2, <3>1 DEF Stable, DecisionsOfTheHead
  <2>3. CASE d \notin decisions
    <3>1. PICK t \in Id : Submit(t) BY <2>1, <2>3
    <3>2. d.by = t /\ d.push = tasks[t].push /\ d.file = FileRead(t)
      BY <2>3, <3>1 DEF Submit
    <3>3. tasks[t].phase = "file" BY <3>1 DEF Submit
    <3>4. QED BY <2>1, <3>2, <3>3, FileReadType DEF Stable
  <2>4. QED BY <2>2, <2>3
<1>3. QED BY <1>1, <1>2, RunInvariant, PTL DEF Spec

(***************************************************************************)
(* NoPushLost, when the pushlog lags less than get_push_info waits.  Every  *)
(* query that fails is one the pushlog lagged (TriesInv), so the attempts   *)
(* never run out; and a task that has the tip of a push for its head asks   *)
(* for that push and is not refused.                                        *)
(***************************************************************************)
TriesInv == \A t \in Id : tasks[t].tries <= lags

Decided(p) == \E d \in decisions : d.push = p /\ d.file = Tip(p)

\* What every step leaves alone or lets grow.
Grows ==
  /\ \A p \in Pushes : pushlog'[p] = pushlog[p]
  /\ decisions \subseteq decisions'
  /\ today' \in Nat /\ today <= today' /\ faults' \in Nat /\ faults <= faults'
  /\ lags' \in Nat /\ lags <= lags'

LEMMA StepGrows == ASSUME IInv, [Next]_vars PROVE Grows
<1>0. /\ pushlog \in Seq(PushRecord) /\ today \in Nat /\ faults \in Nat /\ lags \in Nat
  BY BoundsAssumption DEF IInv, TypeOK
<1>1. CASE NextDay BY <1>0, <1>1 DEF NextDay, Grows, boundVars
<1>2. CASE \E size, k \in 1 .. MaxSize, heads \in {1, 2} : Push(size, heads, k)
  BY <1>0, <1>2 DEF Push, Grows, boundVars, Pushes
<1>3. CASE \E r \in Changeset : Replay(r)
  BY <1>0, <1>3 DEF Replay, Grows
<1>4. ASSUME NEW t \in Id, Redeliver(t) \/ TaskStep(t) \/ Fail(t) \/ WorkerDies(t)
      PROVE  Grows
  <2>1. CASE Redeliver(t) BY <1>0, <2>1 DEF Redeliver, Grows
  <2>0. CASE Fail(t) \/ WorkerDies(t)
    <3>1. /\ UNCHANGED <<today, pushlog, decisions, lags>> /\ faults' = faults + 1
      BY <2>0 DEF Fail, WorkerDies
    <3>2. QED BY <1>0, <3>1 DEF Grows
  <2>2. CASE Start(t) \/ Submit(t)
    BY <1>0, <2>2 DEF Start, Submit, boundVars, Grows
  <2>3. CASE GetPushInfo(t)
    BY <1>0, <2>3 DEF GetPushInfo, NoPushes, Grows
  <2>4. QED BY <1>4, <2>0, <2>1, <2>2, <2>3 DEF TaskStep
<1>5. CASE UNCHANGED vars BY <1>0, <1>5 DEF vars, Grows
<1>6. QED BY <1>1, <1>2, <1>3, <1>4, <1>5 DEF Next

\* A new task's record, and the others'.
LEMMA AppendedTask ==
  ASSUME IInv, NEW r, NEW single, NEW replayed,
         tasks' = Append(tasks, NewTask(r, single, replayed))
  PROVE  /\ Id' = Id \cup {Len(tasks) + 1}
         /\ tasks'[Len(tasks) + 1] = NewTask(r, single, replayed)
         /\ \A t \in Id : tasks'[t] = tasks[t]
<1>1. tasks \in Seq(TaskRecord) BY DEF IInv, TypeOK
<1>2. QED BY <1>1 DEF Id

LEMMA OneTaskChanges ==
  ASSUME IInv, NEW t \in Id, TaskStep(t) \/ Fail(t) \/ WorkerDies(t)
  PROVE  Id' = Id /\ \A u \in Id \ {t} : tasks'[u] = tasks[u]
<1>1. tasks \in Seq(TaskRecord) BY DEF IInv, TypeOK
<1>2. Len(tasks') = Len(tasks) /\ \A u \in Id \ {t} : tasks'[u] = tasks[u]
  <2>1. CASE Start(t) \/ Submit(t) \/ Fail(t) \/ WorkerDies(t)
    BY <1>1, <2>1 DEF Start, Submit, Fail, WorkerDies, Id
  <2>2. CASE GetPushInfo(t)
    BY <1>1, <2>2 DEF GetPushInfo, NoPushes, Id
  <2>3. QED BY <2>1, <2>2 DEF TaskStep
<1>3. QED BY <1>2 DEF Id

LEMMA TriesStep == ASSUME IInv, TriesInv, [Next]_vars PROVE TriesInv'
<1>1. Grows BY StepGrows
<1>2. \A u \in Id : tasks[u].tries \in Nat /\ tasks[u].tries <= lags /\ lags \in Nat
  BY FieldsOfATask, BoundsAssumption DEF TriesInv, IInv, TypeOK
<1>3. \A u \in Id : tasks[u].tries <= lags'
  BY <1>1, <1>2 DEF Grows
<1>4. ASSUME NEW r, NEW single, NEW replayed,
             tasks' = Append(tasks, NewTask(r, single, replayed))
      PROVE  TriesInv'
  <2>1. NewTask(r, single, replayed).tries = 0 BY DEF NewTask
  <2>2. 0 <= lags' BY <1>1 DEF Grows
  <2>3. /\ Id' = Id \cup {Len(tasks) + 1}
        /\ tasks'[Len(tasks) + 1] = NewTask(r, single, replayed)
        /\ \A u \in Id : tasks'[u] = tasks[u]
    BY <1>4, AppendedTask
  <2>4. QED BY <1>3, <2>1, <2>2, <2>3 DEF TriesInv
<1>5. CASE NextDay \/ UNCHANGED vars
  BY <1>3, <1>5 DEF NextDay, vars, TriesInv, Id
<1>6. CASE \E size, k \in 1 .. MaxSize, heads \in {1, 2} : Push(size, heads, k)
  <2>1. PICK size \in 1 .. MaxSize, k \in 1 .. MaxSize, heads \in {1, 2} :
          Push(size, heads, k)
    BY <1>6
  <2>2. tasks' = Append(tasks, NewTask(<<Len(pushlog) + 1, k>>, heads = 1, FALSE))
    BY <2>1 DEF Push
  <2>3. QED BY <2>2, <1>4
<1>7. CASE \E r \in Changeset : Replay(r) BY <1>4, <1>7 DEF Replay
<1>8. CASE \E t \in Id : Redeliver(t) BY <1>4, <1>8 DEF Redeliver
<1>9. ASSUME NEW t \in Id, TaskStep(t) \/ Fail(t) \/ WorkerDies(t)
      PROVE  TriesInv'
  <2>1. Id' = Id /\ \A u \in Id \ {t} : tasks'[u] = tasks[u] BY <1>9, OneTaskChanges
  <2>2. tasks[t] \in TaskRecord /\ DOMAIN tasks = Id BY FieldsOfATask
  <2>3. tasks'[t].tries <= lags'
    <3>1. CASE Start(t) \/ Submit(t) \/ Fail(t)
      <4>1. tasks'[t].tries = tasks[t].tries
        BY <2>2, <3>1 DEF Start, Submit, Fail, TaskRecord
      <4>2. QED BY <4>1, <1>3
    <3>2. CASE WorkerDies(t)
      <4>1. tasks'[t].tries = 0 BY <2>2, <3>2 DEF WorkerDies, NewTask
      <4>2. QED BY <4>1, <1>1 DEF Grows
    <3>3. CASE GetPushInfo(t) /\ NoPushes(t)
      <4>1. tasks'[t].tries = tasks[t].tries + 1 /\ lags' = lags + 1
        BY <2>2, <3>3 DEF NoPushes, TaskRecord
      <4>2. QED BY <4>1, <1>2
    <3>4. CASE GetPushInfo(t) /\ ~NoPushes(t)
      <4>1. tasks'[t].tries = tasks[t].tries
        BY <2>2, <3>4 DEF GetPushInfo, TaskRecord
      <4>2. QED BY <4>1, <1>3
    <3>5. QED BY <1>9, <3>1, <3>2, <3>3, <3>4 DEF TaskStep
  <2>4. QED BY <1>3, <2>1, <2>3 DEF TriesInv
<1>10. QED BY <1>5, <1>6, <1>7, <1>8, <1>9 DEF Next

\* A task the step leaves alone still decides what it would have decided.
LEMMA OthersWillDecide ==
  ASSUME IInv, [Next]_vars, NEW u \in Id, NEW p \in Pushes, WillDecide(u, p),
         tasks'[u] = tasks[u]
  PROVE  WillDecide(u, p)'
<1>1. Grows /\ Stable BY StepGrows, StepIsStable
<1>2. TooOld(p) => TooOld(p)'
  <2>1. pushlog[p] \in PushRecord /\ today \in Nat
    BY BoundsAssumption DEF IInv, TypeOK, Pushes
  <2>2. pushlog[p].day \in Nat /\ MaxDrift \in Nat
    BY <2>1, BoundsAssumption DEF PushRecord
  <2>3. QED BY <1>1, <2>1, <2>2 DEF Grows, TooOld
<1>3. faults \in Nat /\ (faults > 0 => faults' > 0)
  BY <1>1, BoundsAssumption DEF Grows, IInv, TypeOK
<1>4. QED BY <1>1, <1>2, <1>3 DEF WillDecide, Stable

\* Whatever the task itself does next keeps the promise or fulfils it.
LEMMA StepWillDecide ==
  ASSUME MaxLag < Attempts, IInv, TriesInv, [Next]_vars, NEW t \in Id, NEW p \in Pushes,
         WillDecide(t, p), TaskStep(t) \/ Fail(t) \/ WorkerDies(t)
  PROVE  WillDecide(t, p)' \/ Decided(p)'
<1>1. Grows /\ Stable BY StepGrows, StepIsStable
<1>2. /\ tasks'[t].head = Tip(p)' /\ tasks'[t].single /\ tasks[t].single
      /\ tasks[t].head = Tip(p) /\ Tip(p)' = Tip(p)
  BY <1>1 DEF Stable, WillDecide
<1>3. tasks[t] \in TaskRecord /\ DOMAIN tasks = Id /\ tasks[t].tries \in Nat
  BY FieldsOfATask
<1>4. Tip(p) \in Changeset /\ Tip(p)[1] = p /\ Tip(p) # None
  BY TipType, NoneIsNoChangeset DEF IInv, TypeOK
<1>5. CASE Start(t) \/ WorkerDies(t)
  <2>1. tasks'[t].phase \in {"push", "pending"}
    <3>1. CASE Start(t) BY <1>3, <3>1 DEF Start
    <3>2. CASE WorkerDies(t) BY <1>3, <3>2 DEF WorkerDies, NewTask
    <3>3. QED BY <1>5, <3>1, <3>2
  <2>2. QED BY <1>2, <2>1 DEF WillDecide, Over
<1>6. CASE Fail(t)
  <2>1. tasks'[t].phase = "failed" /\ faults' = faults + 1 /\ faults \in Nat
    BY <1>3, <1>6, CountersType, BoundsAssumption DEF Fail
  <2>2. QED BY <1>2, <2>1 DEF WillDecide
<1>7. CASE GetPushInfo(t) /\ NoPushes(t)
  <2>1. tasks[t].tries <= lags /\ lags \in 0 .. MaxLag /\ lags < MaxLag
    BY <1>7, CountersType DEF TriesInv, NoPushes
  <2>2. tasks[t].tries + 1 < Attempts BY <1>3, <2>1, BoundsAssumption
  <2>3. tasks'[t].phase = "push" BY <1>3, <1>7, <2>2 DEF NoPushes
  <2>4. QED BY <1>2, <2>3 DEF WillDecide, Over
<1>8. CASE GetPushInfo(t) /\ ~NoPushes(t)
  <2>1. tasks[t].rev = Tip(p)
    <3>1. tasks[t].phase = "push" BY <1>8 DEF GetPushInfo
    <3>2. QED BY <1>2, <3>1 DEF IInv, RunInv
  <2>2. PushAsked(t) = p /\ IsTip(t) BY <1>4, <2>1 DEF PushAsked, IsTip
  <2> DEFINE q == IF TooOld(p) THEN "old" ELSE "file"
  <2>3. tasks'[t].phase = q
    <3>1. tasks' = [tasks EXCEPT ![t].push = p, ![t].phase = q]
      BY <1>8, <2>2 DEF GetPushInfo
    <3> HIDE DEF q
    <3>2. tasks' = [tasks EXCEPT ![t] = [tasks[t] EXCEPT !.push = p, !.phase = q]]
      BY <1>3, <3>1
    <3>3. [tasks[t] EXCEPT !.push = p, !.phase = q].phase = q BY <1>3 DEF TaskRecord
    <3>4. QED BY <1>3, <3>2, <3>3
  <2>4. TooOld(p) => TooOld(p)'
    BY <1>1, <1>8 DEF Grows, TooOld, GetPushInfo
  <2>5. QED BY <1>2, <2>3, <2>4 DEF WillDecide, Over
<1>9. CASE Submit(t)
  <2>1. tasks[t].phase = "file" BY <1>9 DEF Submit
  <2>2. FileRead(t) = Tip(p) /\ tasks[t].push \in Pushes /\ Tip(tasks[t].push) = Tip(p)
    BY <1>2, <2>1, FileReadType
  <2>3. Tip(tasks[t].push)[1] = tasks[t].push BY <2>2, TipType DEF IInv, TypeOK
  <2>4. tasks[t].push = p BY <1>4, <2>2, <2>3
  <2> DEFINE d == [by |-> t, run |-> tasks[t].run, push |-> tasks[t].push,
                   file |-> FileRead(t)]
  <2>5. d \in decisions' BY <1>9 DEF Submit
  <2>6. d.push = p /\ d.file = Tip(p)' BY <1>2, <2>2, <2>4
  <2>7. QED BY <2>5, <2>6 DEF Decided
<1>10. QED BY <1>5, <1>6, <1>7, <1>8, <1>9 DEF TaskStep

\* A new push with one head has a task whose head is its tip.
LEMMA NewPushWillDecide ==
  ASSUME IInv, NEW size \in 1 .. MaxSize, NEW k \in 1 .. MaxSize, NEW heads \in {1, 2},
         Push(size, heads, k), NEW p \in Pushes' \ Pushes, pushlog'[p].heads = 1
  PROVE  \E t \in Id' : WillDecide(t, p)'
<1> DEFINE e == [size |-> size, heads |-> heads, day |-> today]
<1>1. pushlog \in Seq(PushRecord) /\ today \in 0 .. MaxDays BY DEF IInv, TypeOK
<1>2. e \in PushRecord BY <1>1 DEF PushRecord
<1>3. pushlog' = Append(pushlog, e) /\ (heads = 1 => k = size) BY DEF Push
<1>4. p = Len(pushlog) + 1 /\ pushlog'[p] = e
  <2>1. Len(pushlog') = Len(pushlog) + 1 /\ pushlog'[Len(pushlog) + 1] = e
    BY <1>1, <1>2, <1>3
  <2>2. p = Len(pushlog) + 1 BY <1>1, <2>1 DEF Pushes
  <2>3. QED BY <2>1, <2>2
<1>5. heads = 1 /\ Tip(p)' = <<p, k>> BY <1>3, <1>4 DEF Tip
<1>6. tasks' = Append(tasks, NewTask(<<p, k>>, TRUE, FALSE))
  <2>1. tasks' = Append(tasks, NewTask(<<Len(pushlog) + 1, k>>, heads = 1, FALSE))
    BY DEF Push
  <2>2. (heads = 1) = TRUE BY <1>5
  <2>3. QED BY <1>4, <2>1, <2>2
<1>7. PICK t \in Id' : tasks'[t] = NewTask(<<p, k>>, TRUE, FALSE)
  <2>1. /\ Len(tasks) + 1 \in Id'
        /\ tasks'[Len(tasks) + 1] = NewTask(<<p, k>>, TRUE, FALSE)
    <3> DEFINE r == <<p, k>>
               single == TRUE
               replayed == FALSE
    <3>1. tasks' = Append(tasks, NewTask(r, single, replayed)) BY <1>6
    <3> HIDE DEF r, single, replayed
    <3>2. /\ Id' = Id \cup {Len(tasks) + 1}
          /\ tasks'[Len(tasks) + 1] = NewTask(r, single, replayed)
      BY <3>1, AppendedTask
    <3>3. QED BY <3>2 DEF r, single, replayed
  <2>2. QED BY <2>1
<1>8. /\ tasks'[t].head = Tip(p)' /\ tasks'[t].single
      /\ tasks'[t].phase = "pending" /\ "pending" \notin Over
  BY <1>5, <1>7 DEF NewTask, Over
<1>9. WillDecide(t, p)' BY <1>8 DEF WillDecide
<1>10. QED BY <1>7, <1>9

LEMMA NoPushLostStep ==
  ASSUME MaxLag < Attempts, IInv, TriesInv, NoPushLost, [Next]_vars
  PROVE  NoPushLost'
<1> SUFFICES ASSUME NEW p \in Pushes', pushlog'[p].heads = 1
             PROVE  Decided(p)' \/ \E t \in Id' : WillDecide(t, p)'
  BY DEF NoPushLost, Decided
<1>1. Grows /\ Stable BY StepGrows, StepIsStable
<1>2. CASE p \notin Pushes
  <2>1. \E size, k \in 1 .. MaxSize, heads \in {1, 2} : Push(size, heads, k)
    BY <1>2 DEF Next, vars, Pushes, NextDay, Replay, Redeliver, TaskStep, Start,
                GetPushInfo, Submit, Fail, WorkerDies
  <2>2. QED BY <1>2, <2>1, NewPushWillDecide
<1>3. CASE p \in Pushes
  <2>1. Decided(p) \/ \E t \in Id : WillDecide(t, p)
    BY <1>1, <1>3 DEF NoPushLost, Decided, Grows
  <2>2. CASE Decided(p) BY <1>1, <1>3, <2>2 DEF Decided, Grows, Stable
  <2>3. CASE \E t \in Id : WillDecide(t, p)
    <3>1. PICK t \in Id : WillDecide(t, p) BY <2>3
    <3>2. t \in Id' BY <1>1, <3>1 DEF Stable
    <3>3. CASE tasks'[t] = tasks[t]
      BY <1>3, <3>1, <3>2, <3>3, OthersWillDecide
    <3>4. CASE TaskStep(t) \/ Fail(t) \/ WorkerDies(t)
      BY <1>3, <3>1, <3>2, <3>4, StepWillDecide
    <3>5. tasks'[t] = tasks[t] \/ TaskStep(t) \/ Fail(t) \/ WorkerDies(t)
      <4>1. CASE NextDay \/ UNCHANGED vars BY <4>1 DEF NextDay, vars
      <4>2. CASE \E size, k \in 1 .. MaxSize, heads \in {1, 2} : Push(size, heads, k)
        <5>1. PICK size \in 1 .. MaxSize, k \in 1 .. MaxSize, heads \in {1, 2} :
                Push(size, heads, k)
          BY <4>2
        <5>2. tasks' = Append(tasks, NewTask(<<Len(pushlog) + 1, k>>, heads = 1, FALSE))
          BY <5>1 DEF Push
        <5>3. QED BY <5>2, AppendedTask
      <4>3. CASE (\E r \in Changeset : Replay(r)) \/ \E u \in Id : Redeliver(u)
        BY <4>3, AppendedTask DEF Replay, Redeliver
      <4>4. CASE \E u \in Id : TaskStep(u) \/ Fail(u) \/ WorkerDies(u)
        BY <4>4, OneTaskChanges
      <4>5. QED BY <4>1, <4>2, <4>3, <4>4 DEF Next
    <3>6. QED BY <3>3, <3>4, <3>5
  <2>4. QED BY <2>1, <2>2, <2>3
<1>4. QED BY <1>2, <1>3

\* NoPushLost: pushes that come in quick succession, replays, messages delivered
\* twice and a pushlog that lags less than get_push_info waits cost no push with
\* one head its decision task; only a fault, or its age, does.
THEOREM NothingLost == ASSUME MaxLag < Attempts PROVE Spec => []NoPushLost
<1>1. Init => TriesInv /\ NoPushLost
  BY DEF Init, TriesInv, NoPushLost, Id, Pushes
<1>2. IInv /\ TriesInv /\ NoPushLost /\ [Next]_vars => (TriesInv /\ NoPushLost)'
  BY TriesStep, NoPushLostStep
<1>3. QED BY <1>1, <1>2, RunInvariant, PTL DEF Spec
=============================================================================
