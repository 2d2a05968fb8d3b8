---------------------------- MODULE CronTask_proofs ----------------------------
(* Theorems about CronTask, for any files, times, delays and faults.        *)
EXTENDS CronTask, TLAPS

(***************************************************************************)
(* The inductive invariant.  Its parts are operators of the values they     *)
(* speak of, so that a step instantiates them with the new values.          *)
(***************************************************************************)
\* The 15 minutes a time is in.
Floor(c) == c - (c % SlotLength)

Early == {"pending", "push", "load"}

TaskRecord ==
  [created : Time, job : Job \cup {0}, run : 0 .. MaxFaults,
   phase : {"pending"} \cup Running \cup Over, started : Time, time : Time,
   tries : 0 .. Attempts, rev : 0 .. MaxPushes, yml : 0 .. MaxPushes,
   todo : SUBSET Job, failed : SUBSET Job, tip : 0 .. MaxPushes]

SubRecord ==
  [job : Job, time : Time, rev : 1 .. MaxPushes, yml : 1 .. MaxPushes, by : Nat,
   run : 0 .. MaxFaults, copy : {1, 2}]

JobsIn(file) == IF file = NoCron THEN << >> ELSE file

Matches(conf, time) == conf.here /\ time \in conf.when

\* What a task knows at each point of its run.
RecordOK(r, now, files, bound) ==
  /\ r.created <= now /\ r.started <= now /\ r.time <= now
  /\ r.rev <= Len(files) /\ r.yml <= Len(files) /\ r.tip <= Len(files)
  /\ r.run <= bound
  /\ r.phase \in {"pending", "push"} => r.rev = 0 /\ r.tries < Attempts
  /\ r.phase \in {"load", "loop"} => r.rev # 0
  /\ r.phase = "loop" =>
       /\ r.yml = r.rev /\ files[r.rev] # BadCron
       /\ r.todo \subseteq DOMAIN JobsIn(files[r.rev])
       /\ r.job # 0 => r.todo \subseteq {r.job}
  /\ r.phase \in Running =>
       r.time = Floor(r.created) /\ r.started - r.created < Deadline

\* What a submission has of the task it is by, and of the file of its revision.
SubOK(s, ts, files) ==
  /\ s.by \in 1 .. Len(ts) /\ s.rev <= Len(files) /\ s.yml <= Len(files)
  /\ s.time = Floor(ts[s.by].created)
  /\ s.run <= ts[s.by].run
  /\ s.run = ts[s.by].run =>
       ts[s.by].phase \notin Early /\ s.rev = ts[s.by].rev /\ s.yml = ts[s.by].yml
  /\ files[s.rev] # BadCron /\ s.job \in DOMAIN JobsIn(files[s.rev])
  /\ ts[s.by].job = 0 => Matches(JobsIn(files[s.rev])[s.job], s.time)

DueIn(file, time) ==
  IF file = BadCron THEN {}
  ELSE {j \in DOMAIN JobsIn(file) :
          Matches(JobsIn(file)[j], time) /\ ~JobsIn(file)[j].raises}
RanIn(subs, t, run) == {s.job : s \in {x \in subs : x.by = t /\ x.run = run}}

\* Where the loop is, every job due is still to be looked at, has failed or ran.
LoopOK(r, t, files, subs) ==
  r.job = 0 =>
    /\ r.phase = "loop" =>
         DueIn(files[r.rev], r.time) \subseteq r.todo \cup r.failed \cup RanIn(subs, t, r.run)
    /\ r.phase = "done" /\ r.rev # 0 =>
         DueIn(files[r.rev], r.time) \subseteq RanIn(subs, t, r.run)

TypeInv ==
  /\ clock \in Time
  /\ nextFire \in Nat /\ nextFire % SlotLength = 0
  /\ ymls \in Seq(CronYml) /\ Len(ymls) <= MaxPushes
  /\ indexed \subseteq 1 .. Len(ymls)
  /\ tasks \in Seq(TaskRecord)
  /\ submitted \subseteq SubRecord
  /\ lags \in 0 .. MaxLag /\ faults \in 0 .. MaxFaults /\ forced \in 0 .. MaxForced

RecordInv == \A t \in Id : RecordOK(tasks[t], clock, ymls, faults)

\* The schedule fires once a slot: no two of its tasks were created in one.
SlotInv ==
  /\ \A t \in Id : tasks[t].job = 0 => Floor(tasks[t].created) + SlotLength <= nextFire
  /\ \A t, u \in Id :
       /\ tasks[t].job = 0 /\ tasks[u].job = 0
       /\ Floor(tasks[t].created) = Floor(tasks[u].created)
       => t = u

SubInv == \A s \in submitted : SubOK(s, tasks, ymls)

\* One run submits for one revision.
RunInv ==
  \A a, b \in submitted :
    a.by = b.by /\ a.run = b.run => a.rev = b.rev /\ a.yml = b.yml

LoopInv == \A t \in Id : LoopOK(tasks[t], t, ymls, submitted)

IInv == TypeInv /\ RecordInv /\ SlotInv /\ SubInv /\ RunInv /\ LoopInv
-----------------------------------------------------------------------------
LEMMA FloorBounds ==
  ASSUME NEW c \in Nat
  PROVE  Floor(c) \in Nat /\ Floor(c) <= c /\ c < Floor(c) + SlotLength
<1>1. SlotLength \in Nat /\ SlotLength > 0 BY CronAssumption
<1>2. c % SlotLength \in 0 .. SlotLength - 1 /\ c % SlotLength <= c
  BY <1>1
<1>3. QED BY <1>1, <1>2 DEF Floor

LEMMA FloorIsMultiple ==
  ASSUME NEW c \in Nat
  PROVE  Floor(c) = (c \div SlotLength) * SlotLength
<1>1. SlotLength \in Nat /\ SlotLength > 0 BY CronAssumption
<1>2. QED BY <1>1 DEF Floor

\* The multiples of SlotLength up to c are up to Floor(c).
LEMMA MultiplesBelow ==
  ASSUME NEW c \in Nat, NEW n \in Nat, n % SlotLength = 0, n <= c
  PROVE  n <= Floor(c)
<1>1. SlotLength \in Nat /\ SlotLength > 0 BY CronAssumption
<1> DEFINE k == n \div SlotLength
           q == c \div SlotLength
<1>2. n = k * SlotLength /\ k \in Nat BY <1>1
<1>3. Floor(c) = q * SlotLength /\ q \in Nat BY <1>1, FloorIsMultiple
<1>4. c < Floor(c) + SlotLength BY FloorBounds
<1> HIDE DEF k, q
<1>5. k * SlotLength < (q + 1) * SlotLength BY <1>1, <1>2, <1>3, <1>4
<1>6. k < q + 1 BY <1>1, <1>2, <1>3, <1>5
<1>7. k * SlotLength <= q * SlotLength BY <1>1, <1>2, <1>3, <1>6
<1>8. QED BY <1>2, <1>3, <1>7

LEMMA NextSlotIsMultiple ==
  ASSUME NEW c \in Nat
  PROVE  /\ (c \div SlotLength + 1) * SlotLength = Floor(c) + SlotLength
         /\ (c \div SlotLength + 1) * SlotLength \in Nat
         /\ ((c \div SlotLength + 1) * SlotLength) % SlotLength = 0
<1>1. SlotLength \in Nat /\ SlotLength > 0 BY CronAssumption
<1> DEFINE q == c \div SlotLength
<1>2. Floor(c) = q * SlotLength /\ q \in Nat BY <1>1, FloorIsMultiple
<1> HIDE DEF q
<1>3. (q + 1) * SlotLength = q * SlotLength + SlotLength BY <1>1, <1>2
<1>4. ((q + 1) * SlotLength) % SlotLength = 0 BY <1>1, <1>2
<1>5. q * SlotLength \in Nat BY <1>1, <1>2
<1>6. QED BY <1>1, <1>2, <1>3, <1>4, <1>5 DEF q

-----------------------------------------------------------------------------
LEMMA Bounds ==
  /\ MaxClock \in Nat /\ MaxPushes \in Nat /\ MaxForced \in Nat /\ MaxLag \in Nat
  /\ MaxFaults \in Nat /\ NumJobs \in Nat /\ Deadline \in Nat /\ RunTime \in Nat
  /\ SlotLength \in Nat /\ SlotLength > 0 /\ Attempts \in Nat /\ Attempts > 0
BY CronAssumption

LEMMA FieldsOfARecord ==
  ASSUME NEW r \in TaskRecord
  PROVE  /\ r.created \in Nat /\ r.started \in Nat /\ r.time \in Nat /\ r.run \in Nat
         /\ r.tries \in Nat /\ r.rev \in Nat /\ r.yml \in Nat /\ r.tip \in Nat
         /\ r.job \in Nat /\ r.todo \subseteq Job /\ r.failed \subseteq Job
BY Bounds DEF TaskRecord, Time, Job

Extends(files, more) ==
  Len(files) <= Len(more) /\ \A i \in 1 .. Len(files) : more[i] = files[i]

\* What RecordOK and LoopOK say stays true while time passes, pushes arrive,
\* faults are counted and others submit.
LEMMA RecordStays ==
  ASSUME NEW r \in TaskRecord, NEW now \in Nat, NEW later \in Nat, now <= later,
         NEW files \in Seq(CronYml), NEW more \in Seq(CronYml), Extends(files, more),
         NEW bound \in Nat, NEW higher \in Nat, bound <= higher,
         RecordOK(r, now, files, bound)
  PROVE  RecordOK(r, later, more, higher)
<1>1. Len(files) \in Nat /\ Len(more) \in Nat OBVIOUS
<1>2. r.rev # 0 => more[r.rev] = files[r.rev]
  BY <1>1, FieldsOfARecord DEF RecordOK, Extends
<1>3. /\ r.created <= later /\ r.started <= later /\ r.time <= later
      /\ r.rev <= Len(more) /\ r.yml <= Len(more) /\ r.tip <= Len(more)
      /\ r.run <= higher
  <2>1. /\ r.created \in Nat /\ r.started \in Nat /\ r.time \in Nat /\ r.run \in Nat
        /\ r.rev \in Nat /\ r.yml \in Nat /\ r.tip \in Nat
    BY FieldsOfARecord
  <2>2. /\ r.created <= now /\ r.started <= now /\ r.time <= now /\ r.run <= bound
        /\ r.rev <= Len(files) /\ r.yml <= Len(files) /\ r.tip <= Len(files)
    BY DEF RecordOK
  <2>3. Len(files) <= Len(more) BY DEF Extends
  <2>4. \A a, b, d \in Nat : a <= b /\ b <= d => a <= d OBVIOUS
  <2>5. r.created <= later /\ r.started <= later /\ r.time <= later
    BY <2>1, <2>2, <2>4
  <2>6. r.rev <= Len(more) /\ r.yml <= Len(more) /\ r.tip <= Len(more)
    BY <1>1, <2>1, <2>2, <2>3, <2>4
  <2>7. r.run <= higher BY <2>1, <2>2, <2>4
  <2>8. QED BY <2>5, <2>6, <2>7
<1>4. QED BY <1>2, <1>3 DEF RecordOK

LEMMA LoopStays ==
  ASSUME NEW r \in TaskRecord, NEW t, NEW now,
         NEW files \in Seq(CronYml), NEW more \in Seq(CronYml), Extends(files, more),
         NEW bound, RecordOK(r, now, files, bound),
         NEW subs, NEW wider, subs \subseteq wider,
         LoopOK(r, t, files, subs)
  PROVE  LoopOK(r, t, more, wider)
<1>1. Len(files) \in Nat /\ Len(more) \in Nat OBVIOUS
<1>2. r.rev # 0 => more[r.rev] = files[r.rev]
  BY <1>1, FieldsOfARecord DEF RecordOK, Extends
<1>3. RanIn(subs, t, r.run) \subseteq RanIn(wider, t, r.run) BY DEF RanIn
<1>4. r.phase = "loop" => r.rev # 0 BY DEF RecordOK
<1>5. QED BY <1>2, <1>3, <1>4 DEF LoopOK

\* A submission stays what it was while its task keeps its run, or leaves it.
LEMMA SubStays ==
  ASSUME NEW s \in SubRecord,
         NEW files \in Seq(CronYml), NEW more \in Seq(CronYml), Extends(files, more),
         NEW ts \in Seq(TaskRecord), NEW ts2 \in Seq(TaskRecord), Len(ts) <= Len(ts2),
         s.by \in 1 .. Len(ts) =>
           /\ ts2[s.by].created = ts[s.by].created /\ ts2[s.by].job = ts[s.by].job
           /\ \/ ts[s.by].run < ts2[s.by].run
              \/ /\ ts2[s.by].run = ts[s.by].run
                 /\ \/ ts[s.by].phase \in Early
                    \/ /\ ts2[s.by].phase \notin Early
                       /\ ts2[s.by].rev = ts[s.by].rev /\ ts2[s.by].yml = ts[s.by].yml,
         SubOK(s, ts, files)
  PROVE  SubOK(s, ts2, more)
<1> DEFINE a == ts[s.by]
           b == ts2[s.by]
<1>1. s.by \in 1 .. Len(ts) /\ s.by \in 1 .. Len(ts2) BY DEF SubOK
<1>2. a \in TaskRecord /\ b \in TaskRecord BY <1>1
<1>3. a.run \in Nat /\ b.run \in Nat BY <1>2, FieldsOfARecord
<1>4. s.rev \in 1 .. Len(files) /\ s.yml \in Nat /\ s.run \in Nat
  BY Bounds DEF SubOK, SubRecord
<1>5. more[s.rev] = files[s.rev] /\ s.rev <= Len(more) BY <1>4 DEF Extends
<1>6. s.yml <= Len(more) BY <1>4 DEF SubOK, Extends
<1>7. s.run <= a.run BY DEF SubOK
<1>8. b.created = a.created /\ b.job = a.job BY <1>1
<1>9. s.run <= b.run BY <1>1, <1>3, <1>4, <1>7
<1>10. s.run = b.run => b.phase \notin Early /\ s.rev = b.rev /\ s.yml = b.yml
  <2> SUFFICES ASSUME s.run = b.run
               PROVE  b.phase \notin Early /\ s.rev = b.rev /\ s.yml = b.yml
    OBVIOUS
  <2>1. a.run = b.run BY <1>1, <1>3, <1>4, <1>7
  <2>2. a.phase \notin Early /\ s.rev = a.rev /\ s.yml = a.yml BY <2>1 DEF SubOK
  <2>3. b.phase \notin Early /\ b.rev = a.rev /\ b.yml = a.yml
    BY <1>1, <1>3, <2>1, <2>2
  <2>4. QED BY <2>2, <2>3
<1>11. s.time = Floor(a.created) BY DEF SubOK
<1>12. files[s.rev] # BadCron /\ s.job \in DOMAIN JobsIn(files[s.rev]) BY DEF SubOK
<1>13. a.job = 0 => Matches(JobsIn(files[s.rev])[s.job], s.time) BY DEF SubOK
<1>14. QED
  BY <1>1, <1>5, <1>6, <1>8, <1>9, <1>10, <1>11, <1>12, <1>13 DEF SubOK

\* What a new submission of task t, which is r now, has to be.
NewSubOK(s, t, r, files) ==
  /\ s \in SubRecord
  /\ s.by = t /\ s.run = r.run /\ s.rev = r.rev /\ s.yml = r.yml
  /\ s.time = Floor(r.created)
  /\ r.phase \notin Early
  /\ files[s.rev] # BadCron /\ s.job \in DOMAIN JobsIn(files[s.rev])
  /\ r.job = 0 => Matches(JobsIn(files[s.rev])[s.job], s.time)

\* r is what is left of old: its task is the same, and its submissions are.
Follows(r, old) ==
  /\ r.created = old.created /\ r.job = old.job
  /\ \/ old.run < r.run
     \/ /\ r.run = old.run
        /\ \/ old.phase \in Early
           \/ r.phase \notin Early /\ r.rev = old.rev /\ r.yml = old.yml

\* One task takes a step.
LEMMA TaskChanges ==
  ASSUME IInv, NEW t \in Id, NEW r \in TaskRecord, tasks' = [tasks EXCEPT ![t] = r],
         UNCHANGED <<clock, nextFire, ymls, indexed>>,
         faults <= faults', faults' \in 0 .. MaxFaults,
         lags' \in 0 .. MaxLag, forced' \in 0 .. MaxForced,
         Follows(r, tasks[t]),
         RecordOK(r, clock, ymls, faults'),
         submitted \subseteq submitted',
         submitted' = submitted \/ r.run = tasks[t].run,
         \A s \in submitted' \ submitted : NewSubOK(s, t, r, ymls),
         LoopOK(r, t, ymls, submitted')
  PROVE  IInv'
<1>1. /\ tasks \in Seq(TaskRecord) /\ ymls \in Seq(CronYml) /\ clock \in Nat
      /\ Extends(ymls, ymls) /\ Len(ymls) \in Nat /\ faults \in Nat /\ faults' \in Nat
      /\ submitted \subseteq SubRecord
  BY Bounds DEF IInv, TypeInv, Time, Extends
<1>2. tasks' \in Seq(TaskRecord) /\ Len(tasks') = Len(tasks) /\ Id' = Id
  BY <1>1 DEF Id
<1>3. \A u \in Id : tasks'[u] = IF u = t THEN r ELSE tasks[u] BY <1>1 DEF Id
<1>4. \A u \in Id : tasks[u] \in TaskRecord BY <1>1 DEF Id
<1>5. \A s \in submitted' \ submitted : s \in SubRecord BY DEF NewSubOK
<1>6. TypeInv' BY <1>1, <1>2, <1>5 DEF IInv, TypeInv, Id
<1>7. RecordInv'
  <2> SUFFICES ASSUME NEW u \in Id PROVE RecordOK(tasks'[u], clock, ymls, faults')
    BY <1>2 DEF RecordInv
  <2>1. CASE u = t BY <2>1, <1>3
  <2>2. CASE u # t
    <3>1. RecordOK(tasks[u], clock, ymls, faults) BY DEF IInv, RecordInv
    <3>2. RecordOK(tasks[u], clock, ymls, faults')
      BY <1>1, <1>4, <3>1, RecordStays
    <3>3. QED BY <1>3, <2>2, <3>2
  <2>3. QED BY <2>1, <2>2
<1>8. SlotInv'
  <2>1. \A u \in Id : tasks'[u].created = tasks[u].created /\ tasks'[u].job = tasks[u].job
    BY <1>3 DEF Follows
  <2>2. QED BY <1>2, <2>1 DEF IInv, SlotInv, Floor
<1>9. SubInv'
  <2> SUFFICES ASSUME NEW s \in submitted' PROVE SubOK(s, tasks', ymls)
    BY DEF SubInv
  <2>1. CASE s \in submitted
    <3>1. SubOK(s, tasks, ymls) /\ s \in SubRecord BY <1>1, <2>1 DEF IInv, SubInv
    <3>2. s.by \in Id BY <3>1 DEF SubOK, Id
    <3>3. /\ tasks'[s.by].created = tasks[s.by].created
          /\ tasks'[s.by].job = tasks[s.by].job
          /\ \/ tasks[s.by].run < tasks'[s.by].run
             \/ /\ tasks'[s.by].run = tasks[s.by].run
                /\ \/ tasks[s.by].phase \in Early
                   \/ /\ tasks'[s.by].phase \notin Early
                      /\ tasks'[s.by].rev = tasks[s.by].rev
                      /\ tasks'[s.by].yml = tasks[s.by].yml
      <4>1. CASE s.by = t BY <1>3, <3>2, <4>1 DEF Follows
      <4>2. CASE s.by # t
        <5>1. tasks'[s.by] = tasks[s.by] BY <1>3, <3>2, <4>2
        <5>2. tasks[s.by].phase \in Early \/ tasks[s.by].phase \notin Early OBVIOUS
        <5>3. QED BY <5>1, <5>2
      <4>3. QED BY <4>1, <4>2
    <3>4. Len(tasks) <= Len(tasks') BY <1>1, <1>2
    <3>5. QED BY <1>1, <1>2, <3>1, <3>3, <3>4, SubStays
  <2>2. CASE s \notin submitted
    <3>1. NewSubOK(s, t, r, ymls) BY <2>2
    <3>2. tasks'[t] = r /\ t \in 1 .. Len(tasks') BY <1>2, <1>3 DEF Id
    <3>3. r.run \in Nat /\ r.rev \in Nat /\ r.yml \in Nat BY FieldsOfARecord
    <3>4. r.rev <= Len(ymls) /\ r.yml <= Len(ymls) BY DEF RecordOK
    <3>5. s.by = t /\ s.run = r.run /\ s.rev = r.rev /\ s.yml = r.yml
      BY <3>1 DEF NewSubOK
    <3>6. s.run <= r.run BY <3>3, <3>5
    <3>7. s.rev <= Len(ymls) /\ s.yml <= Len(ymls) BY <3>4, <3>5
    <3>8. s.by \in 1 .. Len(tasks') /\ tasks'[s.by] = r BY <3>2, <3>5
    <3>9. /\ s.time = Floor(r.created) /\ r.phase \notin Early
          /\ ymls[s.rev] # BadCron /\ s.job \in DOMAIN JobsIn(ymls[s.rev])
          /\ r.job = 0 => Matches(JobsIn(ymls[s.rev])[s.job], s.time)
      BY <3>1 DEF NewSubOK
    <3>10. QED BY <3>5, <3>6, <3>7, <3>8, <3>9 DEF SubOK
  <2>3. QED BY <2>1, <2>2
<1>10. RunInv'
  <2> SUFFICES ASSUME NEW a \in submitted', NEW b \in submitted', a.by = b.by, a.run = b.run
               PROVE  a.rev = b.rev /\ a.yml = b.yml
    BY DEF RunInv
  <2>1. CASE a \in submitted /\ b \in submitted BY <2>1 DEF IInv, RunInv
  <2>2. ASSUME NEW s \in submitted, s.by = t, s.run = r.run, NEW n \in submitted',
               n \notin submitted
        PROVE  s.rev = n.rev /\ s.yml = n.yml
    <3>1. NewSubOK(n, t, r, ymls) BY <2>2
    <3>2. r.run = tasks[t].run BY <2>2
    <3>3. SubOK(s, tasks, ymls) BY DEF IInv, SubInv
    <3>4. tasks[t].phase \notin Early /\ s.rev = tasks[t].rev /\ s.yml = tasks[t].yml
      BY <2>2, <3>2, <3>3 DEF SubOK
    <3>5. r.run \in Nat BY FieldsOfARecord
    <3>6. r.rev = tasks[t].rev /\ r.yml = tasks[t].yml BY <3>2, <3>4, <3>5 DEF Follows
    <3>7. QED BY <3>1, <3>4, <3>6 DEF NewSubOK
  <2>3. CASE a \in submitted /\ b \notin submitted
    <3>1. b.by = t /\ b.run = r.run BY <2>3 DEF NewSubOK
    <3>2. QED BY <2>2, <2>3, <3>1
  <2>4. CASE a \notin submitted /\ b \in submitted
    <3>1. a.by = t /\ a.run = r.run BY <2>4 DEF NewSubOK
    <3>2. QED BY <2>2, <2>4, <3>1
  <2>5. CASE a \notin submitted /\ b \notin submitted BY <2>5 DEF NewSubOK
  <2>6. QED BY <2>1, <2>3, <2>4, <2>5
<1>11. LoopInv'
  <2> SUFFICES ASSUME NEW u \in Id PROVE LoopOK(tasks'[u], u, ymls, submitted')
    BY <1>2 DEF LoopInv
  <2>1. CASE u = t BY <2>1, <1>3
  <2>2. CASE u # t
    <3>1. LoopOK(tasks[u], u, ymls, submitted) /\ RecordOK(tasks[u], clock, ymls, faults)
      BY DEF IInv, LoopInv, RecordInv
    <3>2. LoopOK(tasks[u], u, ymls, submitted') BY <1>1, <1>4, <3>1, LoopStays
    <3>3. QED BY <1>3, <2>2, <3>2
  <2>3. QED BY <2>1, <2>2
<1>12. QED BY <1>6, <1>7, <1>8, <1>9, <1>10, <1>11 DEF IInv

\* Time passes, a push arrives, or one is indexed.
LEMMA EnvChanges ==
  ASSUME IInv, UNCHANGED <<nextFire, tasks, submitted, lags, faults, forced>>,
         clock' \in Time, clock <= clock',
         ymls' \in Seq(CronYml), Len(ymls') <= MaxPushes, Extends(ymls, ymls'),
         indexed' \subseteq 1 .. Len(ymls')
  PROVE  IInv'
<1>1. /\ tasks \in Seq(TaskRecord) /\ ymls \in Seq(CronYml) /\ clock \in Nat
      /\ clock' \in Nat /\ faults \in Nat /\ submitted \subseteq SubRecord
      /\ Id' = Id /\ Len(tasks) <= Len(tasks)
  BY Bounds DEF IInv, TypeInv, Time, Id
<1>2. \A t \in Id : tasks[t] \in TaskRecord BY <1>1 DEF Id
<1>3. TypeInv' BY DEF IInv, TypeInv
<1>4. RecordInv'
  <2> SUFFICES ASSUME NEW t \in Id PROVE RecordOK(tasks[t], clock', ymls', faults)
    BY <1>1 DEF RecordInv
  <2>1. RecordOK(tasks[t], clock, ymls, faults) BY DEF IInv, RecordInv
  <2>2. faults <= faults BY <1>1
  <2>3. QED BY <1>1, <1>2, <2>1, <2>2, RecordStays
<1>5. SlotInv' BY <1>1 DEF IInv, SlotInv
<1>6. SubInv'
  <2> SUFFICES ASSUME NEW s \in submitted PROVE SubOK(s, tasks, ymls')
    BY DEF SubInv
  <2>1. SubOK(s, tasks, ymls) /\ s \in SubRecord BY <1>1 DEF IInv, SubInv
  <2>2. tasks[s.by].phase \in Early \/ tasks[s.by].phase \notin Early OBVIOUS
  <2>3. QED BY <1>1, <2>1, <2>2, SubStays
<1>7. RunInv' BY DEF IInv, RunInv
<1>8. LoopInv'
  <2> SUFFICES ASSUME NEW t \in Id PROVE LoopOK(tasks[t], t, ymls', submitted)
    BY <1>1 DEF LoopInv
  <2>1. LoopOK(tasks[t], t, ymls, submitted) /\ RecordOK(tasks[t], clock, ymls, faults)
    BY DEF IInv, LoopInv, RecordInv
  <2>2. QED BY <1>1, <1>2, <2>1, LoopStays
<1>9. QED BY <1>3, <1>4, <1>5, <1>6, <1>7, <1>8 DEF IInv

\* A hook fires: by its schedule once what is due has come, or for one job.
LEMMA TaskAdded ==
  ASSUME IInv, NEW j \in Job \cup {0}, tasks' = Append(tasks, NewTask(j)),
         UNCHANGED <<clock, ymls, indexed, submitted, lags, faults>>,
         forced' \in 0 .. MaxForced,
         \/ j # 0 /\ nextFire' = nextFire
         \/ j = 0 /\ clock >= nextFire /\ nextFire' = (clock \div SlotLength + 1) * SlotLength
  PROVE  IInv'
<1> DEFINE n == NewTask(j)
           new == Len(tasks) + 1
<1>1. /\ tasks \in Seq(TaskRecord) /\ ymls \in Seq(CronYml) /\ clock \in Time
      /\ clock \in Nat /\ faults \in Nat /\ submitted \subseteq SubRecord
      /\ nextFire \in Nat /\ nextFire % SlotLength = 0
      /\ Len(ymls) \in 0 .. MaxPushes /\ Len(tasks) \in Nat
  BY Bounds DEF IInv, TypeInv, Time, Id
<1>2. n \in TaskRecord BY <1>1, Bounds DEF NewTask, TaskRecord, Time
<1>3. /\ n.created = clock /\ n.job = j /\ n.run = 0 /\ n.phase = "pending"
      /\ n.started = 0 /\ n.time = 0 /\ n.tries = 0 /\ n.rev = 0 /\ n.yml = 0
      /\ n.tip = 0
  BY DEF NewTask
<1> HIDE DEF n
<1>4. /\ tasks' \in Seq(TaskRecord) /\ Len(tasks') = new
      /\ tasks'[new] = n
      /\ \A u \in Id : tasks'[u] = tasks[u] /\ tasks[u] \in TaskRecord
  BY <1>1, <1>2 DEF Id, n
<1>5. Id' = Id \cup {new} /\ new \notin Id BY <1>1, <1>4 DEF Id
<1>6. nextFire' \in Nat /\ nextFire' % SlotLength = 0 /\ nextFire <= nextFire'
  <2>1. CASE nextFire' = nextFire BY <1>1, <2>1
  <2>2. CASE clock >= nextFire /\ nextFire' = (clock \div SlotLength + 1) * SlotLength
    <3>1. nextFire' = Floor(clock) + SlotLength BY <1>1, <2>2, NextSlotIsMultiple
    <3>2. clock < Floor(clock) + SlotLength /\ Floor(clock) \in Nat BY <1>1, FloorBounds
    <3>3. QED BY <1>1, <2>2, <3>1, <3>2, NextSlotIsMultiple, Bounds
  <2>3. QED BY <2>1, <2>2
<1>7. TypeInv' BY <1>4, <1>6 DEF IInv, TypeInv
<1>8. RecordInv'
  <2> SUFFICES ASSUME NEW u \in Id' PROVE RecordOK(tasks'[u], clock, ymls, faults)
    BY DEF RecordInv
  <2>1. CASE u \in Id BY <1>4, <2>1 DEF IInv, RecordInv
  <2>2. CASE u = new
    BY <1>1, <1>3, <1>4, <2>2, Bounds DEF RecordOK, Running
  <2>3. QED BY <1>5, <2>1, <2>2
<1>9. SlotInv'
  <2>1. \A u \in Id : tasks[u].job = 0 => Floor(tasks[u].created) + SlotLength <= nextFire
    BY DEF IInv, SlotInv
  <2>2. \A u \in Id : tasks[u].created \in Nat /\ Floor(tasks[u].created) \in Nat
    BY <1>4, FieldsOfARecord, FloorBounds
  <2>3. j = 0 => /\ Floor(n.created) + SlotLength = nextFire'
                 /\ nextFire <= Floor(n.created)
    BY <1>1, <1>3, NextSlotIsMultiple, MultiplesBelow
  <2>4. Floor(n.created) \in Nat BY <1>1, <1>3, FloorBounds
  <2>5. \A u \in Id' : tasks'[u].job = 0 =>
          Floor(tasks'[u].created) + SlotLength <= nextFire'
    <3> SUFFICES ASSUME NEW u \in Id', tasks'[u].job = 0
                 PROVE  Floor(tasks'[u].created) + SlotLength <= nextFire'
      OBVIOUS
    <3>1. CASE u \in Id
      <4>1. Floor(tasks[u].created) + SlotLength <= nextFire BY <1>4, <2>1, <3>1
      <4>2. Floor(tasks[u].created) + SlotLength \in Nat BY <2>2, <3>1, Bounds
      <4>3. Floor(tasks[u].created) + SlotLength <= nextFire' BY <1>1, <1>6, <4>1, <4>2
      <4>4. tasks'[u] = tasks[u] BY <1>4, <3>1
      <4>5. QED BY <4>3, <4>4
    <3>2. CASE u = new BY <1>3, <1>4, <1>6, <2>3, <2>4, <3>2, Bounds
    <3>3. QED BY <1>5, <3>1, <3>2
  <2>6. ASSUME NEW u \in Id, tasks[u].job = 0, j = 0
        PROVE  Floor(tasks[u].created) # Floor(n.created)
    <3>1. Floor(tasks[u].created) + SlotLength <= Floor(n.created)
      BY <1>1, <2>1, <2>2, <2>3, <2>4, <2>6, Bounds
    <3>2. QED BY <2>2, <2>4, <3>1, Bounds
  <2>7. \A t, u \in Id' :
          /\ tasks'[t].job = 0 /\ tasks'[u].job = 0
          /\ Floor(tasks'[t].created) = Floor(tasks'[u].created)
          => t = u
    <3> SUFFICES ASSUME NEW t \in Id', NEW u \in Id', tasks'[t].job = 0, tasks'[u].job = 0,
                        Floor(tasks'[t].created) = Floor(tasks'[u].created), t # u
                 PROVE  FALSE
      OBVIOUS
    <3>1. CASE t \in Id /\ u \in Id BY <1>4, <3>1 DEF IInv, SlotInv
    <3>2. CASE t \in Id /\ u = new BY <1>3, <1>4, <2>6, <3>2
    <3>3. CASE t = new /\ u \in Id BY <1>3, <1>4, <2>6, <3>3
    <3>4. QED BY <1>5, <3>1, <3>2, <3>3
  <2>8. QED BY <2>5, <2>7 DEF SlotInv
<1>10. SubInv'
  <2> SUFFICES ASSUME NEW s \in submitted PROVE SubOK(s, tasks', ymls)
    BY DEF SubInv
  <2>1. SubOK(s, tasks, ymls) /\ s \in SubRecord BY <1>1 DEF IInv, SubInv
  <2>2. s.by \in Id BY <2>1 DEF SubOK, Id
  <2>3. tasks'[s.by] = tasks[s.by] BY <1>4, <2>2
  <2>4. tasks[s.by].phase \in Early \/ tasks[s.by].phase \notin Early OBVIOUS
  <2>5. Len(tasks) <= Len(tasks') /\ Extends(ymls, ymls) BY <1>1, <1>4 DEF Extends
  <2>6. QED BY <1>1, <1>4, <2>1, <2>3, <2>4, <2>5, SubStays
<1>11. RunInv' BY DEF IInv, RunInv
<1>12. LoopInv'
  <2> SUFFICES ASSUME NEW u \in Id' PROVE LoopOK(tasks'[u], u, ymls, submitted)
    BY DEF LoopInv
  <2>1. CASE u \in Id BY <1>4, <2>1 DEF IInv, LoopInv
  <2>2. CASE u = new
    <3>1. tasks'[u].phase = "pending" BY <1>3, <1>4, <2>2
    <3>2. QED BY <3>1 DEF LoopOK
  <2>3. QED BY <1>5, <2>1, <2>2
<1>13. QED BY <1>7, <1>8, <1>9, <1>10, <1>11, <1>12 DEF IInv

-----------------------------------------------------------------------------
LEMMA FactsOfATask ==
  ASSUME IInv, NEW t \in Id
  PROVE  /\ tasks[t] \in TaskRecord /\ DOMAIN tasks = Id /\ t \in Nat
         /\ RecordOK(tasks[t], clock, ymls, faults)
         /\ LoopOK(tasks[t], t, ymls, submitted)
BY DEF IInv, TypeInv, RecordInv, LoopInv, Id

LEMMA FactsOfTheRest ==
  ASSUME IInv
  PROVE  /\ clock \in Time /\ clock \in Nat /\ ymls \in Seq(CronYml)
         /\ Len(ymls) \in Nat /\ Len(ymls) <= MaxPushes
         /\ faults \in 0 .. MaxFaults /\ faults \in Nat /\ faults <= faults
         /\ lags \in 0 .. MaxLag /\ forced \in 0 .. MaxForced
BY Bounds DEF IInv, TypeInv, Time

\* A task takes a step without submitting anything.
LEMMA TaskMoves ==
  ASSUME IInv, NEW t \in Id, NEW r \in TaskRecord, tasks' = [tasks EXCEPT ![t] = r],
         UNCHANGED <<clock, nextFire, ymls, indexed, submitted, forced>>,
         faults <= faults', faults' \in 0 .. MaxFaults, lags' \in 0 .. MaxLag,
         Follows(r, tasks[t]),
         RecordOK(r, clock, ymls, faults'),
         LoopOK(r, t, ymls, submitted)
  PROVE  IInv'
<1>1. forced' \in 0 .. MaxForced BY FactsOfTheRest
<1>2. \A s \in submitted' \ submitted : NewSubOK(s, t, r, ymls) OBVIOUS
<1>3. submitted \subseteq submitted' /\ LoopOK(r, t, ymls, submitted') OBVIOUS
<1>4. QED BY <1>1, <1>2, <1>3, TaskChanges

LEMMA StartOK == ASSUME IInv, NEW t \in Id, Start(t) PROVE IInv'
<1> DEFINE r == [tasks[t] EXCEPT !.phase = "push", !.started = clock,
                                 !.time = Floor(tasks[t].created), !.tip = Len(ymls)]
<1>0. Len(ymls) \in 0 .. MaxPushes BY FactsOfTheRest, Bounds
<1>1. /\ tasks[t] \in TaskRecord /\ RecordOK(tasks[t], clock, ymls, faults)
      /\ tasks[t].phase = "pending" /\ clock - tasks[t].created < Deadline
  BY FactsOfATask DEF Start
<1>2. /\ Floor(tasks[t].created) \in Nat /\ Floor(tasks[t].created) <= tasks[t].created
      /\ tasks[t].created \in Nat /\ tasks[t].created <= clock
  BY <1>1, FieldsOfARecord, FloorBounds DEF RecordOK
<1>3. Floor(tasks[t].created) \in Time /\ Floor(tasks[t].created) <= clock
  <2>1. clock \in Nat /\ clock <= MaxClock /\ MaxClock \in Nat
    BY FactsOfTheRest, Bounds DEF Time
  <2> DEFINE a == Floor(tasks[t].created)
             b == tasks[t].created
  <2>2. a \in Nat /\ b \in Nat /\ a <= b /\ b <= clock BY <1>2
  <2> HIDE DEF a, b
  <2>3. a <= clock /\ a \in 0 .. MaxClock BY <2>1, <2>2
  <2>4. QED BY <2>3 DEF a, Time
<1>4. tasks' = [tasks EXCEPT ![t] = r]
  BY <1>1 DEF Start, CalculateTime, Floor, Tip
<1>5. UNCHANGED <<clock, nextFire, ymls, indexed, submitted, lags, faults, forced>>
  BY DEF Start, envVars, boundVars
<1>6. r \in TaskRecord BY <1>0, <1>1, <1>3, FactsOfTheRest DEF TaskRecord, Running
<1>7. /\ r.created = tasks[t].created /\ r.job = tasks[t].job /\ r.run = tasks[t].run
      /\ r.phase = "push" /\ r.started = clock /\ r.time = Floor(tasks[t].created)
      /\ r.tries = tasks[t].tries /\ r.rev = tasks[t].rev /\ r.yml = tasks[t].yml
      /\ r.tip = Len(ymls)
  BY <1>1 DEF TaskRecord
<1> HIDE DEF r
<1>8. Follows(r, tasks[t]) BY <1>1, <1>7 DEF Follows, Early
<1>9. RecordOK(r, clock, ymls, faults)
  BY <1>1, <1>2, <1>3, <1>7, FactsOfTheRest DEF RecordOK
<1>10. LoopOK(r, t, ymls, submitted) BY <1>7 DEF LoopOK
<1>11. QED BY <1>4, <1>5, <1>6, <1>8, <1>9, <1>10, FactsOfTheRest, TaskMoves

LEMMA NoPushesOK ==
  ASSUME IInv, NEW t \in Id, tasks[t].phase = "push", NoPushes(t),
         UNCHANGED <<clock, nextFire, ymls, indexed, submitted, faults, forced>>
  PROVE  IInv'
<1> DEFINE q == IF tasks[t].tries + 1 < Attempts THEN "push" ELSE "done"
           r == [tasks[t] EXCEPT !.tries = tasks[t].tries + 1, !.phase = q]
<1>1. /\ tasks[t] \in TaskRecord /\ RecordOK(tasks[t], clock, ymls, faults)
      /\ tasks[t].tries \in Nat /\ tasks[t].tries < Attempts /\ tasks[t].rev = 0
  BY FactsOfATask, FieldsOfARecord DEF RecordOK
<1>2. /\ tasks[t].tries + 1 \in 0 .. Attempts
      /\ q \in {"push", "done"} /\ (q = "push" => tasks[t].tries + 1 < Attempts)
  BY <1>1, Bounds
<1>3. tasks' = [tasks EXCEPT ![t] = r] BY <1>1 DEF NoPushes
<1> HIDE DEF q
<1>4. r \in TaskRecord BY <1>1, <1>2 DEF TaskRecord, Running, Over
<1>5. /\ r.created = tasks[t].created /\ r.job = tasks[t].job /\ r.run = tasks[t].run
      /\ r.phase = q /\ r.started = tasks[t].started /\ r.time = tasks[t].time
      /\ r.tries = tasks[t].tries + 1 /\ r.rev = tasks[t].rev /\ r.yml = tasks[t].yml
      /\ r.tip = tasks[t].tip
  BY <1>1 DEF TaskRecord
<1> HIDE DEF r
<1>6. Follows(r, tasks[t]) BY <1>5 DEF Follows, Early
<1>7. RecordOK(r, clock, ymls, faults)
  BY <1>1, <1>2, <1>5 DEF RecordOK, Running
<1>8. LoopOK(r, t, ymls, submitted) BY <1>1, <1>2, <1>5 DEF LoopOK
<1>9. lags' \in 0 .. MaxLag BY FactsOfTheRest, Bounds DEF NoPushes
<1>10. QED BY <1>3, <1>4, <1>6, <1>7, <1>8, <1>9, FactsOfTheRest, TaskMoves

LEMMA PushInfoOK ==
  ASSUME IInv, NEW t \in Id, tasks[t].phase = "push", Tip > 0,
         tasks' = [tasks EXCEPT ![t].phase = "load", ![t].rev = Tip],
         UNCHANGED <<clock, nextFire, ymls, indexed, submitted, lags, faults, forced>>
  PROVE  IInv'
<1> DEFINE r == [tasks[t] EXCEPT !.phase = "load", !.rev = Len(ymls)]
<1>0. Len(ymls) \in 0 .. MaxPushes BY FactsOfTheRest, Bounds
<1>1. tasks[t] \in TaskRecord /\ RecordOK(tasks[t], clock, ymls, faults)
  BY FactsOfATask
<1>2. tasks' = [tasks EXCEPT ![t] = r] BY <1>1 DEF Tip
<1>3. r \in TaskRecord BY <1>0, <1>1 DEF TaskRecord, Running
<1>4. /\ r.created = tasks[t].created /\ r.job = tasks[t].job /\ r.run = tasks[t].run
      /\ r.phase = "load" /\ r.started = tasks[t].started /\ r.time = tasks[t].time
      /\ r.tries = tasks[t].tries /\ r.rev = Len(ymls) /\ r.yml = tasks[t].yml
      /\ r.tip = tasks[t].tip
  BY <1>1 DEF TaskRecord
<1> HIDE DEF r
<1>5. Follows(r, tasks[t]) BY <1>4 DEF Follows, Early
<1>6. RecordOK(r, clock, ymls, faults)
  <2>1. r.rev # 0 /\ r.rev <= Len(ymls) BY <1>4, FactsOfTheRest DEF Tip
  <2>2. r.phase # "loop" /\ r.phase \notin {"pending", "push"} BY <1>4
  <2>3. r.time = Floor(r.created) /\ r.started - r.created < Deadline
    BY <1>1, <1>4 DEF RecordOK, Running
  <2>4. QED BY <1>1, <1>4, <2>1, <2>2, <2>3 DEF RecordOK
<1>7. LoopOK(r, t, ymls, submitted) BY <1>4 DEF LoopOK
<1>8. QED BY <1>2, <1>3, <1>5, <1>6, <1>7, FactsOfTheRest, TaskMoves

LEMMA GetPushInfoOK == ASSUME IInv, NEW t \in Id, GetPushInfo(t) PROVE IInv'
<1>1. /\ tasks[t].phase = "push"
      /\ UNCHANGED <<clock, nextFire, ymls, indexed, submitted, faults, forced>>
  BY DEF GetPushInfo, At, envVars
<1>2. CASE NoPushes(t) BY <1>1, <1>2, NoPushesOK
<1>3. CASE ~NoPushes(t) BY <1>1, <1>3, PushInfoOK DEF GetPushInfo
<1>4. QED BY <1>2, <1>3

LEMMA JobsInType ==
  ASSUME NEW file \in CronYml, file # BadCron
  PROVE  DOMAIN JobsIn(file) \subseteq Job
<1>1. CASE file = NoCron BY <1>1 DEF JobsIn
<1>2. CASE file # NoCron
  <2>1. file \in CronYml \ {NoCron, BadCron} BY <1>2
  <2>2. DOMAIN file \subseteq Job BY <2>1, CronAssumption
  <2>3. QED BY <1>2, <2>2 DEF JobsIn
<1>3. QED BY <1>1, <1>2

LEMMA LoadJobsOK == ASSUME IInv, NEW t \in Id, LoadJobs(t) PROVE IInv'
<1> DEFINE v == tasks[t].rev
           jobs == DOMAIN JobsAt(v)
           forcing == tasks[t].job # 0
           raises == ymls[v] = BadCron \/ (forcing /\ tasks[t].job \notin jobs)
           q == IF raises THEN "failed" ELSE "loop"
           todo == IF raises THEN {} ELSE IF forcing THEN {tasks[t].job} ELSE jobs
           r == [tasks[t] EXCEPT !.yml = v, !.phase = q, !.todo = todo]
<1>1. /\ tasks[t] \in TaskRecord /\ RecordOK(tasks[t], clock, ymls, faults)
      /\ tasks[t].phase = "load"
  BY FactsOfATask DEF LoadJobs, At
<1>2. v \in 1 .. Len(ymls) /\ v \in 0 .. MaxPushes
  <2>1. tasks[t].rev \in Nat BY <1>1, FieldsOfARecord
  <2>2. tasks[t].rev # 0 /\ tasks[t].rev <= Len(ymls) BY <1>1 DEF RecordOK
  <2>3. Len(ymls) \in Nat /\ Len(ymls) <= MaxPushes /\ MaxPushes \in Nat
    BY FactsOfTheRest, Bounds
  <2>4. QED BY <2>1, <2>2, <2>3
<1>3. ymls[v] \in CronYml /\ JobsAt(v) = JobsIn(ymls[v])
  BY <1>2, FactsOfTheRest DEF JobsAt, JobsIn
<1>4. todo \subseteq Job /\ (~raises => todo \subseteq jobs) BY <1>3, JobsInType
<1>5. tasks' = [tasks EXCEPT ![t] = r]
  <2>1. tasks' = [tasks EXCEPT ![t].yml = v, ![t].phase = q, ![t].todo = todo]
    BY DEF LoadJobs, RevisionRead
  <2> HIDE DEF v, q, todo
  <2>2. QED BY <1>1, <2>1
<1>6. /\ q \in {"failed", "loop"}
      /\ q = "loop" => /\ ymls[v] # BadCron /\ todo \subseteq DOMAIN JobsIn(ymls[v])
                       /\ tasks[t].job # 0 => todo \subseteq {tasks[t].job}
                       /\ tasks[t].job = 0 => todo = DOMAIN JobsIn(ymls[v])
  BY <1>3, <1>4
<1>7. UNCHANGED <<clock, nextFire, ymls, indexed, submitted, lags, faults, forced>>
  BY DEF LoadJobs, envVars, boundVars
<1>8. tasks[t].rev = v OBVIOUS
<1> HIDE DEF todo, q, v
<1>9. r \in TaskRecord BY <1>1, <1>2, <1>4, <1>6 DEF TaskRecord, Running, Over
<1>10. /\ r.created = tasks[t].created /\ r.job = tasks[t].job /\ r.run = tasks[t].run
      /\ r.phase = q /\ r.started = tasks[t].started /\ r.time = tasks[t].time
      /\ r.tries = tasks[t].tries /\ r.rev = v /\ r.yml = v
      /\ r.tip = tasks[t].tip /\ r.todo = todo
  BY <1>1, <1>8 DEF TaskRecord
<1> HIDE DEF r
<1>11. Follows(r, tasks[t]) BY <1>1, <1>10 DEF Follows, Early
<1>12. RecordOK(r, clock, ymls, faults)
  <2>1. /\ r.created <= clock /\ r.started <= clock /\ r.time <= clock
        /\ r.rev <= Len(ymls) /\ r.yml <= Len(ymls) /\ r.tip <= Len(ymls)
        /\ r.run <= faults
    BY <1>1, <1>2, <1>10 DEF RecordOK
  <2>2. r.time = Floor(r.created) /\ r.started - r.created < Deadline
    BY <1>1, <1>10 DEF RecordOK, Running
  <2>3. r.phase \notin {"pending", "push"} /\ r.rev # 0 BY <1>2, <1>6, <1>10
  <2>4. r.phase = "loop" =>
          /\ r.yml = r.rev /\ ymls[r.rev] # BadCron
          /\ r.todo \subseteq DOMAIN JobsIn(ymls[r.rev])
          /\ r.job # 0 => r.todo \subseteq {r.job}
    BY <1>6, <1>10
  <2>5. QED BY <2>1, <2>2, <2>3, <2>4 DEF RecordOK
<1>13. LoopOK(r, t, ymls, submitted)
  <2>1. r.phase # "done" BY <1>6, <1>10
  <2>2. r.phase = "loop" /\ r.job = 0 => r.todo = DOMAIN JobsIn(ymls[r.rev]) BY <1>6, <1>10
  <2>3. DueIn(ymls[r.rev], r.time) \subseteq DOMAIN JobsIn(ymls[r.rev]) BY DEF DueIn
  <2>4. QED BY <2>1, <2>2, <2>3 DEF LoopOK
<1>14. QED BY <1>5, <1>7, <1>9, <1>11, <1>12, <1>13, FactsOfTheRest, TaskMoves

\* What the loop sees.
LEMMA FactsOfTheLoop ==
  ASSUME IInv, NEW t \in Id, tasks[t].phase = "loop"
  PROVE  /\ tasks[t].rev \in 1 .. Len(ymls) /\ tasks[t].rev \in 1 .. MaxPushes
         /\ tasks[t].yml = tasks[t].rev /\ Jobs(t) = JobsIn(ymls[tasks[t].rev])
         /\ ymls[tasks[t].rev] # BadCron /\ tasks[t].todo \subseteq DOMAIN Jobs(t)
         /\ tasks[t].time = Floor(tasks[t].created)
<1>1. tasks[t] \in TaskRecord /\ RecordOK(tasks[t], clock, ymls, faults)
  BY FactsOfATask
<1>2. tasks[t].rev \in 1 .. Len(ymls) /\ tasks[t].rev \in 1 .. MaxPushes
  <2> DEFINE a == tasks[t].rev
             n == Len(ymls)
  <2>1. n \in Nat /\ n <= MaxPushes /\ MaxPushes \in Nat BY FactsOfTheRest, Bounds
  <2>2. a \in Nat BY <1>1, FieldsOfARecord
  <2>3. a # 0 /\ a <= n BY <1>1 DEF RecordOK
  <2> HIDE DEF a, n
  <2>4. a \in 1 .. n /\ a \in 1 .. MaxPushes BY <2>1, <2>2, <2>3
  <2>5. QED BY <2>4 DEF a, n
<1>3. tasks[t].yml = tasks[t].rev BY <1>1 DEF RecordOK
<1>4. Jobs(t) = JobsIn(ymls[tasks[t].rev]) BY <1>3 DEF Jobs, JobsAt, JobsIn
<1>5. QED BY <1>1, <1>2, <1>3, <1>4 DEF RecordOK, Running

\* The loop of a task takes a step, which may submit job j.
LEMMA LoopMoves ==
  ASSUME IInv, NEW t \in Id, tasks[t].phase = "loop",
         NEW r \in TaskRecord, tasks' = [tasks EXCEPT ![t] = r],
         UNCHANGED <<clock, nextFire, ymls, indexed, lags, forced>>,
         faults <= faults', faults' \in 0 .. MaxFaults,
         r.created = tasks[t].created, r.job = tasks[t].job, r.run = tasks[t].run,
         r.started = tasks[t].started, r.time = tasks[t].time, r.rev = tasks[t].rev,
         r.yml = tasks[t].yml, r.tip = tasks[t].tip,
         r.phase \in {"loop"} \cup Over, r.todo \subseteq tasks[t].todo,
         NEW j \in tasks[t].todo \cup {0}, NEW copies \in SUBSET {1, 2},
         \/ submitted' = submitted
         \/ /\ j # 0 /\ ShouldRun(t, j)
            /\ submitted' = submitted \cup Created(t, j, copies),
         LoopOK(r, t, ymls, submitted')
  PROVE  IInv'
<1>1. /\ tasks[t] \in TaskRecord /\ RecordOK(tasks[t], clock, ymls, faults)
      /\ t \in Nat
  BY FactsOfATask
<1>2. Follows(r, tasks[t]) BY DEF Follows, Early, Over
<1>3. RecordOK(r, clock, ymls, faults')
  <2>1. r.run <= faults'
    <3> DEFINE a == tasks[t].run
    <3>1. a \in Nat BY <1>1, FieldsOfARecord
    <3>2. a <= faults BY <1>1 DEF RecordOK
    <3>3. faults \in Nat /\ faults' \in Nat BY FactsOfTheRest, Bounds
    <3> HIDE DEF a
    <3>4. a <= faults' BY <3>1, <3>2, <3>3
    <3>5. QED BY <3>4 DEF a
  <2>2. /\ r.created <= clock /\ r.started <= clock /\ r.time <= clock
        /\ r.rev <= Len(ymls) /\ r.yml <= Len(ymls) /\ r.tip <= Len(ymls)
    BY <1>1 DEF RecordOK
  <2>3. r.phase \notin {"pending", "push"} /\ r.rev # 0 BY <1>1 DEF RecordOK, Over
  <2>4. r.time = Floor(r.created) /\ r.started - r.created < Deadline
    BY <1>1 DEF RecordOK, Running
  <2>5. /\ r.yml = r.rev /\ ymls[r.rev] # BadCron
        /\ r.todo \subseteq DOMAIN JobsIn(ymls[r.rev])
        /\ r.job # 0 => r.todo \subseteq {r.job}
    BY <1>1 DEF RecordOK
  <2>6. QED BY <2>1, <2>2, <2>3, <2>4, <2>5 DEF RecordOK
<1>4. \A s \in submitted' \ submitted : NewSubOK(s, t, r, ymls)
  <2> SUFFICES ASSUME NEW s \in submitted', s \notin submitted
               PROVE  NewSubOK(s, t, r, ymls)
    OBVIOUS
  <2>1. j \in tasks[t].todo /\ ShouldRun(t, j) /\ s \in Created(t, j, copies) OBVIOUS
  <2>2. PICK c \in {1, 2} :
          s = [job |-> j, time |-> tasks[t].time, rev |-> tasks[t].rev,
               yml |-> tasks[t].yml, by |-> t, run |-> tasks[t].run, copy |-> c]
    BY <2>1 DEF Created
  <2>3. j \in Job BY <1>1, <2>1, FieldsOfARecord
  <2>4. /\ tasks[t].rev \in 1 .. MaxPushes /\ tasks[t].yml \in 1 .. MaxPushes
        /\ tasks[t].time \in Time /\ tasks[t].run \in 0 .. MaxFaults
    BY <1>1, FactsOfTheLoop DEF TaskRecord
  <2>5. s \in SubRecord BY <1>1, <2>2, <2>3, <2>4 DEF SubRecord
  <2>6. /\ s.by = t /\ s.run = r.run /\ s.rev = r.rev /\ s.yml = r.yml
        /\ s.time = tasks[t].time /\ s.job = j
    BY <2>2
  <2>7. /\ ymls[s.rev] # BadCron /\ j \in DOMAIN JobsIn(ymls[s.rev])
        /\ s.time = Floor(r.created)
    BY <2>1, <2>6, FactsOfTheLoop
  <2>8. r.job = 0 => Matches(JobsIn(ymls[s.rev])[j], s.time)
    BY <2>1, <2>6, FactsOfTheLoop DEF ShouldRun, Matches
  <2>9. r.phase \notin Early BY DEF Early, Over
  <2>10. QED BY <2>5, <2>6, <2>7, <2>8, <2>9 DEF NewSubOK
<1>5. submitted \subseteq submitted' OBVIOUS
<1>6. lags' \in 0 .. MaxLag /\ forced' \in 0 .. MaxForced BY FactsOfTheRest
<1>7. QED BY <1>2, <1>3, <1>4, <1>5, <1>6, TaskChanges

\* Job j leaves the jobs the loop has to look at; it may be noted as failed.
LEMMA JobDone ==
  ASSUME IInv, NEW t \in Id, NEW j, Turn(t, j), NEW failed \in SUBSET Job,
         tasks' = [tasks EXCEPT ![t] = [tasks[t] EXCEPT !.todo = tasks[t].todo \ {j},
                                                        !.failed = failed]],
         UNCHANGED <<clock, nextFire, ymls, indexed, lags, forced>>,
         faults <= faults', faults' \in 0 .. MaxFaults,
         NEW copies \in SUBSET {1, 2},
         submitted' = submitted
           \/ (ShouldRun(t, j) /\ submitted' = submitted \cup Created(t, j, copies)),
         tasks[t].failed \subseteq failed,
         \/ ~ShouldRun(t, j)
         \/ j \in failed
         \/ copies # {} /\ submitted' = submitted \cup Created(t, j, copies)
  PROVE  IInv'
<1> DEFINE r == [tasks[t] EXCEPT !.todo = tasks[t].todo \ {j}, !.failed = failed]
<1>1. /\ tasks[t] \in TaskRecord /\ LoopOK(tasks[t], t, ymls, submitted)
      /\ tasks[t].phase = "loop" /\ j \in tasks[t].todo /\ j # 0
  BY FactsOfATask, FieldsOfARecord DEF Turn, At, Job
<1>2. r \in TaskRecord BY <1>1 DEF TaskRecord
<1>3. /\ r.created = tasks[t].created /\ r.job = tasks[t].job /\ r.run = tasks[t].run
      /\ r.started = tasks[t].started /\ r.time = tasks[t].time
      /\ r.tries = tasks[t].tries /\ r.rev = tasks[t].rev /\ r.yml = tasks[t].yml
      /\ r.tip = tasks[t].tip
      /\ r.phase = "loop" /\ r.todo = tasks[t].todo \ {j} /\ r.failed = failed
  BY <1>1 DEF TaskRecord
<1>4. tasks' = [tasks EXCEPT ![t] = r] OBVIOUS
<1> HIDE DEF r
<1>5. LoopOK(r, t, ymls, submitted')
  <2> DEFINE due == DueIn(ymls[tasks[t].rev], tasks[t].time)
             ran == RanIn(submitted', t, tasks[t].run)
  <2> SUFFICES ASSUME tasks[t].job = 0
               PROVE  due \subseteq (tasks[t].todo \ {j}) \cup failed \cup ran
    BY <1>3 DEF LoopOK
  <2>1. due \subseteq tasks[t].todo \cup tasks[t].failed
                       \cup RanIn(submitted, t, tasks[t].run)
    BY <1>1 DEF LoopOK
  <2>2. submitted \subseteq submitted' OBVIOUS
  <2>3. RanIn(submitted, t, tasks[t].run) \subseteq ran BY <2>2 DEF RanIn
  <2>4. CASE ~ShouldRun(t, j)
    <3>1. j \notin due
      BY <1>1, <2>4, FactsOfTheLoop DEF ShouldRun, DueIn, Matches
    <3>2. QED BY <2>1, <2>3, <3>1
  <2>5. CASE j \in failed BY <2>1, <2>3, <2>5
  <2>6. CASE copies # {} /\ submitted' = submitted \cup Created(t, j, copies)
    <3>0. PICK c \in copies : TRUE BY <2>6
    <3> DEFINE new == [job |-> j, time |-> tasks[t].time, rev |-> tasks[t].rev,
                       yml |-> tasks[t].yml, by |-> t, run |-> tasks[t].run, copy |-> c]
    <3>1. PICK s \in submitted' : s.job = j /\ s.by = t /\ s.run = tasks[t].run
      <4>1. new \in Created(t, j, copies) BY DEF Created
      <4>2. new.job = j /\ new.by = t /\ new.run = tasks[t].run OBVIOUS
      <4>3. QED BY <2>6, <4>1, <4>2
    <3>2. j \in ran BY <3>1 DEF RanIn
    <3>3. QED BY <2>1, <2>3, <3>2
  <2>7. QED BY <2>4, <2>5, <2>6
<1>6. r.todo \subseteq tasks[t].todo /\ r.phase \in {"loop"} \cup Over BY <1>3
<1>7. QED BY <1>1, <1>2, <1>3, <1>4, <1>5, <1>6, LoopMoves

LEMMA SkipJobOK == ASSUME IInv, NEW t \in Id, NEW j \in Job, SkipJob(t, j) PROVE IInv'
<1>1. tasks[t] \in TaskRecord /\ tasks[t].failed \in SUBSET Job
  BY FactsOfATask, FieldsOfARecord
<1>2. tasks' = [tasks EXCEPT ![t] = [tasks[t] EXCEPT !.todo = tasks[t].todo \ {j},
                                                     !.failed = tasks[t].failed]]
  <2>1. tasks' = [tasks EXCEPT ![t] = [tasks[t] EXCEPT !.todo = tasks[t].todo \ {j}]]
    BY DEF SkipJob
  <2>2. [tasks[t] EXCEPT !.todo = tasks[t].todo \ {j}]
          = [tasks[t] EXCEPT !.todo = tasks[t].todo \ {j}, !.failed = tasks[t].failed]
    BY <1>1 DEF TaskRecord
  <2>3. QED BY <2>1, <2>2
<1>3. /\ Turn(t, j) /\ ~ShouldRun(t, j) /\ {} \in SUBSET {1, 2}
      /\ UNCHANGED <<clock, nextFire, ymls, indexed, submitted, lags, faults, forced>>
  BY DEF SkipJob, envVars, boundVars
<1>4. QED BY <1>1, <1>2, <1>3, FactsOfTheRest, JobDone

LEMMA RunJobOK == ASSUME IInv, NEW t \in Id, NEW j \in Job, RunJob(t, j) PROVE IInv'
<1>1. tasks[t] \in TaskRecord /\ tasks[t].failed \in SUBSET Job
  BY FactsOfATask, FieldsOfARecord
<1>2. tasks' = [tasks EXCEPT ![t] = [tasks[t] EXCEPT !.todo = tasks[t].todo \ {j},
                                                     !.failed = tasks[t].failed]]
  <2>1. tasks' = [tasks EXCEPT ![t] = [tasks[t] EXCEPT !.todo = tasks[t].todo \ {j}]]
    BY DEF RunJob
  <2>2. [tasks[t] EXCEPT !.todo = tasks[t].todo \ {j}]
          = [tasks[t] EXCEPT !.todo = tasks[t].todo \ {j}, !.failed = tasks[t].failed]
    BY <1>1 DEF TaskRecord
  <2>3. QED BY <2>1, <2>2
<1>3. /\ Turn(t, j) /\ ShouldRun(t, j)
      /\ UNCHANGED <<clock, nextFire, ymls, indexed, lags, forced>>
  BY DEF RunJob, envVars
<1>4. PICK copies \in SUBSET {1, 2} :
        copies # {} /\ submitted' = submitted \cup Created(t, j, copies)
  BY DEF RunJob
<1>5. faults <= faults' /\ faults' \in 0 .. MaxFaults
  BY FactsOfTheRest, Bounds DEF RunJob
<1>6. QED BY <1>1, <1>2, <1>3, <1>4, <1>5, JobDone

LEMMA JobFailsOK == ASSUME IInv, NEW t \in Id, NEW j \in Job, JobFails(t, j) PROVE IInv'
<1> DEFINE failed == tasks[t].failed \cup {j}
<1>1. tasks[t] \in TaskRecord /\ failed \in SUBSET Job
  BY FactsOfATask, FieldsOfARecord
<1>2. tasks' = [tasks EXCEPT ![t] = [tasks[t] EXCEPT !.todo = tasks[t].todo \ {j},
                                                     !.failed = failed]]
  BY <1>1 DEF JobFails
<1>3. /\ Turn(t, j) /\ ShouldRun(t, j)
      /\ UNCHANGED <<clock, nextFire, ymls, indexed, lags, forced>>
  BY DEF JobFails, envVars
<1>4. PICK copies \in SUBSET {1, 2} :
        submitted' = submitted \/ submitted' = submitted \cup Created(t, j, copies)
  BY DEF JobFails
<1>5. faults <= faults' /\ faults' \in 0 .. MaxFaults
  BY FactsOfTheRest, Bounds DEF JobFails
<1>6. tasks[t].failed \subseteq failed /\ j \in failed OBVIOUS
<1> HIDE DEF failed
<1>7. QED BY <1>1, <1>2, <1>3, <1>4, <1>5, <1>6, JobDone

\* The task leaves what it was doing and is over.
LEMMA TaskEnds ==
  ASSUME IInv, NEW t \in Id, NEW q \in Over, NEW todo \in SUBSET Job,
         tasks[t].phase \in Running \cup {"pending"},
         tasks' = [tasks EXCEPT ![t] = [tasks[t] EXCEPT !.phase = q, !.todo = todo]],
         UNCHANGED <<clock, nextFire, ymls, indexed, submitted, lags, forced>>,
         faults <= faults', faults' \in 0 .. MaxFaults,
         q = "done" => /\ tasks[t].phase = "loop"
                       /\ tasks[t].todo = {} /\ tasks[t].failed = {}
  PROVE  IInv'
<1> DEFINE r == [tasks[t] EXCEPT !.phase = q, !.todo = todo]
<1>1. /\ tasks[t] \in TaskRecord /\ RecordOK(tasks[t], clock, ymls, faults)
      /\ LoopOK(tasks[t], t, ymls, submitted) /\ tasks[t].run \in Nat
  BY FactsOfATask, FieldsOfARecord
<1>2. r \in TaskRecord BY <1>1 DEF TaskRecord
<1>3. /\ r.created = tasks[t].created /\ r.job = tasks[t].job /\ r.run = tasks[t].run
      /\ r.started = tasks[t].started /\ r.time = tasks[t].time
      /\ r.tries = tasks[t].tries /\ r.rev = tasks[t].rev /\ r.yml = tasks[t].yml
      /\ r.tip = tasks[t].tip
      /\ r.phase = q
  BY <1>1 DEF TaskRecord
<1>4. tasks' = [tasks EXCEPT ![t] = r] OBVIOUS
<1> HIDE DEF r
<1>5. q \notin Early /\ q \notin Running /\ q # "loop" /\ q # "pending"
  BY DEF Over, Early, Running
<1>6. Follows(r, tasks[t])
  <2>1. r.phase \notin Early BY <1>3, <1>5
  <2>2. QED BY <1>3, <2>1 DEF Follows
<1>7. RecordOK(r, clock, ymls, faults')
  <2>1. r.run <= faults' BY <1>1, <1>3, FactsOfTheRest, Bounds DEF RecordOK
  <2>2. /\ r.created <= clock /\ r.started <= clock /\ r.time <= clock
        /\ r.rev <= Len(ymls) /\ r.yml <= Len(ymls) /\ r.tip <= Len(ymls)
    BY <1>1, <1>3 DEF RecordOK
  <2>3. r.phase \notin {"pending", "push", "load", "loop"} /\ r.phase \notin Running
    BY <1>3, <1>5 DEF Running
  <2>4. QED BY <2>1, <2>2, <2>3 DEF RecordOK
<1>8. LoopOK(r, t, ymls, submitted)
  <2>1. CASE q = "done" BY <1>1, <1>3, <2>1 DEF LoopOK
  <2>2. CASE q # "done" BY <1>3, <1>5, <2>2 DEF LoopOK
  <2>3. QED BY <2>1, <2>2
<1>9. QED BY <1>2, <1>4, <1>6, <1>7, <1>8, FactsOfTheRest, TaskMoves

LEMMA ScheduleRaisesOK ==
  ASSUME IInv, NEW t \in Id, NEW j \in Job, ScheduleRaises(t, j) PROVE IInv'
<1>1. /\ tasks[t] \in TaskRecord /\ tasks[t].phase = "loop" /\ "failed" \in Over
  BY FactsOfATask DEF ScheduleRaises, Turn, At, Over
<1>2. tasks' = [tasks EXCEPT ![t] = [tasks[t] EXCEPT !.phase = "failed", !.todo = {}]]
  BY <1>1 DEF ScheduleRaises
<1>3. UNCHANGED <<clock, nextFire, ymls, indexed, submitted, lags, faults, forced>>
  BY DEF ScheduleRaises, envVars, boundVars
<1>4. tasks[t].phase \in Running \cup {"pending"} /\ {} \in SUBSET Job
  BY <1>1 DEF Running
<1>5. QED BY <1>1, <1>2, <1>3, <1>4, FactsOfTheRest, TaskEnds

\* Changing the phase alone leaves todo what it is.
LEMMA PhaseAlone ==
  ASSUME NEW r \in TaskRecord, NEW q
  PROVE  /\ [r EXCEPT !.phase = q] = [r EXCEPT !.phase = q, !.todo = r.todo]
         /\ r.todo \in SUBSET Job
BY FieldsOfARecord DEF TaskRecord

LEMMA FinishOK == ASSUME IInv, NEW t \in Id, Finish(t) PROVE IInv'
<1> DEFINE q == RaiseErrorIfAny(t)
<1>1. /\ tasks[t] \in TaskRecord /\ tasks[t].phase = "loop" /\ tasks[t].todo = {}
      /\ tasks[t].phase \in Running \cup {"pending"}
  BY FactsOfATask DEF Finish, At, Running
<1>2. q \in Over /\ (q = "done" => tasks[t].failed = {}) BY DEF RaiseErrorIfAny, Over
<1>3. UNCHANGED <<clock, nextFire, ymls, indexed, submitted, lags, faults, forced>>
  BY DEF Finish, envVars, boundVars
<1>4. tasks' = [tasks EXCEPT ![t] = [tasks[t] EXCEPT !.phase = q]]
  BY <1>1 DEF Finish
<1> HIDE DEF q
<1>5. tasks' = [tasks EXCEPT ![t] = [tasks[t] EXCEPT !.phase = q, !.todo = tasks[t].todo]]
  BY <1>1, <1>4, PhaseAlone
<1>6. QED BY <1>1, <1>2, <1>3, <1>5, FactsOfTheRest, PhaseAlone, TaskEnds

LEMMA RunEndsOK == ASSUME IInv, NEW t \in Id, RunEnds(t) PROVE IInv'
<1>1. /\ tasks[t] \in TaskRecord /\ tasks[t].phase \in Running \cup {"pending"}
      /\ "failed" \in Over /\ "failed" # "done"
  BY FactsOfATask DEF RunEnds, Over
<1>2. UNCHANGED <<clock, nextFire, ymls, indexed, submitted, lags, forced>>
  BY DEF RunEnds, envVars
<1>3. tasks' = [tasks EXCEPT ![t] = [tasks[t] EXCEPT !.phase = "failed"]]
  BY <1>1 DEF RunEnds
<1>4. faults <= faults' /\ faults' \in 0 .. MaxFaults
  BY FactsOfTheRest, Bounds DEF RunEnds
<1>5. tasks' = [tasks EXCEPT ![t] =
                  [tasks[t] EXCEPT !.phase = "failed", !.todo = tasks[t].todo]]
  BY <1>1, <1>3, PhaseAlone
<1>6. QED BY <1>1, <1>2, <1>4, <1>5, PhaseAlone, TaskEnds

LEMMA ExpireOK == ASSUME IInv, NEW t \in Id, Expire(t) PROVE IInv'
<1>1. /\ tasks[t] \in TaskRecord /\ tasks[t].phase \in Running \cup {"pending"}
      /\ "expired" \in Over /\ "expired" # "done"
  BY FactsOfATask DEF Expire, Over
<1>2. UNCHANGED <<clock, nextFire, ymls, indexed, submitted, lags, faults, forced>>
  BY DEF Expire, envVars, boundVars
<1>3. tasks' = [tasks EXCEPT ![t] = [tasks[t] EXCEPT !.phase = "expired"]]
  BY <1>1 DEF Expire
<1>4. tasks' = [tasks EXCEPT ![t] =
                  [tasks[t] EXCEPT !.phase = "expired", !.todo = tasks[t].todo]]
  BY <1>1, <1>3, PhaseAlone
<1>5. QED BY <1>1, <1>2, <1>4, FactsOfTheRest, PhaseAlone, TaskEnds

LEMMA WorkerDiesOK == ASSUME IInv, NEW t \in Id, WorkerDies(t) PROVE IInv'
<1> DEFINE r == [tasks[t] EXCEPT
                  !.phase = "pending", !.run = tasks[t].run + 1, !.tries = 0, !.rev = 0,
                  !.yml = 0, !.todo = {}, !.failed = {}]
<1>1. /\ tasks[t] \in TaskRecord /\ RecordOK(tasks[t], clock, ymls, faults)
      /\ tasks[t].run \in Nat /\ tasks[t].run <= faults
  BY FactsOfATask, FieldsOfARecord DEF RecordOK
<1>2. /\ faults < MaxFaults /\ faults' = faults + 1
      /\ UNCHANGED <<clock, nextFire, ymls, indexed, submitted, lags, forced>>
  BY DEF WorkerDies, envVars
<1>3. /\ faults <= faults' /\ faults' \in 0 .. MaxFaults
      /\ tasks[t].run + 1 \in 0 .. MaxFaults /\ tasks[t].run + 1 <= faults'
  <2>1. faults \in Nat /\ MaxFaults \in Nat BY FactsOfTheRest, Bounds
  <2>2. /\ tasks[t].run \in Nat /\ tasks[t].run <= faults
        /\ faults < MaxFaults /\ faults' = faults + 1
    BY <1>1, <1>2
  <2>3. QED BY <2>1, <2>2
<1>4. tasks' = [tasks EXCEPT ![t] = r] BY <1>1 DEF WorkerDies
<1>5. r \in TaskRecord
  <2>1. 0 \in 0 .. Attempts /\ 0 \in 0 .. MaxPushes BY Bounds
  <2>2. QED BY <1>1, <1>3, <2>1 DEF TaskRecord
<1>6. /\ r.created = tasks[t].created /\ r.job = tasks[t].job /\ r.run = tasks[t].run + 1
      /\ r.phase = "pending" /\ r.started = tasks[t].started /\ r.time = tasks[t].time
      /\ r.tries = 0 /\ r.rev = 0 /\ r.yml = 0 /\ r.tip = tasks[t].tip
  BY <1>1 DEF TaskRecord
<1> HIDE DEF r
<1>7. Follows(r, tasks[t]) BY <1>1, <1>6 DEF Follows
<1>8. RecordOK(r, clock, ymls, faults')
  BY <1>1, <1>3, <1>6, FactsOfTheRest, Bounds DEF RecordOK, Running
<1>9. LoopOK(r, t, ymls, submitted) BY <1>6 DEF LoopOK
<1>10. QED BY <1>2, <1>3, <1>4, <1>5, <1>7, <1>8, <1>9, FactsOfTheRest, TaskMoves

LEMMA PassTimeOK == ASSUME IInv, PassTime PROVE IInv'
<1>1. UNCHANGED <<nextFire, ymls, indexed, tasks, submitted, lags, faults, forced>>
  BY DEF PassTime, boundVars
<1>2. clock' \in Time /\ clock <= clock'
  BY FactsOfTheRest, Bounds DEF PassTime, Time
<1>3. /\ ymls' \in Seq(CronYml) /\ Len(ymls') <= MaxPushes /\ Extends(ymls, ymls')
      /\ indexed' \subseteq 1 .. Len(ymls')
  BY <1>1, FactsOfTheRest DEF Extends, IInv, TypeInv
<1>4. QED BY <1>1, <1>2, <1>3, EnvChanges

LEMMA PushOK == ASSUME IInv, NEW c \in CronYml, Push(c) PROVE IInv'
<1>1. /\ UNCHANGED <<clock, nextFire, indexed, tasks, submitted, lags, faults, forced>>
      /\ Len(ymls) < MaxPushes /\ ymls' = Append(ymls, c)
  BY DEF Push, boundVars, Tip
<1>2. clock' \in Time /\ clock <= clock' BY <1>1, FactsOfTheRest
<1>3. /\ ymls' \in Seq(CronYml) /\ Len(ymls') = Len(ymls) + 1
      /\ \A i \in 1 .. Len(ymls) : ymls'[i] = ymls[i]
  BY <1>1, FactsOfTheRest
<1>4. Len(ymls') <= MaxPushes /\ Extends(ymls, ymls')
  BY <1>1, <1>3, FactsOfTheRest, Bounds DEF Extends
<1>5. indexed' \subseteq 1 .. Len(ymls')
  BY <1>1, <1>3, FactsOfTheRest DEF IInv, TypeInv
<1>6. QED BY <1>1, <1>2, <1>3, <1>4, <1>5, EnvChanges

LEMMA IndexOK == ASSUME IInv, NEW r \in 1 .. MaxPushes, Index(r) PROVE IInv'
<1>1. /\ UNCHANGED <<clock, nextFire, ymls, tasks, submitted, lags, faults, forced>>
      /\ r \in 1 .. Len(ymls) /\ indexed' = indexed \cup {r}
  BY DEF Index, boundVars, Tip
<1>2. /\ clock' \in Time /\ clock <= clock' /\ ymls' \in Seq(CronYml)
      /\ Len(ymls') <= MaxPushes /\ Extends(ymls, ymls')
  BY <1>1, FactsOfTheRest DEF Extends
<1>3. indexed' \subseteq 1 .. Len(ymls') BY <1>1 DEF IInv, TypeInv
<1>4. QED BY <1>1, <1>2, <1>3, EnvChanges

LEMMA HookFiresOK == ASSUME IInv, HookFires PROVE IInv'
<1>1. /\ UNCHANGED <<clock, ymls, indexed, submitted, lags, faults, forced>>
      /\ tasks' = Append(tasks, NewTask(0)) /\ clock >= nextFire
      /\ nextFire' = (clock \div SlotLength + 1) * SlotLength
  BY DEF HookFires, boundVars
<1>2. forced' \in 0 .. MaxForced /\ 0 \in Job \cup {0} BY <1>1, FactsOfTheRest
<1>3. QED BY <1>1, <1>2, TaskAdded

LEMMA TargetFiresOK == ASSUME IInv, NEW j \in Job, TargetFires(j) PROVE IInv'
<1>1. /\ UNCHANGED <<clock, nextFire, ymls, indexed, submitted, lags, faults>>
      /\ tasks' = Append(tasks, NewTask(j))
  BY DEF TargetFires, envVars
<1>2. forced' \in 0 .. MaxForced BY FactsOfTheRest, Bounds DEF TargetFires
<1>3. j # 0 /\ j \in Job \cup {0} BY Bounds DEF Job
<1>4. QED BY <1>1, <1>2, <1>3, TaskAdded

LEMMA InitOK == Init => IInv
<1> SUFFICES ASSUME Init PROVE IInv OBVIOUS
<1>1. tasks = << >> /\ submitted = {} /\ Id = {} BY DEF Init, Id
<1>2. TypeInv BY Bounds DEF Init, TypeInv, Time
<1>3. RecordInv /\ SlotInv /\ SubInv /\ RunInv /\ LoopInv
  BY <1>1 DEF RecordInv, SlotInv, SubInv, RunInv, LoopInv
<1>4. QED BY <1>2, <1>3 DEF IInv

LEMMA StepOK == IInv /\ [Next]_vars => IInv'
<1> SUFFICES ASSUME IInv, [Next]_vars PROVE IInv' OBVIOUS
<1>1. CASE PassTime BY <1>1, PassTimeOK
<1>2. CASE HookFires BY <1>2, HookFiresOK
<1>3. CASE \E c \in CronYml : Push(c) BY <1>3, PushOK
<1>4. CASE \E r \in 1 .. MaxPushes : Index(r) BY <1>4, IndexOK
<1>5. CASE \E j \in Job : TargetFires(j) BY <1>5, TargetFiresOK
<1>6. ASSUME NEW t \in Id, TaskStep(t) PROVE IInv'
  BY <1>6, StartOK, GetPushInfoOK, LoadJobsOK, FinishOK, SkipJobOK, ScheduleRaisesOK,
     RunJobOK, JobFailsOK DEF TaskStep
<1>7. ASSUME NEW t \in Id, RunEnds(t) \/ WorkerDies(t) \/ Expire(t) PROVE IInv'
  BY <1>7, RunEndsOK, WorkerDiesOK, ExpireOK
<1>8. CASE UNCHANGED vars
  BY <1>8 DEF vars, IInv, TypeInv, RecordInv, SlotInv, SubInv, RunInv, LoopInv, Id
<1>9. QED BY <1>1, <1>2, <1>3, <1>4, <1>5, <1>6, <1>7, <1>8 DEF Next

LEMMA Invariant == Spec => []IInv
BY InitOK, StepOK, PTL DEF Spec

-----------------------------------------------------------------------------
\* What IInv says of a submission and its task.
LEMMA FactsOfASubmission ==
  ASSUME IInv, NEW s \in submitted
  PROVE  /\ s \in SubRecord /\ SubOK(s, tasks, ymls) /\ s.by \in Id
         /\ tasks[s.by] \in TaskRecord
         /\ s.time \in Nat /\ s.time <= tasks[s.by].created
         /\ tasks[s.by].created <= clock
<1>1. s \in SubRecord /\ SubOK(s, tasks, ymls) BY DEF IInv, TypeInv, SubInv
<1>2. s.by \in Id /\ s.time = Floor(tasks[s.by].created) BY <1>1 DEF SubOK, Id
<1>3. tasks[s.by] \in TaskRecord /\ RecordOK(tasks[s.by], clock, ymls, faults)
  BY <1>2, FactsOfATask
<1>4. tasks[s.by].created \in Nat /\ tasks[s.by].created <= clock
  BY <1>3, FieldsOfARecord DEF RecordOK
<1>5. QED BY <1>1, <1>2, <1>3, <1>4, FloorBounds

\* TypeOK: the times, runs and revisions of every task and submission stay
\* within what has passed, failed and been pushed.
THEOREM TypeCorrect == Spec => []TypeOK
<1>1. IInv => TypeOK
  <2> SUFFICES ASSUME IInv PROVE TypeOK OBVIOUS
  <2>1. \A t \in Id :
          tasks[t] \in
            [created : 0 .. clock, job : Job \cup {0}, run : 0 .. MaxFaults,
             phase : {"pending"} \cup Running \cup Over, started : 0 .. clock,
             time : 0 .. clock, tries : 0 .. Attempts, rev : 0 .. Tip,
             yml : 0 .. Tip, todo : SUBSET Job, failed : SUBSET Job, tip : 0 .. Tip]
    <3> SUFFICES ASSUME NEW t \in Id
                 PROVE  /\ tasks[t] \in TaskRecord
                        /\ tasks[t].created \in 0 .. clock
                        /\ tasks[t].started \in 0 .. clock /\ tasks[t].time \in 0 .. clock
                        /\ tasks[t].rev \in 0 .. Tip /\ tasks[t].yml \in 0 .. Tip
                        /\ tasks[t].tip \in 0 .. Tip
      BY DEF TaskRecord
    <3>1. tasks[t] \in TaskRecord /\ RecordOK(tasks[t], clock, ymls, faults)
      BY FactsOfATask
    <3>2. QED BY <3>1, FieldsOfARecord, FactsOfTheRest DEF RecordOK, Tip
  <2>2. \A s \in submitted :
          s \in [job : Job, time : 0 .. clock, rev : 1 .. Tip, yml : 1 .. Tip,
                 by : Id, run : 0 .. MaxFaults, copy : {1, 2}]
    <3> SUFFICES ASSUME NEW s \in submitted
                 PROVE  /\ s \in SubRecord /\ s.time \in 0 .. clock /\ s.by \in Id
                        /\ s.rev \in 1 .. Tip /\ s.yml \in 1 .. Tip
      BY DEF SubRecord
    <3>1. /\ s \in SubRecord /\ SubOK(s, tasks, ymls) /\ s.by \in Id
          /\ s.time \in Nat /\ s.time <= tasks[s.by].created
          /\ tasks[s.by].created \in Nat /\ tasks[s.by].created <= clock
      BY FactsOfASubmission, FieldsOfARecord
    <3>2. s.time \in 0 .. clock BY <3>1, FactsOfTheRest
    <3>3. s.rev \in 1 .. MaxPushes /\ s.yml \in 1 .. MaxPushes BY <3>1 DEF SubRecord
    <3>4. s.rev <= Len(ymls) /\ s.yml <= Len(ymls) BY <3>1 DEF SubOK
    <3>5. s.rev \in 1 .. Tip /\ s.yml \in 1 .. Tip
      BY <3>3, <3>4, FactsOfTheRest, Bounds DEF Tip
    <3>6. QED BY <3>1, <3>2, <3>5
  <2>3. \A r \in 1 .. Tip : ymls[r] \in CronYml BY FactsOfTheRest DEF Tip
  <2>4. QED BY <2>1, <2>2, <2>3 DEF TypeOK, IInv, TypeInv, Tip
<1>2. QED BY <1>1, Invariant, PTL

\* OncePerSlot: however late the tasks of the schedule are fired and run, two
\* submissions of one job for one time are by one task: by two runs of it, or
\* by a trigger that was repeated.
THEOREM OnceHolds == Spec => []OncePerSlot
<1>1. IInv => OncePerSlot
  <2> SUFFICES ASSUME IInv, NEW a \in submitted, NEW b \in submitted,
                      a.job = b.job, a.time = b.time, a # b,
                      tasks[a.by].job = 0, tasks[b.by].job = 0
               PROVE  a.by = b.by /\ (a.run # b.run \/ a.copy # b.copy)
    BY DEF OncePerSlot, Scheduled
  <2>1. /\ a \in SubRecord /\ b \in SubRecord /\ a.by \in Id /\ b.by \in Id
        /\ SubOK(a, tasks, ymls) /\ SubOK(b, tasks, ymls)
    BY FactsOfASubmission
  <2>2. Floor(tasks[a.by].created) = Floor(tasks[b.by].created) BY <2>1 DEF SubOK
  <2>3. a.by = b.by BY <2>1, <2>2 DEF IInv, SlotInv
  <2>4. ASSUME a.run = b.run, a.copy = b.copy PROVE FALSE
    <3>1. a.rev = b.rev /\ a.yml = b.yml BY <2>3, <2>4 DEF IInv, RunInv
    <3>2. a = b BY <2>1, <2>3, <2>4, <3>1 DEF SubRecord
    <3>3. QED BY <3>2
  <2>5. QED BY <2>3, <2>4
<1>2. QED BY <1>1, Invariant, PTL

\* JobsOfTheirRevision: a decision task runs the very revision whose .cron.yml
\* asked for its job, whatever was pushed between the two requests.
THEOREM RevisionsHold == Spec => []JobsOfTheirRevision
<1>1. IInv => JobsOfTheirRevision
  <2> SUFFICES ASSUME IInv, NEW s \in submitted
               PROVE  LET f == JobsAt(s.rev) IN
                        /\ ymls[s.rev] # BadCron /\ s.job \in DOMAIN f
                        /\ Scheduled(s) => f[s.job].here /\ s.time \in f[s.job].when
    BY DEF JobsOfTheirRevision
  <2>1. SubOK(s, tasks, ymls) BY FactsOfASubmission
  <2>2. JobsAt(s.rev) = JobsIn(ymls[s.rev]) BY DEF JobsAt, JobsIn
  <2>3. QED BY <2>1, <2>2 DEF SubOK, Scheduled, Matches
<1>2. QED BY <1>1, Invariant, PTL

LEMMA DueIsDueIn ==
  ASSUME NEW t \in Id
  PROVE  /\ Due(t) = DueIn(ymls[tasks[t].rev], tasks[t].time)
         /\ RunBy(t) = RanIn(submitted, t, tasks[t].run)
<1>1. JobsAt(tasks[t].rev) = JobsIn(ymls[tasks[t].rev]) BY DEF JobsAt, JobsIn
<1>2. QED BY <1>1 DEF Due, DueIn, Matches, RunBy, RanIn

-----------------------------------------------------------------------------
\* A step that is not one of task t's own leaves its record alone.
LEMMA OthersStay ==
  ASSUME IInv, NEW t \in Id, [Next]_vars
  PROVE  \/ tasks'[t] = tasks[t]
         \/ TaskStep(t) \/ RunEnds(t) \/ WorkerDies(t) \/ Expire(t)
<1>1. tasks \in Seq(TaskRecord) /\ DOMAIN tasks = Id BY DEF IInv, TypeInv, Id
<1>2. ASSUME NEW n, tasks' = Append(tasks, n) PROVE tasks'[t] = tasks[t]
  BY <1>1, <1>2 DEF Id
<1>3. CASE HookFires \/ \E j \in Job : TargetFires(j)
  BY <1>2, <1>3 DEF HookFires, TargetFires
<1>4. CASE \/ PassTime \/ UNCHANGED vars
           \/ (\E c \in CronYml : Push(c)) \/ \E r \in 1 .. MaxPushes : Index(r)
  BY <1>4 DEF PassTime, Push, Index, vars
<1>5. ASSUME NEW u \in Id, u # t, TaskStep(u) \/ RunEnds(u) \/ WorkerDies(u) \/ Expire(u)
      PROVE  tasks'[t] = tasks[t]
  BY <1>1, <1>5 DEF TaskStep, Start, GetPushInfo, NoPushes, LoadJobs, Finish, SkipJob,
                    ScheduleRaises, RunJob, JobFails, RunEnds, WorkerDies, Expire
<1>6. QED BY <1>3, <1>4, <1>5 DEF Next

LEMMA TasksAdded ==
  ASSUME IInv, [Next]_vars, NEW t \in Id', t \notin Id
  PROVE  \E j \in Job \cup {0} : tasks' = Append(tasks, NewTask(j))
<1>1. tasks \in Seq(TaskRecord) /\ DOMAIN tasks = Id BY DEF IInv, TypeInv, Id
<1>2. tasks' # tasks
  <2> SUFFICES ASSUME tasks' = tasks PROVE FALSE OBVIOUS
  <2>1. Id' = Id BY DEF Id
  <2>2. QED BY <2>1
<1>3. ASSUME NEW u \in Id, TaskStep(u) \/ RunEnds(u) \/ WorkerDies(u) \/ Expire(u) PROVE FALSE
  <2>1. DOMAIN tasks' = DOMAIN tasks
    BY <1>1, <1>3 DEF TaskStep, Start, GetPushInfo, NoPushes, LoadJobs, Finish, SkipJob,
              ScheduleRaises, RunJob, JobFails, RunEnds, WorkerDies, Expire
  <2>2. tasks' \in Seq(TaskRecord) BY StepOK DEF IInv, TypeInv
  <2>3. Id' = Id BY <1>1, <2>1, <2>2 DEF Id
  <2>4. QED BY <2>3
<1>4. ASSUME NEW j \in Job, TargetFires(j) PROVE tasks' = Append(tasks, NewTask(j))
  BY <1>4 DEF TargetFires
<1>5. HookFires => tasks' = Append(tasks, NewTask(0)) BY DEF HookFires
<1>6. QED BY <1>2, <1>3, <1>4, <1>5 DEF Next, vars, PassTime, Push, Index

\* Every query a task makes without an answer is one that the pushlog lagged at,
\* once there are pushes.
LagOK(r, n) ==
  /\ r.phase = "pending" => r.tries = 0
  /\ r.phase = "push" /\ r.tip # 0 => r.tries <= n
  /\ r.phase = "done" /\ r.rev = 0 /\ r.tip # 0 => Attempts <= n
LagInv == \A t \in Id : LagOK(tasks[t], lags)

LEMMA LagsStay ==
  ASSUME NEW r \in TaskRecord, NEW n \in Nat, NEW m \in Nat, n <= m, LagOK(r, n)
  PROVE  LagOK(r, m)
<1>1. r.tries \in Nat /\ Attempts \in Nat BY FieldsOfARecord, Bounds
<1>2. QED BY <1>1 DEF LagOK

LEMMA LagStep == IInv /\ LagInv /\ [Next]_vars => LagInv'
<1> SUFFICES ASSUME IInv, LagInv, [Next]_vars, NEW t \in Id'
             PROVE  LagOK(tasks'[t], lags')
  BY DEF LagInv
<1>1. lags \in Nat /\ lags' \in Nat /\ lags <= lags'
  <2>1. lags \in Nat BY FactsOfTheRest, Bounds
  <2>2. lags' = lags \/ lags' = lags + 1
    BY DEF Next, PassTime, HookFires, Push, Index, TargetFires, TaskStep, Start, GetPushInfo,
           NoPushes, LoadJobs, Finish, SkipJob, ScheduleRaises, RunJob, JobFails, RunEnds,
           WorkerDies, Expire, envVars, boundVars, vars
  <2>3. QED BY <2>1, <2>2
<1>2. CASE t \notin Id
  <2>1. PICK j \in Job \cup {0} : tasks' = Append(tasks, NewTask(j)) BY <1>2, TasksAdded
  <2>2. tasks \in Seq(TaskRecord) BY DEF IInv, TypeInv
  <2>3. tasks'[t] = NewTask(j) BY <1>2, <2>1, <2>2 DEF Id
  <2>4. QED BY <2>3 DEF NewTask, LagOK
<1>3. CASE t \in Id
  <2>1. /\ tasks[t] \in TaskRecord /\ RecordOK(tasks[t], clock, ymls, faults)
        /\ LagOK(tasks[t], lags) /\ DOMAIN tasks = Id
    BY <1>3, FactsOfATask DEF LagInv, IInv, TypeInv, Id
  <2>2. CASE tasks'[t] = tasks[t] BY <1>1, <2>1, <2>2, LagsStay
  <2>3. CASE Start(t)
    <3>1. /\ tasks[t].phase = "pending" /\ tasks'[t].phase = "push"
          /\ tasks'[t].tries = tasks[t].tries
      BY <1>3, <2>1, <2>3 DEF Start, TaskRecord
    <3>2. QED BY <1>1, <2>1, <3>1 DEF LagOK
  <2>4. CASE GetPushInfo(t)
    <3>1. tasks[t].phase = "push" /\ tasks[t].rev = 0 /\ tasks[t].tries \in Nat
      BY <2>1, <2>4, FieldsOfARecord DEF GetPushInfo, At, RecordOK
    <3>2. CASE NoPushes(t)
      <4>1. /\ tasks'[t].tries = tasks[t].tries + 1 /\ tasks'[t].tip = tasks[t].tip
            /\ tasks'[t].phase \in {"push", "done"}
            /\ tasks'[t].phase = "done" => Attempts <= tasks[t].tries + 1
        <5>1. tasks'[t] = [tasks[t] EXCEPT !.tries = tasks[t].tries + 1,
                             !.phase = IF tasks[t].tries + 1 < Attempts THEN "push" ELSE "done"]
          BY <1>3, <2>1, <3>2 DEF NoPushes
        <5>2. QED BY <2>1, <3>1, <5>1, Bounds DEF TaskRecord
      <4>2. tasks[t].tip # 0 => Tip > 0
        <5>1. tasks[t].tip \in Nat /\ tasks[t].tip <= Len(ymls) /\ Len(ymls) \in Nat
          BY <2>1, FieldsOfARecord, FactsOfTheRest DEF RecordOK
        <5>2. QED BY <5>1 DEF Tip
      <4>3. tasks[t].tip # 0 => lags' = lags + 1 BY <3>2, <4>2 DEF NoPushes
      <4>4. tasks[t].tip # 0 => tasks[t].tries + 1 <= lags'
        BY <1>1, <2>1, <3>1, <4>3 DEF LagOK
      <4>5. QED BY <1>1, <3>1, <4>1, <4>4, Bounds DEF LagOK
    <3>3. CASE ~NoPushes(t)
      <4>1. tasks'[t].phase = "load" BY <1>3, <2>1, <2>4, <3>3 DEF GetPushInfo, TaskRecord
      <4>2. QED BY <4>1 DEF LagOK
    <3>4. QED BY <3>2, <3>3
  <2>5. CASE tasks[t].phase = "loop" /\ tasks'[t].rev = tasks[t].rev
               /\ tasks'[t].phase \notin {"pending", "push"}
    BY <2>1, <2>5 DEF LagOK, RecordOK
  <2>6. CASE tasks'[t].phase \in {"failed", "expired", "loop"} BY <2>6 DEF LagOK
  <2>7. CASE tasks'[t].phase = "pending" /\ tasks'[t].tries = 0 BY <2>7 DEF LagOK
  <2>8. QED
    <3>1. LoadJobs(t) \/ RunEnds(t) \/ Expire(t) => tasks'[t].phase \in {"failed", "expired", "loop"}
      BY <1>3, <2>1 DEF LoadJobs, RunEnds, Expire, TaskRecord
    <3>2. WorkerDies(t) => tasks'[t].phase = "pending" /\ tasks'[t].tries = 0
      BY <1>3, <2>1 DEF WorkerDies, TaskRecord
    <3>3. Finish(t) => /\ tasks[t].phase = "loop" /\ tasks'[t].rev = tasks[t].rev
                       /\ tasks'[t].phase \notin {"pending", "push"}
      BY <1>3, <2>1 DEF Finish, At, RaiseErrorIfAny, TaskRecord
    <3>4. ASSUME NEW j \in Job, SkipJob(t, j) \/ ScheduleRaises(t, j) \/ RunJob(t, j) \/ JobFails(t, j)
          PROVE  /\ tasks[t].phase = "loop" /\ tasks'[t].rev = tasks[t].rev
                 /\ tasks'[t].phase \notin {"pending", "push"}
      BY <1>3, <2>1, <3>4 DEF SkipJob, ScheduleRaises, RunJob, JobFails, Turn, At, TaskRecord
    <3>5. QED BY <1>3, <2>2, <2>3, <2>4, <2>5, <2>6, <2>7, <3>1, <3>2, <3>3, <3>4, OthersStay
            DEF TaskStep
<1>4. QED BY <1>2, <1>3

\* GreenMeansRun: a scheduled task that ends green has run every job that was due,
\* unless there were no pushes when its run began or the pushlog has lagged at as
\* many queries as a task makes.
THEOREM GreenHolds == Spec => []GreenMeansRun
<1>1. Init => LagInv BY DEF Init, LagInv, Id
<1>2. IInv /\ LagInv => GreenMeansRun
  <2> SUFFICES ASSUME IInv, LagInv, NEW t \in Id, tasks[t].phase = "done", tasks[t].job = 0
               PROVE  IF tasks[t].rev # 0 THEN Due(t) \subseteq RunBy(t)
                      ELSE tasks[t].tip = 0 \/ lags >= Attempts
    BY DEF GreenMeansRun
  <2>1. LoopOK(tasks[t], t, ymls, submitted) BY FactsOfATask
  <2>2. tasks[t].rev # 0 => Due(t) \subseteq RunBy(t) BY <2>1, DueIsDueIn DEF LoopOK
  <2>3. tasks[t].rev = 0 /\ tasks[t].tip # 0 => lags >= Attempts
    BY FactsOfTheRest, Bounds DEF LagInv, LagOK
  <2>4. QED BY <2>2, <2>3
<1>3. QED BY <1>1, <1>2, Invariant, LagStep, PTL DEF Spec

\* NoStorm: a job is never created longer after its time than a deadline, a
\* slot and a run take, however long everything was held up before.
THEOREM NoStormHolds == Spec => NoStorm
<1>1. IInv /\ [Next]_vars
        => [\A s \in submitted' \ submitted :
              clock - s.time < Deadline + SlotLength + RunTime]_vars
  <2> SUFFICES ASSUME IInv, Next, NEW s \in submitted', s \notin submitted
               PROVE  clock - s.time < Deadline + SlotLength + RunTime
    OBVIOUS
  <2>1. PICK t \in Id, j \in Job : RunJob(t, j) \/ JobFails(t, j)
    BY DEF Next, PassTime, HookFires, Push, Index, TargetFires, TaskStep, Start, LoadJobs,
           GetPushInfo, Finish, SkipJob, ScheduleRaises, RunEnds, WorkerDies, Expire
  <2>2. tasks[t].phase = "loop" /\ clock - tasks[t].started <= RunTime
    BY <2>1 DEF RunJob, JobFails, Turn, At
  <2>3. s \in Created(t, j, {1}) \/ s \in Created(t, j, {1, 2})
    BY <2>1 DEF RunJob, JobFails
  <2>4. s.time = tasks[t].time BY <2>3 DEF Created
  <2>5. /\ tasks[t].time = Floor(tasks[t].created)
        /\ tasks[t].started - tasks[t].created < Deadline
    BY <2>2, FactsOfATask DEF RecordOK, Running
  <2>6. tasks[t].created \in Nat /\ tasks[t].started \in Nat /\ clock \in Nat
    BY FactsOfATask, FieldsOfARecord, FactsOfTheRest
  <2>7. /\ Floor(tasks[t].created) \in Nat
        /\ tasks[t].created < Floor(tasks[t].created) + SlotLength
    BY <2>6, FloorBounds
  <2>8. QED BY <2>2, <2>4, <2>5, <2>6, <2>7, Bounds
<1>2. QED BY <1>1, Invariant, PTL DEF Spec, NoStorm

\* NoJobLeftUnrun: when the loop of a scheduled task ends, every job due has
\* run or is among the failures, if "when" can be evaluated for all of them.
THEOREM NoJobLeft == Spec => NoJobLeftUnrun
<1> DEFINE A == \A t \in Id :
                  /\ tasks[t].phase = "loop" /\ tasks[t].job = 0 /\ Evaluable(t)
                  /\ tasks'[t].phase \in {"done", "failed"} /\ faults' = faults
                  /\ clock - tasks[t].started <= RunTime
                  => Tried(t)'
<1>1. IInv /\ [Next]_vars => A
  <2> SUFFICES ASSUME IInv, [Next]_vars, NEW t \in Id,
                      tasks[t].phase = "loop", tasks[t].job = 0, Evaluable(t),
                      tasks'[t].phase \in {"done", "failed"}, faults' = faults,
                      clock - tasks[t].started <= RunTime
               PROVE  Tried(t)'
    OBVIOUS
  <2>1. /\ tasks[t] \in TaskRecord /\ DOMAIN tasks = Id
        /\ LoopOK(tasks[t], t, ymls, submitted) /\ tasks[t].todo \subseteq DOMAIN Jobs(t)
    BY FactsOfATask, FactsOfTheLoop
  <2>2. Finish(t)
    <3>1. tasks'[t] # tasks[t] OBVIOUS
    <3>2. ~Start(t) /\ ~GetPushInfo(t) /\ ~LoadJobs(t)
      BY DEF Start, GetPushInfo, LoadJobs, At
    <3>3. ASSUME NEW j \in Job, SkipJob(t, j) \/ RunJob(t, j) \/ JobFails(t, j) PROVE FALSE
      <4>1. tasks'[t].phase = tasks[t].phase
        BY <2>1, <3>3 DEF SkipJob, RunJob, JobFails, TaskRecord
      <4>2. QED BY <4>1
    <3>4. ASSUME NEW j \in Job, ScheduleRaises(t, j) PROVE FALSE
      BY <2>1, <3>4 DEF ScheduleRaises, Turn, Evaluable
    <3>5. ~RunEnds(t) /\ ~WorkerDies(t)
      <4>1. faults' # faults + 1 BY FactsOfTheRest
      <4>2. tasks[t].started \in Nat /\ clock \in Nat
        BY <2>1, FieldsOfARecord, FactsOfTheRest
      <4>3. ~(clock - tasks[t].started > RunTime) BY <4>2, Bounds
      <4>4. QED BY <4>1, <4>3 DEF RunEnds, WorkerDies
    <3>6. ~Expire(t)
      <4>1. SUFFICES ASSUME Expire(t) PROVE FALSE OBVIOUS
      <4>2. tasks'[t].phase = "expired" BY <2>1, <4>1 DEF Expire, TaskRecord
      <4>3. QED BY <4>2
    <3>7. QED BY <3>1, <3>2, <3>3, <3>4, <3>5, <3>6, OthersStay DEF TaskStep
  <2>3. /\ tasks[t].todo = {} /\ ymls' = ymls /\ submitted' = submitted
        /\ tasks' = [tasks EXCEPT ![t] = [tasks[t] EXCEPT !.phase = RaiseErrorIfAny(t)]]
        /\ Id' = Id
    BY <2>1, <2>2 DEF Finish, envVars, Id
  <2>4. /\ tasks'[t].rev = tasks[t].rev /\ tasks'[t].time = tasks[t].time
        /\ tasks'[t].run = tasks[t].run /\ tasks'[t].failed = tasks[t].failed
    BY <2>1, <2>3 DEF TaskRecord
  <2>5. DueIn(ymls[tasks[t].rev], tasks[t].time)
          \subseteq tasks[t].failed \cup RanIn(submitted, t, tasks[t].run)
    BY <2>1, <2>3 DEF LoopOK
  <2>6. Due(t) \subseteq tasks[t].failed \cup RunBy(t) BY <2>5, DueIsDueIn
  <2>7. Due(t)' = Due(t) /\ RunBy(t)' = RunBy(t)
    BY <2>3, <2>4 DEF Due, RunBy, JobsAt
  <2>8. QED BY <2>4, <2>6, <2>7 DEF Tried
<1>2. QED BY <1>1, Invariant, PTL DEF Spec, NoJobLeftUnrun
=============================================================================
