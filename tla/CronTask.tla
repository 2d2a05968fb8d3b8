------------------------------- MODULE CronTask -------------------------------
(***************************************************************************)
(* The cron tasks of one project: how the scheduled cron hook's tasks read  *)
(* .cron.yml and create a decision task (or trigger an action) for every    *)
(* job that is due, while pushes arrive, tasks are delayed and workers die. *)
(*   src/build-decision/src/build_decision/cron/   run, should_run, ...     *)
(*   src/build-decision/src/build_decision/repository.py   get_push_info    *)
(*   src/src/ciadmin/generate/cron_tasks.py, src/cron-task-template.yml     *)
(* Time is counted in units of which SlotLength make 15 minutes.  Job names *)
(* are numbers, in their sorted order; revision r is the r-th push.  The    *)
(* hooks service, the queue, the index and hg.mozilla.org are external.     *)
(***************************************************************************)
EXTENDS Integers, Sequences

CONSTANTS
  NumJobs,      \* job names are 1 .. NumJobs
  CronYml,      \* the .cron.yml files: functions from job names to Conf, or
  NoCron,       \*   the revision has none, or
  BadCron,      \*   its file fails the schema
  SlotLength,   \* time units in 15 minutes
  Deadline,     \* time units from a task's creation to its deadline
  RunTime,      \* time units a run of it may take
  Attempts,     \* get_push_info's attempts
  MaxClock,     \* bound: time
  MaxPushes,    \* bound: pushes
  MaxForced,    \* bound: firings of the target hooks
  MaxLag,       \* bound: queries the pushlog answers without the push
  MaxFaults     \* bound: failing jobs and dying workers

Job  == 1 .. NumJobs
Time == 0 .. MaxClock

\* here: run-on-projects lets the job run in this project; when: the slots its
\* "when" matches; raises: evaluating "when" raises; kind: the job's type.
Conf == [here : BOOLEAN, when : SUBSET Time, raises : BOOLEAN,
         kind : {"decision-task", "trigger-action"}]

ASSUME CronAssumption ==
  /\ NumJobs \in Nat
  /\ \A f \in CronYml \ {NoCron, BadCron} :
       DOMAIN f \subseteq Job /\ \A j \in DOMAIN f : f[j] \in Conf
  /\ NoCron # BadCron
  /\ SlotLength \in Nat \ {0} /\ Attempts \in Nat \ {0}
  /\ Deadline \in Nat /\ RunTime \in Nat
  /\ {MaxClock, MaxPushes, MaxForced, MaxLag, MaxFaults} \subseteq Nat

VARIABLES
  clock,      \* the time
  nextFire,   \* when the cron hook's schedule is due again
  ymls,       \* the .cron.yml of every revision pushed so far
  indexed,    \* revisions whose decision task is done and in the index
  tasks,      \* the cron tasks created so far, in order
  submitted,  \* the decision tasks and actions they have created
  lags, faults, forced

envVars   == <<clock, nextFire, ymls, indexed>>
boundVars == <<lags, faults, forced>>
vars == <<clock, nextFire, ymls, indexed, tasks, submitted, lags, faults, forced>>

Tip == Len(ymls)

\* A new task of a cron hook. job is the --force-run argument, 0 if there is
\* none; run counts the reruns; rev is the revision of push_info and yml the
\* revision .cron.yml was read at, 0 before that; todo is the jobs the loop has
\* still to look at and failed its failed_jobs; tip is history: the pushes there
\* were when the run began.
NewTask(j) ==
  [created |-> clock, job |-> j, run |-> 0, phase |-> "pending", started |-> 0,
   time |-> 0, tries |-> 0, rev |-> 0, yml |-> 0, todo |-> {}, failed |-> {},
   tip |-> 0]

Running == {"push", "load", "loop"}
Over    == {"done", "failed", "expired"}

-----------------------------------------------------------------------------
Init ==
  /\ clock = 0 /\ nextFire = 0
  /\ ymls = << >> /\ indexed = {}
  /\ tasks = << >> /\ submitted = {}
  /\ lags = 0 /\ faults = 0 /\ forced = 0

(* The environment.                                                        *)

PassTime ==
  /\ clock < MaxClock
  /\ clock' = clock + 1
  /\ UNCHANGED <<nextFire, ymls, indexed, tasks, submitted, boundVars>>

Push(c) ==
  /\ Tip < MaxPushes
  /\ ymls' = Append(ymls, c)
  /\ UNCHANGED <<clock, nextFire, indexed, tasks, submitted, boundVars>>

\* The push's own decision task completes.
Index(r) ==
  /\ r \in 1 .. Tip
  /\ indexed' = indexed \cup {r}
  /\ UNCHANGED <<clock, nextFire, ymls, tasks, submitted, boundVars>>

\* The schedule "0 0,15,30,45 * * * *" is due; the service may be late, and
\* then goes on with the next slot.
HookFires ==
  /\ clock >= nextFire
  /\ tasks' = Append(tasks, NewTask(0))
  /\ nextFire' = (clock \div SlotLength + 1) * SlotLength
  /\ UNCHANGED <<clock, ymls, indexed, submitted, boundVars>>

\* Someone, or a pulse message, fires the hook of one job.
TargetFires(j) ==
  /\ forced < MaxForced
  /\ forced' = forced + 1
  /\ tasks' = Append(tasks, NewTask(j))
  /\ UNCHANGED <<envVars, submitted, lags, faults>>

(* One cron task: run().                                                   *)

Id == 1 .. Len(tasks)

\* The task is at this point of its run, which maxRunTime has not ended.
At(t, ph) ==
  t \in Id /\ tasks[t].phase = ph /\ clock - tasks[t].started <= RunTime

\* Mutant: the time is the current one.
CalculateTimeNow(t) == clock - (clock % SlotLength)

\* calculate_time: when the task was created, rounded down to 15 minutes.
CalculateTime(t) == tasks[t].created - (tasks[t].created % SlotLength)

\* Mutant: a task may start however late.
StartLate(t) ==
  /\ t \in Id /\ tasks[t].phase = "pending"
  /\ tasks' = [tasks EXCEPT ![t].phase = "push", ![t].started = clock,
                            ![t].time = CalculateTime(t), ![t].tip = Tip]
  /\ UNCHANGED <<envVars, submitted, boundVars>>

\* A worker takes the task before its deadline.
Start(t) ==
  /\ t \in Id /\ tasks[t].phase = "pending"
  /\ clock - tasks[t].created < Deadline
  /\ tasks' = [tasks EXCEPT ![t].phase = "push", ![t].started = clock,
                            ![t].time = CalculateTime(t), ![t].tip = Tip]
  /\ UNCHANGED <<envVars, submitted, boundVars>>

\* Mutant: the first answer is taken for the last.
NoPushesAtOnce(t) ==
  /\ \/ Tip = 0 /\ UNCHANGED lags
     \/ Tip > 0 /\ lags < MaxLag /\ lags' = lags + 1
  /\ tasks' = [tasks EXCEPT ![t].tries = @ + 1, ![t].phase = "done"]

\* The answer has no pushes: there are none, or the pushlog lags. get_push_info
\* tries again; run() takes the last NoPushesError for a new repository's.
NoPushes(t) ==
  /\ \/ Tip = 0 /\ UNCHANGED lags
     \/ Tip > 0 /\ lags < MaxLag /\ lags' = lags + 1
  /\ tasks' = [tasks EXCEPT ![t].tries = @ + 1,
                            ![t].phase = IF tasks[t].tries + 1 < Attempts
                                           THEN "push" ELSE "done"]

GetPushInfo(t) ==
  /\ At(t, "push")
  /\ \/ NoPushes(t)
     \/ /\ Tip > 0
        /\ tasks' = [tasks EXCEPT ![t].phase = "load", ![t].rev = Tip]
        /\ UNCHANGED lags
  /\ UNCHANGED <<envVars, submitted, faults, forced>>

\* Mutant: .cron.yml is read without a revision, so from the tip.
RevisionReadTip(t) == Tip

\* The revision load_jobs reads .cron.yml at.
RevisionRead(t) == tasks[t].rev

\* What load_jobs returns for a revision that has a valid .cron.yml or none.
JobsAt(r) == IF ymls[r] = NoCron THEN << >> ELSE ymls[r]

\* load_jobs. An invalid file fails the task, and so does forcing a job it
\* does not have.
LoadJobs(t) ==
  /\ At(t, "load")
  /\ LET r == RevisionRead(t)
         forcing == tasks[t].job # 0
         raises == ymls[r] = BadCron \/ (forcing /\ tasks[t].job \notin DOMAIN JobsAt(r))
     IN  tasks' = [tasks EXCEPT
           ![t].yml = r,
           ![t].phase = IF raises THEN "failed" ELSE "loop",
           ![t].todo = IF raises THEN {}
                       ELSE IF forcing THEN {tasks[t].job} ELSE DOMAIN JobsAt(r)]
  /\ UNCHANGED <<envVars, submitted, boundVars>>

Jobs(t) == JobsAt(tasks[t].yml)

\* should_run raises, outside the loop's try. A forced job is not asked.
ShouldRunRaises(t, j) ==
  tasks[t].job = 0 /\ Jobs(t)[j].here /\ Jobs(t)[j].raises

ShouldRun(t, j) ==
  \/ tasks[t].job # 0
  \/ Jobs(t)[j].here /\ tasks[t].time \in Jobs(t)[j].when

\* The loop turns to job j.
Turn(t, j) ==
  At(t, "loop") /\ j \in tasks[t].todo /\ \A i \in tasks[t].todo : j <= i

SkipJob(t, j) ==
  /\ Turn(t, j)
  /\ ~ShouldRunRaises(t, j) /\ ~ShouldRun(t, j)
  /\ tasks' = [tasks EXCEPT ![t].todo = @ \ {j}]
  /\ UNCHANGED <<envVars, submitted, boundVars>>

ScheduleRaises(t, j) ==
  /\ Turn(t, j)
  /\ ShouldRunRaises(t, j)
  /\ tasks' = [tasks EXCEPT ![t].phase = "failed", ![t].todo = {}]
  /\ UNCHANGED <<envVars, submitted, boundVars>>

\* What run_job creates.
Created(t, j, copies) ==
  {[job |-> j, time |-> tasks[t].time, rev |-> tasks[t].rev, yml |-> tasks[t].yml,
    by |-> t, run |-> tasks[t].run, copy |-> c] : c \in copies}

\* An action needs the decision task of the revision to be in the index.
CanRun(t, j) ==
  Jobs(t)[j].kind = "trigger-action" => tasks[t].rev \in indexed

\* run_job succeeds. An action's hook is triggered twice when the first answer
\* is lost and the client asks again; a task has an id chosen before, so asking
\* again creates nothing.
RunJob(t, j) ==
  /\ Turn(t, j)
  /\ ~ShouldRunRaises(t, j) /\ ShouldRun(t, j)
  /\ CanRun(t, j)
  /\ \/ /\ submitted' = submitted \cup Created(t, j, {1})
        /\ UNCHANGED faults
     \/ /\ Jobs(t)[j].kind = "trigger-action" /\ faults < MaxFaults
        /\ submitted' = submitted \cup Created(t, j, {1, 2})
        /\ faults' = faults + 1
  /\ tasks' = [tasks EXCEPT ![t].todo = @ \ {j}]
  /\ UNCHANGED <<envVars, lags, forced>>

\* Mutant: an exception of run_job ends the loop.
JobFailsAndStops(t, j) ==
  /\ Turn(t, j)
  /\ ~ShouldRunRaises(t, j) /\ ShouldRun(t, j)
  /\ ~CanRun(t, j)
  /\ tasks' = [tasks EXCEPT ![t].todo = {}, ![t].failed = @ \cup {j}]
  /\ UNCHANGED <<envVars, submitted, boundVars>>

\* run_job raises, before or after the service has done what it asked for; the
\* loop goes on.
JobFails(t, j) ==
  /\ Turn(t, j)
  /\ ~ShouldRunRaises(t, j) /\ ShouldRun(t, j)
  /\ \/ ~CanRun(t, j) /\ UNCHANGED <<submitted, faults>>
     \/ /\ faults < MaxFaults
        /\ faults' = faults + 1
        /\ \/ UNCHANGED submitted
           \/ CanRun(t, j) /\ submitted' = submitted \cup Created(t, j, {1})
  /\ tasks' = [tasks EXCEPT ![t].todo = @ \ {j}, ![t].failed = @ \cup {j}]
  /\ UNCHANGED <<envVars, lags, forced>>

\* _format_and_raise_error_if_any.
RaiseErrorIfAny(t) == IF tasks[t].failed = {} THEN "done" ELSE "failed"

Finish(t) ==
  /\ At(t, "loop") /\ tasks[t].todo = {}
  /\ tasks' = [tasks EXCEPT ![t].phase = RaiseErrorIfAny(t)]
  /\ UNCHANGED <<envVars, submitted, boundVars>>

\* Another exception, or maxRunTime.
RunEnds(t) ==
  /\ t \in Id /\ tasks[t].phase \in Running
  /\ \/ clock - tasks[t].started > RunTime /\ UNCHANGED faults
     \/ faults < MaxFaults /\ faults' = faults + 1
  /\ tasks' = [tasks EXCEPT ![t].phase = "failed"]
  /\ UNCHANGED <<envVars, submitted, lags, forced>>

\* The worker goes away: the queue gives the task another run (retries: 5).
WorkerDies(t) ==
  /\ t \in Id /\ tasks[t].phase \in Running
  /\ faults < MaxFaults
  /\ faults' = faults + 1
  /\ tasks' = [tasks EXCEPT ![t] = [tasks[t] EXCEPT
       !.phase = "pending", !.run = tasks[t].run + 1, !.tries = 0, !.rev = 0,
       !.yml = 0, !.todo = {}, !.failed = {}]]
  /\ UNCHANGED <<envVars, submitted, lags, forced>>

\* The deadline passes.
Expire(t) ==
  /\ t \in Id /\ tasks[t].phase \in Running \cup {"pending"}
  /\ clock - tasks[t].created >= Deadline
  /\ tasks' = [tasks EXCEPT ![t].phase = "expired"]
  /\ UNCHANGED <<envVars, submitted, boundVars>>

TaskStep(t) ==
  \/ Start(t) \/ GetPushInfo(t) \/ LoadJobs(t) \/ Finish(t)
  \/ \E j \in Job : SkipJob(t, j) \/ ScheduleRaises(t, j) \/ RunJob(t, j) \/ JobFails(t, j)

Next ==
  \/ PassTime \/ HookFires
  \/ \E c \in CronYml : Push(c)
  \/ \E r \in 1 .. MaxPushes : Index(r)
  \/ \E j \in Job : TargetFires(j)
  \/ \E t \in Id : TaskStep(t) \/ RunEnds(t) \/ WorkerDies(t) \/ Expire(t)

Spec == Init /\ [][Next]_vars
-----------------------------------------------------------------------------
TypeOK ==
  /\ clock \in Time
  /\ nextFire \in Nat /\ nextFire % SlotLength = 0
  /\ Tip <= MaxPushes
  /\ \A r \in 1 .. Tip : ymls[r] \in CronYml
  /\ indexed \subseteq 1 .. Tip
  /\ \A t \in Id :
       tasks[t] \in
         [created : 0 .. clock, job : Job \cup {0}, run : 0 .. MaxFaults,
          phase : {"pending"} \cup Running \cup Over, started : 0 .. clock,
          time : 0 .. clock, tries : 0 .. Attempts, rev : 0 .. Tip,
          yml : 0 .. Tip, todo : SUBSET Job, failed : SUBSET Job, tip : 0 .. Tip]
  /\ \A s \in submitted :
       s \in [job : Job, time : 0 .. clock, rev : 1 .. Tip, yml : 1 .. Tip,
              by : Id, run : 0 .. MaxFaults, copy : {1, 2}]
  /\ lags \in 0 .. MaxLag /\ faults \in 0 .. MaxFaults /\ forced \in 0 .. MaxForced

Scheduled(s) == tasks[s.by].job = 0

\* A job's decision task runs the revision whose .cron.yml asked for it at that
\* time, whatever was pushed between the two requests.
JobsOfTheirRevision ==
  \A s \in submitted :
    LET f == JobsAt(s.rev) IN
      /\ ymls[s.rev] # BadCron /\ s.job \in DOMAIN f
      /\ Scheduled(s) => f[s.job].here /\ s.time \in f[s.job].when

\* However late the tasks of two slots run, a scheduled job is created twice for
\* one time only by a rerun of the same task, or by a trigger that was repeated.
OncePerSlot ==
  \A a, b \in submitted :
    /\ a.job = b.job /\ a.time = b.time /\ a # b
    /\ Scheduled(a) /\ Scheduled(b)
    => a.by = b.by /\ (a.run # b.run \/ a.copy # b.copy)

\* A scheduled task that ends green has run every job that was due at its time.
\* Only if the repository had no pushes when its run began, or the pushlog lags
\* at as many queries as get_push_info makes, may it end green without: a
\* pushlog that lags by less costs no slot.
Due(t) ==
  IF ymls[tasks[t].rev] = BadCron THEN {}
  ELSE LET f == JobsAt(tasks[t].rev) IN
       {j \in DOMAIN f : f[j].here /\ ~f[j].raises /\ tasks[t].time \in f[j].when}
RunBy(t) == {s.job : s \in {x \in submitted : x.by = t /\ x.run = tasks[t].run}}
GreenMeansRun ==
  \A t \in Id :
    tasks[t].phase = "done" /\ tasks[t].job = 0
    => IF tasks[t].rev # 0 THEN Due(t) \subseteq RunBy(t)
       ELSE tasks[t].tip = 0 \/ lags >= Attempts

\* A failing job, or one meant for another project, leaves no other job un-run:
\* when the loop of a scheduled task has ended, every job due has been run or
\* is among the failures reported. This takes a file in which "when" can be
\* evaluated for every job of this project: should_run is asked outside the
\* loop's try, and a job for which it raises ends the loop.
Evaluable(t) == \A j \in DOMAIN Jobs(t) : ~ShouldRunRaises(t, j)
Tried(t) == Due(t) \subseteq RunBy(t) \cup tasks[t].failed
NoJobLeftUnrun ==
  [][\A t \in Id :
       /\ tasks[t].phase = "loop" /\ tasks[t].job = 0 /\ Evaluable(t)
       /\ tasks'[t].phase \in {"done", "failed"} /\ faults' = faults
       /\ clock - tasks[t].started <= RunTime
       => Tried(t)']_vars

\* When the cause of a delay goes away there is no storm: nothing is created
\* longer after its time than the deadline, the slot and a run take.
NoStorm ==
  [][\A s \in submitted' \ submitted :
       clock - s.time < Deadline + SlotLength + RunTime]_vars
=============================================================================
