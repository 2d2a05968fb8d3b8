-------------------------------- MODULE HgPush --------------------------------
(***************************************************************************)
(* From a push to a Mercurial repository to its decision task.              *)
(*   src/build-decision/src/build_decision/hg_push.py, repository.py,       *)
(*   decision.py                       the task the hg-push hook creates    *)
(*   src/src/fxci/hg_pushes.py         replaying a push by hand             *)
(*   src/src/ciadmin/generate/hg_pushes.py, src/hg-push-template.yml        *)
(* A push is a number, in pushlog order; changeset k of push p is <<p, k>>  *)
(* and the tip of the default branch is that of the last push.  The pulse   *)
(* exchange, the hooks service and hg.mozilla.org are external.             *)
(***************************************************************************)
EXTENDS Integers, Sequences

CONSTANTS
  MaxSize,      \* bound: changesets in a push
  MaxDrift,     \* days after which a push gets no tasks any more
  Attempts,     \* get_push_info's attempts
  MaxPushes,    \* bound: pushes
  MaxDays,      \* bound: days
  MaxExtra,     \* bound: replays, and messages delivered twice
  MaxLag,       \* bound: queries the pushlog answers without the push
  MaxFaults     \* bound: failing requests and dying workers

ASSUME BoundsAssumption ==
  /\ MaxSize \in Nat \ {0} /\ Attempts \in Nat \ {0}
  /\ {MaxDrift, MaxPushes, MaxDays, MaxExtra, MaxLag, MaxFaults}
       \subseteq Nat

VARIABLES
  today,      \* the day
  pushlog,    \* the pushes so far: their sizes, days and numbers of heads
  tasks,      \* the hg-push tasks created so far, in order
  decisions,  \* the decision tasks they have created
  extra, lags, faults

boundVars == <<extra, lags, faults>>
vars == <<today, pushlog, tasks, decisions, extra, lags, faults>>

Pushes    == 1 .. Len(pushlog)
Changeset == (1 .. MaxPushes) \X (1 .. MaxSize)
Tip(p)    == <<p, pushlog[p].size>>
None      == <<0, 0>>

\* A task fired by a message whose first head is r; single says it has one head
\* and one push. rev is what get_revision_from_pulse_message returned, push the
\* push of push_info.
NewTask(r, single, replayed) ==
  [head |-> r, single |-> single, replayed |-> replayed, run |-> 0,
   phase |-> "pending", tries |-> 0, rev |-> None, push |-> 0]

Over == {"done", "old", "failed"}

-----------------------------------------------------------------------------
Init ==
  /\ today = 0
  /\ pushlog = << >> /\ tasks = << >> /\ decisions = {}
  /\ extra = 0 /\ lags = 0 /\ faults = 0

(* The environment.                                                        *)

NextDay ==
  /\ today < MaxDays
  /\ today' = today + 1
  /\ UNCHANGED <<pushlog, tasks, decisions, boundVars>>

\* A push, and the changegroup.1 message about it, which fires the hook. The
\* first of several heads need not be the push's tip.
Push(size, heads, k) ==
  /\ Len(pushlog) < MaxPushes
  /\ k \in 1 .. size /\ (heads = 1 => k = size)
  /\ pushlog' = Append(pushlog, [size |-> size, heads |-> heads, day |-> today])
  /\ tasks' = Append(tasks, NewTask(<<Len(pushlog) + 1, k>>, heads = 1, FALSE))
  /\ UNCHANGED <<today, decisions, boundVars>>

\* The message arrives again.
Redeliver(t) ==
  /\ t \in 1 .. Len(tasks) /\ ~tasks[t].replayed
  /\ extra < MaxExtra
  /\ extra' = extra + 1
  /\ tasks' = Append(tasks, NewTask(tasks[t].head, tasks[t].single, FALSE))
  /\ UNCHANGED <<today, pushlog, decisions, lags, faults>>

\* replay_hg_push accepts any changeset of the push.
ReplayAccepts(r) == r[2] <= pushlog[r[1]].size

\* replay_hg_push: the pushlog knows the changeset, and triggerHook is called
\* with a message that has it as its only head.
Replay(r) ==
  /\ extra < MaxExtra
  /\ r[1] \in Pushes /\ ReplayAccepts(r)
  /\ extra' = extra + 1
  /\ tasks' = Append(tasks, NewTask(r, TRUE, TRUE))
  /\ UNCHANGED <<today, pushlog, decisions, lags, faults>>

(* One hg-push task: build_decision.                                       *)

Id == 1 .. Len(tasks)

\* get_revision_from_pulse_message: None unless there is one push with one head.
RevisionFromPulseMessage(t) == IF tasks[t].single THEN tasks[t].head ELSE None

Start(t) ==
  /\ t \in Id /\ tasks[t].phase = "pending"
  /\ tasks' = [tasks EXCEPT ![t].phase = "push", ![t].rev = RevisionFromPulseMessage(t)]
  /\ UNCHANGED <<today, pushlog, decisions, boundVars>>

\* Mutant: only one query.
NoPushesOnce(t) ==
  /\ lags < MaxLag
  /\ lags' = lags + 1
  /\ tasks' = [tasks EXCEPT ![t].phase = "failed"]

\* Mutant: the attempts are not counted.
NoPushesForever(t) ==
  /\ UNCHANGED lags
  /\ tasks' = [tasks EXCEPT ![t].tries = @ + 1]

\* The pushlog does not know the push yet; get_push_info tries again, and the
\* last NoPushesError fails the task.
NoPushes(t) ==
  /\ lags < MaxLag
  /\ lags' = lags + 1
  /\ tasks' = [tasks EXCEPT ![t].tries = @ + 1,
                            ![t].phase = IF tasks[t].tries + 1 < Attempts
                                           THEN "push" ELSE "failed"]

\* The push get_push_info asks for: the revision's, or the default branch's.
PushAsked(t) == IF tasks[t].rev = None THEN Len(pushlog) ELSE tasks[t].rev[1]

IsTip(t) == tasks[t].rev = None \/ tasks[t].rev = Tip(tasks[t].rev[1])

TooOld(p) == today - pushlog[p].day > MaxDrift

\* get_push_info, and the test of the push's age that follows.
GetPushInfo(t) ==
  /\ t \in Id /\ tasks[t].phase = "push"
  /\ \/ NoPushes(t)
     \/ /\ tasks' = [tasks EXCEPT
             ![t].push = PushAsked(t),
             ![t].phase = IF ~IsTip(t) THEN "failed"
                          ELSE IF TooOld(PushAsked(t)) THEN "old" ELSE "file"]
        /\ UNCHANGED lags
  /\ UNCHANGED <<today, pushlog, decisions, extra, faults>>

\* Mutant: .taskcluster.yml is always the default branch's.
FileReadTip(t) == Tip(Len(pushlog))

\* The changeset .taskcluster.yml is read at.
FileRead(t) == IF tasks[t].rev = None THEN Tip(Len(pushlog)) ELSE tasks[t].rev

\* get_file, render_tc_yml and createTask.
Submit(t) ==
  /\ t \in Id /\ tasks[t].phase = "file"
  /\ decisions' = decisions \cup
       {[by |-> t, run |-> tasks[t].run, push |-> tasks[t].push, file |-> FileRead(t)]}
  /\ tasks' = [tasks EXCEPT ![t].phase = "done"]
  /\ UNCHANGED <<today, pushlog, boundVars>>

\* A request fails for good, or rendering does not give one task.
Fail(t) ==
  /\ t \in Id /\ tasks[t].phase \in {"push", "file"}
  /\ faults < MaxFaults
  /\ faults' = faults + 1
  /\ tasks' = [tasks EXCEPT ![t].phase = "failed"]
  /\ UNCHANGED <<today, pushlog, decisions, extra, lags>>

\* The worker dies, before or after its createTask got through: another run
\* (retries: 5).
WorkerDies(t) ==
  /\ t \in Id /\ tasks[t].phase \in {"push", "file", "done"}
  /\ faults < MaxFaults
  /\ faults' = faults + 1
  /\ tasks' = [tasks EXCEPT ![t] =
       [NewTask(tasks[t].head, tasks[t].single, tasks[t].replayed)
          EXCEPT !.run = tasks[t].run + 1]]
  /\ UNCHANGED <<today, pushlog, decisions, extra, lags>>

TaskStep(t) == Start(t) \/ GetPushInfo(t) \/ Submit(t)

Next ==
  \/ NextDay
  \/ \E size, k \in 1 .. MaxSize, heads \in {1, 2} : Push(size, heads, k)
  \/ \E r \in Changeset : Replay(r)
  \/ \E t \in Id : Redeliver(t) \/ TaskStep(t) \/ Fail(t) \/ WorkerDies(t)

Spec == Init /\ [][Next]_vars
-----------------------------------------------------------------------------
PushRecord == [size : 1 .. MaxSize, heads : {1, 2}, day : 0 .. MaxDays]

TaskRecord ==
  [head : Changeset, single : BOOLEAN, replayed : BOOLEAN, run : 0 .. MaxFaults,
   phase : {"pending", "push", "file"} \cup Over, tries : 0 .. Attempts,
   rev : Changeset \cup {None}, push : 0 .. MaxPushes]

TypeOK ==
  /\ today \in 0 .. MaxDays
  /\ pushlog \in Seq(PushRecord) /\ Len(pushlog) <= MaxPushes
  /\ tasks \in Seq(TaskRecord)
  /\ \A t \in Id :
       /\ tasks[t].head[1] \in Pushes /\ tasks[t].run <= faults
       /\ tasks[t].phase \in {"pending", "push"} => tasks[t].tries < Attempts
  /\ decisions \subseteq
       [by : Id, run : 0 .. MaxFaults, push : Pushes, file : Changeset]
  /\ extra \in 0 .. MaxExtra
  /\ lags \in 0 .. MaxLag /\ faults \in 0 .. MaxFaults

\* A task fired by a message with one head creates decision tasks for that
\* head only: push_info, .taskcluster.yml and the index route of the task (made
\* from heads[0] of the message) all speak of one changeset, the tip of its push.
DecisionsOfTheHead ==
  \A d \in decisions :
    tasks[d.by].single => d.file = tasks[d.by].head /\ d.file = Tip(d.push)

\* A push with one head has its decision task, or a task is still about to make
\* it: other pushes, replays, repeated messages and a pushlog that lags less than
\* get_push_info waits cost it nothing. Only a fault, or the push's age, does.
WillDecide(t, p) ==
  /\ tasks[t].head = Tip(p) /\ tasks[t].single
  /\ \/ tasks[t].phase \notin Over
     \/ tasks[t].phase = "old" /\ TooOld(p)
     \/ tasks[t].phase = "failed" /\ faults > 0
NoPushLost ==
  \A p \in Pushes :
    pushlog[p].heads = 1 =>
      \/ \E d \in decisions : d.push = p /\ d.file = Tip(p)
      \/ \E t \in Id : WillDecide(t, p)
=============================================================================
