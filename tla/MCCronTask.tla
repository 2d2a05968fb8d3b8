------------------------------ MODULE MCCronTask ------------------------------
(* Small instances of CronTask: slots of two time units.                    *)
EXTENDS CronTask, TLC

Conf1(here, when, raises, kind) ==
  [here |-> here, when |-> when, raises |-> raises, kind |-> kind]

\* Two jobs due in slot 0, the first an action; the second alone, beside a job
\* of another project whose "when" cannot be evaluated here.
Both ==
  1 :> Conf1(TRUE, {0}, FALSE, "trigger-action") @@
  2 :> Conf1(TRUE, {0}, FALSE, "decision-task")
Other ==
  1 :> Conf1(FALSE, {}, TRUE, "decision-task") @@
  2 :> Conf1(TRUE, {0}, FALSE, "decision-task")
\* The first job's "when" cannot be evaluated in this project.
Stuck ==
  1 :> Conf1(TRUE, {}, TRUE, "decision-task") @@
  2 :> Conf1(TRUE, {0}, FALSE, "decision-task")
AllFiles == {Both, Other, Stuck, NoCron, BadCron}

\* One job, due in every slot.
EverySlot == {1 :> Conf1(TRUE, {0, 2}, FALSE, "decision-task")}
=============================================================================
