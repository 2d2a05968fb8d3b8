----------------------------- MODULE WorkerSecrets -----------------------------
(***************************************************************************)
(* The commands create-worker-secrets and check-worker-secrets, several of  *)
(* which may run while people change secrets and requests fail.             *)
(*   src/src/fxci/worker_secrets.py, src/src/fxci/cli.py                    *)
(* A pool's secret is Absent or a value; the template secret always has a   *)
(* value.  A command's requests are atomic, nothing between them is.        *)
(***************************************************************************)
EXTENDS Integers

CONSTANTS
  NumPools,     \* docker-worker pools are 1 .. NumPools, in their sorted order
  Process,      \* the commands that may run at once
  Value,        \* contents of a secret
  Absent,       \* no such secret
  MaxEdits,     \* bound: changes people make
  MaxFaults     \* bound: failing requests and killed commands

Pool == 1 .. NumPools

ASSUME SecretsAssumption ==
  /\ NumPools \in Nat \ {0} /\ Absent \notin Value
  /\ MaxEdits \in Nat /\ MaxFaults \in Nat

VARIABLES
  template,   \* project/releng/docker-worker-secret
  secrets,    \* worker-pool:<pool>, of every docker-worker pool
  procs,      \* the commands
  edited,     \* history: pools whose secret others changed since a command began
  edits, faults

vars == <<template, secrets, procs, edited, edits, faults>>

\* update: the --update flag; wanted: docker_worker_secret; pool: the loop's
\* position; "set" and "create": about to set a secret, in the try and in its
\* handler.
Idle == [phase |-> "idle", update |-> FALSE, wanted |-> Absent, pool |-> 1]

-----------------------------------------------------------------------------
Init ==
  /\ template \in Value
  /\ secrets \in [Pool -> Value \cup {Absent}]
  /\ procs = [p \in Process |-> Idle]
  /\ edited = [p \in Process |-> {}]
  /\ edits = 0 /\ faults = 0

(* People.                                                                 *)

EditTemplate(v) ==
  /\ edits < MaxEdits
  /\ edits' = edits + 1
  /\ template' = v
  /\ UNCHANGED <<secrets, procs, edited, faults>>

EditSecret(w, v) ==
  /\ edits < MaxEdits
  /\ edits' = edits + 1
  /\ secrets' = [secrets EXCEPT ![w] = v]
  /\ edited' = [p \in Process |-> edited[p] \cup {w}]
  /\ UNCHANGED <<template, procs, faults>>

(* create_worker_secrets.                                                  *)

\* Reads the pools and the template secret.
Begin(p, update) ==
  /\ procs[p].phase \in {"idle", "ok", "failed"}
  /\ procs' = [procs EXCEPT ![p] = [phase |-> "get", update |-> update,
                                    wanted |-> template, pool |-> 1]]
  /\ edited' = [edited EXCEPT ![p] = {}]
  /\ UNCHANGED <<template, secrets, edits, faults>>

\* Mutant: the loop does not end at the last pool.
ContinuePastEnd(p) == procs' = [procs EXCEPT ![p].phase = "get", ![p].pool = @ + 1]

\* On to the next pool, or the end.
Continue(p) ==
  procs' = [procs EXCEPT ![p].phase = IF procs[p].pool = NumPools THEN "ok" ELSE "get",
                         ![p].pool = IF procs[p].pool = NumPools THEN @ ELSE @ + 1]

\* Mutant: --update is not looked at.
MustSetAlways(p, v) == v # procs[p].wanted

\* What an answered get leads to: set a secret that is missing, or that differs
\* and is to be updated.
MustSet(p, v) == v = Absent \/ (v # procs[p].wanted /\ procs[p].update)

\* secrets_api.get. A missing secret raises, like a failing request does.
Get(p) ==
  /\ procs[p].phase = "get"
  /\ IF MustSet(p, secrets[procs[p].pool])
       THEN procs' = [procs EXCEPT ![p].phase =
                        IF secrets[procs[p].pool] = Absent THEN "create" ELSE "set"]
       ELSE Continue(p)
  /\ UNCHANGED <<template, secrets, edited, edits, faults>>

\* The get fails for another reason: `except Exception` takes it for a missing
\* secret.
GetFails(p) ==
  /\ procs[p].phase = "get"
  /\ faults < MaxFaults
  /\ faults' = faults + 1
  /\ procs' = [procs EXCEPT ![p].phase = "create"]
  /\ UNCHANGED <<template, secrets, edited, edits>>

\* Writes v to the pool's secret, which is a change made by someone else to
\* the other commands.
Write(p, v) ==
  /\ secrets' = [secrets EXCEPT ![procs[p].pool] = v]
  /\ edited' = [q \in Process |-> IF q = p THEN edited[q]
                                  ELSE edited[q] \cup {procs[p].pool}]

\* Mutant: the template is read again for every pool.
SetCurrent(p) ==
  /\ procs[p].phase \in {"set", "create"}
  /\ Write(p, template)
  /\ Continue(p)
  /\ UNCHANGED <<template, edits, faults>>

\* secrets_api.set.
Set(p) ==
  /\ procs[p].phase \in {"set", "create"}
  /\ Write(p, procs[p].wanted)
  /\ Continue(p)
  /\ UNCHANGED <<template, edits, faults>>

\* Mutant: a failing set in the handler is ignored.
SetFailsQuietly(p) ==
  /\ procs[p].phase \in {"set", "create"}
  /\ faults < MaxFaults
  /\ faults' = faults + 1
  /\ Continue(p)
  /\ UNCHANGED <<template, secrets, edited, edits>>

\* The set fails, having had its effect or not. Inside the try the same handler
\* creates the secret; in the handler itself the command ends.
SetFails(p) ==
  /\ procs[p].phase \in {"set", "create"}
  /\ faults < MaxFaults
  /\ faults' = faults + 1
  /\ Write(p, procs[p].wanted) \/ UNCHANGED <<secrets, edited>>
  /\ procs' = [procs EXCEPT ![p].phase =
                 IF procs[p].phase = "set" THEN "create" ELSE "failed"]
  /\ UNCHANGED <<template, edits>>

Kill(p) ==
  /\ procs[p].phase \in {"get", "set", "create"}
  /\ faults < MaxFaults
  /\ faults' = faults + 1
  /\ procs' = [procs EXCEPT ![p].phase = "failed"]
  /\ UNCHANGED <<template, secrets, edited, edits>>

Next ==
  \/ \E v \in Value : EditTemplate(v)
  \/ \E w \in Pool, v \in Value \cup {Absent} : EditSecret(w, v)
  \/ \E p \in Process :
       \/ \E update \in BOOLEAN : Begin(p, update)
       \/ Get(p) \/ GetFails(p) \/ Set(p) \/ SetFails(p) \/ Kill(p)

Spec == Init /\ [][Next]_vars
-----------------------------------------------------------------------------
TypeOK ==
  /\ template \in Value
  /\ secrets \in [Pool -> Value \cup {Absent}]
  /\ procs \in [Process ->
       [phase : {"idle", "get", "set", "create", "ok", "failed"},
        update : BOOLEAN, wanted : Value \cup {Absent}, pool : Pool]]
  /\ edited \in [Process -> SUBSET Pool]
  /\ edits \in 0 .. MaxEdits /\ faults \in 0 .. MaxFaults

\* check_worker_secrets finds nothing missing after a create-worker-secrets that
\* ended well, but for secrets others changed since the command began: no failing
\* request makes it skip a pool.
CheckMissing == {w \in Pool : secrets[w] = Absent}
CreatedSecretsExist ==
  \A p \in Process : procs[p].phase = "ok" => CheckMissing \subseteq edited[p]

\* After a command with --update that ended well, every pool's secret is what the
\* template was when the command began, unless others changed it meanwhile.
UpdatedSecretsMatch ==
  \A p \in Process : \A w \in Pool \ edited[p] :
    procs[p].phase = "ok" /\ procs[p].update => secrets[w] = procs[p].wanted

\* As long as every request has succeeded, a command without --update does not
\* change a secret that existed when the command began and that others leave
\* alone, whatever commands with --update run beside it. (After a failed get it
\* may: line 76 takes every exception for a missing secret.)
ChangesExisting(p) ==
  \E w \in Pool \ edited[p] : secrets[w] # Absent /\ secrets'[w] # secrets[w]
Acts(p) == procs'[p] # procs[p]
SecretsKeptWithoutFaults ==
  [][faults = 0 =>
       \A p \in Process : Acts(p) /\ ChangesExisting(p) => procs[p].update]_vars
=============================================================================
