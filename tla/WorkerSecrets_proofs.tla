-------------------------- MODULE WorkerSecrets_proofs --------------------------
(* Theorems about WorkerSecrets, for any number of pools and commands.      *)
EXTENDS WorkerSecrets, TLAPS

Proc == [phase : {"idle", "get", "set", "create", "ok", "failed"},
         update : BOOLEAN, wanted : Value \cup {Absent}, pool : Pool]

LEMMA FirstPool == 1 \in Pool /\ NumPools \in Pool /\ Pool \subseteq Nat
BY SecretsAssumption DEF Pool

\* The loop's position stays in the list.
LEMMA ContinueType ==
  ASSUME NEW p \in Process, procs \in [Process -> Proc], Continue(p)
  PROVE  procs' \in [Process -> Proc]
<1>1. procs[p].pool # NumPools => procs[p].pool + 1 \in Pool
  BY SecretsAssumption DEF Pool, Proc
<1>2. CASE procs[p].pool = NumPools
  <2>1. procs' = [procs EXCEPT ![p].phase = "ok", ![p].pool = @]
    BY <1>2 DEF Continue
  <2>2. QED BY <2>1 DEF Proc
<1>3. CASE procs[p].pool # NumPools
  <2>1. procs' = [procs EXCEPT ![p].phase = "get", ![p].pool = @ + 1]
    BY <1>3 DEF Continue
  <2>2. QED BY <1>1, <1>3, <2>1 DEF Proc
<1>4. QED BY <1>2, <1>3

LEMMA WriteType ==
  ASSUME NEW p \in Process, NEW v \in Value \cup {Absent}, procs[p].pool \in Pool,
         Write(p, v), secrets \in [Pool -> Value \cup {Absent}],
         edited \in [Process -> SUBSET Pool]
  PROVE  /\ secrets' \in [Pool -> Value \cup {Absent}]
         /\ edited' \in [Process -> SUBSET Pool]
BY DEF Write

(***************************************************************************)
(* Type correctness.                                                       *)
(***************************************************************************)
THEOREM TypeCorrect == Spec => []TypeOK
<1>1. Init => TypeOK
  BY SecretsAssumption, FirstPool DEF Init, TypeOK, Idle
<1>2. TypeOK /\ [Next]_vars => TypeOK'
  <2> SUFFICES ASSUME TypeOK, [Next]_vars PROVE TypeOK'
    OBVIOUS
  <2> USE SecretsAssumption
  <2>t. procs \in [Process -> Proc] BY DEF TypeOK, Proc
  <2>1. ASSUME NEW v \in Value, EditTemplate(v) PROVE TypeOK'
    BY <2>1 DEF EditTemplate, TypeOK
  <2>2. ASSUME NEW w \in Pool, NEW v \in Value \cup {Absent}, EditSecret(w, v)
        PROVE  TypeOK'
    BY <2>2 DEF EditSecret, TypeOK
  <2>3. ASSUME NEW p \in Process, NEW u \in BOOLEAN, Begin(p, u) PROVE TypeOK'
    <3>1. procs' \in [Process -> Proc]
      BY <2>3, <2>t, FirstPool DEF Begin, TypeOK, Proc
    <3>2. QED BY <2>3, <3>1 DEF Begin, TypeOK, Proc
  <2>4. ASSUME NEW p \in Process, Get(p) PROVE TypeOK'
    <3>1. procs' \in [Process -> Proc]
      BY <2>4, <2>t, ContinueType DEF Get, Proc
    <3>2. QED BY <2>4, <3>1 DEF Get, TypeOK, Proc
  <2>5. ASSUME NEW p \in Process, GetFails(p) PROVE TypeOK'
    BY <2>5 DEF GetFails, TypeOK
  <2>6. ASSUME NEW p \in Process, Set(p) PROVE TypeOK'
    <3>1. procs' \in [Process -> Proc] BY <2>6, <2>t, ContinueType DEF Set
    <3>2. procs[p].pool \in Pool /\ procs[p].wanted \in Value \cup {Absent}
      BY <2>t DEF Proc
    <3>3. QED BY <2>6, <3>1, <3>2, WriteType DEF Set, TypeOK, Proc
  <2>7. ASSUME NEW p \in Process, SetFails(p) PROVE TypeOK'
    <3>1. procs[p].pool \in Pool /\ procs[p].wanted \in Value \cup {Absent}
      BY <2>t DEF Proc
    <3>2. /\ secrets' \in [Pool -> Value \cup {Absent}]
          /\ edited' \in [Process -> SUBSET Pool]
      BY <2>7, <3>1, WriteType DEF SetFails, TypeOK
    <3>3. procs' \in [Process -> Proc] BY <2>7, <2>t DEF SetFails, Proc
    <3>4. QED BY <2>7, <3>2, <3>3 DEF SetFails, TypeOK, Proc
  <2>8. ASSUME NEW p \in Process, Kill(p) PROVE TypeOK'
    BY <2>8 DEF Kill, TypeOK
  <2>9. CASE UNCHANGED vars BY <2>9 DEF vars, TypeOK
  <2>10. QED
    BY <2>1, <2>2, <2>3, <2>4, <2>5, <2>6, <2>7, <2>8, <2>9 DEF Next
<1>3. QED BY <1>1, <1>2, PTL DEF Spec
-----------------------------------------------------------------------------
(***************************************************************************)
(* What a command has achieved so far.  The pools it has passed have a      *)
(* secret, the wanted one with --update, unless others have changed it.     *)
(***************************************************************************)
Busy(p) == procs[p].phase \in {"get", "set", "create"}

Passed(p, w) ==
  procs[p].phase = "ok" \/ (Busy(p) /\ w < procs[p].pool)

WantedInv ==
  \A p \in Process : procs[p].phase = "ok" \/ Busy(p) => procs[p].wanted \in Value

PassedInv ==
  \A p \in Process, w \in Pool :
    Passed(p, w) /\ w \notin edited[p]
    => secrets[w] # Absent /\ (procs[p].update => secrets[w] = procs[p].wanted)

LEMMA Wanted == Spec => []WantedInv
<1>1. Init => WantedInv
  BY DEF Init, WantedInv, Idle, Busy
<1>2. TypeOK /\ WantedInv /\ [Next]_vars => WantedInv'
  <2> SUFFICES ASSUME TypeOK, WantedInv, [Next]_vars PROVE WantedInv'
    OBVIOUS
  <2> USE DEF TypeOK, WantedInv, Busy
  <2>1. ASSUME NEW v \in Value, EditTemplate(v) PROVE WantedInv'
    BY <2>1 DEF EditTemplate
  <2>2. ASSUME NEW w \in Pool, NEW v \in Value \cup {Absent}, EditSecret(w, v)
        PROVE  WantedInv'
    BY <2>2 DEF EditSecret
  <2>3. ASSUME NEW p \in Process, NEW u \in BOOLEAN, Begin(p, u) PROVE WantedInv'
    BY <2>3 DEF Begin
  <2>4. ASSUME NEW p \in Process, Get(p) PROVE WantedInv'
    BY <2>4 DEF Get, Continue
  <2>5. ASSUME NEW p \in Process, GetFails(p) PROVE WantedInv'
    BY <2>5 DEF GetFails
  <2>6. ASSUME NEW p \in Process, Set(p) PROVE WantedInv'
    BY <2>6 DEF Set, Continue
  <2>7. ASSUME NEW p \in Process, SetFails(p) PROVE WantedInv'
    BY <2>7 DEF SetFails
  <2>8. ASSUME NEW p \in Process, Kill(p) PROVE WantedInv'
    BY <2>8 DEF Kill
  <2>9. CASE UNCHANGED vars BY <2>9 DEF vars
  <2>10. QED
    BY <2>1, <2>2, <2>3, <2>4, <2>5, <2>6, <2>7, <2>8, <2>9 DEF Next
<1>3. QED BY <1>1, <1>2, TypeCorrect, PTL DEF Spec

\* A step that leaves command p and its view of pool w alone: the secret is
\* unchanged, or its change is counted in edited[p].
LEMMA Undisturbed ==
  ASSUME NEW p \in Process, NEW w \in Pool, PassedInv, procs'[p] = procs[p],
         edited[p] \subseteq edited'[p],
         secrets'[w] # secrets[w] => w \in edited'[p],
         Passed(p, w)', w \notin edited'[p]
  PROVE  secrets'[w] # Absent /\ (procs'[p].update => secrets'[w] = procs'[p].wanted)
<1>1. Passed(p, w) BY DEF Passed, Busy
<1>2. QED BY <1>1 DEF PassedInv

LEMMA PassedInvariant == Spec => []PassedInv
<1>1. Init => PassedInv
  BY DEF Init, PassedInv, Passed, Busy, Idle
<1>2. TypeOK /\ WantedInv /\ PassedInv /\ [Next]_vars => PassedInv'
  <2> SUFFICES ASSUME TypeOK, WantedInv, PassedInv, [Next]_vars,
                      NEW q \in Process, NEW w \in Pool,
                      Passed(q, w)', w \notin edited'[q]
               PROVE  /\ secrets'[w] # Absent
                      /\ procs'[q].update => secrets'[w] = procs'[q].wanted
    BY DEF PassedInv
  <2> DEFINE Goal == /\ secrets'[w] # Absent
                     /\ procs'[q].update => secrets'[w] = procs'[q].wanted
  <2> HIDE DEF Goal
  <2>g. SUFFICES Goal BY DEF Goal
  <2>u. ASSUME procs'[q] = procs[q], edited[q] \subseteq edited'[q],
               secrets'[w] # secrets[w] => w \in edited'[q]
        PROVE  Goal
    BY <2>u, Undisturbed DEF Goal
  <2>c. ASSUME secrets'[w] = secrets[w], edited'[q] = edited[q],
               procs'[q] = [procs[q] EXCEPT !.phase = procs'[q].phase],
               procs'[q].phase \notin {"ok"}, Busy(q)
        PROVE  Goal
    BY <2>c DEF Goal, PassedInv, Passed, Busy, TypeOK
  <2>1. ASSUME NEW v \in Value, EditTemplate(v) PROVE Goal
    BY <2>1, <2>u DEF EditTemplate
  <2>2. ASSUME NEW x \in Pool, NEW v \in Value \cup {Absent}, EditSecret(x, v)
        PROVE  Goal
    BY <2>2, <2>u DEF EditSecret, TypeOK
  <2>3. ASSUME NEW p \in Process, NEW u \in BOOLEAN, Begin(p, u) PROVE Goal
    <3>1. CASE p = q
      <4>1. ~Passed(q, w)'
        BY <2>3, <3>1, FirstPool DEF Begin, Passed, Busy, TypeOK, Pool
      <4>2. QED BY <4>1
    <3>2. CASE p # q BY <2>3, <3>2, <2>u DEF Begin, TypeOK
    <3>3. QED BY <3>1, <3>2
  <2>4. ASSUME NEW p \in Process, Get(p) PROVE Goal
    <3>1. CASE p # q BY <2>4, <3>1, <2>u DEF Get, Continue, TypeOK
    <3>2. CASE p = q /\ MustSet(p, secrets[procs[p].pool])
      BY <2>4, <3>2 DEF Get, Goal, PassedInv, Passed, Busy, TypeOK
    <3>3. CASE p = q /\ ~MustSet(p, secrets[procs[p].pool])
      <4>1. Continue(p) /\ secrets' = secrets /\ edited' = edited /\ Busy(p)
        BY <2>4, <3>3 DEF Get, Busy
      <4>2. w = procs[p].pool \/ Passed(p, w)
        BY <3>3, <4>1, SecretsAssumption DEF Continue, Passed, Busy, TypeOK, Pool
      <4>3. /\ procs'[p].update = procs[p].update
            /\ procs'[p].wanted = procs[p].wanted
        BY <4>1 DEF Continue, TypeOK
      <4>4. CASE w = procs[p].pool BY <3>3, <4>1, <4>3, <4>4 DEF MustSet, Goal
      <4>5. CASE Passed(p, w) BY <3>3, <4>1, <4>3, <4>5 DEF PassedInv, Goal
      <4>6. QED BY <4>2, <4>4, <4>5
    <3>4. QED BY <3>1, <3>2, <3>3
  <2>5. ASSUME NEW p \in Process, GetFails(p) PROVE Goal
    BY <2>5, <2>u DEF GetFails, Goal, PassedInv, Passed, Busy, TypeOK
  <2>6. ASSUME NEW p \in Process, Set(p) PROVE Goal
    <3>1. CASE p # q BY <2>6, <3>1, <2>u DEF Set, Write, Continue, TypeOK
    <3>2. CASE p = q
      <4>1. /\ Continue(p) /\ edited'[p] = edited[p] /\ Busy(p)
            /\ secrets' = [secrets EXCEPT ![procs[p].pool] = procs[p].wanted]
        BY <2>6 DEF Set, Write, Busy, TypeOK
      <4>2. w = procs[p].pool \/ (w # procs[p].pool /\ Passed(p, w))
        BY <3>2, <4>1, SecretsAssumption DEF Continue, Passed, Busy, TypeOK, Pool
      <4>3. /\ procs'[p].update = procs[p].update
            /\ procs'[p].wanted = procs[p].wanted
        BY <4>1 DEF Continue, TypeOK
      <4>4. CASE w = procs[p].pool
        BY <3>2, <4>1, <4>3, <4>4, SecretsAssumption DEF WantedInv, Goal, TypeOK
      <4>5. CASE w # procs[p].pool /\ Passed(p, w)
        BY <3>2, <4>1, <4>3, <4>5 DEF PassedInv, Goal, TypeOK
      <4>6. QED BY <4>2, <4>4, <4>5
    <3>3. QED BY <3>1, <3>2
  <2>7. ASSUME NEW p \in Process, SetFails(p) PROVE Goal
    <3>1. CASE p # q BY <2>7, <3>1, <2>u DEF SetFails, Write, TypeOK
    <3>2. CASE p = q
      <4>1. Passed(q, w) /\ w # procs[p].pool
        BY <2>7, <3>2 DEF SetFails, Passed, Busy, TypeOK, Pool
      <4>2. secrets'[w] = secrets[w] /\ edited'[q] = edited[q]
        BY <2>7, <3>2, <4>1 DEF SetFails, Write, TypeOK
      <4>3. /\ procs'[p].update = procs[p].update
            /\ procs'[p].wanted = procs[p].wanted
        BY <2>7 DEF SetFails, TypeOK
      <4>4. QED BY <3>2, <4>1, <4>2, <4>3 DEF PassedInv, Goal
    <3>3. QED BY <3>1, <3>2
  <2>8. ASSUME NEW p \in Process, Kill(p) PROVE Goal
    <3>1. CASE p = q BY <2>8, <3>1 DEF Kill, Passed, Busy, TypeOK
    <3>2. CASE p # q BY <2>8, <3>2, <2>u DEF Kill, TypeOK
    <3>3. QED BY <3>1, <3>2
  <2>9. CASE UNCHANGED vars BY <2>9, <2>u DEF vars
  <2>10. QED
    BY <2>1, <2>2, <2>3, <2>4, <2>5, <2>6, <2>7, <2>8, <2>9 DEF Next
<1>3. QED BY <1>1, <1>2, TypeCorrect, Wanted, PTL DEF Spec

(***************************************************************************)
(* A create-worker-secrets that ended well left no secret missing that      *)
(* nobody else has touched, and with --update none that is outdated.        *)
(***************************************************************************)
THEOREM CreatedHolds == Spec => []CreatedSecretsExist
<1>1. PassedInv => CreatedSecretsExist
  BY DEF PassedInv, Passed, CreatedSecretsExist, CheckMissing
<1>2. QED BY <1>1, PassedInvariant, PTL

THEOREM UpdatedHolds == Spec => []UpdatedSecretsMatch
<1>1. PassedInv => UpdatedSecretsMatch
  BY DEF PassedInv, Passed, UpdatedSecretsMatch
<1>2. QED BY <1>1, PassedInvariant, PTL
-----------------------------------------------------------------------------
(***************************************************************************)
(* Why a command writes.  It is in the try's set only with --update, and in *)
(* the handler, as long as no request has failed, only because the secret   *)
(* was missing: if it exists by now, others have made it.                   *)
(***************************************************************************)
ReasonInv ==
  \A p \in Process :
    /\ procs[p].phase = "set" => procs[p].update
    /\ faults = 0 /\ procs[p].phase = "create"
       => secrets[procs[p].pool] = Absent \/ procs[p].pool \in edited[p]

LEMMA Reason == Spec => []ReasonInv
<1>1. Init => ReasonInv
  BY DEF Init, ReasonInv, Idle
<1>2. TypeOK /\ ReasonInv /\ [Next]_vars => ReasonInv'
  <2> SUFFICES ASSUME TypeOK, ReasonInv, [Next]_vars, NEW q \in Process
               PROVE  /\ procs'[q].phase = "set" => procs'[q].update
                      /\ faults' = 0 /\ procs'[q].phase = "create"
                         => secrets'[procs'[q].pool] = Absent
                            \/ procs'[q].pool \in edited'[q]
    BY DEF ReasonInv
  <2> DEFINE Goal == /\ procs'[q].phase = "set" => procs'[q].update
                     /\ faults' = 0 /\ procs'[q].phase = "create"
                        => secrets'[procs'[q].pool] = Absent
                           \/ procs'[q].pool \in edited'[q]
  <2> HIDE DEF Goal
  <2>g. SUFFICES Goal BY DEF Goal
  <2>t. procs[q] \in Proc /\ procs[q].pool \in Pool BY DEF TypeOK, Proc
  \* A step that leaves q alone, and counts a change of its pool as one of others.
  <2>u. ASSUME procs'[q] = procs[q], edited[q] \subseteq edited'[q],
               faults' = 0 => faults = 0,
               \A w \in Pool : secrets'[w] # secrets[w] => w \in edited'[q]
        PROVE  Goal
    BY <2>u, <2>t DEF Goal, ReasonInv
  <2>f. ASSUME faults' = faults + 1, procs'[q].phase # "set" PROVE Goal
    BY <2>f DEF Goal, TypeOK
  <2>e. ASSUME procs'[q].phase \notin {"set", "create"} PROVE Goal
    BY <2>e DEF Goal
  <2>1. ASSUME NEW v \in Value, EditTemplate(v) PROVE Goal
    BY <2>1, <2>u DEF EditTemplate
  <2>2. ASSUME NEW x \in Pool, NEW v \in Value \cup {Absent}, EditSecret(x, v)
        PROVE  Goal
    BY <2>2, <2>u DEF EditSecret, TypeOK
  <2>3. ASSUME NEW p \in Process, NEW u \in BOOLEAN, Begin(p, u) PROVE Goal
    <3>1. CASE p = q BY <2>3, <3>1, <2>e DEF Begin, TypeOK
    <3>2. CASE p # q BY <2>3, <3>2, <2>u DEF Begin, TypeOK
    <3>3. QED BY <3>1, <3>2
  <2>4. ASSUME NEW p \in Process, Get(p) PROVE Goal
    <3>1. CASE p # q BY <2>4, <3>1, <2>u DEF Get, Continue, TypeOK
    <3>2. CASE p = q /\ MustSet(p, secrets[procs[p].pool])
      BY <2>4, <3>2 DEF Get, MustSet, Goal, TypeOK
    <3>3. CASE p = q /\ ~MustSet(p, secrets[procs[p].pool])
      BY <2>4, <3>3, <2>e DEF Get, Continue, TypeOK
    <3>4. QED BY <3>1, <3>2, <3>3
  <2>5. ASSUME NEW p \in Process, GetFails(p) PROVE Goal
    <3>1. CASE p = q BY <2>5, <3>1, <2>f DEF GetFails, TypeOK
    <3>2. CASE p # q BY <2>5, <3>2, <2>u DEF GetFails, TypeOK
    <3>3. QED BY <3>1, <3>2
  <2>6. ASSUME NEW p \in Process, Set(p) PROVE Goal
    <3>1. CASE p = q BY <2>6, <3>1, <2>e DEF Set, Continue, TypeOK
    <3>2. CASE p # q BY <2>6, <3>2, <2>u DEF Set, Write, Continue, TypeOK
    <3>3. QED BY <3>1, <3>2
  <2>7. ASSUME NEW p \in Process, SetFails(p) PROVE Goal
    <3>1. CASE p = q BY <2>7, <3>1, <2>f DEF SetFails, TypeOK
    <3>2. CASE p # q BY <2>7, <3>2, <2>u DEF SetFails, Write, TypeOK
    <3>3. QED BY <3>1, <3>2
  <2>8. ASSUME NEW p \in Process, Kill(p) PROVE Goal
    <3>1. CASE p = q BY <2>8, <3>1, <2>e DEF Kill, TypeOK
    <3>2. CASE p # q BY <2>8, <3>2, <2>u DEF Kill, TypeOK
    <3>3. QED BY <3>1, <3>2
  <2>9. CASE UNCHANGED vars BY <2>9, <2>u DEF vars
  <2>10. QED
    BY <2>1, <2>2, <2>3, <2>4, <2>5, <2>6, <2>7, <2>8, <2>9 DEF Next
<1>3. QED BY <1>1, <1>2, TypeCorrect, PTL DEF Spec

(***************************************************************************)
(* As long as every request has succeeded, a command without --update       *)
(* changes no secret that exists and that only it has touched.              *)
(***************************************************************************)
THEOREM KeptHolds == Spec => SecretsKeptWithoutFaults
<1> DEFINE Kept == \A p \in Process :
                     Acts(p) /\ ChangesExisting(p) => procs[p].update
<1>1. TypeOK /\ ReasonInv /\ [Next]_vars => [faults = 0 => Kept]_vars
  <2> SUFFICES ASSUME TypeOK, ReasonInv, Next, faults = 0, NEW q \in Process,
                      Acts(q), ChangesExisting(q)
               PROVE  procs[q].update
    OBVIOUS
  <2> USE DEF Acts, TypeOK
  <2>w. PICK w \in Pool \ edited[q] : secrets[w] # Absent /\ secrets'[w] # secrets[w]
    BY DEF ChangesExisting
  \* Only the steps of q act, and of those only the two sets write.
  <2>1. CASE Set(q) \/ SetFails(q)
    <3>1. w = procs[q].pool
      BY <2>1, <2>w DEF Set, SetFails, Write
    <3>2. procs[q].phase # "create"
      BY <2>w, <3>1 DEF ReasonInv
    <3>3. QED BY <2>1, <3>2 DEF Set, SetFails, ReasonInv
  <2>2. ASSUME NEW p \in Process, p # q PROVE ~Set(p) /\ ~SetFails(p)
    BY <2>2 DEF Set, SetFails, Continue
  <2>3. ASSUME secrets' = secrets PROVE FALSE
    BY <2>3, <2>w
  <2>4. ASSUME NEW v \in Value, EditTemplate(v) PROVE FALSE
    BY <2>3, <2>4 DEF EditTemplate
  <2>5. ASSUME NEW x \in Pool, NEW v \in Value \cup {Absent}, EditSecret(x, v)
        PROVE  FALSE
    BY <2>5 DEF EditSecret
  <2>6. ASSUME NEW p \in Process, NEW u \in BOOLEAN, Begin(p, u) PROVE FALSE
    BY <2>3, <2>6 DEF Begin
  <2>7. ASSUME NEW p \in Process, Get(p) \/ GetFails(p) \/ Kill(p) PROVE FALSE
    BY <2>3, <2>7 DEF Get, GetFails, Kill
  <2>8. QED BY <2>1, <2>2, <2>4, <2>5, <2>6, <2>7 DEF Next
<1>2. QED
  BY <1>1, TypeCorrect, Reason, PTL DEF Spec, SecretsKeptWithoutFaults
=============================================================================
