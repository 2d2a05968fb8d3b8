--------------------------- MODULE FileFetch_proofs ---------------------------
(***************************************************************************)
(* Type correctness of FileFetch, that its two caches implement ReadOnce, and *)
(* the life of the shared client, for any tests, repositories, branches,    *)
(* changes and faults.                                                      *)
(***************************************************************************)
EXTENDS FileFetch, FiniteSetTheorems, TLAPS

LEMMA TestsType ==
  /\ TestId = 1 .. Len(Tests) /\ Len(Tests) \in Nat
  /\ \A t \in TestId : t \in Nat /\ t # Free /\ t + 1 \in 1 .. Len(Tests) + 1
BY FetchAssumption DEF TestId, Free

LEMMA ProjectsType ==
  /\ DOMAIN Projects = 1 .. Len(Projects) /\ Len(Projects) \in Nat
  /\ \A i \in DOMAIN Projects : Projects[i] \in Repo
BY FetchAssumption DEF Repo

LEMMA ExtendType ==
  ASSUME NEW list \in Listing, NEW S
  PROVE  Extend(list, S) \in Listing
<1>1. \A b \in Branch : list[b] \in 0 .. Copies BY DEF Listing
<1>2. Copies \in Nat BY FetchAssumption
<1>3. \A b \in Branch : list[b] < Copies => list[b] + 1 \in 0 .. Copies BY <1>1, <1>2
<1>4. QED BY <1>1, <1>3 DEF Extend, Listing

LEMMA EmptyListingType == EmptyListing \in Listing
BY FetchAssumption DEF EmptyListing, Listing

LEMMA SpawnType ==
  ASSUME NEW t, NEW r, NEW list, Spawn(t, r, list), fetch \in [Fetcher -> FetchRecord]
  PROVE  /\ fetch' \in [Fetcher -> FetchRecord]
         /\ \A f \in Fetcher :
              \/ fetch'[f] = fetch[f]
              \/ /\ f.test = t /\ fetch[f].phase = "off"
                 /\ fetch'[f] = [fetch[f] EXCEPT !.phase = "lock"]
<1>1. \A f \in Fetcher : [fetch[f] EXCEPT !.phase = "lock"] \in FetchRecord
  BY DEF FetchRecord
<1>2. \A f \in Fetcher :
        \/ fetch'[f] = fetch[f]
        \/ /\ f.test = t /\ fetch[f].phase = "off"
           /\ fetch'[f] = [fetch[f] EXCEPT !.phase = "lock"]
  BY DEF Spawn
<1>3. fetch' = [f \in Fetcher |-> fetch'[f]] BY DEF Spawn
<1>4. \A f \in Fetcher : fetch'[f] \in FetchRecord BY <1>1, <1>2
<1>5. QED BY <1>2, <1>3, <1>4

LEMMA GetClientType ==
  ASSUME client \in Nat, created \in Nat, open \subseteq 1 .. created,
         NEW c, GetClient(c)
  PROVE  /\ client' \in Nat /\ created' \in Nat /\ open' \subseteq 1 .. created'
         /\ c = client' /\ c \in Nat /\ closing' = closing
<1>1. CASE client = Free
  <2>1. created' \in Nat /\ client' \in Nat /\ created + 1 \in 1 .. created'
        /\ 1 .. created \subseteq 1 .. created'
    BY <1>1 DEF GetClient
  <2>2. QED BY <1>1, <2>1 DEF GetClient
<1>2. CASE client # Free BY <1>2 DEF GetClient
<1>3. QED BY <1>1, <1>2

LEMMA GotoType ==
  ASSUME main \in [TestId -> MainRecord], NEW t \in TestId, NEW p, Goto(t, p),
         p \in {"off", "next", "lock", "client", "page", "await", "close", "closing",
                "done", "raised"}
  PROVE  /\ main' \in [TestId -> MainRecord]
         /\ main'[t] = [main[t] EXCEPT !.phase = p]
         /\ \A u \in TestId \ {t} : main'[u] = main[u]
BY DEF Goto, MainRecord

LEMMA NextProjectType ==
  ASSUME main \in [TestId -> MainRecord], NEW t \in TestId, NextProject(t)
  PROVE  /\ main' \in [TestId -> MainRecord]
         /\ main'[t] = [main[t] EXCEPT !.phase = "next", !.at = main[t].at + 1]
         /\ \A u \in TestId \ {t} : main'[u] = main[u]
<1> DEFINE r == [main[t] EXCEPT !.phase = "next", !.at = main[t].at + 1]
<1>1. main[t] \in MainRecord /\ main[t].at + 1 \in Nat \ {0} BY DEF MainRecord
<1>2. r \in MainRecord BY <1>1 DEF MainRecord
<1>3. main' = [main EXCEPT ![t] = r] BY <1>1 DEF NextProject
<1>4. QED BY <1>2, <1>3

LEMMA TestEndsType ==
  ASSUME test \in 1 .. Len(Tests) + 1, generated \in BOOLEAN, NEW t \in TestId,
         NEW passed \in BOOLEAN, TestEnds(t, passed)
  PROVE  /\ test' \in 1 .. Len(Tests) + 1 /\ generated' \in BOOLEAN
         /\ abandoned' = abandoned
<1>1. test' \in 1 .. Len(Tests) + 1 BY TestsType DEF TestEnds
<1>2. QED BY <1>1 DEF TestEnds

LEMMA FaultsType ==
  ASSUME faults \in 0 .. MaxFaults, NEW usable \in BOOLEAN, RequestFails(usable)
  PROVE  faults' \in 0 .. MaxFaults
BY FetchAssumption DEF RequestFails

-----------------------------------------------------------------------------
(***************************************************************************)
(* Type correctness, variable by variable.                                  *)
(***************************************************************************)
LEMMA InitType == Init => TypeOK
<1> SUFFICES ASSUME Init PROVE TypeOK OBVIOUS
<1>1. /\ content \in [File -> Content \cup {NoFile}] /\ exists \in [Repo -> SUBSET Branch]
  BY DEF Init
<1>2. 0 \in 0 .. MaxChanges /\ 0 \in 0 .. MaxFaults /\ 1 \in 1 .. Len(Tests) + 1
  BY FetchAssumption, TestsType
<1>3. main \in [TestId -> MainRecord]
  <2>1. [phase |-> "off", at |-> 1, page |-> 1, list |-> EmptyListing, client |-> Free]
          \in MainRecord
    BY EmptyListingType DEF MainRecord, Free
  <2>2. QED BY <2>1 DEF Init
<1>4. fetch \in [Fetcher -> FetchRecord] BY DEF Init, FetchRecord, Free
<1>5. QED BY <1>1, <1>2, <1>3, <1>4 DEF Init, TypeOK, Free

LEMMA RepoStepType ==
  ASSUME TypeOK, NEW r \in Repo, NEW b \in Branch, NEW c \in Content \cup {NoFile},
         CreateBranch(r, b, c) \/ PushFile(r, b, c) \/ DeleteBranch(r, b)
  PROVE  TypeOK'
<1>1. /\ UNCHANGED <<branchVars, fileVars, clientVars, sessionVars, main, fetch, faults>>
      /\ changes < MaxChanges /\ changes' = changes + 1
  BY DEF CreateBranch, PushFile, DeleteBranch, Changed
<1>2. changes' \in 0 .. MaxChanges BY <1>1, FetchAssumption DEF TypeOK
<1>3. exists' \in [Repo -> SUBSET Branch]
  BY DEF TypeOK, CreateBranch, PushFile, DeleteBranch
<1>4. content' \in [File -> Content \cup {NoFile}]
  BY DEF TypeOK, CreateBranch, PushFile, DeleteBranch
<1>5. lasting' \in [Repo -> SUBSET Branch] /\ shrunk' \in [Repo -> BOOLEAN]
  <2>1. lasting \in [Repo -> SUBSET Branch] /\ shrunk \in [Repo -> BOOLEAN] BY DEF TypeOK
  <2>2. CASE CreateBranch(r, b, c) BY <2>1, <2>2 DEF CreateBranch, historyVars
  <2>3. CASE PushFile(r, b, c) BY <2>1, <2>3 DEF PushFile, historyVars
  <2>4. CASE DeleteBranch(r, b) BY <2>1, <2>4 DEF DeleteBranch, historyVars
  <2>5. QED BY <2>2, <2>3, <2>4
<1>6. QED
  BY <1>1, <1>2, <1>3, <1>4, <1>5
     DEF TypeOK, branchVars, fileVars, clientVars, sessionVars

\* Where a coroutine is in the loop over the projects, and of which test.
AtInv ==
  \A t \in TestId :
    /\ main[t].phase \in {"lock", "client", "page"} =>
         Tests[t] = "generate" /\ main[t].at \in DOMAIN Projects /\ At(t) \in GitRepo
    /\ main[t].phase = "await" => Tests[t] = "policies" /\ main[t].at \in DOMAIN Projects

LEMMA MainStepType ==
  ASSUME TypeOK, AtInv, NEW t \in TestId, MainStep(t)
  PROVE  TypeOK'
<1> USE DEF TypeOK, repoVars, branchVars, fileVars, clientVars, sessionVars, historyVars
<1>1. CASE StartTest(t)
  <2>1. main' \in [TestId -> MainRecord] BY <1>1, GotoType DEF StartTest
  <2>2. test' \in 1 .. Len(Tests) + 1 /\ generated' \in BOOLEAN /\ abandoned' = abandoned
    BY <1>1, TestEndsType DEF StartTest
  <2>3. QED BY <1>1, <2>1, <2>2 DEF StartTest
<1>2. CASE ListHg(t)
  <2>1. main' \in [TestId -> MainRecord] BY <1>2, NextProjectType DEF ListHg
  <2>2. fetch' \in [Fetcher -> FetchRecord] BY <1>2, SpawnType DEF ListHg
  <2>3. QED BY <1>2, <2>1, <2>2 DEF ListHg
<1>3. CASE AskBranches(t)
  <2>1. main' \in [TestId -> MainRecord] BY <1>3, GotoType DEF AskBranches
  <2>2. QED BY <1>3, <2>1 DEF AskBranches
<1>4. CASE BranchesCached(t) \/ AnswerPage(t)
  <2>1. CASE \E list \in Listing : GiveListing(t, list)
    <3>1. main' \in [TestId -> MainRecord] BY <2>1, NextProjectType DEF GiveListing
    <3>2. fetch' \in [Fetcher -> FetchRecord] BY <2>1, SpawnType DEF GiveListing
    <3>3. listed' \in [Lister -> Listing \cup {NotAsked, Asked, Raised}]
      BY <2>1 DEF GiveListing
    <3>4. /\ branchCache' \in [Repo -> Listing \cup {Unread}]
          /\ branchLock' \in [Repo -> {Free} \cup TestId]
      <4>1. Extend(main[t].list, Page(exists[At(t)], main[t].page)) \in Listing
        BY ExtendType DEF MainRecord
      <4>2. QED BY <1>4, <4>1 DEF BranchesCached, AnswerPage
    <3>5. QED BY <1>4, <3>1, <3>2, <3>3, <3>4 DEF BranchesCached, AnswerPage
  <2>2. CASE ~\E list \in Listing : GiveListing(t, list)
    <3> DEFINE list == Extend(main[t].list, Page(exists[At(t)], main[t].page))
               r == [main[t] EXCEPT !.page = main[t].page + 1, !.list = list]
    <3>0. main[t].list \in Listing
      <4> HIDE DEF list, r
      <4>1. main[t] \in MainRecord OBVIOUS
      <4>2. QED BY <4>1 DEF MainRecord
    <3>1. list \in Listing BY <3>0, ExtendType
    <3>2. ~BranchesCached(t) BY <2>2 DEF BranchesCached, AtInv, GitRepo
    <3>3. /\ main' = [main EXCEPT ![t].page = main[t].page + 1, ![t].list = list]
          /\ UNCHANGED <<branchVars, fetch>>
          /\ UNCHANGED <<repoVars, fileVars, clientVars, sessionVars, historyVars, faults>>
      BY <1>4, <2>2, <3>1, <3>2 DEF AnswerPage
    <3>4. main[t] \in MainRecord /\ main[t].page + 1 \in Nat \ {0} BY DEF MainRecord
    <3> HIDE DEF list
    <3>5. r \in MainRecord BY <3>1, <3>4 DEF MainRecord
    <3>6. main' = [main EXCEPT ![t] = r] BY <3>3, <3>4
    <3> HIDE DEF r
    <3>7. main' \in [TestId -> MainRecord] BY <3>5, <3>6
    <3>8. QED BY <3>3, <3>7
  <2>3. QED BY <2>1, <2>2
<1>5. CASE LockBranches(t)
  <2>1. main' \in [TestId -> MainRecord] BY <1>5, GotoType DEF LockBranches
  <2>2. QED BY <1>5, <2>1 DEF LockBranches
<1>6. CASE RequestBranches(t)
  <2>1. PICK c \in {client, created + 1} :
          /\ GetClient(c)
          /\ main' = [main EXCEPT ![t].phase = "page", ![t].page = 1,
                                  ![t].list = EmptyListing, ![t].client = c]
    BY <1>6 DEF RequestBranches
  <2>2. /\ client' \in Nat /\ created' \in Nat /\ open' \subseteq 1 .. created'
        /\ c \in Nat /\ closing' = closing
    BY <2>1, GetClientType
  <2>3. main' \in [TestId -> MainRecord]
    <3> DEFINE r == [main[t] EXCEPT !.phase = "page", !.page = 1,
                                    !.list = EmptyListing, !.client = c]
    <3>1. main[t] \in MainRecord /\ EmptyListing \in Listing /\ 1 \in Nat \ {0}
      BY EmptyListingType
    <3>2. r \in MainRecord
      <4> DEFINE list == EmptyListing
      <4>1. list \in Listing /\ c \in Nat BY <2>2, <3>1
      <4> HIDE DEF list
      <4>2. [main[t] EXCEPT !.phase = "page", !.page = 1, !.list = list, !.client = c]
              \in MainRecord
        BY <3>1, <4>1 DEF MainRecord
      <4>3. QED BY <4>2 DEF list
    <3>3. main' = [main EXCEPT ![t] = r] BY <2>1, <3>1
    <3> HIDE DEF r
    <3>4. QED BY <3>2, <3>3
  <2>4. lasting' \in [Repo -> SUBSET Branch] /\ shrunk' \in [Repo -> BOOLEAN]
    BY <1>6 DEF RequestBranches
  <2>5. QED BY <1>6, <2>2, <2>3, <2>4 DEF RequestBranches
<1>7. CASE PageFails(t)
  <2>1. main' \in [TestId -> MainRecord] BY <1>7, GotoType DEF PageFails
  <2>2. test' \in 1 .. Len(Tests) + 1 /\ generated' \in BOOLEAN /\ abandoned' = abandoned
    BY <1>7, TestEndsType DEF PageFails
  <2>3. faults' \in 0 .. MaxFaults
    <3> DEFINE usable == main[t].client \in open
    <3>1. usable \in BOOLEAN /\ RequestFails(usable) BY <1>7 DEF PageFails
    <3> HIDE DEF usable
    <3>2. QED BY <3>1, FaultsType
  <2>4. QED BY <1>7, <2>1, <2>2, <2>3 DEF PageFails
<1>8. CASE Gathered(t)
  <2>1. main' \in [TestId -> MainRecord] BY <1>8, GotoType DEF Gathered
  <2>2. QED BY <1>8, <2>1 DEF Gathered
<1>9. CASE GatherRaises(t)
  <2>1. main' \in [TestId -> MainRecord] BY <1>9, GotoType DEF GatherRaises
  <2>2. test' \in 1 .. Len(Tests) + 1 /\ generated' \in BOOLEAN /\ abandoned' = abandoned
    BY <1>9, TestEndsType DEF GatherRaises
  <2>3. QED BY <1>9, <2>1, <2>2 DEF GatherRaises
<1>10. CASE AskPolicy(t)
  <2>1. main' \in [TestId -> MainRecord]
    BY <1>10, GotoType, NextProjectType DEF AskPolicy
  <2>2. fetch' \in [Fetcher -> FetchRecord]
    <3>1. ASSUME NEW g, fetch' = [fetch EXCEPT ![g].phase = "lock"]
          PROVE  fetch' \in [Fetcher -> FetchRecord]
      BY <3>1 DEF FetchRecord
    <3>2. QED BY <1>10, <3>1 DEF AskPolicy
  <2>3. QED BY <1>10, <2>1, <2>2 DEF AskPolicy
<1>11. CASE PolicyRead(t)
  <2>1. main' \in [TestId -> MainRecord] BY <1>11, GotoType DEF PolicyRead
  <2>2. test' \in 1 .. Len(Tests) + 1 /\ generated' \in BOOLEAN /\ abandoned' = abandoned
    BY <1>11, TestEndsType DEF PolicyRead
  <2>3. QED BY <1>11, <2>1, <2>2 DEF PolicyRead
<1>12. CASE PoliciesRead(t)
  <2>1. main' \in [TestId -> MainRecord] BY <1>12, GotoType DEF PoliciesRead
  <2>2. test' \in 1 .. Len(Tests) + 1 /\ generated' \in BOOLEAN /\ abandoned' = abandoned
    BY <1>12, TestEndsType DEF PoliciesRead
  <2>3. QED BY <1>12, <2>1, <2>2 DEF PoliciesRead
<1>13. CASE NothingToClose(t) \/ ClientClosed(t)
  <2>1. AfterClose(t) BY <1>13 DEF NothingToClose, ClientClosed
  <2>2. main' \in [TestId -> MainRecord]
    BY <2>1, GotoType, NextProjectType DEF AfterClose
  <2>3. test' \in 1 .. Len(Tests) + 1 /\ generated' \in BOOLEAN /\ abandoned' = abandoned
    BY <2>1, TestEndsType DEF AfterClose
  <2>4. client' \in Nat /\ closing' \in {Free} \cup TestId
    BY <1>13 DEF NothingToClose, ClientClosed, Free
  <2>5. QED BY <1>13, <2>2, <2>3, <2>4 DEF NothingToClose, ClientClosed
<1>14. CASE StartClose(t)
  <2>1. main' \in [TestId -> MainRecord] BY <1>14, GotoType DEF StartClose
  <2>2. QED BY <1>14, <2>1 DEF StartClose
<1>15. QED
  BY <1>1, <1>2, <1>3, <1>4, <1>5, <1>6, <1>7, <1>8, <1>9, <1>10, <1>11, <1>12, <1>13,
     <1>14 DEF MainStep

LEMMA AbandonType == ASSUME TypeOK, NEW t \in TestId, Abandon(t) PROVE TypeOK'
<1>1. /\ UNCHANGED <<repoVars, branchVars, fileVars, clientVars, generated,
                      historyVars, main, fetch>>
      /\ abandoned' = abandoned \cup {t} /\ test' = t + 1
      /\ faults < MaxFaults /\ faults' = faults + 1
  BY DEF Abandon
<1>2. faults' \in 0 .. MaxFaults BY <1>1, FetchAssumption DEF TypeOK
<1>3. test' \in 1 .. Len(Tests) + 1 BY <1>1, TestsType
<1>4. QED
  BY <1>1, <1>2, <1>3 DEF TypeOK, repoVars, branchVars, fileVars, clientVars, historyVars

LEMMA RaiseInType ==
  ASSUME TypeOK, NEW f \in Fetcher, RaiseIn(f), faults' \in 0 .. MaxFaults
  PROVE  TypeOK'
<1>1. /\ UNCHANGED <<repoVars, branchVars, fileCache, clientVars, sessionVars,
                      historyVars, main>>
      /\ fileLock' = [fileLock EXCEPT ![f.file] = Free]
      /\ fetch' = [fetch EXCEPT ![f].phase = "raised", ![f].value = Raised]
  BY DEF RaiseIn
<1>2. fetch' \in [Fetcher -> FetchRecord] BY <1>1 DEF TypeOK, FetchRecord
<1>3. QED
  BY <1>1, <1>2
     DEF TypeOK, repoVars, branchVars, fileVars, clientVars, sessionVars, historyVars

LEMMA FetcherType ==
  ASSUME NEW f \in Fetcher
  PROVE  /\ f.test \in TestId /\ f.file \in File /\ f.copy \in 1 .. Copies
         /\ f.file[1] \in Repo /\ f = [test |-> f.test, file |-> f.file, copy |-> f.copy]
BY DEF Fetcher, File

LEMMA FetchStepType == ASSUME TypeOK, NEW f \in Fetcher, FetchStep(f) PROVE TypeOK'
<1> USE DEF TypeOK, repoVars, branchVars, fileVars, clientVars, sessionVars, historyVars
<1>1. CASE FileCached(f)
  <2>1. fileCache[f.file] \in Content BY <1>1, FetcherType DEF FileCached
  <2>2. fetch' \in [Fetcher -> FetchRecord] BY <1>1, <2>1 DEF FileCached, FetchRecord
  <2>3. QED BY <1>1, <2>2 DEF FileCached
<1>2. CASE LockFile(f)
  <2>1. fetch' \in [Fetcher -> FetchRecord] BY <1>2 DEF LockFile, SetFetch, FetchRecord
  <2>2. f.test \in TestId BY FetcherType
  <2>3. QED BY <1>2, <2>1, <2>2 DEF LockFile
<1>3. CASE RequestHgFile(f)
  <2>1. test \in Nat BY TestsType
  <2>2. fetch' \in [Fetcher -> FetchRecord] BY <1>3, <2>1 DEF RequestHgFile, FetchRecord
  <2>3. QED BY <1>3, <2>2 DEF RequestHgFile
<1>4. CASE RequestFile(f)
  <2>1. PICK c \in {client, created + 1} :
          /\ GetClient(c)
          /\ fetch' = [fetch EXCEPT ![f].phase = "request", ![f].client = c]
    BY <1>4 DEF RequestFile
  <2>2. /\ client' \in Nat /\ created' \in Nat /\ open' \subseteq 1 .. created'
        /\ c \in Nat /\ closing' = closing
    BY <2>1, GetClientType
  <2>3. fetch' \in [Fetcher -> FetchRecord] BY <2>1, <2>2 DEF FetchRecord
  <2>4. QED BY <1>4, <2>2, <2>3 DEF RequestFile
<1>5. CASE AnswerFile(f)
  <2>1. content[f.file] \in Content BY <1>5, FetcherType DEF AnswerFile
  <2>2. fetch' \in [Fetcher -> FetchRecord] BY <1>5, <2>1 DEF AnswerFile, FetchRecord
  <2>3. QED BY <1>5, <2>1, <2>2 DEF AnswerFile
<1>6. CASE AnswerMissing(f)
  <2>1. RaiseIn(f) /\ faults' \in 0 .. MaxFaults BY <1>6 DEF AnswerMissing
  <2>2. QED BY <2>1, RaiseInType
<1>7. CASE FetchFails(f)
  <2>1. RaiseIn(f) BY <1>7 DEF FetchFails
  <2>2. faults' \in 0 .. MaxFaults
    BY <1>7, FetchAssumption DEF FetchFails, RequestFails
  <2>3. QED BY <2>1, <2>2, RaiseInType
<1>8. QED BY <1>1, <1>2, <1>3, <1>4, <1>5, <1>6, <1>7 DEF FetchStep

-----------------------------------------------------------------------------
(***************************************************************************)
(* The inductive invariant.                                                 *)
(***************************************************************************)
Holds(f) == fetch[f].phase \in {"client", "request"}

\* A reader has an answer when it has ended, and the lock of its file, which
\* nobody has read yet, while it asks for it.
FilesInv ==
  /\ \A f \in Fetcher :
       /\ fetch[f].phase \in {"off", "lock", "client", "request"} => fetch[f].value = NotAsked
       /\ fetch[f].phase = "done" => fetch[f].value \in Content
       /\ fetch[f].phase = "raised" => fetch[f].value = Raised
       /\ Holds(f) => fileLock[f.file] = f.test /\ fileCache[f.file] = Unread
  /\ \A f, g \in Fetcher : Holds(f) /\ Holds(g) /\ f.file = g.file => f = g

\* A test that reads policies reads the file of one project after the other.
PolicyInv ==
  \A f \in Fetcher :
    Tests[f.test] = "policies" /\ fetch[f].phase # "off" =>
      \E i \in DOMAIN Projects :
        /\ f.file[1] = Projects[i]
        /\ \/ i < main[f.test].at
           \/ i = main[f.test].at /\ main[f.test].phase \notin {"off", "next"}

\* A test that lists branches asks once for every project, in their order, and
\* has the lock of a repository, which nobody has listed yet, while it does.
BranchesInv ==
  \A t \in TestId :
    /\ main[t].phase \in {"lock", "client", "page"} => listed[<<t, At(t)>>] = Asked
    /\ main[t].phase \in {"client", "page"} =>
         branchLock[At(t)] = t /\ branchCache[At(t)] = Unread
    /\ \A i \in DOMAIN Projects :
         i > main[t].at \/ (i = main[t].at /\ main[t].phase \in {"off", "next"})
           => listed[<<t, Projects[i]>>] = NotAsked

IInv == TypeOK /\ AtInv /\ FilesInv /\ PolicyInv /\ BranchesInv

LEMMA InitOK == Init => IInv
<1> SUFFICES ASSUME Init PROVE IInv OBVIOUS
<1>1. AtInv /\ FilesInv /\ PolicyInv
  BY DEF Init, AtInv, FilesInv, Holds, PolicyInv
<1>2. BranchesInv
  <2>1. \A t \in TestId, i \in DOMAIN Projects : listed[<<t, Projects[i]>>] = NotAsked
    BY ProjectsType DEF Init, Lister
  <2>2. QED BY <2>1 DEF Init, BranchesInv
<1>3. QED BY <1>1, <1>2, InitType DEF IInv

\* The steps of the coroutine of test t do to the readers of files.
OnlySpawns(t) ==
  /\ UNCHANGED fileVars
  /\ \A f \in Fetcher :
       \/ fetch'[f] = fetch[f]
       \/ /\ f.test = t /\ fetch[f].phase = "off"
          /\ fetch'[f] = [fetch[f] EXCEPT !.phase = "lock"]

LEMMA PolicyReaderIsOff ==
  ASSUME IInv, NEW t \in TestId, AskPolicy(t), At(t) \notin HgRepo
  PROVE  LET f == [test |-> t, file |-> <<At(t), DefaultBranch>>, copy |-> 1]
         IN  f \in Fetcher /\ fetch[f].phase = "off"
<1> DEFINE f == [test |-> t, file |-> <<At(t), DefaultBranch>>, copy |-> 1]
<1>1. /\ main[t].at \in DOMAIN Projects /\ main[t].phase = "next"
      /\ Tests[t] = "policies"
  BY DEF AskPolicy
<1>2. At(t) \in Repo BY <1>1, ProjectsType DEF At
<1>3. <<At(t), DefaultBranch>> \in File BY <1>2, FetchAssumption DEF File
<1>4. 1 \in 1 .. Copies BY FetchAssumption
<1>5. f \in Fetcher BY <1>3, <1>4 DEF Fetcher
<1>6. f.test = t /\ f.file[1] = At(t) OBVIOUS
<1> HIDE DEF f
<1>7. ASSUME fetch[f].phase # "off" PROVE FALSE
  <2>1. PICK i \in DOMAIN Projects :
          /\ At(t) = Projects[i]
          /\ \/ i < main[t].at
             \/ i = main[t].at /\ main[t].phase \notin {"off", "next"}
    BY <1>1, <1>5, <1>6, <1>7 DEF IInv, PolicyInv
  <2>2. i = main[t].at BY <1>1, <2>1, FetchAssumption DEF At
  <2>3. i \in Nat BY <2>1, ProjectsType
  <2>4. QED BY <1>1, <2>1, <2>2, <2>3
<1>8. QED BY <1>5, <1>7 DEF f

LEMMA MainStepSpawns ==
  ASSUME IInv, NEW t \in TestId, MainStep(t)
  PROVE  OnlySpawns(t)
<1>0. fetch \in [Fetcher -> FetchRecord] BY DEF IInv, TypeOK
<1>1. CASE UNCHANGED <<fileVars, fetch>> BY <1>1 DEF OnlySpawns
<1>2. ASSUME UNCHANGED fileVars, NEW r, NEW list, Spawn(t, r, list) PROVE OnlySpawns(t)
  BY <1>0, <1>2, SpawnType DEF OnlySpawns
<1>3. CASE AskPolicy(t)
  <2>1. CASE At(t) \in HgRepo BY <1>1, <1>3, <2>1 DEF AskPolicy
  <2>2. CASE At(t) \notin HgRepo
    <3> DEFINE f == [test |-> t, file |-> <<At(t), DefaultBranch>>, copy |-> 1]
    <3>1. f \in Fetcher /\ fetch[f].phase = "off" BY <1>3, <2>2, PolicyReaderIsOff
    <3>2. fetch' = [fetch EXCEPT ![f].phase = "lock"] /\ UNCHANGED fileVars
      BY <1>3, <2>2 DEF AskPolicy
    <3>3. f.test = t OBVIOUS
    <3> HIDE DEF f
    <3>4. \A g \in Fetcher :
            fetch'[g] = IF g = f THEN [fetch[f] EXCEPT !.phase = "lock"] ELSE fetch[g]
      BY <1>0, <3>1, <3>2
    <3>5. QED BY <3>1, <3>2, <3>3, <3>4 DEF OnlySpawns
  <2>3. QED BY <2>1, <2>2
<1>4. CASE ListHg(t) BY <1>2, <1>4 DEF ListHg
<1>5. CASE BranchesCached(t) BY <1>2, <1>5 DEF BranchesCached, GiveListing
<1>6. CASE AnswerPage(t) BY <1>1, <1>2, <1>6 DEF AnswerPage, GiveListing
<1>7. CASE ~AskPolicy(t) /\ ~ListHg(t) /\ ~BranchesCached(t) /\ ~AnswerPage(t)
  BY <1>1, <1>7 DEF MainStep, StartTest, AskBranches, LockBranches, RequestBranches,
     PageFails, Gathered, GatherRaises, PolicyRead, PoliciesRead, NothingToClose, StartClose,
     ClientClosed
<1>8. QED BY <1>3, <1>4, <1>5, <1>6, <1>7

LEMMA SpawnsKeepFiles ==
  ASSUME IInv, NEW t, OnlySpawns(t)
  PROVE  FilesInv'
<1>1. fileCache' = fileCache /\ fileLock' = fileLock BY DEF OnlySpawns, fileVars
<1>2. ASSUME NEW f \in Fetcher
      PROVE  /\ fetch'[f].value = fetch[f].value
             /\ \/ fetch'[f].phase = fetch[f].phase
                \/ fetch[f].phase = "off" /\ fetch'[f].phase = "lock"
  BY DEF OnlySpawns, IInv, TypeOK, FetchRecord
<1>3. \A f \in Fetcher : Holds(f)' <=> Holds(f) BY <1>2 DEF Holds
<1>4. ASSUME NEW f \in Fetcher PROVE FilesInv!1!(f)'
  <2>1. FilesInv!1!(f) BY DEF IInv, FilesInv
  <2>2. QED BY <1>1, <1>2, <1>3, <2>1
<1>5. \A f, g \in Fetcher : Holds(f)' /\ Holds(g)' /\ f.file = g.file => f = g
  BY <1>3 DEF IInv, FilesInv
<1>6. QED BY <1>4, <1>5 DEF FilesInv

\* A reader that takes a free lock, moves on or frees its own lock leaves the
\* others as they are.
LEMMA ReaderMoves ==
  ASSUME IInv, NEW f \in Fetcher, NEW r \in FetchRecord,
         fetch' = [fetch EXCEPT ![f] = r],
         NEW lock \in {Free} \cup TestId, fileLock' = [fileLock EXCEPT ![f.file] = lock],
         NEW value \in Content \cup {Unread},
         fileCache' = [fileCache EXCEPT ![f.file] = value],
         fileLock[f.file] = Free \/ Holds(f),
         r.phase \in {"lock", "client", "request"} => r.value = NotAsked,
         r.phase = "done" => r.value \in Content,
         r.phase = "raised" => r.value = Raised,
         r.phase # "off",
         r.phase \in {"client", "request"} => lock = f.test /\ value = Unread
  PROVE  FilesInv'
<1>1. /\ fetch \in [Fetcher -> FetchRecord] /\ fileLock \in [File -> {Free} \cup TestId]
      /\ fileCache \in [File -> Content \cup {Unread}]
  BY DEF IInv, TypeOK
<1>2. f.file \in File /\ f.test \in TestId BY FetcherType
<1>3. /\ \A g \in Fetcher : fetch'[g] = IF g = f THEN r ELSE fetch[g]
      /\ \A k \in File : fileLock'[k] = IF k = f.file THEN lock ELSE fileLock[k]
      /\ \A k \in File : fileCache'[k] = IF k = f.file THEN value ELSE fileCache[k]
  BY <1>1, <1>2
<1>4. ASSUME NEW g \in Fetcher, g # f, Holds(g) PROVE g.file # f.file
  <2>1. fileLock[g.file] = g.test BY <1>4 DEF IInv, FilesInv
  <2>2. g.test # Free BY FetcherType, TestsType
  <2>3. Holds(f) /\ g.file = f.file => g = f BY <1>4 DEF IInv, FilesInv
  <2>4. QED BY <1>4, <2>1, <2>2, <2>3
<1>5. ASSUME NEW g \in Fetcher PROVE FilesInv!1!(g)'
  <2>1. CASE g = f BY <1>2, <1>3, <2>1 DEF Holds
  <2>2. CASE g # f
    <3>1. FilesInv!1!(g) BY DEF IInv, FilesInv
    <3>2. fetch'[g] = fetch[g] BY <1>3, <2>2
    <3>3. Holds(g)' => g.file # f.file /\ Holds(g) BY <1>4, <2>2, <3>2 DEF Holds
    <3>4. g.file \in File BY FetcherType
    <3>5. Holds(g)' => fileLock'[g.file] = g.test /\ fileCache'[g.file] = Unread
      BY <1>3, <3>1, <3>3, <3>4
    <3>6. QED BY <3>1, <3>2, <3>5
  <2>3. QED BY <2>1, <2>2
<1>6. ASSUME NEW g \in Fetcher, NEW h \in Fetcher, Holds(g)', Holds(h)', g.file = h.file
      PROVE  g = h
  <2>1. \A u \in Fetcher : u # f /\ Holds(u)' => Holds(u) /\ u.file # f.file
    BY <1>3, <1>4 DEF Holds
  <2>2. QED BY <1>6, <2>1 DEF IInv, FilesInv
<1>7. QED BY <1>5, <1>6 DEF FilesInv

LEMMA FetchStepFiles == ASSUME IInv, NEW f \in Fetcher, FetchStep(f) PROVE FilesInv'
<1>1. /\ fetch \in [Fetcher -> FetchRecord] /\ fetch[f] \in FetchRecord
      /\ fileLock \in [File -> {Free} \cup TestId]
      /\ fileCache \in [File -> Content \cup {Unread}]
      /\ content \in [File -> Content \cup {NoFile}]
      /\ f.file \in File /\ f.test \in TestId
  BY FetcherType DEF IInv, TypeOK
<1>2. /\ fileLock[f.file] \in {Free} \cup TestId
      /\ fileCache[f.file] \in Content \cup {Unread} /\ content[f.file] \in Content \cup {NoFile}
      /\ fileLock = [fileLock EXCEPT ![f.file] = fileLock[f.file]]
      /\ fileCache = [fileCache EXCEPT ![f.file] = fileCache[f.file]]
  BY <1>1
<1>3. FilesInv!1!(f) BY DEF IInv, FilesInv
<1>4. CASE FileCached(f)
  <2> DEFINE r == [fetch[f] EXCEPT !.phase = "done", !.value = fileCache[f.file]]
  <2>1. /\ fetch[f].phase = "lock" /\ fileLock[f.file] = Free
        /\ fileCache[f.file] \in Content
        /\ fileLock' = fileLock /\ fileCache' = fileCache
    BY <1>2, <1>4 DEF FileCached, fileVars
  <2>2. fetch' = [fetch EXCEPT ![f] = r] BY <1>1, <1>4 DEF FileCached
  <2>3. r \in FetchRecord /\ r.phase = "done" /\ r.value = fileCache[f.file]
    BY <1>1, <2>1 DEF FetchRecord
  <2> HIDE DEF r
  <2>4. QED BY <1>2, <2>1, <2>2, <2>3, ReaderMoves
<1>5. CASE LockFile(f)
  <2> DEFINE r == [fetch[f] EXCEPT !.phase = "client"]
  <2>1. /\ fetch[f].phase = "lock" /\ fileLock[f.file] = Free
        /\ fileCache[f.file] = Unread
        /\ fileLock' = [fileLock EXCEPT ![f.file] = f.test] /\ fileCache' = fileCache
    BY <1>5 DEF LockFile
  <2>2. fetch' = [fetch EXCEPT ![f] = r] BY <1>1, <1>5 DEF LockFile, SetFetch
  <2>3. r \in FetchRecord /\ r.phase = "client" /\ r.value = NotAsked
    BY <1>1, <1>3, <2>1 DEF FetchRecord
  <2>4. f.test \in {Free} \cup TestId BY <1>1
  <2> HIDE DEF r
  <2>5. QED BY <1>2, <2>1, <2>2, <2>3, <2>4, ReaderMoves
<1>6. CASE RequestHgFile(f) \/ RequestFile(f)
  <2>1. PICK c \in Nat : fetch' = [fetch EXCEPT ![f].phase = "request", ![f].client = c]
    <3>1. client \in Nat /\ created \in Nat /\ test \in Nat BY TestsType DEF IInv, TypeOK
    <3>2. QED BY <1>6, <3>1 DEF RequestHgFile, RequestFile
  <2> DEFINE r == [fetch[f] EXCEPT !.phase = "request", !.client = c]
  <2>2. fetch[f].phase = "client" /\ fileLock' = fileLock /\ fileCache' = fileCache
    BY <1>6 DEF RequestHgFile, RequestFile, fileVars
  <2>3. fetch' = [fetch EXCEPT ![f] = r] BY <1>1, <2>1
  <2>4. r \in FetchRecord /\ r.phase = "request" /\ r.value = NotAsked
    BY <1>1, <1>3, <2>2 DEF FetchRecord
  <2>5. Holds(f) /\ fileLock[f.file] = f.test /\ fileCache[f.file] = Unread
    BY <1>3, <2>2 DEF Holds
  <2> HIDE DEF r
  <2>6. QED BY <1>2, <2>2, <2>3, <2>4, <2>5, ReaderMoves
<1>7. CASE AnswerFile(f)
  <2> DEFINE r == [fetch[f] EXCEPT !.phase = "done", !.value = content[f.file]]
  <2>1. /\ fetch[f].phase = "request" /\ content[f.file] \in Content
        /\ fileLock' = [fileLock EXCEPT ![f.file] = Free]
        /\ fileCache' = [fileCache EXCEPT ![f.file] = content[f.file]]
    BY <1>2, <1>7 DEF AnswerFile
  <2>2. fetch' = [fetch EXCEPT ![f] = r] BY <1>1, <1>7 DEF AnswerFile
  <2>3. r \in FetchRecord /\ r.phase = "done" /\ r.value = content[f.file]
    BY <1>1, <2>1 DEF FetchRecord
  <2>4. Holds(f) BY <2>1 DEF Holds
  <2>5. content[f.file] \in Content \cup {Unread} BY <2>1
  <2> HIDE DEF r
  <2>6. QED BY <2>1, <2>2, <2>3, <2>4, <2>5, ReaderMoves
<1>8. CASE AnswerMissing(f) \/ FetchFails(f)
  <2> DEFINE r == [fetch[f] EXCEPT !.phase = "raised", !.value = Raised]
  <2>1. /\ fetch[f].phase = "request" /\ RaiseIn(f)
        /\ fileLock' = [fileLock EXCEPT ![f.file] = Free] /\ fileCache' = fileCache
    BY <1>8 DEF AnswerMissing, FetchFails, RaiseIn
  <2>2. fetch' = [fetch EXCEPT ![f] = r] BY <1>1, <2>1 DEF RaiseIn
  <2>3. r \in FetchRecord /\ r.phase = "raised" /\ r.value = Raised
    BY <1>1, <2>1 DEF FetchRecord
  <2>4. Holds(f) BY <2>1 DEF Holds
  <2> HIDE DEF r
  <2>5. QED BY <1>2, <2>1, <2>2, <2>3, <2>4, ReaderMoves
<1>9. QED BY <1>4, <1>5, <1>6, <1>7, <1>8 DEF FetchStep

\* How the coroutine of test t goes on: in the loop or past a project.
GoesOn(t) ==
  /\ \A u \in TestId \ {t} : main'[u] = main[u]
  /\ \/ /\ main'[t].at = main[t].at
        /\ main[t].phase \notin {"off", "next"} => main'[t].phase \notin {"off", "next"}
     \/ main'[t].at = main[t].at + 1 /\ main'[t].phase = "next"
  /\ main'[t].phase \in {"lock", "client", "page"} =>
       main'[t].at = main[t].at
         /\ (main[t].phase \in {"lock", "client", "page"} \/ AskBranches(t))
  /\ main'[t].phase = "await" => main'[t].at = main[t].at /\ AskPolicy(t)

LEMMA MainStepGoesOn == ASSUME IInv, NEW t \in TestId, MainStep(t) PROVE GoesOn(t)
<1>1. main \in [TestId -> MainRecord] /\ main[t] \in MainRecord BY DEF IInv, TypeOK
<1>2. ASSUME NEW p, Goto(t, p)
      PROVE  /\ \A u \in TestId \ {t} : main'[u] = main[u]
             /\ main'[t].at = main[t].at /\ main'[t].phase = p
  BY <1>1, <1>2 DEF Goto, MainRecord
<1>3. ASSUME NextProject(t)
      PROVE  /\ \A u \in TestId \ {t} : main'[u] = main[u]
             /\ main'[t].at = main[t].at + 1 /\ main'[t].phase = "next"
  <2>1. main'[t] = [main[t] EXCEPT !.phase = "next", !.at = main[t].at + 1]
    BY <1>1, <1>3, NextProjectType
  <2>2. QED BY <1>1, <1>3, <2>1, NextProjectType DEF MainRecord
<1>4. CASE NextProject(t) BY <1>3, <1>4 DEF GoesOn
<1>5. ASSUME NEW p \in {"close", "closing", "raised", "done"}, Goto(t, p) PROVE GoesOn(t)
  BY <1>2, <1>5 DEF GoesOn
<1>6. CASE StartTest(t)
  <2>1. main[t].phase = "off" /\ (Goto(t, "done") \/ Goto(t, "next"))
    BY <1>6 DEF StartTest
  <2>2. QED BY <1>2, <1>5, <2>1 DEF GoesOn
<1>7. CASE AskBranches(t) BY <1>2, <1>7 DEF AskBranches, GoesOn
<1>8. CASE LockBranches(t) BY <1>2, <1>8 DEF LockBranches, GoesOn
<1>9. CASE RequestBranches(t)
  <2>1. /\ main[t].phase = "client"
        /\ \A u \in TestId \ {t} : main'[u] = main[u]
        /\ main'[t].phase = "page" /\ main'[t].at = main[t].at
    BY <1>1, <1>9 DEF RequestBranches, MainRecord
  <2>2. QED BY <2>1 DEF GoesOn
<1>10. CASE AnswerPage(t)
  <2>1. CASE HasNext(exists[At(t)], main[t].page)
    <3>1. /\ main[t].phase = "page"
          /\ \A u \in TestId \ {t} : main'[u] = main[u]
          /\ main'[t].phase = "page" /\ main'[t].at = main[t].at
      BY <1>1, <1>10, <2>1 DEF AnswerPage, MainRecord
    <3>2. QED BY <3>1 DEF GoesOn
  <2>2. CASE ~HasNext(exists[At(t)], main[t].page)
    BY <1>4, <1>10, <2>2 DEF AnswerPage, GiveListing
  <2>3. QED BY <2>1, <2>2
<1>11. CASE ListHg(t) \/ BranchesCached(t)
  BY <1>4, <1>11 DEF ListHg, BranchesCached, GiveListing
<1>12. CASE AskPolicy(t)
  <2>1. NextProject(t) \/ Goto(t, "await") BY <1>12 DEF AskPolicy
  <2>2. QED BY <1>2, <1>4, <1>12, <2>1 DEF GoesOn
<1>13. CASE NothingToClose(t) \/ ClientClosed(t)
  BY <1>4, <1>5, <1>13 DEF NothingToClose, ClientClosed, AfterClose
<1>14. CASE \/ PageFails(t) \/ Gathered(t) \/ GatherRaises(t) \/ PolicyRead(t)
           \/ PoliciesRead(t) \/ StartClose(t)
  BY <1>5, <1>14 DEF PageFails, Gathered, GatherRaises, PolicyRead, PoliciesRead, StartClose
<1>15. QED
  BY <1>6, <1>7, <1>8, <1>9, <1>10, <1>11, <1>12, <1>13, <1>14 DEF MainStep

LEMMA MainStepAt == ASSUME IInv, NEW t \in TestId, MainStep(t) PROVE AtInv'
<1>1. GoesOn(t) /\ AtInv BY MainStepGoesOn DEF IInv
<1>2. SUFFICES ASSUME NEW u \in TestId PROVE AtInv!(u)' BY DEF AtInv
<1>3. CASE u # t BY <1>1, <1>3 DEF GoesOn, AtInv, At
<1>4. CASE u = t
  <2>1. CASE main'[t].phase \in {"lock", "client", "page"}
    <3>1. main'[t].at = main[t].at /\ At(t)' = At(t) BY <1>1, <2>1 DEF GoesOn, At
    <3>2. CASE main[t].phase \in {"lock", "client", "page"}
      BY <1>1, <1>4, <2>1, <3>1, <3>2 DEF AtInv
    <3>3. CASE AskBranches(t) BY <1>4, <2>1, <3>1, <3>3 DEF AskBranches
    <3>4. QED BY <1>1, <2>1, <3>2, <3>3 DEF GoesOn
  <2>2. CASE main'[t].phase = "await"
    BY <1>1, <1>4, <2>2 DEF GoesOn, AskPolicy
  <2>3. QED BY <1>4, <2>1, <2>2
<1>5. QED BY <1>3, <1>4

LEMMA MainStepPolicies == ASSUME IInv, NEW t \in TestId, MainStep(t) PROVE PolicyInv'
<1>1. GoesOn(t) /\ OnlySpawns(t) /\ main[t].at \in Nat
  BY MainStepGoesOn, MainStepSpawns DEF IInv, TypeOK, MainRecord
<1>2. SUFFICES ASSUME NEW f \in Fetcher, Tests[f.test] = "policies", fetch'[f].phase # "off"
               PROVE  \E i \in DOMAIN Projects :
                        /\ f.file[1] = Projects[i]
                        /\ \/ i < main'[f.test].at
                           \/ i = main'[f.test].at /\ main'[f.test].phase \notin {"off", "next"}
  BY DEF PolicyInv
<1>3. f.test \in TestId BY FetcherType
<1>4. CASE fetch[f].phase # "off"
  <2>1. PICK i \in DOMAIN Projects :
          /\ f.file[1] = Projects[i]
          /\ \/ i < main[f.test].at
             \/ i = main[f.test].at /\ main[f.test].phase \notin {"off", "next"}
    BY <1>2, <1>4 DEF IInv, PolicyInv
  <2>2. i \in Nat BY ProjectsType
  <2>3. CASE f.test # t BY <1>1, <1>3, <2>1, <2>3 DEF GoesOn
  <2>4. CASE f.test = t
    <3>1. CASE main'[t].at = main[t].at + 1 BY <1>1, <2>1, <2>2, <2>4, <3>1
    <3>2. CASE main'[t].at # main[t].at + 1 BY <1>1, <2>1, <2>4, <3>2 DEF GoesOn
    <3>3. QED BY <3>1, <3>2
  <2>5. QED BY <2>3, <2>4
<1>5. CASE fetch[f].phase = "off"
  <2>1. fetch'[f] # fetch[f] /\ f.test = t BY <1>1, <1>2, <1>5 DEF OnlySpawns
  <2>2. AskPolicy(t)
    <3>1. ~ListHg(t) BY <1>2, <2>1 DEF ListHg
    <3>2. ~BranchesCached(t) /\ ~AnswerPage(t)
      BY <1>2, <2>1 DEF BranchesCached, AnswerPage, IInv, AtInv
    <3>3. QED
      BY <2>1, <3>1, <3>2 DEF MainStep, StartTest, AskBranches, LockBranches,
         RequestBranches, PageFails, Gathered, GatherRaises, PolicyRead, PoliciesRead,
         NothingToClose, StartClose, ClientClosed
  <2>3. At(t) \notin HgRepo BY <2>1, <2>2 DEF AskPolicy
  <2> DEFINE g == [test |-> t, file |-> <<At(t), DefaultBranch>>, copy |-> 1]
  <2>4. fetch' = [fetch EXCEPT ![g].phase = "lock"] /\ Goto(t, "await")
    BY <2>2, <2>3 DEF AskPolicy
  <2>5. f = g
    <3>1. g.file = <<At(t), DefaultBranch>> OBVIOUS
    <3> HIDE DEF g
    <3>2. fetch \in [Fetcher -> FetchRecord] BY DEF IInv, TypeOK
    <3>3. QED BY <2>1, <2>4, <3>2
  <2>6. f.file[1] = Projects[main[t].at] /\ main[t].at \in DOMAIN Projects
    BY <2>2, <2>5 DEF At, AskPolicy
  <2>7. main'[t].at = main[t].at /\ main'[t].phase = "await"
    <3>1. main \in [TestId -> MainRecord] /\ main[t] \in MainRecord BY DEF IInv, TypeOK
    <3>2. main'[t] = [main[t] EXCEPT !.phase = "await"] BY <2>4, <3>1, GotoType
    <3>3. QED BY <3>1, <3>2 DEF MainRecord
  <2>8. QED BY <2>1, <2>6, <2>7
<1>6. QED BY <1>4, <1>5

\* A step of t leaves other tests what they were given, and the repositories
\* whose lock they have.
LEMMA OthersKeepBranches ==
  ASSUME IInv, NEW t \in TestId, GoesOn(t),
         \A u \in TestId \ {t}, r \in Repo : listed'[<<u, r>>] = listed[<<u, r>>],
         \A r \in Repo : branchLock[r] \notin {Free, t} =>
            branchLock'[r] = branchLock[r] /\ branchCache'[r] = branchCache[r],
         NEW u \in TestId \ {t}
  PROVE  BranchesInv!(u)'
<1>1. BranchesInv!(u) /\ AtInv!(u) BY DEF IInv, BranchesInv, AtInv
<1>2. main'[u] = main[u] /\ At(u)' = At(u) BY DEF GoesOn, At
<1>3. u \notin {Free, t} BY TestsType
<1>4. main[u].phase \in {"lock", "client", "page"} => At(u) \in Repo BY <1>1 DEF GitRepo
<1>5. \A i \in DOMAIN Projects : Projects[i] \in Repo BY ProjectsType
<1>6. main[u].phase \in {"lock", "client", "page"} => listed'[<<u, At(u)>>] = Asked
  BY <1>1, <1>4
<1>7. main[u].phase \in {"client", "page"} =>
        branchLock'[At(u)] = u /\ branchCache'[At(u)] = Unread
  BY <1>1, <1>3, <1>4
<1>8. \A i \in DOMAIN Projects :
        i > main[u].at \/ (i = main[u].at /\ main[u].phase \in {"off", "next"})
          => listed'[<<u, Projects[i]>>] = NotAsked
  BY <1>1, <1>5
<1>9. QED BY <1>2, <1>6, <1>7, <1>8

\* What t has not come to yet, it has not asked for.
LEMMA LaterNotAsked ==
  ASSUME IInv, NEW t \in TestId, GoesOn(t),
         \/ \A r \in Repo : listed'[<<t, r>>] = listed[<<t, r>>]
         \/ /\ \A r \in Repo \ {At(t)} : listed'[<<t, r>>] = listed[<<t, r>>]
            /\ main[t].at \in DOMAIN Projects
            /\ main'[t].at = main[t].at => main'[t].phase \notin {"off", "next"},
         NEW i \in DOMAIN Projects,
         i > main'[t].at \/ (i = main'[t].at /\ main'[t].phase \in {"off", "next"})
  PROVE  listed'[<<t, Projects[i]>>] = NotAsked
<1>1. i \in Nat /\ Projects[i] \in Repo /\ main[t].at \in Nat
  BY ProjectsType DEF IInv, TypeOK, MainRecord
<1>2. i > main[t].at \/ (i = main[t].at /\ main[t].phase \in {"off", "next"})
  BY <1>1 DEF GoesOn
<1>3. listed[<<t, Projects[i]>>] = NotAsked BY <1>2 DEF IInv, BranchesInv
<1>4. CASE \A r \in Repo : listed'[<<t, r>>] = listed[<<t, r>>] BY <1>1, <1>3, <1>4
<1>5. CASE /\ \A r \in Repo \ {At(t)} : listed'[<<t, r>>] = listed[<<t, r>>]
           /\ main[t].at \in DOMAIN Projects
           /\ main'[t].at = main[t].at => main'[t].phase \notin {"off", "next"}
  <2>1. i # main[t].at BY <1>1, <1>5 DEF GoesOn
  <2>2. Projects[i] # At(t) BY <1>5, <2>1, FetchAssumption DEF At
  <2>3. QED BY <1>1, <1>3, <1>5, <2>2
<1>6. QED BY <1>4, <1>5

LEMMA BranchesKept ==
  ASSUME IInv, NEW t \in TestId, GoesOn(t),
         \A u \in TestId \ {t}, r \in Repo : listed'[<<u, r>>] = listed[<<u, r>>],
         \A r \in Repo : branchLock[r] \notin {Free, t} =>
            branchLock'[r] = branchLock[r] /\ branchCache'[r] = branchCache[r],
         \/ \A r \in Repo : listed'[<<t, r>>] = listed[<<t, r>>]
         \/ /\ \A r \in Repo \ {At(t)} : listed'[<<t, r>>] = listed[<<t, r>>]
            /\ main[t].at \in DOMAIN Projects
            /\ main'[t].at = main[t].at => main'[t].phase \notin {"off", "next"},
         main'[t].phase \in {"lock", "client", "page"} => listed'[<<t, At(t)'>>] = Asked,
         main'[t].phase \in {"client", "page"} =>
            branchLock'[At(t)'] = t /\ branchCache'[At(t)'] = Unread
  PROVE  BranchesInv'
<1>1. ASSUME NEW u \in TestId PROVE BranchesInv!(u)'
  <2>1. CASE u # t BY <2>1, OthersKeepBranches
  <2>2. CASE u = t
    <3>1. \A i \in DOMAIN Projects :
            i > main'[t].at \/ (i = main'[t].at /\ main'[t].phase \in {"off", "next"})
              => listed'[<<t, Projects[i]>>] = NotAsked
      BY LaterNotAsked
    <3>2. QED BY <2>2, <3>1
  <2>3. QED BY <2>1, <2>2
<1>2. QED BY <1>1 DEF BranchesInv

LEMMA MainStepBranches == ASSUME IInv, NEW t \in TestId, MainStep(t) PROVE BranchesInv'
<1>1. GoesOn(t) /\ BranchesInv!(t) /\ AtInv!(t)
  BY MainStepGoesOn DEF IInv, BranchesInv, AtInv
<1>2. /\ listed \in [Lister -> Listing \cup {NotAsked, Asked, Raised}]
      /\ branchLock \in [Repo -> {Free} \cup TestId]
      /\ branchCache \in [Repo -> Listing \cup {Unread}]
      /\ main \in [TestId -> MainRecord] /\ main[t] \in MainRecord
  BY DEF IInv, TypeOK
<1>3. \A u \in TestId, r \in Repo : <<u, r>> \in Lister BY DEF Lister
<1>4. /\ main[t].phase \in {"lock", "client", "page"} => At(t) \in Repo
      /\ main[t].phase \in {"client", "page"} => branchLock[At(t)] = t
  BY <1>1 DEF GitRepo
<1>5. CASE UNCHANGED <<listed, branchLock, branchCache>>
           /\ main'[t].phase \notin {"lock", "client", "page"}
  BY <1>1, <1>5, BranchesKept
<1>6. CASE AskBranches(t)
  <2>1. /\ Goto(t, "lock") /\ At(t) \in Repo /\ main[t].at \in DOMAIN Projects
        /\ listed' = [listed EXCEPT ![<<t, At(t)>>] = Asked]
        /\ UNCHANGED <<branchLock, branchCache>>
    BY <1>6 DEF AskBranches, GitRepo
  <2>2. main'[t].phase = "lock" /\ main'[t].at = main[t].at /\ At(t)' = At(t)
    BY <1>2, <2>1 DEF Goto, MainRecord, At
  <2>3. /\ listed'[<<t, At(t)>>] = Asked
        /\ \A u \in TestId, r \in Repo :
             u # t \/ r # At(t) => listed'[<<u, r>>] = listed[<<u, r>>]
    BY <1>2, <1>3, <2>1
  <2>4. QED
    BY <1>1, <2>1, <2>2, <2>3, BranchesKept
<1>7. CASE LockBranches(t)
  <2>1. /\ main[t].phase = "lock" /\ branchLock[At(t)] = Free /\ branchCache[At(t)] = Unread
        /\ branchLock' = [branchLock EXCEPT ![At(t)] = t] /\ Goto(t, "client")
        /\ UNCHANGED <<branchCache, listed>>
    BY <1>7 DEF LockBranches
  <2>2. main'[t].phase = "client" /\ main'[t].at = main[t].at /\ At(t)' = At(t)
    BY <1>2, <2>1 DEF Goto, MainRecord, At
  <2>3. branchLock'[At(t)] = t /\ \A r \in Repo \ {At(t)} : branchLock'[r] = branchLock[r]
    BY <1>2, <1>4, <2>1
  <2>4. QED
    BY <1>1, <2>1, <2>2, <2>3, BranchesKept
<1>8. CASE RequestBranches(t) \/ (AnswerPage(t) /\ HasNext(exists[At(t)], main[t].page))
  <2>1. /\ UNCHANGED <<listed, branchLock, branchCache>>
        /\ main[t].phase \in {"client", "page"} /\ main'[t].phase = "page"
        /\ main'[t].at = main[t].at
    BY <1>2, <1>8 DEF RequestBranches, AnswerPage, branchVars, MainRecord
  <2>2. At(t)' = At(t) BY <2>1 DEF At
  <2>3. QED BY <1>1, <2>1, <2>2, BranchesKept
<1>9. CASE BranchesCached(t) \/ (AnswerPage(t) /\ ~HasNext(exists[At(t)], main[t].page))
  <2>1. PICK list : GiveListing(t, list) BY <1>9 DEF BranchesCached, AnswerPage
  <2>2. /\ At(t) \in Repo /\ main[t].at \in DOMAIN Projects
    BY <1>1, <1>4, <1>9 DEF BranchesCached, AnswerPage
  <2>3. main'[t].phase = "next" /\ main'[t].at = main[t].at + 1 /\ main[t].at \in Nat
    <3>1. main'[t] = [main[t] EXCEPT !.phase = "next", !.at = main[t].at + 1]
      BY <1>2, <2>1, NextProjectType DEF GiveListing
    <3>2. QED BY <1>2, <3>1 DEF MainRecord
  <2>4. \A u \in TestId, r \in Repo :
             u # t \/ r # At(t) => listed'[<<u, r>>] = listed[<<u, r>>]
    BY <1>2, <1>3, <2>1 DEF GiveListing
  <2>5. \A r \in Repo : branchLock[r] \notin {Free, t} =>
            branchLock'[r] = branchLock[r] /\ branchCache'[r] = branchCache[r]
    BY <1>2, <1>4, <1>9 DEF BranchesCached, AnswerPage
  <2>6. main'[t].at # main[t].at /\ main'[t].phase \notin {"lock", "client", "page"}
    BY <2>3
  <2>7. /\ \A u \in TestId \ {t}, r \in Repo : listed'[<<u, r>>] = listed[<<u, r>>]
        /\ \A r \in Repo \ {At(t)} : listed'[<<t, r>>] = listed[<<t, r>>]
    BY <2>4
  <2>8. QED BY <1>1, <2>2, <2>5, <2>6, <2>7, BranchesKept
<1>10. CASE PageFails(t)
  <2>1. /\ main[t].phase = "page" /\ Goto(t, "raised") /\ UNCHANGED branchCache
        /\ branchLock' = [branchLock EXCEPT ![At(t)] = Free]
        /\ listed' = [listed EXCEPT ![<<t, At(t)>>] = Raised]
        /\ main[t].at \in DOMAIN Projects
    BY <1>1, <1>10 DEF PageFails
  <2>2. main'[t].phase = "raised" /\ main'[t].at = main[t].at
    BY <1>2, <2>1 DEF Goto, MainRecord
  <2>3. \A u \in TestId, r \in Repo :
             u # t \/ r # At(t) => listed'[<<u, r>>] = listed[<<u, r>>]
    BY <1>2, <1>3, <2>1
  <2>4. \A r \in Repo : branchLock[r] \notin {Free, t} => branchLock'[r] = branchLock[r]
    BY <1>2, <1>4, <2>1
  <2>5. QED
    BY <1>1, <2>1, <2>2, <2>3, <2>4, BranchesKept
<1>11. CASE \/ StartTest(t) \/ ListHg(t) \/ Gathered(t) \/ GatherRaises(t) \/ AskPolicy(t)
            \/ PolicyRead(t) \/ PoliciesRead(t) \/ NothingToClose(t) \/ StartClose(t)
            \/ ClientClosed(t)
  <2>1. UNCHANGED <<listed, branchLock, branchCache>>
    BY <1>11 DEF StartTest, ListHg, Gathered, GatherRaises, AskPolicy, PolicyRead,
       PoliciesRead, NothingToClose, StartClose, ClientClosed, branchVars
  <2>2. main[t].phase \notin {"lock", "client", "page"} /\ ~AskBranches(t)
    <3>1. CASE StartTest(t) BY <3>1 DEF StartTest, AskBranches
    <3>2. CASE ListHg(t) BY <3>2 DEF ListHg, AskBranches, GitRepo
    <3>3. CASE Gathered(t) \/ GatherRaises(t)
      BY <3>3 DEF Gathered, GatherRaises, AskBranches
    <3>4. CASE AskPolicy(t) \/ PoliciesRead(t)
      BY <3>4 DEF AskPolicy, PoliciesRead, AskBranches
    <3>5. CASE PolicyRead(t) \/ NothingToClose(t) \/ StartClose(t) \/ ClientClosed(t)
      BY <3>5 DEF PolicyRead, NothingToClose, StartClose, ClientClosed, AskBranches
    <3>6. QED BY <1>11, <3>1, <3>2, <3>3, <3>4, <3>5
  <2>3. main'[t].phase \notin {"lock", "client", "page"} BY <1>1, <2>2 DEF GoesOn
  <2>4. QED BY <1>5, <2>1, <2>3
<1>12. QED BY <1>6, <1>7, <1>8, <1>9, <1>10, <1>11 DEF MainStep

-----------------------------------------------------------------------------
(***************************************************************************)
(* Every step keeps the invariant.                                          *)
(***************************************************************************)
LEMMA FetchStepReader ==
  ASSUME IInv, NEW f \in Fetcher, FetchStep(f)
  PROVE  /\ UNCHANGED <<main, listed, branchLock, branchCache>>
         /\ fetch[f].phase # "off"
         /\ \A g \in Fetcher \ {f} : fetch'[g] = fetch[g]
<1>1. fetch \in [Fetcher -> FetchRecord] BY DEF IInv, TypeOK
<1>2. UNCHANGED <<main, listed, branchLock, branchCache>>
  BY DEF FetchStep, FileCached, LockFile, RequestHgFile, RequestFile, AnswerFile,
     AnswerMissing, FetchFails, RaiseIn, branchVars
<1>3. fetch[f].phase # "off"
  BY DEF FetchStep, FileCached, LockFile, RequestHgFile, RequestFile, AnswerFile,
     AnswerMissing, FetchFails
<1>4. \A g \in Fetcher \ {f} : fetch'[g] = fetch[g]
  BY <1>1 DEF FetchStep, FileCached, LockFile, RequestHgFile, RequestFile, AnswerFile,
     AnswerMissing, FetchFails, RaiseIn, SetFetch
<1>5. QED BY <1>2, <1>3, <1>4

LEMMA StepOK == IInv /\ [Next]_vars => IInv'
<1> SUFFICES ASSUME IInv, [Next]_vars PROVE IInv' OBVIOUS
<1>1. ASSUME UNCHANGED <<main, listed, branchLock, branchCache>>,
             \A f \in Fetcher : fetch'[f].phase # "off" => fetch[f].phase # "off"
      PROVE  AtInv' /\ PolicyInv' /\ BranchesInv'
  <2>1. AtInv' BY <1>1 DEF IInv, AtInv, At
  <2>2. PolicyInv' BY <1>1 DEF IInv, PolicyInv
  <2>3. BranchesInv' BY <1>1 DEF IInv, BranchesInv, At
  <2>4. QED BY <2>1, <2>2, <2>3
<1>2. ASSUME UNCHANGED <<main, fetch, branchVars, fileVars>>
      PROVE  AtInv' /\ FilesInv' /\ PolicyInv' /\ BranchesInv'
  <2>1. AtInv' /\ PolicyInv' /\ BranchesInv' BY <1>1, <1>2 DEF branchVars
  <2>2. FilesInv' BY <1>2 DEF IInv, FilesInv, Holds, fileVars
  <2>3. QED BY <2>1, <2>2
<1>3. ASSUME NEW r \in Repo, NEW b \in Branch, NEW c \in Content \cup {NoFile},
             CreateBranch(r, b, c) \/ PushFile(r, b, c) \/ DeleteBranch(r, b)
      PROVE  IInv'
  <2>1. TypeOK' BY <1>3, RepoStepType DEF IInv
  <2>2. UNCHANGED <<main, fetch, branchVars, fileVars>>
    BY <1>3 DEF CreateBranch, PushFile, DeleteBranch, Changed
  <2>3. QED BY <1>2, <2>1, <2>2 DEF IInv
<1>4. ASSUME NEW t \in TestId, MainStep(t) PROVE IInv'
  <2>1. TypeOK' BY <1>4, MainStepType DEF IInv
  <2>2. FilesInv' BY <1>4, MainStepSpawns, SpawnsKeepFiles
  <2>3. QED
    BY <1>4, <2>1, <2>2, MainStepAt, MainStepPolicies, MainStepBranches DEF IInv
<1>5. ASSUME NEW t \in TestId, Abandon(t) PROVE IInv'
  <2>1. TypeOK' BY <1>5, AbandonType DEF IInv
  <2>2. UNCHANGED <<main, fetch, branchVars, fileVars>> BY <1>5 DEF Abandon
  <2>3. QED BY <1>2, <2>1, <2>2 DEF IInv
<1>6. ASSUME NEW f \in Fetcher, FetchStep(f) PROVE IInv'
  <2>1. TypeOK' BY <1>6, FetchStepType DEF IInv
  <2>2. FilesInv' BY <1>6, FetchStepFiles
  <2>3. AtInv' /\ PolicyInv' /\ BranchesInv' BY <1>1, <1>6, FetchStepReader
  <2>4. QED BY <2>1, <2>2, <2>3 DEF IInv
<1>7. CASE UNCHANGED vars
  <2>1. TypeOK'
    BY <1>7 DEF vars, IInv, TypeOK, repoVars, branchVars, fileVars, clientVars,
       sessionVars, historyVars
  <2>2. QED BY <1>2, <1>7, <2>1 DEF vars, IInv
<1>8. CASE \E r \in Repo, b \in Branch, c \in Content \cup {NoFile} :
             CreateBranch(r, b, c) \/ PushFile(r, b, c)
  BY <1>3, <1>8
<1>9. CASE \E r \in Repo, b \in Branch : DeleteBranch(r, b) BY <1>3, <1>9
<1>10. QED BY <1>4, <1>5, <1>6, <1>7, <1>8, <1>9 DEF Next

THEOREM Invariant == Spec => []IInv
BY InitOK, StepOK, PTL DEF Spec

\* Every variable of the caches, the client and the coroutines has its type.
THEOREM TypeCorrect == Spec => []TypeOK
<1>1. IInv => TypeOK BY DEF IInv
<1>2. QED BY Invariant, <1>1, PTL

-----------------------------------------------------------------------------
(***************************************************************************)
(* The refinement: the cache of files.                                      *)
(***************************************************************************)
Answer(f) == IF fetch[f].phase = "off" THEN NotAsked ELSE Read(fetch[f].value)

LEMMA FilesInit == Init => Files!Init
BY DEF Init, Files!Init

LEMMA AnswerType ==
  ASSUME IInv, NEW f \in Fetcher
  PROVE  /\ Answer(f) \in Content \cup {NotAsked, Asked, Raised}
         /\ fetch[f].phase \in {"lock", "client", "request"} => Answer(f) = Asked
         /\ fetch[f].phase = "off" => Answer(f) = NotAsked
         /\ fetch[f].phase = "raised" => Answer(f) = Raised
         /\ fetch[f].phase = "done" => Answer(f) = fetch[f].value
<1>1. FilesInv!1!(f) /\ fetch[f] \in FetchRecord BY DEF IInv, TypeOK, FilesInv
<1>2. /\ NotAsked \notin Content /\ NotAsked # Raised BY FetchAssumption
<1>3. QED BY <1>1, <1>2 DEF Answer, Read, FetchRecord

LEMMA FilesAsk == ASSUME IInv, NEW t, OnlySpawns(t) PROVE Files!Ask
<1>1. \A f \in Fetcher :
        /\ Answer(f)' \in Content \cup {NotAsked, Asked, Raised}
        /\ Answer(f)' # Answer(f) => Answer(f) = NotAsked /\ Answer(f)' = Asked
  <2> SUFFICES ASSUME NEW f \in Fetcher
               PROVE  /\ Answer(f)' \in Content \cup {NotAsked, Asked, Raised}
                      /\ Answer(f)' # Answer(f) => Answer(f) = NotAsked /\ Answer(f)' = Asked
    OBVIOUS
  <2>1. CASE fetch'[f] = fetch[f] BY <2>1, AnswerType DEF Answer
  <2>2. CASE /\ fetch[f].phase = "off"
             /\ fetch'[f] = [fetch[f] EXCEPT !.phase = "lock"]
    <3>1. fetch[f] \in FetchRecord BY DEF IInv, TypeOK
    <3>2. fetch[f].value = NotAsked BY <2>2 DEF IInv, FilesInv
    <3>3. fetch'[f].phase = "lock" /\ fetch'[f].value = NotAsked
      BY <2>2, <3>1, <3>2 DEF FetchRecord
    <3>4. Answer(f) = NotAsked /\ Answer(f)' = Asked BY <2>2, <3>3 DEF Answer, Read
    <3>5. QED BY <3>4
  <2>3. QED BY <2>1, <2>2 DEF OnlySpawns
<1>2. fileCache' = fileCache BY DEF OnlySpawns, fileVars
<1>3. QED BY <1>1, <1>2 DEF Files!Ask, Answer

\* Reader f is given v, the others keep what they have.
Given(f, v) == \A g \in Fetcher : Answer(g)' = IF g = f THEN v ELSE Answer(g)

LEMMA AnswerGiven ==
  ASSUME IInv, NEW f \in Fetcher, FetchStep(f), NEW v, Answer(f)' = v
  PROVE  Given(f, v)
<1>1. \A g \in Fetcher \ {f} : Answer(g)' = Answer(g) BY FetchStepReader DEF Answer
<1>2. QED BY <1>1 DEF Given

LEMMA FilesServe ==
  ASSUME IInv, NEW f \in Fetcher, FetchStep(f)
  PROVE  [Files!Next]_Files!vars
<1>1. /\ fetch \in [Fetcher -> FetchRecord] /\ fetch[f] \in FetchRecord
      /\ f.file \in File /\ fileCache \in [File -> Content \cup {Unread}]
      /\ content \in [File -> Content \cup {NoFile}] /\ Unread \notin Content
  BY FetcherType, FetchAssumption DEF IInv, TypeOK
<1>2. Holds(f) => fileCache[f.file] = Unread BY DEF IInv, FilesInv
<1>3. ASSUME fetch'[f].phase # "off" PROVE Answer(f)' = Read(fetch'[f].value)
  BY <1>3 DEF Answer
<1>4. CASE FileCached(f)
  <2>1. /\ fetch[f].phase = "lock" /\ fileCache[f.file] # Unread /\ fileCache' = fileCache
        /\ fetch'[f].phase = "done" /\ fetch'[f].value = fileCache[f.file]
    BY <1>1, <1>4 DEF FileCached, FetchRecord, fileVars
  <2>2. Answer(f) = Asked /\ Answer(f)' = fileCache[f.file]
    <3>1. fileCache[f.file] # NotAsked BY <1>1, <2>1, FetchAssumption
    <3>2. QED BY <1>3, <2>1, <3>1, AnswerType DEF Read
  <2>3. Given(f, fileCache[f.file]) BY <2>2, AnswerGiven
  <2>4. Files!Recall(f) BY <2>1, <2>2, <2>3 DEF Files!Recall, Given, Answer
  <2>5. QED BY <2>4 DEF Files!Next, Files!Serve
<1>5. CASE LockFile(f) \/ RequestHgFile(f) \/ RequestFile(f)
  <2>1. /\ fetch[f].phase \in {"lock", "client"} /\ fetch'[f].phase \in {"client", "request"}
        /\ fileCache' = fileCache /\ fetch'[f].value = fetch[f].value
    BY <1>1, <1>5
       DEF LockFile, RequestHgFile, RequestFile, SetFetch, FetchRecord, fileVars
  <2>2. Answer(f) = Asked /\ Answer(f)' = Asked
    <3>1. fetch[f].value = NotAsked BY <2>1 DEF IInv, FilesInv
    <3>2. QED BY <1>3, <2>1, <3>1, AnswerType DEF Read
  <2>3. Given(f, Asked) BY <2>2, AnswerGiven
  <2>4. \A g \in Fetcher : Answer(g)' = Answer(g) BY <2>2, <2>3 DEF Given
  <2>5. QED BY <2>1, <2>4 DEF Files!vars, Answer
<1>6. CASE AnswerFile(f)
  <2>1. /\ fetch[f].phase = "request" /\ content[f.file] \in Content
        /\ fileCache' = [fileCache EXCEPT ![f.file] = content[f.file]]
        /\ fetch'[f].phase = "done" /\ fetch'[f].value = content[f.file]
    BY <1>1, <1>6 DEF AnswerFile, FetchRecord
  <2>2. Answer(f) = Asked /\ Answer(f)' = content[f.file]
    <3>1. content[f.file] # NotAsked BY <2>1, FetchAssumption
    <3>2. QED BY <1>3, <2>1, <3>1, AnswerType DEF Read
  <2>3. Given(f, content[f.file]) BY <2>2, AnswerGiven
  <2>4. fileCache[f.file] = Unread BY <1>2, <2>1 DEF Holds
  <2>5. Files!Read(f) BY <2>1, <2>2, <2>3, <2>4 DEF Files!Read, Given, Answer
  <2>6. QED BY <2>5 DEF Files!Next, Files!Serve
<1>7. CASE AnswerMissing(f) \/ FetchFails(f)
  <2>1. /\ fetch[f].phase = "request" /\ fetch'[f].phase = "raised"
        /\ fileCache' = fileCache /\ fetch'[f].value = Raised
    BY <1>1, <1>7 DEF AnswerMissing, FetchFails, RaiseIn, FetchRecord
  <2>2. Answer(f) = Asked /\ Answer(f)' = Raised
    BY <1>3, <2>1, AnswerType, FetchAssumption DEF Read
  <2>3. Given(f, Raised) BY <2>2, AnswerGiven
  <2>4. fileCache[f.file] = Unread BY <1>2, <2>1 DEF Holds
  <2>5. Files!Fail(f) BY <2>1, <2>2, <2>3, <2>4 DEF Files!Fail, Given, Answer
  <2>6. QED BY <2>5 DEF Files!Next, Files!Serve
<1>8. QED BY <1>4, <1>5, <1>6, <1>7 DEF FetchStep

LEMMA FilesStep == IInv /\ [Next]_vars => [Files!Next]_Files!vars
<1> SUFFICES ASSUME IInv, [Next]_vars PROVE [Files!Next]_Files!vars OBVIOUS
<1>1. ASSUME UNCHANGED <<fetch, fileVars>> PROVE [Files!Next]_Files!vars
  BY <1>1 DEF Files!vars, fileVars
<1>2. ASSUME NEW t \in TestId, MainStep(t) PROVE [Files!Next]_Files!vars
  BY <1>2, MainStepSpawns, FilesAsk DEF Files!Next
<1>3. ASSUME NEW f \in Fetcher, FetchStep(f) PROVE [Files!Next]_Files!vars
  BY <1>3, FilesServe
<1>4. CASE \/ \E r \in Repo, b \in Branch, c \in Content \cup {NoFile} :
                CreateBranch(r, b, c) \/ PushFile(r, b, c)
           \/ \E r \in Repo, b \in Branch : DeleteBranch(r, b)
           \/ \E t \in TestId : Abandon(t)
           \/ UNCHANGED vars
  <2>1. UNCHANGED <<fetch, fileVars>>
    BY <1>4 DEF CreateBranch, PushFile, DeleteBranch, Abandon, Changed, vars
  <2>2. QED BY <1>1, <2>1
<1>5. QED BY <1>2, <1>3, <1>4 DEF Next

\* The cache of files keeps the promise of ReadOnce to the coroutines of all
\* tests of a session, whatever fails and whatever changes in the repositories.
THEOREM FilesHold == Spec => FilesReadOnce
<1>1. Init => Files!Init BY FilesInit
<1>2. QED BY Invariant, FilesStep, <1>1, PTL DEF Spec, FilesReadOnce, Files!Spec

(***************************************************************************)
(* The refinement: the cache of branches.                                   *)
(***************************************************************************)
LEMMA BranchesInit == Init => Branches!Init
BY DEF Init, Branches!Init

LEMMA BranchesStep == IInv /\ [Next]_vars => [Branches!Next]_Branches!vars
<1> SUFFICES ASSUME IInv, [Next]_vars PROVE [Branches!Next]_Branches!vars OBVIOUS
<1>1. /\ listed \in [Lister -> Listing \cup {NotAsked, Asked, Raised}]
      /\ branchCache \in [Repo -> Listing \cup {Unread}]
      /\ main \in [TestId -> MainRecord]
      /\ Unread \notin Listing
  BY FetchAssumption DEF IInv, TypeOK
<1>2. CASE UNCHANGED <<branchCache, listed>> BY <1>2 DEF Branches!vars
<1>3. ASSUME NEW t \in TestId,
             main[t].phase \in {"lock", "page"}
      PROVE  /\ At(t) \in Repo /\ <<t, At(t)>> \in Lister /\ <<t, At(t)>>[2] = At(t)
             /\ listed[<<t, At(t)>>] = Asked
             /\ main[t].phase = "page" => branchCache[At(t)] = Unread
  BY <1>3 DEF IInv, AtInv, BranchesInv, GitRepo, Lister
<1>4. ASSUME NEW t \in TestId, AskBranches(t) PROVE Branches!Ask
  <2>1. /\ At(t) \in Repo /\ main[t].at \in DOMAIN Projects /\ main[t].phase = "next"
        /\ listed' = [listed EXCEPT ![<<t, At(t)>>] = Asked] /\ branchCache' = branchCache
    BY <1>4 DEF AskBranches, GitRepo
  <2>2. listed[<<t, At(t)>>] = NotAsked BY <2>1 DEF IInv, BranchesInv, At
  <2>3. <<t, At(t)>> \in Lister BY <2>1 DEF Lister
  <2>4. QED BY <1>1, <2>1, <2>2, <2>3 DEF Branches!Ask
<1>5. ASSUME NEW t \in TestId, BranchesCached(t) PROVE Branches!Next
  <2>1. /\ main[t].phase = "lock" /\ branchCache[At(t)] # Unread /\ branchCache' = branchCache
        /\ listed' = [listed EXCEPT ![<<t, At(t)>>] = branchCache[At(t)]]
    BY <1>5 DEF BranchesCached, GiveListing
  <2>2. Branches!Recall(<<t, At(t)>>) BY <1>3, <2>1 DEF Branches!Recall
  <2>3. QED BY <1>3, <2>1, <2>2 DEF Branches!Next, Branches!Serve
<1>6. ASSUME NEW t \in TestId, AnswerPage(t) PROVE [Branches!Next]_Branches!vars
  <2> DEFINE list == Extend(main[t].list, Page(exists[At(t)], main[t].page))
  <2>1. CASE HasNext(exists[At(t)], main[t].page)
    BY <1>2, <1>6, <2>1 DEF AnswerPage, branchVars
  <2>2. CASE ~HasNext(exists[At(t)], main[t].page)
    <3>1. /\ main[t].phase = "page"
          /\ branchCache' = [branchCache EXCEPT ![At(t)] = list]
          /\ listed' = [listed EXCEPT ![<<t, At(t)>>] = list]
      BY <1>6, <2>2 DEF AnswerPage, GiveListing
    <3>2. list \in Listing
      <4>1. main[t] \in MainRecord BY <1>1
      <4>2. main[t].list \in Listing BY <4>1 DEF MainRecord
      <4>3. QED BY <4>2, ExtendType
    <3> HIDE DEF list
    <3>3. Branches!Read(<<t, At(t)>>) BY <1>3, <3>1, <3>2 DEF Branches!Read
    <3>4. QED BY <1>3, <3>1, <3>3 DEF Branches!Next, Branches!Serve
  <2>3. QED BY <2>1, <2>2
<1>7. ASSUME NEW t \in TestId, PageFails(t) PROVE Branches!Next
  <2>1. /\ main[t].phase = "page" /\ branchCache' = branchCache
        /\ listed' = [listed EXCEPT ![<<t, At(t)>>] = Raised]
    BY <1>7 DEF PageFails
  <2>2. Branches!Fail(<<t, At(t)>>) BY <1>3, <2>1 DEF Branches!Fail
  <2>3. QED BY <1>3, <2>1, <2>2 DEF Branches!Next, Branches!Serve
<1>8. ASSUME NEW t \in TestId, MainStep(t),
             ~AskBranches(t), ~BranchesCached(t), ~AnswerPage(t), ~PageFails(t)
      PROVE  UNCHANGED <<branchCache, listed>>
  BY <1>8 DEF MainStep, StartTest, ListHg, LockBranches, RequestBranches, Gathered,
     GatherRaises, AskPolicy, PolicyRead, PoliciesRead, NothingToClose, StartClose,
     ClientClosed, branchVars
<1>9. ASSUME NEW f \in Fetcher, FetchStep(f) PROVE UNCHANGED <<branchCache, listed>>
  BY <1>9, FetchStepReader
<1>10. CASE \/ \E r \in Repo, b \in Branch, c \in Content \cup {NoFile} :
                 CreateBranch(r, b, c) \/ PushFile(r, b, c)
            \/ \E r \in Repo, b \in Branch : DeleteBranch(r, b)
            \/ \E t \in TestId : Abandon(t)
            \/ UNCHANGED vars
  BY <1>2, <1>10 DEF CreateBranch, PushFile, DeleteBranch, Abandon, Changed, vars, branchVars
<1>11. CASE \E t \in TestId : MainStep(t)
  BY <1>2, <1>4, <1>5, <1>6, <1>7, <1>8, <1>11 DEF Branches!Next
<1>12. CASE \E f \in Fetcher : FetchStep(f) BY <1>2, <1>9, <1>12
<1>13. QED BY <1>10, <1>11, <1>12 DEF Next

\* The cache of branches keeps it to the tests that list them.
THEOREM BranchesHold == Spec => BranchesReadOnce
<1>1. Init => Branches!Init BY BranchesInit
<1>2. QED BY Invariant, BranchesStep, <1>1, PTL DEF Spec, BranchesReadOnce, Branches!Spec

\* Both caches implement ReadOnce: a key is read at most once with success, and
\* all its readers get what was read.
THEOREM CachesHold == Spec => CachesReadOnce
BY FilesHold, BranchesHold DEF CachesReadOnce

-----------------------------------------------------------------------------
(***************************************************************************)
(* The shared client.                                                       *)
(***************************************************************************)
\* A client that nobody closes is open.
ClientInv == client # Free /\ closing = Free => client \in open

LEMMA GetClientOpen ==
  ASSUME IInv, ClientInv, NEW c, GetClient(c)
  PROVE  ClientInv' /\ c \in open'
<1>1. created + 1 # Free BY DEF IInv, TypeOK, Free
<1>2. QED BY <1>1 DEF ClientInv, GetClient

LEMMA ClientStep == IInv /\ ClientInv /\ [Next]_vars => ClientInv'
<1> SUFFICES ASSUME IInv, ClientInv, [Next]_vars PROVE ClientInv' OBVIOUS
<1>1. CASE UNCHANGED clientVars BY <1>1 DEF ClientInv, clientVars
<1>2. ASSUME NEW t \in TestId, MainStep(t) PROVE ClientInv'
  <2>1. CASE RequestBranches(t) BY <2>1, GetClientOpen DEF RequestBranches
  <2>2. CASE StartClose(t) BY <2>2, TestsType DEF StartClose, ClientInv
  <2>3. CASE ClientClosed(t) BY <2>3 DEF ClientClosed, ClientInv
  <2>4. CASE ~RequestBranches(t) /\ ~StartClose(t) /\ ~ClientClosed(t)
    <3>1. UNCHANGED clientVars
      BY <1>2, <2>4 DEF MainStep, StartTest, ListHg, AskBranches, BranchesCached,
         LockBranches, AnswerPage, PageFails, Gathered, GatherRaises, AskPolicy,
         PolicyRead, PoliciesRead, NothingToClose
    <3>2. QED BY <1>1, <3>1
  <2>5. QED BY <2>1, <2>2, <2>3, <2>4
<1>3. ASSUME NEW f \in Fetcher, FetchStep(f) PROVE ClientInv'
  <2>1. CASE RequestFile(f) BY <2>1, GetClientOpen DEF RequestFile
  <2>2. CASE ~RequestFile(f)
    BY <1>1, <1>3, <2>2 DEF FetchStep, FileCached, LockFile, RequestHgFile, AnswerFile,
       AnswerMissing, FetchFails, RaiseIn
  <2>3. QED BY <2>1, <2>2
<1>4. CASE \/ \E r \in Repo, b \in Branch, c \in Content \cup {NoFile} :
                CreateBranch(r, b, c) \/ PushFile(r, b, c)
           \/ \E r \in Repo, b \in Branch : DeleteBranch(r, b)
           \/ \E t \in TestId : Abandon(t)
           \/ UNCHANGED vars
  BY <1>1, <1>4 DEF CreateBranch, PushFile, DeleteBranch, Abandon, Changed, vars
<1>5. QED BY <1>2, <1>3, <1>4 DEF Next

\* The readers of GitHub's files that send a request, and the listings.
Requests ==
  /\ \A f \in Fetcher :
       f.file[1] \in GitRepo /\ fetch[f].phase # "request" /\ fetch'[f].phase = "request"
       => fetch'[f].client \in open'
  /\ \A t \in TestId :
       main[t].phase # "page" /\ main'[t].phase = "page" => main'[t].client \in open'

LEMMA RequestsStep == IInv /\ ClientInv /\ [Next]_vars => Requests
<1> SUFFICES ASSUME IInv, ClientInv, [Next]_vars PROVE Requests OBVIOUS
<1>0. /\ fetch \in [Fetcher -> FetchRecord] /\ main \in [TestId -> MainRecord]
  BY DEF IInv, TypeOK
<1>1. CASE UNCHANGED <<main, fetch>> BY <1>1 DEF Requests
<1>2. ASSUME NEW t \in TestId, MainStep(t) PROVE Requests
  <2>1. ASSUME NEW f \in Fetcher
        PROVE  fetch'[f].phase = "request" => fetch[f].phase = "request"
    <3>1. fetch[f] \in FetchRecord BY <1>0
    <3>2. [fetch[f] EXCEPT !.phase = "lock"].phase # "request" BY <3>1 DEF FetchRecord
    <3>3. QED BY <1>2, <3>2, MainStepSpawns DEF OnlySpawns
  <2>2. GoesOn(t) BY <1>2, MainStepGoesOn
  <2>3. ASSUME main[t].phase # "page", main'[t].phase = "page"
        PROVE  main'[t].client \in open'
    <3>1. RequestBranches(t)
      <4>1. ASSUME NEW p, Goto(t, p), p # "page" PROVE FALSE
        BY <1>0, <2>3, <4>1 DEF Goto, MainRecord
      <4>2. ~NextProject(t)
        <5>1. NextProject(t) => main'[t].phase = "next"
          <6> SUFFICES ASSUME NextProject(t) PROVE main'[t].phase = "next" OBVIOUS
          <6>1. main'[t] = [main[t] EXCEPT !.phase = "next", !.at = main[t].at + 1]
            BY <1>0, NextProjectType
          <6>2. QED BY <1>0, <6>1 DEF MainRecord
        <5>2. QED BY <2>3, <5>1
      <4>3. /\ ~StartTest(t) /\ ~ListHg(t) /\ ~AskBranches(t) /\ ~BranchesCached(t)
            /\ ~LockBranches(t) /\ ~AnswerPage(t) /\ ~PageFails(t)
        BY <2>3, <4>1, <4>2 DEF StartTest, ListHg, AskBranches, BranchesCached,
           GiveListing, LockBranches, AnswerPage, PageFails
      <4>4. /\ ~Gathered(t) /\ ~GatherRaises(t) /\ ~AskPolicy(t) /\ ~PolicyRead(t)
            /\ ~PoliciesRead(t) /\ ~NothingToClose(t) /\ ~StartClose(t) /\ ~ClientClosed(t)
        BY <4>1, <4>2 DEF Gathered, GatherRaises, AskPolicy, PolicyRead, PoliciesRead,
           NothingToClose, StartClose, ClientClosed, AfterClose
      <4>5. QED BY <1>2, <4>3, <4>4 DEF MainStep
    <3>2. PICK c \in {client, created + 1} :
            /\ GetClient(c)
            /\ main' = [main EXCEPT ![t].phase = "page", ![t].page = 1,
                                    ![t].list = EmptyListing, ![t].client = c]
      BY <3>1 DEF RequestBranches
    <3>3. main'[t].client = c
      <4> DEFINE list == EmptyListing
      <4>1. main' = [main EXCEPT ![t].phase = "page", ![t].page = 1,
                                 ![t].list = list, ![t].client = c]
        BY <3>2
      <4> HIDE DEF list
      <4>2. QED BY <1>0, <4>1 DEF MainRecord
    <3>4. QED BY <3>2, <3>3, GetClientOpen
  <2>4. QED BY <2>1, <2>2, <2>3 DEF Requests, GoesOn
<1>3. ASSUME NEW f \in Fetcher, FetchStep(f) PROVE Requests
  <2>1. main' = main /\ \A g \in Fetcher \ {f} : fetch'[g] = fetch[g]
    BY <1>3, FetchStepReader
  <2>2. ASSUME f.file[1] \in GitRepo, fetch[f].phase # "request", fetch'[f].phase = "request"
        PROVE  fetch'[f].client \in open'
    <3>1. ~FileCached(f) /\ ~LockFile(f)
      BY <1>0, <2>2 DEF FileCached, LockFile, SetFetch, FetchRecord
    <3>2. RequestFile(f)
      BY <1>3, <2>2, <3>1 DEF FetchStep, RequestHgFile, GitRepo, AnswerFile,
         AnswerMissing, FetchFails
    <3>3. PICK c : /\ GetClient(c)
                   /\ fetch' = [fetch EXCEPT ![f].phase = "request", ![f].client = c]
      BY <3>2 DEF RequestFile
    <3>4. fetch'[f].client = c BY <1>0, <3>3 DEF FetchRecord
    <3>5. QED BY <3>3, <3>4, GetClientOpen
  <2>3. QED BY <2>1, <2>2 DEF Requests
<1>4. CASE \/ \E r \in Repo, b \in Branch, c \in Content \cup {NoFile} :
                CreateBranch(r, b, c) \/ PushFile(r, b, c)
           \/ \E r \in Repo, b \in Branch : DeleteBranch(r, b)
           \/ \E t \in TestId : Abandon(t)
           \/ UNCHANGED vars
  BY <1>1, <1>4 DEF CreateBranch, PushFile, DeleteBranch, Abandon, Changed, vars
<1>5. QED BY <1>2, <1>3, <1>4 DEF Next

LEMMA ClientOpen == Spec => []ClientInv
<1>1. Init => ClientInv BY DEF Init, ClientInv
<1>2. QED BY Invariant, ClientStep, <1>1, PTL DEF Spec

\* Nobody, not even the coroutine of a test that has failed, sends a request on
\* a client that is closed or being closed.
THEOREM RequestsHold == Spec => RequestsOnOpenClient
<1>1. IInv /\ ClientInv /\ [Next]_vars => [Requests]_vars BY RequestsStep
<1>2. Spec => [][Requests]_vars BY Invariant, ClientOpen, <1>1, PTL DEF Spec
<1>3. QED BY <1>2 DEF RequestsOnOpenClient, Requests

-----------------------------------------------------------------------------
(***************************************************************************)
(* Which tests run and whose readers are at work.                           *)
(***************************************************************************)
Busy(f) == fetch[f].phase \in {"lock", "client", "request"}

\* Test t may have the reader f at work.
Reads(f, t) ==
  \/ Tests[t] = "generate" /\ main[t].phase \notin {"off", "close", "closing", "done"}
  \/ /\ main[t].phase = "await"
     /\ f = [test |-> t, file |-> <<At(t), DefaultBranch>>, copy |-> 1]

\* A test has readers at work neither before it starts nor when it closes the
\* client, and one that reads policies has no other reader than the one it
\* awaits.
ReadersInv == \A f \in Fetcher : Busy(f) => Reads(f, f.test)

LEMMA GotoPhase ==
  ASSUME IInv, NEW t \in TestId, NEW p, Goto(t, p)
  PROVE  main'[t].phase = p /\ main'[t].at = main[t].at
<1>1. main \in [TestId -> MainRecord] /\ main[t] \in MainRecord BY DEF IInv, TypeOK
<1>2. QED BY <1>1 DEF Goto, MainRecord

LEMMA NextPhase ==
  ASSUME IInv, NEW t \in TestId, NextProject(t)
  PROVE  main'[t].phase = "next"
<1>1. main \in [TestId -> MainRecord] /\ main[t] \in MainRecord BY DEF IInv, TypeOK
<1>2. main'[t] = [main[t] EXCEPT !.phase = "next", !.at = main[t].at + 1]
  BY <1>1, NextProjectType
<1>3. QED BY <1>1, <1>2 DEF MainRecord

\* What a step of test t does to the order of tests.
LEMMA MainStepTest ==
  ASSUME IInv, NEW t \in TestId, MainStep(t)
  PROVE  /\ abandoned' = abandoned
         /\ main[t].phase \notin {"done", "raised"} /\ main'[t].phase # "off"
         /\ main[t].phase = "off" => t = test
         /\ test' = IF main'[t].phase \in {"done", "raised"} /\ t = test
                    THEN t + 1 ELSE test
<1>1. /\ main[t].phase \notin {"done", "raised"}
      /\ main[t].phase = "off" => t = test
  BY DEF MainStep, StartTest, ListHg, AskBranches, BranchesCached, LockBranches,
     RequestBranches, AnswerPage, PageFails, Gathered, GatherRaises, AskPolicy, PolicyRead,
     PoliciesRead, NothingToClose, StartClose, ClientClosed
<1>2. ASSUME UNCHANGED sessionVars, main'[t].phase \notin {"off", "done", "raised"}
      PROVE  /\ abandoned' = abandoned /\ main'[t].phase # "off"
             /\ test' = IF main'[t].phase \in {"done", "raised"} /\ t = test
                        THEN t + 1 ELSE test
  BY <1>2 DEF sessionVars
<1>3. ASSUME NEW p \in {"done", "raised"}, NEW passed, Goto(t, p), TestEnds(t, passed)
      PROVE  /\ abandoned' = abandoned /\ main'[t].phase # "off"
             /\ test' = IF main'[t].phase \in {"done", "raised"} /\ t = test
                        THEN t + 1 ELSE test
  <2>1. main'[t].phase = p BY <1>3, GotoPhase
  <2>2. QED BY <1>3, <2>1 DEF TestEnds
<1>4. ASSUME UNCHANGED sessionVars,
             \/ NextProject(t)
             \/ \E p \in {"next", "lock", "client", "await", "close", "closing"} : Goto(t, p)
      PROVE  main'[t].phase \notin {"off", "done", "raised"}
  <2>1. CASE NextProject(t)
    <3>1. main'[t].phase = "next" BY <2>1, NextPhase
    <3>2. QED BY <3>1
  <2>2. CASE ~NextProject(t)
    <3>1. PICK p \in {"next", "lock", "client", "await", "close", "closing"} : Goto(t, p)
      BY <1>4, <2>2
    <3>2. main'[t].phase = p BY <3>1, GotoPhase
    <3>3. QED BY <3>2
  <2>3. QED BY <2>1, <2>2
<1>5. CASE RequestBranches(t) \/ (AnswerPage(t) /\ HasNext(exists[At(t)], main[t].page))
  <2>1. main \in [TestId -> MainRecord] /\ main[t] \in MainRecord BY DEF IInv, TypeOK
  <2>2. main'[t].phase = "page" /\ UNCHANGED sessionVars
    BY <1>5, <2>1 DEF RequestBranches, AnswerPage, MainRecord
  <2>3. QED BY <1>1, <1>2, <2>2
<1>6. CASE ListHg(t) \/ BranchesCached(t)
           \/ (AnswerPage(t) /\ ~HasNext(exists[At(t)], main[t].page))
  <2>1. NextProject(t) /\ UNCHANGED sessionVars
    BY <1>6 DEF ListHg, BranchesCached, AnswerPage, GiveListing
  <2>2. QED BY <1>1, <1>2, <1>4, <2>1
<1>7. CASE \/ AskBranches(t) \/ LockBranches(t) \/ Gathered(t) \/ AskPolicy(t)
           \/ StartClose(t)
  <2>1. /\ UNCHANGED sessionVars
        /\ \/ NextProject(t)
           \/ \E p \in {"next", "lock", "client", "await", "close", "closing"} : Goto(t, p)
    BY <1>7 DEF AskBranches, LockBranches, Gathered, AskPolicy, StartClose
  <2>2. QED BY <1>1, <1>2, <1>4, <2>1
<1>8. CASE PageFails(t) \/ GatherRaises(t) \/ PoliciesRead(t)
  BY <1>1, <1>3, <1>8 DEF PageFails, GatherRaises, PoliciesRead
<1>9. CASE StartTest(t) \/ PolicyRead(t) \/ NothingToClose(t) \/ ClientClosed(t)
  <2>1. \/ \E p \in {"done", "raised"}, passed \in BOOLEAN : Goto(t, p) /\ TestEnds(t, passed)
        \/ /\ UNCHANGED sessionVars
           /\ NextProject(t) \/ \E p \in {"next", "close"} : Goto(t, p)
    BY <1>9 DEF StartTest, PolicyRead, NothingToClose, ClientClosed, AfterClose
  <2>2. QED BY <1>1, <1>2, <1>3, <1>4, <2>1
<1>10. QED BY <1>5, <1>6, <1>7, <1>8, <1>9 DEF MainStep

LEMMA MainStepReaders ==
  ASSUME IInv, ReadersInv, NEW t \in TestId, MainStep(t)
  PROVE  ReadersInv'
<1>1. GoesOn(t) /\ OnlySpawns(t) /\ main'[t].phase # "off" /\ AtInv!(t)
  BY MainStepGoesOn, MainStepSpawns, MainStepTest DEF IInv, AtInv
<1>2. /\ fetch \in [Fetcher -> FetchRecord]
      /\ main \in [TestId -> MainRecord] /\ main[t] \in MainRecord
  BY DEF IInv, TypeOK
<1>3. SUFFICES ASSUME NEW f \in Fetcher, f.test = t, Busy(f)' PROVE Reads(f, t)'
  <2> SUFFICES ASSUME NEW f \in Fetcher, Busy(f)', f.test # t PROVE Reads(f, f.test)'
    BY DEF ReadersInv
  <2>1. f.test \in TestId BY FetcherType
  <2>2. fetch'[f] = fetch[f] /\ main'[f.test] = main[f.test] BY <1>1, <2>1 DEF OnlySpawns, GoesOn
  <2>3. Reads(f, f.test) BY <2>2 DEF ReadersInv, Busy
  <2>4. QED BY <2>2, <2>3 DEF Reads, At
<1>4. ASSUME Tests[t] = "generate", main'[t].phase \notin {"close", "closing", "done"}
      PROVE  Reads(f, t)'
  BY <1>1, <1>4 DEF Reads
<1>5. ASSUME fetch' = fetch, ~Reads(f, t) \/ ~Busy(f) PROVE FALSE
  BY <1>3, <1>5 DEF ReadersInv, Busy
<1>6. CASE \/ ListHg(t) \/ BranchesCached(t) \/ AskBranches(t) \/ LockBranches(t)
           \/ AnswerPage(t) \/ RequestBranches(t) \/ PageFails(t) \/ GatherRaises(t)
  <2>1. Tests[t] = "generate"
    BY <1>1, <1>6 DEF ListHg, BranchesCached, AskBranches, LockBranches, AnswerPage,
       RequestBranches, PageFails, GatherRaises
  <2>2. CASE NextProject(t)
    <3>1. main'[t].phase = "next" BY <2>2, NextPhase
    <3>2. QED BY <1>4, <2>1, <3>1
  <2>3. CASE \E p \in {"lock", "client", "raised"} : Goto(t, p)
    <3>1. PICK p \in {"lock", "client", "raised"} : Goto(t, p) BY <2>3
    <3>2. main'[t].phase = p BY <3>1, GotoPhase
    <3>3. QED BY <1>4, <2>1, <3>2
  <2>4. CASE RequestBranches(t) \/ (AnswerPage(t) /\ HasNext(exists[At(t)], main[t].page))
    <3>1. main'[t].phase = "page"
      BY <1>2, <2>4 DEF RequestBranches, AnswerPage, MainRecord
    <3>2. QED BY <1>4, <2>1, <3>1
  <2>5. QED
    BY <1>6, <2>2, <2>3, <2>4 DEF ListHg, BranchesCached, AskBranches, LockBranches,
       AnswerPage, GiveListing, PageFails, GatherRaises
<1>7. CASE Gathered(t)
  <2>1. fetch' = fetch /\ fetch[f].phase \in {"off", "done"}
    BY <1>3, <1>7 DEF Gathered, Own
  <2>2. QED BY <1>5, <2>1 DEF Busy
<1>8. CASE AskPolicy(t)
  <2>1. main[t].phase = "next" /\ Tests[t] = "policies" /\ ~Reads(f, t)
    BY <1>8 DEF AskPolicy, Reads
  <2>2. CASE At(t) \in HgRepo BY <1>5, <1>8, <2>1, <2>2 DEF AskPolicy
  <2>3. CASE At(t) \notin HgRepo
    <3> DEFINE r == [test |-> t, file |-> <<At(t), DefaultBranch>>, copy |-> 1]
    <3>1. fetch' = [fetch EXCEPT ![r].phase = "lock"] /\ Goto(t, "await")
      BY <1>8, <2>3 DEF AskPolicy
    <3>2. main'[t].phase = "await" /\ At(t)' = At(t) BY <3>1, GotoPhase DEF At
    <3>3. f = r
      <4> HIDE DEF r
      <4>1. f # r => fetch'[f] = fetch[f] BY <1>2, <3>1
      <4>2. QED BY <1>3, <2>1, <4>1 DEF ReadersInv, Busy
    <3>4. QED BY <3>2, <3>3 DEF Reads
  <2>4. QED BY <2>2, <2>3
<1>9. CASE PolicyRead(t)
  <2> DEFINE r == [test |-> t, file |-> <<At(t), DefaultBranch>>, copy |-> 1]
  <2>1. main[t].phase = "await" /\ fetch[r].phase \in {"done", "raised"} /\ fetch' = fetch
    BY <1>9 DEF PolicyRead
  <2>2. Reads(f, t) => f = r BY <1>1, <2>1 DEF Reads
  <2> HIDE DEF r
  <2>3. f = r => ~Busy(f) BY <2>1 DEF Busy
  <2>4. QED BY <1>5, <2>1, <2>2, <2>3
<1>10. CASE \/ StartTest(t) \/ PoliciesRead(t) \/ NothingToClose(t) \/ StartClose(t)
            \/ ClientClosed(t)
  <2>1. fetch' = fetch /\ ~Reads(f, t)
    BY <1>10 DEF StartTest, PoliciesRead, NothingToClose, StartClose, ClientClosed, Reads
  <2>2. QED BY <1>5, <2>1
<1>11. QED BY <1>6, <1>7, <1>8, <1>9, <1>10 DEF MainStep

LEMMA FetchStepBusy ==
  ASSUME IInv, NEW f \in Fetcher, FetchStep(f)
  PROVE  /\ Busy(f) /\ UNCHANGED sessionVars
         /\ UNCHANGED clientVars \/ RequestFile(f)
BY DEF FetchStep, FileCached, LockFile, RequestHgFile, RequestFile, AnswerFile,
   AnswerMissing, FetchFails, RaiseIn, Busy

LEMMA ReadersStep == IInv /\ ReadersInv /\ [Next]_vars => ReadersInv'
<1> SUFFICES ASSUME IInv, ReadersInv, [Next]_vars PROVE ReadersInv' OBVIOUS
<1>1. CASE UNCHANGED <<main, fetch>> BY <1>1 DEF ReadersInv, Busy, Reads, At
<1>2. ASSUME NEW f \in Fetcher, FetchStep(f) PROVE ReadersInv'
  <2>1. /\ main' = main /\ Busy(f)
        /\ \A g \in Fetcher \ {f} : fetch'[g] = fetch[g]
    BY <1>2, FetchStepReader, FetchStepBusy
  <2>2. QED BY <2>1 DEF ReadersInv, Busy, Reads, At
<1>3. ASSUME NEW t \in TestId, MainStep(t) PROVE ReadersInv' BY <1>3, MainStepReaders
<1>4. CASE \/ \E r \in Repo, b \in Branch, c \in Content \cup {NoFile} :
                CreateBranch(r, b, c) \/ PushFile(r, b, c)
           \/ \E r \in Repo, b \in Branch : DeleteBranch(r, b)
           \/ \E t \in TestId : Abandon(t)
           \/ UNCHANGED vars
  BY <1>1, <1>4 DEF CreateBranch, PushFile, DeleteBranch, Abandon, Changed, vars
<1>5. QED BY <1>2, <1>3, <1>4 DEF Next

THEOREM ReadersHold == Spec => []ReadersInv
<1>1. Init => ReadersInv BY DEF Init, ReadersInv, Busy
<1>2. QED BY Invariant, ReadersStep, <1>1, PTL DEF Spec

-----------------------------------------------------------------------------
(***************************************************************************)
(* No client is left.                                                       *)
(***************************************************************************)
\* Only the shared client is ever open, and not while it is being closed.
ClosingInv ==
  /\ open \subseteq {client}
  /\ closing # Free => open = {}
  /\ \A t \in TestId : main[t].phase = "closing" => closing = t

AllWell == abandoned = {} /\ \A t \in TestId : main[t].phase # "raised"

\* Test t may have a client.
Uses(t) ==
  /\ main[t].phase # "off"
  /\ Tests[t] = "generate" \/ main[t].phase \in {"await", "close", "closing"}

\* As long as all goes well, the tests run one after the other, and only the one
\* that runs has a client.
InOrder ==
  \A t \in TestId : /\ main[t].phase = "done" <=> t < test
                    /\ t > test => main[t].phase = "off"
ClientOfTest == open # {} => test \in TestId /\ Uses(test)
OrderInv     == ClosingInv /\ (AllWell => InOrder /\ ClientOfTest)

LEMMA GetClientClosing ==
  ASSUME IInv, ClosingInv, NEW c, GetClient(c)
  PROVE  open' \subseteq {client'} /\ closing' = Free
<1>1. CASE client = Free
  <2>1. open = {} BY <1>1 DEF IInv, TypeOK, ClosingInv, Free
  <2>2. QED BY <1>1, <2>1 DEF GetClient
<1>2. CASE client # Free BY <1>2 DEF GetClient, ClosingInv
<1>3. QED BY <1>1, <1>2 DEF GetClient

LEMMA ClosingStep == IInv /\ ClosingInv /\ [Next]_vars => ClosingInv'
<1> SUFFICES ASSUME IInv, ClosingInv, [Next]_vars PROVE ClosingInv' OBVIOUS
<1>1. CASE UNCHANGED <<clientVars, main>> BY <1>1 DEF ClosingInv, clientVars
<1>2. ASSUME NEW t \in TestId, MainStep(t) PROVE ClosingInv'
  <2>1. \A u \in TestId \ {t} : main'[u] = main[u] BY <1>2, MainStepGoesOn DEF GoesOn
  <2>2. CASE RequestBranches(t)
    <3>1. main'[t].phase # "closing"
      <4>1. main \in [TestId -> MainRecord] /\ main[t] \in MainRecord BY DEF IInv, TypeOK
      <4>2. main'[t].phase = "page" BY <2>2, <4>1 DEF RequestBranches, MainRecord
      <4>3. QED BY <4>2
    <3>2. PICK c : GetClient(c) BY <2>2 DEF RequestBranches
    <3>3. open' \subseteq {client'} /\ closing' = Free BY <3>2, GetClientClosing
    <3>4. \A u \in TestId : main[u].phase # "closing"
      BY <3>2, TestsType DEF GetClient, ClosingInv
    <3>5. QED BY <2>1, <3>1, <3>3, <3>4 DEF ClosingInv
  <2>3. CASE StartClose(t)
    <3>1. closing = Free /\ closing' = t /\ open' = open \ {client} /\ client' = client
      BY <2>3 DEF StartClose
    <3>2. \A u \in TestId : main[u].phase # "closing" BY <3>1, TestsType DEF ClosingInv
    <3>3. QED BY <2>1, <3>1, <3>2 DEF ClosingInv
  <2>4. CASE ClientClosed(t)
    <3>1. closing = t /\ open = {} /\ open' = {} /\ closing' = Free
      <4>1. main[t].phase = "closing" /\ open' = open /\ closing' = Free
        BY <2>4 DEF ClientClosed
      <4>2. t # Free BY TestsType
      <4>3. closing = t BY <4>1 DEF ClosingInv
      <4>4. open = {} BY <4>2, <4>3 DEF ClosingInv
      <4>5. QED BY <4>1, <4>3, <4>4
    <3>2. main'[t].phase # "closing"
      <4>1. Goto(t, "done") \/ NextProject(t) BY <2>4 DEF ClientClosed, AfterClose
      <4>2. CASE Goto(t, "done")
        <5>1. main'[t].phase = "done" BY <4>2, GotoPhase
        <5>2. QED BY <5>1
      <4>3. CASE NextProject(t)
        <5>1. main'[t].phase = "next" BY <4>3, NextPhase
        <5>2. QED BY <5>1
      <4>4. QED BY <4>1, <4>2, <4>3
    <3>3. \A u \in TestId \ {t} : main[u].phase # "closing" BY <3>1 DEF ClosingInv
    <3>4. QED BY <2>1, <3>1, <3>2, <3>3 DEF ClosingInv
  <2>5. CASE ~RequestBranches(t) /\ ~StartClose(t) /\ ~ClientClosed(t)
    <3>1. UNCHANGED clientVars
      BY <1>2, <2>5 DEF MainStep, StartTest, ListHg, AskBranches, BranchesCached,
         LockBranches, AnswerPage, PageFails, Gathered, GatherRaises, AskPolicy,
         PolicyRead, PoliciesRead, NothingToClose
    <3>2. main'[t].phase # "closing"
      <4>1. CASE AnswerPage(t) /\ HasNext(exists[At(t)], main[t].page)
        <5>1. main \in [TestId -> MainRecord] /\ main[t].phase = "page"
          BY <4>1 DEF IInv, TypeOK, AnswerPage
        <5>2. QED BY <4>1, <5>1 DEF AnswerPage, MainRecord
      <4>2. CASE NextProject(t) BY <4>2, NextPhase
      <4>3. CASE \E p : p # "closing" /\ Goto(t, p) BY <4>3, GotoPhase
      <4>4. QED
        BY <1>2, <2>5, <4>1, <4>2, <4>3 DEF MainStep, StartTest, ListHg, AskBranches,
           BranchesCached, GiveListing, LockBranches, AnswerPage, PageFails, Gathered,
           GatherRaises, AskPolicy, PolicyRead, PoliciesRead, NothingToClose, AfterClose
    <3>3. QED BY <2>1, <3>1, <3>2 DEF ClosingInv, clientVars
  <2>6. QED BY <2>2, <2>3, <2>4, <2>5
<1>3. ASSUME NEW f \in Fetcher, FetchStep(f) PROVE ClosingInv'
  <2>1. main' = main BY <1>3, FetchStepReader
  <2>2. CASE RequestFile(f)
    <3>1. PICK c : GetClient(c) BY <2>2 DEF RequestFile
    <3>2. open' \subseteq {client'} /\ closing' = Free BY <3>1, GetClientClosing
    <3>3. closing = Free BY <3>1 DEF GetClient
    <3>4. QED BY <2>1, <3>2, <3>3 DEF ClosingInv
  <2>3. CASE ~RequestFile(f)
    BY <1>1, <1>3, <2>3 DEF FetchStep, FileCached, LockFile, RequestHgFile, AnswerFile,
       AnswerMissing, FetchFails, RaiseIn
  <2>4. QED BY <2>2, <2>3
<1>4. CASE \/ \E r \in Repo, b \in Branch, c \in Content \cup {NoFile} :
                CreateBranch(r, b, c) \/ PushFile(r, b, c)
           \/ \E r \in Repo, b \in Branch : DeleteBranch(r, b)
           \/ \E t \in TestId : Abandon(t)
           \/ UNCHANGED vars
  BY <1>1, <1>4 DEF CreateBranch, PushFile, DeleteBranch, Abandon, Changed, vars
<1>5. QED BY <1>2, <1>3, <1>4 DEF Next

LEMMA MainStepOrder ==
  ASSUME IInv, OrderInv, NEW t \in TestId, MainStep(t), AllWell'
  PROVE  InOrder' /\ ClientOfTest'
<1>1. /\ GoesOn(t) /\ main'[t].phase \notin {"off", "raised"}
      /\ main[t].phase \notin {"done", "raised"}
      /\ main[t].phase = "off" => t = test
      /\ test' = IF main'[t].phase \in {"done", "raised"} /\ t = test THEN t + 1 ELSE test
  BY MainStepGoesOn, MainStepTest DEF AllWell
<1>2. InOrder /\ ClientOfTest /\ ClosingInv
  <2>1. AllWell BY <1>1, MainStepTest DEF AllWell, GoesOn
  <2>2. QED BY <2>1 DEF OrderInv
<1>3. \A u \in TestId : u \in Nat BY TestsType
<1>4. t = test
  <2>1. /\ main[t].phase = "done" <=> t < test
        /\ t > test => main[t].phase = "off"
    BY <1>2 DEF InOrder
  <2>2. test \in Nat /\ t \in Nat BY TestsType DEF IInv, TypeOK
  <2>3. QED BY <1>1, <2>1, <2>2
<1>5. InOrder'
  <2> SUFFICES ASSUME NEW u \in TestId
               PROVE  /\ main'[u].phase = "done" <=> u < test'
                      /\ u > test' => main'[u].phase = "off"
    BY DEF InOrder
  <2>1. u \in Nat /\ t \in Nat BY <1>3
  <2>2. CASE u = t
    <3>1. CASE main'[t].phase = "done" BY <1>1, <1>4, <2>1, <2>2, <3>1
    <3>2. CASE main'[t].phase # "done"
      <4>1. test' = t BY <1>1, <1>4, <3>2
      <4>2. QED BY <2>1, <2>2, <3>2, <4>1
    <3>3. QED BY <3>1, <3>2
  <2>3. CASE u # t
    <3>1. main'[u] = main[u] BY <1>1, <2>3 DEF GoesOn
    <3>2. /\ main[u].phase = "done" <=> u < t
          /\ u > t => main[u].phase = "off"
      BY <1>2, <1>4 DEF InOrder
    <3>3. QED BY <1>1, <1>4, <2>1, <2>3, <3>1, <3>2
  <2>4. QED BY <2>2, <2>3
<1>6. ASSUME main'[t].phase = "done" \/ ~Uses(t)' PROVE open' = {}
  <2>1. ASSUME ~Uses(t), open' = open PROVE open' = {}
    BY <1>2, <1>4, <2>1 DEF ClientOfTest
  <2>2. CASE StartTest(t) BY <2>1, <2>2 DEF StartTest, Uses, clientVars
  <2>3. CASE AskPolicy(t) BY <2>1, <2>3 DEF AskPolicy, Uses, clientVars
  <2>4. CASE PoliciesRead(t) BY <2>1, <2>4 DEF PoliciesRead, Uses, clientVars
  <2>5. CASE NothingToClose(t)
    BY <1>2, <2>5 DEF NothingToClose, ClosingInv, IInv, TypeOK, Free, clientVars
  <2>6. CASE ClientClosed(t)
    <3>1. closing = t /\ t # Free /\ open' = open
      BY <1>2, <2>6, TestsType DEF ClientClosed, ClosingInv
    <3>2. QED BY <1>2, <3>1 DEF ClosingInv
  <2>7. CASE \/ ListHg(t) \/ AskBranches(t) \/ BranchesCached(t) \/ LockBranches(t)
             \/ RequestBranches(t) \/ AnswerPage(t) \/ Gathered(t)
    <3>1. Tests[t] = "generate" /\ test' = test
      BY <2>7 DEF ListHg, AskBranches, BranchesCached, LockBranches, RequestBranches,
         AnswerPage, Gathered, sessionVars, IInv, AtInv
    <3>2. main'[t].phase # "done" BY <1>1, <1>3, <1>4, <3>1
    <3>3. QED BY <1>1, <1>6, <3>1, <3>2 DEF Uses
  <2>8. CASE PageFails(t) \/ GatherRaises(t)
    <3>1. main'[t].phase = "raised" BY <2>8, GotoPhase DEF PageFails, GatherRaises
    <3>2. QED BY <1>1, <3>1
  <2>9. CASE PolicyRead(t) \/ StartClose(t)
    <3>1. PICK p \in {"close", "raised", "closing"} : Goto(t, p)
      BY <2>9 DEF PolicyRead, StartClose
    <3>2. main'[t].phase = p BY <3>1, GotoPhase
    <3>3. QED BY <1>1, <1>6, <3>2 DEF Uses
  <2>10. QED
    BY <2>2, <2>3, <2>4, <2>5, <2>6, <2>7, <2>8, <2>9 DEF MainStep
<1>7. ClientOfTest'
  <2>1. CASE main'[t].phase = "done" BY <1>6, <2>1 DEF ClientOfTest
  <2>2. CASE main'[t].phase # "done"
    <3>1. test' = t BY <1>1, <1>4, <2>2
    <3>2. QED BY <1>4, <1>6, <3>1 DEF ClientOfTest, Uses
  <2>3. QED BY <2>1, <2>2
<1>8. QED BY <1>5, <1>7

LEMMA OrderStep == IInv /\ ReadersInv /\ OrderInv /\ [Next]_vars => OrderInv'
<1> SUFFICES ASSUME IInv, ReadersInv, OrderInv, [Next]_vars, AllWell'
             PROVE  InOrder' /\ ClientOfTest'
  BY ClosingStep DEF OrderInv
<1>1. CASE UNCHANGED <<main, open, sessionVars>>
  BY <1>1 DEF OrderInv, AllWell, InOrder, ClientOfTest, Uses, sessionVars
<1>2. ASSUME NEW t \in TestId, MainStep(t) PROVE InOrder' /\ ClientOfTest'
  BY <1>2, MainStepOrder
<1>3. ASSUME NEW t \in TestId, Abandon(t) PROVE FALSE
  BY <1>3 DEF Abandon, AllWell
<1>4. ASSUME NEW f \in Fetcher, FetchStep(f) PROVE InOrder' /\ ClientOfTest'
  <2>1. main' = main /\ UNCHANGED sessionVars /\ Busy(f)
    BY <1>4, FetchStepReader, FetchStepBusy
  <2>2. InOrder BY <2>1 DEF OrderInv, AllWell, sessionVars
  <2>3. f.test \in TestId /\ main[f.test].phase \notin {"off", "done"} /\ Uses(f.test)
    BY <2>1, FetcherType DEF ReadersInv, Reads, Uses
  <2>4. f.test = test
    <3>1. f.test \in Nat /\ test \in Nat BY <2>3, TestsType DEF IInv, TypeOK
    <3>2. ~(f.test < test) /\ ~(f.test > test) BY <2>2, <2>3 DEF InOrder
    <3>3. QED BY <3>1, <3>2
  <2>5. QED
    BY <2>1, <2>2, <2>3, <2>4 DEF InOrder, ClientOfTest, Uses, sessionVars
<1>5. CASE \/ \E r \in Repo, b \in Branch, c \in Content \cup {NoFile} :
                CreateBranch(r, b, c) \/ PushFile(r, b, c)
           \/ \E r \in Repo, b \in Branch : DeleteBranch(r, b)
           \/ UNCHANGED vars
  BY <1>1, <1>5 DEF CreateBranch, PushFile, DeleteBranch, Changed, vars, clientVars
<1>6. QED BY <1>2, <1>3, <1>4, <1>5 DEF Next

LEMMA OrderInit == Init => OrderInv
<1> SUFFICES ASSUME Init PROVE OrderInv OBVIOUS
<1>1. ClosingInv BY DEF Init, ClosingInv
<1>2. InOrder BY TestsType DEF Init, InOrder
<1>3. ClientOfTest BY DEF Init, ClientOfTest
<1>4. QED BY <1>1, <1>2, <1>3 DEF OrderInv

\* The shared client lives from its first use to the end of the tests: requests
\* are sent on an open client, and when all tests have passed none is left open.
THEOREM LifecycleHolds == Spec => ClientLifecycle
<1>1. Spec => []OrderInv BY Invariant, ReadersHold, OrderInit, OrderStep, PTL DEF Spec
<1>2. OrderInv => NoClientLeft
  <2> SUFFICES ASSUME OrderInv, \A t \in TestId : main[t].phase = "done", abandoned = {}
               PROVE  open = {}
    BY DEF NoClientLeft
  <2>1. AllWell BY DEF AllWell
  <2>2. InOrder /\ ClientOfTest BY <2>1 DEF OrderInv
  <2>3. ASSUME test \in TestId PROVE FALSE
    <3>1. test < test BY <2>2, <2>3 DEF InOrder
    <3>2. test \in Nat BY <2>3, TestsType
    <3>3. QED BY <3>1, <3>2
  <2>4. QED BY <2>2, <2>3 DEF ClientOfTest
<1>3. QED BY <1>1, <1>2, RequestsHold, PTL DEF ClientLifecycle

-----------------------------------------------------------------------------
(***************************************************************************)
(* No request of the running test is cut off.                               *)
(***************************************************************************)
\* The tests after the running one have not begun, those before it have ended or
\* were abandoned.
Begun ==
  /\ \A t \in TestId : t > test => main[t].phase = "off"
  /\ \A t \in TestId :
       t < test /\ main[t].phase \notin {"done", "raised"} => t \in abandoned
  /\ \A t \in abandoned : Tests[t] = "generate"

\* The session of a request for an hg file is one that began with its test.
HgSessions ==
  \A f \in Fetcher :
    f.file[1] \in HgRepo /\ fetch[f].phase = "request" =>
      fetch[f].client \in f.test .. test

Culprit == \E t \in abandoned : main[t].phase \in {"closing", "done"}

OpenForTest ==
  \A f \in Fetcher :
    f.file[1] \notin HgRepo /\ fetch[f].phase = "request" /\ f.test = test
      /\ fetch[f].client \notin open => Culprit

CutInv == Begun /\ HgSessions /\ OpenForTest

LEMMA BusyBegun ==
  ASSUME IInv, ReadersInv, Begun, NEW f \in Fetcher, Busy(f)
  PROVE  f.test <= test
<1>1. f.test \in TestId /\ f.test \in Nat /\ test \in Nat
  BY FetcherType, TestsType DEF IInv, TypeOK
<1>2. main[f.test].phase # "off" BY DEF ReadersInv, Reads
<1>3. QED BY <1>1, <1>2 DEF Begun

LEMMA MainStepOpen ==
  ASSUME IInv, NEW t \in TestId, MainStep(t), ~StartClose(t)
  PROVE  open \subseteq open'
<1>1. CASE RequestBranches(t) BY <1>1 DEF RequestBranches, GetClient
<1>2. CASE ~RequestBranches(t)
  BY <1>2 DEF MainStep, StartTest, ListHg, AskBranches, BranchesCached,
     LockBranches, AnswerPage, PageFails, Gathered, GatherRaises, AskPolicy,
     PolicyRead, PoliciesRead, NothingToClose, ClientClosed, clientVars
<1>3. QED BY <1>1, <1>2

LEMMA MainStepCut ==
  ASSUME IInv, ReadersInv, CutInv, NEW t \in TestId, MainStep(t)
  PROVE  CutInv'
<1>1. /\ GoesOn(t) /\ abandoned' = abandoned
      /\ main[t].phase \notin {"done", "raised"}
      /\ main[t].phase = "off" => t = test
      /\ test' = IF main'[t].phase \in {"done", "raised"} /\ t = test THEN t + 1 ELSE test
  BY MainStepGoesOn, MainStepTest
<1>2. test \in Nat /\ (\A u \in TestId : u \in Nat) BY TestsType DEF IInv, TypeOK
<1>3. ~(t > test) BY <1>1, <1>2 DEF CutInv, Begun
<1>4. test' = test \/ (t = test /\ test' = test + 1) BY <1>1
<1>5. Begun'
  <2>1. ASSUME NEW u \in TestId, u > test' PROVE main'[u].phase = "off"
    <3>1. u > test /\ u # t BY <1>2, <1>3, <1>4, <2>1
    <3>2. QED BY <1>1, <3>1 DEF CutInv, Begun, GoesOn
  <2>2. ASSUME NEW u \in TestId, u < test', main'[u].phase \notin {"done", "raised"}
        PROVE  u \in abandoned
    <3>1. CASE u = t
      <4>1. t < test BY <1>1, <1>2, <2>2, <3>1
      <4>2. QED BY <1>1, <3>1, <4>1 DEF CutInv, Begun
    <3>2. CASE u # t
      <4>1. u < test /\ main'[u] = main[u] BY <1>1, <1>2, <1>4, <2>2, <3>2 DEF GoesOn
      <4>2. QED BY <2>2, <4>1 DEF CutInv, Begun
    <3>3. QED BY <3>1, <3>2
  <2>3. QED BY <1>1, <2>1, <2>2 DEF CutInv, Begun
<1>6. ASSUME NEW f \in Fetcher, fetch'[f].phase = "request"
      PROVE  fetch'[f] = fetch[f] /\ Busy(f)
  <2>1. fetch[f] \in FetchRecord BY DEF IInv, TypeOK
  <2>2. [fetch[f] EXCEPT !.phase = "lock"].phase # "request" BY <2>1 DEF FetchRecord
  <2>3. fetch'[f] = fetch[f] BY <1>6, <2>2, MainStepSpawns DEF OnlySpawns
  <2>4. QED BY <1>6, <2>3 DEF Busy
<1>7. HgSessions'
  <2> SUFFICES ASSUME NEW f \in Fetcher, f.file[1] \in HgRepo, fetch'[f].phase = "request"
               PROVE  fetch'[f].client \in f.test .. test'
    BY DEF HgSessions
  <2>1. fetch[f].client \in f.test .. test /\ fetch'[f] = fetch[f]
    BY <1>6 DEF CutInv, HgSessions
  <2>2. f.test \in Nat BY <1>2, FetcherType
  <2>3. QED BY <1>2, <1>4, <2>1, <2>2
<1>8. OpenForTest'
  <2> SUFFICES ASSUME NEW f \in Fetcher, f.file[1] \notin HgRepo, f.test = test',
                      fetch'[f].phase = "request", fetch'[f].client \notin open'
               PROVE  Culprit'
    BY DEF OpenForTest
  <2>1. fetch'[f] = fetch[f] /\ Busy(f) BY <1>6
  <2>2. f.test = test /\ test' = test
    <3>1. f.test <= test BY <2>1, BusyBegun DEF CutInv
    <3>2. QED BY <1>2, <1>4, <3>1
  <2>3. CASE Culprit
    <3>1. PICK u \in abandoned : main[u].phase \in {"closing", "done"}
      BY <2>3 DEF Culprit
    <3>2. u \in TestId /\ Tests[u] = "generate" BY DEF CutInv, Begun, IInv, TypeOK
    <3>3. CASE u # t BY <1>1, <3>1, <3>2, <3>3 DEF Culprit, GoesOn
    <3>4. CASE u = t
      <4>1. main[t].phase = "closing" BY <1>1, <3>1, <3>4
      <4>2. AfterClose(t)
        BY <4>1, <3>2, <3>4 DEF MainStep, StartTest, ListHg, AskBranches, BranchesCached,
           LockBranches, RequestBranches, AnswerPage, PageFails, Gathered, GatherRaises,
           AskPolicy, PolicyRead, PoliciesRead, NothingToClose, StartClose, ClientClosed
      <4>3. main'[t].phase = "done"
        BY <3>2, <3>4, <4>2, GotoPhase DEF AfterClose
      <4>4. QED BY <1>1, <3>1, <3>4, <4>3 DEF Culprit
    <3>5. QED BY <3>3, <3>4
  <2>4. CASE ~Culprit
    <3>1. fetch[f].client \in open BY <2>1, <2>2, <2>4 DEF CutInv, OpenForTest
    <3>2. StartClose(t) BY <2>1, <3>1, MainStepOpen
    <3>3. main[t].phase = "close" /\ main'[t].phase = "closing"
      BY <3>2, GotoPhase DEF StartClose
    <3>4. t # f.test BY <2>1, <3>3 DEF ReadersInv, Reads
    <3>5. t < test BY <1>2, <1>3, <2>2, <3>4
    <3>6. t \in abandoned BY <3>3, <3>5 DEF CutInv, Begun
    <3>7. QED BY <1>1, <3>3, <3>6 DEF Culprit
  <2>5. QED BY <2>3, <2>4
<1>9. QED BY <1>5, <1>7, <1>8 DEF CutInv

LEMMA FetchStepCut ==
  ASSUME IInv, ReadersInv, ClientInv, CutInv, NEW f \in Fetcher, FetchStep(f)
  PROVE  CutInv'
<1>1. /\ main' = main /\ UNCHANGED <<test, abandoned>> /\ Busy(f)
      /\ \A g \in Fetcher \ {f} : fetch'[g] = fetch[g]
      /\ fetch \in [Fetcher -> FetchRecord]
  BY FetchStepReader, FetchStepBusy DEF sessionVars, IInv, TypeOK
<1>2. Begun' BY <1>1 DEF CutInv, Begun
<1>3. /\ f.test \in Nat /\ test \in Nat /\ f.test <= test
  <2>1. Begun BY DEF CutInv
  <2>2. f.test <= test BY <1>1, <2>1, BusyBegun
  <2>3. f.test \in Nat BY FetcherType, TestsType
  <2>4. test \in Nat BY TestsType DEF IInv, TypeOK
  <2>5. QED BY <2>2, <2>3, <2>4
<1>4. CASE RequestHgFile(f)
  <2>1. /\ fetch'[f].client = test /\ f.file[1] \in HgRepo /\ open' = open
    BY <1>1, <1>4 DEF RequestHgFile, FetchRecord, clientVars
  <2>2. HgSessions' BY <1>1, <1>3, <2>1 DEF CutInv, HgSessions
  <2>3. OpenForTest' BY <1>1, <2>1 DEF CutInv, OpenForTest, Culprit
  <2>4. QED BY <1>2, <2>2, <2>3 DEF CutInv
<1>5. CASE RequestFile(f)
  <2>1. PICK c : /\ GetClient(c)
                 /\ fetch' = [fetch EXCEPT ![f].phase = "request", ![f].client = c]
    BY <1>5 DEF RequestFile
  <2>2. f.file[1] \notin HgRepo BY <1>5 DEF RequestFile, GitRepo
  <2>3. fetch'[f].client \in open' /\ open \subseteq open'
    <3>1. fetch'[f].client = c BY <1>1, <2>1 DEF FetchRecord
    <3>2. QED BY <2>1, <3>1, GetClientOpen DEF GetClient
  <2>4. HgSessions' BY <1>1, <2>2 DEF CutInv, HgSessions
  <2>5. OpenForTest' BY <1>1, <2>3 DEF CutInv, OpenForTest, Culprit
  <2>6. QED BY <1>2, <2>4, <2>5 DEF CutInv
<1>6. CASE ~RequestHgFile(f) /\ ~RequestFile(f)
  <2>1. open' = open BY <1>6, FetchStepBusy DEF clientVars
  <2>2. fetch'[f].phase # "request"
    BY <1>1, <1>6 DEF FetchStep, FileCached, LockFile, SetFetch, AnswerFile,
       AnswerMissing, FetchFails, RaiseIn, FetchRecord
  <2>3. HgSessions' BY <1>1, <2>2 DEF CutInv, HgSessions
  <2>4. OpenForTest' BY <1>1, <2>1, <2>2 DEF CutInv, OpenForTest, Culprit
  <2>5. QED BY <1>2, <2>3, <2>4 DEF CutInv
<1>7. QED BY <1>4, <1>5, <1>6

LEMMA CutStep == IInv /\ ReadersInv /\ ClientInv /\ CutInv /\ [Next]_vars => CutInv'
<1> SUFFICES ASSUME IInv, ReadersInv, ClientInv, CutInv, [Next]_vars PROVE CutInv' OBVIOUS
<1>1. CASE UNCHANGED <<main, fetch, open, sessionVars>>
  BY <1>1 DEF CutInv, Begun, HgSessions, OpenForTest, Culprit, sessionVars
<1>2. ASSUME NEW t \in TestId, Abandon(t) PROVE CutInv'
  <2>1. /\ UNCHANGED <<main, fetch, open>> /\ t = test /\ test' = t + 1
        /\ abandoned' = abandoned \cup {t} /\ Tests[t] = "generate"
    BY <1>2 DEF Abandon, clientVars
  <2>2. test \in Nat /\ (\A u \in TestId : u \in Nat) BY TestsType DEF IInv, TypeOK
  <2>3. Begun'
    <3>1. \A u \in TestId : u > test + 1 => main[u].phase = "off"
      BY <2>2 DEF CutInv, Begun
    <3>2. \A u \in TestId : u < test + 1 => u = t \/ u < test BY <2>1, <2>2
    <3>3. QED BY <2>1, <3>1, <3>2 DEF CutInv, Begun
  <2>4. HgSessions'
    <3>1. \A f \in Fetcher : f.test \in Nat BY <2>2, FetcherType
    <3>2. \A f \in Fetcher : f.test .. test \subseteq f.test .. test + 1 BY <2>2, <3>1
    <3>3. QED BY <2>1, <3>2 DEF CutInv, HgSessions
  <2>5. OpenForTest'
    <3>1. \A f \in Fetcher : fetch[f].phase = "request" => f.test # test + 1
      <4> SUFFICES ASSUME NEW f \in Fetcher, fetch[f].phase = "request"
                   PROVE  f.test # test + 1
        OBVIOUS
      <4>1. f.test <= test BY BusyBegun DEF CutInv, Busy
      <4>2. QED BY <2>2, <4>1, FetcherType
    <3>2. QED BY <2>1, <3>1 DEF OpenForTest
  <2>6. QED BY <2>3, <2>4, <2>5 DEF CutInv
<1>3. ASSUME NEW t \in TestId, MainStep(t) PROVE CutInv' BY <1>3, MainStepCut
<1>4. ASSUME NEW f \in Fetcher, FetchStep(f) PROVE CutInv' BY <1>4, FetchStepCut
<1>5. CASE \/ \E r \in Repo, b \in Branch, c \in Content \cup {NoFile} :
                CreateBranch(r, b, c) \/ PushFile(r, b, c)
           \/ \E r \in Repo, b \in Branch : DeleteBranch(r, b)
           \/ UNCHANGED vars
  BY <1>1, <1>5 DEF CreateBranch, PushFile, DeleteBranch, Changed, vars, clientVars
<1>6. QED BY <1>2, <1>3, <1>4, <1>5 DEF Next

\* No request of the running test is cut off, unless an abandoned test closes
\* the client under it.
THEOREM NotCutOffHolds == Spec => []NotCutOff
<1>1. Init => CutInv
  <2> SUFFICES ASSUME Init PROVE CutInv OBVIOUS
  <2>1. test = 1 /\ abandoned = {} /\ (\A t \in TestId : main[t].phase = "off" /\ ~(t < 1))
    BY TestsType DEF Init
  <2>2. Begun BY <2>1 DEF Begun
  <2>3. \A f \in Fetcher : fetch[f].phase = "off" BY DEF Init
  <2>4. HgSessions /\ OpenForTest BY <2>3 DEF HgSessions, OpenForTest
  <2>5. QED BY <2>2, <2>4 DEF CutInv
<1>2. Spec => []CutInv
  BY Invariant, ReadersHold, ClientOpen, CutStep, <1>1, PTL DEF Spec
<1>3. CutInv /\ IInv => NotCutOff
  <2> SUFFICES ASSUME CutInv, IInv, NEW f \in Fetcher, f.test = test,
                      fetch[f].phase = "request", ~Usable(f)
               PROVE  Culprit
    BY DEF NotCutOff, Culprit
  <2>1. CASE f.file[1] \in HgRepo
    <3>1. fetch[f].client \in test .. test BY <2>1 DEF CutInv, HgSessions
    <3>2. test \in Nat BY TestsType DEF IInv, TypeOK
    <3>3. fetch[f].client = test BY <3>1, <3>2
    <3>4. QED BY <2>1, <3>3 DEF Usable
  <2>2. CASE f.file[1] \notin HgRepo BY <2>2 DEF CutInv, OpenForTest, Usable
  <2>3. QED BY <2>1, <2>2
<1>4. QED BY Invariant, <1>2, <1>3, PTL

-----------------------------------------------------------------------------
(***************************************************************************)
(* A listing is complete.                                                   *)
(***************************************************************************)
LEMMA RankType ==
  ASSUME NEW S \in SUBSET Branch, NEW b
  PROVE  /\ Rank(b, S) \in Nat /\ Cardinality(S) \in Nat
         /\ Rank(b, S) <= Cardinality(S)
         /\ b \in S => Rank(b, S) # 0
<1> DEFINE T == {c \in S : c <= b}
<1>1. IsFiniteSet(S) BY FetchAssumption, FS_Subset
<1>2. T \in SUBSET S OBVIOUS
<1>3. IsFiniteSet(T) /\ Cardinality(T) <= Cardinality(S) BY <1>1, <1>2, FS_Subset
<1>4. Cardinality(S) \in Nat /\ Cardinality(T) \in Nat BY <1>1, <1>3, FS_CardinalityType
<1>5. b \in S => b \in T BY FetchAssumption
<1>6. b \in S => Cardinality(T) # 0 BY <1>3, <1>5, FS_EmptySet
<1>7. QED BY <1>3, <1>4, <1>6 DEF Rank

LEMMA RankGrows ==
  ASSUME NEW S \in SUBSET Branch, NEW T \in SUBSET S, NEW b
  PROVE  Rank(b, T) <= Rank(b, S)
<1>1. {c \in T : c <= b} \in SUBSET {c \in S : c <= b} OBVIOUS
<1>2. IsFiniteSet({c \in S : c <= b})
  <2>1. IsFiniteSet(S) BY FetchAssumption, FS_Subset
  <2>2. {c \in S : c <= b} \in SUBSET S OBVIOUS
  <2>3. QED BY <2>1, <2>2, FS_Subset
<1>3. QED BY <1>1, <1>2, FS_Subset DEF Rank

\* Page p adds the branches of its ranks and takes none away.
LEMMA PageReads ==
  ASSUME NEW list \in Listing, NEW S \in SUBSET Branch, NEW p \in Nat \ {0}, NEW b \in S,
         Rank(b, S) <= (p - 1) * PageSize => list[b] > 0,
         Rank(b, S) <= p * PageSize
  PROVE  Extend(list, Page(S, p))[b] > 0
<1>1. /\ list[b] \in 0 .. Copies /\ Copies \in Nat \ {0} /\ PageSize \in Nat
      /\ b \in Branch /\ Rank(b, S) \in Nat
  BY FetchAssumption, RankType DEF Listing
<1>2. Extend(list, Page(S, p))[b] =
        IF b \in Page(S, p) /\ list[b] < Copies THEN list[b] + 1 ELSE list[b]
  BY <1>1 DEF Extend
<1>3. CASE list[b] > 0 BY <1>1, <1>2, <1>3
<1>4. CASE ~(list[b] > 0)
  <2> DEFINE lo == (p - 1) * PageSize  hi == p * PageSize  n == Rank(b, S)
  <2>1. lo \in Nat /\ hi \in Nat BY <1>1
  <2>2. ~(n <= lo) /\ n <= hi BY <1>4
  <2>3. n \in Nat BY <1>1
  <2> HIDE DEF lo, hi, n
  <2>4. n \in lo + 1 .. hi BY <2>1, <2>2, <2>3
  <2>5. b \in Page(S, p) BY <2>4 DEF Page, lo, hi, n
  <2>6. QED BY <1>1, <1>2, <1>4, <2>5
<1>5. QED BY <1>3, <1>4

\* The list has every lasting branch of r on the pages before page p.
HasBefore(r, list, p) ==
  \A b \in lasting[r] : Rank(b, exists[r]) <= (p - 1) * PageSize => list[b] > 0

Complete(r) == branchCache[r] # Unread /\ ~shrunk[r] =>
                 \A b \in lasting[r] : branchCache[r][b] > 0

ListInv ==
  /\ \A r \in Repo : lasting[r] \subseteq exists[r] /\ Complete(r)
  /\ \A t \in TestId :
       main[t].phase = "page" /\ ~shrunk[At(t)] =>
         HasBefore(At(t), main[t].list, main[t].page)

LEMMA AnswerPageLists ==
  ASSUME IInv, ListInv, NEW t \in TestId, AnswerPage(t), ~shrunk[At(t)]
  PROVE  LET list == Extend(main[t].list, Page(exists[At(t)], main[t].page))
         IN  /\ HasBefore(At(t), list, main[t].page + 1)
             /\ ~HasNext(exists[At(t)], main[t].page) =>
                  \A b \in lasting[At(t)] : list[b] > 0
<1> DEFINE r == At(t)  p == main[t].page
           list == Extend(main[t].list, Page(exists[r], p))
<1>1. main[t].phase = "page" BY DEF AnswerPage
<1>2. r \in Repo BY <1>1 DEF IInv, AtInv, GitRepo
<1>3. main[t].list \in Listing /\ p \in Nat \ {0}
  <2>1. main[t] \in MainRecord BY DEF IInv, TypeOK
  <2>2. QED BY <2>1 DEF MainRecord
<1>4. exists[r] \in SUBSET Branch /\ lasting[r] \subseteq exists[r]
  BY <1>2 DEF IInv, TypeOK, ListInv
<1>5. HasBefore(r, main[t].list, p) BY <1>1 DEF ListInv
<1>6. ASSUME NEW b \in lasting[r], Rank(b, exists[r]) <= p * PageSize PROVE list[b] > 0
  <2>1. b \in exists[r] BY <1>4
  <2>2. Rank(b, exists[r]) <= (p - 1) * PageSize => main[t].list[b] > 0
    BY <1>5 DEF HasBefore
  <2> HIDE DEF r, p
  <2>3. QED BY <1>3, <1>4, <1>6, <2>1, <2>2, PageReads
<1>7. (p + 1) - 1 = p BY <1>3
<1>8. HasBefore(r, list, p + 1)
  <2> HIDE DEF r, p, list
  <2>1. QED BY <1>6, <1>7 DEF HasBefore
<1>9. ASSUME ~HasNext(exists[r], p), NEW b \in lasting[r] PROVE list[b] > 0
  <2> DEFINE hi == p * PageSize  n == Rank(b, exists[r])  size == Cardinality(exists[r])
  <2>1. hi \in Nat BY <1>3, FetchAssumption
  <2>2. n \in Nat /\ size \in Nat /\ n <= size BY <1>4, RankType
  <2>3. ~(size > hi) BY <1>9 DEF HasNext
  <2> HIDE DEF hi, n, size
  <2>4. n <= hi BY <2>1, <2>2, <2>3
  <2>5. QED BY <1>6, <2>4 DEF hi, n
<1>10. QED BY <1>8, <1>9

LEMMA MainStepLists ==
  ASSUME IInv, ListInv, NEW t \in TestId, MainStep(t)
  PROVE  ListInv'
<1>1. /\ GoesOn(t) /\ AtInv /\ BranchesInv
      /\ main \in [TestId -> MainRecord] /\ main[t] \in MainRecord
      /\ branchCache \in [Repo -> Listing \cup {Unread}]
      /\ exists \in [Repo -> SUBSET Branch] /\ lasting \in [Repo -> SUBSET Branch]
      /\ shrunk \in [Repo -> BOOLEAN]
  BY MainStepGoesOn DEF IInv, TypeOK
<1>2. ASSUME NEW u \in TestId \ {t}
      PROVE  /\ main'[u] = main[u] /\ At(u)' = At(u)
             /\ main[u].phase = "page" => At(u) \in Repo
             /\ main[u].phase = "page" /\ main[t].phase \in {"client", "page"} => At(u) # At(t)
  <2>1. main'[u] = main[u] /\ At(u)' = At(u) BY <1>1 DEF GoesOn, At
  <2>2. main[u].phase = "page" => At(u) \in Repo BY <1>1 DEF AtInv, GitRepo
  <2>3. main[u].phase = "page" /\ main[t].phase \in {"client", "page"} => At(u) # At(t)
    BY <1>1 DEF BranchesInv
  <2>4. QED BY <2>1, <2>2, <2>3
<1>3. main[t].phase \in {"client", "page"} =>
        At(t) \in Repo /\ branchCache[At(t)] = Unread
  BY <1>1 DEF AtInv, GitRepo, BranchesInv
<1>4. CASE RequestBranches(t)
  <2>1. /\ main[t].phase = "client" /\ exists' = exists /\ branchCache' = branchCache
        /\ lasting' = [lasting EXCEPT ![At(t)] = exists[At(t)]]
        /\ shrunk' = [shrunk EXCEPT ![At(t)] = FALSE]
    BY <1>4 DEF RequestBranches, repoVars, branchVars
  <2>2. main'[t].phase = "page" /\ main'[t].page = 1 /\ main'[t].at = main[t].at
    BY <1>1, <1>4 DEF RequestBranches, MainRecord
  <2>3. At(t)' = At(t) BY <2>2 DEF At
  <2>4. ASSUME NEW r \in Repo PROVE (lasting[r] \subseteq exists[r] /\ Complete(r))'
    <3>1. CASE r = At(t) BY <1>1, <1>3, <2>1, <3>1 DEF Complete
    <3>2. CASE r # At(t) BY <1>1, <2>1, <3>2 DEF ListInv, Complete
    <3>3. QED BY <3>1, <3>2
  <2>5. HasBefore(At(t), main[t].list, main[t].page)'
    <3>1. \A b \in exists[At(t)] : Rank(b, exists[At(t)]) \in Nat \ {0}
      BY <1>1, <1>3, <2>1, RankType
    <3>2. (1 - 1) * PageSize = 0 BY FetchAssumption
    <3>3. \A b \in exists[At(t)] : ~(Rank(b, exists[At(t)]) <= (1 - 1) * PageSize)
      BY <3>1, <3>2
    <3>4. lasting'[At(t)] = exists[At(t)] BY <1>1, <1>3, <2>1
    <3>5. QED BY <2>1, <2>2, <2>3, <3>3, <3>4 DEF HasBefore
  <2>6. ASSUME NEW u \in TestId \ {t}, main'[u].phase = "page", ~shrunk'[At(u)']
        PROVE  HasBefore(At(u), main[u].list, main[u].page)'
    <3>1. At(u) # At(t) /\ At(u) \in Repo /\ main[u].phase = "page" /\ At(u)' = At(u)
      BY <1>2, <2>1, <2>6
    <3>2. shrunk'[At(u)] = shrunk[At(u)] /\ lasting'[At(u)] = lasting[At(u)]
      BY <1>1, <2>1, <3>1
    <3>3. HasBefore(At(u), main[u].list, main[u].page) BY <2>6, <3>1, <3>2 DEF ListInv
    <3>4. QED BY <1>2, <2>1, <3>1, <3>2, <3>3 DEF HasBefore
  <2>7. QED BY <2>4, <2>5, <2>6 DEF ListInv
<1>5. ASSUME UNCHANGED <<exists, lasting, shrunk>>
      PROVE  \A u \in TestId \ {t} : main'[u].phase = "page" /\ ~shrunk'[At(u)'] =>
               HasBefore(At(u), main[u].list, main[u].page)'
  BY <1>2, <1>5 DEF ListInv, HasBefore
<1>6. CASE AnswerPage(t)
  <2> DEFINE list == Extend(main[t].list, Page(exists[At(t)], main[t].page))
  <2>1. main[t].phase = "page" /\ UNCHANGED <<exists, lasting, shrunk>> /\ At(t) \in Repo
    BY <1>3, <1>6 DEF AnswerPage, repoVars, historyVars
  <2>2. ~shrunk[At(t)] =>
          /\ HasBefore(At(t), list, main[t].page + 1)
          /\ ~HasNext(exists[At(t)], main[t].page) => \A b \in lasting[At(t)] : list[b] > 0
    BY <1>6, AnswerPageLists
  <2>3. CASE HasNext(exists[At(t)], main[t].page)
    <3>1. branchCache' = branchCache
          /\ main' = [main EXCEPT ![t].page = main[t].page + 1, ![t].list = list]
      BY <1>6, <2>3 DEF AnswerPage, branchVars
    <3> HIDE DEF list
    <3>2. /\ main'[t].page = main[t].page + 1 /\ main'[t].list = list
          /\ main'[t].at = main[t].at
      BY <1>1, <3>1 DEF MainRecord
    <3>3. At(t)' = At(t) BY <3>2 DEF At
    <3>4. ~shrunk[At(t)] => HasBefore(At(t), main[t].list, main[t].page)'
      BY <2>1, <2>2, <3>2, <3>3 DEF HasBefore
    <3>5. \A r \in Repo : (lasting[r] \subseteq exists[r] /\ Complete(r))'
      BY <2>1, <3>1 DEF ListInv, Complete
    <3>6. QED BY <1>5, <2>1, <3>3, <3>4, <3>5 DEF ListInv
  <2>4. CASE ~HasNext(exists[At(t)], main[t].page)
    <3>1. /\ branchCache' = [branchCache EXCEPT ![At(t)] = list] /\ NextProject(t)
      BY <1>6, <2>4 DEF AnswerPage, GiveListing
    <3> HIDE DEF list
    <3>2. main'[t].phase = "next" BY <3>1, NextPhase
    <3>3. ASSUME NEW r \in Repo PROVE (lasting[r] \subseteq exists[r] /\ Complete(r))'
      <4>1. CASE r = At(t) BY <1>1, <2>1, <2>2, <2>4, <3>1, <4>1 DEF ListInv, Complete
      <4>2. CASE r # At(t) BY <1>1, <2>1, <3>1, <4>2 DEF ListInv, Complete
      <4>3. QED BY <4>1, <4>2
    <3>4. QED BY <1>5, <2>1, <3>2, <3>3 DEF ListInv
  <2>5. QED BY <2>3, <2>4
<1>7. CASE ~RequestBranches(t) /\ ~AnswerPage(t)
  <2>1. UNCHANGED <<exists, lasting, shrunk, branchCache>>
    BY <1>7 DEF MainStep, StartTest, ListHg, AskBranches, BranchesCached, LockBranches,
       PageFails, Gathered, GatherRaises, AskPolicy, PolicyRead, PoliciesRead,
       NothingToClose, StartClose, ClientClosed, repoVars, branchVars, historyVars
  <2>2. main'[t].phase # "page"
    <3>1. CASE NextProject(t) BY <3>1, NextPhase
    <3>2. CASE \E q : q # "page" /\ Goto(t, q) BY <3>2, GotoPhase
    <3>3. QED
      BY <1>7, <3>1, <3>2 DEF MainStep, StartTest, ListHg, AskBranches, BranchesCached,
         GiveListing, LockBranches, PageFails, Gathered, GatherRaises, AskPolicy,
         PolicyRead, PoliciesRead, NothingToClose, StartClose, ClientClosed, AfterClose
  <2>3. \A r \in Repo : (lasting[r] \subseteq exists[r] /\ Complete(r))'
    BY <2>1 DEF ListInv, Complete
  <2>4. QED BY <1>5, <2>1, <2>2, <2>3 DEF ListInv
<1>8. QED BY <1>4, <1>6, <1>7

LEMMA RepoStepLists ==
  ASSUME IInv, ListInv, NEW r \in Repo, NEW b \in Branch, NEW c,
         CreateBranch(r, b, c) \/ DeleteBranch(r, b)
  PROVE  ListInv'
<1>1. /\ main' = main /\ branchCache' = branchCache
      /\ exists \in [Repo -> SUBSET Branch] /\ lasting \in [Repo -> SUBSET Branch]
      /\ shrunk \in [Repo -> BOOLEAN]
  BY DEF CreateBranch, DeleteBranch, Changed, branchVars, IInv, TypeOK
<1>2. \A t \in TestId :
        At(t)' = At(t) /\ (main[t].phase = "page" => At(t) \in Repo)
  BY <1>1 DEF IInv, AtInv, GitRepo, At
<1>3. CASE CreateBranch(r, b, c)
  <2>1. exists' = [exists EXCEPT ![r] = exists[r] \cup {b}] /\ UNCHANGED <<lasting, shrunk>>
    BY <1>3 DEF CreateBranch, historyVars
  <2>2. \A q \in Repo : exists[q] \subseteq exists'[q] /\ exists'[q] \in SUBSET Branch
    BY <1>1, <2>1
  <2>3. \A q \in Repo : (lasting[q] \subseteq exists[q] /\ Complete(q))'
    BY <1>1, <2>1, <2>2 DEF ListInv, Complete
  <2>4. ASSUME NEW t \in TestId, main[t].phase = "page", ~shrunk[At(t)]
        PROVE  HasBefore(At(t), main[t].list, main[t].page)'
    <3> DEFINE q == At(t)  lo == (main[t].page - 1) * PageSize
    <3>1. q \in Repo /\ HasBefore(q, main[t].list, main[t].page) BY <1>2, <2>4 DEF ListInv
    <3>2. lo \in Int
      <4>1. main[t] \in MainRecord BY DEF IInv, TypeOK
      <4>2. main[t].page \in Nat BY <4>1 DEF MainRecord
      <4>3. QED BY <4>2, FetchAssumption
    <3>3. ASSUME NEW d \in lasting[q], Rank(d, exists'[q]) <= lo
          PROVE  main[t].list[d] > 0
      <4> HIDE DEF q, lo
      <4>1. Rank(d, exists[q]) <= Rank(d, exists'[q]) BY <2>2, <3>1, RankGrows
      <4>2. Rank(d, exists[q]) \in Nat /\ Rank(d, exists'[q]) \in Nat
        BY <1>1, <2>2, <3>1, RankType
      <4>3. Rank(d, exists[q]) <= lo BY <3>2, <3>3, <4>1, <4>2
      <4>4. QED BY <3>1, <4>3 DEF HasBefore, lo
    <3>4. QED BY <1>1, <1>2, <2>1, <3>3 DEF HasBefore
  <2>5. QED BY <1>1, <1>2, <2>1, <2>3, <2>4 DEF ListInv
<1>4. CASE DeleteBranch(r, b)
  <2>1. /\ exists' = [exists EXCEPT ![r] = exists[r] \ {b}]
        /\ lasting' = [lasting EXCEPT ![r] = lasting[r] \ {b}]
        /\ shrunk' = [shrunk EXCEPT ![r] = TRUE]
    BY <1>4 DEF DeleteBranch
  <2>2. ASSUME NEW q \in Repo PROVE (lasting[q] \subseteq exists[q] /\ Complete(q))'
    <3>1. CASE q = r BY <1>1, <2>1, <3>1 DEF ListInv, Complete
    <3>2. CASE q # r BY <1>1, <2>1, <3>2 DEF ListInv, Complete
    <3>3. QED BY <3>1, <3>2
  <2>3. ASSUME NEW t \in TestId, main[t].phase = "page", ~shrunk'[At(t)]
        PROVE  HasBefore(At(t), main[t].list, main[t].page)'
    <3>1. At(t) \in Repo /\ At(t) # r BY <1>1, <1>2, <2>1, <2>3
    <3>2. /\ shrunk'[At(t)] = shrunk[At(t)] /\ exists'[At(t)] = exists[At(t)]
          /\ lasting'[At(t)] = lasting[At(t)]
      BY <1>1, <2>1, <3>1
    <3>3. HasBefore(At(t), main[t].list, main[t].page) BY <2>3, <3>2 DEF ListInv
    <3>4. QED BY <1>1, <1>2, <3>2, <3>3 DEF HasBefore
  <2>4. QED BY <1>1, <1>2, <2>2, <2>3 DEF ListInv
<1>5. QED BY <1>3, <1>4

LEMMA ListStep == IInv /\ ListInv /\ [Next]_vars => ListInv'
<1> SUFFICES ASSUME IInv, ListInv, [Next]_vars PROVE ListInv' OBVIOUS
<1>1. CASE UNCHANGED <<main, exists, branchCache, historyVars>>
  BY <1>1 DEF ListInv, Complete, HasBefore, At, historyVars
<1>2. ASSUME NEW t \in TestId, MainStep(t) PROVE ListInv' BY <1>2, MainStepLists
<1>3. ASSUME NEW f \in Fetcher, FetchStep(f) PROVE ListInv'
  <2>1. UNCHANGED <<exists, branchCache, historyVars>>
    BY <1>3 DEF FetchStep, FileCached, LockFile, RequestHgFile, RequestFile, AnswerFile,
       AnswerMissing, FetchFails, RaiseIn, repoVars, branchVars
  <2>2. QED BY <1>1, <1>3, <2>1, FetchStepReader
<1>4. ASSUME NEW r \in Repo, NEW b \in Branch, NEW c \in Content \cup {NoFile},
             CreateBranch(r, b, c) \/ DeleteBranch(r, b)
      PROVE  ListInv'
  BY <1>4, RepoStepLists
<1>5. CASE \/ \E r \in Repo, b \in Branch, c \in Content \cup {NoFile} : PushFile(r, b, c)
           \/ \E t \in TestId : Abandon(t)
           \/ UNCHANGED vars
  BY <1>1, <1>5 DEF PushFile, Abandon, Changed, vars, repoVars, branchVars
<1>6. QED BY <1>2, <1>3, <1>4, <1>5 DEF Next

\* A listing has every branch that was there from the first page to the last,
\* unless a branch was deleted in between.
THEOREM ListingHolds == Spec => []ListingComplete
<1>1. Init => ListInv
  <2> SUFFICES ASSUME Init PROVE ListInv OBVIOUS
  <2>1. \A t \in TestId : main[t].phase = "off" BY DEF Init
  <2>2. \A r \in Repo : lasting[r] = {} BY DEF Init
  <2>3. QED BY <2>1, <2>2 DEF ListInv, Complete
<1>2. ListInv => ListingComplete BY DEF ListInv, Complete, ListingComplete
<1>3. QED BY Invariant, ListStep, <1>1, <1>2, PTL DEF Spec
=============================================================================
