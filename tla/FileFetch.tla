------------------------------ MODULE FileFetch ------------------------------
(***************************************************************************)
(* How ciadmin reads branches and .taskcluster.yml files of all projects.   *)
(*   src/src/ciadmin/generate/branches.py, tcyml.py   caches, a lock per key *)
(*   src/src/ciadmin/util/github.py                   the shared client     *)
(*   src/src/ciadmin/generate/in_tree_actions.py      hash_taskcluster_ymls *)
(*   src/src/ciadmin/check/conftest.py, check_pull_request_policies.py      *)
(* A session runs tests one after the other in one event loop: a deploy is a *)
(* session of one "generate" test, the checks also read policies.  Coroutines *)
(* that a failed test leaves behind run on beside the next one.  GitHub, hg *)
(* and simple_github's client are external.                                 *)
(***************************************************************************)
EXTENDS Integers, Sequences, FiniteSets

CONSTANTS
  Tests,         \* the tests of the session: "generate" or "policies"
  Projects,      \* repositories in the order of projects.yml
  HgRepo,        \* those of type hg, which have one branch
  Branch,        \* numbers, in the order GitHub lists them
  DefaultBranch,
  Configured,    \* branches of each repository that match its configuration
  Content, NoFile,
  Unread, NotAsked, Asked, Raised,   \* of the caches and their readers
  PageSize,      \* branches in a page (100)
  Copies,        \* bound: times a listing may repeat a branch
  MaxChanges,    \* bound: changes to the repositories
  MaxFaults      \* bound: failing requests and failing other generators

TestId  == DOMAIN Tests
Repo    == {Projects[i] : i \in DOMAIN Projects}
GitRepo == Repo \ HgRepo
File    == {k \in Repo \X Branch : k[2] \in Configured[k[1]]}   \* those ever read
Listing == [Branch -> 0 .. Copies]
Fetcher == [test : TestId, file : File, copy : 1 .. Copies]
Lister  == TestId \X Repo

ASSUME FetchAssumption ==
  /\ Tests \in Seq({"generate", "policies"})
  /\ Projects \in Seq(Repo) /\ HgRepo \subseteq Repo
  /\ \A i, j \in DOMAIN Projects : Projects[i] = Projects[j] => i = j
  /\ Branch \subseteq Nat /\ IsFiniteSet(Branch) /\ DefaultBranch \in Branch
  /\ Configured \in [Repo -> SUBSET Branch]
  /\ \A r \in Repo : DefaultBranch \in Configured[r]
  /\ NoFile \notin Content
  /\ {Unread, NotAsked, Asked, Raised} \cap (Content \cup Listing) = {}
  /\ NotAsked # Asked /\ Asked # Raised /\ Raised # NotAsked
  /\ PageSize \in Nat \ {0} /\ Copies \in Nat \ {0}
  /\ MaxChanges \in Nat /\ MaxFaults \in Nat

Free == 0        \* nobody holds a lock; no client

VARIABLES
  exists, content,          \* the repositories
  branchCache, branchLock,  \* branches.py: _cache, and who holds _lock
  fileCache, fileLock,      \* tcyml.py
  client, open, closing,    \* github.py: _client, sessions not closed, who closes
  created,                  \* sessions ever created
  test,                     \* the test that runs
  generated,                \* conftest's cache has the in-tree actions
  main,                     \* the coroutine of each test
  listed,                   \* what each test was given as branches
  fetch,                    \* the coroutines of tcyml.get
  abandoned,                \* tests that failed while their coroutine went on
  lasting, shrunk,          \* history: of a listing, branches that were there
                            \* all the time, and whether one was deleted
  changes, faults

repoVars    == <<exists, content, changes>>
branchVars  == <<branchCache, branchLock, listed>>
fileVars    == <<fileCache, fileLock>>
clientVars  == <<client, open, closing, created>>
sessionVars == <<test, generated, abandoned>>
historyVars == <<lasting, shrunk>>
vars == <<repoVars, branchVars, fileVars, clientVars, sessionVars, historyVars,
          main, fetch, faults>>

-----------------------------------------------------------------------------
(* GitHub's pages.                                                          *)

Rank(b, S) == Cardinality({c \in S : c <= b})

\* Page p of the branches S.
Page(S, p) == {b \in S : Rank(b, S) \in (p - 1) * PageSize + 1 .. p * PageSize}

\* Mutant: the link header is not looked at.
NoNext(S, p) == FALSE

\* The link header of page p names a next page.
HasNext(S, p) == Cardinality(S) > p * PageSize

EmptyListing == [b \in Branch |-> 0]

\* branches.extend: a branch that pages repeat is listed twice.
Extend(list, S) ==
  [b \in Branch |-> IF b \in S /\ list[b] < Copies THEN list[b] + 1 ELSE list[b]]

-----------------------------------------------------------------------------
Init ==
  /\ exists \in [Repo -> SUBSET Branch]
  /\ \A r \in Repo : DefaultBranch \in exists[r]
  /\ \A r \in HgRepo : exists[r] = {DefaultBranch}
  /\ content \in [File -> Content \cup {NoFile}]
  /\ \A k \in File : k[2] \notin exists[k[1]] => content[k] = NoFile
  /\ branchCache = [r \in Repo |-> Unread]
  /\ branchLock = [r \in Repo |-> Free]
  /\ fileCache = [k \in File |-> Unread]
  /\ fileLock = [k \in File |-> Free]
  /\ client = Free /\ open = {} /\ closing = Free /\ created = 0
  /\ test = 1 /\ generated = FALSE /\ abandoned = {}
  /\ main = [t \in TestId |-> [phase |-> "off", at |-> 1, page |-> 1,
                               list |-> EmptyListing, client |-> Free]]
  /\ listed = [l \in Lister |-> NotAsked]
  /\ fetch = [f \in Fetcher |-> [phase |-> "off", client |-> Free, value |-> NotAsked]]
  /\ lasting = [r \in Repo |-> {}] /\ shrunk = [r \in Repo |-> FALSE]
  /\ changes = 0 /\ faults = 0

(* The repositories.                                                        *)

Changed ==
  /\ changes < MaxChanges
  /\ changes' = changes + 1
  /\ UNCHANGED <<branchVars, fileVars, clientVars, sessionVars, main, fetch, faults>>

PushFile(r, b, c) ==
  /\ <<r, b>> \in File /\ b \in exists[r] /\ c # content[<<r, b>>]
  /\ content' = [content EXCEPT ![<<r, b>>] = c]
  /\ Changed
  /\ UNCHANGED <<exists, historyVars>>

CreateBranch(r, b, c) ==
  /\ r \in GitRepo /\ b \notin exists[r]
  /\ exists' = [exists EXCEPT ![r] = @ \cup {b}]
  /\ content' = [k \in File |-> IF k = <<r, b>> THEN c ELSE content[k]]
  /\ Changed
  /\ UNCHANGED historyVars

DeleteBranch(r, b) ==
  /\ r \in GitRepo /\ b \in exists[r] \ {DefaultBranch}
  /\ exists' = [exists EXCEPT ![r] = @ \ {b}]
  /\ lasting' = [lasting EXCEPT ![r] = @ \ {b}]
  /\ content' = [k \in File |-> IF k = <<r, b>> THEN NoFile ELSE content[k]]
  /\ shrunk' = [shrunk EXCEPT ![r] = TRUE]
  /\ Changed

-----------------------------------------------------------------------------
(* The coroutine of a test.                                                 *)

Goto(t, phase) == main' = [main EXCEPT ![t].phase = phase]

\* The loop of hash_taskcluster_ymls, and that of the policies check, goes on.
NextProject(t) ==
  main' = [main EXCEPT ![t].phase = "next", ![t].at = @ + 1]

At(t) == Projects[main[t].at]
Own(t) == {f \in Fetcher : f.test = t}

\* asyncio.ensure_future for every branch of the list that is configured.
Spawn(t, r, list) ==
  fetch' = [f \in Fetcher |->
              IF /\ f.test = t /\ f.file[1] = r /\ fetch[f].phase = "off"
                 /\ f.copy <= list[f.file[2]]
              THEN [fetch[f] EXCEPT !.phase = "lock"] ELSE fetch[f]]

OnlyDefault == [b \in Branch |-> IF b = DefaultBranch THEN 1 ELSE 0]

\* The coroutine of test t ends; if pytest still waits for it, the next begins.
TestEnds(t, passed) ==
  /\ test' = IF t = test THEN t + 1 ELSE test
  /\ generated' = (generated \/ (passed /\ Tests[t] = "generate" /\ t = test))
  /\ UNCHANGED abandoned

\* inner(): what was generated before is not generated again.
StartTest(t) ==
  /\ t = test /\ main[t].phase = "off"
  /\ IF Tests[t] = "generate" /\ generated
     THEN Goto(t, "done") /\ TestEnds(t, TRUE)
     ELSE Goto(t, "next") /\ UNCHANGED sessionVars
  /\ UNCHANGED <<repoVars, branchVars, fileVars, clientVars, historyVars, fetch, faults>>

\* get_project_branches of an hg project is no request.
ListHg(t) ==
  /\ Tests[t] = "generate" /\ main[t].phase = "next" /\ main[t].at \in DOMAIN Projects
  /\ At(t) \in HgRepo
  /\ Spawn(t, At(t), OnlyDefault)
  /\ NextProject(t)
  /\ UNCHANGED <<repoVars, branchVars, fileVars, clientVars, sessionVars,
                 historyVars, faults>>

\* branches.get of a git project, up to the lock.
AskBranches(t) ==
  /\ Tests[t] = "generate" /\ main[t].phase = "next" /\ main[t].at \in DOMAIN Projects
  /\ At(t) \in GitRepo
  /\ Goto(t, "lock")
  /\ listed' = [listed EXCEPT ![<<t, At(t)>>] = Asked]
  /\ UNCHANGED <<repoVars, branchCache, branchLock, fileVars, clientVars,
                 sessionVars, historyVars, fetch, faults>>

GiveListing(t, list) ==
  /\ listed' = [listed EXCEPT ![<<t, At(t)>>] = list]
  /\ Spawn(t, At(t), list)
  /\ NextProject(t)

BranchesCached(t) ==
  /\ main[t].phase = "lock"
  /\ branchLock[At(t)] = Free
  /\ branchCache[At(t)] # Unread
  /\ GiveListing(t, branchCache[At(t)])
  /\ UNCHANGED <<repoVars, branchCache, branchLock, fileVars, clientVars,
                 sessionVars, historyVars, faults>>

LockBranches(t) ==
  /\ main[t].phase = "lock"
  /\ branchLock[At(t)] = Free
  /\ branchCache[At(t)] = Unread
  /\ branchLock' = [branchLock EXCEPT ![At(t)] = t]
  /\ Goto(t, "client")
  /\ UNCHANGED <<repoVars, branchCache, listed, fileVars, clientVars, sessionVars,
                 historyVars, fetch, faults>>

\* Mutant: the client lock is not taken.
GetUnlocked(c) ==
  /\ IF client = Free
     THEN /\ created' = created + 1 /\ open' = open \cup {created + 1}
          /\ client' = created + 1
     ELSE UNCHANGED <<created, open, client>>
  /\ c = client'
  /\ UNCHANGED closing

\* get_client: nothing happens between the lock's release and the return.
GetClient(c) ==
  /\ closing = Free
  /\ IF client = Free
     THEN /\ created' = created + 1 /\ open' = open \cup {created + 1}
          /\ client' = created + 1
     ELSE UNCHANGED <<created, open, client>>
  /\ c = client'
  /\ UNCHANGED closing

RequestBranches(t) ==
  /\ main[t].phase = "client"
  /\ \E c \in {client, created + 1} :
       /\ GetClient(c)
       /\ main' = [main EXCEPT ![t].phase = "page", ![t].page = 1,
                               ![t].list = EmptyListing, ![t].client = c]
  /\ lasting' = [lasting EXCEPT ![At(t)] = exists[At(t)]]
  /\ shrunk' = [shrunk EXCEPT ![At(t)] = FALSE]
  /\ UNCHANGED <<repoVars, branchVars, fileVars, sessionVars, fetch, faults>>

\* Mutant: pages are kept as they come.
KeepEachPage(t) ==
  LET r == At(t)
      p == main[t].page
      list == Extend(main[t].list, Page(exists[r], p))
  IN /\ main[t].phase = "page" /\ main[t].client \in open
     /\ branchCache' = [branchCache EXCEPT ![r] = list]
     /\ IF HasNext(exists[r], p)
        THEN /\ main' = [main EXCEPT ![t].page = p + 1, ![t].list = list]
             /\ UNCHANGED <<branchLock, listed, fetch>>
        ELSE /\ branchLock' = [branchLock EXCEPT ![r] = Free]
             /\ GiveListing(t, list)
     /\ UNCHANGED <<repoVars, fileVars, clientVars, sessionVars, historyVars, faults>>

\* One page is answered. The last one ends the listing, which is then kept.
AnswerPage(t) ==
  LET r == At(t)
      p == main[t].page
      list == Extend(main[t].list, Page(exists[r], p))
  IN /\ main[t].phase = "page" /\ main[t].client \in open
     /\ IF HasNext(exists[r], p)
        THEN /\ main' = [main EXCEPT ![t].page = p + 1, ![t].list = list]
             /\ UNCHANGED <<branchVars, fetch>>
        ELSE /\ branchCache' = [branchCache EXCEPT ![r] = list]
             /\ branchLock' = [branchLock EXCEPT ![r] = Free]
             /\ GiveListing(t, list)
     /\ UNCHANGED <<repoVars, fileVars, clientVars, sessionVars, historyVars, faults>>

\* A request on an open client fails for a reason outside the code; on a
\* closed one it always does.
RequestFails(usable) ==
  /\ usable => faults < MaxFaults
  /\ faults' = IF usable THEN faults + 1 ELSE faults

PageFails(t) ==
  /\ main[t].phase = "page"
  /\ RequestFails(main[t].client \in open)
  /\ branchLock' = [branchLock EXCEPT ![At(t)] = Free]
  /\ listed' = [listed EXCEPT ![<<t, At(t)>>] = Raised]
  /\ Goto(t, "raised")
  /\ TestEnds(t, FALSE)
  /\ UNCHANGED <<repoVars, branchCache, fileVars, clientVars, historyVars, fetch>>

\* Mutant: the client is closed before the files are read.
CloseAtOnce(t) ==
  /\ Tests[t] = "generate" /\ main[t].phase = "next"
  /\ main[t].at \notin DOMAIN Projects
  /\ Goto(t, "close")
  /\ UNCHANGED <<repoVars, branchVars, fileVars, clientVars, sessionVars,
                 historyVars, fetch, faults>>

\* asyncio.gather returns once every file is read.
Gathered(t) ==
  /\ Tests[t] = "generate" /\ main[t].phase = "next"
  /\ main[t].at \notin DOMAIN Projects
  /\ \A f \in Own(t) : fetch[f].phase \in {"off", "done"}
  /\ Goto(t, "close")
  /\ UNCHANGED <<repoVars, branchVars, fileVars, clientVars, sessionVars,
                 historyVars, fetch, faults>>

\* gather raises with the first file that cannot be read; other reads go on and
\* the client stays open.
GatherRaises(t) ==
  /\ Tests[t] = "generate" /\ main[t].phase = "next"
  /\ main[t].at \notin DOMAIN Projects
  /\ \E f \in Own(t) : fetch[f].phase = "raised"
  /\ Goto(t, "raised")
  /\ TestEnds(t, FALSE)
  /\ UNCHANGED <<repoVars, branchVars, fileVars, clientVars, historyVars, fetch, faults>>

\* The policies check reads one git project after the other.
AskPolicy(t) ==
  /\ Tests[t] = "policies" /\ main[t].phase = "next" /\ main[t].at \in DOMAIN Projects
  /\ IF At(t) \in HgRepo
     THEN NextProject(t) /\ UNCHANGED fetch
     ELSE /\ fetch' = [fetch EXCEPT
               ![[test |-> t, file |-> <<At(t), DefaultBranch>>, copy |-> 1]].phase = "lock"]
          /\ Goto(t, "await")
  /\ UNCHANGED <<repoVars, branchVars, fileVars, clientVars, sessionVars,
                 historyVars, faults>>

PolicyRead(t) ==
  /\ main[t].phase = "await"
  /\ LET f == [test |-> t, file |-> <<At(t), DefaultBranch>>, copy |-> 1]
     IN \/ /\ fetch[f].phase = "done"
           /\ Goto(t, "close")
           /\ UNCHANGED sessionVars
        \/ /\ fetch[f].phase = "raised"
           /\ Goto(t, "raised")
           /\ TestEnds(t, FALSE)
  /\ UNCHANGED <<repoVars, branchVars, fileVars, clientVars, historyVars, fetch, faults>>

PoliciesRead(t) ==
  /\ Tests[t] = "policies" /\ main[t].phase = "next"
  /\ main[t].at \notin DOMAIN Projects
  /\ Goto(t, "done")
  /\ TestEnds(t, TRUE)
  /\ UNCHANGED <<repoVars, branchVars, fileVars, clientVars, historyVars, fetch, faults>>

\* After close_client: in-tree actions are generated, or the next policy is read.
AfterClose(t) ==
  IF Tests[t] = "generate"
  THEN Goto(t, "done") /\ TestEnds(t, TRUE)
  ELSE NextProject(t) /\ UNCHANGED sessionVars

NothingToClose(t) ==
  /\ main[t].phase = "close" /\ closing = Free /\ client = Free
  /\ AfterClose(t)
  /\ UNCHANGED <<repoVars, branchVars, fileVars, clientVars, historyVars, fetch, faults>>

StartClose(t) ==
  /\ main[t].phase = "close" /\ closing = Free /\ client # Free
  /\ closing' = t
  /\ open' = open \ {client}
  /\ Goto(t, "closing")
  /\ UNCHANGED <<repoVars, branchVars, fileVars, client, created, sessionVars,
                 historyVars, fetch, faults>>

ClientClosed(t) ==
  /\ main[t].phase = "closing"
  /\ client' = Free /\ closing' = Free
  /\ AfterClose(t)
  /\ UNCHANGED <<repoVars, branchVars, fileVars, open, created, historyVars,
                 fetch, faults>>

\* Another generator raises: conftest's gather, and so the test, ends while
\* in-tree actions go on.
Abandon(t) ==
  /\ t = test /\ Tests[t] = "generate"
  /\ main[t].phase \notin {"off", "done", "raised"}
  /\ faults < MaxFaults /\ faults' = faults + 1
  /\ abandoned' = abandoned \cup {t}
  /\ test' = t + 1
  /\ UNCHANGED <<repoVars, branchVars, fileVars, clientVars, generated,
                 historyVars, main, fetch>>

-----------------------------------------------------------------------------
(* tcyml.get.                                                               *)

SetFetch(f, phase) == fetch' = [fetch EXCEPT ![f].phase = phase]

FileCached(f) ==
  /\ fetch[f].phase = "lock"
  /\ fileLock[f.file] = Free
  /\ fileCache[f.file] # Unread
  /\ fetch' = [fetch EXCEPT ![f].phase = "done", ![f].value = fileCache[f.file]]
  /\ UNCHANGED <<repoVars, branchVars, fileVars, clientVars, sessionVars,
                 historyVars, main, faults>>

\* Mutant: the lock of another reader is not waited for.
LockAnyway(f) ==
  /\ fetch[f].phase = "lock"
  /\ fileCache[f.file] = Unread
  /\ fileLock' = [fileLock EXCEPT ![f.file] = f.test]
  /\ SetFetch(f, "client")
  /\ UNCHANGED <<repoVars, branchVars, fileCache, clientVars, sessionVars,
                 historyVars, main, faults>>

LockFile(f) ==
  /\ fetch[f].phase = "lock"
  /\ fileLock[f.file] = Free
  /\ fileCache[f.file] = Unread
  /\ fileLock' = [fileLock EXCEPT ![f.file] = f.test]
  /\ SetFetch(f, "client")
  /\ UNCHANGED <<repoVars, branchVars, fileCache, clientVars, sessionVars,
                 historyVars, main, faults>>

\* hg files are requested in the aiohttp session of the test that runs.
RequestHgFile(f) ==
  /\ fetch[f].phase = "client" /\ f.file[1] \in HgRepo
  /\ fetch' = [fetch EXCEPT ![f].phase = "request", ![f].client = test]
  /\ UNCHANGED <<repoVars, branchVars, fileVars, clientVars, sessionVars,
                 historyVars, main, faults>>

RequestFile(f) ==
  /\ fetch[f].phase = "client" /\ f.file[1] \in GitRepo
  /\ \E c \in {client, created + 1} :
       /\ GetClient(c)
       /\ fetch' = [fetch EXCEPT ![f].phase = "request", ![f].client = c]
  /\ UNCHANGED <<repoVars, branchVars, fileVars, sessionVars, historyVars, main, faults>>

Usable(f) ==
  IF f.file[1] \in HgRepo THEN fetch[f].client = test ELSE fetch[f].client \in open

AnswerFile(f) ==
  /\ fetch[f].phase = "request" /\ Usable(f) /\ content[f.file] # NoFile
  /\ fileCache' = [fileCache EXCEPT ![f.file] = content[f.file]]
  /\ fileLock' = [fileLock EXCEPT ![f.file] = Free]
  /\ fetch' = [fetch EXCEPT ![f].phase = "done", ![f].value = content[f.file]]
  /\ UNCHANGED <<repoVars, branchVars, clientVars, sessionVars, historyVars, main, faults>>

\* Mutant: the lock stays with a reader whose request fails.
RaiseLocked(f) ==
  /\ fetch' = [fetch EXCEPT ![f].phase = "raised", ![f].value = Raised]
  /\ UNCHANGED <<repoVars, branchVars, fileVars, clientVars, sessionVars,
                 historyVars, main>>

\* The exception leaves `async with`, which frees the lock.
RaiseIn(f) ==
  /\ fileLock' = [fileLock EXCEPT ![f.file] = Free]
  /\ fetch' = [fetch EXCEPT ![f].phase = "raised", ![f].value = Raised]
  /\ UNCHANGED <<repoVars, branchVars, fileCache, clientVars, sessionVars,
                 historyVars, main>>

\* Mutant: the status of the response is not looked at, and the body of a 404 is
\* kept as the file.
AnswerNoFile(f) ==
  /\ fetch[f].phase = "request" /\ Usable(f) /\ content[f.file] = NoFile
  /\ fileCache' = [fileCache EXCEPT ![f.file] = NoFile]
  /\ fileLock' = [fileLock EXCEPT ![f.file] = Free]
  /\ fetch' = [fetch EXCEPT ![f].phase = "done", ![f].value = NoFile]
  /\ UNCHANGED <<repoVars, branchVars, clientVars, sessionVars, historyVars, main, faults>>

\* 404; for an hg file, after the attempts of RetryClient.
AnswerMissing(f) ==
  /\ fetch[f].phase = "request" /\ Usable(f) /\ content[f.file] = NoFile
  /\ RaiseIn(f)
  /\ UNCHANGED faults

FetchFails(f) ==
  /\ fetch[f].phase = "request"
  /\ RequestFails(Usable(f))
  /\ RaiseIn(f)

-----------------------------------------------------------------------------
(* The event loop is closed after the last test.                            *)
Running == test \in TestId

MainStep(t) == Running /\
  \/ StartTest(t) \/ ListHg(t) \/ AskBranches(t) \/ BranchesCached(t)
  \/ LockBranches(t) \/ RequestBranches(t) \/ AnswerPage(t) \/ PageFails(t)
  \/ Gathered(t) \/ GatherRaises(t) \/ AskPolicy(t) \/ PolicyRead(t)
  \/ PoliciesRead(t) \/ NothingToClose(t) \/ StartClose(t) \/ ClientClosed(t)

FetchStep(f) == Running /\
  \/ FileCached(f) \/ LockFile(f) \/ RequestHgFile(f) \/ RequestFile(f)
  \/ AnswerFile(f) \/ AnswerMissing(f) \/ FetchFails(f)

Next ==
  \/ \E r \in Repo, b \in Branch, c \in Content \cup {NoFile} :
       CreateBranch(r, b, c) \/ PushFile(r, b, c)
  \/ \E r \in Repo, b \in Branch : DeleteBranch(r, b)
  \/ \E t \in TestId : MainStep(t) \/ Abandon(t)
  \/ \E f \in Fetcher : FetchStep(f)

Spec == Init /\ [][Next]_vars

\* The event loop runs every coroutine that can go on, and a request ends: the
\* sessions have timeouts.
FairSpec ==
  /\ Spec
  /\ \A t \in TestId : WF_vars(MainStep(t))
  /\ \A f \in Fetcher : WF_vars(FetchStep(f))

-----------------------------------------------------------------------------
MainRecord ==
  [phase : {"off", "next", "lock", "client", "page", "await", "close", "closing",
            "done", "raised"},
   at : Nat \ {0}, page : Nat \ {0}, list : Listing, client : Nat]

FetchRecord ==
  [phase : {"off", "lock", "client", "request", "done", "raised"},
   client : Nat, value : Content \cup {NotAsked, Raised}]

TypeOK ==
  /\ exists \in [Repo -> SUBSET Branch]
  /\ content \in [File -> Content \cup {NoFile}]
  /\ branchCache \in [Repo -> Listing \cup {Unread}]
  /\ branchLock \in [Repo -> {Free} \cup TestId]
  /\ fileCache \in [File -> Content \cup {Unread}]
  /\ fileLock \in [File -> {Free} \cup TestId]
  /\ client \in Nat /\ open \subseteq 1 .. created /\ created \in Nat
  /\ closing \in {Free} \cup TestId
  /\ test \in 1 .. Len(Tests) + 1
  /\ generated \in BOOLEAN /\ abandoned \subseteq TestId
  /\ main \in [TestId -> MainRecord]
  /\ listed \in [Lister -> Listing \cup {NotAsked, Asked, Raised}]
  /\ fetch \in [Fetcher -> FetchRecord]
  /\ lasting \in [Repo -> SUBSET Branch] /\ shrunk \in [Repo -> BOOLEAN]
  /\ changes \in 0 .. MaxChanges /\ faults \in 0 .. MaxFaults

\* The listing of a repository has every branch that was there from the first
\* page to the last, unless a branch was deleted in between: then the pages
\* after it shift, and branches.get skips one that exists throughout.
ListingComplete ==
  \A r \in Repo : branchCache[r] # Unread /\ ~shrunk[r] =>
    \A b \in lasting[r] : branchCache[r][b] > 0

\* A test never has a request cut off by a client or a session that is closed
\* under it, not even when coroutines of failed tests run beside it: only the
\* in-tree actions of a test that another generator ended close the client of a
\* later one.
NotCutOff ==
  \A f \in Fetcher :
    f.test = test /\ fetch[f].phase = "request" /\ ~Usable(f) =>
      \E t \in abandoned : main[t].phase \in {"closing", "done"}

\* No coroutine, a stray one included, sends a request on a client that is
\* closed or being closed (get_client waits for close_client); and when all tests
\* of a session have passed, every client that was ever created is closed.
RequestsOnOpenClient ==
  [][/\ \A f \in Fetcher :
          f.file[1] \in GitRepo /\ fetch[f].phase # "request" /\ fetch'[f].phase = "request"
          => fetch'[f].client \in open'
     /\ \A t \in TestId :
          main[t].phase # "page" /\ main'[t].phase = "page" => main'[t].client \in open']_vars
NoClientLeft ==
  (\A t \in TestId : main[t].phase = "done") /\ abandoned = {} => open = {}
\* The shared client lives from its first use to the end of the tests.
ClientLifecycle == RequestsOnOpenClient /\ []NoClientLeft

\* Every test ends, whatever requests fail and whoever holds a lock or a client.
SessionEnds == <>(~Running)

Read(v) == IF v = NotAsked THEN Asked ELSE v

\* Both caches keep the promise of ReadOnce to all coroutines of a session:
\* whatever fails, each key is read at most once with success, and everyone who
\* asks for it gets what was read.
Files == INSTANCE ReadOnce WITH
  Key <- File, Reader <- Fetcher, KeyOf <- [f \in Fetcher |-> f.file],
  Value <- Content, memo <- fileCache,
  answer <- [f \in Fetcher |-> IF fetch[f].phase = "off" THEN NotAsked
                                                          ELSE Read(fetch[f].value)]

Branches == INSTANCE ReadOnce WITH
  Key <- Repo, Reader <- Lister, KeyOf <- [l \in Lister |-> l[2]],
  Value <- Listing, memo <- branchCache, answer <- listed

\* The cache of files (tcyml.py), that of branches (branches.py), and both.
FilesReadOnce    == Files!Spec
BranchesReadOnce == Branches!Spec
CachesReadOnce   == FilesReadOnce /\ BranchesReadOnce
=============================================================================
