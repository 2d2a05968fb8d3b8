------------------------------- MODULE ReadOnce -------------------------------
(***************************************************************************)
(* What the caches of ciadmin promise ("Fetches are cached, so it's safe to *)
(* call this many times"): a key is read at most once with success, all its *)
(* readers are given that one value, a failed read leaves the key for the   *)
(* next reader to try, and once a key has been read no reader of it fails.  *)
(* branches.py, tcyml.py and, with the file system, ciconfig/get.py:        *)
(*   async with _lock[key]: if key in _cache: return _cache[key]; ...       *)
(***************************************************************************)
CONSTANTS Key, Reader, KeyOf, Value, Unread, NotAsked, Asked, Raised

VARIABLES
  memo,    \* the value of each key, or Unread
  answer   \* what each reader was given

vars == <<memo, answer>>

TypeOK ==
  /\ memo \in [Key -> Value \cup {Unread}]
  /\ answer \in [Reader -> Value \cup {NotAsked, Asked, Raised}]

Init ==
  /\ memo = [k \in Key |-> Unread]
  /\ answer = [r \in Reader |-> NotAsked]

\* Several readers may ask at once.
Ask ==
  /\ answer' \in [Reader -> Value \cup {NotAsked, Asked, Raised}]
  /\ \A r \in Reader :
       answer'[r] # answer[r] => answer[r] = NotAsked /\ answer'[r] = Asked
  /\ UNCHANGED memo

\* The reader's own request succeeds, and its value is kept.
Read(r) ==
  /\ answer[r] = Asked
  /\ memo[KeyOf[r]] = Unread
  /\ \E v \in Value : /\ memo' = [memo EXCEPT ![KeyOf[r]] = v]
                      /\ answer' = [answer EXCEPT ![r] = v]

Recall(r) ==
  /\ answer[r] = Asked
  /\ memo[KeyOf[r]] # Unread
  /\ answer' = [answer EXCEPT ![r] = memo[KeyOf[r]]]
  /\ UNCHANGED memo

\* A failed request leaves the key unread, for the next reader to try.
Fail(r) ==
  /\ answer[r] = Asked
  /\ memo[KeyOf[r]] = Unread
  /\ answer' = [answer EXCEPT ![r] = Raised]
  /\ UNCHANGED memo

Serve(r) == Read(r) \/ Recall(r) \/ Fail(r)

Next == Ask \/ \E r \in Reader : Serve(r)

Spec == Init /\ [][Next]_vars
=============================================================================
