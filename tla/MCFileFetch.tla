------------------------------ MODULE MCFileFetch ------------------------------
(* A small instance of FileFetch: a test that reads policies between two that *)
(* generate in-tree actions, over an hg repository and a git one.  *)
EXTENDS FileFetch

CONSTANTS c1

Session    == <<"generate", "policies", "generate">>
GitAndHg   == <<"hg", "git">>

\* Branches 1 and 3 are listed and not read, as if only `*` matched them.
MatchedBranches == [hg |-> {2}, git |-> {2}]
=============================================================================
