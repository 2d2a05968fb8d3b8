--------------------------- MODULE MCInTreeActions ---------------------------
(* Small instances of InTreeActions.                                        *)
EXTENDS InTreeActions

CONSTANT c1

\* Trust domain gecko with a level 3 and a level 1 branch, mobile with a branch
\* that has no level; actions of gecko at both levels and one of mobile.
ThreeLevels    == [main |-> 3, try |-> 1, stray |-> NoLevel]
TwoDomains     == [main |-> "gecko", try |-> "gecko", stray |-> "mobile"]
LeveledActions == {[domain |-> "gecko", level |-> l, perm |-> "generic"] : l \in {1, 3}}
                    \cup {[domain |-> "mobile", level |-> 3, perm |-> "generic"]}

\* One level 1 branch and action.
TryLevel     == [try |-> 1]
TryDomain    == [try |-> "gecko"]
Level1Action == {[domain |-> "gecko", level |-> 1, perm |-> "generic"]}
=============================================================================
