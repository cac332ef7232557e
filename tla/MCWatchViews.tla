----------------------------- MODULE MCWatchViews -----------------------------
(***************************************************************************)
(* WatchViews for TLC: three watches of one login, on two pull requests.   *)
(***************************************************************************)
EXTENDS WatchViews, TLC

CONSTANTS pr1, pr2

Numbered == 1..3
Pairs    == {<<"ann", pr1>>, <<"ann", pr2>>}

Symmetry == Permutations({pr1, pr2})
====
