------------------------------ MODULE MCCollect ------------------------------
(***************************************************************************)
(* TLC instance of Collect: two sources of two kinds.                      *)
(***************************************************************************)
EXTENDS Collect

CONSTANTS news, memes, telegram, reddit

TwoSources == {news, memes}
TwoKinds == {telegram, reddit}
OneReddit == [s \in Sources |-> IF s = memes THEN reddit ELSE telegram]
=============================================================================
