---------------------------- MODULE MCCollectors ----------------------------
(***************************************************************************)
(* TLC instance of Collectors: two children; two Telegram accounts, none   *)
(* of them stored, and two polls at once; one Twitter account; one         *)
(* subreddit; two QR logins and two polls of them.                       *)
(***************************************************************************)
EXTENDS Collectors

CONSTANTS w1, w2, q1, q2, h1, r1

TwoAccounts == 1..2
NoneStored == [a \in Accounts |-> 0]
TwoWorkers == {w1, w2}
TwoRequests == {q1, q2}
OneHandle == {h1}
OneRef == {r1}
OneSubreddit == [r \in Refs |-> "s"]
=============================================================================
