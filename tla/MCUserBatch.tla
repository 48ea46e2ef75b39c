---------------------------- MODULE MCUserBatch ----------------------------
(***************************************************************************)
(* TLC instance of UserBatch: alice watches the shared source, bob the     *)
(* shared source and two rows that are not spelled canonically, of a       *)
(* Telegram channel and of a Twitter account.  The shared source carries a *)
(* post twice, a repost of it and a later post, and a buffer holds two     *)
(* copies: a third pushes the first one out.                               *)
(***************************************************************************)
EXTENDS UserBatch

CONSTANTS alice, bob, shared, mixed, Mixed, acme, AtAcme,
          original, repost, later, news, tweet

TwoUsers == {alice, bob}
ThreeSources == {shared, mixed, acme}
ThreeRows == {shared, Mixed, AtAcme}
CanonOf == [c \in Channels |-> IF c = Mixed THEN mixed ELSE IF c = AtAcme THEN acme ELSE c]
OfTelegram == {shared, Mixed}
FivePosts == {original, repost, later, news, tweet}
OnePost == {original}
Watching == [u \in Users |-> IF u = bob THEN Channels ELSE {shared}]
Origin ==
  [p \in Posts |-> CASE p = news -> mixed [] p = tweet -> acme [] OTHER -> shared]
Wording == [p \in Posts |-> IF p \in {later, news, tweet} THEN p ELSE "story"]
Copies == [p \in Posts |-> IF p = original THEN 2 ELSE 1]
OneCopy == [p \in Posts |-> 1]
=============================================================================
