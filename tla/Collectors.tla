----------------------------- MODULE Collectors -----------------------------
(***************************************************************************)
(* The collectors that a Celery child caches between its collect ticks     *)
(* (collector/registry.py): the Telegram pool with its sessions (module    *)
(* PoolSessions), the Twitter reader with its pause (TwitterReads) and the *)
(* Reddit reader with its token (RedditReads); and the QR logins that give *)
(* the pool its sessions (QrLogin).  They share no state: a tick goes      *)
(* through one kind after the other, what it does with one of them, or     *)
(* fails to do, is nothing to the others, and the logins run in the API's  *)
(* process.                                                                *)
(***************************************************************************)
EXTENDS PoolSessions, TwitterReads, RedditReads, QrLogin

VARIABLE kind  \* the part that is followed

vars == <<kind, sessionVars, twitterVars, redditVars, qrVars>>

Kinds == {"telegram", "twitter", "reddit", "qr"}

TypeOK == kind \in Kinds /\ SessionsTypeOK /\ TwitterTypeOK /\ RedditTypeOK /\ QrTypeOK

Init == kind \in Kinds /\ SessionsInit /\ TwitterInit /\ RedditInit /\ QrInit

NotTelegram == UNCHANGED <<kind, twitterVars, redditVars, qrVars>>

Telegram == kind = "telegram" /\ SessionsNext /\ NotTelegram
Twitter ==
  kind = "twitter" /\ TwitterNext /\ UNCHANGED <<kind, sessionVars, redditVars, qrVars>>
Reddit ==
  kind = "reddit" /\ RedditNext /\ UNCHANGED <<kind, sessionVars, twitterVars, qrVars>>
Logging ==
  kind = "qr" /\ QrNext /\ UNCHANGED <<kind, sessionVars, twitterVars, redditVars>>

Next == Telegram \/ Twitter \/ Reddit \/ Logging

\* A child is recycled after max_tasks_per_child tasks of any kind; nothing
\* says which child runs the next collect tick.
Fairness ==
  \A w \in Workers : WF_vars(kind = "telegram" /\ WorkerEnds(w) /\ NotTelegram)

Spec == Init /\ [][Next]_vars /\ Fairness

\* No client is connected that the pool, or the login it is for, does not count.
ClientsAccounted == SessionsWithinBounds /\ LoginsAccounted

\* What a source published before its marker was handed over or given up with
\* cause, whether the marker is a stamp of its own or the tick's.
NothingSkippedSilently == NoTweetSkipped /\ SubmissionsSettled
=============================================================================
