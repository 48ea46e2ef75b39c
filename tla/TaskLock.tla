------------------------------ MODULE TaskLock ------------------------------
(***************************************************************************)
(* The Redis lock that gives a Celery task max_instances = 1: the per-user *)
(* batch lock (pipeline/locks.py, pipeline/tasks.py) and the global        *)
(* collect-tick lock (collector/locks.py, collector/tasks.py).  Both run   *)
(* the same protocol on one key:                                           *)
(*                                                                         *)
(*   SET key token NX EX ttl -> body -> WATCH; GET; MULTI; DEL; EXEC       *)
(*                                                                         *)
(* so one module stands for one key of either; the two differ only in the  *)
(* ordering of TTL, SoftLimit and HardLimit.  Time is discrete: a lock     *)
(* carries the seconds it has left, a task the seconds it has run.         *)
(***************************************************************************)
EXTENDS Naturals

CONSTANTS
  Workers,    \* the worker processes that may run the task
  Tokens,     \* uuid4 values; one that nobody holds is always left
  NoToken,    \* the key does not exist
  TTL,        \* batch_lock_ttl_seconds, collect_lock_ttl_seconds
  SoftLimit,  \* the task's soft_time_limit
  HardLimit   \* the task's time_limit

ASSUME LockParameters ==
  /\ NoToken \notin Tokens
  /\ TTL \in Nat \ {0}
  /\ HardLimit \in Nat \ {0}
  /\ SoftLimit \in 1..HardLimit

VARIABLES
  holder,   \* the value of the key, NoToken when it does not exist
  ttl,      \* seconds the key has left; 0 on an existing key: it never expires
  pc,       \* where each worker is
  token,    \* the token of each worker's current acquisition
  elapsed,  \* seconds since the worker's task started
  got,     \* the value the release callback read
  dirty     \* the key changed since this worker's WATCH

lockVars == <<holder, ttl, pc, token, elapsed, got, dirty>>

Places == {"idle", "starting", "body", "unlock", "exec"}

LockTypeOK ==
  /\ holder \in Tokens \cup {NoToken}
  /\ ttl \in 0..TTL
  /\ pc \in [Workers -> Places]
  /\ token \in [Workers -> Tokens \cup {NoToken}]
  /\ elapsed \in [Workers -> 0..HardLimit]
  /\ got \in [Workers -> Tokens \cup {NoToken}]
  /\ dirty \in [Workers -> BOOLEAN]

LockInit ==
  /\ holder = NoToken
  /\ ttl = 0
  /\ pc = [w \in Workers |-> "idle"]
  /\ token = [w \in Workers |-> NoToken]
  /\ elapsed = [w \in Workers |-> 0]
  /\ got = [w \in Workers |-> NoToken]
  /\ dirty = [w \in Workers |-> FALSE]

-----------------------------------------------------------------------------
\* Redis: a write to the key aborts every transaction that watches it.
WriteKey(value, left) ==
  /\ holder' = value
  /\ ttl' = left
  /\ dirty' = [w \in Workers |-> TRUE]

\* The process forgets its task: it returned, raised, or died.
Forget(w) ==
  /\ pc' = [pc EXCEPT ![w] = "idle"]
  /\ token' = [token EXCEPT ![w] = NoToken]
  /\ elapsed' = [elapsed EXCEPT ![w] = 0]
  /\ got' = [got EXCEPT ![w] = NoToken]

\* The beat enqueues the task again, or the broker redelivers it (acks_late).
Start(w) ==
  /\ pc[w] = "idle"
  /\ pc' = [pc EXCEPT ![w] = "starting"]
  /\ UNCHANGED <<holder, ttl, token, elapsed, got, dirty>>

\* uuid4: nobody holds the new token and the key does not carry it.
FreshToken(t) ==
  /\ t # holder
  /\ \A w \in Workers : t # token[w]

\* A plausible bug: SET without NX.
AcquireWithoutNX(w) ==
  /\ pc[w] = "starting"
  /\ \E t \in Tokens :
       /\ FreshToken(t)
       /\ WriteKey(t, TTL)
       /\ token' = [token EXCEPT ![w] = t]
  /\ pc' = [pc EXCEPT ![w] = "body"]
  /\ UNCHANGED <<elapsed, got>>

\* A plausible bug: SETNX without a time-to-live.
AcquireWithoutExpiry(w) ==
  /\ pc[w] = "starting"
  /\ holder = NoToken
  /\ \E t \in Tokens :
       /\ FreshToken(t)
       /\ WriteKey(t, 0)
       /\ token' = [token EXCEPT ![w] = t]
  /\ pc' = [pc EXCEPT ![w] = "body"]
  /\ UNCHANGED <<elapsed, got>>

\* SET key token NX EX ttl finds no key: one atomic write of value and expiry.
Acquire(w) ==
  /\ pc[w] = "starting"
  /\ holder = NoToken
  /\ \E t \in Tokens :
       /\ FreshToken(t)
       /\ WriteKey(t, TTL)
       /\ token' = [token EXCEPT ![w] = t]
  /\ pc' = [pc EXCEPT ![w] = "body"]
  /\ UNCHANGED <<elapsed, got>>

\* "skipped: locked" -- the task returns and releases nothing.
SkipLocked(w) ==
  /\ pc[w] = "starting"
  /\ holder # NoToken
  /\ Forget(w)
  /\ UNCHANGED <<holder, ttl, dirty>>

\* The body returns or raises; the finally clause starts the release.
LeaveBody(w) ==
  /\ pc[w] = "body"
  /\ pc' = [pc EXCEPT ![w] = "unlock"]
  /\ UNCHANGED <<holder, ttl, token, elapsed, got, dirty>>

\* SoftTimeLimitExceeded is raised where the worker is.  In the body it unwinds
\* to the finally clause (or a best-effort handler swallows it and the body goes
\* on: no step); in the release it abandons the release itself.
SoftTimeLimit(w) ==
  /\ elapsed[w] = SoftLimit
  /\ \/ /\ pc[w] = "body"
        /\ pc' = [pc EXCEPT ![w] = "unlock"]
        /\ UNCHANGED <<token, elapsed, got>>
     \/ /\ pc[w] \in {"unlock", "exec"}
        /\ Forget(w)
  /\ UNCHANGED <<holder, ttl, dirty>>

\* WATCH key; GET key; MULTI.
ReadForRelease(w) ==
  /\ pc[w] = "unlock"
  /\ got' = [got EXCEPT ![w] = holder]
  /\ dirty' = [dirty EXCEPT ![w] = FALSE]
  /\ pc' = [pc EXCEPT ![w] = "exec"]
  /\ UNCHANGED <<holder, ttl, token, elapsed>>

\* A plausible bug: the key is not watched, and EXEC always succeeds.
ReleaseWithoutWatch(w) ==
  /\ pc[w] = "exec"
  /\ Forget(w)
  /\ \/ got[w] = token[w] /\ WriteKey(NoToken, 0)
     \/ got[w] # token[w] /\ UNCHANGED <<holder, ttl, dirty>>

\* EXEC on an untouched key: DEL was queued only if the value read is our token.
Release(w) ==
  /\ pc[w] = "exec"
  /\ ~dirty[w]
  /\ Forget(w)
  /\ \/ got[w] = token[w] /\ WriteKey(NoToken, 0)
     \/ got[w] # token[w] /\ UNCHANGED <<holder, ttl, dirty>>

\* EXEC on a key that changed since WATCH: WatchError, the callback runs again.
RetryRelease(w) ==
  /\ pc[w] = "exec"
  /\ dirty[w]
  /\ pc' = [pc EXCEPT ![w] = "unlock"]
  /\ UNCHANGED <<holder, ttl, token, elapsed, got, dirty>>

\* The worker process dies (out of memory, deploy) with whatever it holds.
Crash(w) ==
  /\ pc[w] # "idle"
  /\ Forget(w)
  /\ UNCHANGED <<holder, ttl, dirty>>

\* The hard limit: the pool kills the child process.
HardTimeLimit(w) ==
  /\ pc[w] # "idle"
  /\ elapsed[w] = HardLimit
  /\ Forget(w)
  /\ UNCHANGED <<holder, ttl, dirty>>

Expire ==
  IF ttl = 1 THEN WriteKey(NoToken, 0)
  ELSE /\ ttl' = IF ttl = 0 THEN 0 ELSE ttl - 1
       /\ UNCHANGED <<holder, dirty>>

\* One second passes; no task outlives its hard limit.
Tick ==
  /\ \A w \in Workers : pc[w] # "idle" => elapsed[w] < HardLimit
  /\ elapsed' = [w \in Workers |->
                   IF pc[w] = "idle" THEN 0 ELSE elapsed[w] + 1]
  /\ Expire
  /\ UNCHANGED <<pc, token, got>>

LockStep(w) ==
  \/ Start(w) \/ Acquire(w) \/ SkipLocked(w) \/ LeaveBody(w)
  \/ SoftTimeLimit(w) \/ ReadForRelease(w) \/ Release(w)
  \/ RetryRelease(w) \/ Crash(w) \/ HardTimeLimit(w)

LockNext == Tick \/ \E w \in Workers : LockStep(w)

\* Time passes and the pool enforces the hard limit; nothing else is assumed:
\* a body may hang and no release need ever run.
LockFairness == WF_lockVars(Tick) /\ \A w \in Workers : WF_lockVars(HardTimeLimit(w))

LockSpec == LockInit /\ [][LockNext]_lockVars /\ LockFairness

-----------------------------------------------------------------------------
InBody(w) == pc[w] = "body"
LostLock(w) == holder # token[w]

\* A task in its body can find the lock no longer its own only after a full TTL:
\* neither another acquisition nor any release takes it away earlier
\* (locks.py: the token "guarantees ownership").
LeaseLastsTTL ==
  \A w \in Workers : InBody(w) /\ LostLock(w) => elapsed[w] >= TTL

\* Two tasks run the guarded body at once only if one has outlived its lock.
ExclusiveWithinLease ==
  \A v, w \in Workers :
    v # w /\ InBody(v) /\ InBody(w) => elapsed[v] >= TTL \/ elapsed[w] >= TTL

\* max_instances = 1 (collector/tasks.py: "two ticks must not share the pool").
MutualExclusion ==
  \A v, w \in Workers : InBody(v) /\ InBody(w) => v = w

\* A release deletes the releasing task's own lock or nothing: never one that
\* another worker acquired after an expiry, even between GET and EXEC.
NeverDropsForeignLock ==
  [][\A w \in Workers :
       pc[w] = "exec" /\ pc'[w] = "idle" /\ holder' # holder
         => holder = token[w]]_lockVars

\* A crashed, killed or hung task cannot block the key for ever: the key becomes
\* free again and again (locks.py: "a crashed worker cannot deadlock forever").
LockFreedAgain == []<>(holder = NoToken)

\* The lock implements the lease.
L == INSTANCE Lease WITH
       inside <- {w \in Workers : InBody(w)},
       lost   <- {w \in Workers : InBody(w) /\ LostLock(w)}
ImplementsLease == L!LeaseSpec

\* The lock is held as its users rely on: within its time-to-live like a lease,
\* and never taken away by another's release.
HeldLikeALease == ImplementsLease /\ NeverDropsForeignLock
=============================================================================
