---------------------------- MODULE TenantProofs ----------------------------
(***************************************************************************)
(* Proofs about the task lock, the batches of the users, which it keeps    *)
(* apart, and the rows of one tenant that requests, batches and ticks work *)
(* on: for every number of workers, every choice of the limits, and any    *)
(* users, channels, posts and copies of them, any watchlists, packs and    *)
(* requests, any embeddings, any windows, ticks and channels, and any      *)
(* stories before the gate.                                                *)
(***************************************************************************)
EXTENDS TaskLock, UserBatch, Tenant, FiniteSetTheorems, TLAPS

(***************************************************************************)
(* The lock.  The inductive invariant adds to the types: tokens tell tasks *)
(* apart, the key always expires, a lock still owned has at least the rest *)
(* of its TTL left, and an untouched transaction saw the key as it is.     *)
(***************************************************************************)

Holds(w) == token[w] # NoToken

PlacesInv == \A w \in Workers : Holds(w) <=> pc[w] \in {"body", "unlock", "exec"}

TokensDiffer ==
  \A v, w \in Workers : Holds(v) /\ token[v] = token[w] => v = w

KeyExpires == holder # NoToken => ttl > 0

LeaseInv ==
  \A w \in Workers : Holds(w) =>
    \/ holder = token[w] /\ ttl + elapsed[w] >= TTL
    \/ holder # token[w] /\ elapsed[w] >= TTL

WatchInv == \A w \in Workers : pc[w] = "exec" /\ ~dirty[w] => got[w] = holder

LockIInv ==
  LockTypeOK /\ PlacesInv /\ TokensDiffer /\ KeyExpires /\ LeaseInv /\ WatchInv

\* The initial states satisfy the inductive invariant.
LEMMA LockInitIInv == LockInit => LockIInv
  BY LockParameters, SMT
  DEF LockInit, LockIInv, LockTypeOK, Places, PlacesInv, TokensDiffer, KeyExpires,
      LeaseInv, WatchInv, Holds

\* A step that changes nothing keeps it.
LEMMA LockStutterIInv == LockIInv /\ UNCHANGED lockVars => LockIInv'
  BY DEF LockIInv, lockVars, LockTypeOK, PlacesInv, TokensDiffer, KeyExpires, LeaseInv,
         WatchInv, Holds

\* A task that ends and leaves the key alone keeps it.
LEMMA LockForgetIInv ==
  ASSUME LockIInv, NEW w \in Workers, Forget(w), UNCHANGED <<holder, ttl, dirty>>
  PROVE  LockIInv'
  BY LockParameters, SMT
  DEF LockIInv, Forget, LockTypeOK, Places, PlacesInv, TokensDiffer, KeyExpires,
      LeaseInv, WatchInv, Holds

\* A successful SET NX EX keeps it: every earlier holder is already overdue.
LEMMA LockAcquireIInv ==
  ASSUME LockIInv, NEW w \in Workers, Acquire(w)
  PROVE  LockIInv'
  <1>1. PICK t \in Tokens :
          /\ FreshToken(t)
          /\ WriteKey(t, TTL)
          /\ token' = [token EXCEPT ![w] = t]
    BY DEF Acquire
  <1> QED
    BY <1>1, LockParameters, SMTT(30)
    DEF LockIInv, Acquire, FreshToken, WriteKey, LockTypeOK, Places, PlacesInv,
        TokensDiffer, KeyExpires, LeaseInv, WatchInv, Holds

\* A release keeps it: by WatchInv it deletes the task's own lock or nothing.
LEMMA LockReleaseIInv ==
  ASSUME LockIInv, NEW w \in Workers, Release(w)
  PROVE  LockIInv'
  <1>1. CASE got[w] = token[w] /\ WriteKey(NoToken, 0)
    <2>1. holder = token[w] /\ Holds(w)
      BY <1>1 DEF Release, LockIInv, WatchInv, PlacesInv
    <2> QED
      BY <1>1, <2>1, LockParameters, SMTT(30)
      DEF LockIInv, Release, Forget, WriteKey, LockTypeOK, Places, PlacesInv,
          TokensDiffer, KeyExpires, LeaseInv, WatchInv, Holds
  <1>2. CASE UNCHANGED <<holder, ttl, dirty>>
    BY <1>2, LockForgetIInv DEF Release
  <1> QED
    BY <1>1, <1>2 DEF Release

\* A second passing keeps it: a key that expires leaves an overdue task.
LEMMA LockTickIInv ==
  ASSUME LockIInv, Tick
  PROVE  LockIInv'
  <1>1. elapsed' \in [Workers -> 0..HardLimit]
    BY LockParameters, SMT DEF Tick, LockIInv, LockTypeOK
  <1>2. \A w \in Workers : Holds(w) => elapsed'[w] = elapsed[w] + 1
    BY SMT DEF Tick, LockIInv, LockTypeOK, PlacesInv
  <1>3. CASE ttl = 1
    <2>1. holder' = NoToken /\ ttl' = 0 /\ dirty' = [w \in Workers |-> TRUE]
      BY <1>3 DEF Tick, Expire, WriteKey
    <2>2. pc' = pc /\ token' = token /\ got' = got
      BY DEF Tick
    <2>3. LockTypeOK'
      BY <1>1, <2>1, <2>2, LockParameters DEF LockIInv, LockTypeOK
    <2>4. PlacesInv' /\ TokensDiffer' /\ KeyExpires' /\ WatchInv'
      BY <2>1, <2>2
      DEF LockIInv, PlacesInv, TokensDiffer, KeyExpires, WatchInv, Holds
    <2>5. LeaseInv'
      <3> SUFFICES ASSUME NEW w \in Workers, Holds(w)
                   PROVE  elapsed'[w] >= TTL /\ token[w] # NoToken
        BY <2>1, <2>2 DEF LeaseInv, Holds
      <3>1. elapsed'[w] = elapsed[w] + 1 /\ elapsed[w] \in Nat
        BY <1>2, LockParameters, SMT DEF LockIInv, LockTypeOK
      <3> QED
        BY <1>3, <3>1, LockParameters, SMT DEF LockIInv, LeaseInv, Holds
    <2> QED
      BY <2>3, <2>4, <2>5 DEF LockIInv
  <1>4. CASE ttl # 1
    BY <1>1, <1>2, <1>4, LockParameters, SMTT(30)
    DEF LockIInv, Tick, Expire, LockTypeOK, PlacesInv, TokensDiffer,
        KeyExpires, LeaseInv, WatchInv, Holds
  <1> QED
    BY <1>3, <1>4

\* Every step keeps the inductive invariant.
LEMMA LockNextIInv == LockIInv /\ [LockNext]_lockVars => LockIInv'
  <1> SUFFICES ASSUME LockIInv, [LockNext]_lockVars PROVE LockIInv'
    OBVIOUS
  <1>1. CASE Tick
    BY <1>1, LockTickIInv
  <1>2. ASSUME NEW w \in Workers, LockStep(w) PROVE LockIInv'
    <2>1. CASE Start(w)
      BY <2>1, LockParameters, SMT
      DEF LockIInv, Start, LockTypeOK, Places, PlacesInv, TokensDiffer, KeyExpires,
          LeaseInv, WatchInv, Holds
    <2>2. CASE Acquire(w)
      BY <2>2, LockAcquireIInv
    <2>3. CASE SkipLocked(w) \/ Crash(w) \/ HardTimeLimit(w)
      BY <2>3, LockForgetIInv DEF SkipLocked, Crash, HardTimeLimit
    <2>4. CASE LeaveBody(w)
      BY <2>4, LockParameters, SMT
      DEF LockIInv, LeaveBody, LockTypeOK, Places, PlacesInv, TokensDiffer,
          KeyExpires, LeaseInv, WatchInv, Holds
    <2>5. CASE SoftTimeLimit(w)
      <3>1. CASE Forget(w)
        BY <2>5, <3>1, LockForgetIInv DEF SoftTimeLimit
      <3>2. CASE pc[w] = "body" /\ pc' = [pc EXCEPT ![w] = "unlock"]
                 /\ UNCHANGED <<token, elapsed, got>>
        BY <2>5, <3>2, LockParameters, SMT
        DEF LockIInv, SoftTimeLimit, LockTypeOK, Places, PlacesInv, TokensDiffer,
            KeyExpires, LeaseInv, WatchInv, Holds
      <3> QED
        BY <2>5, <3>1, <3>2 DEF SoftTimeLimit
    <2>6. CASE ReadForRelease(w)
      BY <2>6, LockParameters, SMT
      DEF LockIInv, ReadForRelease, LockTypeOK, Places, PlacesInv, TokensDiffer,
          KeyExpires, LeaseInv, WatchInv, Holds
    <2>7. CASE Release(w)
      BY <2>7, LockReleaseIInv
    <2>8. CASE RetryRelease(w)
      BY <2>8, LockParameters, SMT
      DEF LockIInv, RetryRelease, LockTypeOK, Places, PlacesInv, TokensDiffer,
          KeyExpires, LeaseInv, WatchInv, Holds
    <2> QED
      BY <1>2, <2>1, <2>2, <2>3, <2>4, <2>5, <2>6, <2>7, <2>8 DEF LockStep
  <1>3. CASE UNCHANGED lockVars
    BY <1>3, LockStutterIInv
  <1> QED
    BY <1>1, <1>2, <1>3 DEF LockNext

\* The inductive invariant holds in every reachable state.
THEOREM LockInvariance == LockSpec => []LockIInv
  BY LockInitIInv, LockNextIInv, PTL DEF LockSpec

-----------------------------------------------------------------------------
\* Type correctness of the lock protocol.
THEOREM LockTypeCorrect == LockSpec => []LockTypeOK
  <1>1. LockIInv => LockTypeOK
    BY DEF LockIInv
  <1> QED
    BY LockInvariance, <1>1, PTL

\* Only the end of a full TTL takes the lock from a task in its body.
THEOREM LeaseLasts == LockSpec => []LeaseLastsTTL
  <1>1. LockIInv => LeaseLastsTTL
    BY DEF LockIInv, PlacesInv, LeaseInv, LeaseLastsTTL, InBody, LostLock
  <1> QED
    BY LockInvariance, <1>1, PTL

\* Two tasks share the guarded body only if one has outlived its lock.
THEOREM Exclusion == LockSpec => []ExclusiveWithinLease
  <1>1. LockIInv => ExclusiveWithinLease
    BY DEF LockIInv, PlacesInv, TokensDiffer, LeaseInv, ExclusiveWithinLease, InBody
  <1> QED
    BY LockInvariance, <1>1, PTL

\* The per-user batch, whose hard limit is below the TTL, runs once at a time.
THEOREM BatchExclusion ==
  ASSUME HardLimit < TTL
  PROVE  LockSpec => []MutualExclusion
  <1>1. LockIInv => MutualExclusion
    <2> SUFFICES ASSUME LockIInv, NEW v \in Workers, NEW w \in Workers,
                        InBody(v), InBody(w), v # w
                 PROVE  FALSE
      BY DEF MutualExclusion
    <2>1. elapsed[v] < TTL /\ elapsed[w] < TTL
      BY LockParameters, SMT DEF LockIInv, LockTypeOK
    <2>2. holder = token[v] /\ holder = token[w]
      BY <2>1, LockParameters, SMT DEF LockIInv, LockTypeOK, PlacesInv, LeaseInv, InBody
    <2> QED
      BY <2>2 DEF LockIInv, PlacesInv, TokensDiffer, InBody
  <1> QED
    BY LockInvariance, <1>1, PTL

\* A release never deletes a lock that another worker holds.
THEOREM OwnReleasesOnly == LockSpec => NeverDropsForeignLock
  <1> DEFINE OwnDrop == \A w \in Workers :
        pc[w] = "exec" /\ pc'[w] = "idle" /\ holder' # holder
          => holder = token[w]
  <1>1. LockIInv /\ [LockNext]_lockVars => [OwnDrop]_lockVars
    <2> SUFFICES ASSUME LockIInv, LockNext, NEW w \in Workers, pc[w] = "exec",
                        pc'[w] = "idle", holder' # holder
                 PROVE  holder = token[w]
      BY DEF OwnDrop
    <2>1. ~Tick
      BY DEF Tick
    <2>2. PICK v \in Workers : LockStep(v)
      BY <2>1 DEF LockNext
    <2>3. Acquire(v) \/ Release(v)
      BY <2>2 DEF LockStep, Start, SkipLocked, LeaveBody, SoftTimeLimit,
                  ReadForRelease, RetryRelease, Crash, HardTimeLimit
    <2>4. v = w
      BY <2>3 DEF Acquire, Release, Forget, LockIInv, LockTypeOK
    <2> QED
      BY <2>3, <2>4 DEF Acquire, Release, LockIInv, WatchInv
  <1> QED
    BY LockInvariance, <1>1, PTL DEF LockSpec, NeverDropsForeignLock

-----------------------------------------------------------------------------
Inside == {w \in Workers : InBody(w)}
Overdue == {w \in Workers : InBody(w) /\ LostLock(w)}

\* A worker that ends its task outside the release leaves the lease, if it had one.
LEMMA ForgetLeaves ==
  ASSUME LockIInv, NEW w \in Workers, Forget(w), UNCHANGED holder
  PROVE  IF InBody(w) THEN L!Leave(w) ELSE UNCHANGED <<Inside, Overdue>>
  BY DEF LockIInv, LockTypeOK, Forget, InBody, LostLock, Inside, Overdue, L!Leave

\* So does one that leaves its body for the release.
LEMMA UnlockLeaves ==
  ASSUME LockIInv, NEW w \in Workers, InBody(w),
         pc' = [pc EXCEPT ![w] = "unlock"], UNCHANGED <<holder, token>>
  PROVE  L!Leave(w)
  BY DEF LockIInv, LockTypeOK, InBody, LostLock, L!Leave

\* The expiry of a key takes at most one lease away.
LEMMA TickLoses ==
  ASSUME LockIInv, Tick
  PROVE  \/ \E w \in Workers : L!Lose(w)
         \/ UNCHANGED <<Inside, Overdue>>
  <1>1. CASE holder' = holder
    BY <1>1 DEF Tick, Inside, Overdue, InBody, LostLock
  <1>2. CASE holder' # holder
    <2>1. holder' = NoToken
      BY <1>2 DEF Tick, Expire, WriteKey
    <2>2. CASE \E w \in Workers : InBody(w) /\ token[w] = holder
      <3>1. PICK w \in Workers : InBody(w) /\ token[w] = holder
        BY <2>2
      <3>2. \A v \in Workers : InBody(v) => Holds(v)
        BY DEF LockIInv, PlacesInv, InBody
      <3>3. \A v \in Workers : InBody(v) /\ v # w => LostLock(v)
        BY <3>1, <3>2 DEF LockIInv, TokensDiffer, LostLock
      <3>4. L!Lose(w)
        BY <2>1, <3>1, <3>2, <3>3 DEF Tick, L!Lose, InBody, LostLock, Holds
      <3> QED
        BY <3>4
    <2>3. CASE \A w \in Workers : InBody(w) => token[w] # holder
      <3>1. \A w \in Workers : InBody(w) => token[w] # NoToken
        BY DEF LockIInv, PlacesInv, Holds, InBody
      <3> QED
        BY <2>1, <2>3, <3>1 DEF Tick, Inside, Overdue, InBody, LostLock
    <2> QED
      BY <2>2, <2>3
  <1> QED
    BY <1>1, <1>2

\* An acquisition enters the lease: whoever is still inside lost its own.
LEMMA AcquireEnters ==
  ASSUME LockIInv, NEW w \in Workers, Acquire(w)
  PROVE  L!Enter(w)
  <1>1. PICK t \in Tokens : FreshToken(t) /\ holder' = t
                           /\ token' = [token EXCEPT ![w] = t]
    BY DEF Acquire, WriteKey
  <1>2. \A v \in Workers : InBody(v) => LostLock(v)
    BY DEF Acquire, LockIInv, PlacesInv, Holds, InBody, LostLock
  <1>3. ~InBody(w) /\ pc' = [pc EXCEPT ![w] = "body"]
    BY DEF Acquire, InBody
  <1>4. \A v \in Workers : v # w => token'[v] = token[v] /\ token[v] # t
    BY <1>1 DEF LockIInv, LockTypeOK, FreshToken
  <1>5. token'[w] = t
    BY <1>1 DEF LockIInv, LockTypeOK
  <1> QED
    BY <1>1, <1>2, <1>3, <1>4, <1>5 DEF LockIInv, LockTypeOK, L!Enter, InBody, LostLock

\* A release is invisible: the task left the lease before, and by WatchInv and
\* TokensDiffer no task still inside owned the key it deletes.
LEMMA ReleaseInvisible ==
  ASSUME LockIInv, NEW w \in Workers, Release(w)
  PROVE  UNCHANGED <<Inside, Overdue>>
  <1>1. CASE UNCHANGED holder
    BY <1>1, ForgetLeaves DEF Release, InBody
  <1>2. CASE got[w] = token[w] /\ holder' = NoToken
    <2>1. holder = token[w] /\ Holds(w) /\ ~InBody(w)
      BY <1>2 DEF Release, LockIInv, WatchInv, PlacesInv, InBody
    <2>2. \A v \in Workers : InBody(v) => v # w /\ token[v] # NoToken
                                          /\ token[v] # holder
      BY <2>1 DEF LockIInv, PlacesInv, TokensDiffer, Holds, InBody
    <2>3. \A v \in Workers : v # w => token'[v] = token[v] /\ pc'[v] = pc[v]
      BY DEF Release, Forget, LockIInv, LockTypeOK
    <2>4. pc'[w] = "idle"
      BY DEF Release, Forget, LockIInv, LockTypeOK
    <2> QED
      BY <1>2, <2>1, <2>2, <2>3, <2>4 DEF Inside, Overdue, InBody, LostLock
  <1> QED
    BY <1>1, <1>2 DEF Release, WriteKey

\* The lock implements the lease: every step of the protocol enters, leaves,
\* loses one lease, or is invisible.
THEOREM Refinement == LockSpec => ImplementsLease
  <1>1. LockInit => L!LeaseInit
    BY DEF LockInit, L!LeaseInit, InBody
  <1>2. LockIInv /\ [LockNext]_lockVars => [L!LeaseNext]_<<Inside, Overdue>>
    <2> SUFFICES ASSUME LockIInv, [LockNext]_lockVars
                 PROVE  L!LeaseNext \/ UNCHANGED <<Inside, Overdue>>
      BY DEF Inside, Overdue
    <2>1. CASE Tick
      BY <2>1, TickLoses DEF L!LeaseNext
    <2>2. ASSUME NEW w \in Workers, LockStep(w)
          PROVE  L!LeaseNext \/ UNCHANGED <<Inside, Overdue>>
      <3>1. CASE Acquire(w)
        BY <3>1, AcquireEnters DEF L!LeaseNext
      <3>2. CASE SkipLocked(w) \/ Crash(w) \/ HardTimeLimit(w)
        BY <3>2, ForgetLeaves DEF SkipLocked, Crash, HardTimeLimit, L!LeaseNext
      <3>3. CASE LeaveBody(w)
        BY <3>3, UnlockLeaves DEF LeaveBody, InBody, L!LeaseNext
      <3>4. CASE SoftTimeLimit(w)
        <4>1. CASE Forget(w)
          BY <3>4, <4>1, ForgetLeaves DEF SoftTimeLimit, L!LeaseNext
        <4>2. CASE InBody(w) /\ pc' = [pc EXCEPT ![w] = "unlock"]
                             /\ UNCHANGED token
          BY <3>4, <4>2, UnlockLeaves DEF SoftTimeLimit, L!LeaseNext
        <4> QED
          BY <3>4, <4>1, <4>2 DEF SoftTimeLimit, InBody
      <3>5. CASE Release(w)
        BY <3>5, ReleaseInvisible
      <3>6. CASE Start(w) \/ ReadForRelease(w) \/ RetryRelease(w)
        BY <3>6 DEF Start, ReadForRelease, RetryRelease, LockIInv, LockTypeOK,
                    Inside, Overdue, InBody, LostLock
      <3> QED
        BY <2>2, <3>1, <3>2, <3>3, <3>4, <3>5, <3>6 DEF LockStep
    <2>3. CASE UNCHANGED lockVars
      BY <2>3 DEF lockVars, Inside, Overdue, InBody, LostLock
    <2> QED
      BY <2>1, <2>2, <2>3 DEF LockNext
  <1> QED
    BY LockInvariance, <1>1, <1>2, PTL
    DEF LockSpec, ImplementsLease, L!LeaseSpec, Inside, Overdue

\* Both together: a lease, and no release of a lock that is another's.
THEOREM LeaseIsHeld == LockSpec => HeldLikeALease
  BY Refinement, OwnReleasesOnly DEF HeldLikeALease

-----------------------------------------------------------------------------

(***************************************************************************)
(* The batches.                                                            *)
(***************************************************************************)

\* The types NothingVanishes needs: BatchTypeOK but for the history and the bound.
BatchTyped ==
  /\ fed \in [Posts -> Nat]
  /\ raw \subseteq Posts
  /\ batch \in [Users -> [on : BOOLEAN, todo : SUBSET Channels, held : SUBSET Posts]]
  /\ rows \in [Users -> [Posts -> Nat]]

\* What a push trims was in the buffer.
LEMMA TrimsRaw == \A p \in Posts : \A gone \in Trimmed(p) : gone \subseteq raw
BY DEF Trimmed, Of

\* Every step preserves the types.
LEMMA BatchTypedStep == BatchTyped /\ [BatchNext]_batchVars => BatchTyped'
<1> SUFFICES ASSUME BatchTyped, [BatchNext]_batchVars PROVE BatchTyped'
  OBVIOUS
<1>1. ASSUME NEW p \in Posts, WritePost(p) PROVE BatchTyped'
  BY <1>1, TrimsRaw DEF BatchTyped, WritePost
<1>2. ASSUME NEW s \in Sources, RawExpires(s) PROVE BatchTyped'
  BY <1>2 DEF BatchTyped, RawExpires, Of
<1>3. ASSUME NEW u \in Users, BatchStart(u) PROVE BatchTyped'
  BY <1>3, UserBatchParameters DEF BatchTyped, BatchStart
<1>4. ASSUME NEW u \in Users, NEW c \in Channels, Drain(u, c) PROVE BatchTyped'
  <2>1. Of(BufferKey(c), raw) \subseteq raw
    BY DEF Of
  <2> QED
    BY <1>4, <2>1 DEF BatchTyped, Drain
<1>5. ASSUME NEW u \in Users, Persist(u) PROVE BatchTyped'
  <2>1. PICK kept \in SUBSET batch[u].held :
          rows' = [rows EXCEPT ![u] =
                     [p \in Posts |-> IF p \in kept /\ Listed(p) THEN @[p] + 1 ELSE @[p]]]
    BY <1>5 DEF Persist
  <2>2. rows' \in [Users -> [Posts -> Nat]]
    BY <2>1 DEF BatchTyped
  <2> QED
    BY <1>5, <2>2 DEF BatchTyped, Persist, NoBatch
<1>6. ASSUME NEW u \in Users, BatchDies(u) PROVE BatchTyped'
  BY <1>6 DEF BatchTyped, BatchDies, NoBatch
<1>7. CASE UNCHANGED batchVars
  BY <1>7 DEF BatchTyped, batchVars
<1> QED
  BY <1>1, <1>2, <1>3, <1>4, <1>5, <1>6, <1>7 DEF BatchNext, BatchWorks

\* No step buffers a post more often than the bound allows, nor loses what is
\* not a post.
LEMMA BatchTypeStep == BatchTypeOK /\ [BatchNext]_batchVars => BatchTypeOK'
<1> SUFFICES ASSUME BatchTypeOK, [BatchNext]_batchVars PROVE BatchTypeOK'
  OBVIOUS
<1>0. BatchTyped /\ BatchTyped'
  BY BatchTypedStep DEF BatchTypeOK, BatchTyped
<1> DEFINE Rest == lost' \subseteq Posts /\ \A p \in Posts : fed'[p] <= MaxCopies[p]
<1>1. ASSUME NEW p \in Posts, WritePost(p) PROVE Rest
  <2>1. \A q \in Posts : fed[q] \in Nat /\ MaxCopies[q] \in Nat
    BY <1>0, UserBatchParameters DEF BatchTyped
  <2>2. \A q \in Posts : fed'[q] = IF q = p THEN fed[q] + 1 ELSE fed[q]
    BY <1>0, <1>1 DEF BatchTyped, WritePost
  <2>3. fed[p] < MaxCopies[p] /\ lost' \subseteq Posts
    BY <1>0, <1>1, TrimsRaw DEF WritePost, BatchTyped, BatchTypeOK
  <2> QED
    BY <2>1, <2>2, <2>3 DEF BatchTypeOK
<1>2. ASSUME NEW s \in Sources, RawExpires(s) PROVE Rest
  BY <1>2 DEF BatchTypeOK, RawExpires, Of
<1>3. ASSUME NEW u \in Users, BatchStart(u) PROVE Rest
  BY <1>3 DEF BatchTypeOK, BatchStart
<1>4. ASSUME NEW u \in Users, NEW c \in Channels, Drain(u, c) PROVE Rest
  BY <1>4 DEF BatchTypeOK, Drain
<1>5. ASSUME NEW u \in Users, Persist(u) PROVE Rest
  BY <1>5 DEF BatchTypeOK, Persist
<1>6. ASSUME NEW u \in Users, BatchDies(u) PROVE Rest
  <2>1. batch[u].held \subseteq Posts
    BY <1>0 DEF BatchTyped
  <2> QED
    BY <1>6, <2>1 DEF BatchTypeOK, BatchDies
<1>7. ASSUME UNCHANGED batchVars PROVE Rest
  BY <1>7 DEF BatchTypeOK, batchVars
<1>8. Rest
  BY <1>1, <1>2, <1>3, <1>4, <1>5, <1>6, <1>7 DEF BatchNext, BatchWorks
<1> QED
  BY <1>0, <1>8 DEF BatchTypeOK, BatchTyped

\* The state of buffers, batches and rows stays within its types
\* (collector/buffer.py, pipeline/batch_processor.py).
THEOREM BatchTypeCorrect == BatchSpec => []BatchTypeOK
<1>1. BatchInit => BatchTypeOK
  BY UserBatchParameters DEF BatchInit, BatchTypeOK, NoBatch
<1> QED
  BY <1>1, BatchTypeStep, PTL DEF BatchSpec

-----------------------------------------------------------------------------
(* Where a buffered post is.  A batch that is not running holds nothing, so *)
(* that starting one drops nothing.                                         *)

Represented(p) == \E q \in Posts : TextOf[q] = TextOf[p] /\ (Persisted(q) \/ ~Listed(q))

Somewhere(p) ==
  \/ p \in raw \cup lost
  \/ \E u \in Users : p \in batch[u].held
  \/ Represented(p)

IdleHoldsNothing == \A u \in Users : ~batch[u].on => batch[u].todo = {} /\ batch[u].held = {}

BatchIInv == BatchTyped /\ IdleHoldsNothing /\ \A p \in Posts : fed[p] > 0 => Somewhere(p)

\* Rows are only added: what is represented stays so.
LEMMA StaysRepresented ==
  ASSUME BatchTyped, NEW p \in Posts, Represented(p),
         \A u \in Users, q \in Posts : rows[u][q] > 0 => rows'[u][q] > 0
  PROVE  Represented(p)'
BY DEF Represented, Persisted

\* The invariant holds initially.
LEMMA BatchInitIInv == BatchInit => BatchIInv
BY DEF BatchInit, BatchIInv, BatchTyped, IdleHoldsNothing, NoBatch

\* A batch that ends well has persisted what it held, or near-duplicates of it.
LEMMA PersistKeeps ==
  ASSUME BatchIInv, NEW u \in Users, Persist(u), NEW p \in Posts, Somewhere(p)
  PROVE  Somewhere(p)'
<1>1. PICK kept \in SUBSET batch[u].held :
        /\ Deduped(batch[u].held, kept)
        /\ rows' = [rows EXCEPT ![u] =
                      [q \in Posts |-> IF q \in kept /\ Listed(q) THEN @[q] + 1 ELSE @[q]]]
  BY DEF Persist
<1>2. \A q \in Posts : rows'[u][q] = IF q \in kept /\ Listed(q) THEN rows[u][q] + 1 ELSE rows[u][q]
  BY <1>1 DEF BatchIInv, BatchTyped
<1>3. \A v \in Users, q \in Posts : v # u => rows'[v][q] = rows[v][q]
  BY <1>1 DEF BatchIInv, BatchTyped
<1>4. \A v \in Users, q \in Posts : rows[v][q] \in Nat
  BY DEF BatchIInv, BatchTyped
<1>5. \A v \in Users, q \in Posts : rows[v][q] > 0 => rows'[v][q] > 0
  BY <1>2, <1>3, <1>4
<1>6. CASE p \in batch[u].held
  <2>1. PICK q \in kept : TextOf[q] = TextOf[p]
    BY <1>1, <1>6 DEF Deduped
  <2>2. q \in Posts
    BY <2>1, <1>1 DEF BatchIInv, BatchTyped
  <2>3. Listed(q) => rows'[u][q] > 0
    BY <2>1, <2>2, <1>2, <1>4
  <2> QED
    BY <2>1, <2>2, <2>3 DEF Somewhere, Represented, Persisted, Listed
<1>7. CASE \E v \in Users \ {u} : p \in batch[v].held
  <2>1. \A v \in Users \ {u} : batch'[v] = batch[v]
    BY DEF Persist, BatchIInv, BatchTyped
  <2> QED
    BY <1>7, <2>1 DEF Somewhere
<1>8. CASE p \in raw \cup lost
  BY <1>8 DEF Somewhere, Persist
<1>9. CASE Represented(p)
  BY <1>9, <1>5, StaysRepresented DEF BatchIInv, Somewhere
<1> QED
  BY <1>6, <1>7, <1>8, <1>9 DEF Somewhere

\* Every step preserves the invariant.
LEMMA BatchNextIInv == BatchIInv /\ [BatchNext]_batchVars => BatchIInv'
<1> SUFFICES ASSUME BatchIInv, [BatchNext]_batchVars PROVE BatchIInv'
  OBVIOUS
<1>0. BatchTyped /\ BatchTyped'
  BY BatchTypedStep DEF BatchIInv
<1> DEFINE Kept == IdleHoldsNothing' /\ \A p \in Posts : fed'[p] > 0 => Somewhere(p)'
<1>r. rows' = rows => \A p \in Posts : Represented(p) => Represented(p)'
  BY DEF Represented, Persisted
<1>1. ASSUME NEW w \in Posts, WritePost(w) PROVE Kept
  <2>1. \A p \in Posts : p # w => fed'[p] = fed[p]
    BY <1>0, <1>1 DEF WritePost, BatchTyped
  <2>2. \A p \in Posts : p # w /\ fed'[p] > 0 => Somewhere(p)'
    BY <2>1, <1>1, <1>r DEF WritePost, BatchIInv, Somewhere
  <2>3. Somewhere(w)' /\ IdleHoldsNothing'
    BY <1>1 DEF WritePost, BatchIInv, Somewhere, IdleHoldsNothing
  <2> QED
    BY <2>2, <2>3
<1>2. ASSUME NEW s \in Sources, RawExpires(s) PROVE Kept
  BY <1>2, <1>r DEF RawExpires, BatchIInv, Somewhere, IdleHoldsNothing
<1>3. ASSUME NEW u \in Users, BatchStart(u) PROVE Kept
  <2>1. batch[u].held = {} /\ batch'[u].on /\ \A v \in Users \ {u} : batch'[v] = batch[v]
    BY <1>0, <1>3 DEF BatchStart, BatchIInv, BatchTyped, IdleHoldsNothing
  <2>2. IdleHoldsNothing'
    BY <2>1 DEF BatchIInv, IdleHoldsNothing
  <2> QED
    BY <2>1, <2>2, <1>3, <1>r DEF BatchStart, BatchIInv, Somewhere
<1>4. ASSUME NEW u \in Users, NEW c \in Channels, Drain(u, c) PROVE Kept
  <2>1. /\ batch'[u].held = batch[u].held \cup Of(BufferKey(c), raw)
        /\ batch'[u].on = batch[u].on
        /\ \A v \in Users \ {u} : batch'[v] = batch[v]
    BY <1>0, <1>4 DEF Drain, BatchTyped
  <2>2. batch[u].on
    BY <1>4 DEF Drain, BatchIInv, IdleHoldsNothing
  <2>3. IdleHoldsNothing'
    BY <2>1, <2>2 DEF BatchIInv, IdleHoldsNothing
  <2> QED
    BY <2>1, <2>3, <1>4, <1>r DEF Drain, BatchIInv, Somewhere
<1>5. ASSUME NEW u \in Users, Persist(u) PROVE Kept
  <2>1. batch'[u] = NoBatch /\ fed' = fed /\ \A v \in Users \ {u} : batch'[v] = batch[v]
    BY <1>0, <1>5 DEF Persist, BatchTyped
  <2>2. IdleHoldsNothing'
    BY <2>1 DEF BatchIInv, IdleHoldsNothing, NoBatch
  <2> QED
    BY <2>1, <2>2, <1>5, PersistKeeps DEF BatchIInv
<1>6. ASSUME NEW u \in Users, BatchDies(u) PROVE Kept
  <2>1. batch'[u] = NoBatch /\ \A v \in Users \ {u} : batch'[v] = batch[v]
    BY <1>0, <1>6 DEF BatchDies, BatchTyped
  <2>2. IdleHoldsNothing'
    BY <2>1 DEF BatchIInv, IdleHoldsNothing, NoBatch
  <2> QED
    BY <2>1, <2>2, <1>6, <1>r DEF BatchDies, BatchIInv, Somewhere
<1>7. ASSUME UNCHANGED batchVars PROVE Kept
  BY <1>7, <1>r DEF batchVars, BatchIInv, Somewhere, IdleHoldsNothing
<1> QED
  BY <1>0, <1>1, <1>2, <1>3, <1>4, <1>5, <1>6, <1>7 DEF BatchIInv, BatchNext, BatchWorks

\* Writes, drains, expiries and dying batches in any order lose no buffered post
\* unaccounted for (buffer.py drain_source, batch_processor.py process_user_batch).
THEOREM NothingLost == BatchSpec => []NothingVanishes
<1>1. BatchIInv => NothingVanishes
  BY DEF BatchIInv, Somewhere, Represented, NothingVanishes
<1> QED
  BY <1>1, BatchInitIInv, BatchNextIInv, PTL DEF BatchSpec

-----------------------------------------------------------------------------
(***************************************************************************)
(* The copies of a post.  They are counted as sets, the rows as pairs of a *)
(* tenant and a number: no fold, so every step adds or takes away one      *)
(* element at most.                                                        *)
(***************************************************************************)

Buffered(p) == IF p \in raw THEN 1 ELSE 0

CopiesOf(p) ==
  /\ IsFiniteSet(RowsOf(p)) /\ IsFiniteSet(HeldBy(p))
  /\ Cardinality(RowsOf(p)) + Cardinality(HeldBy(p)) + Buffered(p) <= fed[p]

CopiesInv == \A p \in Posts : CopiesOf(p)

\* Numbers of a post's copies: all of them natural.
LEMMA CopiesAreNumbers ==
  ASSUME BatchTyped, NEW p \in Posts, CopiesOf(p)
  PROVE  Cardinality(RowsOf(p)) \in Nat /\ Cardinality(HeldBy(p)) \in Nat /\ fed[p] \in Nat
BY FS_CardinalityType DEF CopiesOf, BatchTyped

\* Copies that go, and none that comes, keep the count.
LEMMA CopiesGo ==
  ASSUME BatchTyped, NEW p \in Posts, CopiesOf(p), RowsOf(p)' = RowsOf(p),
         HeldBy(p)' \subseteq HeldBy(p), Buffered(p)' <= Buffered(p), fed'[p] = fed[p]
  PROVE  CopiesOf(p)'
<1>1. /\ IsFiniteSet(HeldBy(p)') /\ Cardinality(HeldBy(p)') <= Cardinality(HeldBy(p))
      /\ Cardinality(HeldBy(p)') \in Nat
  BY FS_Subset, FS_CardinalityType DEF CopiesOf
<1>2. Buffered(p) \in Nat /\ Buffered(p)' \in Nat
  BY DEF Buffered
<1> HIDE DEF Buffered
<1> QED BY <1>1, <1>2, CopiesAreNumbers DEF CopiesOf

LEMMA CopiesStep == BatchTyped /\ CopiesInv /\ [BatchNext]_batchVars => CopiesInv'
<1> SUFFICES ASSUME BatchTyped, CopiesInv, [BatchNext]_batchVars, NEW p \in Posts
      PROVE CopiesOf(p)'
  BY DEF CopiesInv
<1>1. CopiesOf(p)
  BY DEF CopiesInv
<1>2. ASSUME rows' = rows, fed' = fed, raw' \subseteq raw,
             \A u \in Users : batch'[u].held \subseteq batch[u].held
      PROVE  CopiesOf(p)'
  <2>1. RowsOf(p)' = RowsOf(p) /\ HeldBy(p)' \subseteq HeldBy(p) /\ Buffered(p)' <= Buffered(p)
    BY <1>2 DEF RowsOf, HeldBy, Buffered
  <2> QED BY <1>1, <1>2, <2>1, CopiesGo
<1>3. ASSUME NEW w \in Posts, WritePost(w) PROVE CopiesOf(p)'
  <2>1. /\ fed' = [fed EXCEPT ![w] = fed[w] + 1] /\ raw' \subseteq raw \cup {w}
        /\ UNCHANGED <<batch, rows>>
    BY <1>3 DEF WritePost
  <2>2. RowsOf(p)' = RowsOf(p) /\ HeldBy(p)' = HeldBy(p)
    BY <2>1 DEF RowsOf, HeldBy
  <2>3. CASE p = w
    <3>1. fed'[p] = fed[p] + 1
      BY <2>1, <2>3 DEF BatchTyped
    <3>2. /\ Buffered(p) \in {0, 1} /\ Buffered(p)' \in {0, 1}
      BY DEF Buffered
    <3> HIDE DEF Buffered
    <3> QED BY <1>1, <2>2, <3>1, <3>2, CopiesAreNumbers DEF CopiesOf
  <2>4. CASE p # w
    <3>1. fed'[p] = fed[p] /\ Buffered(p)' <= Buffered(p)
      BY <2>1, <2>4 DEF BatchTyped, Buffered
    <3> QED BY <1>1, <2>2, <3>1, CopiesGo
  <2> QED BY <2>3, <2>4
<1>4. ASSUME NEW s \in Sources, RawExpires(s) PROVE CopiesOf(p)'
  BY <1>2, <1>4 DEF RawExpires
<1>5. ASSUME NEW u \in Users, BatchStart(u) \/ BatchDies(u) PROVE CopiesOf(p)'
  <2>1. UNCHANGED <<rows, fed, raw>> /\ \A v \in Users : batch'[v].held \subseteq batch[v].held
    BY <1>5 DEF BatchStart, BatchDies, NoBatch, BatchTyped
  <2> QED BY <1>2, <2>1
<1>6. ASSUME NEW u \in Users, NEW c \in Channels, Drain(u, c) PROVE CopiesOf(p)'
  <2> DEFINE taken == Of(BufferKey(c), raw)
  <2>1. /\ taken \subseteq raw /\ raw' = raw \ taken /\ UNCHANGED <<rows, fed>>
        /\ batch'[u].held = batch[u].held \cup taken
        /\ \A v \in Users \ {u} : batch'[v] = batch[v]
    BY <1>6 DEF Drain, Of, BatchTyped
  <2> HIDE DEF taken
  <2>2. CASE p \notin taken
    <3>1. HeldBy(p)' = HeldBy(p) /\ Buffered(p)' = Buffered(p) /\ RowsOf(p)' = RowsOf(p)
      BY <2>1, <2>2 DEF HeldBy, Buffered, RowsOf
    <3> QED BY <1>1, <2>1, <3>1 DEF CopiesOf
  <2>3. CASE p \in taken
    <3>1. HeldBy(p)' = HeldBy(p) \cup {u} /\ RowsOf(p)' = RowsOf(p)
      BY <2>1, <2>3 DEF HeldBy, RowsOf
    <3>2. Buffered(p) = 1 /\ Buffered(p)' = 0
      BY <2>1, <2>3 DEF Buffered
    <3>3. /\ IsFiniteSet(HeldBy(p)') /\ Cardinality(HeldBy(p)') \in Nat
          /\ Cardinality(HeldBy(p)') <= Cardinality(HeldBy(p)) + 1
      <4>1. IsFiniteSet(HeldBy(p))
        BY <1>1 DEF CopiesOf
      <4>2. /\ IsFiniteSet(HeldBy(p) \cup {u})
            /\ Cardinality(HeldBy(p) \cup {u}) = IF u \in HeldBy(p) THEN Cardinality(HeldBy(p))
                                                  ELSE Cardinality(HeldBy(p)) + 1
        BY <4>1, FS_AddElement
      <4>3. Cardinality(HeldBy(p)) \in Nat
        BY <4>1, FS_CardinalityType
      <4> QED BY <3>1, <4>2, <4>3
    <3> HIDE DEF Buffered
    <3> QED BY <1>1, <2>1, <3>1, <3>2, <3>3, CopiesAreNumbers DEF CopiesOf
  <2> QED BY <2>2, <2>3
<1>7. ASSUME NEW u \in Users, Persist(u) PROVE CopiesOf(p)'
  <2>1. PICK kept \in SUBSET batch[u].held :
          rows' = [rows EXCEPT ![u] =
                     [q \in Posts |-> IF q \in kept /\ Listed(q) THEN @[q] + 1 ELSE @[q]]]
    BY <1>7 DEF Persist
  <2>2. /\ UNCHANGED <<fed, raw>> /\ batch'[u].held = {}
        /\ \A v \in Users \ {u} : batch'[v] = batch[v]
    BY <1>7 DEF Persist, NoBatch, BatchTyped
  <2>3. \A v \in Users : rows[v][p] \in Nat
    BY DEF BatchTyped
  <2>4. /\ rows'[u][p] = IF p \in kept /\ Listed(p) THEN rows[u][p] + 1 ELSE rows[u][p]
        /\ \A v \in Users \ {u} : rows'[v][p] = rows[v][p]
    BY <2>1 DEF BatchTyped
  <2>5. CASE p \in kept /\ Listed(p)
    <3> DEFINE new == <<u, rows[u][p] + 1>>
    <3>1. RowsOf(p)' = RowsOf(p) \cup {new}
      <4>1. \A n \in Nat : 1..(n + 1) = (1..n) \cup {n + 1}
        OBVIOUS
      <4>2. 1..rows'[u][p] = (1..rows[u][p]) \cup {rows[u][p] + 1}
        BY <2>3, <2>4, <2>5, <4>1
      <4> DEFINE old == 1..rows[u][p]
                 last == rows[u][p] + 1
                 others == UNION {{v} \X (1..rows[v][p]) : v \in Users \ {u}}
      <4>3. RowsOf(p) = others \cup ({u} \X old)
        BY DEF RowsOf
      <4>4. RowsOf(p)' = others \cup ({u} \X (old \cup {last}))
        <5>1. RowsOf(p)' = UNION {{v} \X (1..rows'[v][p]) : v \in Users}
          BY DEF RowsOf
        <5>2. others = UNION {{v} \X (1..rows'[v][p]) : v \in Users \ {u}}
          BY <2>4
        <5>3. 1..rows'[u][p] = old \cup {last}
          BY <4>2
        <5> HIDE DEF others, old, last
        <5> QED BY <5>1, <5>2, <5>3
      <4> HIDE DEF others, old, last
      <4>5. {u} \X (old \cup {last}) = ({u} \X old) \cup {<<u, last>>}
        OBVIOUS
      <4> QED BY <4>3, <4>4, <4>5 DEF last
    <3>2. new \notin RowsOf(p)
      BY <2>3 DEF RowsOf
    <3>3. HeldBy(p)' = HeldBy(p) \ {u} /\ u \in HeldBy(p)
      BY <2>2, <2>5 DEF HeldBy
    <3> HIDE DEF new
    <3>4. IsFiniteSet(RowsOf(p)') /\ Cardinality(RowsOf(p)') = Cardinality(RowsOf(p)) + 1
      <4>1. IsFiniteSet(RowsOf(p))
        BY <1>1 DEF CopiesOf
      <4> QED BY <3>1, <3>2, <4>1, FS_AddElement
    <3>5. IsFiniteSet(HeldBy(p)') /\ Cardinality(HeldBy(p)') = Cardinality(HeldBy(p)) - 1
      <4>1. IsFiniteSet(HeldBy(p))
        BY <1>1 DEF CopiesOf
      <4> QED BY <3>3, <4>1, FS_RemoveElement
    <3>6. Buffered(p)' = Buffered(p) /\ fed'[p] = fed[p] /\ Buffered(p) \in Nat
      BY <2>2 DEF Buffered
    <3> HIDE DEF Buffered
    <3> QED BY <1>1, <3>4, <3>5, <3>6, CopiesAreNumbers DEF CopiesOf
  <2>6. CASE ~(p \in kept /\ Listed(p))
    <3>1. RowsOf(p)' = RowsOf(p)
      <4>1. \A v \in Users : rows'[v][p] = rows[v][p]
        BY <2>4, <2>6
      <4> QED BY <4>1 DEF RowsOf
    <3>2. HeldBy(p)' \subseteq HeldBy(p) /\ Buffered(p)' <= Buffered(p)
      BY <2>2 DEF HeldBy, Buffered
    <3> QED BY <1>1, <2>2, <3>1, <3>2, CopiesGo
  <2> QED BY <2>5, <2>6
<1>8. CASE UNCHANGED batchVars
  BY <1>2, <1>8 DEF batchVars
<1> QED BY <1>3, <1>4, <1>5, <1>6, <1>7, <1>8 DEF BatchNext, BatchWorks

\* One buffered copy of a post ends in one row of one tenant at most, whatever
\* batches drain the same buffers side by side - for any number of users and of
\* copies (drain_source reads and clears in one transaction).
THEOREM CopiesAreUsedOnce == BatchSpec => []CopiesUsedOnce
<1>1. BatchInit => BatchTyped /\ CopiesInv
  <2> SUFFICES ASSUME BatchInit PROVE BatchTyped /\ CopiesInv
    OBVIOUS
  <2>1. BatchTyped
    BY DEF BatchInit, BatchTyped, NoBatch
  <2>2. ASSUME NEW p \in Posts PROVE CopiesOf(p)
    <3>1. RowsOf(p) = {} /\ HeldBy(p) = {} /\ Buffered(p) = 0 /\ fed[p] = 0
      <4>1. \A u \in Users : rows[u][p] = 0 /\ batch[u].held = {}
        BY DEF BatchInit, NoBatch
      <4>2. 1..0 = {}
        OBVIOUS
      <4> QED BY <4>1, <4>2 DEF BatchInit, RowsOf, HeldBy, Buffered
    <3> QED BY <3>1, FS_EmptySet DEF CopiesOf
  <2> QED BY <2>1, <2>2 DEF CopiesInv
<1>2. (BatchTyped /\ CopiesInv) /\ [BatchNext]_batchVars => (BatchTyped /\ CopiesInv)'
  BY BatchTypedStep, CopiesStep
<1>3. BatchTyped /\ CopiesInv => CopiesUsedOnce
  BY DEF CopiesInv, CopiesOf, CopiesUsedOnce, Buffered
<1> QED BY <1>1, <1>2, <1>3, PTL DEF BatchSpec

\* No buffered post is lost from sight, and no copy of one is used twice.
THEOREM PostsAreAccounted == BatchSpec => []PostsAccounted
  BY NothingLost, CopiesAreUsedOnce, PTL DEF PostsAccounted

-----------------------------------------------------------------------------
(***************************************************************************)
(* The watchlists.  The invariant adds to the types: a PATCH or an         *)
(* adaptation under way is of rows that are there still, an adaptation     *)
(* whose row nobody crossed has read it as it is, requests of one kind     *)
(* are alone while nobody counted beside another, and what such a request  *)
(* is about to add fits in with the rest.                                  *)
(***************************************************************************)

LiveRow == [t : Nat, floor : Nat \cup {None}, pack : Packs \cup {None}, set : Settings]
Reading == [t : Nat, floor : Nat \cup {None}]
ApiRequest == [op : {"idle", "create", "patch", "subscribe"}, k : Keys \cup {None},
               p : Packs \cup {None}, seen : Reading \cup {Gone}]

WatchlistTypes ==
  /\ row \in [Keys -> LiveRow \cup {Absent}]
  /\ request \in [Requests -> ApiRequest]
  /\ adapt \in [at : {"off", "up", "down"}, seen : [Keys -> Reading \cup {Gone}]]
  /\ crowded \in BOOLEAN
  /\ raced \subseteq Keys

PatchesOfRows ==
  \A q \in Requests : request[q].op = "patch" =>
    request[q].k \in Keys /\ (request[q].seen # Gone => row[request[q].k] # Absent)

AdaptsOfRows ==
  \A k \in Keys : adapt.seen[k] # Gone =>
    row[k] # Absent /\ (k \notin raced => Read(row[k]) = adapt.seen[k])

SubscribesPack == \A q \in Requests : request[q].op = "subscribe" => request[q].p \in Packs

AloneOfItsKind ==
  ~crowded => \A p, q \in Requests :
                request[p].op = request[q].op /\ request[p].op \in {"create", "subscribe"} => p = q

RoomForRow ==
  ~crowded => /\ Cardinality(Manual) <= Limit
              /\ \A q \in Requests : request[q].op = "create" => Cardinality(Manual) + 1 <= Limit

RoomForPack ==
  ~crowded => /\ Cardinality(Subscribed) <= Limit
              /\ \A q \in Requests : request[q].op = "subscribe" =>
                   Cardinality(Subscribed \cup {request[q].p}) <= Limit

WatchlistInv ==
  /\ WatchlistTypes /\ PatchesOfRows /\ AdaptsOfRows /\ SubscribesPack
  /\ AloneOfItsKind /\ RoomForRow /\ RoomForPack /\ SettingKept

\* What is a row or was read is told apart from what is not.
LEMMA AbsentIsNoRow == Absent \notin LiveRow /\ Gone \notin Reading
BY DEF Absent, Gone, LiveRow, Reading

LEMMA RequestsTyped ==
  ASSUME WatchlistInv
  PROVE  /\ row \in [Keys -> LiveRow \cup {Absent}] /\ request \in [Requests -> ApiRequest]
         /\ adapt.seen \in [Keys -> Reading \cup {Gone}] /\ raced \subseteq Keys
         /\ Idle \in ApiRequest /\ Idle.op = "idle" /\ NoAdapt.seen = [k \in Keys |-> Gone]
BY DEF WatchlistInv, WatchlistTypes, Idle, ApiRequest, NoAdapt

\* Rows and packs are finitely many.
LEMMA RowsFinite ==
  ASSUME WatchlistInv
  PROVE  IsFiniteSet(Manual) /\ IsFiniteSet(Subscribed)
<1> DEFINE packs == {row[k].pack : k \in Present}
           f == [k \in Present |-> row[k].pack]
<1>1. IsFiniteSet(Keys) /\ Present \subseteq Keys /\ Manual \subseteq Present
  <2>1. IsFiniteSet(Keys)
    BY WatchlistsParameters
  <2>2. Present \subseteq Keys
    BY DEF Present
  <2>3. Manual \subseteq Present
    BY DEF Manual
  <2> QED BY <2>1, <2>2, <2>3
<1>2. IsFiniteSet(Present)
  BY <1>1, FS_Subset
<1>3. IsFiniteSet(Manual)
  BY <1>1, <1>2, FS_Subset
<1>4. f \in Surjection(Present, packs)
  BY DEF Surjection
<1> HIDE DEF f, packs
<1>5. IsFiniteSet(packs)
  BY <1>2, <1>4, FS_Surjection
<1>6. Subscribed \subseteq packs
  BY DEF Subscribed, packs
<1> QED BY <1>3, <1>5, <1>6, FS_Subset

\* Fewer rows and packs, and no request that was not there, need no more room.
LEMMA RoomStays ==
  ASSUME WatchlistInv, Manual' \subseteq Manual, Subscribed' \subseteq Subscribed,
         crowded' = crowded,
         \A q \in Requests : request'[q].op \in {"create", "subscribe"} =>
           request'[q].op = request[q].op /\ request'[q].p = request[q].p
  PROVE  RoomForRow' /\ RoomForPack' /\ AloneOfItsKind'
<1>1. IsFiniteSet(Manual) /\ IsFiniteSet(Subscribed)
  BY RowsFinite
<1>2. ASSUME NEW S, NEW T, IsFiniteSet(T), S \subseteq T
      PROVE  Cardinality(S) \in Nat /\ Cardinality(T) \in Nat /\ Cardinality(S) <= Cardinality(T)
  BY <1>2, FS_Subset, FS_CardinalityType
<1>3. RoomForRow'
  <2>1. /\ Cardinality(Manual') \in Nat /\ Cardinality(Manual) \in Nat
        /\ Cardinality(Manual') <= Cardinality(Manual)
    BY <1>1, <1>2
  <2> QED BY <2>1, WatchlistsParameters DEF WatchlistInv, RoomForRow
<1>4. RoomForPack'
  <2>1. ASSUME NEW p
       
             
                    PROVE  /\ Cardinality(Subscribed' \cup {p}) \in Nat /\ Cardinality(Subscribed \cup {p}) \in Nat
               /\ Cardinality(Subscribed' \cup {p}) <= Cardinality(Subscribed \cup {p})
    <3>1. IsFiniteSet(Subscribed \cup {p})
      BY <1>1, FS_AddElement
    <3>2. Subscribed' \cup {p} \subseteq Subscribed \cup {p}
      OBVIOUS
    <3> QED BY <1>2, <3>1, <3>2
  <2>2. /\ Cardinality(Subscribed') \in Nat /\ Cardinality(Subscribed) \in Nat
        /\ Cardinality(Subscribed') <= Cardinality(Subscribed)
    BY <1>1, <1>2
  <2>3. ASSUME ~crowded' PROVE Cardinality(Subscribed') <= Limit
    BY <2>2, <2>3, WatchlistsParameters DEF WatchlistInv, RoomForPack
  <2>4. ASSUME ~crowded', NEW q \in Requests, request'[q].op = "subscribe"
        PROVE  Cardinality(Subscribed' \cup {request'[q].p}) <= Limit
    <3> DEFINE p == request'[q].p
    <3>1. request[q].op = "subscribe" /\ request[q].p = p
      BY <2>4
    <3>2. Cardinality(Subscribed \cup {p}) <= Limit
      BY <2>4, <3>1 DEF WatchlistInv, RoomForPack
    <3> HIDE DEF p
    <3>3. /\ Cardinality(Subscribed' \cup {p}) \in Nat /\ Cardinality(Subscribed \cup {p}) \in Nat
          /\ Cardinality(Subscribed' \cup {p}) <= Cardinality(Subscribed \cup {p})
      BY <2>1
    <3>4. Cardinality(Subscribed' \cup {p}) <= Limit
      BY <3>2, <3>3, WatchlistsParameters
    <3> QED BY <3>4 DEF p
  <2> QED BY <2>3, <2>4 DEF RoomForPack
<1>5. AloneOfItsKind'
  BY DEF WatchlistInv, AloneOfItsKind
<1> QED BY <1>3, <1>4, <1>5

\* A request comes: it has read what it goes by.
LEMMA RequestComes ==
  ASSUME WatchlistInv, NEW q \in Requests, request[q] = Idle, NEW r \in ApiRequest,
         request' = [request EXCEPT ![q] = r], UNCHANGED <<row, adapt, raced>>,
         \/ /\ r.op = "patch" /\ r.k \in Keys /\ row[r.k] # Absent /\ crowded' = crowded
         \/ /\ r.op = "create" /\ Crowds(q, "create")
            /\ ~crowded' => Cardinality(Manual) + 1 <= Limit
         \/ /\ r.op = "subscribe" /\ Crowds(q, "subscribe") /\ r.p \in Packs
            /\ ~crowded' => Cardinality(Subscribed \cup {r.p}) <= Limit
  PROVE  WatchlistInv'
<1>1. /\ request' \in [Requests -> ApiRequest] /\ request'[q] = r
      /\ \A p \in Requests \ {q} : request'[p] = request[p]
  BY RequestsTyped
<1>2. crowded' \in BOOLEAN /\ (~crowded' => ~crowded)
  BY DEF Crowds, WatchlistInv, WatchlistTypes
<1>3. WatchlistTypes' /\ SettingKept' /\ AdaptsOfRows'
  BY <1>1, <1>2
     DEF WatchlistInv, WatchlistTypes, SettingKept, Present, AdaptsOfRows
<1>4. PatchesOfRows' /\ SubscribesPack'
  BY <1>1 DEF WatchlistInv, PatchesOfRows, SubscribesPack
<1>5. AloneOfItsKind'
  BY <1>1, <1>2 DEF WatchlistInv, AloneOfItsKind, Crowds
<1>6. Manual' = Manual /\ Subscribed' = Subscribed
  BY DEF Manual, Subscribed, Present
<1>7. RoomForRow'
  BY <1>1, <1>2, <1>6 DEF WatchlistInv, RoomForRow
<1>8. RoomForPack'
  BY <1>1, <1>2, <1>6 DEF WatchlistInv, RoomForPack
<1> QED BY <1>3, <1>4, <1>5, <1>7, <1>8 DEF WatchlistInv

LEMMA CheckCreateKeeps ==
  ASSUME WatchlistInv, NEW q \in Requests, CheckCreate(q)
  PROVE  WatchlistInv'
<1> DEFINE r == [Idle EXCEPT !.op = "create"]
<1>1. request[q] = Idle /\ request' = [request EXCEPT ![q] = r]
  BY DEF CheckCreate, Begins
<1>2. UNCHANGED <<row, adapt, raced>> /\ Crowds(q, "create")
  BY DEF CheckCreate
<1>4. Cardinality(Manual) + 1 <= Limit
  BY DEF CheckCreate, Room
<1>3. r \in ApiRequest /\ r.op = "create"
  BY DEF Idle, ApiRequest
<1> HIDE DEF r
<1> QED BY <1>1, <1>2, <1>3, <1>4, RequestComes

LEMMA CheckSubscribeKeeps ==
  ASSUME WatchlistInv, NEW q \in Requests, CheckSubscribe(q)
  PROVE  WatchlistInv'
<1>1. PICK p \in Packs : /\ p \in Subscribed \/ Room(Cardinality(Subscribed))
                         /\ Begins(q, [Idle EXCEPT !.op = "subscribe", !.p = p])
  BY DEF CheckSubscribe
<1> DEFINE r == [Idle EXCEPT !.op = "subscribe", !.p = p]
<1>2. request[q] = Idle /\ UNCHANGED <<row, adapt, raced>> /\ Crowds(q, "subscribe")
  BY DEF CheckSubscribe
<1>3. request' = [request EXCEPT ![q] = r]
  BY <1>1 DEF Begins
<1>4. r \in ApiRequest /\ r.op = "subscribe" /\ r.p = p
  BY DEF Idle, ApiRequest
<1> HIDE DEF r
<1>5. ASSUME ~crowded' PROVE Cardinality(Subscribed \cup {p}) <= Limit
  <2>1. Cardinality(Subscribed) <= Limit
    BY <1>2, <1>5 DEF Crowds, WatchlistInv, RoomForPack
  <2>2. CASE p \in Subscribed
    <3>1. Subscribed \cup {p} = Subscribed
      BY <2>2
    <3> QED BY <2>1, <3>1
  <2>3. CASE p \notin Subscribed
    BY <1>1, <2>3, RowsFinite, FS_AddElement DEF Room
  <2> QED BY <2>2, <2>3
<1> QED BY <1>2, <1>3, <1>4, <1>5, RequestComes

LEMMA ReadPatchKeeps ==
  ASSUME WatchlistInv, NEW q \in Requests, ReadPatch(q)
  PROVE  WatchlistInv'
<1>1. PICK k \in Present :
        Begins(q, [Idle EXCEPT !.op = "patch", !.k = k, !.seen = Read(row[k])])
  BY Zenon DEF ReadPatch
<1> DEFINE r == [Idle EXCEPT !.op = "patch", !.k = k, !.seen = Read(row[k])]
<1>2. request[q] = Idle /\ UNCHANGED <<row, adapt, raced>> /\ crowded' = crowded
  BY DEF ReadPatch
<1>3. request' = [request EXCEPT ![q] = r]
  BY <1>1 DEF Begins
<1>4. k \in Keys /\ row[k] # Absent
  BY DEF Present
<1>5. Read(row[k]) \in Reading
  BY <1>4, RequestsTyped DEF LiveRow, Read, Reading
<1>6. r \in ApiRequest /\ r.op = "patch" /\ r.k = k
  BY <1>4, <1>5 DEF Idle, ApiRequest
<1> HIDE DEF r
<1> QED BY <1>2, <1>3, <1>4, <1>6, RequestComes

\* A request ends: what it held goes, and of the rest nothing changes.
LEMMA RequestEnds ==
  ASSUME WatchlistInv, NEW q \in Requests, request' = [request EXCEPT ![q] = Idle]
  PROVE  /\ request' \in [Requests -> ApiRequest]
         /\ \A p \in Requests : request'[p].op # "idle" => p # q /\ request'[p] = request[p]
BY RequestsTyped

\* What is written is a row, and keeps its pack.
LEMMA WrittenIsRow ==
  ASSUME NEW r \in LiveRow, NEW s, NEW n \in Reading
  PROVE  /\ Write(r, s, n) \in LiveRow
         /\ Write(r, s, n).pack = r.pack /\ Write(r, s, n).set = r.set
         /\ Read(r) = s => Write(r, s, n).t = n.t /\ Write(r, s, n).floor = n.floor
<1> DEFINE a == IF n.t # s.t THEN n.t ELSE r.t
           b == IF n.floor # s.floor THEN n.floor ELSE r.floor
           w == Write(r, s, n)
<1>1. a \in Nat /\ b \in Nat \cup {None}
  BY DEF LiveRow, Reading
<1>2. Read(r) = s => a = n.t /\ b = n.floor
  BY DEF Read
<1>3. w = [r EXCEPT !.t = a, !.floor = b]
  BY DEF Write
<1> HIDE DEF a, b, w
<1>4. w \in LiveRow /\ w.t = a /\ w.floor = b /\ w.pack = r.pack /\ w.set = r.set
  BY <1>1, <1>3 DEF LiveRow
<1> QED BY <1>2, <1>4 DEF w

LEMMA PatchedIsRow ==
  ASSUME NEW r \in LiveRow, NEW s \in Reading, NEW t \in Settings
  PROVE  LET w == [Write(r, s, Patched(s, t)) EXCEPT !.set = t]
         IN  /\ w \in LiveRow /\ w.pack = r.pack /\ w.set = t
             /\ Read(r) = s => w.t = t /\ Floor(w) = t
<1> DEFINE v == Write(r, s, Patched(s, t))
           w == [v EXCEPT !.set = t]
<1>1. t \in Nat /\ t # None
  BY WatchlistsParameters
<1>2. Patched(s, t) \in Reading /\ Patched(s, t).t = t /\ Patched(s, t).floor = t
  BY <1>1 DEF Patched, Reading
<1>3. v \in LiveRow /\ v.pack = r.pack /\ (Read(r) = s => v.t = t /\ v.floor = t)
  BY <1>2, WrittenIsRow
<1> HIDE DEF v
<1>4. /\ w \in LiveRow /\ w.pack = r.pack /\ w.set = t
      /\ w.t = v.t /\ w.floor = v.floor
  BY <1>3 DEF LiveRow
<1> HIDE DEF w
<1>5. Read(r) = s => w.t = t /\ Floor(w) = t
  BY <1>1, <1>3, <1>4 DEF Floor
<1> QED BY <1>4, <1>5 DEF w, v

\* An adapted threshold lies between the floor and Drift above it.
LEMMA AdaptedIsClamped ==
  ASSUME NEW s \in Reading, NEW way
  PROVE  /\ Adapted(s, way) \in Reading /\ Adapted(s, way).floor = Floor(s)
         /\ Floor(s) <= s.t => /\ Floor(s) <= Adapted(s, way).t
                               /\ Adapted(s, way).t <= Floor(s) + Drift \/ Adapted(s, way).t <= s.t
<1>1. Floor(s) \in Nat /\ s.t \in Nat /\ Step \in Nat \ {0} /\ Drift \in Nat \ {0}
  BY WatchlistsParameters DEF Reading, Floor
<1>2. /\ Adapted(s, way).floor = Floor(s)
      /\ Adapted(s, way).t = IF way = "up" THEN Lesser(s.t + Step, Floor(s) + Drift)
                                           ELSE Greater(s.t - Step, Floor(s))
      /\ Adapted(s, way) = [t |-> Adapted(s, way).t, floor |-> Adapted(s, way).floor]
  <2> DEFINE n == IF way = "up" THEN Lesser(s.t + Step, Floor(s) + Drift)
                                ELSE Greater(s.t - Step, Floor(s))
             f == Floor(s)
  <2>1. Adapted(s, way) = [s EXCEPT !.floor = f, !.t = n]
    BY DEF Adapted
  <2> HIDE DEF n, f
  <2>2. Adapted(s, way) = [t |-> n, floor |-> f]
    BY <2>1 DEF Reading
  <2> QED BY <2>2 DEF n, f
<1>3. Adapted(s, way).t \in Nat
  BY <1>1, <1>2 DEF Lesser, Greater
<1>4. Adapted(s, way) \in Reading
  BY <1>1, <1>2, <1>3 DEF Reading
<1> QED BY <1>1, <1>2, <1>4 DEF Lesser, Greater

LEMMA CreateKeeps ==
  ASSUME WatchlistInv, NEW q \in Requests, Create(q)
  PROVE  WatchlistInv'
<1> DEFINE new(t) == [t |-> t, floor |-> None, pack |-> None, set |-> t]
<1>1. PICK k \in Keys, t \in Settings :
        row' = IF row[k] = Absent THEN [row EXCEPT ![k] = new(t)] ELSE row
  BY DEF Create
<1>2. /\ request[q].op = "create" /\ request' = [request EXCEPT ![q] = Idle]
      /\ UNCHANGED <<adapt, crowded, raced>>
  BY DEF Create, Ends, Begins
<1>3. /\ request' \in [Requests -> ApiRequest]
      /\ \A p \in Requests : request'[p].op # "idle" => p # q /\ request'[p] = request[p]
  BY <1>2, RequestEnds
<1>4. SubscribesPack'
  BY <1>3 DEF WatchlistInv, SubscribesPack
<1>5. CASE row[k] # Absent
  <2>1. row' = row
    BY <1>1, <1>5
  <2>2. WatchlistTypes' /\ PatchesOfRows' /\ AdaptsOfRows' /\ SettingKept'
    BY <1>2, <1>3, <2>1
       DEF WatchlistInv, WatchlistTypes, PatchesOfRows, AdaptsOfRows, SettingKept, Present
  <2>3. Manual' = Manual /\ Subscribed' = Subscribed
    BY <2>1 DEF Manual, Subscribed, Present
  <2> QED BY <1>2, <1>3, <1>4, <2>2, <2>3, RoomStays DEF WatchlistInv
<1>6. CASE row[k] = Absent
  <2>1. new(t) \in LiveRow /\ new(t).t = t /\ new(t).set = t /\ new(t).floor = None
        /\ new(t).pack = None
    BY WatchlistsParameters DEF LiveRow
  <2>2. new(t) # Absent
    BY <2>1, AbsentIsNoRow
  <2>3. row'[k] = new(t) /\ \A j \in Keys \ {k} : row'[j] = row[j]
    BY <1>1, <1>6, RequestsTyped
  <2>4. row' \in [Keys -> LiveRow \cup {Absent}]
    BY <1>1, <1>6, <2>1, RequestsTyped
  <2> HIDE DEF new
  <2>5. Manual' = Manual \cup {k} /\ Subscribed' = Subscribed
    BY <1>6, <2>1, <2>2, <2>3 DEF Manual, Subscribed, Present
  <2>6. WatchlistTypes'
    BY <1>2, <1>3, <2>4 DEF WatchlistInv, WatchlistTypes
  <2>7. PatchesOfRows' /\ AdaptsOfRows'
    BY <1>2, <1>3, <1>6, <2>2, <2>3, RequestsTyped DEF WatchlistInv, PatchesOfRows, AdaptsOfRows
  <2>8. SettingKept'
    BY <1>2, <1>6, <2>1, <2>3, WatchlistsParameters DEF WatchlistInv, SettingKept, Present, Floor
  <2>9. ~crowded' => \A p \in Requests : request'[p].op # "create"
    BY <1>2, <1>3 DEF WatchlistInv, AloneOfItsKind
  <2>10. ~crowded' => Cardinality(Manual') <= Limit
    <3>1. /\ ~crowded' => Cardinality(Manual) + 1 <= Limit /\ Cardinality(Manual) <= Limit
      BY <1>2 DEF WatchlistInv, RoomForRow
    <3>2. Cardinality(Manual \cup {k}) = IF k \in Manual THEN Cardinality(Manual) ELSE Cardinality(Manual) + 1
      BY RowsFinite, FS_AddElement
    <3> QED BY <2>5, <3>1, <3>2
  <2>11. RoomForRow' /\ AloneOfItsKind'
    BY <1>2, <1>3, <2>9, <2>10 DEF WatchlistInv, RoomForRow, AloneOfItsKind
  <2>12. RoomForPack'
    BY <1>2, <1>3, <2>5 DEF WatchlistInv, RoomForPack
  <2> QED BY <1>4, <2>6, <2>7, <2>8, <2>11, <2>12 DEF WatchlistInv
<1> QED BY <1>5, <1>6

LEMMA SubscribeKeeps ==
  ASSUME WatchlistInv, NEW q \in Requests, Subscribe(q)
  PROVE  WatchlistInv'
<1> DEFINE p == request[q].p
           new == [t |-> PackSetting, floor |-> None, pack |-> p, set |-> PackSetting]
<1>1. /\ request[q].op = "subscribe" /\ request' = [request EXCEPT ![q] = Idle]
      /\ UNCHANGED <<adapt, crowded, raced>>
  BY DEF Subscribe, Ends, Begins
<1>2. row' = [k \in Keys |-> IF k \in PackKeys[p] \ Present THEN new ELSE row[k]]
  BY DEF Subscribe
<1>3. p \in Packs
  BY <1>1 DEF WatchlistInv, SubscribesPack
<1>4. /\ new \in LiveRow /\ new # Absent /\ new.pack = p /\ p # None
      /\ new.t = PackSetting /\ new.set = PackSetting /\ Floor(new) = PackSetting
      /\ PackSetting \in Nat
  <2>1. new \in LiveRow
    BY <1>3, WatchlistsParameters DEF LiveRow
  <2> QED BY <1>3, <2>1, AbsentIsNoRow, WatchlistsParameters DEF Floor
<1> HIDE DEF new
<1>5. /\ request' \in [Requests -> ApiRequest]
      /\ \A r \in Requests : request'[r].op # "idle" => r # q /\ request'[r] = request[r]
  BY <1>1, RequestEnds
<1>6. \A k \in Keys : row'[k] = row[k] \/ (row[k] = Absent /\ row'[k] = new)
  BY <1>2 DEF Present
<1>7. row' \in [Keys -> LiveRow \cup {Absent}]
  BY <1>2, <1>4, RequestsTyped
<1>8. WatchlistTypes' /\ SubscribesPack'
  BY <1>1, <1>5, <1>7 DEF WatchlistInv, WatchlistTypes, SubscribesPack
<1>9. PatchesOfRows'
  BY <1>4, <1>5, <1>6 DEF WatchlistInv, PatchesOfRows
<1>10. AdaptsOfRows'
  BY <1>1, <1>4, <1>6 DEF WatchlistInv, AdaptsOfRows
<1>11. SettingKept'
  <2> SUFFICES ASSUME NEW k \in Present' \ raced'
               PROVE  /\ row'[k].t >= row'[k].set /\ row'[k].t <= row'[k].set + Drift
                      /\ Floor(row'[k]) = row'[k].set
    BY DEF SettingKept, Floor
  <2>1. k \in Keys /\ row'[k] # Absent /\ k \notin raced
    BY <1>1 DEF Present
  <2>2. CASE row'[k] = row[k]
    BY <2>1, <2>2 DEF WatchlistInv, SettingKept, Present
  <2>3. CASE row'[k] = new
    BY <1>4, <2>3, WatchlistsParameters
  <2> QED BY <1>6, <2>1, <2>2, <2>3
<1>12. Manual' = Manual
  BY <1>4, <1>6 DEF Manual, Present
<1>13. Subscribed' \subseteq Subscribed \cup {p}
  BY <1>4, <1>6 DEF Subscribed, Present
<1>14. ~crowded' => \A r \in Requests : request'[r].op # "subscribe"
  BY <1>1, <1>5 DEF WatchlistInv, AloneOfItsKind
<1>15. ~crowded' => Cardinality(Subscribed') <= Limit
  <2>1. IsFiniteSet(Subscribed \cup {p})
    BY RowsFinite, FS_AddElement
  <2>2. /\ Cardinality(Subscribed') <= Cardinality(Subscribed \cup {p})
        /\ Cardinality(Subscribed') \in Nat /\ Cardinality(Subscribed \cup {p}) \in Nat
    BY <1>13, <2>1, FS_Subset, FS_CardinalityType
  <2>3. ~crowded' => Cardinality(Subscribed \cup {p}) <= Limit
    BY <1>1 DEF WatchlistInv, RoomForPack
  <2> QED BY <2>2, <2>3, WatchlistsParameters
<1>16. RoomForPack'
  BY <1>14, <1>15 DEF RoomForPack
<1>17. RoomForRow'
  BY <1>1, <1>5, <1>12 DEF WatchlistInv, RoomForRow
<1>18. AloneOfItsKind'
  BY <1>1, <1>5 DEF WatchlistInv, AloneOfItsKind
<1> QED BY <1>8, <1>9, <1>10, <1>11, <1>16, <1>17, <1>18 DEF WatchlistInv

\* Rows are rewritten, each with the pack it had: what counts stays.
LEMMA RowsRewritten ==
  ASSUME WatchlistInv, row' \in [Keys -> LiveRow \cup {Absent}],
         \A k \in Keys : IF row[k] = Absent THEN row'[k] = Absent
                                            ELSE row'[k] # Absent /\ row'[k].pack = row[k].pack
  PROVE  Present' = Present /\ Manual' = Manual /\ Subscribed' = Subscribed
<1>1. Present' = Present
  BY DEF Present
<1>2. \A k \in Present : row'[k].pack = row[k].pack
  BY DEF Present
<1> QED BY <1>1, <1>2 DEF Manual, Subscribed

LEMMA PatchKeeps ==
  ASSUME WatchlistInv, NEW q \in Requests, Patch(q)
  PROVE  WatchlistInv'
<1> DEFINE r == request[q]
           k == r.k
           s == r.seen
<1>1. /\ r.op = "patch" /\ request' = [request EXCEPT ![q] = Idle]
      /\ UNCHANGED <<adapt, crowded>>
  BY DEF Patch, Ends, Begins
<1>2. /\ request' \in [Requests -> ApiRequest]
      /\ \A p \in Requests : request'[p].op # "idle" => p # q /\ request'[p] = request[p]
  BY <1>1, RequestEnds
<1>3. SubscribesPack'
  BY <1>2 DEF WatchlistInv, SubscribesPack
<1>4. CASE s = Gone
  <2>1. row' = row /\ raced' = raced
    BY <1>4 DEF Patch
  <2>2. WatchlistTypes' /\ PatchesOfRows' /\ AdaptsOfRows' /\ SettingKept'
    BY <1>1, <1>2, <2>1
       DEF WatchlistInv, WatchlistTypes, PatchesOfRows, AdaptsOfRows, SettingKept, Present
  <2>3. Manual' = Manual /\ Subscribed' = Subscribed
    BY <2>1 DEF Manual, Subscribed, Present
  <2> QED BY <1>1, <1>2, <1>3, <2>2, <2>3, RoomStays DEF WatchlistInv
<1>5. CASE s # Gone
  <2> DEFINE w(t) == [Write(row[k], s, Patched(s, t)) EXCEPT !.set = t]
  <2>1. PICK t \in Settings : row' = [row EXCEPT ![k] = w(t)]
    BY <1>5 DEF Patch
  <2>2. raced' = IF Read(row[k]) # s \/ adapt.seen[k] # Gone THEN raced \cup {k} ELSE raced \ {k}
    BY <1>5 DEF Patch
  <2>3. k \in Keys /\ row[k] # Absent /\ row[k] \in LiveRow /\ s \in Reading
    BY <1>1, <1>5, RequestsTyped DEF WatchlistInv, PatchesOfRows, ApiRequest
  <2> DEFINE new == w(t)
  <2>4. /\ new \in LiveRow /\ new.pack = row[k].pack /\ new.set = t
        /\ Read(row[k]) = s => new.t = t /\ Floor(new) = t
    BY <2>3, PatchedIsRow
  <2>5. new # Absent
    BY <2>4, AbsentIsNoRow
  <2>6. /\ row' \in [Keys -> LiveRow \cup {Absent}]
        /\ row'[k] = new /\ \A j \in Keys \ {k} : row'[j] = row[j]
    BY <2>1, <2>3, <2>4, RequestsTyped
  <2> HIDE DEF w, new, k, s
  <2>7. raced' \subseteq Keys
    BY <2>2, <2>3, RequestsTyped
  <2>8. WatchlistTypes'
    BY <1>1, <1>2, <2>6, <2>7 DEF WatchlistInv, WatchlistTypes
  <2>9. PatchesOfRows'
    BY <1>2, <2>5, <2>6 DEF WatchlistInv, PatchesOfRows
  <2>10. AdaptsOfRows'
    <3> SUFFICES ASSUME NEW j \in Keys, adapt'.seen[j] # Gone
                 PROVE  row'[j] # Absent /\ (j \notin raced' => Read(row'[j]) = adapt'.seen[j])
      BY DEF AdaptsOfRows, Read
    <3>1. adapt.seen[j] # Gone
      BY <1>1
    <3>2. CASE j = k
      BY <2>2, <2>5, <2>6, <3>1, <3>2
    <3>3. CASE j # k
      BY <1>1, <2>2, <2>6, <3>1, <3>3 DEF WatchlistInv, AdaptsOfRows
    <3> QED BY <3>2, <3>3
  <2>11. SettingKept'
    <3> SUFFICES ASSUME NEW j \in Present' \ raced'
                 PROVE  /\ row'[j].t >= row'[j].set /\ row'[j].t <= row'[j].set + Drift
                        /\ Floor(row'[j]) = row'[j].set
      BY DEF SettingKept, Floor
    <3>1. j \in Keys /\ row'[j] # Absent
      BY DEF Present
    <3>2. CASE j = k
      <4>1. Read(row[k]) = s
        BY <2>2, <3>2
      <4> QED BY <2>4, <2>6, <3>2, <4>1, WatchlistsParameters
    <3>3. CASE j # k
      BY <2>2, <2>6, <3>1, <3>3 DEF WatchlistInv, SettingKept, Present
    <3> QED BY <3>2, <3>3
  <2>12. Manual' = Manual /\ Subscribed' = Subscribed
    BY <2>3, <2>4, <2>5, <2>6, RowsRewritten
  <2> QED BY <1>1, <1>2, <1>3, <2>8, <2>9, <2>10, <2>11, <2>12, RoomStays DEF WatchlistInv
<1> QED BY <1>4, <1>5

LEMMA ReadAdaptKeeps ==
  ASSUME WatchlistInv, ReadAdapt
  PROVE  WatchlistInv'
<1>1. PICK way \in {"up", "down"} :
        adapt' = [at |-> way,
                  seen |-> [k \in Keys |-> IF Moves(k, way) THEN Read(row[k]) ELSE Gone]]
  BY DEF ReadAdapt
<1>2. UNCHANGED <<row, request, crowded, raced>>
  BY DEF ReadAdapt
<1>3. \A k \in Keys : row[k] # Absent => Read(row[k]) \in Reading
  BY RequestsTyped DEF LiveRow, Read, Reading
<1>4. /\ adapt'.at = way
      /\ \A k \in Keys : adapt'.seen[k] = IF Moves(k, way) THEN Read(row[k]) ELSE Gone
  BY <1>1
<1>5. \A k \in Keys : Moves(k, way) => row[k] # Absent
  BY DEF Moves
<1>6. adapt' \in [at : {"off", "up", "down"}, seen : [Keys -> Reading \cup {Gone}]]
  BY <1>1, <1>3, <1>5
<1>7. AdaptsOfRows'
  BY <1>2, <1>4, <1>5 DEF AdaptsOfRows, Read
<1>8. WatchlistTypes' /\ PatchesOfRows' /\ SubscribesPack' /\ SettingKept'
  BY <1>2, <1>6
     DEF WatchlistInv, WatchlistTypes, PatchesOfRows, SubscribesPack, SettingKept, Present
<1>9. Manual' = Manual /\ Subscribed' = Subscribed
  BY <1>2 DEF Manual, Subscribed, Present
<1> QED BY <1>2, <1>7, <1>8, <1>9, RoomStays DEF WatchlistInv

LEMMA AdaptKeeps ==
  ASSUME WatchlistInv, Adapt
  PROVE  WatchlistInv'
<1> DEFINE new(k) == Adapted(adapt.seen[k], adapt.at)
           w(k) == Write(row[k], adapt.seen[k], new(k))
<1>1. /\ row' = [k \in Keys |-> IF adapt.seen[k] = Gone THEN row[k] ELSE w(k)]
      /\ adapt' = NoAdapt /\ UNCHANGED <<request, crowded, raced>>
  BY DEF Adapt
<1>2. ASSUME NEW k \in Keys, adapt.seen[k] # Gone
      PROVE  /\ adapt.seen[k] \in Reading /\ row[k] \in LiveRow /\ row[k] # Absent
             /\ k \notin raced => Read(row[k]) = adapt.seen[k]
             /\ new(k) \in Reading
             /\ w(k) \in LiveRow /\ w(k) # Absent /\ w(k).pack = row[k].pack /\ w(k).set = row[k].set
             /\ k \notin raced => w(k).t = new(k).t /\ w(k).floor = new(k).floor
  <2>1. /\ adapt.seen[k] \in Reading /\ row[k] \in LiveRow /\ row[k] # Absent
        /\ k \notin raced => Read(row[k]) = adapt.seen[k]
    BY <1>2, RequestsTyped DEF WatchlistInv, AdaptsOfRows
  <2>2. new(k) \in Reading
    BY <2>1, AdaptedIsClamped
  <2> QED BY <2>1, <2>2, WrittenIsRow, AbsentIsNoRow
<1>3. \A k \in Keys : row'[k] = IF adapt.seen[k] = Gone THEN row[k] ELSE w(k)
  BY <1>1
<1>4. row' \in [Keys -> LiveRow \cup {Absent}]
  BY <1>1, <1>2, RequestsTyped
<1>5. \A k \in Keys : IF row[k] = Absent THEN row'[k] = Absent
                                         ELSE row'[k] # Absent /\ row'[k].pack = row[k].pack
  BY <1>2, <1>3
<1>6. SettingKept'
  <2> SUFFICES ASSUME NEW k \in Present' \ raced'
               PROVE  /\ row'[k].t >= row'[k].set /\ row'[k].t <= row'[k].set + Drift
                      /\ Floor(row'[k]) = row'[k].set
    BY DEF SettingKept, Floor
  <2>1. k \in Keys /\ row'[k] # Absent /\ row[k] # Absent /\ k \notin raced
    BY <1>1, <1>5 DEF Present
  <2>2. /\ row[k].t >= row[k].set /\ row[k].t <= row[k].set + Drift
        /\ Floor(row[k]) = row[k].set
    BY <2>1 DEF WatchlistInv, SettingKept, Present
  <2>3. CASE adapt.seen[k] = Gone
    BY <1>3, <2>1, <2>2, <2>3
  <2>4. CASE adapt.seen[k] # Gone
    <3> DEFINE s == adapt.seen[k]
               n == Adapted(s, adapt.at)
    <3>1. /\ s \in Reading /\ row[k] \in LiveRow /\ Read(row[k]) = s
          /\ row'[k].t = n.t /\ row'[k].floor = n.floor /\ row'[k].set = row[k].set
      BY <1>2, <1>3, <2>1, <2>4
    <3>2. s.t = row[k].t /\ Floor(s) = row[k].set
      <4>1. s.t = row[k].t /\ s.floor = row[k].floor
        BY <3>1 DEF Read
      <4> QED BY <2>2, <4>1 DEF Floor
    <3>3. row[k].set \in Nat /\ row[k].t \in Nat /\ Drift \in Nat
      BY <3>1, WatchlistsParameters DEF LiveRow
    <3>4. /\ n \in Reading /\ n.floor = Floor(s)
          /\ Floor(s) <= s.t => /\ Floor(s) <= n.t
                                /\ n.t <= Floor(s) + Drift \/ n.t <= s.t
      BY <3>1, AdaptedIsClamped
    <3> HIDE DEF n, s
    <3>5. n.t \in Nat /\ n.floor # None
      BY <3>2, <3>3, <3>4, WatchlistsParameters DEF Reading
    <3>6. Floor(row'[k]) = row'[k].set
      BY <3>1, <3>2, <3>4, <3>5 DEF Floor
    <3>7. row[k].set <= n.t /\ n.t <= row[k].set + Drift
      BY <2>2, <3>2, <3>3, <3>4, <3>5
    <3> QED BY <3>1, <3>6, <3>7
  <2> QED BY <2>3, <2>4
<1> HIDE DEF w, new
<1>7. adapt' \in [at : {"off", "up", "down"}, seen : [Keys -> Reading \cup {Gone}]]
      /\ \A k \in Keys : adapt'.seen[k] = Gone
  BY <1>1 DEF NoAdapt
<1>8. WatchlistTypes' /\ SubscribesPack' /\ AdaptsOfRows'
  BY <1>1, <1>4, <1>7 DEF WatchlistInv, WatchlistTypes, SubscribesPack, AdaptsOfRows
<1>9. PatchesOfRows'
  BY <1>1, <1>5 DEF WatchlistInv, PatchesOfRows
<1>10. Manual' = Manual /\ Subscribed' = Subscribed
  BY <1>4, <1>5, RowsRewritten
<1> QED BY <1>1, <1>6, <1>8, <1>9, <1>10, RoomStays DEF WatchlistInv

LEMMA DeleteRowsKeeps ==
  ASSUME WatchlistInv, NEW keys \in SUBSET Keys, DeleteRows(keys)
  PROVE  WatchlistInv'
<1>1. /\ row' = [k \in Keys |-> IF k \in keys THEN Absent ELSE row[k]]
      /\ request' = [q \in Requests |->
           IF request[q].k \in keys THEN [request[q] EXCEPT !.seen = Gone] ELSE request[q]]
      /\ adapt' = IF \E k \in keys : adapt.seen[k] # Gone THEN NoAdapt ELSE adapt
      /\ raced' = raced \ keys /\ crowded' = crowded
  BY DEF DeleteRows
<1>2. /\ row' \in [Keys -> LiveRow \cup {Absent}]
      /\ \A k \in Keys : row'[k] = IF k \in keys THEN Absent ELSE row[k]
  BY <1>1, RequestsTyped
<1>3. ASSUME NEW q \in Requests
      PROVE  /\ request'[q] \in ApiRequest
             /\ request'[q].op = request[q].op /\ request'[q].k = request[q].k
             /\ request'[q].p = request[q].p
             /\ request'[q].seen # Gone => request[q].k \notin keys /\ request'[q].seen = request[q].seen
  <2>1. request[q] \in ApiRequest
    BY RequestsTyped
  <2>2. CASE request[q].k \in keys
    <3>1. request'[q] = [request[q] EXCEPT !.seen = Gone]
      BY <1>1, <2>2
    <3> QED BY <2>1, <3>1 DEF ApiRequest
  <2>3. CASE request[q].k \notin keys
    BY <1>1, <2>1, <2>3
  <2> QED BY <2>2, <2>3
<1>4. request' \in [Requests -> ApiRequest]
  BY <1>1, <1>3
<1>5. /\ adapt' \in [at : {"off", "up", "down"}, seen : [Keys -> Reading \cup {Gone}]]
      /\ \A k \in Keys : adapt'.seen[k] # Gone => k \notin keys /\ adapt'.seen[k] = adapt.seen[k]
  BY <1>1, RequestsTyped DEF WatchlistInv, WatchlistTypes, NoAdapt
<1>6. WatchlistTypes'
  BY <1>1, <1>2, <1>4, <1>5 DEF WatchlistInv, WatchlistTypes
<1>7. PatchesOfRows' /\ SubscribesPack'
  BY <1>2, <1>3 DEF WatchlistInv, PatchesOfRows, SubscribesPack
<1>8. AdaptsOfRows'
  BY <1>1, <1>2, <1>5 DEF WatchlistInv, AdaptsOfRows, Read
<1>9. SettingKept'
  BY <1>1, <1>2 DEF WatchlistInv, SettingKept, Present, Floor
<1>10. Present' = Present \ keys
  BY <1>2 DEF Present
<1>11. Manual' \subseteq Manual /\ Subscribed' \subseteq Subscribed
  BY <1>2, <1>10 DEF Manual, Subscribed, Present
<1> QED BY <1>1, <1>3, <1>6, <1>7, <1>8, <1>9, <1>11, RoomStays DEF WatchlistInv

LEMMA WatchlistStep ==
  ASSUME WatchlistInv, [WatchlistsNext]_watchlistVars
  PROVE  WatchlistInv'
<1>1. CASE \E q \in Requests : \/ CheckCreate(q) \/ Create(q) \/ ReadPatch(q) \/ Patch(q)
                               \/ CheckSubscribe(q) \/ Subscribe(q)
  BY <1>1, CheckCreateKeeps, CreateKeeps, ReadPatchKeeps, PatchKeeps,
     CheckSubscribeKeeps, SubscribeKeeps
<1>2. CASE ReadAdapt \/ Adapt
  BY <1>2, ReadAdaptKeeps, AdaptKeeps
<1>3. CASE Delete
  <2>1. PICK k \in Present : DeleteRows({k})
    BY <1>3 DEF Delete
  <2> QED BY <2>1, DeleteRowsKeeps DEF Present
<1>4. CASE Unsubscribe
  <2>1. PICK p \in Subscribed : DeleteRows({k \in Present : row[k].pack = p})
    BY <1>4 DEF Unsubscribe
  <2> DEFINE keys == {k \in Present : row[k].pack = p}
  <2>2. keys \in SUBSET Keys
    BY DEF Present
  <2> HIDE DEF keys
  <2> QED BY <2>1, <2>2, DeleteRowsKeeps DEF keys
<1>5. CASE UNCHANGED watchlistVars
  <2>1. UNCHANGED <<row, request, adapt, crowded, raced>>
    BY <1>5 DEF watchlistVars
  <2>2. Present' = Present /\ Manual' = Manual /\ Subscribed' = Subscribed
    BY <2>1 DEF Present, Manual, Subscribed
  <2>3. WatchlistTypes' /\ PatchesOfRows' /\ AdaptsOfRows' /\ SubscribesPack'
    BY <2>1 DEF WatchlistInv, WatchlistTypes, PatchesOfRows, AdaptsOfRows, SubscribesPack
  <2>4. AloneOfItsKind' /\ RoomForRow' /\ RoomForPack'
    BY <2>1, <2>2 DEF WatchlistInv, AloneOfItsKind, RoomForRow, RoomForPack
  <2>5. SettingKept'
    BY <2>1, <2>2 DEF WatchlistInv, SettingKept
  <2> QED BY <2>3, <2>4, <2>5 DEF WatchlistInv
<1> QED BY <1>1, <1>2, <1>3, <1>4, <1>5 DEF WatchlistsNext

LEMMA WatchlistsStart ==
  ASSUME WatchlistsInit
  PROVE  WatchlistInv
<1>1. \A k \in Keys : row[k] = Absent
  BY DEF WatchlistsInit
<1>2. Present = {} /\ Manual = {} /\ Subscribed = {}
  <2>1. Present = {}
    BY <1>1 DEF Present
  <2> QED BY <2>1 DEF Manual, Subscribed
<1>3. \A q \in Requests : request[q] = Idle /\ Idle \in ApiRequest /\ Idle.op = "idle"
  BY DEF WatchlistsInit, Idle, ApiRequest
<1>4. \A k \in Keys : adapt.seen[k] = Gone
  BY DEF WatchlistsInit, NoAdapt
<1>5. WatchlistTypes
  BY <1>3 DEF WatchlistsInit, WatchlistTypes, NoAdapt
<1>6. PatchesOfRows /\ SubscribesPack /\ AloneOfItsKind
  BY <1>3 DEF PatchesOfRows, SubscribesPack, AloneOfItsKind
<1>7. AdaptsOfRows /\ SettingKept
  BY <1>2, <1>4 DEF AdaptsOfRows, SettingKept
<1>8. RoomForRow /\ RoomForPack
  BY <1>2, <1>3, FS_EmptySet, WatchlistsParameters DEF RoomForRow, RoomForPack
<1> QED BY <1>5, <1>6, <1>7, <1>8 DEF WatchlistInv

LEMMA WatchlistsKept == Spec => []WatchlistInv
<1>1. Init => WatchlistInv
  BY WatchlistsStart DEF Init
<1>2. WatchlistInv /\ [Next]_vars => WatchlistInv'
  BY WatchlistStep DEF Next, vars, Serving, Batching, Judging, Gating
<1> QED BY <1>1, <1>2, PTL DEF Spec

\* The plan's limits hold for any number of rows, packs and requests, unless
\* two requests have counted side by side (assert_within_limit).
THEOREM LimitsAreKept == Spec => []LimitExceededOnlyByRace
<1>1. WatchlistInv => LimitExceededOnlyByRace
  BY DEF WatchlistInv, RoomForRow, RoomForPack, LimitExceededOnlyByRace
<1> QED BY <1>1, WatchlistsKept, PTL

\* Where no PATCH and adaptation crossed, what the user set last is the floor,
\* and the threshold is within Drift above it - for any settings, step and
\* drift (resolve_floor, compute_threshold_step, update's re-snapshot).
THEOREM SettingsAreKept == Spec => []SettingKept
<1>1. WatchlistInv => SettingKept
  BY DEF WatchlistInv
<1> QED BY <1>1, WatchlistsKept, PTL

\* No request takes more than the plan gives but by a race, and no setting of a
\* user is lost but to a crossing adaptation or PATCH.
THEOREM WatchlistsAreKept == Spec => []WatchlistsHold
  BY LimitsAreKept, SettingsAreKept, PTL DEF WatchlistsHold

-----------------------------------------------------------------------------
(***************************************************************************)
(* The stories.  All that is stored or held in a session are stories; what *)
(* a query sees may lag behind, but was first seen when they were.         *)
(***************************************************************************)

\* A group whose posts all have a channel counts them all.
Counting == {g \in Group : g.known <= g.n /\ (g.known = g.n => g.knownSum = g.sum)}

Story == {c \in Cluster : (c.pure => CentroidOf(c)) /\ c.updated <= c.first + Span}

ClustersInv ==
  /\ clock \in Nat
  /\ stored \in Seq(Story) /\ held \in Seq(Story)
  /\ seen \in Seq(Cluster) /\ groups \in Seq(Counting)
  /\ Len(seen) = Len(held)
  /\ \A i \in 1..Len(held) : seen[i].first = held[i].first

LEMMA JoinIsTyped ==
  ASSUME NEW gs \in Seq(Counting), NEW p \in Post
  PROVE  Join(gs, p) \in Seq(Counting)
<1>1. p.at \in Nat /\ p.known \in BOOLEAN
  BY ClustersParameters DEF Post
<1>2. Seed(p) \in Counting
  BY <1>1 DEF Seed, Group, Counting
<1>3. ASSUME NEW g \in Counting PROVE Added(g, p) \in Counting
  <2>1. /\ g.n \in Nat \ {0} /\ g.sum \in Nat /\ g.known \in Nat /\ g.knownSum \in Nat
        /\ g.known <= g.n /\ (g.known = g.n => g.knownSum = g.sum)
    BY DEF Counting, Group
  <2>2. CASE p.known
    <3>1. Added(g, p) = [n |-> g.n + 1, sum |-> g.sum + p.at, known |-> g.known + 1,
                         knownSum |-> g.knownSum + p.at]
      BY <2>2 DEF Added
    <3> QED BY <1>1, <2>1, <3>1 DEF Counting, Group
  <2>3. CASE ~p.known
    <3>1. Added(g, p) = [n |-> g.n + 1, sum |-> g.sum + p.at, known |-> g.known,
                         knownSum |-> g.knownSum]
      BY <2>1, <2>3 DEF Added
    <3> QED BY <1>1, <2>1, <3>1 DEF Counting, Group
  <2> QED BY <2>2, <2>3
<1>4. ASSUME NEW i PROVE [gs EXCEPT ![i] = Added(gs[i], p)] \in Seq(Counting)
  <2>1. CASE i \in 1..Len(gs)
    <3>1. Added(gs[i], p) \in Counting
      BY <1>3, <2>1
    <3> QED BY <2>1, <3>1
  <2>2. CASE i \notin 1..Len(gs)
    <3>1. [gs EXCEPT ![i] = Added(gs[i], p)] = gs
      BY <2>2
    <3> QED BY <3>1
  <2> QED BY <2>1, <2>2
<1>5. Append(gs, Seed(p)) \in Seq(Counting)
  BY <1>2
<1> QED BY <1>4, <1>5 DEF Join

\* The mean of a cluster and a group, weighted by their posts, is the mean of all.
LEMMA MeansAreWeighted ==
  ASSUME NEW a \in Nat, NEW b \in Nat \ {0}, NEW n \in Nat, NEW s \in Nat,
         NEW m \in Nat \ {0}, NEW t \in Nat, a * n = s * b
  PROVE  (a * n * m + t * m * b) * (n + m) = (s + t) * (b * m * (n + m))
<1>1. a * n * m + t * m * b = (s * b) * m + t * m * b
  OBVIOUS
<1>2. (s * b) * m + t * m * b = (s + t) * (b * m)
  OBVIOUS
<1> DEFINE x == a * n * m + t * m * b
           y == b * m
           z == n + m
           u == s + t
<1>3. x = u * y
  BY <1>1, <1>2
<1>4. x \in Int /\ y \in Int /\ z \in Int /\ u \in Int
  OBVIOUS
<1> HIDE DEF x, y, z, u
<1>5. x * z = u * (y * z)
  BY <1>3, <1>4
<1> QED BY <1>5 DEF x, y, z, u

LEMMA RefreshedIsStory ==
  ASSUME NEW c \in Story, NEW s \in Cluster, NEW g \in Counting, clock \in Nat,
         s.first = c.first, Recent(s)
  PROVE  LET w == WithPosts(Refreshed(c, s, g), g)
         IN  w \in Story /\ w.first = c.first
<1> DEFINE r == Refreshed(c, s, g)
           w == WithPosts(r, g)
           m == Merged(c.centroid, s.n, Mean(g), g.n)
           p == c.pure /\ c = s
           q == r.pure /\ g.known = g.n
<1>1. /\ g.n \in Nat \ {0} /\ g.sum \in Nat /\ g.known \in Nat /\ g.knownSum \in Nat
      /\ s.n \in Nat /\ c.n \in Nat /\ c.sum \in Nat /\ c.first \in Nat
      /\ c.centroid \in Nat \X (Nat \ {0})
  BY DEF Story, Cluster, Group, Counting
<1>2. m \in Nat \X (Nat \ {0})
  <2> DEFINE a == c.centroid[1]
             b == c.centroid[2]
  <2>1. a \in Nat /\ b \in Nat \ {0} /\ c.centroid = <<a, b>>
    BY <1>1
  <2>2. m = <<a * s.n * g.n + g.sum * g.n * b, b * g.n * (s.n + g.n)>>
    BY DEF Merged, Mean
  <2> HIDE DEF a, b
  <2>3. \A x, y \in Nat \ {0} : x * y \in Nat \ {0}
    OBVIOUS
  <2>4. \A x, y \in Nat : x * y \in Nat
    OBVIOUS
  <2>5. s.n + g.n \in Nat \ {0}
    BY <1>1
  <2>6. b * g.n \in Nat \ {0}
    BY <1>1, <2>1, <2>3
  <2>7. b * g.n * (s.n + g.n) \in Nat \ {0}
    BY <2>3, <2>5, <2>6
  <2>8. a * s.n * g.n \in Nat /\ g.sum * g.n * b \in Nat
    BY <1>1, <2>1, <2>4
  <2>9. a * s.n * g.n + g.sum * g.n * b \in Nat
    BY <2>8
  <2> QED BY <2>2, <2>7, <2>9
<1>3. r = [c EXCEPT !.centroid = m, !.updated = clock, !.pure = p]
  BY DEF Refreshed
<1> HIDE DEF m
<1>4. /\ r \in Cluster /\ r.centroid = m /\ r.updated = clock /\ (r.pure <=> p)
      /\ r.first = c.first /\ r.n = c.n /\ r.sum = c.sum
  <2>1. p \in BOOLEAN
    OBVIOUS
  <2> HIDE DEF p, r
  <2> QED BY <1>2, <1>3, <2>1 DEF Story, Cluster
<1>5. w = [r EXCEPT !.n = r.n + g.known, !.sum = r.sum + g.knownSum, !.pure = q]
  BY DEF WithPosts
<1>6. /\ w \in Cluster /\ w.centroid = m /\ w.updated = clock /\ (w.pure <=> q)
      /\ w.first = c.first /\ w.n = c.n + g.known /\ w.sum = c.sum + g.knownSum
  <2>1. q \in BOOLEAN
    OBVIOUS
  <2> DEFINE j == r.n + g.known
             k == r.sum + g.knownSum
  <2>2. j \in Nat /\ k \in Nat
    BY <1>1, <1>4
  <2>3. j = c.n + g.known /\ k = c.sum + g.knownSum
    BY <1>4
  <2>4. w = [r EXCEPT !.n = j, !.sum = k, !.pure = q]
    BY <1>5
  <2> HIDE DEF q, w, r, p, j, k
  <2>5. /\ w \in Cluster /\ w.centroid = r.centroid /\ w.updated = r.updated
        /\ (w.pure <=> q) /\ w.first = r.first /\ w.n = j /\ w.sum = k
    BY <1>4, <2>1, <2>2, <2>4 DEF Cluster
  <2> QED BY <1>4, <2>3, <2>5
<1> HIDE DEF w
<1>7. w.updated <= w.first + Span
  <2>1. s.first \in Nat /\ Span \in Nat /\ s.first >= clock - Span
    BY ClustersParameters DEF Recent, Cluster
  <2> QED BY <1>1, <1>6, <2>1
<1>8. ASSUME w.pure PROVE CentroidOf(w)
  <2>1. c.pure /\ c = s /\ g.known = g.n
    BY <1>4, <1>6, <1>8
  <2> DEFINE a == c.centroid[1]
             b == c.centroid[2]
  <2>2. a \in Nat /\ b \in Nat \ {0}
    BY <1>1
  <2>3. c.n > 0 /\ a * c.n = c.sum * b
    BY <2>1 DEF Story, CentroidOf, Same
  <2>4. w.n = c.n + g.n /\ w.sum = c.sum + g.knownSum
    BY <1>6, <2>1
  <2>5. g.knownSum = g.sum
    BY <2>1 DEF Counting
  <2>6. w.centroid = m /\ w.n > 0
    BY <1>1, <1>6, <2>3, <2>4
  <2>7. m = <<a * c.n * g.n + g.sum * g.n * b, b * g.n * (c.n + g.n)>>
    BY <2>1 DEF m, Merged, Mean
  <2>8. (a * c.n * g.n + g.sum * g.n * b) * (c.n + g.n)
          = (c.sum + g.sum) * (b * g.n * (c.n + g.n))
    BY <1>1, <2>2, <2>3, MeansAreWeighted
  <2> HIDE DEF m, a, b
  <2> QED BY <2>4, <2>5, <2>6, <2>7, <2>8 DEF CentroidOf, Same
<1> QED BY <1>6, <1>7, <1>8 DEF Story, w, r

LEMMA OpenedIsStory ==
  ASSUME NEW g \in Counting, clock \in Nat
  PROVE  LET new == [centroid |-> Mean(g), first |-> clock, updated |-> clock,
                     n |-> 0, sum |-> 0, pure |-> TRUE]
         IN  new \in Cluster /\ WithPosts(new, g) \in Story
             /\ WithPosts(new, g).first = clock /\ new.first = clock
<1> DEFINE new == [centroid |-> Mean(g), first |-> clock, updated |-> clock,
                   n |-> 0, sum |-> 0, pure |-> TRUE]
           w == WithPosts(new, g)
           q == g.known = g.n
<1>1. /\ g.n \in Nat \ {0} /\ g.sum \in Nat /\ g.known \in Nat /\ g.knownSum \in Nat
      /\ q => g.knownSum = g.sum
  BY DEF Group, Counting
<1>2. new \in Cluster
  BY <1>1 DEF Cluster, Mean
<1>7. /\ new.centroid = <<g.sum, g.n>> /\ new.first = clock /\ new.updated = clock
      /\ new.n = 0 /\ new.sum = 0 /\ new.pure = TRUE
  BY DEF Mean
<1>8. w = [new EXCEPT !.n = new.n + g.known, !.sum = new.sum + g.knownSum, !.pure = new.pure /\ q]
  BY DEF WithPosts
<1> HIDE DEF new
<1>9. w = [new EXCEPT !.n = g.known, !.sum = g.knownSum, !.pure = q]
  <2>1. 0 + g.known = g.known /\ 0 + g.knownSum = g.knownSum
    BY <1>1
  <2> QED BY <1>7, <1>8, <2>1
<1>3. /\ w.centroid = <<g.sum, g.n>> /\ w.first = clock /\ w.updated = clock
      /\ w.n = g.known /\ w.sum = g.knownSum /\ (w.pure <=> q)
      /\ w \in Cluster
  <2>1. q \in BOOLEAN
    OBVIOUS
  <2> HIDE DEF w, q
  <2> QED BY <1>1, <1>2, <1>7, <1>9, <2>1 DEF Cluster
<1> HIDE DEF w
<1>5. w.updated <= w.first + Span
  BY <1>3, ClustersParameters
<1>6. w.pure => CentroidOf(w)
  BY <1>1, <1>3 DEF CentroidOf, Same
<1> QED BY <1>2, <1>3, <1>5, <1>6, <1>7 DEF Story, w, new

LEMMA SortKeeps ==
  ASSUME ClustersInv, Sort
  PROVE  ClustersInv'
<1>1. PICK p \in Post : groups' = Join(groups, p)
  BY DEF Sort
<1>2. UNCHANGED <<clock, stored, seen, held>>
  BY DEF Sort
<1>3. groups' \in Seq(Counting)
  BY <1>1, JoinIsTyped DEF ClustersInv
<1> QED BY <1>2, <1>3 DEF ClustersInv

\* One element of a sequence is replaced.
LEMMA Replaced ==
  ASSUME NEW S, NEW f \in Seq(S), NEW i \in 1..Len(f), NEW x \in S
  PROVE  /\ [f EXCEPT ![i] = x] \in Seq(S) /\ Len([f EXCEPT ![i] = x]) = Len(f)
         /\ \A j \in 1..Len(f) : [f EXCEPT ![i] = x][j] = IF j = i THEN x ELSE f[j]
OBVIOUS

LEMMA PlaceKeeps ==
  ASSUME ClustersInv, Place
  PROVE  ClustersInv'
<1> DEFINE g == Head(groups)
<1>1. g \in Counting /\ Tail(groups) \in Seq(Counting)
  BY DEF ClustersInv, Place
<1>2. groups' = Tail(groups) /\ UNCHANGED <<clock, stored>>
  BY DEF Place
<1>3. /\ clock \in Nat /\ stored \in Seq(Story) /\ held \in Seq(Story) /\ seen \in Seq(Cluster)
      /\ Len(seen) = Len(held) /\ \A i \in 1..Len(held) : seen[i].first = held[i].first
  BY DEF ClustersInv
<1>4. CASE OpenStory
  <2> DEFINE new == [centroid |-> Mean(g), first |-> clock, updated |-> clock,
                     n |-> 0, sum |-> 0, pure |-> TRUE]
             w == WithPosts(new, g)
  <2>1. seen' = Append(held, new) /\ held' = Append(held, w)
    BY <1>4 DEF OpenStory
  <2>2. new \in Cluster /\ w \in Story /\ w.first = clock /\ new.first = clock
    BY <1>1, <1>3, OpenedIsStory
  <2> HIDE DEF new, w
  <2>3. held \in Seq(Cluster)
    BY <1>3 DEF Story
  <2>4. seen' \in Seq(Cluster) /\ held' \in Seq(Story) /\ Len(seen') = Len(held')
    BY <1>3, <2>1, <2>2, <2>3
  <2>5. \A i \in 1..Len(held') : seen'[i].first = held'[i].first
    BY <1>3, <2>1, <2>2
  <2> QED BY <1>1, <1>2, <1>3, <2>4, <2>5 DEF ClustersInv
<1>5. ASSUME NEW i \in Mergeable(g), Merge(i) PROVE ClustersInv'
  <2>1. i \in 1..Len(held) /\ Recent(seen[i])
    BY <1>3 DEF Mergeable, Nearest
  <2> DEFINE w == WithPosts(Refreshed(held[i], seen[i], g), g)
  <2>2. seen' = seen /\ held' = [held EXCEPT ![i] = w]
    BY <1>5 DEF Merge
  <2>3. held[i] \in Story /\ seen[i] \in Cluster /\ seen[i].first = held[i].first
    BY <1>3, <2>1
  <2>4. w \in Story /\ w.first = held[i].first
    BY <1>1, <1>3, <2>1, <2>3, RefreshedIsStory
  <2> HIDE DEF w
  <2>5. /\ held' \in Seq(Story) /\ Len(held') = Len(held)
        /\ \A j \in 1..Len(held) : held'[j] = IF j = i THEN w ELSE held[j]
    BY <1>3, <2>1, <2>2, <2>4, Replaced
  <2>6. \A j \in 1..Len(held') : seen'[j].first = held'[j].first
    BY <1>3, <2>2, <2>4, <2>5
  <2> QED BY <1>1, <1>2, <1>3, <2>2, <2>5, <2>6 DEF ClustersInv
<1> QED BY <1>4, <1>5 DEF Place

LEMMA ClustersStep ==
  ASSUME ClustersInv, [ClustersNext]_clusterVars
  PROVE  ClustersInv'
<1>1. CASE StartBatch
  <2>1. stored \in Seq(Cluster)
    BY DEF ClustersInv, Story
  <2> QED BY <1>1, <2>1 DEF StartBatch, ClustersInv
<1>2. CASE CommitBatch \/ BatchFails
  <2>1. /\ seen' = <<>> /\ held' = <<>> /\ groups' = <<>> /\ clock' = clock
        /\ stored' \in Seq(Story)
    BY <1>2 DEF CommitBatch, BatchFails, EndBatch, ClustersInv
  <2> QED BY <2>1 DEF ClustersInv
<1>3. CASE Hour \/ UNCHANGED clusterVars
  <2>1. UNCHANGED <<stored, seen, held, groups>> /\ clock' \in Nat
    BY <1>3 DEF Hour, clusterVars, ClustersInv
  <2> QED BY <2>1 DEF ClustersInv
<1> QED BY <1>1, <1>2, <1>3, SortKeeps, PlaceKeeps DEF ClustersNext

LEMMA ClustersKept == Spec => []ClustersInv
<1>1. Init => ClustersInv
  BY DEF Init, ClustersInit, ClustersInv
<1>2. ClustersInv /\ [Next]_vars => ClustersInv'
  BY ClustersStep DEF Next, vars, Serving, Batching, Judging, Gating
<1> QED BY <1>1, <1>2, PTL DEF Spec

\* A story keeps its centre - the mean of its posts, if all of them were stored
\* and none was merged before a flush - and takes up no post after Span, for any
\* embeddings, thresholds and number of posts (_find_mergeable_cluster,
\* _merged_centroid).
THEOREM StoriesAreHeld == Spec => []StoriesHold
<1>1. ClustersInv => StoriesHold
  <2> SUFFICES ASSUME ClustersInv, NEW i \in DOMAIN stored
               PROVE  /\ stored[i].pure => CentroidOf(stored[i])
                      /\ stored[i].updated <= stored[i].first + Span
    BY Zenon DEF StoriesHold, CentroidIsMean, StoryEnds
  <2>1. stored[i] \in Story
    BY DEF ClustersInv
  <2> QED BY <2>1 DEF Story
<1> QED BY <1>1, ClustersKept, PTL

-----------------------------------------------------------------------------
(***************************************************************************)
(* Fractions.                                                              *)
(***************************************************************************)

Rational == Int \X (Nat \ {0})

LEMMA FracIsSame ==
  ASSUME NEW a \in Int, NEW b \in Nat \ {0}
  PROVE  Frac(a, b) \in Rational /\ Same(Frac(a, b), <<a, b>>)
<1> DEFINE d == Gcd[IF a < 0 THEN -a ELSE a, b]
<1>0. Frac(a, b) = IF d \in 1..b /\ a % d = 0 /\ b % d = 0 THEN <<a \div d, b \div d>> ELSE <<a, b>>
  BY DEF Frac
<1> HIDE DEF d
<1>1. CASE d \in 1..b /\ a % d = 0 /\ b % d = 0
  <2> DEFINE x == a \div d
             y == b \div d
  <2>1. Frac(a, b) = <<x, y>>
    BY <1>0, <1>1
  <2>2. \A n \in Int, e \in Nat \ {0} : n % e = 0 => n \div e \in Int /\ n = e * (n \div e)
    OBVIOUS
  <2>3. d \in Nat \ {0}
    BY <1>1
  <2>4. x \in Int /\ y \in Int /\ a = d * x /\ b = d * y
    BY <1>1, <2>2, <2>3
  <2> HIDE DEF x, y
  <2>5. y > 0
    <3>1. ASSUME y <= 0 PROVE FALSE
      <4>1. d * y <= 0
        BY <2>3, <2>4, <3>1
      <4> QED BY <2>4, <4>1
    <3> QED BY <2>4, <3>1
  <2>6. x * (d * y) = (d * x) * y
    BY <2>3, <2>4
  <2> QED BY <2>1, <2>4, <2>5, <2>6 DEF Rational, Same
<1>2. CASE ~(d \in 1..b /\ a % d = 0 /\ b % d = 0)
  <2>1. Frac(a, b) = <<a, b>>
    BY <1>0, <1>2
  <2> QED BY <2>1 DEF Rational, Same
<1> QED BY <1>1, <1>2

LEMMA Cancelled ==
  ASSUME NEW m \in Nat \ {0}, NEW x \in Int, NEW y \in Int, m * x <= m * y
  PROVE  x <= y
OBVIOUS

LEMMA Scaled ==
  ASSUME NEW m \in Nat, NEW x \in Int, NEW y \in Int, x <= y
  PROVE  m * x <= m * y
OBVIOUS

LEMMA AtMostIsTransitive ==
  ASSUME NEW x \in Rational, NEW y \in Rational, NEW z \in Rational, AtMost(x, y), AtMost(y, z)
  PROVE  AtMost(x, z)
<1>1. PICK a, c, e \in Int, b, d, f \in Nat \ {0} : x = <<a, b>> /\ y = <<c, d>> /\ z = <<e, f>>
  BY DEF Rational
<1>2. a * d <= c * b /\ c * f <= e * d
  BY <1>1 DEF AtMost
<1>3. a * d \in Int /\ c * b \in Int /\ c * f \in Int /\ e * d \in Int /\ a * f \in Int
      /\ e * b \in Int
  BY <1>1
<1>4. f * (a * d) <= f * (c * b) /\ b * (c * f) <= b * (e * d)
  BY <1>1, <1>2, <1>3, Scaled
<1>5. /\ f * (a * d) = d * (a * f) /\ f * (c * b) = b * (c * f) /\ b * (e * d) = d * (e * b)
  BY <1>1
<1>6. d * (a * f) <= d * (e * b)
  <2>1. f * (a * d) \in Int /\ b * (c * f) \in Int /\ b * (e * d) \in Int
    BY <1>1, <1>3
  <2> QED BY <1>4, <1>5, <2>1
<1>7. a * f <= e * b
  BY <1>1, <1>3, <1>6, Cancelled
<1> QED BY <1>1, <1>7 DEF AtMost

\* What equals is at most and at least.
LEMMA SameIsAtMost ==
  ASSUME NEW x \in Rational, NEW y \in Rational, Same(x, y)
  PROVE  AtMost(x, y) /\ AtMost(y, x)
<1>1. PICK a, c \in Int, b, d \in Nat \ {0} : x = <<a, b>> /\ y = <<c, d>>
  BY DEF Rational
<1>2. a * d \in Int /\ c * b \in Int
  BY <1>1
<1> QED BY <1>1, <1>2 DEF AtMost, Same

LEMMA AtMostIsReflexive ==
  ASSUME NEW x \in Rational
  PROVE  AtMost(x, x)
<1>1. PICK a \in Int, b \in Nat \ {0} : x = <<a, b>>
  BY DEF Rational
<1> QED BY <1>1 DEF AtMost

LEMMA FracIsMonotonic ==
  ASSUME NEW a \in Int, NEW b \in Nat \ {0}, NEW c \in Int, NEW d \in Nat \ {0}, a * d <= c * b
  PROVE  AtMost(Frac(a, b), Frac(c, d))
<1>1. /\ Frac(a, b) \in Rational /\ Frac(c, d) \in Rational
      /\ <<a, b>> \in Rational /\ <<c, d>> \in Rational
  BY FracIsSame DEF Rational
<1>2. AtMost(<<a, b>>, <<c, d>>)
  BY DEF AtMost
<1>3. AtMost(Frac(a, b), <<a, b>>) /\ AtMost(<<c, d>>, Frac(c, d))
  BY <1>1, FracIsSame, SameIsAtMost
<1> QED BY <1>1, <1>2, <1>3, AtMostIsTransitive

LEMMA PlusIsMonotonic ==
  ASSUME NEW x \in Rational, NEW y \in Rational, NEW u \in Rational, NEW v \in Rational,
         AtMost(x, u), AtMost(y, v)
  PROVE  Plus(x, y) \in Rational /\ AtMost(Plus(x, y), Plus(u, v))
<1>1. PICK a, c \in Int, b, d \in Nat \ {0} : x = <<a, b>> /\ y = <<c, d>>
  BY DEF Rational
<1>9. PICK e, g \in Int, f, h \in Nat \ {0} : u = <<e, f>> /\ v = <<g, h>>
  BY DEF Rational
<1>2. a * f <= e * b /\ c * h <= g * d
  BY <1>1, <1>9 DEF AtMost
<1>3. /\ a * f \in Int /\ e * b \in Int /\ c * h \in Int /\ g * d \in Int
      /\ d * h \in Nat \ {0} /\ b * f \in Nat \ {0} /\ b * d \in Nat \ {0} /\ f * h \in Nat \ {0}
      /\ a * d + c * b \in Int /\ e * h + g * f \in Int
  BY <1>1, <1>9
<1>4. (d * h) * (a * f) <= (d * h) * (e * b) /\ (b * f) * (c * h) <= (b * f) * (g * d)
  BY <1>2, <1>3, Scaled
<1>5. /\ (a * d + c * b) * (f * h) = (d * h) * (a * f) + (b * f) * (c * h)
      /\ (e * h + g * f) * (b * d) = (d * h) * (e * b) + (b * f) * (g * d)
  BY <1>1, <1>9
<1>6. /\ (d * h) * (a * f) \in Int /\ (d * h) * (e * b) \in Int
      /\ (b * f) * (c * h) \in Int /\ (b * f) * (g * d) \in Int
  BY <1>3
<1>7. (a * d + c * b) * (f * h) <= (e * h + g * f) * (b * d)
  BY <1>4, <1>5, <1>6
<1>8. Plus(x, y) = Frac(a * d + c * b, b * d) /\ Plus(u, v) = Frac(e * h + g * f, f * h)
  BY <1>1, <1>9 DEF Plus
<1> QED BY <1>3, <1>7, <1>8, FracIsSame, FracIsMonotonic

LEMMA TimesIsMonotonic ==
  ASSUME NEW n \in Nat, NEW x \in Rational, NEW y \in Rational, AtMost(x, y)
  PROVE  Times(n, x) \in Rational /\ AtMost(Times(n, x), Times(n, y))
<1>1. PICK a, c \in Int, b, d \in Nat \ {0} : x = <<a, b>> /\ y = <<c, d>>
  BY DEF Rational
<1>2. a * d <= c * b /\ a * d \in Int /\ c * b \in Int /\ n * a \in Int /\ n * c \in Int
  BY <1>1 DEF AtMost
<1>3. n * (a * d) <= n * (c * b)
  BY <1>2, Scaled
<1>4. (n * a) * d <= (n * c) * b
  <2>1. (n * a) * d = n * (a * d) /\ (n * c) * b = n * (c * b)
    BY <1>1
  <2> QED BY <1>3, <2>1
<1>5. Times(n, x) = Frac(n * a, b) /\ Times(n, y) = Frac(n * c, d)
  BY <1>1 DEF Times
<1> QED BY <1>1, <1>2, <1>4, <1>5, FracIsSame, FracIsMonotonic

LEMMA OverIsMonotonic ==
  ASSUME NEW n \in Nat \ {0}, NEW x \in Rational, NEW y \in Rational, AtMost(x, y)
  PROVE  Over(x, n) \in Rational /\ AtMost(Over(x, n), Over(y, n))
<1>1. PICK a, c \in Int, b, d \in Nat \ {0} : x = <<a, b>> /\ y = <<c, d>>
  BY DEF Rational
<1>2. a * d <= c * b /\ a * d \in Int /\ c * b \in Int /\ n * b \in Nat \ {0}
      /\ n * d \in Nat \ {0}
  BY <1>1 DEF AtMost
<1>3. n * (a * d) <= n * (c * b)
  BY <1>2, Scaled
<1>4. a * (n * d) <= c * (n * b)
  <2>1. a * (n * d) = n * (a * d) /\ c * (n * b) = n * (c * b)
    BY <1>1
  <2> QED BY <1>3, <2>1
<1>5. Over(x, n) = Frac(a, n * b) /\ Over(y, n) = Frac(c, n * d)
  BY <1>1 DEF Over
<1> QED BY <1>1, <1>2, <1>4, <1>5, FracIsSame, FracIsMonotonic

\* The terms of a sum, and what they are out of.
Unit01 == {x \in Rational : AtMost(Zero, x) /\ AtMost(x, One)}

LEMMA ConstantsAreRational ==
  /\ Zero \in Rational /\ One \in Rational /\ Zero \in Unit01
  /\ \A n \in Int : <<n, 1>> \in Rational
BY DEF Zero, One, Rational, Unit01, AtMost

LEMMA CappedIsMonotonic ==
  ASSUME NEW x \in Rational, NEW y \in Rational, AtMost(Zero, x), AtMost(x, y)
  PROVE  Capped(x) \in Unit01 /\ AtMost(Capped(x), Capped(y))
<1>1. /\ AtMost(One, x) \/ AtMost(x, One)
      /\ AtMost(Zero, One) /\ AtMost(One, One) /\ AtMost(y, y) /\ AtMost(x, x)
  <2>1. PICK a, c \in Int, b, d \in Nat \ {0} : x = <<a, b>> /\ y = <<c, d>>
    BY DEF Rational
  <2>2. a * d \in Int /\ c * b \in Int /\ c * d \in Int /\ a * b \in Int
    BY <2>1
  <2> QED BY <2>1, <2>2 DEF AtMost, Zero, One
<1>2. AtMost(One, x) => AtMost(One, y)
  BY ConstantsAreRational, AtMostIsTransitive
<1> QED BY <1>1, <1>2, ConstantsAreRational DEF Capped, Unit01

\* A rate, scaled and capped, is a term.
LEMMA ScaledIsTerm ==
  ASSUME NEW n \in Nat \ {0}, NEW x \in Rational, NEW y \in Rational,
         AtMost(Zero, x), AtMost(x, y)
  PROVE  Capped(Over(x, n)) \in Unit01 /\ AtMost(Capped(Over(x, n)), Capped(Over(y, n)))
<1>1. Over(x, n) \in Rational /\ Over(y, n) \in Rational /\ AtMost(Over(x, n), Over(y, n))
  <2>1. AtMost(y, y)
    BY AtMostIsReflexive
  <2> QED BY <2>1, OverIsMonotonic
<1>2. AtMost(Zero, Over(x, n))
  <2>1. Over(Zero, n) \in Rational /\ AtMost(Over(Zero, n), Over(x, n))
    BY ConstantsAreRational, OverIsMonotonic
  <2>2. AtMost(Zero, Over(Zero, n))
    <3>1. Over(Zero, n) = Frac(0, n) /\ 0 * n <= 0 * 1
      BY DEF Over, Zero
    <3>2. Frac(0, n) \in Rational /\ Same(Frac(0, n), <<0, n>>)
      BY FracIsSame
    <3>3. <<0, n>> \in Rational /\ AtMost(Zero, <<0, n>>)
      BY DEF Rational, AtMost, Zero
    <3> QED BY <3>1, <3>2, <3>3, SameIsAtMost, AtMostIsTransitive, ConstantsAreRational
  <2> QED BY <1>1, <2>1, <2>2, AtMostIsTransitive, ConstantsAreRational
<1> QED BY <1>1, <1>2, CappedIsMonotonic

LEMMA FlooredIsRational ==
  ASSUME NEW x \in Rational
  PROVE  Floored(x) \in Rational /\ AtMost(Zero, Floored(x))
<1>1. PICK a \in Int, b \in Nat \ {0} : x = <<a, b>>
  BY DEF Rational
<1> QED BY <1>1, ConstantsAreRational DEF Floored, AtMost, Zero

-----------------------------------------------------------------------------
(***************************************************************************)
(* Finite sets of posts.                                                   *)
(***************************************************************************)

LEMMA ExtremesExist ==
  ASSUME NEW S \in SUBSET Int, S # {}, IsFiniteSet(S)
  PROVE  (\E m \in S : \A n \in S : n <= m) /\ (\E m \in S : \A n \in S : m <= n)
<1> DEFINE Good(T) == (\E m \in T : \A n \in T : n <= m) /\ (\E m \in T : \A n \in T : m <= n)
           Bad == {T \in SUBSET S : T # {} /\ ~Good(T)}
           R == StrictSubsetOrdering(S)
<1>1. IsWellFoundedOn(R, FiniteSubsetsOf(S))
  BY FS_StrictSubsetOrderingWellFounded
<1>2. FiniteSubsetsOf(S) = SUBSET S
  BY FS_FiniteSubsetsOfFinite
<1>3. SUFFICES ASSUME Bad # {} PROVE FALSE
  OBVIOUS
<1>4. PICK T \in Bad : \A U \in Bad : <<U, T>> \notin R
  <2>1. Bad \subseteq FiniteSubsetsOf(S)
    BY <1>2
  <2> HIDE DEF R, Bad
  <2> QED BY <1>1, <1>3, <2>1, WFMin
<1>5. PICK x \in T : TRUE
  OBVIOUS
<1> DEFINE U == T \ {x}
<1>6. U \notin Bad
  BY <1>4, <1>5 DEF StrictSubsetOrdering
<1>7. CASE U = {}
  <2>1. T = {x}
    BY <1>7, <1>5
  <2> QED BY <2>1
<1>8. CASE U # {}
  <2>1. PICK m \in U : \A n \in U : n <= m
    BY <1>6, <1>8
  <2>2. PICK l \in U : \A n \in U : l <= n
    BY <1>6, <1>8
  <2>3. m \in Int /\ l \in Int /\ x \in Int /\ \A n \in T : n \in Int /\ (n = x \/ n \in U)
    BY <1>5
  <2>4. \E g \in T : \A n \in T : n <= g
    <3>1. CASE x <= m
      BY <2>1, <2>3, <3>1
    <3>2. CASE m <= x
      BY <2>1, <2>3, <3>2
    <3> QED BY <2>3, <3>1, <3>2
  <2>5. \E g \in T : \A n \in T : g <= n
    <3>1. CASE l <= x
      BY <2>2, <2>3, <3>1
    <3>2. CASE x <= l
      BY <2>2, <2>3, <3>2
    <3> QED BY <2>3, <3>1, <3>2
  <2> QED BY <2>4, <2>5
<1> QED BY <1>7, <1>8

\* A set of posts: there are finitely many, and some.
Batch(ps) == IsFiniteSet(ps) /\ ps # {} /\ \A p \in ps : p.at \in Int

LEMMA FiniteImage ==
  ASSUME NEW S, IsFiniteSet(S), NEW f, f = [x \in S |-> f[x]]
  PROVE  IsFiniteSet({f[x] : x \in S}) /\ Cardinality({f[x] : x \in S}) \in Nat
<1> DEFINE T == {f[x] : x \in S}
<1>1. f \in Surjection(S, T)
  BY DEF Surjection
<1> HIDE DEF T
<1>2. IsFiniteSet(T)
  BY <1>1, FS_Surjection
<1>3. Cardinality(T) \in Nat
  BY <1>2, FS_CardinalityType
<1> QED BY <1>2, <1>3 DEF T

LEMMA ExtentIsNat ==
  ASSUME NEW ps, Batch(ps)
  PROVE  Extent(ps) \in Nat
<1> DEFINE f == [p \in ps |-> p.at]
           M == Moments(ps)
<1>1. M = {f[p] : p \in ps} /\ f = [p \in ps |-> f[p]]
  BY DEF Moments
<1> HIDE DEF f
<1>2. IsFiniteSet(M)
  BY <1>1, FiniteImage DEF Batch
<1>3. M # {} /\ M \in SUBSET Int
  BY DEF Moments, Batch
<1> HIDE DEF M
<1>4. PICK h \in M : \A n \in M : n <= h
  BY <1>2, <1>3, ExtremesExist
<1>5. PICK l \in M : \A n \in M : l <= n
  BY <1>2, <1>3, ExtremesExist
<1>6. Max(M) \in M /\ \A n \in M : Max(M) >= n
  BY <1>3, <1>4 DEF Max
<1>7. Min(M) \in M /\ \A n \in M : Min(M) <= n
  BY <1>3, <1>5 DEF Min
<1>8. Max(M) - Min(M) \in Nat
  <2>1. Max(M) \in Int /\ Min(M) \in Int
    BY <1>3, <1>6, <1>7
  <2>2. Max(M) >= Min(M)
    BY <1>6, <1>7
  <2> QED BY <2>1, <2>2
<1> QED BY <1>8 DEF Extent, M

LEMMA ChannelsAreCounted ==
  ASSUME NEW ps, Batch(ps)
  PROVE  Cardinality(ChannelsOf(ps)) \in Nat \ {0}
<1> DEFINE f == [p \in ps |-> p.ch]
<1>1. ChannelsOf(ps) = {f[p] : p \in ps} /\ f = [p \in ps |-> f[p]]
  BY DEF ChannelsOf
<1> HIDE DEF f
<1>2. IsFiniteSet(ChannelsOf(ps)) /\ Cardinality(ChannelsOf(ps)) \in Nat
  BY <1>1, FiniteImage DEF Batch
<1>3. ChannelsOf(ps) # {}
  BY DEF ChannelsOf, Batch
<1> QED BY <1>2, <1>3, FS_EmptySet

-----------------------------------------------------------------------------
(***************************************************************************)
(* The score.                                                              *)
(***************************************************************************)

LEMMA AccelerationIsTerm ==
  ASSUME NEW ps, Batch(ps)
  PROVE  Capped(Over(Floored(Acceleration(ps)), 10)) \in Unit01
<1> DEFINE early == {p \in ps : 2 * (p.at - Min(Moments(ps))) <= Extent(ps)}
           n == Cardinality(ps \ early)
           m == Cardinality(early)
<1>1. n \in Nat /\ m \in Nat
  <2>1. early \subseteq ps /\ ps \ early \subseteq ps
    OBVIOUS
  <2> HIDE DEF early
  <2> QED BY <2>1, FS_Subset, FS_CardinalityType DEF Batch
<1>2. Acceleration(ps) = IF Extent(ps) = 0 THEN Zero ELSE <<120 * (n - m), AtLeast(2, Extent(ps))>>
  BY DEF Acceleration
<1> HIDE DEF n, m
<1>3. AtLeast(2, Extent(ps)) \in Nat \ {0}
  BY ExtentIsNat DEF AtLeast
<1>4. Acceleration(ps) \in Rational
  BY <1>1, <1>2, <1>3, ConstantsAreRational DEF Rational
<1> DEFINE x == Floored(Acceleration(ps))
<1>5. x \in Rational /\ AtMost(Zero, x)
  BY <1>4, FlooredIsRational
<1> HIDE DEF x
<1>6. AtMost(x, x)
  BY <1>5, AtMostIsReflexive
<1> QED BY <1>5, <1>6, ScaledIsTerm DEF x

\* The breadth, of an hour at least and a channel less, is no greater.
LEMMA BreadthIsGreater ==
  ASSUME NEW u \in Nat \ {0}, NEW e \in Nat, NEW s \in Nat, 60 <= s, e <= s
  PROVE  /\ <<60 * u, AtLeast(1, e)>> \in Rational /\ AtMost(Zero, <<60 * u, AtLeast(1, e)>>)
         /\ <<60 * (u - 1), s>> \in Rational /\ AtMost(Zero, <<60 * (u - 1), s>>)
         /\ AtMost(<<60 * (u - 1), s>>, <<60 * u, AtLeast(1, e)>>)
<1> DEFINE m == AtLeast(1, e)
<1>1. m \in Nat \ {0} /\ m <= s
  BY DEF AtLeast
<1> HIDE DEF m
<1>2. (60 * (u - 1)) * m <= (60 * u) * s
  <2>1. 60 * (u - 1) \in Nat /\ 60 * u \in Nat /\ 60 * (u - 1) <= 60 * u
    OBVIOUS
  <2>2. (60 * (u - 1)) * m <= (60 * (u - 1)) * s
    BY <1>1, <2>1, Scaled
  <2>3. s * (60 * (u - 1)) <= s * (60 * u)
    BY <2>1, Scaled
  <2>4. /\ s * (60 * (u - 1)) = (60 * (u - 1)) * s /\ s * (60 * u) = (60 * u) * s
        /\ (60 * (u - 1)) * m \in Int /\ (60 * (u - 1)) * s \in Int /\ (60 * u) * s \in Int
    BY <1>1, <2>1
  <2> QED BY <2>2, <2>3, <2>4
<1> QED BY <1>1, <1>2 DEF Rational, AtMost, Zero, m

\* The span that the burst tells.
LEMMA BurstTellsSpan ==
  ASSUME NEW u \in Nat \ {0}, NEW b \in Nat, 60 <= b
  PROVE  (IF 60 * u <= 0 THEN 60 ELSE AtLeast(60, (60 * u * b) \div (60 * u))) = b
<1>1. \A m \in Nat \ {0} : (m * b) \div m = b
  OBVIOUS
<1>2. 60 * u \in Nat \ {0}
  OBVIOUS
<1> QED BY <1>1, <1>2 DEF AtLeast

\* What the aggregates of a story alone make of its time.
FallbackInputs(in) ==
  [posts |-> {}, weight |-> in.weight, unique |-> in.unique, delta |-> in.unique - 1,
   span |-> AtLeast(60, in.span), watched |-> in.watched]

LEMMA FallbackGoesByAggregates ==
  ASSUME NEW ps, Batch(ps), NEW w \in Nat \ {0}
  PROVE  LET in == Inputs(ps, w)
         IN  Fallback(Features(in), AtLeast(1, in.watched)) = ViralScore(FallbackInputs(in))
<1> DEFINE u == Cardinality(ChannelsOf(ps))
           e == Extent(ps)
           in == Inputs(ps, w)
<1>1. u \in Nat \ {0} /\ e \in Nat
  BY ChannelsAreCounted, ExtentIsNat
<1>2. /\ in.unique = u /\ in.span = e /\ in.watched = w /\ in.weight = Weight(ps)
  BY DEF Inputs
<1> HIDE DEF u, e, in
<1>3. /\ Features(in).ch = u /\ Features(in).weight = in.weight
      /\ Features(in).burst[1] = 60 * u /\ Features(in).burst[2] = AtLeast(60, e)
  BY <1>2 DEF Features
<1>4. AtLeast(1, in.watched) = w /\ AtLeast(0, u - 1) = u - 1 /\ 60 <= AtLeast(60, e)
      /\ AtLeast(60, e) \in Nat
  BY <1>1, <1>2 DEF AtLeast
<1>5. (IF 60 * u <= 0 THEN 60 ELSE AtLeast(60, (60 * u * AtLeast(60, e)) \div (60 * u))) = AtLeast(60, e)
  BY <1>1, <1>4, BurstTellsSpan
<1>6. Fallback(Features(in), w) =
        ViralScore([posts |-> {}, weight |-> in.weight, unique |-> u, delta |-> u - 1,
                    span |-> AtLeast(60, e), watched |-> w])
  BY <1>3, <1>4, <1>5 DEF Fallback
<1> QED BY <1>2, <1>4, <1>6 DEF FallbackInputs, in

\* Half the sum of two terms is a term, and grows with both.
LEMMA HalvesAreTerms ==
  ASSUME NEW a \in Unit01, NEW b \in Unit01, NEW c \in Unit01, NEW d \in Unit01,
         AtMost(a, c), AtMost(b, d)
  PROVE  /\ Over(Plus(a, b), 2) \in Unit01
         /\ AtMost(Over(Plus(a, b), 2), Over(Plus(c, d), 2))
<1>1. /\ a \in Rational /\ b \in Rational /\ c \in Rational /\ d \in Rational
      /\ AtMost(Zero, a) /\ AtMost(Zero, b) /\ AtMost(a, One) /\ AtMost(b, One)
      /\ Zero \in Rational /\ One \in Rational
  BY ConstantsAreRational DEF Unit01
<1>2. /\ Plus(a, b) \in Rational /\ Plus(c, d) \in Rational
      /\ Plus(Zero, Zero) \in Rational /\ Plus(One, One) \in Rational
      /\ AtMost(Plus(a, b), Plus(c, d)) /\ AtMost(Plus(Zero, Zero), Plus(a, b))
      /\ AtMost(Plus(a, b), Plus(One, One))
  <2>1. AtMost(c, c) /\ AtMost(d, d) /\ AtMost(One, One)
    BY <1>1, AtMostIsReflexive
  <2> QED BY <1>1, <2>1, PlusIsMonotonic
<1>3. /\ Over(Plus(a, b), 2) \in Rational /\ AtMost(Over(Plus(a, b), 2), Over(Plus(c, d), 2))
      /\ Over(Plus(Zero, Zero), 2) \in Rational /\ AtMost(Over(Plus(Zero, Zero), 2), Over(Plus(a, b), 2))
      /\ AtMost(Over(Plus(a, b), 2), Over(Plus(One, One), 2))
      /\ Over(Plus(One, One), 2) \in Rational
  <2>1. AtMost(Plus(One, One), Plus(One, One))
    BY <1>2, AtMostIsReflexive
  <2> QED BY <1>2, <2>1, OverIsMonotonic
<1>4. AtMost(Zero, Over(Plus(Zero, Zero), 2)) /\ AtMost(Over(Plus(One, One), 2), One)
  <2>1. Plus(Zero, Zero) = Frac(0, 1) /\ Plus(One, One) = Frac(2, 1)
    BY DEF Plus, Zero, One
  <2>2. \A n \in {0, 2} : /\ Frac(n, 1)[2] \in Nat \ {0} /\ Frac(n, 1)[1] \in Int
                          /\ Frac(n, 1)[1] = n * Frac(n, 1)[2]
    BY FracIsSame DEF Rational, Same
  <2>3. ASSUME NEW n \in {0, 2}
        PROVE  Same(Over(Frac(n, 1), 2), <<n, 2>>)
    <3> DEFINE x == Frac(n, 1)[1]
               y == Frac(n, 1)[2]
    <3>1. x \in Int /\ y \in Nat \ {0} /\ x = n * y
      BY <2>2
    <3>2. Over(Frac(n, 1), 2) = Frac(x, 2 * y)
      BY DEF Over
    <3> HIDE DEF x, y
    <3>3. 2 * y \in Nat \ {0}
      BY <3>1
    <3> DEFINE f == Frac(x, 2 * y)
    <3>4. f[1] \in Int /\ f[2] \in Nat \ {0} /\ f[1] * (2 * y) = x * f[2]
      BY <3>1, <3>3, FracIsSame DEF Rational, Same
    <3> HIDE DEF f
    <3>5. y * (f[1] * 2) = y * (n * f[2])
      BY <3>1, <3>4
    <3>6. f[1] * 2 = n * f[2]
      BY <3>1, <3>4, <3>5
    <3> QED BY <3>2, <3>6 DEF Same, f
  <2>4. /\ Same(Over(Plus(Zero, Zero), 2), <<0, 2>>) /\ Same(Over(Plus(One, One), 2), <<2, 2>>)
    BY <2>1, <2>3
  <2>5. /\ <<0, 2>> \in Rational /\ <<2, 2>> \in Rational
        /\ AtMost(Zero, <<0, 2>>) /\ AtMost(<<2, 2>>, One)
    BY DEF Rational, AtMost, Zero, One
  <2> QED BY <1>1, <1>3, <2>4, <2>5, SameIsAtMost, AtMostIsTransitive
<1>5. AtMost(Zero, Over(Plus(a, b), 2)) /\ AtMost(Over(Plus(a, b), 2), One)
  BY <1>1, <1>3, <1>4, AtMostIsTransitive
<1> QED BY <1>3, <1>5 DEF Unit01

LEMMA TemporalIsRaised ==
  ASSUME NEW ps, Batch(ps), NEW w \in Nat \ {0}
  PROVE  LET in == Inputs(ps, w)
             fb == FallbackInputs(in)
         IN  /\ Temporal(in) \in Unit01 /\ Temporal(fb) \in Unit01
             /\ AtMost(Temporal(fb), Temporal(in))
<1> DEFINE u == Cardinality(ChannelsOf(ps))
           e == Extent(ps)
           in == Inputs(ps, w)
           fb == FallbackInputs(in)
           s == AtLeast(60, e)
           accel == Capped(Over(Floored(Acceleration(ps)), 10))
           wide == <<60 * u, AtLeast(1, e)>>
           tight == <<60 * (u - 1), s>>
           a == Capped(Over(wide, 30))
           b == Capped(Over(tight, 30))
<1>1. u \in Nat \ {0} /\ e \in Nat /\ s \in Nat /\ 60 <= s /\ e <= s /\ AtLeast(60, s) = s
  BY ChannelsAreCounted, ExtentIsNat DEF AtLeast
<1>2. accel \in Unit01
  BY AccelerationIsTerm
<1>3. a \in Unit01 /\ b \in Unit01 /\ AtMost(b, a)
  <2>1. /\ wide \in Rational /\ tight \in Rational
        /\ AtMost(Zero, wide) /\ AtMost(Zero, tight) /\ AtMost(tight, wide)
    <3> HIDE DEF u, e, s
    <3> QED BY <1>1, BreadthIsGreater
  <2> HIDE DEF wide, tight
  <2>2. AtMost(wide, wide)
    BY <2>1, AtMostIsReflexive
  <2> QED BY <2>1, <2>2, ScaledIsTerm
<1> DEFINE x == IF u >= 2 THEN a ELSE Zero
           y == IF u - 1 >= 2 THEN b ELSE Zero
<1>4. Temporal(in) = Over(Plus(accel, x), 2)
  BY DEF Temporal, Inputs, Breadth, Batch
<1>5. Temporal(fb) = Over(Plus(Zero, y), 2)
  <2>1. fb.posts = {} /\ fb.delta = u - 1 /\ fb.span = s
    BY DEF FallbackInputs, Inputs
  <2> HIDE DEF fb, u, s
  <2> QED BY <1>1, <2>1 DEF Temporal
<1> HIDE DEF accel, a, b, u, in, fb
<1>6. x \in Unit01 /\ y \in Unit01 /\ AtMost(y, x)
  <2>1. a \in Rational /\ AtMost(Zero, a) /\ AtMost(Zero, Zero)
    BY <1>3, ConstantsAreRational DEF Unit01
  <2> QED BY <1>1, <1>3, <2>1, ConstantsAreRational
<1>7. Zero \in Unit01 /\ AtMost(Zero, accel)
  BY <1>2, ConstantsAreRational DEF Unit01
<1>8. AtMost(accel, accel) /\ AtMost(x, x)
  BY <1>2, <1>6, AtMostIsReflexive DEF Unit01
<1> HIDE DEF x, y
<1>9. Over(Plus(accel, x), 2) \in Unit01
  BY <1>2, <1>6, <1>8, HalvesAreTerms
<1>10. /\ Over(Plus(Zero, y), 2) \in Unit01
       /\ AtMost(Over(Plus(Zero, y), 2), Over(Plus(accel, x), 2))
  BY <1>2, <1>6, <1>7, HalvesAreTerms
<1> QED BY <1>4, <1>5, <1>9, <1>10 DEF fb, in

LEMMA TimesWithin ==
  ASSUME NEW n \in Nat, NEW x \in Unit01
  PROVE  Times(n, x) \in Rational /\ AtMost(Times(n, x), <<n, 1>>)
<1>1. PICK a \in Int, b \in Nat \ {0} : x = <<a, b>>
  BY DEF Unit01, Rational
<1>2. a <= b
  BY <1>1 DEF Unit01, AtMost, One
<1>3. n * a <= n * b /\ n * a \in Int
  BY <1>1, <1>2, Scaled
<1>4. AtMost(<<n * a, b>>, <<n, 1>>)
  BY <1>3 DEF AtMost
<1>5. /\ Times(n, x) \in Rational /\ <<n * a, b>> \in Rational /\ <<n, 1>> \in Rational
      /\ AtMost(Times(n, x), <<n * a, b>>)
  BY <1>1, <1>3, FracIsSame, SameIsAtMost DEF Times, Rational
<1> QED BY <1>4, <1>5, AtMostIsTransitive

LEMMA PlusWithin ==
  ASSUME NEW m \in Nat, NEW n \in Nat, NEW x \in Rational, NEW y \in Rational,
         AtMost(x, <<m, 1>>), AtMost(y, <<n, 1>>)
  PROVE  Plus(x, y) \in Rational /\ AtMost(Plus(x, y), <<m + n, 1>>)
<1>1. <<m, 1>> \in Rational /\ <<n, 1>> \in Rational /\ <<m + n, 1>> \in Rational
  BY DEF Rational
<1>2. /\ Plus(x, y) \in Rational
      /\ AtMost(Plus(x, y), Plus(<<m, 1>>, <<n, 1>>))
  BY <1>1, PlusIsMonotonic
<1>3. Plus(<<m, 1>>, <<n, 1>>) = Frac(m + n, 1)
  BY DEF Plus
<1>4. Frac(m + n, 1) \in Rational /\ AtMost(Frac(m + n, 1), <<m + n, 1>>)
  BY <1>1, FracIsSame, SameIsAtMost
<1> QED BY <1>1, <1>2, <1>3, <1>4, AtMostIsTransitive

\* What is not negative stays so.
LEMMA PositivesAddUp ==
  ASSUME NEW n \in Nat, NEW x \in Rational, NEW y \in Rational, AtMost(Zero, x), AtMost(Zero, y)
  PROVE  AtMost(Zero, Times(n, x)) /\ AtMost(Zero, Plus(x, y))
<1>1. Zero \in Rational
  BY ConstantsAreRational
<1>2. Times(n, Zero) = Frac(0, 1) /\ Plus(Zero, Zero) = Frac(0, 1)
  <2>1. Times(n, Zero) = Frac(n * 0, 1) /\ Plus(Zero, Zero) = Frac(0 * 1 + 0 * 1, 1 * 1)
    BY DEF Times, Plus, Zero
  <2>2. n * 0 = 0 /\ 0 * 1 + 0 * 1 = 0 /\ 1 * 1 = 1
    OBVIOUS
  <2> QED BY <2>1, <2>2
<1>3. Frac(0, 1) \in Rational /\ AtMost(Zero, Frac(0, 1))
  <2>1. Frac(0, 1) \in Rational /\ Same(Frac(0, 1), <<0, 1>>)
    BY FracIsSame
  <2> QED BY <2>1 DEF Same, AtMost, Zero, Rational
<1>4. /\ Times(n, x) \in Rational /\ AtMost(Times(n, Zero), Times(n, x))
      /\ Plus(x, y) \in Rational /\ AtMost(Plus(Zero, Zero), Plus(x, y))
  <2>1. AtMost(x, x) /\ AtMost(y, y)
    BY AtMostIsReflexive
  <2>2. Times(n, x) \in Rational /\ Plus(x, y) \in Rational
    BY <2>1, TimesIsMonotonic, PlusIsMonotonic
  <2>3. AtMost(Times(n, Zero), Times(n, x)) /\ AtMost(Plus(Zero, Zero), Plus(x, y))
    BY <1>1, TimesIsMonotonic, PlusIsMonotonic
  <2> QED BY <2>2, <2>3
<1> QED BY <1>1, <1>2, <1>3, <1>4, AtMostIsTransitive

\* A row of a score: at most 100, and not below what the fallback says.
Fair(r) ==
  /\ r.score \in Rational /\ r.fallback \in Rational
  /\ AtMost(r.score, <<100, 1>>) /\ AtMost(r.fallback, r.score) /\ AtMost(Zero, r.fallback)

LEMMA JudgedIsFair ==
  ASSUME NEW t \in Subjects, NEW ps, Batch(ps)
  PROVE  Fair(Judged(t, ps))
<1> DEFINE w == Cardinality(Covers[t])
           in == Inputs(ps, w)
           fb == FallbackInputs(in)
           u == Cardinality(ChannelsOf(ps))
<1>1. w \in Nat \ {0}
  <2>1. IsFiniteSet(Outlets) /\ Covers[t] \subseteq Outlets /\ Covers[t] # {}
    <3>1. IsFiniteSet(Outlets) /\ Covers \in [Subjects -> (SUBSET Outlets) \ {{}}]
      BY VerdictsParameters
    <3>2. Covers[t] \in (SUBSET Outlets) \ {{}}
      BY <3>1
    <3> QED BY <3>1, <3>2
  <2>2. IsFiniteSet(Covers[t])
    BY <2>1, FS_Subset
  <2> QED BY <2>1, <2>2, FS_CardinalityType, FS_EmptySet
<1>2. Judged(t, ps).score = ViralScore(in) /\ Judged(t, ps).fallback = ViralScore(fb)
  BY <1>1, FallbackGoesByAggregates DEF Judged
<1>3. /\ fb.weight = in.weight /\ fb.unique = in.unique /\ fb.watched = in.watched
      /\ in.unique = u /\ in.watched = w
  BY DEF FallbackInputs, Inputs
<1> DEFINE T == Temporal(in)
           S == Temporal(fb)
           E == Engagement(in.weight)
           X == CrossChannel(u, w)
<1>4. T \in Unit01 /\ S \in Unit01 /\ AtMost(S, T)
  BY <1>1, TemporalIsRaised
<1>5. E \in Unit01
  <2>1. \A n \in 0..100 : <<n, 100>> \in Unit01
    BY DEF Unit01, Rational, AtMost, Zero, One
  <2> DEFINE n == IF in.weight \in DOMAIN Engaged THEN Engaged[in.weight] ELSE 100
  <2>2. n \in 0..100
    <3> HIDE DEF in
    <3>1. CASE in.weight \in DOMAIN Engaged
      BY <3>1, ScoreParameters
    <3>2. CASE in.weight \notin DOMAIN Engaged
      BY <3>2
    <3> QED BY <3>1, <3>2
  <2>3. E = <<n, 100>>
    BY DEF Engagement
  <2> HIDE DEF n, E
  <2> QED BY <2>1, <2>2, <2>3
<1>6. X \in Unit01
  <2>1. u \in Nat \ {0}
    BY ChannelsAreCounted
  <2> HIDE DEF u, w
  <2>2. <<u, w>> \in Rational /\ AtMost(Zero, <<u, w>>)
    BY <1>1, <2>1 DEF Rational, AtMost, Zero
  <2>3. AtMost(<<u, w>>, <<u, w>>)
    BY <2>2, AtMostIsReflexive
  <2>4. Capped(<<u, w>>) \in Unit01
    BY <2>2, <2>3, CappedIsMonotonic
  <2> QED BY <1>1, <2>4 DEF CrossChannel
<1>7. /\ ViralScore(in) = Plus(Plus(Times(15, T), Times(55, E)), Times(30, X))
      /\ ViralScore(fb) = Plus(Plus(Times(15, S), Times(55, E)), Times(30, X))
  BY <1>3 DEF ViralScore
<1> HIDE DEF T, S, E, X, in, fb
<1>8. /\ Times(15, T) \in Rational /\ Times(15, S) \in Rational
      /\ Times(55, E) \in Rational /\ Times(30, X) \in Rational
      /\ AtMost(Times(15, T), <<15, 1>>) /\ AtMost(Times(55, E), <<55, 1>>)
      /\ AtMost(Times(30, X), <<30, 1>>)
  BY <1>4, <1>5, <1>6, TimesWithin
<1>9. /\ Plus(Times(15, T), Times(55, E)) \in Rational
      /\ AtMost(Plus(Times(15, T), Times(55, E)), <<15 + 55, 1>>)
  BY <1>8, PlusWithin
<1>10. ViralScore(in) \in Rational /\ AtMost(ViralScore(in), <<15 + 55 + 30, 1>>)
  BY <1>7, <1>8, <1>9, PlusWithin
<1>11. AtMost(Times(15, S), Times(15, T))
  BY <1>4, TimesIsMonotonic DEF Unit01
<1>12. AtMost(Times(55, E), Times(55, E)) /\ AtMost(Times(30, X), Times(30, X))
  BY <1>8, AtMostIsReflexive
<1>13. /\ Plus(Times(15, S), Times(55, E)) \in Rational
       /\ AtMost(Plus(Times(15, S), Times(55, E)), Plus(Times(15, T), Times(55, E)))
  BY <1>8, <1>11, <1>12, PlusIsMonotonic
<1>14. ViralScore(fb) \in Rational /\ AtMost(ViralScore(fb), ViralScore(in))
  BY <1>7, <1>8, <1>9, <1>12, <1>13, PlusIsMonotonic
<1>15. AtMost(ViralScore(in), <<100, 1>>)
  BY <1>10
<1>16. AtMost(Zero, ViralScore(fb))
  <2>1. AtMost(Zero, Times(15, S)) /\ AtMost(Zero, Times(55, E)) /\ AtMost(Zero, Times(30, X))
    BY <1>4, <1>5, <1>6, PositivesAddUp DEF Unit01
  <2>2. AtMost(Zero, Plus(Times(15, S), Times(55, E)))
    BY <1>8, <2>1, PositivesAddUp
  <2> QED BY <1>7, <1>8, <1>13, <2>1, <2>2, PositivesAddUp
<1> QED BY <1>2, <1>10, <1>14, <1>15, <1>16 DEF Fair

-----------------------------------------------------------------------------
(***************************************************************************)
(* The ticks over one story.  Of a tick the invariant says what it has     *)
(* read: posts up to its start, windows with none below them left out,     *)
(* and, if it is alone, no less than any snapshot shows.                   *)
(***************************************************************************)

FairRow == {r \in [score : Rational, fallback : Rational] : Fair(r)}
ScorerTick == [at : {"off", "due", "read", "match", "score", "end"}, now : Int, due : SUBSET Observed,
         posts : SUBSET Arrival, new : SUBSET Observed, subject : Int, row : FairRow]

Until(now) == {p \in arrived : story.first <= p.at /\ p.at <= now}
Complete(S) == \A w \in S, v \in Observed : v < w => v \in S \cup Captured

TickWell(r) ==
  /\ r \in ScorerTick
  /\ r.at = "score" => r.subject \in Subjects
  /\ r.at = "off" => r.due = {} /\ r.posts = {}
  /\ r.at \in {"off", "due", "read"} => r.new = {}
  /\ r.at # "off" => story.first # -1 /\ story.first <= r.now /\ r.now <= Now
  /\ r.posts \subseteq Until(r.now)
  /\ Complete(r.due) /\ Complete(r.new)

\* What a tick that none has overlapped knows of the snapshots.
TickAhead(r) ==
  /\ (r.due \cup r.new) \cap Captured = {}
  /\ r.at # "off" => \A v \in Captured : snapshot[v].age <= r.now - story.first
  /\ r.at = "read" \/ r.new # {} => \A v \in Captured : snapshot[v].posts \subseteq r.posts

VerdictTypes ==
  /\ moment \in Nat
  /\ arrived \in SUBSET Arrival /\ IsFiniteSet(arrived)
  /\ story \in [first : Int, updated : Int] /\ story.first <= Now
  /\ story.first = -1 \/ story.first \in Nat
  /\ snapshot \in [Observed -> Capture]
  /\ verdict \in FairRow
  /\ scorer \in [Scorers -> ScorerTick]
  /\ overlaid \in BOOLEAN

TicksWell == \A s \in Scorers : TickWell(scorer[s])
TicksAhead == ~overlaid => \A s \in Scorers : TickAhead(scorer[s])
TickAlone ==
  ~overlaid => \A s, z \in Scorers : scorer[s].at # "off" /\ scorer[z].at # "off" => s = z

RowsWell ==
  \A v \in Captured : /\ story.first # -1
                      /\ snapshot[v].age \in Nat /\ snapshot[v].age <= Now - story.first
                      /\ snapshot[v].posts \subseteq Until(story.first + snapshot[v].age)

VerdictInv ==
  /\ VerdictTypes /\ TicksWell /\ TicksAhead /\ TickAlone /\ RowsWell /\ Complete(Captured)
  /\ SnapshotsGrow

LEMMA NowGrows ==
  ASSUME NEW m \in Nat
  PROVE  Unit * m \in Nat /\ Unit * m <= Unit * (m + 1)
<1>1. Unit \in Nat
  BY VerdictsParameters
<1> QED BY <1>1

LEMMA IdlingIsWell ==
  /\ Idling \in ScorerTick /\ TickWell(Idling) /\ TickAhead(Idling)
  /\ Idling.at = "off" /\ Unscored \in FairRow
<1>1. Unscored \in FairRow
  <2>1. <<100, 1>> \in Rational /\ AtMost(Zero, <<100, 1>>) /\ AtMost(Zero, Zero)
        /\ Zero \in Rational
    BY ConstantsAreRational DEF Rational, AtMost, Zero
  <2> QED BY <2>1 DEF Unscored, FairRow, Fair
<1>2. Idling \in ScorerTick
  BY <1>1 DEF Idling, ScorerTick
<1> QED BY <1>1, <1>2 DEF TickWell, TickAhead, Idling, Complete

\* A tick goes on, and nothing else changes.
LEMMA TickTurns ==
  ASSUME VerdictInv, NEW s \in Scorers, NEW r, Turns(s, r),
         UNCHANGED <<moment, arrived, story, snapshot, verdict, overlaid>>,
         TickWell(r), ~overlaid => TickAhead(r), r.at # "off" => scorer[s].at # "off"
  PROVE  VerdictInv'
<1>1. r \in ScorerTick
  BY DEF TickWell
<1>2. /\ scorer' \in [Scorers -> ScorerTick] /\ scorer'[s] = r
      /\ \A z \in Scorers \ {s} : scorer'[z] = scorer[z]
  BY <1>1 DEF VerdictInv, VerdictTypes, Turns
<1>3. VerdictTypes'
  BY <1>2 DEF VerdictInv, VerdictTypes, Now
<1>4. Captured' = Captured
  BY DEF Captured
<1>5. \A x : TickWell(x) => TickWell(x)'
  BY <1>4 DEF TickWell, Complete, Until, Now
<1>6. \A x : TickAhead(x) => TickAhead(x)'
  BY <1>4 DEF TickAhead
<1>7. TicksWell'
  BY <1>2, <1>5 DEF VerdictInv, TicksWell
<1>8. TicksAhead'
  BY <1>2, <1>6 DEF VerdictInv, TicksAhead
<1>9. TickAlone'
  BY <1>2 DEF VerdictInv, TickAlone
<1>10. RowsWell' /\ Complete(Captured)' /\ SnapshotsGrow'
  BY <1>4 DEF VerdictInv, RowsWell, Complete, SnapshotsGrow, Until, Now
<1> QED BY <1>3, <1>7, <1>8, <1>9, <1>10 DEF VerdictInv

LEMMA ReadPostsKeeps ==
  ASSUME VerdictInv, NEW s \in Scorers, ReadPosts(s)
  PROVE  VerdictInv'
<1> DEFINE c == scorer[s]
           posts == Accrued(c.now)
           a == IF posts = {} THEN "match" ELSE "read"
           d == IF posts = {} THEN {} ELSE c.due
           r == [c EXCEPT !.at = a, !.due = d, !.posts = posts]
<1>1. c \in ScorerTick /\ TickWell(c) /\ (~overlaid => TickAhead(c)) /\ c.at = "due"
  BY DEF VerdictInv, VerdictTypes, TicksWell, TicksAhead, ReadPosts
<1>2. Turns(s, r) /\ UNCHANGED <<moment, arrived, story, snapshot, verdict, overlaid>>
  BY DEF ReadPosts
<1>3. posts = Until(c.now) /\ posts \in SUBSET Arrival
  BY DEF Accrued, Until, VerdictInv, VerdictTypes, Arrival
<1>4. a \in {"match", "read"} /\ d \in SUBSET Observed /\ (d = c.due \/ d = {})
  BY <1>1 DEF ScorerTick
<1>9. a = "read" => posts # {}
  OBVIOUS
<1> HIDE DEF c, posts, a, d
<1>5. /\ r \in ScorerTick /\ r.at = a /\ r.due = d /\ r.posts = posts /\ r.now = c.now
      /\ r.new = c.new
  BY <1>1, <1>3, <1>4 DEF ScorerTick
<1>6. c.new = {} /\ story.first # -1 /\ story.first <= c.now /\ c.now <= Now
  BY <1>1 DEF TickWell
<1> HIDE DEF r
<1>7. TickWell(r)
  BY <1>1, <1>3, <1>4, <1>5, <1>6 DEF TickWell, Complete
<1>8. ASSUME ~overlaid PROVE TickAhead(r)
  <2>1. \A v \in Captured : snapshot[v].age <= c.now - story.first
    BY <1>1, <1>8 DEF TickAhead
  <2>2. ASSUME NEW v \in Captured PROVE snapshot[v].posts \subseteq posts
    <3>1. /\ snapshot[v].posts \subseteq Until(story.first + snapshot[v].age)
          /\ snapshot[v].age \in Nat /\ snapshot[v].age <= c.now - story.first
      BY <2>1, <2>2 DEF VerdictInv, RowsWell
    <3>2. story.first \in Int /\ c.now \in Int
      BY <1>1 DEF VerdictInv, VerdictTypes, ScorerTick
    <3>3. story.first + snapshot[v].age <= c.now
      BY <3>1, <3>2
    <3>4. \A p \in arrived : p.at \in Int
      BY DEF VerdictInv, VerdictTypes, Arrival
    <3>5. Until(story.first + snapshot[v].age) \subseteq Until(c.now)
      BY <3>1, <3>2, <3>3, <3>4 DEF Until
    <3> QED BY <1>3, <3>1, <3>5
  <2> QED BY <1>1, <1>4, <1>5, <1>6, <1>8, <2>1, <2>2 DEF TickAhead
<1> QED BY <1>1, <1>2, <1>7, <1>8, TickTurns DEF c

LEMMA InsertKeeps ==
  ASSUME VerdictInv, NEW s \in Scorers, Insert(s)
  PROVE  VerdictInv'
<1> DEFINE c == scorer[s]
           new == c.due \ Captured
           ps == IF new = {} THEN {} ELSE c.posts
           r == [c EXCEPT !.at = "match", !.due = {}, !.new = new, !.posts = ps]
<1>1. c \in ScorerTick /\ TickWell(c) /\ (~overlaid => TickAhead(c)) /\ c.at = "read"
  BY DEF VerdictInv, VerdictTypes, TicksWell, TicksAhead, Insert
<1>2. Turns(s, r) /\ UNCHANGED <<moment, arrived, story, snapshot, verdict, overlaid>>
  BY DEF Insert
<1>3. new \in SUBSET Observed /\ ps \in SUBSET Arrival /\ ps \subseteq c.posts /\ (new # {} => ps = c.posts)
  BY <1>1 DEF ScorerTick
<1>4. Complete(new)
  BY <1>1 DEF TickWell, Complete
<1>9. new \cap Captured = {}
  OBVIOUS
<1> HIDE DEF c, new, ps
<1>5. /\ r \in ScorerTick /\ r.at = "match" /\ r.due = {} /\ r.posts = ps /\ r.now = c.now
      /\ r.new = new
  BY <1>1, <1>3 DEF ScorerTick
<1>6. story.first # -1 /\ story.first <= c.now /\ c.now <= Now /\ c.posts \subseteq Until(c.now)
  BY <1>1 DEF TickWell
<1> HIDE DEF r
<1>7. TickWell(r)
  BY <1>3, <1>4, <1>5, <1>6 DEF TickWell, Complete
<1>8. ~overlaid => TickAhead(r)
  BY <1>1, <1>3, <1>5, <1>9 DEF TickAhead
<1> QED BY <1>1, <1>2, <1>7, <1>8, TickTurns DEF c

LEMMA InsertFailsKeeps ==
  ASSUME VerdictInv, NEW s \in Scorers, InsertFails(s)
  PROVE  VerdictInv'
<1> DEFINE c == scorer[s]
           r == [c EXCEPT !.at = "match", !.due = {}, !.posts = {}]
<1>1. c \in ScorerTick /\ TickWell(c) /\ (~overlaid => TickAhead(c)) /\ c.at = "read"
  BY DEF VerdictInv, VerdictTypes, TicksWell, TicksAhead, InsertFails
<1>2. Turns(s, r) /\ UNCHANGED <<moment, arrived, story, snapshot, verdict, overlaid>>
  BY DEF InsertFails
<1> HIDE DEF c
<1>3. /\ r \in ScorerTick /\ r.at = "match" /\ r.due = {} /\ r.posts = {} /\ r.now = c.now
      /\ r.new = c.new
  BY <1>1 DEF ScorerTick
<1> HIDE DEF r
<1>4. TickWell(r)
  BY <1>1, <1>3 DEF TickWell, Complete
<1>5. ~overlaid => TickAhead(r)
  BY <1>1, <1>3, <1>4 DEF TickAhead, TickWell
<1> QED BY <1>1, <1>2, <1>4, <1>5, TickTurns DEF c

\* A step that changes no more of a tick than where it is, its subject and its row.
LEMMA TickMoves ==
  ASSUME VerdictInv, NEW s \in Scorers, NEW r \in ScorerTick, Turns(s, r),
         UNCHANGED <<moment, arrived, story, snapshot, verdict, overlaid>>,
         scorer[s].at \in {"match", "score"}, r.at \in {"match", "score", "end"},
         r.at = "score" => r.subject \in Subjects,
         r.now = scorer[s].now, r.due = scorer[s].due, r.posts = scorer[s].posts,
         r.new = scorer[s].new
  PROVE  VerdictInv'
<1> DEFINE c == scorer[s]
<1>1. c \in ScorerTick /\ TickWell(c) /\ (~overlaid => TickAhead(c)) /\ c.at # "off"
  BY DEF VerdictInv, VerdictTypes, TicksWell, TicksAhead
<1>2. r.now = c.now /\ r.due = c.due /\ r.posts = c.posts /\ r.new = c.new
  OBVIOUS
<1> HIDE DEF c
<1>3. TickWell(r)
  BY <1>1, <1>2 DEF TickWell
<1>4. ~overlaid => TickAhead(r)
  BY <1>1, <1>2 DEF TickAhead
<1> QED BY <1>1, <1>3, <1>4, TickTurns DEF c

LEMMA MatchKeeps ==
  ASSUME VerdictInv, NEW s \in Scorers, Match(s)
  PROVE  VerdictInv'
<1> DEFINE c == scorer[s]
<1>1. c \in ScorerTick /\ c.at = "match"
      /\ UNCHANGED <<moment, arrived, story, snapshot, verdict, overlaid>>
  BY DEF VerdictInv, VerdictTypes, Match
<1>2. CASE Turns(s, [c EXCEPT !.at = "end"])
  <2> DEFINE r == [c EXCEPT !.at = "end"]
  <2>1. /\ r \in ScorerTick /\ r.at = "end" /\ r.now = c.now /\ r.due = c.due /\ r.posts = c.posts
        /\ r.new = c.new
    <3> HIDE DEF c
    <3> QED BY <1>1 DEF ScorerTick
  <2> HIDE DEF r
  <2> QED BY <1>1, <1>2, <2>1, TickMoves DEF r
<1>3. ASSUME NEW t \in Subjects, Turns(s, [c EXCEPT !.at = "score", !.subject = t])
      PROVE VerdictInv'
  <2> DEFINE r == [c EXCEPT !.at = "score", !.subject = t]
  <2>1. t \in Int
    BY VerdictsParameters
  <2>2. /\ r \in ScorerTick /\ r.at = "score" /\ r.now = c.now /\ r.due = c.due
        /\ r.posts = c.posts
        /\ r.new = c.new /\ r.subject = t
    <3> HIDE DEF c
    <3> QED BY <1>1, <2>1 DEF ScorerTick
  <2> HIDE DEF r
  <2> QED BY <1>1, <1>3, <2>2, TickMoves DEF r
<1>4. Best(c.now) \subseteq Subjects
  BY DEF Best
<1> QED BY <1>2, <1>3, <1>4 DEF Match

LEMMA JudgeKeeps ==
  ASSUME VerdictInv, NEW s \in Scorers, Judge(s)
  PROVE  VerdictInv'
<1> DEFINE c == scorer[s]
           ps == Within(Now)
           made == IF ps = {} THEN Unscored ELSE Judged(c.subject, ps)
           none == -1
           r == [c EXCEPT !.at = "end", !.subject = none, !.row = made]
<1>1. c \in ScorerTick /\ c.at = "score" /\ c.subject \in Subjects
  BY DEF VerdictInv, VerdictTypes, TicksWell, TickWell, Judge
<1>2. Turns(s, r) /\ UNCHANGED <<moment, arrived, story, snapshot, verdict, overlaid>>
  BY DEF Judge
<1>3. made \in FairRow
  <2>1. CASE ps = {}
    BY <2>1, IdlingIsWell
  <2>2. CASE ps # {}
    <3>1. ps \subseteq arrived /\ IsFiniteSet(arrived) /\ \A p \in arrived : p.at \in Int
      BY DEF Within, VerdictInv, VerdictTypes, Arrival
    <3>2. Batch(ps)
      BY <2>2, <3>1, FS_Subset DEF Batch
    <3>3. Fair(Judged(c.subject, ps))
      BY <1>1, <3>2, JudgedIsFair
    <3>4. Judged(c.subject, ps) \in [score : Rational, fallback : Rational]
      BY <3>3 DEF Fair, Judged
    <3> QED BY <2>2, <3>3, <3>4 DEF FairRow
  <2> QED BY <2>1, <2>2
<1>5. none \in Int
  OBVIOUS
<1> HIDE DEF made, none
<1>4. /\ r \in ScorerTick /\ r.at = "end" /\ r.now = c.now /\ r.due = c.due /\ r.posts = c.posts
      /\ r.new = c.new
  <2> HIDE DEF c
  <2> QED BY <1>1, <1>3, <1>5 DEF ScorerTick
<1> HIDE DEF r
<1> QED BY <1>1, <1>2, <1>4, TickMoves

LEMMA AbortKeeps ==
  ASSUME VerdictInv, NEW s \in Scorers, Abort(s)
  PROVE  VerdictInv'
<1>1. Turns(s, Idling) /\ UNCHANGED <<moment, arrived, story, snapshot, verdict, overlaid>>
  BY DEF Abort
<1> QED BY <1>1, IdlingIsWell, TickTurns

LEMMA BeginKeeps ==
  ASSUME VerdictInv, NEW s \in Scorers, Begin(s)
  PROVE  VerdictInv'
<1> DEFINE d == Due(Now - story.first)
           a == IF d = {} THEN "match" ELSE "due"
           r == [Idling EXCEPT !.at = a, !.now = Now, !.due = d]
<1>1. /\ scorer[s].at = "off" /\ story.first # -1 /\ Turns(s, r)
      /\ UNCHANGED <<moment, arrived, story, snapshot, verdict>>
      /\ overlaid' = (overlaid \/ \E z \in Scorers \ {s} : scorer[z].at # "off")
  BY DEF Begin
<1>2. /\ moment \in Nat /\ Now \in Nat /\ story.first \in Nat /\ story.first <= Now
      /\ overlaid \in BOOLEAN /\ scorer \in [Scorers -> ScorerTick]
  BY <1>1, NowGrows DEF VerdictInv, VerdictTypes, Now
<1>3. d \in SUBSET Observed /\ d \cap Captured = {} /\ Complete(d)
  <2>1. \A v, w \in Observed : v \in Int /\ w \in Int
    BY VerdictsParameters
  <2>2. Now - story.first \in Int
    BY <1>2
  <2> QED BY <2>1, <2>2 DEF Due, Complete, Captured
<1>4. a \in {"match", "due"}
  OBVIOUS
<1>10. a = "match" => d = {}
  OBVIOUS
<1> HIDE DEF d, a
<1>5. /\ r \in ScorerTick /\ r.at = a /\ r.now = Now /\ r.due = d /\ r.posts = {} /\ r.new = {}
  <2> DEFINE n == Now
             e == [Idling EXCEPT !.at = a, !.now = n, !.due = d]
  <2>1. Idling \in ScorerTick /\ Idling.posts = {} /\ Idling.new = {}
    BY IdlingIsWell DEF Idling
  <2>2. n \in Int /\ a \in {"off", "due", "read", "match", "score", "end"}
    BY <1>2, <1>4
  <2> HIDE DEF n
  <2>3. /\ e \in ScorerTick /\ e.at = a /\ e.now = n /\ e.due = d /\ e.posts = Idling.posts
        /\ e.new = Idling.new
    BY <1>3, <2>1, <2>2 DEF ScorerTick
  <2> QED BY <2>1, <2>3 DEF n
<1> HIDE DEF r
<1>6. /\ scorer' \in [Scorers -> ScorerTick] /\ scorer'[s] = r
      /\ \A z \in Scorers \ {s} : scorer'[z] = scorer[z]
  BY <1>1, <1>2, <1>5 DEF Turns
<1>7. Captured' = Captured /\ Now' = Now
  BY <1>1 DEF Captured, Now
<1>8. TickWell(r)
  BY <1>1, <1>2, <1>3, <1>4, <1>5 DEF TickWell, Complete
<1>9. ASSUME ~overlaid' PROVE ~overlaid /\ \A z \in Scorers \ {s} : scorer[z].at = "off"
  BY <1>1, <1>2, <1>9
<1>11. VerdictTypes'
  BY <1>1, <1>2, <1>6, <1>7 DEF VerdictInv, VerdictTypes
<1>12. TicksWell'
  <2>1. \A x : TickWell(x) => TickWell(x)'
    BY <1>1, <1>7 DEF TickWell, Complete, Until
  <2> QED BY <1>6, <1>8, <2>1 DEF VerdictInv, TicksWell
<1>13. TickAlone'
  BY <1>6, <1>9 DEF TickAlone
<1>14. ASSUME ~overlaid' PROVE TicksAhead'
  <2>1. \A x : TickAhead(x) => TickAhead(x)'
    BY <1>1, <1>7 DEF TickAhead
  <2>2. TickAhead(r)
    <3>1. \A v \in Captured : snapshot[v].age <= Now - story.first
      BY DEF VerdictInv, RowsWell
    <3> QED BY <1>3, <1>4, <1>5, <3>1 DEF TickAhead
  <2> QED BY <1>6, <1>9, <1>14, <2>1, <2>2 DEF VerdictInv, TicksAhead
<1>15. TicksAhead'
  BY <1>14 DEF TicksAhead
<1>16. RowsWell' /\ Complete(Captured)' /\ SnapshotsGrow'
  <2>1. SnapshotsGrow'
    BY <1>1, <1>2, <1>7 DEF VerdictInv, SnapshotsGrow
  <2> QED BY <1>1, <1>7, <2>1 DEF VerdictInv, RowsWell, Complete, Until
<1> QED BY <1>11, <1>12, <1>13, <1>15, <1>16 DEF VerdictInv

\* The story or the time goes on: what was true of posts and snapshots stays so.
LEMMA StoryGoesOn ==
  ASSUME VerdictInv, UNCHANGED <<snapshot, verdict, scorer, overlaid>>, arrived \subseteq arrived',
         VerdictTypes', Now <= Now', story.first # -1 => story'.first = story.first
  PROVE  VerdictInv'
<1>1. Captured' = Captured
  BY DEF Captured
<1>2. Now \in Int /\ Now' \in Int /\ story.first \in Int
  BY NowGrows DEF Now, VerdictInv, VerdictTypes
<1>3. ASSUME story.first # -1, NEW n PROVE Until(n) \subseteq Until(n)'
  BY <1>3 DEF Until
<1>4. TicksWell'
  <2> SUFFICES ASSUME NEW s \in Scorers PROVE TickWell(scorer[s])'
    BY DEF TicksWell
  <2> DEFINE r == scorer[s]
  <2>1. r \in ScorerTick /\ TickWell(r) /\ r' = r
    BY DEF VerdictInv, VerdictTypes, TicksWell
  <2> HIDE DEF r
  <2>2. r.at # "off" => /\ story'.first # -1 /\ story'.first <= r.now /\ r.now <= Now'
                        /\ story.first # -1
    BY <1>2, <2>1 DEF TickWell, ScorerTick
  <2>3. r.posts \subseteq Until(r.now)'
    BY <1>3, <2>1, <2>2 DEF TickWell
  <2>4. Complete(r.due)' /\ Complete(r.new)'
    BY <1>1, <2>1 DEF TickWell, Complete
  <2>5. TickWell(r)'
    BY <2>1, <2>2, <2>3, <2>4 DEF TickWell
  <2> QED BY <2>1, <2>5 DEF r
<1>5. TicksAhead'
  <2> SUFFICES ASSUME ~overlaid, NEW s \in Scorers PROVE TickAhead(scorer[s])'
    BY DEF TicksAhead
  <2> DEFINE r == scorer[s]
  <2>1. TickAhead(r) /\ TickWell(r) /\ r' = r
    BY DEF VerdictInv, TicksWell, TicksAhead
  <2> HIDE DEF r
  <2>2. r.at # "off" => story'.first = story.first
    BY <2>1 DEF TickWell
  <2>3. TickAhead(r)'
    BY <1>1, <2>1, <2>2 DEF TickAhead
  <2> QED BY <2>1, <2>3 DEF r
<1>6. RowsWell'
  <2> SUFFICES ASSUME NEW v \in Captured
               PROVE  /\ story'.first # -1
                      /\ snapshot[v].age \in Nat /\ snapshot[v].age <= Now' - story'.first
                      /\ snapshot[v].posts \subseteq Until(story.first + snapshot[v].age)'
    BY <1>1 DEF RowsWell
  <2>1. /\ story.first # -1 /\ snapshot[v].age \in Nat /\ snapshot[v].age <= Now - story.first
        /\ snapshot[v].posts \subseteq Until(story.first + snapshot[v].age)
    BY DEF VerdictInv, RowsWell
  <2> QED BY <1>2, <1>3, <2>1
<1>7. TickAlone' /\ Complete(Captured)' /\ SnapshotsGrow'
  BY <1>1 DEF VerdictInv, TickAlone, Complete, SnapshotsGrow
<1> QED BY <1>4, <1>5, <1>6, <1>7 DEF VerdictInv

LEMMA GrowKeeps ==
  ASSUME VerdictInv, Grow
  PROVE  VerdictInv'
<1>1. /\ UNCHANGED <<moment, snapshot, verdict, scorer, overlaid>>
      /\ story' = [first |-> IF story.first = -1 THEN Now ELSE story.first, updated |-> Now]
  BY DEF Grow
<1>2. PICK at \in (moment - Late)..(moment + Skewed), ch \in Outlets, weight \in Weights :
        arrived' = arrived \cup {[at |-> Unit * at, ch |-> ch, weight |-> weight]}
  BY DEF Grow
<1>3. Now \in Nat /\ Now' = Now /\ moment \in Nat
  BY <1>1, NowGrows DEF Now, VerdictInv, VerdictTypes
<1>4. Unit * at \in Int
  BY <1>3, VerdictsParameters
<1>5. [at |-> Unit * at, ch |-> ch, weight |-> weight] \in Arrival
  BY <1>4 DEF Arrival
<1>6. arrived' \in SUBSET Arrival /\ IsFiniteSet(arrived') /\ arrived \subseteq arrived'
  <2>1. IsFiniteSet(arrived) /\ arrived \subseteq Arrival
    BY DEF VerdictInv, VerdictTypes
  <2> QED BY <1>2, <1>5, <2>1, FS_AddElement
<1>7. /\ story' \in [first : Int, updated : Int] /\ story'.first <= Now' /\ story'.first \in Nat
      /\ story.first # -1 => story'.first = story.first
  BY <1>1, <1>3 DEF VerdictInv, VerdictTypes
<1>8. VerdictTypes'
  BY <1>1, <1>6, <1>7 DEF VerdictInv, VerdictTypes
<1> QED BY <1>1, <1>3, <1>6, <1>7, <1>8, StoryGoesOn

LEMMA MinutesKeeps ==
  ASSUME VerdictInv, Minutes
  PROVE  VerdictInv'
<1>1. /\ moment' = moment + 1 /\ UNCHANGED <<arrived, story, snapshot, verdict, scorer, overlaid>>
  BY DEF Minutes
<1>2. moment \in Nat /\ Now \in Nat /\ Now' \in Nat /\ Now <= Now'
  <2>1. moment \in Nat
    BY DEF VerdictInv, VerdictTypes
  <2> QED BY <1>1, <2>1, NowGrows DEF Now
<1>3. story.first \in Int /\ story.first <= Now'
  BY <1>2 DEF VerdictInv, VerdictTypes
<1>4. VerdictTypes'
  BY <1>1, <1>2, <1>3 DEF VerdictInv, VerdictTypes
<1> QED BY <1>1, <1>2, <1>4, StoryGoesOn

LEMMA CommitKeeps ==
  ASSUME VerdictInv, NEW s \in Scorers, Commit(s)
  PROVE  VerdictInv'
<1> DEFINE c == scorer[s]
           made == [age |-> c.now - story.first, posts |-> c.posts]
           new == c.new
<1>1. c \in ScorerTick /\ TickWell(c) /\ (~overlaid => TickAhead(c)) /\ c.at = "end"
  BY DEF VerdictInv, VerdictTypes, TicksWell, TicksAhead, Commit
<1>2. /\ snapshot' = [w \in Observed |-> IF w \in new THEN made ELSE snapshot[w]]
      /\ verdict' = IF c.row = Unscored THEN verdict ELSE c.row
      /\ Turns(s, Idling) /\ UNCHANGED <<moment, arrived, story, overlaid>>
  BY DEF Commit
<1>3. /\ story.first # -1 /\ story.first \in Int /\ c.now \in Int /\ Now \in Int
      /\ story.first <= c.now /\ c.now <= Now /\ new \subseteq Observed /\ c.posts \subseteq Arrival
      /\ c.posts \subseteq Until(c.now) /\ Complete(new) /\ snapshot \in [Observed -> Capture]
  BY <1>1, NowGrows DEF TickWell, ScorerTick, VerdictInv, VerdictTypes, Now
<1>4. /\ made \in Capture /\ made.age \in Nat /\ made.age = c.now - story.first
      /\ made.posts = c.posts
      /\ made # NotYet
  <2>1. NotYet.age = -1
    BY DEF NotYet
  <2> QED BY <1>3, <2>1 DEF Capture
<1> HIDE DEF made, new
<1>5. /\ snapshot' \in [Observed -> Capture]
      /\ \A w \in Observed : snapshot'[w] = IF w \in new THEN made ELSE snapshot[w]
  BY <1>2, <1>3, <1>4
<1>6. Captured' = Captured \cup new /\ Captured \subseteq Observed
  BY <1>3, <1>4, <1>5 DEF Captured
<1>7. Now' = Now /\ story' = story /\ arrived' = arrived
  BY <1>2 DEF Now
<1>8. /\ scorer' \in [Scorers -> ScorerTick] /\ scorer'[s] = Idling
      /\ \A z \in Scorers \ {s} : scorer'[z] = scorer[z]
  BY <1>2, IdlingIsWell DEF VerdictInv, VerdictTypes, Turns
<1>9. VerdictTypes'
  <2>1. c.row \in FairRow
    BY <1>1 DEF ScorerTick
  <2> QED BY <1>2, <1>5, <1>7, <1>8, <2>1 DEF VerdictInv, VerdictTypes
<1>10. \A x : TickWell(x) => TickWell(x)'
  BY <1>6, <1>7 DEF TickWell, Complete, Until
<1>11. TicksWell'
  BY <1>8, <1>10, IdlingIsWell DEF VerdictInv, TicksWell
<1>12. TickAlone'
  BY <1>2, <1>8, IdlingIsWell DEF VerdictInv, TickAlone
<1>13. TicksAhead'
  <2> SUFFICES ASSUME ~overlaid, NEW z \in Scorers PROVE TickAhead(scorer[z])'
    BY <1>2 DEF TicksAhead
  <2>1. scorer'[z].at = "off"
    BY <1>1, <1>8, IdlingIsWell DEF VerdictInv, TickAlone
  <2>2. TickWell(scorer[z])'
    BY <1>11 DEF TicksWell
  <2>3. scorer'[z].due = {} /\ scorer'[z].new = {}
    BY <2>1, <2>2 DEF TickWell
  <2> QED BY <2>1, <2>3 DEF TickAhead
<1>14. RowsWell'
  <2> SUFFICES ASSUME NEW v \in Captured'
               PROVE  /\ story.first # -1
                      /\ snapshot'[v].age \in Nat /\ snapshot'[v].age <= Now - story.first
                      /\ snapshot'[v].posts \subseteq Until(story.first + snapshot'[v].age)
    BY <1>7 DEF RowsWell, Until
  <2>1. CASE v \in new
    <3>1. snapshot'[v] = made /\ story.first + made.age = c.now
      BY <1>3, <1>4, <1>5, <2>1
    <3> QED BY <1>3, <1>4, <3>1
  <2>2. CASE v \notin new
    <3>1. v \in Captured /\ snapshot'[v] = snapshot[v]
      BY <1>5, <1>6, <2>2
    <3> QED BY <3>1 DEF VerdictInv, RowsWell
  <2> QED BY <2>1, <2>2
<1>15. Complete(Captured)'
  BY <1>3, <1>6 DEF VerdictInv, Complete
<1>16. SnapshotsGrow'
  <2> SUFFICES ASSUME NEW v \in Observed, NEW w \in Observed, v < w, w \in Captured'
               PROVE  /\ v \in Captured'
                      /\ ~overlaid => /\ snapshot'[v].age <= snapshot'[w].age
                                      /\ snapshot'[v].posts \subseteq snapshot'[w].posts
    BY <1>2 DEF SnapshotsGrow
  <2>1. v \in Captured'
    BY <1>15 DEF Complete
  <2>2. ASSUME ~overlaid
       
             
                    PROVE  snapshot'[v].age <= snapshot'[w].age /\ snapshot'[v].posts \subseteq snapshot'[w].posts
    <3>1. new \cap Captured = {}
      BY <1>1, <2>2 DEF TickAhead, new
    <3>2. CASE v \in new /\ w \in new
      BY <1>4, <1>5, <3>2
    <3>3. CASE v \in new /\ w \notin new
      <4>1. v \in Captured
        BY <1>6, <3>3 DEF VerdictInv, Complete
      <4> QED BY <3>1, <3>3, <4>1
    <3>4. CASE v \notin new /\ w \in new
      <4>1. v \in Captured /\ snapshot'[v] = snapshot[v] /\ snapshot'[w] = made
        BY <1>5, <1>6, <2>1, <3>4
      <4>2. snapshot[v].age <= c.now - story.first /\ snapshot[v].posts \subseteq c.posts
        BY <1>1, <2>2, <3>4, <4>1 DEF TickAhead, new
      <4> QED BY <1>4, <4>1, <4>2
    <3>5. CASE v \notin new /\ w \notin new
      <4>1. w \in Captured /\ snapshot'[v] = snapshot[v] /\ snapshot'[w] = snapshot[w]
        BY <1>5, <1>6, <3>5
      <4> QED BY <2>2, <4>1 DEF VerdictInv, SnapshotsGrow
    <3> QED BY <3>2, <3>3, <3>4, <3>5
  <2> QED BY <2>1, <2>2
<1> QED BY <1>9, <1>11, <1>12, <1>13, <1>14, <1>15, <1>16 DEF VerdictInv

LEMMA VerdictsStep == VerdictInv /\ [VerdictsNext]_verdictVars => VerdictInv'
<1> SUFFICES ASSUME VerdictInv, [VerdictsNext]_verdictVars PROVE VerdictInv'
  OBVIOUS
<1>1. CASE Grow
  BY <1>1, GrowKeeps
<1>2. CASE Minutes
  BY <1>2, MinutesKeeps
<1>3. ASSUME NEW s \in Scorers, ScorerStep(s) PROVE VerdictInv'
  <2>1. CASE Begin(s)
    BY <2>1, BeginKeeps
  <2>2. CASE ReadPosts(s)
    BY <2>2, ReadPostsKeeps
  <2>3. CASE Insert(s)
    BY <2>3, InsertKeeps
  <2>4. CASE InsertFails(s)
    BY <2>4, InsertFailsKeeps
  <2>5. CASE Match(s)
    BY <2>5, MatchKeeps
  <2>6. CASE Judge(s)
    BY <2>6, JudgeKeeps
  <2>7. CASE Commit(s)
    BY <2>7, CommitKeeps
  <2>8. CASE Abort(s)
    BY <2>8, AbortKeeps
  <2> QED BY <1>3, <2>1, <2>2, <2>3, <2>4, <2>5, <2>6, <2>7, <2>8 DEF ScorerStep
<1>4. CASE UNCHANGED verdictVars
  <2>1. UNCHANGED <<moment, arrived, story, snapshot, verdict, scorer, overlaid>>
    BY <1>4 DEF verdictVars
  <2>2. VerdictTypes'
    BY <2>1 DEF VerdictInv, VerdictTypes, Now
  <2>3. Now <= Now'
    <3>1. Now \in Nat /\ Now' = Now
      BY <2>1, NowGrows DEF Now, VerdictInv, VerdictTypes
    <3> QED BY <3>1
  <2> QED BY <2>1, <2>2, <2>3, StoryGoesOn
<1> QED BY <1>1, <1>2, <1>3, <1>4 DEF VerdictsNext

LEMMA VerdictsStart == VerdictsInit => VerdictInv
<1> SUFFICES ASSUME VerdictsInit PROVE VerdictInv
  OBVIOUS
<1>1. /\ moment = 0 /\ arrived = {} /\ story = [first |-> -1, updated |-> -1]
      /\ snapshot = [w \in Observed |-> NotYet] /\ verdict = Unscored
      /\ scorer = [s \in Scorers |-> Idling] /\ overlaid = FALSE
  BY DEF VerdictsInit
<1>2. Captured = {}
  BY <1>1 DEF Captured
<1>3. Now = 0
  BY <1>1, VerdictsParameters DEF Now
<1>4. VerdictTypes
  <2>1. NotYet \in Capture
    BY DEF NotYet, Capture
  <2>2. IsFiniteSet({})
    BY FS_EmptySet
  <2>3. story \in [first : Int, updated : Int] /\ story.first = -1
    BY <1>1
  <2>4. scorer \in [Scorers -> ScorerTick] /\ verdict \in FairRow
    BY <1>1, IdlingIsWell
  <2>5. snapshot \in [Observed -> Capture]
    BY <1>1, <2>1
  <2>6. moment \in Nat /\ overlaid \in BOOLEAN /\ arrived \in SUBSET Arrival
        /\ IsFiniteSet(arrived)
    BY <1>1, <2>2
  <2>7. story.first <= Now
    BY <1>3, <2>3
  <2> QED BY <2>3, <2>4, <2>5, <2>6, <2>7 DEF VerdictTypes
<1>5. TicksWell /\ TicksAhead /\ TickAlone
  BY <1>1, IdlingIsWell DEF TicksWell, TicksAhead, TickAlone
<1>6. RowsWell /\ Complete(Captured) /\ SnapshotsGrow
  BY <1>2 DEF RowsWell, Complete, SnapshotsGrow
<1> QED BY <1>4, <1>5, <1>6 DEF VerdictInv

\* What a story's snapshots and scores follow, in every state of the ticks.
LEMMA VerdictsFollow == VerdictInv => VerdictsFollowGrowth
<1>1. VerdictInv => Fair(verdict) /\ SnapshotsGrow
  BY DEF VerdictInv, VerdictTypes, FairRow
<1> QED BY <1>1 DEF Fair, PostsOnlyRaise, VerdictsFollowGrowth

LEMMA VerdictsKept == Spec => []VerdictInv
<1>1. Init => VerdictInv
  BY VerdictsStart DEF Init
<1>2. VerdictInv /\ [Next]_vars => VerdictInv'
  <2> SUFFICES ASSUME VerdictInv, [Next]_vars PROVE VerdictInv'
    OBVIOUS
  <2>1. [VerdictsNext]_verdictVars
    BY Zenon DEF Next, vars, Serving, Batching, Judging, Gating
  <2> QED BY <2>1, VerdictsStep
<1> QED BY <1>1, <1>2, PTL DEF Spec

\* Whatever ticks overlap, fail or come late, a story's snapshots are those of a
\* growing story: none without those of shorter windows, and, unless ticks have
\* overlapped, none that lacks a post of a shorter one; and its score is at most
\* 100 and never below what the fallback makes of the aggregates, for any posts,
\* channels, windows and clock (_capture_feature_snapshots, compute_components,
\* FormulaFallbackModel.predict).
THEOREM VerdictsAreFair == Spec => []VerdictsFollowGrowth
<1>1. Spec => []VerdictInv
  BY VerdictsKept
<1>2. VerdictInv => VerdictsFollowGrowth
  BY VerdictsFollow
<1> QED BY <1>1, <1>2, PTL

-----------------------------------------------------------------------------
(***************************************************************************)
(* The gate.  It sorts by counting what comes before, so that a story's    *)
(* place is its rank: different ones have different ranks, and as there    *)
(* are no more ranks than stories, each rank is one's.                     *)
(***************************************************************************)

\* What is below each element of S, in a strict total order.
Ordering(S) ==
  {b \in [S -> SUBSET S] :
     \A x, y \in S : /\ x \notin b[x]
                     /\ x = y \/ x \in b[y] \/ y \in b[x]
                     /\ y \in b[x] => b[y] \subseteq b[x]}

\* The elements of S in that order.
InOrder(s, S, b) ==
  /\ s = [i \in 1..Cardinality(S) |-> s[i]]
  /\ \A i \in 1..Cardinality(S) : s[i] \in S /\ Cardinality(b[s[i]]) = i - 1

LEMMA RanksDiffer ==
  ASSUME NEW S, IsFiniteSet(S), NEW b \in Ordering(S), NEW x \in S, NEW y \in b[x]
  PROVE  /\ Cardinality(b[y]) \in Nat /\ Cardinality(b[x]) \in Nat
         /\ Cardinality(b[y]) < Cardinality(b[x])
<1>1. /\ b[x] \in SUBSET S /\ y \in S /\ b[y] \in SUBSET S
      /\ y \notin b[y] /\ b[y] \cup {y} \in SUBSET b[x]
  BY DEF Ordering
<1>2. IsFiniteSet(b[x]) /\ IsFiniteSet(b[y])
  BY <1>1, FS_Subset
<1>3. Cardinality(b[y] \cup {y}) = Cardinality(b[y]) + 1
  BY <1>1, <1>2, FS_AddElement
<1>4. Cardinality(b[y] \cup {y}) <= Cardinality(b[x])
  BY <1>1, <1>2, FS_Subset
<1> QED BY <1>2, <1>3, <1>4, FS_CardinalityType

LEMMA RanksExist ==
  ASSUME NEW S, IsFiniteSet(S), NEW b \in Ordering(S), NEW i \in 1..Cardinality(S)
  PROVE  \E x \in S : Cardinality(b[x]) = i - 1
<1> DEFINE n == Cardinality(S)
           ranks == 0..(n - 1)
           f == [x \in S |-> Cardinality(b[x])]
<1>1. n \in Nat
  BY FS_CardinalityType
<1>2. \A x \in S : Cardinality(b[x]) \in ranks
  <2> TAKE x \in S
  <2>1. b[x] \in SUBSET S /\ x \notin b[x]
    BY DEF Ordering
  <2>2. IsFiniteSet(b[x]) /\ b[x] \cup {x} \in SUBSET S
    BY <2>1, FS_Subset
  <2>3. Cardinality(b[x] \cup {x}) = Cardinality(b[x]) + 1 /\ Cardinality(b[x]) \in Nat
    BY <2>1, <2>2, FS_AddElement, FS_CardinalityType
  <2>4. Cardinality(b[x] \cup {x}) <= n
    BY <2>2, FS_Subset
  <2> QED BY <1>1, <2>3, <2>4
<1>3. \A x, y \in S : Cardinality(b[x]) = Cardinality(b[y]) => x = y
  <2> SUFFICES ASSUME NEW x \in S, NEW y \in S, Cardinality(b[x]) = Cardinality(b[y]), x # y
               PROVE  FALSE
    OBVIOUS
  <2>1. x \in b[y] \/ y \in b[x]
    BY DEF Ordering
  <2> QED BY <2>1, RanksDiffer
<1>4. f \in Injection(S, ranks)
  BY <1>2, <1>3 DEF Injection, IsInjective
<1>5. IsFiniteSet(ranks) /\ Cardinality(ranks) = n
  <2> DEFINE z == 0
             m == n - 1
  <2>1. z \in Int /\ m \in Int
    BY <1>1
  <2>2. IsFiniteSet(z..m) /\ Cardinality(z..m) = IF z > m THEN 0 ELSE m - z + 1
    <3> HIDE DEF z, m
    <3> QED BY <2>1, FS_Interval
  <2> QED BY <1>1, <2>2
<1>6. f \in Surjection(S, ranks)
  BY <1>4, <1>5, FS_Injection
<1>7. i - 1 \in ranks
  BY <1>1
<1> QED BY <1>6, <1>7 DEF Surjection

\* What comes first is below what comes later.
LEMMA OrderIsKept ==
  ASSUME NEW S, IsFiniteSet(S), NEW b \in Ordering(S), NEW s, InOrder(s, S, b),
         NEW i \in 1..Cardinality(S), NEW j \in 1..Cardinality(S), i < j
  PROVE  s[i] \in b[s[j]]
<1>1. /\ s[i] \in S /\ s[j] \in S
      /\ Cardinality(b[s[i]]) = i - 1 /\ Cardinality(b[s[j]]) = j - 1
  BY DEF InOrder
<1>2. i - 1 < j - 1 /\ i - 1 # j - 1
  BY FS_CardinalityType
<1>3. s[i] # s[j]
  BY <1>1, <1>2
<1>4. CASE s[j] \in b[s[i]]
  <2>1. Cardinality(b[s[j]]) < Cardinality(b[s[i]])
    BY <1>1, <1>4, RanksDiffer
  <2> QED BY <1>1, <1>2, <2>1
<1>5. CASE s[i] \in b[s[j]]
  BY <1>5
<1> QED BY <1>1, <1>3, <1>4, <1>5 DEF Ordering

\* The stories, as Tell adds them: no two with the same name.
Named(S) == /\ S \subseteq Tale /\ IsFiniteSet(S)
            /\ \A x, y \in S : x.id = y.id => x = y

LEMMA BirthsAreOrdered ==
  ASSUME NEW S, Named(S)
  PROVE  /\ [x \in S |-> {y \in S : Earlier(y, x)}] \in Ordering(S)
         /\ InOrder(Sorted(S, Earlier), S, [x \in S |-> {y \in S : Earlier(y, x)}])
<1> DEFINE b == [x \in S |-> {y \in S : Earlier(y, x)}]
           s == Sorted(S, Earlier)
<1>1. \A x \in S : x.born \in Nat /\ x.id \in Nat
  BY DEF Named, Tale
<1>2. b \in Ordering(S)
  <2> SUFFICES ASSUME NEW x \in S, NEW y \in S
               PROVE  /\ x \notin b[x]
                      /\ x = y \/ x \in b[y] \/ y \in b[x]
                      /\ y \in b[x] => b[y] \subseteq b[x]
    BY DEF Ordering
  <2>1. x = y \/ x.id # y.id
    BY DEF Named
  <2> QED BY <1>1, <2>1 DEF Earlier
<1>3. IsFiniteSet(S)
  BY DEF Named
<1>4. ASSUME NEW i \in 1..Cardinality(S) PROVE s[i] \in S /\ Cardinality(b[s[i]]) = i - 1
  <2>1. s[i] = CHOOSE x \in S : Cardinality({y \in S : Earlier(y, x)}) = i - 1
    BY DEF Sorted
  <2>2. \E x \in S : Cardinality(b[x]) = i - 1
    <3> HIDE DEF b
    <3> QED BY <1>2, <1>3, RanksExist
  <2>3. \E x \in S : Cardinality({y \in S : Earlier(y, x)}) = i - 1
    BY <2>2
  <2>4. s[i] \in S /\ Cardinality({y \in S : Earlier(y, s[i])}) = i - 1
    <3> HIDE DEF s, b
    <3> QED BY <2>1, <2>3
  <2> QED BY <2>4
<1>5. s = [i \in 1..Cardinality(S) |-> s[i]]
  BY DEF Sorted
<1>6. InOrder(s, S, b)
  <2> HIDE DEF s, b
  <2> QED BY <1>4, <1>5 DEF InOrder
<1> QED BY <1>2, <1>6

LEMMA OrderedByBirth ==
  ASSUME NEW S, Named(S), NEW i \in 1..Cardinality(S), NEW j \in 1..Cardinality(S), i <= j
  PROVE  /\ Sorted(S, Earlier)[i] \in S /\ Sorted(S, Earlier)[j] \in S
         /\ Sorted(S, Earlier)[i].born <= Sorted(S, Earlier)[j].born
<1> DEFINE b == [x \in S |-> {y \in S : Earlier(y, x)}]
           s == Sorted(S, Earlier)
<1>1. IsFiniteSet(S) /\ b \in Ordering(S) /\ InOrder(s, S, b)
  BY BirthsAreOrdered DEF Named
<1> HIDE DEF s
<1>2. s[i] \in S /\ s[j] \in S
  BY <1>1 DEF InOrder
<1>3. s[i].born \in Nat /\ s[j].born \in Nat
  BY <1>2 DEF Named, Tale
<1>4. CASE i < j
  <2>1. s[i] \in b[s[j]]
    <3> HIDE DEF b
    <3> QED BY <1>1, <1>4, OrderIsKept
  <2>2. Earlier(s[i], s[j])
    BY <1>2, <2>1
  <2>3. s[i].born <= s[j].born
    BY <1>3, <2>2 DEF Earlier
  <2> QED BY <1>2, <2>3 DEF s
<1>5. CASE i = j
  BY <1>2, <1>3, <1>5 DEF s
<1>6. i \in Nat /\ j \in Nat
  BY <1>1, FS_CardinalityType
<1> QED BY <1>4, <1>5, <1>6

LEMMA SortedIsLong ==
  ASSUME NEW S, Named(S)
  PROVE  /\ Cardinality(S) \in Nat /\ Len(Sorted(S, Earlier)) = Cardinality(S)
         /\ \A i \in 1..Cardinality(S) : Sorted(S, Earlier)[i] \in S
<1> DEFINE n == Cardinality(S)
           s == Sorted(S, Earlier)
<1>1. n \in Nat
  BY FS_CardinalityType DEF Named
<1>2. \A i \in 1..n : s[i] \in S
  BY BirthsAreOrdered DEF InOrder
<1>3. s = [i \in 1..n |-> s[i]]
  BY DEF Sorted
<1>4. Len(s) = n
  <2> HIDE DEF n, s
  <2>1. s \in Seq(S)
    BY <1>1, <1>2, <1>3
  <2>2. DOMAIN s = 1..n
    BY <1>3
  <2> QED BY <1>1, <2>1, <2>2
<1> QED BY <1>1, <1>2, <1>4

\* The parts that train and validate are of stories there are.
LEMMA ValidatedFits ==
  ASSUME NEW n \in Nat
  PROVE  Validated(n) \in 0..n
<1>1. PICK a, c \in Nat, e, f \in Nat \ {0} :
        /\ a = Share["train"][1] /\ e = Share["train"][2]
        /\ c = Share["val"][1] /\ f = Share["val"][2]
  BY EvaluationParameters
<1> DEFINE t == (n * a) \div e
           u == (n * c) \div f
           D == e * f
           N == a * f + c * e
<1>2. Validated(n) = t + u
  BY <1>1 DEF Validated, Trained
<1>3. \A m \in Nat, k \in Nat \ {0} : m \div k \in Nat /\ k * (m \div k) <= m
  OBVIOUS
<1>4. n * a \in Nat /\ n * c \in Nat /\ D \in Nat \ {0} /\ N \in Nat
  <2>1. \A x, y \in Nat : x * y \in Nat
    OBVIOUS
  <2>2. \A x, y \in Nat \ {0} : x * y \in Nat \ {0}
    OBVIOUS
  <2>3. n \in Nat /\ a \in Nat /\ c \in Nat /\ e \in Nat /\ f \in Nat
    BY <1>1
  <2>4. n * a \in Nat /\ n * c \in Nat /\ a * f \in Nat /\ c * e \in Nat
    BY <2>1, <2>3
  <2>5. D \in Nat \ {0}
    BY <2>2
  <2> QED BY <2>4, <2>5
<1>5. t \in Nat /\ u \in Nat /\ e * t <= n * a /\ f * u <= n * c
  BY <1>1, <1>3, <1>4
<1>6. N <= D
  <2> DEFINE q == Frac(N, D)
  <2>1. AtMost(q, One)
    BY <1>1, EvaluationParameters DEF Plus
  <2>2. q \in Rational /\ Same(q, <<N, D>>)
    <3> HIDE DEF N, D
    <3> QED BY <1>4, FracIsSame
  <2>3. PICK x \in Int, y \in Nat \ {0} : q = <<x, y>>
    BY <2>2 DEF Rational
  <2> HIDE DEF q, N, D
  <2>4. x <= y /\ x * D = N * y
    BY <2>1, <2>2, <2>3 DEF AtMost, Same, One
  <2>5. D * x <= D * y
    BY <1>4, <2>4, Scaled
  <2>6. y * N <= y * D
    BY <1>4, <2>4, <2>5
  <2> QED BY <1>4, <2>6, Cancelled
<1>7. f * (e * t) <= f * (n * a) /\ e * (f * u) <= e * (n * c) /\ n * N <= n * D
  <2> HIDE DEF t, u, N, D
  <2>1. e * t \in Int /\ n * a \in Int /\ f * u \in Int /\ n * c \in Int
    BY <1>1, <1>4, <1>5
  <2> QED BY <1>1, <1>4, <1>5, <1>6, <2>1, Scaled
<1> HIDE DEF t, u
<1>8. /\ D * (t + u) = f * (e * t) + e * (f * u)
      /\ n * N = f * (n * a) + e * (n * c)
  <2>1. \A g, h, x, y \in Int : (g * h) * (x + y) = h * (g * x) + g * (h * y)
    OBVIOUS
  <2>2. \A g, h, x, y, z \in Int : z * (x * h + y * g) = h * (z * x) + g * (z * y)
    OBVIOUS
  <2>3. e \in Int /\ f \in Int /\ t \in Int /\ u \in Int /\ n \in Int /\ a \in Int /\ c \in Int
    BY <1>1, <1>5
  <2>4. (e * f) * (t + u) = f * (e * t) + e * (f * u)
    BY <2>1, <2>3
  <2>5. n * (a * f + c * e) = f * (n * a) + e * (n * c)
    BY <2>2, <2>3
  <2> QED BY <2>4, <2>5
<1>9. /\ f * (e * t) \in Int /\ f * (n * a) \in Int /\ e * (f * u) \in Int
      /\ e * (n * c) \in Int /\ n * D \in Int /\ n * N \in Int
  BY <1>1, <1>5
<1>10. D * (t + u) <= D * n
  <2>1. n * D = D * n
    BY <1>1
  <2> HIDE DEF N, D
  <2> QED BY <1>7, <1>8, <1>9, <2>1
<1>11. t + u <= n
  <2> HIDE DEF D, N
  <2> QED BY <1>4, <1>5, <1>10, Cancelled
<1> QED BY <1>2, <1>5, <1>11

\* A story of the last part is not near to the first of that part, and so later
\* than it by more than the band; the others are not later than it.
LEMMA PartsApart ==
  ASSUME NEW S, Named(S)
  PROVE  /\ Ahead(Sorted(S, Earlier)) \in SUBSET S
         /\ Behind(Sorted(S, Earlier)) \in SUBSET S
         /\ \A x \in Ahead(Sorted(S, Earlier)), y \in Behind(Sorted(S, Earlier)) :
              x.born - y.born >= Band
<1> DEFINE n == Cardinality(S)
           s == Sorted(S, Earlier)
           v == Validated(n)
<1>1. n \in Nat /\ Len(s) = n /\ \A i \in 1..n : s[i] \in S
  BY SortedIsLong
<1>2. v \in Nat /\ v <= n
  BY <1>1, ValidatedFits
<1>3. \A i, j \in 1..n : i <= j => s[i].born <= s[j].born
  BY OrderedByBirth
<1>4. \A x \in S : x.born \in Nat
  BY DEF Named, Tale
<1> HIDE DEF n, s, v
<1>5. ASSUME NEW x \in Ahead(s)
      PROVE  x \in S /\ v + 1 <= n /\ x.born - s[v + 1].born >= Band
  <2>1. PICK j \in v + 1..n : x = s[j] /\ ~Near(s, s[j], v)
    BY <1>1 DEF Ahead, v
  <2>2. j \in 1..n /\ v + 1 \in 1..n /\ v + 1 <= j /\ v + 1 <= n /\ v < Len(s)
    BY <1>1, <1>2
  <2>3. s[v + 1].born <= x.born /\ x \in S /\ s[v + 1] \in S
    BY <1>1, <1>3, <2>1, <2>2
  <2>4. x.born \in Nat /\ s[v + 1].born \in Nat /\ Band \in Nat
    BY <1>4, <2>3, EvaluationParameters
  <2>5. ~(Band > 0) \/ LET d == x.born - s[v + 1].born IN ~(d >= -Band /\ d <= Band)
    BY <2>1, <2>2 DEF Near
  <2>6. x.born - s[v + 1].born >= Band
    BY <2>3, <2>4, <2>5
  <2> QED BY <2>2, <2>3, <2>6
<1>6. ASSUME NEW y \in Behind(s), v + 1 <= n
      PROVE  y.born <= s[v + 1].born
  <2>1. PICK i \in 1..v : y = s[i]
    BY <1>1 DEF Behind, v
  <2>2. i \in 1..n /\ v + 1 \in 1..n /\ i <= v + 1
    BY <1>1, <1>2, <1>6
  <2> QED BY <1>3, <2>1, <2>2
<1>8. \A y \in Behind(s) : y \in S
  BY <1>1, <1>2 DEF Behind, v
<1>9. ASSUME NEW x \in Ahead(s), NEW y \in Behind(s) PROVE x.born - y.born >= Band
  <2>1. v + 1 <= n /\ x.born - s[v + 1].born >= Band /\ x \in S /\ y \in S
    BY <1>5, <1>8
  <2>2. s[v + 1] \in S
    BY <1>1, <1>2, <2>1
  <2>3. x.born \in Nat /\ y.born \in Nat /\ s[v + 1].born \in Nat /\ Band \in Nat
    BY <1>4, <2>1, <2>2, EvaluationParameters
  <2>4. y.born <= s[v + 1].born
    BY <1>6, <2>1
  <2> QED BY <2>1, <2>3, <2>4
<1> QED BY <1>5, <1>8, <1>9 DEF s

-----------------------------------------------------------------------------
\* The labels.  What comes up to the middle by outcome is not more than the
\* median, and that is half of the stories at least.

LessOf(S) == [x \in S |-> {y \in S : Poorer(y, x)}]

LEMMA OutcomesAreOrdered ==
  ASSUME NEW S, Named(S)
  PROVE  LessOf(S) \in Ordering(S) /\ InOrder(Sorted(S, Poorer), S, LessOf(S))
<1>1. \A x \in S : x.outcome \in Nat /\ x.id \in Nat
  <2>1. Yields \subseteq Nat /\ MaxStories \in Nat
    BY EvaluationParameters
  <2>2. \A x \in S : x.outcome \in Yields
    BY DEF Named, Tale
  <2>3. \A x \in S : x.outcome \in Nat
    BY <2>1, <2>2
  <2>4. \A x \in S : x.id \in Nat
    BY DEF Named, Tale
  <2> QED BY <2>3, <2>4
<1> DEFINE b == LessOf(S)
           s == Sorted(S, Poorer)
<1>2. b \in Ordering(S)
  <2> SUFFICES ASSUME NEW x \in S, NEW y \in S
               PROVE  /\ x \notin b[x]
                      /\ x = y \/ x \in b[y] \/ y \in b[x]
                      /\ y \in b[x] => b[y] \subseteq b[x]
    BY DEF Ordering, LessOf
  <2>1. x = y \/ x.id # y.id
    BY DEF Named
  <2> QED BY <1>1, <2>1 DEF LessOf, Poorer
<1>3. IsFiniteSet(S)
  BY DEF Named
<1>4. ASSUME NEW i \in 1..Cardinality(S) PROVE s[i] \in S /\ Cardinality(b[s[i]]) = i - 1
  <2>1. s[i] = CHOOSE x \in S : Cardinality({y \in S : Poorer(y, x)}) = i - 1
    BY DEF Sorted
  <2>2. \E x \in S : Cardinality(b[x]) = i - 1
    <3> HIDE DEF b
    <3> QED BY <1>2, <1>3, RanksExist
  <2>3. \E x \in S : Cardinality({y \in S : Poorer(y, x)}) = i - 1
    BY <2>2 DEF LessOf
  <2>4. s[i] \in S /\ Cardinality({y \in S : Poorer(y, s[i])}) = i - 1
    <3> HIDE DEF s, b
    <3> QED BY <2>1, <2>3
  <2> QED BY <2>4 DEF LessOf
<1>5. s = [i \in 1..Cardinality(S) |-> s[i]]
  <2> DEFINE at(i) == CHOOSE x \in S : Cardinality({y \in S : Poorer(y, x)}) = i - 1
  <2>1. s = [i \in 1..Cardinality(S) |-> at(i)]
    BY Zenon DEF Sorted
  <2> HIDE DEF s, at
  <2> QED BY <2>1
<1>6. InOrder(s, S, b)
  <2> HIDE DEF s, b
  <2> QED BY <1>4, <1>5 DEF InOrder
<1> QED BY <1>2, <1>6

LEMMA HalfAtMostDouble ==
  ASSUME NEW S, Named(S), S # {}
  PROVE  Doubled(S) \in SUBSET S /\ 2 * Cardinality(Doubled(S)) <= Cardinality(S)
<1> DEFINE n == Cardinality(S)
           k == (n + 1) \div 2
           l == n \div 2 + 1
           b == LessOf(S)
           s == Sorted(S, Poorer)
           low == b[s[k]] \cup {s[k]}
<1>1. IsFiniteSet(S) /\ n \in Nat \ {0}
  BY FS_CardinalityType, FS_EmptySet DEF Named
<1>2. k \in 1..n /\ l \in 1..n /\ k <= l /\ n <= 2 * k /\ k \in Nat /\ l \in Nat
  <2> HIDE DEF n
  <2> QED BY <1>1
<1>3. b \in Ordering(S) /\ InOrder(s, S, b)
  BY OutcomesAreOrdered
<1> HIDE DEF s
<1>4. /\ s = [i \in 1..n |-> s[i]] /\ s[k] \in S /\ s[l] \in S /\ Cardinality(b[s[k]]) = k - 1
  <2> HIDE DEF b
  <2> QED BY <1>2, <1>3 DEF InOrder
<1>5. Len(s) = n
  <2>1. \A i \in 1..n : s[i] \in S
    BY <1>3 DEF InOrder
  <2> HIDE DEF n
  <2>2. s \in Seq(S) /\ DOMAIN s = 1..n
    BY <1>1, <1>4, <2>1
  <2> QED BY <1>1, <2>2
<1>6. Medians(S) = s[k].outcome + s[l].outcome
  BY <1>5 DEF Medians, s
<1>7. \A x \in S : x.outcome \in Nat
  BY EvaluationParameters DEF Named, Tale
<1>8. s[k].outcome <= s[l].outcome
  <2>1. CASE k = l
    BY <1>4, <1>7, <2>1
  <2>2. CASE k < l
    <3>1. s[k] \in b[s[l]]
      <4> HIDE DEF b, k, l
      <4> QED BY <1>1, <1>2, <1>3, <2>2, OrderIsKept
    <3> QED BY <1>4, <1>7, <3>1 DEF LessOf, Poorer
  <2> HIDE DEF k, l
  <2> QED BY <1>2, <2>1, <2>2
<1>9. b[s[k]] \in SUBSET S /\ s[k] \notin b[s[k]]
  <2> HIDE DEF b, k
  <2> QED BY <1>3, <1>4 DEF Ordering
<1>10. low \in SUBSET S /\ IsFiniteSet(low) /\ Cardinality(low) = k
  <2>1. IsFiniteSet(b[s[k]])
    BY <1>1, <1>9, FS_Subset
  <2>2. low \in SUBSET S
    BY <1>4, <1>9
  <2>3. IsFiniteSet(low) /\ Cardinality(low) = k - 1 + 1
    <3> HIDE DEF b, k
    <3> QED BY <1>4, <1>9, <2>1, FS_AddElement
  <2> QED BY <1>2, <2>2, <2>3
<1>11. Doubled(S) \in SUBSET S /\ Doubled(S) \cap low = {}
  <2>1. ASSUME NEW x \in low PROVE x.outcome <= s[k].outcome
    BY <1>4, <1>7, <1>9 DEF LessOf, Poorer
  <2>2. ASSUME NEW x \in Doubled(S) PROVE x \in S /\ x.outcome > s[k].outcome
    <3>1. x \in S /\ 2 * x.outcome > s[k].outcome + s[l].outcome
      BY <1>6 DEF Doubled
    <3>2. x.outcome \in Nat /\ s[k].outcome \in Nat /\ s[l].outcome \in Nat
      BY <1>4, <1>7, <3>1
    <3> QED BY <1>8, <3>1, <3>2
  <2>3. \A x \in S : x.outcome \in Nat
    BY <1>7
  <2> HIDE DEF low
  <2>4. s[k].outcome \in Nat
    BY <1>4, <1>7
  <2>5. \A x \in Doubled(S) : x \notin low
    BY <2>1, <2>2, <2>3, <2>4
  <2> QED BY <2>2, <2>5
<1> HIDE DEF low, n, k
<1>12. IsFiniteSet(Doubled(S)) /\ Cardinality(Doubled(S)) \in Nat
  BY <1>1, <1>11, FS_Subset, FS_CardinalityType
<1>13. Cardinality(Doubled(S) \cup low) = Cardinality(Doubled(S)) + k
  <2>1. Cardinality(Doubled(S) \cap low) = 0
    BY <1>11, FS_EmptySet
  <2>2. Cardinality(Doubled(S) \cup low) =
           Cardinality(Doubled(S)) + Cardinality(low) - Cardinality(Doubled(S) \cap low)
    BY <1>10, <1>12, FS_Union
  <2> QED BY <1>2, <1>10, <1>12, <2>1, <2>2
<1>14. Cardinality(Doubled(S) \cup low) <= n
  BY <1>1, <1>10, <1>11, FS_Subset DEF n
<1> QED BY <1>1, <1>2, <1>11, <1>12, <1>13, <1>14 DEF n

-----------------------------------------------------------------------------
EvaluationInv ==
  /\ Named(stories)
  /\ \A x \in stories : x.id \in 1..Cardinality(stories)
  /\ report.test \subseteq stories /\ report.rest \subseteq stories
  /\ report.hits \subseteq report.test
  /\ PartsAreApart /\ HitsAreFew

LEMMA NothingReported ==
  ASSUME report' = NoReport
  PROVE  /\ PartsAreApart' /\ HitsAreFew'
         /\ report'.test = {} /\ report'.rest = {} /\ report'.hits = {}
<1>1. report'.test = {} /\ report'.rest = {} /\ report'.hits = {}
  BY DEF NoReport
<1>2. Cardinality({}) = 0
  BY FS_EmptySet
<1> QED BY <1>1, <1>2 DEF PartsAreApart, HitsAreFew

LEMMA TellKeeps ==
  ASSUME EvaluationInv, Tell
  PROVE  EvaluationInv'
<1> DEFINE n == Cardinality(stories)
           births == {t.born : t \in stories}
           last == Max(births \cup {0})
<1>1. /\ IsFiniteSet(stories) /\ stories \subseteq Tale /\ n \in Nat
      /\ \A x, y \in stories : x.id = y.id => x = y
      /\ \A x \in stories : x.id \in 1..n
  BY FS_CardinalityType DEF EvaluationInv, Named
<1>2. n < MaxStories /\ MaxStories \in Nat /\ report' = NoReport
  BY EvaluationParameters DEF Tell
<1>3. last \in Nat
  <2> DEFINE f == [t \in stories |-> t.born]
  <2>1. births = {f[t] : t \in stories}
    OBVIOUS
  <2>2. IsFiniteSet({f[t] : t \in stories})
    <3>1. f = [t \in stories |-> f[t]]
      OBVIOUS
    <3> HIDE DEF f
    <3> QED BY <1>1, <3>1, FiniteImage
  <2>5. births \in SUBSET Nat
    BY <1>1 DEF Tale
  <2>6. IsFiniteSet(births)
    BY <2>1, <2>2
  <2> HIDE DEF births
  <2>3. IsFiniteSet(births \cup {0}) /\ births \cup {0} \in SUBSET Nat /\ births \cup {0} # {}
    BY <2>5, <2>6, FS_AddElement
  <2>4. \E m \in births \cup {0} : \A k \in births \cup {0} : k <= m
    BY <2>3, ExtremesExist
  <2> QED BY <2>3, <2>4 DEF Max
<1> HIDE DEF last
<1>4. PICK born \in {last, last + 1}, score \in Grades, outcome \in Yields :
        stories' = stories \cup {[id |-> n + 1, born |-> born, score |-> score,
                                  outcome |-> outcome]}
  BY DEF Tell, last
<1> DEFINE t == [id |-> n + 1, born |-> born, score |-> score, outcome |-> outcome]
<1>5. t \in Tale /\ t.id = n + 1
  BY <1>1, <1>2, <1>3 DEF Tale
<1>6. stories' = stories \cup {t} /\ t \notin stories
  BY <1>1, <1>4, <1>5
<1> HIDE DEF t
<1>7. IsFiniteSet(stories') /\ Cardinality(stories') = n + 1
  BY <1>1, <1>6, FS_AddElement
<1>8. Named(stories')
  BY <1>1, <1>5, <1>6, <1>7 DEF Named
<1>9. \A x \in stories' : x.id \in 1..Cardinality(stories')
  BY <1>1, <1>5, <1>6, <1>7
<1> QED BY <1>2, <1>8, <1>9, NothingReported DEF EvaluationInv

LEMMA EvaluateKeeps ==
  ASSUME EvaluationInv, Evaluate
  PROVE  EvaluationInv'
<1> DEFINE order == Sorted(stories, Earlier)
           test == Ahead(order)
           rest == Behind(order)
           hits == IF test = {} THEN {} ELSE Doubled(test)
<1>1. /\ stories' = stories
      /\ report'.test = test /\ report'.rest = rest /\ report'.hits = hits
  BY Zenon DEF Evaluate
<1>2. /\ test \in SUBSET stories /\ rest \in SUBSET stories
      /\ \A x \in test, y \in rest : x.born - y.born >= Band
  BY PartsApart DEF EvaluationInv
<1> HIDE DEF test, rest
<1>3. Named(test)
  BY <1>2, FS_Subset DEF EvaluationInv, Named
<1>4. hits \in SUBSET test /\ 2 * Cardinality(hits) <= Cardinality(test)
  <2>1. CASE test = {}
    BY <2>1, FS_EmptySet
  <2>2. CASE test # {}
    BY <1>3, <2>2, HalfAtMostDouble
  <2> QED BY <2>1, <2>2
<1> HIDE DEF hits
<1>5. PartsAreApart' /\ HitsAreFew'
  BY <1>1, <1>2, <1>4 DEF PartsAreApart, HitsAreFew
<1> QED BY <1>1, <1>2, <1>4, <1>5 DEF EvaluationInv

LEMMA EvaluationKept == Spec => []EvaluationInv
<1>1. Init => EvaluationInv
  <2> SUFFICES ASSUME EvaluationInit PROVE EvaluationInv
    BY DEF Init
  <2>1. stories = {} /\ report.test = {} /\ report.rest = {} /\ report.hits = {}
    BY DEF EvaluationInit, NoReport
  <2>2. IsFiniteSet({}) /\ Cardinality({}) = 0
    BY FS_EmptySet
  <2> QED BY <2>1, <2>2 DEF EvaluationInv, Named, PartsAreApart, HitsAreFew
<1>2. EvaluationInv /\ [Next]_vars => EvaluationInv'
  <2> SUFFICES ASSUME EvaluationInv, [Next]_vars PROVE EvaluationInv'
    OBVIOUS
  <2>1. Tell \/ Evaluate \/ UNCHANGED evaluationVars
    BY Zenon DEF Next, vars, Serving, Batching, Judging, Gating, EvaluationNext
  <2>2. CASE UNCHANGED evaluationVars
    BY <2>2 DEF evaluationVars, EvaluationInv, PartsAreApart, HitsAreFew
  <2> QED BY <2>1, <2>2, TellKeeps, EvaluateKeeps
<1> QED BY <1>1, <1>2, PTL DEF Spec

\* The gate tests no story that was born within the gap of the others, and counts
\* no more than half of those it tests as hits: for any shares, gap, stories and
\* outcomes (split_by_time, label_partition).
THEOREM PartsAreFair == Spec => [](PartsAreApart /\ HitsAreFew)
<1>1. EvaluationInv => PartsAreApart /\ HitsAreFew
  BY DEF EvaluationInv
<1> QED BY <1>1, EvaluationKept, PTL

-----------------------------------------------------------------------------
(***************************************************************************)
(* Sums over a set, by the folds of the community modules.  Induction is   *)
(* by the smallest set on which a statement fails.                         *)
(***************************************************************************)

\* Of the sets that fail there is one without a smaller one.
LEMMA SmallestFails ==
  ASSUME NEW S, IsFiniteSet(S), NEW W \in SUBSET SUBSET S, W # {}
  PROVE  \E T \in W : \A U \in W : U \subseteq T => U = T
<1>1. IsWellFoundedOn(StrictSubsetOrdering(S), SUBSET S)
  BY FS_StrictSubsetOrderingWellFounded, FS_FiniteSubsetsOfFinite
<1>2. \E x \in W : \A y \in W : ~ (<<y, x>> \in StrictSubsetOrdering(S))
  BY <1>1, WFMin
<1> QED BY <1>2 DEF StrictSubsetOrdering

\* Some element, as the folds over sets take them.
Some(s) == CHOOSE x \in s : TRUE

\* What MapThenSumSet computes of T: sum is a fold of the weights w.
Summing(sum, w, T) ==
  sum = [s \in SUBSET T |-> IF s = {} THEN 0 ELSE w[Some(s)] + sum[s \ {Some(s)}]]

\* A function that grows by the weight of each element is the sum of the weights,
\* whichever elements the fold takes first.
LEMMA SumIs ==
  ASSUME NEW T, IsFiniteSet(T), NEW w, NEW g, g = [s \in SUBSET T |-> g[s]], g[{}] = 0,
         \A s \in SUBSET T : \A x \in s : g[s] = w[x] + g[s \ {x}]
  PROVE  /\ Summing(g, w, T)
         /\ \A sum : Summing(sum, w, T) => sum[T] = g[T]
<1>1. ASSUME NEW s \in SUBSET T, s # {} PROVE Some(s) \in s
  BY <1>1 DEF Some
<1>2. \A s \in SUBSET T : g[s] = IF s = {} THEN 0 ELSE w[Some(s)] + g[s \ {Some(s)}]
  BY <1>1
<1>3. Summing(g, w, T)
  BY <1>2 DEF Summing
<1>4. ASSUME NEW sum, Summing(sum, w, T) PROVE sum[T] = g[T]
  <2> DEFINE W == {s \in SUBSET T : sum[s] # g[s]}
  <2>1. SUFFICES ASSUME W # {} PROVE FALSE
    OBVIOUS
  <2>2. PICK s \in W : \A u \in W : u \subseteq s => u = s
    <3>1. W \in SUBSET SUBSET T
      OBVIOUS
    <3> HIDE DEF W
    <3> QED BY <2>1, <3>1, SmallestFails
  <2>3. s \in SUBSET T /\ sum[s] # g[s]
    BY <2>2
  <2>4. sum[s] = IF s = {} THEN 0 ELSE w[Some(s)] + sum[s \ {Some(s)}]
    BY <1>4, <2>3 DEF Summing
  <2>5. s # {} /\ Some(s) \in s
    BY <1>1, <2>3, <2>4
  <2>6. sum[s \ {Some(s)}] = g[s \ {Some(s)}]
    <3>1. s \ {Some(s)} \in SUBSET T /\ s \ {Some(s)} \subseteq s /\ s \ {Some(s)} # s
      BY <2>3, <2>5
    <3> QED BY <2>2, <3>1
  <2> QED BY <1>2, <2>3, <2>4, <2>5, <2>6
<1> QED BY <1>3, <1>4

\* The pairs of an element of A and one of B in R.
Both(A, B, R) == (A \X B) \cap R

LEMMA BothIsFinite ==
  ASSUME NEW A, NEW B, NEW R, IsFiniteSet(A), IsFiniteSet(B)
  PROVE  IsFiniteSet(Both(A, B, R)) /\ Cardinality(Both(A, B, R)) \in Nat
<1>1. Both(A, B, R) \in SUBSET (A \X B)
  BY DEF Both
<1> QED BY <1>1, FS_Product, FS_Subset, FS_CardinalityType

\* The pairs of one element are as many as what it is paired with.
LEMMA BothOfOne ==
  ASSUME NEW A, NEW B, NEW R, NEW x \in A, IsFiniteSet(A), IsFiniteSet(B)
  PROVE  Cardinality(Both(A, B, R)) =
           Cardinality({y \in B : <<x, y>> \in R}) + Cardinality(Both(A \ {x}, B, R))
<1> DEFINE Y == {y \in B : <<x, y>> \in R}
           P == {<<x, y>> : y \in Y}
           U == Both(A \ {x}, B, R)
           f == [y \in Y |-> <<x, y>>]
<1>1. IsFiniteSet(Y) /\ Cardinality(Y) \in Nat
  BY FS_Subset, FS_CardinalityType
<1>2. f \in Bijection(Y, P)
  BY DEF Bijection, Injection, Surjection, IsInjective
<1>3. IsFiniteSet(P) /\ Cardinality(P) = Cardinality(Y)
  <2> HIDE DEF f, Y, P
  <2> QED BY <1>1, <1>2, FS_Bijection DEF ExistsBijection
<1>4. IsFiniteSet(U) /\ Cardinality(U) \in Nat
  BY BothIsFinite, FS_Subset
<1>5. Both(A, B, R) = P \cup U /\ P \cap U = {}
  <2>1. \A q : q \in P <=> q \in Both(A, B, R) /\ q[1] = x
    <3>1. ASSUME NEW q \in P PROVE q \in Both(A, B, R) /\ q[1] = x
      <4>1. PICK y \in B : q = <<x, y>> /\ <<x, y>> \in R
        OBVIOUS
      <4> QED BY <4>1 DEF Both
    <3>2. ASSUME NEW q \in Both(A, B, R), q[1] = x PROVE q \in P
      <4>1. PICK y \in B : q = <<x, y>> /\ q \in R
        BY <3>2 DEF Both
      <4> QED BY <4>1
    <3> QED BY <3>1, <3>2
  <2>2. \A q : q \in U <=> q \in Both(A, B, R) /\ q[1] # x
    BY DEF Both
  <2> QED BY <2>1, <2>2
<1> HIDE DEF P, U
<1>6. Cardinality(P \cup U) = Cardinality(P) + Cardinality(U) - Cardinality(P \cap U)
  BY <1>3, <1>4, FS_Union
<1>7. Cardinality(P \cap U) = 0
  BY <1>5, FS_EmptySet
<1> QED BY <1>1, <1>3, <1>4, <1>5, <1>6, <1>7 DEF U

\* Pairs with either of two sets.
LEMMA BothOfParts ==
  ASSUME NEW A, NEW B, NEW C, NEW R, IsFiniteSet(A), IsFiniteSet(B), C \subseteq B
  PROVE  Cardinality(Both(A, B, R)) = Cardinality(Both(A, C, R)) + Cardinality(Both(A, B \ C, R))
<1> DEFINE P == Both(A, C, R)
           U == Both(A, B \ C, R)
<1>1. /\ IsFiniteSet(P) /\ Cardinality(P) \in Nat
      /\ IsFiniteSet(U) /\ Cardinality(U) \in Nat
  BY BothIsFinite, FS_Subset
<1>2. Both(A, B, R) = P \cup U /\ P \cap U = {}
  BY DEF Both
<1> HIDE DEF P, U
<1>3. Cardinality(P \cup U) = Cardinality(P) + Cardinality(U) - Cardinality(P \cap U)
  BY <1>1, FS_Union
<1>4. Cardinality(P \cap U) = 0
  BY <1>2, FS_EmptySet
<1> QED BY <1>1, <1>2, <1>3, <1>4 DEF P, U

-----------------------------------------------------------------------------
\* Pairs of stories, by score.
Outscores(S) == {q \in S \X S : q[2].score < q[1].score}
Equals(S) == {q \in S \X S : q[2].score = q[1].score}

\* Of the pairs of two of the same set, each is of equals or outscores one way.
LEMMA PairsWithin ==
  ASSUME NEW S, NEW H, IsFiniteSet(H), H \subseteq S, \A x \in S : x.score \in Nat
  PROVE  2 * Cardinality(Both(H, H, Outscores(S))) + Cardinality(Both(H, H, Equals(S)))
           = Cardinality(H) * Cardinality(H)
<1> DEFINE P == Both(H, H, Outscores(S))
           E == Both(H, H, Equals(S))
           Q == {q \in H \X H : q[1].score < q[2].score}
           f == [q \in P |-> <<q[2], q[1]>>]
<1>1. /\ IsFiniteSet(P) /\ Cardinality(P) \in Nat
      /\ IsFiniteSet(E) /\ Cardinality(E) \in Nat
  BY BothIsFinite
<1>2. f \in Bijection(P, Q)
  <2>1. f \in [P -> Q]
    BY DEF Both, Outscores
  <2>2. \A q, r \in P : f[q] = f[r] => q = r
    BY DEF Both
  <2>3. \A q \in Q : <<q[2], q[1]>> \in P /\ f[<<q[2], q[1]>>] = q
    <3> TAKE q \in Q
    <3>1. PICK x \in H, y \in H : q = <<x, y>> /\ x.score < y.score
      OBVIOUS
    <3>2. <<y, x>> \in P
      BY <3>1 DEF Both, Outscores
    <3> QED BY <3>1, <3>2
  <2> HIDE DEF f, P, Q
  <2> QED BY <2>1, <2>2, <2>3 DEF Bijection, Injection, Surjection, IsInjective
<1>3. IsFiniteSet(Q) /\ Cardinality(Q) = Cardinality(P)
  <2> HIDE DEF f, P, Q
  <2> QED BY <1>1, <1>2, FS_Bijection DEF ExistsBijection
<1>4. H \X H = (P \cup Q) \cup E
  <2> SUFFICES ASSUME NEW x \in H, NEW y \in H PROVE <<x, y>> \in (P \cup Q) \cup E
    BY DEF Both
  <2>1. x.score \in Nat /\ y.score \in Nat /\ x \in S /\ y \in S
    OBVIOUS
  <2>2. x.score < y.score \/ y.score < x.score \/ y.score = x.score
    BY <2>1
  <2> QED BY <2>1, <2>2 DEF Both, Outscores, Equals
<1>5. P \cap Q = {} /\ (P \cup Q) \cap E = {}
  <2> SUFFICES ASSUME NEW q \in H \X H
               PROVE  ~(q \in P /\ q \in Q) /\ ~(q \in P /\ q \in E) /\ ~(q \in Q /\ q \in E)
    BY DEF Both
  <2>1. q[1].score \in Nat /\ q[2].score \in Nat
    OBVIOUS
  <2> QED BY <2>1 DEF Both, Outscores, Equals
<1> HIDE DEF P, Q, E
<1>6. /\ IsFiniteSet(P \cup Q)
      /\ Cardinality(P \cup Q) = Cardinality(P) + Cardinality(Q) - Cardinality(P \cap Q)
  BY <1>1, <1>3, FS_Union
<1>7. Cardinality((P \cup Q) \cup E) =
        Cardinality(P \cup Q) + Cardinality(E) - Cardinality((P \cup Q) \cap E)
  BY <1>1, <1>6, FS_Union
<1>8. Cardinality(P \cap Q) = 0 /\ Cardinality((P \cup Q) \cap E) = 0
  BY <1>5, FS_EmptySet
<1>9. Cardinality(H \X H) = Cardinality(H) * Cardinality(H)
  BY FS_Product
<1>10. 2 * Cardinality(P) + Cardinality(E) = Cardinality(H \X H)
  <2>1. Cardinality((P \cup Q) \cup E) = Cardinality(P) + Cardinality(P) + Cardinality(E)
    BY <1>1, <1>3, <1>6, <1>7, <1>8
  <2>2. Cardinality(H \X H) = Cardinality((P \cup Q) \cup E)
    BY <1>4
  <2> QED BY <1>1, <2>1, <2>2
<1> QED BY <1>9, <1>10 DEF P, E

-----------------------------------------------------------------------------
(***************************************************************************)
(* The rank sum of roc_auc, taken apart into the pairs it counts: every hit *)
(* is ranked above the misses it outscores and half above those it ties.   *)
(***************************************************************************)

\* The ranks of the hits count the pairs of a hit and a story that it outscores
\* twice, those of equals once, and the hits.
LEMMA SumOfRanks ==
  ASSUME NEW S, IsFiniteSet(S), NEW H \in SUBSET S
  PROVE  MapThenSumSet(LAMBDA x : Rank(S, x), H) =
           2 * Cardinality(Both(H, S, Outscores(S))) + Cardinality(Both(H, S, Equals(S)))
             + Cardinality(H)
<1> DEFINE out(s) == Cardinality(Both(s, S, Outscores(S)))
           eq(s) == Cardinality(Both(s, S, Equals(S)))
           g == [s \in SUBSET H |-> 2 * out(s) + eq(s) + Cardinality(s)]
           w == [x \in H |-> Rank(S, x)]
           Fold(iter) == iter = [s \in SUBSET H |->
                                   IF s = {} THEN 0
                                   ELSE LET x == CHOOSE x \in s : TRUE
                                        IN  Rank(S, x) + iter[s \ {x}]]
           sum == CHOOSE iter : Fold(iter)
<1>1. MapThenSumSet(LAMBDA x : Rank(S, x), H) = sum[H]
  BY DEF MapThenSumSet, MapThenFoldSet
<1>2. IsFiniteSet(H) /\ \A s \in SUBSET H : IsFiniteSet(s) /\ Cardinality(s) \in Nat
  BY FS_Subset, FS_CardinalityType
<1>3. \A s \in SUBSET H : out(s) \in Nat /\ eq(s) \in Nat
  BY <1>2, BothIsFinite
<1>4. out({}) = 0 /\ eq({}) = 0 /\ Cardinality({}) = 0
  BY FS_EmptySet DEF Both
<1>5. ASSUME NEW s \in SUBSET H, NEW x \in s
      PROVE  /\ out(s) = Below(S, x) + out(s \ {x})
             /\ eq(s) = Level(S, x) + eq(s \ {x})
             /\ Cardinality(s) = 1 + Cardinality(s \ {x})
             /\ Below(S, x) \in Nat /\ Level(S, x) \in Nat
  <2>1. Below(S, x) \in Nat /\ Level(S, x) \in Nat
    BY FS_Subset, FS_CardinalityType DEF Below, Level
  <2>2. Cardinality(s) = 1 + Cardinality(s \ {x})
    BY <1>2, FS_RemoveElement
  <2>3. /\ {y \in S : <<x, y>> \in Outscores(S)} = {y \in S : y.score < x.score}
        /\ {y \in S : <<x, y>> \in Equals(S)} = {y \in S : y.score = x.score}
    BY DEF Outscores, Equals
  <2> QED BY <1>2, <2>1, <2>2, <2>3, BothOfOne DEF Below, Level
<1>6. g[{}] = 0
  BY <1>4
<1> HIDE DEF out, eq
<1>7. ASSUME NEW s \in SUBSET H, NEW x \in s PROVE g[s] = w[x] + g[s \ {x}]
  <2>1. /\ g[s] = 2 * out(s) + eq(s) + Cardinality(s)
        /\ g[s \ {x}] = 2 * out(s \ {x}) + eq(s \ {x}) + Cardinality(s \ {x})
        /\ w[x] = 2 * Below(S, x) + Level(S, x) + 1
    BY DEF Rank
  <2>2. /\ out(s \ {x}) \in Nat /\ eq(s \ {x}) \in Nat /\ Cardinality(s \ {x}) \in Nat
    BY <1>2, <1>3
  <2> HIDE DEF g, w
  <2> QED BY <1>5, <2>1, <2>2
<1>8. g = [s \in SUBSET H |-> g[s]]
  OBVIOUS
<1>9. Summing(g, w, H) /\ \A f : Summing(f, w, H) => f[H] = g[H]
  <2> HIDE DEF g, w
  <2> QED BY <1>2, <1>6, <1>7, <1>8, SumIs
<1>10. ASSUME NEW f PROVE Summing(f, w, H) <=> Fold(f)
  <2>1. \A s \in SUBSET H : s # {} => Some(s) \in s
    BY DEF Some
  <2>2. \A s \in SUBSET H : s # {} => w[Some(s)] = Rank(S, Some(s))
    BY <2>1
  <2> HIDE DEF w
  <2> QED BY <2>2 DEF Summing, Some
<1>11. Fold(sum)
  <2> HIDE DEF Fold, g
  <2> QED BY <1>9, <1>10
<1>12. sum[H] = g[H]
  <2> HIDE DEF Fold, g, w, sum
  <2> QED BY <1>9, <1>10, <1>11
<1> QED BY <1>1, <1>12 DEF out, eq

\* The ROC-AUC is the share of pairs of a hit and another that the score tells
\* apart, those of equals by half.
LEMMA RocIsShareOfPairs ==
  ASSUME NEW S, IsFiniteSet(S), \A x \in S : x.score \in Nat,
         NEW H \in SUBSET S, H # {}, H # S
  PROVE  /\ RocAuc(S, H) \in Rational
         /\ Same(RocAuc(S, H),
                 <<2 * Cardinality(Both(H, S \ H, Outscores(S)))
                     + Cardinality(Both(H, S \ H, Equals(S))),
                   2 * Cardinality(H) * Cardinality(S \ H)>>)
<1> DEFINE p == Cardinality(H)
           n == Cardinality(S)
           m == Cardinality(S \ H)
           total == MapThenSumSet(LAMBDA x : Rank(S, x), H)
           out(B) == Cardinality(Both(H, B, Outscores(S)))
           eq(B) == Cardinality(Both(H, B, Equals(S)))
<1>1. RocAuc(S, H) = Frac(total - p * (p + 1), 2 * p * (n - p))
  BY DEF RocAuc
<1>2. IsFiniteSet(H) /\ p \in Nat \ {0} /\ n \in Nat /\ m \in Nat \ {0} /\ n - p = m
  <2>1. IsFiniteSet(H) /\ p \in Nat /\ p # 0
    BY FS_Subset, FS_CardinalityType, FS_EmptySet
  <2>2. IsFiniteSet(S \ H) /\ S \ H # {}
    BY FS_Subset
  <2>3. m \in Nat /\ m # 0
    BY <2>2, FS_CardinalityType, FS_EmptySet
  <2>4. m = n - Cardinality(S \cap H) /\ S \cap H = H
    BY FS_Difference
  <2>5. n \in Nat
    BY FS_CardinalityType
  <2> QED BY <2>1, <2>3, <2>4, <2>5
<1>3. total = 2 * out(S) + eq(S) + p
  BY SumOfRanks
<1>4. /\ out(S) = out(H) + out(S \ H) /\ eq(S) = eq(H) + eq(S \ H)
      /\ 2 * out(H) + eq(H) = p * p
  BY <1>2, BothOfParts, PairsWithin
<1>5. out(H) \in Nat /\ out(S \ H) \in Nat /\ eq(H) \in Nat /\ eq(S \ H) \in Nat
  <2>1. IsFiniteSet(S \ H)
    BY FS_Subset
  <2> QED BY <1>2, <2>1, BothIsFinite
<1> HIDE DEF p, n, m, total, out, eq
<1>6. total - p * (p + 1) = 2 * out(S \ H) + eq(S \ H)
  <2>1. p * (p + 1) = p * p + p /\ p * p \in Nat
    BY <1>2
  <2> QED BY <1>2, <1>3, <1>4, <1>5, <2>1
<1>7. 2 * p * m \in Nat \ {0} /\ 2 * p * (n - p) = 2 * p * m
  BY <1>2
<1>8. 2 * out(S \ H) + eq(S \ H) \in Int
  BY <1>5
<1>9. RocAuc(S, H) = Frac(2 * out(S \ H) + eq(S \ H), 2 * p * m)
  BY <1>1, <1>6, <1>7
<1> QED BY <1>7, <1>8, <1>9, FracIsSame DEF p, m, out, eq

-----------------------------------------------------------------------------
(***************************************************************************)
(* The precision of the first places.  A fold takes the places one by one, *)
(* and what it has counted by a place is the hits up to it.                *)
(***************************************************************************)

\* A fold over the subsets of T, that takes out pick[s] of each s.
Folding(g, T, base, pick, step) ==
  \A s \in SUBSET T : g[s] = IF s = {} THEN base ELSE step[<<pick[s], g[s \ {pick[s]}]>>]
Picks(pick, T) == \A s \in SUBSET T : s # {} => pick[s] \in s

\* It exists: what it
\* gives for the sets of n elements is built on what it gives for smaller ones.
LEMMA FoldExists ==
  ASSUME NEW T, IsFiniteSet(T), NEW V, NEW base \in V, NEW pick, NEW step \in [T \X V -> V],
         Picks(pick, T)
  PROVE  \E g \in [SUBSET T -> V] : Folding(g, T, base, pick, step)
<1> USE DEF Picks
<1> DEFINE Built(g, s) == IF s = {} THEN base ELSE step[<<pick[s], g[s \ {pick[s]}]>>]
           Good(n) == \E g \in [SUBSET T -> V] :
                        \A s \in SUBSET T : Cardinality(s) <= n => g[s] = Built(g, s)
           N == Cardinality(T)
           Bad == {n \in 0..N : ~Good(n)}
<1>1. \A s \in SUBSET T : IsFiniteSet(s) /\ Cardinality(s) \in Nat /\ Cardinality(s) <= N
  BY FS_Subset, FS_CardinalityType
<1>2. N \in Nat
  BY <1>1
<1>3. \A g \in [SUBSET T -> V], s \in SUBSET T : Built(g, s) \in V
  OBVIOUS
<1>4. Good(0)
  <2> DEFINE g == [s \in SUBSET T |-> base]
  <2>1. ASSUME NEW s \in SUBSET T, Cardinality(s) <= 0 PROVE g[s] = Built(g, s)
    <3>1. Cardinality(s) = 0
      BY <1>1, <2>1
    <3>2. s = {}
      BY <1>1, <3>1, FS_EmptySet
    <3> QED BY <3>2
  <2>2. g \in [SUBSET T -> V]
    OBVIOUS
  <2> HIDE DEF g, Built
  <2> QED BY <2>1, <2>2
<1>5. ASSUME NEW n \in Nat \ {0}, Good(n - 1) PROVE Good(n)
  <2>1. PICK f \in [SUBSET T -> V] :
          \A s \in SUBSET T : Cardinality(s) <= n - 1 => f[s] = Built(f, s)
    BY <1>5
  <2> DEFINE g == [s \in SUBSET T |-> IF Cardinality(s) < n THEN f[s] ELSE Built(f, s)]
  <2>2. g \in [SUBSET T -> V]
    <3> HIDE DEF Built
    <3> QED BY <1>3
  <2>3. ASSUME NEW s \in SUBSET T, Cardinality(s) <= n PROVE g[s] = Built(g, s)
    <3>1. g[s] = Built(f, s)
      <4>1. CASE Cardinality(s) < n
        <5>1. Cardinality(s) <= n - 1
          BY <1>1, <4>1
        <5> HIDE DEF Built
        <5> QED BY <2>1, <4>1, <5>1
      <4>2. CASE ~(Cardinality(s) < n)
        <5> HIDE DEF Built
        <5> QED BY <4>2
      <4> QED BY <4>1, <4>2
    <3>2. Built(f, s) = Built(g, s)
      <4>1. CASE s = {}
        BY <4>1
      <4>2. CASE s # {}
        <5> DEFINE u == s \ {pick[s]}
        <5>1. pick[s] \in s /\ u \in SUBSET T
          BY <4>2
        <5>2. Cardinality(u) = Cardinality(s) - 1
          BY <1>1, <5>1, FS_RemoveElement
        <5>3. Cardinality(u) < n
          BY <1>1, <2>3, <5>2
        <5>4. g[u] = f[u]
          <6> HIDE DEF u, Built
          <6> QED BY <5>1, <5>3
        <5> QED BY <4>2, <5>4
      <4> QED BY <4>1, <4>2
    <3> QED BY <3>1, <3>2
  <2> HIDE DEF g, Built
  <2> QED BY <2>2, <2>3
<1>6. Good(N)
  <2>1. SUFFICES ASSUME Bad # {} PROVE FALSE
    <3> HIDE DEF Good
    <3> QED BY <1>2
  <2>2. PICK n \in Bad : \A k \in Bad : n <= k
    <3>1. Bad \in SUBSET Int /\ IsFiniteSet(Bad)
      <4>1. Bad \in SUBSET Nat /\ \A k \in Bad : k <= N
        BY <1>2
      <4> HIDE DEF Bad
      <4> QED BY <1>2, <4>1, FS_BoundedSetOfNaturals
    <3> HIDE DEF Bad
    <3> QED BY <2>1, <3>1, ExtremesExist
  <2>3. n \in 0..N /\ ~Good(n)
    BY <2>2
  <2>4. n \in Nat \ {0} /\ n - 1 \in 0..N
    <3> HIDE DEF Good, Bad
    <3> QED BY <1>2, <1>4, <2>3
  <2>5. n - 1 \notin Bad
    <3> HIDE DEF Bad
    <3> QED BY <2>2, <2>4
  <2>6. Good(n - 1)
    <3> HIDE DEF Good
    <3> QED BY <2>4, <2>5
  <2> HIDE DEF Good
  <2> QED BY <1>5, <2>3, <2>4, <2>6
<1>7. PICK g \in [SUBSET T -> V] : \A s \in SUBSET T : Cardinality(s) <= N => g[s] = Built(g, s)
  BY <1>6
<1>8. \A s \in SUBSET T : g[s] = Built(g, s)
  <2> HIDE DEF Built, N
  <2> QED BY <1>1, <1>7
<1> QED BY <1>8 DEF Folding

\* How many of the first k of an order are hits.
HitsUpTo(order, H, k) == Cardinality({i \in 1..k : order[i] \in H})

\* The sum of the shares of hits, along an order of n.
Adding(sum, order, H, n) ==
  /\ sum[0] = Zero
  /\ \A k \in 0..n : sum[k] \in Rational
  /\ \A k \in 1..n : sum[k] = IF order[k] \in H
                              THEN Plus(sum[k - 1], <<HitsUpTo(order, H, k), k>>)
                              ELSE sum[k - 1]

LEMMA MaxOfInterval ==
  ASSUME NEW k \in Nat \ {0}
  PROVE  Max(1..k) = k
BY DEF Max

LEMMA PlusIsRational ==
  ASSUME NEW x \in Rational, NEW y \in Rational
  PROVE  Plus(x, y) \in Rational
BY AtMostIsReflexive, PlusIsMonotonic

LEMMA HitsUpToIsNat ==
  ASSUME NEW order, NEW H, NEW k \in Nat
  PROVE  HitsUpTo(order, H, k) \in Nat
<1> DEFINE a == 1
<1>1. IsFiniteSet(a..k)
  <2> HIDE DEF a
  <2> QED BY FS_Interval DEF a
<1> QED BY <1>1, FS_Subset, FS_CardinalityType DEF HitsUpTo

LEMMA PrecisionUnfolds ==
  ASSUME NEW n \in Nat, NEW order, Len(order) = n, NEW H
  PROVE  \E sum : /\ Adding(sum, order, H, n)
                  /\ Precision(order, H) = Over(sum[n], Cardinality(H))
<1> DEFINE T == 1..n
           q == [k \in 1..Len(order) |-> k]
           Found(k) == Cardinality({i \in 1..k : order[i] \in H})
           Fold(iter) ==
             iter = [s \in SUBSET DOMAIN q |->
                       IF s = {} THEN Zero
                       ELSE LET x == Max(s)
                            IN  IF order[q[x]] \in H
                                THEN Plus(iter[s \ {x}], <<Found(q[x]), q[x]>>)
                                ELSE iter[s \ {x}]]
           fold == CHOOSE iter : Fold(iter)
           pick == [s \in SUBSET T |-> Max(s)]
           step == [z \in T \X Rational |->
                      IF order[z[1]] \in H THEN Plus(z[2], <<HitsUpTo(order, H, z[1]), z[1]>>)
                      ELSE z[2]]
<1>1. Precision(order, H) = Over(fold[DOMAIN q], Cardinality(H))
  BY DEF Precision, FoldLeft, MapThenFoldSet
<1>2. DOMAIN q = T /\ \A k \in T : q[k] = k
  OBVIOUS
<1>3. IsFiniteSet(T)
  <2> DEFINE a == 1
  <2>1. IsFiniteSet(a..n)
    <3> HIDE DEF a
    <3> QED BY FS_Interval DEF a
  <2> QED BY <2>1
<1>4. ASSUME NEW s \in SUBSET T, s # {} PROVE Max(s) \in s
  <2>1. IsFiniteSet(s) /\ s \in SUBSET Int
    <3>1. T \in SUBSET Int
      OBVIOUS
    <3> HIDE DEF T
    <3> QED BY <1>3, <3>1, FS_Subset
  <2>2. \E m \in s : \A k \in s : k <= m
    BY <1>4, <2>1, ExtremesExist
  <2> QED BY <2>2 DEF Max
<1>5. \A k \in T : HitsUpTo(order, H, k) \in Nat /\ <<HitsUpTo(order, H, k), k>> \in Rational
  BY HitsUpToIsNat DEF Rational
<1>6. step \in [T \X Rational -> Rational]
  BY <1>5, PlusIsRational
<1>7. PICK g \in [SUBSET T -> Rational] : Folding(g, T, Zero, pick, step)
  <2>1. Picks(pick, T)
    BY <1>4 DEF Picks
  <2>2. Zero \in Rational
    BY ConstantsAreRational
  <2> HIDE DEF T, pick, step
  <2> QED BY <1>3, <1>6, <2>1, <2>2, FoldExists
<1>8. ASSUME NEW f, NEW s \in SUBSET T, s # {}, f[s \ {Max(s)}] \in Rational
      PROVE  /\ Max(s) \in s
             /\ step[<<pick[s], f[s \ {pick[s]}]>>] =
                  IF order[Max(s)] \in H
                  THEN Plus(f[s \ {Max(s)}], <<HitsUpTo(order, H, Max(s)), Max(s)>>)
                  ELSE f[s \ {Max(s)}]
  BY <1>4, <1>8
<1>9. Fold(g)
  <2>1. \A s \in SUBSET T : s # {} =>
          g[s] = IF order[Max(s)] \in H
                 THEN Plus(g[s \ {Max(s)}], <<HitsUpTo(order, H, Max(s)), Max(s)>>)
                 ELSE g[s \ {Max(s)}]
    <3> SUFFICES ASSUME NEW s \in SUBSET T, s # {}
                 PROVE  g[s] = IF order[Max(s)] \in H
                               THEN Plus(g[s \ {Max(s)}], <<HitsUpTo(order, H, Max(s)), Max(s)>>)
                               ELSE g[s \ {Max(s)}]
      OBVIOUS
    <3>1. g[s] = step[<<pick[s], g[s \ {pick[s]}]>>] /\ g[s \ {Max(s)}] \in Rational
      <4> HIDE DEF step, pick
      <4> QED BY <1>7 DEF Folding
    <3> HIDE DEF step, pick
    <3> QED BY <1>8, <3>1
  <2>2. g[{}] = Zero
    <3> HIDE DEF step, pick
    <3> QED BY <1>7 DEF Folding
  <2>3. g = [s \in SUBSET T |-> g[s]]
    BY <1>7
  <2>4. \A s \in SUBSET T : s # {} => Max(s) \in T
    BY <1>4
  <2> DEFINE At(s) == IF s = {} THEN Zero
                      ELSE IF order[q[Max(s)]] \in H
                           THEN Plus(g[s \ {Max(s)}], <<Found(q[Max(s)]), q[Max(s)]>>)
                           ELSE g[s \ {Max(s)}]
  <2>5. \A s \in SUBSET T : g[s] = At(s)
    <3> HIDE DEF T, q
    <3> QED BY <1>2, <2>1, <2>2, <2>4 DEF HitsUpTo
  <2>6. g = [s \in SUBSET DOMAIN q |-> At(s)]
    <3> HIDE DEF T, q, At
    <3> QED BY <1>2, <2>3, <2>5
  <2> QED BY <2>6, Zenon
<1>10. Fold(fold)
  <2> HIDE DEF Fold
  <2> QED BY <1>9
<1>11. /\ fold[{}] = Zero
       /\ \A s \in SUBSET T : s # {} =>
            fold[s] = IF order[Max(s)] \in H
                      THEN Plus(fold[s \ {Max(s)}], <<HitsUpTo(order, H, Max(s)), Max(s)>>)
                      ELSE fold[s \ {Max(s)}]
  <2>1. \A s \in SUBSET T : s # {} => Max(s) \in T
    BY <1>4
  <2> HIDE DEF T, q, fold
  <2> QED BY <1>2, <1>10, <2>1 DEF HitsUpTo
<1> DEFINE sum == [k \in 0..n |-> fold[1..k]]
<1> HIDE DEF fold, Fold
<1>12. sum[0] = Zero
  BY <1>11
<1>13. ASSUME NEW k \in 1..n
       PROVE  sum[k] = IF order[k] \in H THEN Plus(sum[k - 1], <<HitsUpTo(order, H, k), k>>)
                       ELSE sum[k - 1]
  <2>1. /\ 1..k \in SUBSET T /\ 1..k # {} /\ (1..k) \ {k} = 1..(k - 1)
        /\ k \in 0..n /\ k - 1 \in 0..n
    OBVIOUS
  <2>2. Max(1..k) = k
    BY MaxOfInterval
  <2>3. fold[1..k] = IF order[k] \in H THEN Plus(fold[1..(k - 1)], <<HitsUpTo(order, H, k), k>>)
                     ELSE fold[1..(k - 1)]
    BY <1>11, <2>1, <2>2
  <2> QED BY <2>1, <2>3
<1>14. \A k \in 0..n : sum[k] \in Rational
  <2> DEFINE Bad == {k \in 0..n : sum[k] \notin Rational}
  <2>1. SUFFICES ASSUME Bad # {} PROVE FALSE
    OBVIOUS
  <2>2. PICK k \in Bad : \A j \in Bad : k <= j
    <3>1. Bad \in SUBSET Nat /\ \A j \in Bad : j <= n
      OBVIOUS
    <3> HIDE DEF Bad
    <3>2. Bad \in SUBSET Int /\ IsFiniteSet(Bad)
      BY <3>1, FS_BoundedSetOfNaturals
    <3> QED BY <2>1, <3>2, ExtremesExist
  <2>3. k \in 0..n /\ sum[k] \notin Rational
    BY <2>2
  <2> HIDE DEF sum
  <2>4. k \in 1..n /\ k - 1 \in 0..n /\ k - 1 < k
    BY <1>12, <2>3, ConstantsAreRational
  <2>5. sum[k - 1] \in Rational
    BY <2>2, <2>4
  <2> QED BY <1>5, <1>13, <2>3, <2>4, <2>5, PlusIsRational
<1>15. fold[DOMAIN q] = sum[n]
  BY <1>2
<1>16. Adding(sum, order, H, n)
  <2> HIDE DEF sum
  <2> QED BY <1>12, <1>13, <1>14 DEF Adding
<1> QED BY <1>1, <1>15, <1>16

-----------------------------------------------------------------------------
(***************************************************************************)
(* The lead of one order over another, as a fraction kept over one         *)
(* denominator, so that a lead at each hit becomes a lead of the averages. *)
(***************************************************************************)

LEMMA FracIsRational ==
  ASSUME NEW a \in Int, NEW b \in Nat \ {0}, NEW c \in Int, NEW d \in Nat \ {0}, a * d = c * b
  PROVE  /\ Frac(a, b) \in Rational /\ <<c, d>> \in Rational
         /\ AtMost(Frac(a, b), <<c, d>>) /\ AtMost(<<c, d>>, Frac(a, b))
<1>1. /\ Frac(a, b) \in Rational /\ <<a, b>> \in Rational /\ <<c, d>> \in Rational
      /\ AtMost(Frac(a, b), <<a, b>>) /\ AtMost(<<a, b>>, Frac(a, b))
  BY FracIsSame, SameIsAtMost DEF Rational
<1>2. Same(<<a, b>>, <<c, d>>)
  BY DEF Same
<1>3. AtMost(<<a, b>>, <<c, d>>) /\ AtMost(<<c, d>>, <<a, b>>)
  BY <1>1, <1>2, SameIsAtMost
<1> QED BY <1>1, <1>3, AtMostIsTransitive

\* Sums of fractions may be taken in any order.
LEMMA PlusAssociates ==
  ASSUME NEW x \in Rational, NEW y \in Rational, NEW z \in Rational
  PROVE  /\ AtMost(Plus(Plus(x, y), z), Plus(x, Plus(y, z)))
         /\ AtMost(Plus(x, Plus(y, z)), Plus(Plus(x, y), z))
<1>1. PICK a, c, e \in Int, b, d, f \in Nat \ {0} : x = <<a, b>> /\ y = <<c, d>> /\ z = <<e, f>>
  BY DEF Rational
<1>2. /\ a * d + c * b \in Int /\ b * d \in Nat \ {0}
      /\ c * f + e * d \in Int /\ d * f \in Nat \ {0}
  BY <1>1
<1> DEFINE u == <<a * d + c * b, b * d>>
           v == <<c * f + e * d, d * f>>
<1>3. /\ u \in Rational /\ v \in Rational /\ Plus(x, y) \in Rational /\ Plus(y, z) \in Rational
      /\ AtMost(Plus(x, y), u) /\ AtMost(u, Plus(x, y))
      /\ AtMost(Plus(y, z), v) /\ AtMost(v, Plus(y, z))
  <2>1. Plus(x, y) = Frac(a * d + c * b, b * d) /\ Plus(y, z) = Frac(c * f + e * d, d * f)
    BY <1>1 DEF Plus
  <2> QED BY <1>2, <2>1, FracIsRational
<1>4. Plus(u, z) = Plus(x, v)
  <2>1. /\ Plus(u, z) = Frac((a * d + c * b) * f + e * (b * d), (b * d) * f)
        /\ Plus(x, v) = Frac(a * (d * f) + (c * f + e * d) * b, b * (d * f))
    BY <1>1 DEF Plus
  <2>2. (a * d + c * b) * f + e * (b * d) = a * (d * f) + (c * f + e * d) * b
    <3>1. /\ (a * d + c * b) * f = (a * d) * f + (c * b) * f
          /\ (c * f + e * d) * b = (c * f) * b + (e * d) * b
      BY <1>1
    <3>2. /\ (a * d) * f = a * (d * f) /\ (c * b) * f = (c * f) * b /\ e * (b * d) = (e * d) * b
      BY <1>1
    <3>3. /\ (a * d) * f \in Int /\ (c * b) * f \in Int /\ e * (b * d) \in Int
      BY <1>1
    <3> QED BY <3>1, <3>2, <3>3
  <2>3. (b * d) * f = b * (d * f)
    BY <1>1
  <2> QED BY <2>1, <2>2, <2>3
<1> HIDE DEF u, v
<1>5. AtMost(x, x) /\ AtMost(z, z)
  BY AtMostIsReflexive
<1>6. /\ Plus(Plus(x, y), z) \in Rational /\ Plus(u, z) \in Rational
      /\ AtMost(Plus(Plus(x, y), z), Plus(u, z)) /\ AtMost(Plus(u, z), Plus(Plus(x, y), z))
  BY <1>3, <1>5, PlusIsMonotonic
<1>7. /\ Plus(x, Plus(y, z)) \in Rational /\ Plus(x, v) \in Rational
      /\ AtMost(Plus(x, Plus(y, z)), Plus(x, v)) /\ AtMost(Plus(x, v), Plus(x, Plus(y, z)))
  BY <1>3, <1>5, PlusIsMonotonic
<1> QED BY <1>4, <1>6, <1>7, AtMostIsTransitive

-----------------------------------------------------------------------------
\* What an order that has had b hits is ahead of one that has had a, twice.
Gap(a, b) == b * (b + 1) - a * (a + 1)

\* Of two orders, the one with more hits so far is ahead by at least the gap over
\* the next place; a step of both keeps that.
LEMMA LeadIsKept ==
  ASSUME NEW k \in Nat \ {0}, NEW x \in Rational, NEW y \in Rational,
         NEW a0 \in Nat, NEW b0 \in Nat, NEW a \in Nat, NEW b \in Nat, a <= b,
         NEW u \in Rational, NEW v \in Rational,
         (a = a0 + 1 /\ u = Plus(x, <<a, k>>)) \/ (a = a0 /\ u = x),
         (b = b0 + 1 /\ v = Plus(y, <<b, k>>)) \/ (b = b0 /\ v = y),
         AtMost(Plus(x, <<Gap(a0, b0), 2 * k>>), y)
  PROVE  AtMost(Plus(u, <<Gap(a, b), 2 * (k + 1)>>), v)
<1> DEFINE g == Gap(a, b)
           h == Gap(a0, b0)
           c == IF b = b0 THEN 0 ELSE 2 * b
           m == 2 * k
           w == <<h + c, m>>
<1>1. g \in Int /\ h \in Int /\ c \in Int /\ m \in Nat \ {0} /\ 2 * (k + 1) \in Nat \ {0} /\ g >= 0
  <2>1. a * (a + 1) <= b * (b + 1)
    <3>1. a * (a + 1) <= a * (b + 1) /\ a * (b + 1) <= b * (b + 1)
      <4>1. a + 1 <= b + 1 /\ a + 1 \in Int /\ b + 1 \in Nat
        OBVIOUS
      <4>2. a * (a + 1) <= a * (b + 1)
        BY <4>1, Scaled
      <4>3. (b + 1) * a <= (b + 1) * b
        BY <4>1, Scaled
      <4>4. (b + 1) * a = a * (b + 1) /\ (b + 1) * b = b * (b + 1)
        OBVIOUS
      <4> QED BY <4>2, <4>3, <4>4
    <3>2. a * (a + 1) \in Int /\ a * (b + 1) \in Int /\ b * (b + 1) \in Int
      OBVIOUS
    <3> QED BY <3>1, <3>2
  <2>2. /\ a * (a + 1) \in Int /\ b * (b + 1) \in Int
        /\ a0 * (a0 + 1) \in Int /\ b0 * (b0 + 1) \in Int
    OBVIOUS
  <2> QED BY <2>1, <2>2 DEF Gap
<1>0. a0 + 1 # a0 /\ b0 + 1 # b0
  OBVIOUS
<1>2. g + (IF a = a0 THEN 0 ELSE 2 * a) = h + c
  <2>1. a = a0 \/ a * (a + 1) = a0 * (a0 + 1) + 2 * a
    OBVIOUS
  <2>2. b = b0 \/ b * (b + 1) = b0 * (b0 + 1) + 2 * b
    OBVIOUS
  <2>3. /\ a * (a + 1) \in Int /\ b * (b + 1) \in Int
        /\ a0 * (a0 + 1) \in Int /\ b0 * (b0 + 1) \in Int
    OBVIOUS
  <2> QED BY <2>1, <2>2, <2>3 DEF Gap
<1> HIDE DEF g, h, c
<1>3. /\ <<g, m>> \in Rational /\ <<h, m>> \in Rational /\ <<g, 2 * (k + 1)>> \in Rational
      /\ w \in Rational /\ <<a, k>> \in Rational /\ <<b, k>> \in Rational
  BY <1>1 DEF Rational
<1>4. /\ AtMost(x, x) /\ AtMost(u, u) /\ AtMost(<<b, k>>, <<b, k>>)
  BY <1>3, AtMostIsReflexive
<1>5. AtMost(Plus(u, <<g, 2 * (k + 1)>>), Plus(u, <<g, m>>))
  <2>1. g * (2 * k) <= g * (2 * (k + 1))
    BY <1>1
  <2>2. AtMost(<<g, 2 * (k + 1)>>, <<g, m>>)
    BY <2>1 DEF AtMost
  <2> QED BY <1>3, <1>4, <2>2, PlusIsMonotonic
<1>6. AtMost(Plus(u, <<g, m>>), Plus(x, w))
  <2>1. CASE a = a0 /\ u = x
    <3>1. w = <<g, m>>
      BY <1>1, <1>2, <2>1
    <3>2. Plus(x, w) \in Rational
      BY <1>3, PlusIsRational
    <3> QED BY <2>1, <3>1, <3>2, AtMostIsReflexive
  <2>2. CASE a = a0 + 1 /\ u = Plus(x, <<a, k>>)
    <3>1. g + 2 * a = h + c
      <4>1. a # a0
        BY <1>0, <2>2
      <4> QED BY <1>2, <4>1
    <3>2. AtMost(Plus(<<a, k>>, <<g, m>>), w)
      <4>1. Plus(<<a, k>>, <<g, m>>) = Frac(a * m + g * k, k * m)
        BY DEF Plus
      <4>2. (a * m + g * k) * m = (h + c) * (k * m)
        <5>1. a * m + g * k = (g + 2 * a) * k
          BY <1>1
        <5> QED BY <1>1, <3>1, <5>1
      <4>3. a * m + g * k \in Int /\ k * m \in Nat \ {0} /\ h + c \in Int
        BY <1>1
      <4> HIDE DEF m
      <4> QED BY <1>1, <4>1, <4>2, <4>3, FracIsRational
    <3> HIDE DEF w, m
    <3>3. Plus(<<a, k>>, <<g, m>>) \in Rational
      BY <1>3, PlusIsRational
    <3>4. AtMost(Plus(u, <<g, m>>), Plus(x, Plus(<<a, k>>, <<g, m>>)))
      BY <1>3, <2>2, PlusAssociates
    <3>5. AtMost(Plus(x, Plus(<<a, k>>, <<g, m>>)), Plus(x, w))
      BY <1>3, <1>4, <3>2, <3>3, PlusIsMonotonic
    <3>6. /\ Plus(u, <<g, m>>) \in Rational /\ Plus(x, w) \in Rational
          /\ Plus(x, Plus(<<a, k>>, <<g, m>>)) \in Rational
      BY <1>3, <3>3, PlusIsRational
    <3> QED BY <3>4, <3>5, <3>6, AtMostIsTransitive
  <2> QED BY <2>1, <2>2
<1>7. AtMost(Plus(x, <<h, m>>), y) /\ Plus(x, <<h, m>>) \in Rational
  BY <1>3, PlusIsRational DEF h
<1>8. AtMost(Plus(x, w), v)
  <2>1. CASE b = b0 /\ v = y
    <3>1. w = <<h, m>>
      BY <1>1, <2>1 DEF c
    <3> QED BY <1>7, <2>1, <3>1
  <2>2. CASE b = b0 + 1 /\ v = Plus(y, <<b, k>>)
    <3>1. c = 2 * b
      <4>1. b # b0
        BY <1>0, <2>2
      <4> QED BY <4>1 DEF c
    <3>2. AtMost(w, Plus(<<h, m>>, <<b, k>>))
      <4>1. Plus(<<h, m>>, <<b, k>>) = Frac(h * k + b * m, m * k)
        BY DEF Plus
      <4>2. (h * k + b * m) * m = (h + c) * (m * k)
        <5>1. h * k + b * m = (h + 2 * b) * k
          BY <1>1
        <5> QED BY <1>1, <3>1, <5>1
      <4>3. h * k + b * m \in Int /\ m * k \in Nat \ {0} /\ h + c \in Int
        BY <1>1
      <4> HIDE DEF m
      <4> QED BY <1>1, <4>1, <4>2, <4>3, FracIsRational
    <3> HIDE DEF w, m
    <3>3. Plus(<<h, m>>, <<b, k>>) \in Rational
      BY <1>3, PlusIsRational
    <3>4. AtMost(Plus(x, w), Plus(x, Plus(<<h, m>>, <<b, k>>)))
      BY <1>3, <1>4, <3>2, <3>3, PlusIsMonotonic
    <3>5. AtMost(Plus(x, Plus(<<h, m>>, <<b, k>>)), Plus(Plus(x, <<h, m>>), <<b, k>>))
      BY <1>3, PlusAssociates
    <3>6. AtMost(Plus(Plus(x, <<h, m>>), <<b, k>>), v)
      <4> DEFINE z == Plus(x, <<h, m>>)
                 s == <<b, k>>
      <4>1. z \in Rational /\ s \in Rational /\ AtMost(z, y) /\ AtMost(s, s) /\ v = Plus(y, s)
        BY <1>3, <1>4, <1>7, <2>2
      <4> HIDE DEF z, s
      <4>2. AtMost(Plus(z, s), Plus(y, s))
        BY <4>1, PlusIsMonotonic
      <4> QED BY <4>1, <4>2 DEF z, s
    <3>7. /\ Plus(x, w) \in Rational /\ Plus(x, Plus(<<h, m>>, <<b, k>>)) \in Rational
          /\ Plus(Plus(x, <<h, m>>), <<b, k>>) \in Rational
      BY <1>3, <1>7, <3>3, PlusIsRational
    <3>8. AtMost(Plus(x, w), Plus(Plus(x, <<h, m>>), <<b, k>>))
      BY <3>4, <3>5, <3>7, AtMostIsTransitive
    <3> QED BY <3>6, <3>7, <3>8, AtMostIsTransitive
  <2> QED BY <2>1, <2>2
<1>9. /\ Plus(u, <<g, 2 * (k + 1)>>) \in Rational /\ Plus(u, <<g, m>>) \in Rational
      /\ Plus(x, w) \in Rational
  BY <1>3, PlusIsRational
<1> HIDE DEF w, m
<1>10. AtMost(Plus(u, <<g, 2 * (k + 1)>>), Plus(x, w))
  BY <1>5, <1>6, <1>9, AtMostIsTransitive
<1>11. AtMost(Plus(u, <<g, 2 * (k + 1)>>), v)
  BY <1>8, <1>9, <1>10, AtMostIsTransitive
<1> QED BY <1>11 DEF g

-----------------------------------------------------------------------------
(***************************************************************************)
(* An order that has its hits earlier has at every place at least as many  *)
(* of them, and so the higher average precision.                           *)
(***************************************************************************)

LEMMA HitsUpToGrows ==
  ASSUME NEW order, NEW H, NEW k \in Nat \ {0}
  PROVE  HitsUpTo(order, H, k) =
           IF order[k] \in H THEN HitsUpTo(order, H, k - 1) + 1 ELSE HitsUpTo(order, H, k - 1)
<1> DEFINE I == {i \in 1..(k - 1) : order[i] \in H}
           z == 1
           m == k - 1
<1>1. IsFiniteSet(I)
  <2>1. IsFiniteSet(z..m)
    <3>1. z \in Int /\ m \in Int
      OBVIOUS
    <3> HIDE DEF z, m
    <3> QED BY <3>1, FS_Interval
  <2> QED BY <2>1, FS_Subset
<1>2. k \notin I /\ 1..k = 1..(k - 1) \cup {k}
  OBVIOUS
<1>3. {i \in 1..k : order[i] \in H} = IF order[k] \in H THEN I \cup {k} ELSE I
  BY <1>2
<1> HIDE DEF I
<1> QED BY <1>1, <1>2, <1>3, FS_AddElement DEF HitsUpTo, I

LEMMA NoHitsAtFirst ==
  ASSUME NEW order, NEW H
  PROVE  HitsUpTo(order, H, 0) = 0
BY FS_EmptySet DEF HitsUpTo

\* An order that has had as many hits as another, at each place, is as precise.
LEMMA EarlierHitsArePreciser ==
  ASSUME NEW n \in Nat, NEW A, NEW B, NEW H, NEW s, NEW t,
         Adding(s, A, H, n), Adding(t, B, H, n),
         \A k \in 0..n : HitsUpTo(A, H, k) <= HitsUpTo(B, H, k),
         HitsUpTo(A, H, n) = HitsUpTo(B, H, n)
  PROVE  AtMost(s[n], t[n])
<1> DEFINE a(k) == HitsUpTo(A, H, k)
           b(k) == HitsUpTo(B, H, k)
           Lead(k) == AtMost(Plus(s[k], <<Gap(a(k), b(k)), 2 * (k + 1)>>), t[k])
           Bad == {k \in 0..n : ~Lead(k)}
<1>1. \A k \in 0..n : /\ a(k) \in Nat /\ b(k) \in Nat /\ a(k) <= b(k)
                      /\ s[k] \in Rational /\ t[k] \in Rational
  BY HitsUpToIsNat DEF Adding
<1>2. Lead(0)
  <2>1. s[0] = Zero /\ t[0] = Zero /\ a(0) = 0 /\ b(0) = 0
    BY NoHitsAtFirst DEF Adding
  <2>2. Gap(0, 0) = 0
    BY DEF Gap
  <2>3. Plus(Zero, <<0, 2>>) = Frac(0, 2) /\ 0 * 1 = 0 * 2
    BY DEF Plus, Zero
  <2>4. AtMost(Plus(Zero, <<0, 2>>), <<0, 1>>)
    BY <2>3, FracIsRational
  <2> HIDE DEF a, b
  <2> QED BY <2>1, <2>2, <2>4 DEF Zero
<1>3. ASSUME NEW k \in 1..n, Lead(k - 1) PROVE Lead(k)
  <2>1. k \in Nat \ {0} /\ k - 1 \in 0..n /\ k \in 0..n /\ (k - 1) + 1 = k
    OBVIOUS
  <2> DEFINE x == s[k - 1]
             y == t[k - 1]
             u == s[k]
             v == t[k]
             a0 == a(k - 1)
             b0 == b(k - 1)
             a1 == a(k)
             b1 == b(k)
  <2>2. /\ u = IF A[k] \in H THEN Plus(x, <<a1, k>>) ELSE x
        /\ v = IF B[k] \in H THEN Plus(y, <<b1, k>>) ELSE y
    BY DEF Adding
  <2>3. /\ a1 = IF A[k] \in H THEN a0 + 1 ELSE a0
        /\ b1 = IF B[k] \in H THEN b0 + 1 ELSE b0
    BY <2>1, HitsUpToGrows
  <2>4. AtMost(Plus(x, <<Gap(a0, b0), 2 * k>>), y)
    <3>1. 2 * ((k - 1) + 1) = 2 * k
      BY <2>1
    <3> HIDE DEF a, b
    <3> QED BY <1>3, <3>1
  <2>5. /\ x \in Rational /\ y \in Rational /\ u \in Rational /\ v \in Rational
        /\ a0 \in Nat /\ b0 \in Nat /\ a1 \in Nat /\ b1 \in Nat /\ a1 <= b1
    BY <1>1, <2>1
  <2> HIDE DEF x, y, u, v, a0, b0, a1, b1
  <2>6. /\ (a1 = a0 + 1 /\ u = Plus(x, <<a1, k>>)) \/ (a1 = a0 /\ u = x)
        /\ (b1 = b0 + 1 /\ v = Plus(y, <<b1, k>>)) \/ (b1 = b0 /\ v = y)
    BY <2>2, <2>3
  <2>7. AtMost(Plus(u, <<Gap(a1, b1), 2 * (k + 1)>>), v)
    BY <2>1, <2>4, <2>5, <2>6, LeadIsKept
  <2> QED BY <2>7 DEF u, v, a1, b1
<1>4. Lead(n)
  <2>1. SUFFICES ASSUME Bad # {} PROVE FALSE
    <3> HIDE DEF Lead
    <3> QED OBVIOUS
  <2>2. PICK k \in Bad : \A j \in Bad : k <= j
    <3>1. Bad \in SUBSET Nat /\ \A j \in Bad : j <= n
      <4> HIDE DEF Lead
      <4> QED OBVIOUS
    <3> HIDE DEF Bad
    <3>2. Bad \in SUBSET Int /\ IsFiniteSet(Bad)
      BY <3>1, FS_BoundedSetOfNaturals
    <3> QED BY <2>1, <3>2, ExtremesExist
  <2>3. k \in 0..n /\ ~Lead(k)
    BY <2>2
  <2> HIDE DEF Lead
  <2>4. k \in 1..n /\ k - 1 \in 0..n /\ k - 1 < k
    BY <1>2, <2>3
  <2>5. Lead(k - 1)
    BY <2>2, <2>4
  <2> QED BY <1>3, <2>3, <2>4, <2>5
<1>5. Gap(a(n), b(n)) = 0
  <2>1. a(n) = b(n) /\ a(n) \in Nat
    BY <1>1
  <2> HIDE DEF a, b
  <2> QED BY <2>1 DEF Gap
<1> DEFINE d == 2 * (n + 1)
           x == s[n]
           y == t[n]
<1>6. /\ x \in Rational /\ y \in Rational /\ d \in Nat \ {0}
      /\ AtMost(Plus(x, <<0, d>>), y)
  <2>1. s[n] \in Rational /\ t[n] \in Rational
    BY <1>1
  <2> HIDE DEF a, b
  <2> QED BY <1>4, <1>5, <2>1
<1> HIDE DEF x, y, d
<1>7. AtMost(x, Plus(x, <<0, d>>)) /\ Plus(x, <<0, d>>) \in Rational
  <2>1. PICK p \in Int, q \in Nat \ {0} : x = <<p, q>>
    BY <1>6 DEF Rational
  <2>2. Plus(x, <<0, d>>) = Frac(p * d + 0 * q, q * d)
    BY <2>1 DEF Plus
  <2>3. p * d + 0 * q = p * d /\ p * d \in Int /\ q * d \in Nat \ {0} /\ (p * d) * q = p * (q * d)
    BY <1>6, <2>1
  <2> QED BY <2>1, <2>2, <2>3, FracIsRational
<1>8. AtMost(x, y)
  BY <1>6, <1>7, AtMostIsTransitive
<1> QED BY <1>8 DEF x, y

-----------------------------------------------------------------------------
\* The first k of an order of S.
First(S, b, k) == {x \in S : Cardinality(b[x]) < k}

LEMMA FirstAreMany ==
  ASSUME NEW S, IsFiniteSet(S), NEW b \in Ordering(S), NEW s, InOrder(s, S, b),
         NEW k \in 0..Cardinality(S), NEW H
  PROVE  /\ Cardinality(First(S, b, k)) = k
         /\ Cardinality(First(S, b, k) \cap H) = HitsUpTo(s, H, k)
<1> DEFINE n == Cardinality(S)
<1>1. n \in Nat /\ k \in Nat /\ k <= n
  BY FS_CardinalityType
<1>2. \A i \in 1..k : s[i] \in S /\ Cardinality(b[s[i]]) = i - 1
  BY <1>1 DEF InOrder
<1>3. ASSUME NEW x \in First(S, b, k)
      PROVE  \E i \in 1..k : s[i] = x
  <2>1. x \in S /\ Cardinality(b[x]) < k /\ Cardinality(b[x]) \in Nat
    <3>1. b[x] \in SUBSET S
      BY DEF First, Ordering
    <3> QED BY <3>1, FS_Subset, FS_CardinalityType DEF First
  <2> DEFINE i == Cardinality(b[x]) + 1
  <2>2. i \in 1..k
    BY <1>1, <2>1
  <2>3. s[i] \in S /\ Cardinality(b[s[i]]) = Cardinality(b[x])
    BY <1>2, <2>1, <2>2
  <2>4. s[i] = x
    <3>1. ASSUME s[i] \in b[x] PROVE FALSE
      BY <2>1, <2>3, <3>1, RanksDiffer
    <3>2. ASSUME x \in b[s[i]] PROVE FALSE
      BY <2>1, <2>3, <3>2, RanksDiffer
    <3> HIDE DEF i
    <3> QED BY <2>1, <2>3, <3>1, <3>2 DEF Ordering
  <2> HIDE DEF i
  <2> QED BY <2>2, <2>4
<1>4. \A i, j \in 1..k : s[i] = s[j] => i = j
  <2> SUFFICES ASSUME NEW i \in 1..k, NEW j \in 1..k, s[i] = s[j] PROVE i = j
    OBVIOUS
  <2>1. i - 1 = j - 1
    BY <1>2
  <2> QED BY <2>1
<1>5. \A i \in 1..k : s[i] \in First(S, b, k)
  BY <1>1, <1>2 DEF First
<1>6. ASSUME NEW J \in SUBSET (1..k), NEW X, X = {x \in First(S, b, k) : \E i \in J : s[i] = x}
      PROVE  Cardinality(X) = Cardinality(J)
  <2> DEFINE f == [i \in J |-> s[i]]
  <2>1. f \in Bijection(J, X)
    <3>1. f \in [J -> X]
      BY <1>5, <1>6
    <3>2. \A i, j \in J : f[i] = f[j] => i = j
      BY <1>4
    <3>3. \A x \in X : \E i \in J : f[i] = x
      BY <1>6
    <3> HIDE DEF f
    <3> QED BY <3>1, <3>2, <3>3 DEF Bijection, Injection, Surjection, IsInjective
  <2>2. IsFiniteSet(J)
    <3> DEFINE z == 1
    <3>1. IsFiniteSet(z..k)
      <4>1. z \in Int /\ k \in Int
        BY <1>1
      <4> HIDE DEF z
      <4> QED BY <4>1, FS_Interval
    <3> QED BY <3>1, FS_Subset
  <2> HIDE DEF f
  <2> QED BY <2>1, <2>2, FS_Bijection DEF ExistsBijection
<1>7. Cardinality(First(S, b, k)) = Cardinality(1..k)
  <2>1. First(S, b, k) = {x \in First(S, b, k) : \E i \in 1..k : s[i] = x}
    BY <1>3
  <2> QED BY <1>6, <2>1
<1>8. Cardinality(1..k) = k
  <2> DEFINE z == 1
  <2>1. Cardinality(z..k) = IF z > k THEN 0 ELSE k - z + 1
    <3>1. z \in Int /\ k \in Int
      BY <1>1
    <3> HIDE DEF z
    <3> QED BY <3>1, FS_Interval
  <2> QED BY <1>1, <2>1
<1>9. Cardinality(First(S, b, k) \cap H) = HitsUpTo(s, H, k)
  <2> DEFINE J == {i \in 1..k : s[i] \in H}
             X == First(S, b, k) \cap H
  <2>1. X = {x \in First(S, b, k) : \E i \in J : s[i] = x}
    BY <1>3, <1>5
  <2>2. J \in SUBSET (1..k)
    OBVIOUS
  <2> HIDE DEF J, X
  <2>3. Cardinality(X) = Cardinality(J)
    BY <1>6, <2>1, <2>2
  <2> QED BY <2>3 DEF HitsUpTo, J, X
<1> QED BY <1>7, <1>8, <1>9

\* Of two orders, the one that has a hit before another story whenever the first
\* has, has had as many hits at each place.
LEMMA HitsComeEarlier ==
  ASSUME NEW S, IsFiniteSet(S), NEW H \in SUBSET S,
         NEW a \in Ordering(S), NEW b \in Ordering(S),
         NEW s, InOrder(s, S, a), NEW t, InOrder(t, S, b),
         \A x \in H, y \in S \ H : x \in a[y] => x \in b[y],
         NEW k \in 0..Cardinality(S)
  PROVE  HitsUpTo(s, H, k) <= HitsUpTo(t, H, k)
<1> DEFINE A == First(S, a, k)
           B == First(S, b, k)
           M == S \ H
<1>1. /\ IsFiniteSet(A) /\ IsFiniteSet(B) /\ A \in SUBSET S /\ B \in SUBSET S
      /\ Cardinality(A) = k /\ Cardinality(B) = k
      /\ Cardinality(A \cap H) = HitsUpTo(s, H, k) /\ Cardinality(B \cap H) = HitsUpTo(t, H, k)
  <2>1. A \in SUBSET S /\ B \in SUBSET S
    BY DEF First
  <2> HIDE DEF A, B
  <2>2. IsFiniteSet(A) /\ IsFiniteSet(B)
    BY <2>1, FS_Subset
  <2> QED BY <2>1, <2>2, FirstAreMany DEF A, B
<1>2. CASE A \cap H \subseteq B \cap H
  <2> HIDE DEF A, B
  <2>1. IsFiniteSet(B \cap H)
    BY <1>1, FS_Subset
  <2> QED BY <1>1, <1>2, <2>1, FS_Subset
<1>3. CASE ~(A \cap H \subseteq B \cap H)
  <2>1. PICK x \in H : x \in A /\ x \notin B
    BY <1>3
  <2>2. B \cap M \subseteq A \cap M
    <3> SUFFICES ASSUME NEW y \in M, y \in B, y \notin A PROVE FALSE
      OBVIOUS
    <3>1. x \in S /\ y \in S /\ x # y
      OBVIOUS
    <3>2. /\ Cardinality(a[x]) < k /\ ~(Cardinality(a[y]) < k)
          /\ Cardinality(b[y]) < k /\ ~(Cardinality(b[x]) < k)
      BY <2>1, <3>1 DEF First
    <3>3. a[x] \in SUBSET S /\ a[y] \in SUBSET S /\ b[x] \in SUBSET S /\ b[y] \in SUBSET S
      BY <3>1 DEF Ordering
    <3>4. /\ Cardinality(a[x]) \in Nat /\ Cardinality(a[y]) \in Nat
          /\ Cardinality(b[x]) \in Nat /\ Cardinality(b[y]) \in Nat
      BY <3>3, FS_Subset, FS_CardinalityType
    <3>5. y \notin a[x]
      <4>1. ASSUME y \in a[x] PROVE FALSE
        <5>1. Cardinality(a[y]) < Cardinality(a[x])
          BY <3>1, <4>1, RanksDiffer
        <5> QED BY <3>2, <3>4, <5>1
      <4> QED BY <4>1
    <3>6. x \in a[y]
      BY <3>1, <3>5 DEF Ordering
    <3>7. x \in b[y]
      BY <3>6
    <3>8. Cardinality(b[x]) < Cardinality(b[y])
      BY <3>1, <3>7, RanksDiffer
    <3> QED BY <3>2, <3>4, <3>8
  <2> HIDE DEF A, B
  <2>3. /\ IsFiniteSet(A \cap M) /\ IsFiniteSet(B \cap M)
        /\ IsFiniteSet(A \cap H) /\ IsFiniteSet(B \cap H)
    BY <1>1, FS_Subset
  <2>4. Cardinality(B \cap M) <= Cardinality(A \cap M)
    BY <2>2, <2>3, FS_Subset
  <2>5. /\ Cardinality(A) = Cardinality(A \cap H) + Cardinality(A \cap M)
        /\ Cardinality(B) = Cardinality(B \cap H) + Cardinality(B \cap M)
    <3>1. A \ H = A \cap M /\ B \ H = B \cap M
      BY <1>1
    <3>2. /\ Cardinality(A \ H) = Cardinality(A) - Cardinality(A \cap H)
          /\ Cardinality(B \ H) = Cardinality(B) - Cardinality(B \cap H)
      BY <1>1, FS_Difference
    <3>3. /\ Cardinality(A) \in Nat /\ Cardinality(A \cap H) \in Nat
          /\ Cardinality(B) \in Nat /\ Cardinality(B \cap H) \in Nat
      BY <1>1, <2>3, FS_CardinalityType
    <3>4. /\ Cardinality(A \ H) = Cardinality(A \cap M)
          /\ Cardinality(B \ H) = Cardinality(B \cap M)
      BY <3>1
    <3> HIDE DEF M
    <3> QED BY <3>2, <3>3, <3>4
  <2>6. /\ Cardinality(A \cap H) \in Nat /\ Cardinality(B \cap H) \in Nat
        /\ Cardinality(A \cap M) \in Nat /\ Cardinality(B \cap M) \in Nat
    BY <2>3, FS_CardinalityType
  <2>7. Cardinality(A \cap H) <= Cardinality(B \cap H)
    BY <1>1, <2>4, <2>5, <2>6
  <2> QED BY <1>1, <2>7
<1> QED BY <1>2, <1>3

-----------------------------------------------------------------------------
(***************************************************************************)
(* Ties.  The order of the report is between the order that puts the misses *)
(* first in every tie and the one that puts the hits first.                *)
(***************************************************************************)

LEMMA InOrderIsLong ==
  ASSUME NEW S, IsFiniteSet(S), NEW b, NEW s, InOrder(s, S, b)
  PROVE  Cardinality(S) \in Nat /\ Len(s) = Cardinality(S)
<1> DEFINE n == Cardinality(S)
<1>1. n \in Nat
  BY FS_CardinalityType
<1>2. s = [i \in 1..n |-> s[i]] /\ \A i \in 1..n : s[i] \in S
  BY DEF InOrder
<1> HIDE DEF n
<1>3. s \in Seq(S) /\ DOMAIN s = 1..n
  BY <1>1, <1>2
<1>4. Len(s) = n
  BY <1>1, <1>3
<1> QED BY <1>1, <1>4 DEF n

\* An order that has a hit before another story whenever a second order has is at
\* least as precise.
LEMMA PrecisionIsMonotonic ==
  ASSUME NEW S, IsFiniteSet(S), NEW H \in SUBSET S, H # {},
         NEW a \in Ordering(S), NEW b \in Ordering(S),
         NEW s, InOrder(s, S, a), NEW t, InOrder(t, S, b),
         \A x \in H, y \in S \ H : x \in a[y] => x \in b[y]
  PROVE  AtMost(Precision(s, H), Precision(t, H))
<1> DEFINE n == Cardinality(S)
<1>1. n \in Nat /\ Len(s) = n /\ Len(t) = n
  BY InOrderIsLong
<1>2. PICK f : Adding(f, s, H, n) /\ Precision(s, H) = Over(f[n], Cardinality(H))
  BY <1>1, PrecisionUnfolds
<1>3. PICK g : Adding(g, t, H, n) /\ Precision(t, H) = Over(g[n], Cardinality(H))
  BY <1>1, PrecisionUnfolds
<1>4. \A k \in 0..n : HitsUpTo(s, H, k) <= HitsUpTo(t, H, k)
  BY HitsComeEarlier
<1>5. HitsUpTo(s, H, n) = HitsUpTo(t, H, n)
  <2>1. First(S, a, n) \in SUBSET S /\ First(S, b, n) \in SUBSET S /\ n \in 0..n
    BY <1>1 DEF First
  <2>2. /\ Cardinality(First(S, a, n)) = n /\ Cardinality(First(S, b, n)) = n
        /\ Cardinality(First(S, a, n) \cap H) = HitsUpTo(s, H, n)
        /\ Cardinality(First(S, b, n) \cap H) = HitsUpTo(t, H, n)
    <3>1. n \in 0..Cardinality(S)
      BY <1>1
    <3> HIDE DEF n
    <3> QED BY <3>1, FirstAreMany
  <2>3. First(S, a, n) = S /\ First(S, b, n) = S
    BY <2>1, <2>2, FS_Subset
  <2> QED BY <2>2, <2>3
<1>6. AtMost(f[n], g[n])
  <2> HIDE DEF n
  <2> QED BY <1>1, <1>2, <1>3, <1>4, <1>5, EarlierHitsArePreciser
<1>7. f[n] \in Rational /\ g[n] \in Rational
  BY <1>1, <1>2, <1>3 DEF Adding
<1>8. Cardinality(H) \in Nat \ {0}
  BY FS_Subset, FS_CardinalityType, FS_EmptySet
<1> HIDE DEF n
<1>9. AtMost(Over(f[n], Cardinality(H)), Over(g[n], Cardinality(H)))
  BY <1>6, <1>7, <1>8, OverIsMonotonic
<1> QED BY <1>2, <1>3, <1>9

LEMMA ScoresAreNaturals ==
  ASSUME NEW S, Named(S)
  PROVE  /\ \A x \in S : x.score \in Nat /\ x.born \in Nat /\ x.id \in Nat
         /\ \A x, y \in S : x = y \/ x.id # y.id
<1>1. Grades \subseteq Nat
  BY EvaluationParameters
<1>2. \A x \in S : x.score \in Grades /\ x.born \in Nat /\ x.id \in Nat
  BY DEF Named, Tale
<1> QED BY <1>1, <1>2 DEF Named

\* What is before each story, by score and then as told.
HigherThan(S) == [x \in S |-> {y \in S : Higher(y, x)}]

LEMMA ScoresAreOrdered ==
  ASSUME NEW S, Named(S)
  PROVE  HigherThan(S) \in Ordering(S) /\ InOrder(Sorted(S, Higher), S, HigherThan(S))
<1> DEFINE b == HigherThan(S)
           s == Sorted(S, Higher)
<1>1. /\ \A x \in S : x.score \in Nat /\ x.born \in Nat /\ x.id \in Nat
      /\ \A x, y \in S : x = y \/ x.id # y.id
  BY ScoresAreNaturals
<1>2. b \in Ordering(S)
  <2> SUFFICES ASSUME NEW x \in S, NEW y \in S
               PROVE  /\ x \notin b[x]
                      /\ x = y \/ x \in b[y] \/ y \in b[x]
                      /\ y \in b[x] => b[y] \subseteq b[x]
    BY DEF Ordering, HigherThan
  <2> QED BY <1>1 DEF HigherThan, Higher, Earlier
<1>3. IsFiniteSet(S)
  BY DEF Named
<1>4. ASSUME NEW i \in 1..Cardinality(S) PROVE s[i] \in S /\ Cardinality(b[s[i]]) = i - 1
  <2>1. s[i] = CHOOSE x \in S : Cardinality({y \in S : Higher(y, x)}) = i - 1
    BY DEF Sorted
  <2>2. \E x \in S : Cardinality(b[x]) = i - 1
    <3> HIDE DEF b
    <3> QED BY <1>2, <1>3, RanksExist
  <2>3. \E x \in S : Cardinality({y \in S : Higher(y, x)}) = i - 1
    BY <2>2 DEF HigherThan
  <2>4. s[i] \in S /\ Cardinality({y \in S : Higher(y, s[i])}) = i - 1
    <3> HIDE DEF s, b
    <3> QED BY <2>1, <2>3
  <2> QED BY <2>4 DEF HigherThan
<1>5. s = [i \in 1..Cardinality(S) |-> s[i]]
  <2> DEFINE at(i) == CHOOSE x \in S : Cardinality({y \in S : Higher(y, x)}) = i - 1
  <2>1. s = [i \in 1..Cardinality(S) |-> at(i)]
    BY Zenon DEF Sorted
  <2> HIDE DEF s, at
  <2> QED BY <2>1
<1>6. InOrder(s, S, b)
  <2> HIDE DEF s, b
  <2> QED BY <1>4, <1>5 DEF InOrder
<1> QED BY <1>2, <1>6

\* By score, and of those that tie the ones in F before the others.
TiesFor(F, x, y) ==
  \/ x.score > y.score
  \/ x.score = y.score /\ (IF (x \in F) = (y \in F) THEN Earlier(x, y) ELSE x \in F)

RankedBefore(S, F) == [x \in S |-> {y \in S : TiesFor(F, y, x)}]

LEMMA TiesAreOrdered ==
  ASSUME NEW S, Named(S), NEW F
  PROVE  /\ RankedBefore(S, F) \in Ordering(S)
         /\ InOrder(Sorted(S, LAMBDA x, y : TiesFor(F, x, y)), S, RankedBefore(S, F))
<1> DEFINE b == RankedBefore(S, F)
           s == Sorted(S, LAMBDA x, y : TiesFor(F, x, y))
<1>1. /\ \A x \in S : x.score \in Nat /\ x.born \in Nat /\ x.id \in Nat
      /\ \A x, y \in S : x = y \/ x.id # y.id
  BY ScoresAreNaturals
<1>2. b \in Ordering(S)
  <2>1. ASSUME NEW x \in S, NEW y \in S, NEW z \in S
        PROVE  /\ ~TiesFor(F, x, x)
               /\ x = y \/ TiesFor(F, x, y) \/ TiesFor(F, y, x)
               /\ TiesFor(F, z, y) /\ TiesFor(F, y, x) => TiesFor(F, z, x)
    <3>1. /\ x \in F \/ x \notin F
          /\ y \in F \/ y \notin F
          /\ z \in F \/ z \notin F
      OBVIOUS
    <3>2. /\ ~Earlier(x, x)
          /\ x = y \/ Earlier(x, y) \/ Earlier(y, x)
          /\ Earlier(z, y) /\ Earlier(y, x) => Earlier(z, x)
      BY <1>1 DEF Earlier
    <3>3. x.score \in Nat /\ y.score \in Nat /\ z.score \in Nat
      BY <1>1
    <3> QED BY <3>1, <3>2, <3>3 DEF TiesFor
  <2> SUFFICES ASSUME NEW x \in S, NEW y \in S
               PROVE  /\ x \notin b[x]
                      /\ x = y \/ x \in b[y] \/ y \in b[x]
                      /\ y \in b[x] => b[y] \subseteq b[x]
    BY DEF Ordering, RankedBefore
  <2> QED BY <2>1 DEF RankedBefore
<1>3. IsFiniteSet(S)
  BY DEF Named
<1>4. ASSUME NEW i \in 1..Cardinality(S) PROVE s[i] \in S /\ Cardinality(b[s[i]]) = i - 1
  <2>1. s[i] = CHOOSE x \in S : Cardinality({y \in S : TiesFor(F, y, x)}) = i - 1
    BY DEF Sorted
  <2>2. \E x \in S : Cardinality(b[x]) = i - 1
    <3> HIDE DEF b
    <3> QED BY <1>2, <1>3, RanksExist
  <2>3. \E x \in S : Cardinality({y \in S : TiesFor(F, y, x)}) = i - 1
    BY <2>2 DEF RankedBefore
  <2>4. s[i] \in S /\ Cardinality({y \in S : TiesFor(F, y, s[i])}) = i - 1
    <3> HIDE DEF s, b
    <3> QED BY <2>1, <2>3
  <2> QED BY <2>4 DEF RankedBefore
<1>5. s = [i \in 1..Cardinality(S) |-> s[i]]
  <2> DEFINE at(i) == CHOOSE x \in S : Cardinality({y \in S : TiesFor(F, y, x)}) = i - 1
  <2>1. s = [i \in 1..Cardinality(S) |-> at(i)]
    BY Zenon DEF Sorted
  <2> HIDE DEF s, at
  <2> QED BY <2>1
<1>6. InOrder(s, S, b)
  <2> HIDE DEF s, b
  <2> QED BY <1>4, <1>5 DEF InOrder
<1> QED BY <1>2, <1>6

\* The precision of the gate's order is between those that rank the hits among
\* the stories that tie last and first.
LEMMA PrecisionIsBetween ==
  ASSUME NEW S, Named(S), NEW H \in SUBSET S, H # {}
  PROVE  /\ AtMost(Precision(Sorted(S, LAMBDA x, y : TiesFor(S \ H, x, y)), H),
                   Precision(Sorted(S, Higher), H))
         /\ AtMost(Precision(Sorted(S, Higher), H),
                   Precision(Sorted(S, LAMBDA x, y : TiesFor(H, x, y)), H))
<1> DEFINE M == S \ H
           r == Sorted(S, Higher)
           s == Sorted(S, LAMBDA x, y : TiesFor(M, x, y))
           t == Sorted(S, LAMBDA x, y : TiesFor(H, x, y))
           a == HigherThan(S)
           b == RankedBefore(S, M)
           c == RankedBefore(S, H)
<1>1. /\ IsFiniteSet(S)
      /\ a \in Ordering(S) /\ InOrder(r, S, a)
      /\ b \in Ordering(S) /\ InOrder(s, S, b)
      /\ c \in Ordering(S) /\ InOrder(t, S, c)
  BY ScoresAreOrdered, TiesAreOrdered DEF Named
<1>2. \A x \in H, y \in S \ H : x \in b[y] => x \in a[y]
  BY DEF HigherThan, RankedBefore, TiesFor, Higher
<1>3. \A x \in H, y \in S \ H : x \in a[y] => x \in c[y]
  BY DEF HigherThan, RankedBefore, TiesFor, Higher
<1> HIDE DEF a, b, c, r, s, t
<1>4. AtMost(Precision(s, H), Precision(r, H))
  BY <1>1, <1>2, PrecisionIsMonotonic
<1>5. AtMost(Precision(r, H), Precision(t, H))
  BY <1>1, <1>3, PrecisionIsMonotonic
<1> QED BY <1>4, <1>5 DEF r, s, t, M

-----------------------------------------------------------------------------
\* What the report says is computed of what it names.
ReportIsComputed ==
  report.hits # {} =>
    /\ report.hits # report.test
    /\ report.roc = RocAuc(report.test, report.hits)
    /\ report.pr = Precision(Sorted(report.test, Higher), report.hits)

LEMMA FiguresFollow ==
  ASSUME EvaluationInv, ReportIsComputed
  PROVE  FiguresAreTrue
<1> DEFINE S == report.test
           H == report.hits
           M == S \ H
           above == {q \in H \X M : q[1].score > q[2].score}
           level == {q \in H \X M : q[1].score = q[2].score}
           low == Sorted(S, LAMBDA x, y :
                    \/ x.score > y.score
                    \/ x.score = y.score
                         /\ (IF (x \in M) = (y \in M) THEN Earlier(x, y) ELSE x \in M))
           high == Sorted(S, LAMBDA x, y :
                    \/ x.score > y.score
                    \/ x.score = y.score
                         /\ (IF (x \in H) = (y \in H) THEN Earlier(x, y) ELSE x \in H))
<1>1. SUFFICES ASSUME H # {}
               PROVE  /\ Same(report.roc, <<2 * Cardinality(above) + Cardinality(level),
                                            2 * Cardinality(H \X M)>>)
                      /\ AtMost(Precision(low, H), report.pr)
                      /\ AtMost(report.pr, Precision(high, H))
  BY DEF FiguresAreTrue
<1>2. Named(S) /\ H \in SUBSET S
  BY FS_Subset DEF EvaluationInv, Named
<1>3. /\ H # S /\ report.roc = RocAuc(S, H) /\ report.pr = Precision(Sorted(S, Higher), H)
  BY <1>1 DEF ReportIsComputed
<1>4. /\ AtMost(Precision(low, H), Precision(Sorted(S, Higher), H))
      /\ AtMost(Precision(Sorted(S, Higher), H), Precision(high, H))
  <2> HIDE DEF S, H
  <2> QED BY <1>1, <1>2, PrecisionIsBetween DEF TiesFor
<1>5. Same(RocAuc(S, H), <<2 * Cardinality(above) + Cardinality(level),
                           2 * Cardinality(H \X M)>>)
  <2>1. above = Both(H, M, Outscores(S)) /\ level = Both(H, M, Equals(S))
    <3>1. \A q \in H \X M : /\ q \in S \X S /\ q[1].score \in Nat /\ q[2].score \in Nat
      BY <1>2, ScoresAreNaturals
    <3> HIDE DEF S, H
    <3> QED BY <3>1 DEF Both, Outscores, Equals
  <2>2. IsFiniteSet(S) /\ \A x \in S : x.score \in Nat
    BY <1>2, ScoresAreNaturals DEF Named
  <2> HIDE DEF S, H, above, level
  <2>3. Same(RocAuc(S, H), <<2 * Cardinality(above) + Cardinality(level),
                             2 * Cardinality(H) * Cardinality(M)>>)
    BY <1>1, <1>2, <1>3, <2>1, <2>2, RocIsShareOfPairs
  <2>4. 2 * Cardinality(H \X M) = 2 * Cardinality(H) * Cardinality(M)
    <3>1. IsFiniteSet(H) /\ IsFiniteSet(M)
      BY <1>2, <2>2, FS_Subset
    <3>2. Cardinality(H) \in Nat /\ Cardinality(M) \in Nat
      BY <3>1, FS_CardinalityType
    <3>3. Cardinality(H \X M) = Cardinality(H) * Cardinality(M)
      BY <3>1, FS_Product
    <3> QED BY <3>2, <3>3
  <2> QED BY <2>3, <2>4
<1> QED BY <1>3, <1>4, <1>5

LEMMA ReportComputed == Spec => []ReportIsComputed
<1>1. Init => ReportIsComputed
  BY DEF Init, EvaluationInit, NoReport, ReportIsComputed
<1>2. EvaluationInv /\ EvaluationInv' /\ ReportIsComputed /\ [Next]_vars => ReportIsComputed'
  <2> SUFFICES ASSUME EvaluationInv', ReportIsComputed, [Next]_vars PROVE ReportIsComputed'
    OBVIOUS
  <2>1. Tell \/ Evaluate \/ UNCHANGED evaluationVars
    BY Zenon DEF Next, vars, Serving, Batching, Judging, Gating, EvaluationNext
  <2>2. CASE UNCHANGED evaluationVars
    BY <2>2 DEF evaluationVars, ReportIsComputed
  <2>3. CASE Tell
    BY <2>3 DEF Tell, NoReport, ReportIsComputed
  <2>4. CASE Evaluate
    <3> DEFINE test == Ahead(Sorted(stories, Earlier))
               hits == IF test = {} THEN {} ELSE Doubled(test)
               none == hits \in {{}, test}
    <3>1. /\ report'.test = test /\ report'.hits = hits
          /\ report'.roc = IF none THEN Zero ELSE RocAuc(test, hits)
          /\ report'.pr = IF none THEN Zero ELSE Precision(Sorted(test, Higher), hits)
      BY <2>4 DEF Evaluate
    <3> HIDE DEF test, hits
    <3>2. ASSUME hits # {} PROVE hits # test
      <4>1. HitsAreFew' /\ IsFiniteSet(stories') /\ report'.test \subseteq stories'
        BY DEF EvaluationInv, Named
      <4>2. IsFiniteSet(test) /\ 2 * Cardinality(hits) <= Cardinality(test)
        BY <3>1, <4>1, FS_Subset DEF HitsAreFew
      <4>3. SUFFICES ASSUME hits = test PROVE FALSE
        OBVIOUS
      <4>4. Cardinality(test) \in Nat /\ Cardinality(test) # 0
        BY <3>2, <4>2, <4>3, FS_CardinalityType, FS_EmptySet
      <4> QED BY <4>2, <4>3, <4>4
    <3> QED BY <3>1, <3>2 DEF ReportIsComputed
  <2> QED BY <2>1, <2>2, <2>3, <2>4
<1> QED BY <1>1, <1>2, EvaluationKept, PTL DEF Spec

\* What the gate reports of a window (split_by_time, label_partition,
\* compute_window_report): the stories it tests are born at least the gap
\* after the others, at most half of them count as hits, the ROC-AUC that the
\* rank sum gives is the share of the pairs of a hit and a miss that the scores
\* order rightly, a tie counting half, and the average precision is between
\* those of the orders that break every tie against the hits and for them.
THEOREM ReportsAreHonest == Spec => []ReportIsHonest
<1>1. EvaluationInv /\ ReportIsComputed => ReportIsHonest
  BY FiguresFollow DEF EvaluationInv, ReportIsHonest
<1> QED BY <1>1, EvaluationKept, ReportComputed, PTL

-----------------------------------------------------------------------------
\* The bounds of the clocks and of the posts.
Bounds == /\ used \in 0..MaxPosts /\ clock \in 0..MaxTime /\ moment \in 0..LastMoment
          /\ phase \in {"off", "sorting", "placing"} /\ part \in Parts

LEMMA BoundsKept == Spec => []Bounds
<1>1. Init => Bounds
  BY ClustersParameters, VerdictsParameters DEF Bounds, Init, ClustersInit, VerdictsInit
<1>2. Bounds /\ [Next]_vars => Bounds'
  <2> SUFFICES ASSUME Bounds, [Next]_vars PROVE Bounds'
    OBVIOUS
  <2>1. CASE Batching
    <3>1. CASE Sort
      <4>1. used' = used + 1 /\ used < MaxPosts /\ UNCHANGED <<clock, phase, moment, part>>
        BY <2>1, <3>1 DEF Batching, Sort, verdictVars
      <4> QED BY <4>1, ClustersParameters DEF Bounds
    <3>2. CASE Hour
      <4>1. clock' = clock + 1 /\ clock < MaxTime /\ UNCHANGED <<used, phase, moment, part>>
        BY <2>1, <3>2 DEF Batching, Hour, verdictVars
      <4> QED BY <4>1, ClustersParameters DEF Bounds
    <3>3. CASE StartBatch \/ Place \/ CommitBatch \/ BatchFails
      BY <2>1, <3>3
         DEF Batching, StartBatch, Place, CommitBatch, BatchFails, EndBatch, verdictVars, Bounds
    <3> QED BY <2>1, <3>1, <3>2, <3>3 DEF Batching, ClustersNext
  <2>2. CASE Judging
    <3>1. moment' = moment \/ (moment < LastMoment /\ moment' = moment + 1)
      BY <2>2 DEF Judging, VerdictsNext, Grow, Minutes, ScorerStep, Begin, ReadPosts, Insert,
                  InsertFails, Match, Judge, Commit, Abort
    <3>2. UNCHANGED <<part, clusterVars>>
      BY <2>2 DEF Judging
    <3> QED BY <3>1, <3>2, VerdictsParameters DEF clusterVars, Bounds
  <2>3. CASE Serving \/ Gating \/ UNCHANGED vars
    BY <2>3 DEF Serving, Gating, vars, clusterVars, verdictVars, Bounds
  <2> QED BY <2>1, <2>2, <2>3 DEF Next
<1> QED BY <1>1, <1>2, PTL DEF Spec

\* The state of watchlists, stories, verdicts and reports stays within its types.
THEOREM TenantTypes == Spec => []TypeOK
<1>1. WatchlistInv => WatchlistsTypeOK
  <2> SUFFICES ASSUME WatchlistInv PROVE WatchlistsTypeOK
    OBVIOUS
  <2> DEFINE none == -1
  <2>1. none \in Int /\ PackSetting \in Settings
    BY WatchlistsParameters
  <2>2. Absent = [t |-> none, floor |-> None, pack |-> None, set |-> PackSetting]
        /\ Gone = [t |-> none, floor |-> None]
    BY DEF Absent, Gone
  <2> HIDE DEF none
  <2>3. LiveRow \cup {Absent} \subseteq Row /\ Reading \cup {Gone} \subseteq Threshold
    BY <2>1, <2>2 DEF LiveRow, Reading, Row, Threshold
  <2>4. ApiRequest \subseteq [op : {"idle", "create", "patch", "subscribe"}, k : Keys \cup {None},
                              p : Packs \cup {None}, seen : Threshold]
    BY <2>3 DEF ApiRequest
  <2>5. row \in [Keys -> Row] /\ crowded \in BOOLEAN /\ raced \subseteq Keys
    BY <2>3 DEF WatchlistInv, WatchlistTypes
  <2>6. request \in [Requests -> [op : {"idle", "create", "patch", "subscribe"}, k : Keys \cup {None},
                                  p : Packs \cup {None}, seen : Threshold]]
    BY <2>4 DEF WatchlistInv, WatchlistTypes
  <2>7. adapt \in [at : {"off", "up", "down"}, seen : [Keys -> Threshold]]
    <3>1. [Keys -> Reading \cup {Gone}] \subseteq [Keys -> Threshold]
      BY <2>3
    <3> QED BY <3>1 DEF WatchlistInv, WatchlistTypes
  <2> QED BY <2>5, <2>6, <2>7 DEF WatchlistsTypeOK
<1>2. Bounds /\ ClustersInv => ClustersTypeOK
  <2> SUFFICES ASSUME Bounds, ClustersInv PROVE ClustersTypeOK
    OBVIOUS
  <2>1. Story \subseteq Cluster /\ Counting \subseteq Group
    BY DEF Story, Counting
  <2>2. stored \in Seq(Cluster) /\ held \in Seq(Cluster) /\ groups \in Seq(Group)
        /\ seen \in Seq(Cluster)
    BY <2>1 DEF ClustersInv
  <2> QED BY <2>2 DEF ClustersTypeOK, Bounds
<1>3. Bounds /\ VerdictInv => VerdictsTypeOK
  <2> SUFFICES ASSUME Bounds, VerdictInv PROVE VerdictsTypeOK
    OBVIOUS
  <2>1. /\ arrived \subseteq Arrival /\ story \in [first : Int, updated : Int]
        /\ snapshot \in [Observed -> Capture] /\ overlaid \in BOOLEAN
    BY DEF VerdictInv, VerdictTypes
  <2>2. Fair(verdict)
    BY DEF VerdictInv, VerdictTypes, FairRow
  <2>3. AtMost(Zero, verdict.score) /\ AtMost(Zero, verdict.fallback)
    BY <2>2, ConstantsAreRational, AtMostIsTransitive DEF Fair
  <2>4. \A s \in Scorers : scorer[s].at \in {"off", "due", "read", "match", "score", "end"}
    BY DEF VerdictInv, VerdictTypes, ScorerTick
  <2> QED BY <2>1, <2>3, <2>4 DEF VerdictsTypeOK, Bounds
<1>4. EvaluationInv => EvaluationTypeOK
  BY DEF EvaluationInv, Named, EvaluationTypeOK
<1>5. Bounds /\ WatchlistInv /\ ClustersInv /\ VerdictInv /\ EvaluationInv => TypeOK
  BY <1>1, <1>2, <1>3, <1>4 DEF TypeOK, Bounds
<1> QED BY BoundsKept, WatchlistsKept, ClustersKept, VerdictsKept,
           EvaluationKept, <1>5, PTL
=============================================================================
