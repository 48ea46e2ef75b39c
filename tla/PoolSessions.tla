---------------------------- MODULE PoolSessions ----------------------------
(***************************************************************************)
(* Where the sessions of the Telegram pool come from: a QR login mints one *)
(* (collector/telegram/qr_login.py), the admin API stores it and signals   *)
(* the workers (api/routes/pool_admin.py, storage/pool_session_store.py),  *)
(* and a worker's next collect tick drops its cached pool or swaps one     *)
(* slot (collector/registry.py, collector/tasks.py, account_pool.py).      *)
(*                                                                         *)
(* Each prefork child keeps a pool of its own over the same sessions; the  *)
(* two signals are single Redis keys that the first tick consumes, and the *)
(* API sets them before its transaction commits.  Ticks do not overlap     *)
(* here (module TaskLock says when they may).  A session is an account     *)
(* and a number: <<a, n>>; row 0 is no row.  Nothing revokes a row.        *)
(***************************************************************************)
EXTENDS Naturals, FiniteSets

CONSTANTS
  Accounts,   \* Telegram accounts: numbers, the order of the store's rows
  Workers,    \* prefork children that run collect ticks
  Requests,   \* bound: polls handled at once
  FirstRow,   \* the accounts' stored sessions at the start
  MaxMint,    \* bound: sessions per account
  MaxLogins,  \* bound: QR logins scanned
  PoolMax,    \* POOL_MAX
  MaxFaults,  \* bound: API requests, connects and Redis writes that fail
  None        \* no signal, no pool, no tick

ASSUME PoolSessionsParameters ==
  /\ Accounts \subseteq Nat /\ IsFiniteSet(Accounts)
  /\ IsFiniteSet(Requests) /\ Requests # {}
  /\ MaxMint \in Nat \ {0} /\ MaxLogins \in Nat /\ PoolMax \in Nat /\ MaxFaults \in Nat
  /\ FirstRow \in [Accounts -> 0..1]
  /\ Cardinality({a \in Accounts : FirstRow[a] # 0}) <= PoolMax
  /\ None \notin Accounts /\ None \notin Workers

VARIABLES
  row,      \* pool_sessions, as committed
  minted,   \* sessions minted by QR logins
  dead,     \* the sessions Telegram has revoked
  request,  \* the polls that found their login scanned
  reload,   \* pool:reload:signal
  revive,   \* pool:revive:signal
  quar,     \* pool:quarantine: fingerprints of dead sessions
  pool,     \* each worker's cached pool
  popped,   \* the connected sessions of a pool out of the cache, not closed yet
  open,     \* connected clients of each session, in each worker
  tick,     \* the collect tick under way
  faults,   \* history: failures so far
  raced     \* history: an account was let in while another was being added

sessionVars == <<row, minted, dead, request, reload, revive, quar, pool, popped, open, tick, faults, raced>>
store == <<row, minted, dead, request, raced>>

Session == Accounts \X (1..MaxMint)
Slot == [n : 0..MaxMint, out : BOOLEAN, up : BOOLEAN]
NoSlot == [n |-> 0, out |-> FALSE, up |-> FALSE]

ASSUME NoneIsNoPool == None \notin [Accounts -> Slot]

NoRequest == [at |-> "idle", a |-> None, n |-> 0, add |-> FALSE, old |-> 0]
NoTick == [w |-> None, at |-> "off", a |-> None, n |-> 0]

SessionsTypeOK ==
  /\ row \in [Accounts -> 0..MaxMint]
  /\ minted \in [Accounts -> 0..MaxMint]
  /\ dead \subseteq Session
  /\ request \in [Requests -> [at : {"idle", "checked", "flushed", "told", "answered"},
                               a : Accounts \cup {None}, n : 0..MaxMint,
                               add : BOOLEAN, old : 0..MaxMint]]
  /\ reload \in BOOLEAN
  /\ revive \in Accounts \cup {None}
  /\ quar \subseteq Session
  /\ pool \in [Workers -> [Accounts -> Slot] \cup {None}]
  /\ popped \in [Workers -> SUBSET Session]
  /\ open \in [Workers -> [Session -> Nat]]
  /\ tick \in [w : Workers \cup {None},
               at : {"off", "drop", "close", "build", "revive", "swap", "read"},
               a : Accounts \cup {None}, n : 0..MaxMint]
  /\ faults \in 0..MaxFaults
  /\ raced \in BOOLEAN

SessionsInit ==
  /\ row = FirstRow
  /\ minted = FirstRow
  /\ dead = {}
  /\ request = [q \in Requests |-> NoRequest]
  /\ reload = FALSE
  /\ revive = None
  /\ quar = {}
  /\ pool = [w \in Workers |-> None]
  /\ popped = [w \in Workers |-> {}]
  /\ open = [w \in Workers |-> [s \in Session |-> 0]]
  /\ tick = NoTick
  /\ faults = 0
  /\ raced = FALSE

Fault == faults < MaxFaults /\ faults' = faults + 1

-----------------------------------------------------------------------------
(* The admin API.                                                          *)

Exists(s) == s[2] <= minted[s[1]]

Stored == {a \in Accounts : row[a] # 0}
\* A plausible bug: an account too many is let in.
FullTooLate == Cardinality(Stored) > PoolMax
Full == Cardinality(Stored) >= PoolMax

\* The accounts being added by requests that have counted the rows.
Adding == {request[q].a : q \in {p \in Requests : request[p].add}}

\* A QR login is scanned.  The poll that sees it takes the session and
\* disconnects the login's own client; then upsert_revive_or_add reads the
\* store, and refuses (409) a new account when the committed rows fill the
\* pool.
Login(q, a) ==
  LET n == minted[a] + 1
      known == row[a] # 0
  IN  /\ request[q].at = "idle"
      /\ minted[a] < MaxMint
      /\ Cardinality({s \in Session : Exists(s)}) < MaxLogins
      /\ minted' = [minted EXCEPT ![a] = n]
      /\ request' = [request EXCEPT ![q] =
                       IF known \/ ~Full
                         THEN [at |-> "checked", a |-> a, n |-> n, add |-> ~known, old |-> row[a]]
                         ELSE NoRequest]
      /\ raced' = (raced \/ (~known /\ ~Full /\ Adding # {}))
      /\ UNCHANGED <<row, dead, reload, revive, quar, pool, popped, open, tick, faults>>

\* The flush waits for whoever writes the same row (or the same unique key);
\* an insert that lost that race fails, and the poll answers without outcome.
RowLocked(q) ==
  \E p \in Requests \ {q} : /\ request[p].a = request[q].a
                            /\ request[p].at \in {"flushed", "told", "answered"}

Flush(q) ==
  LET r == request[q]
  IN  /\ r.at = "checked"
      /\ ~RowLocked(q)
      /\ request' = [request EXCEPT ![q] = IF r.add /\ row[r.a] # 0
                                             THEN NoRequest ELSE [r EXCEPT !.at = "flushed"]]
      /\ UNCHANGED <<row, minted, dead, reload, revive, quar, pool, popped, open, tick, faults, raced>>

\* _signal_reload, on every success.
SignalReload(q) ==
  /\ request[q].at = "flushed"
  /\ reload' = TRUE
  /\ request' = [request EXCEPT ![q].at = IF request[q].add THEN "answered" ELSE "told"]
  /\ UNCHANGED <<row, minted, dead, revive, quar, pool, popped, open, tick, faults, raced>>

\* _signal_revive: names the slot, and lets the old session out of quarantine.
SignalRevive(q) ==
  /\ request[q].at = "told"
  /\ revive' = request[q].a
  /\ quar' = quar \ {<<request[q].a, request[q].old>>}
  /\ request' = [request EXCEPT ![q].at = "answered"]
  /\ UNCHANGED <<row, minted, dead, reload, pool, popped, open, tick, faults, raced>>

\* get_session commits when the request is torn down.
Commit(q) ==
  /\ request[q].at = "answered"
  /\ row' = [row EXCEPT ![request[q].a] = request[q].n]
  /\ request' = [request EXCEPT ![q] = NoRequest]
  /\ UNCHANGED <<minted, dead, reload, revive, quar, pool, popped, open, tick, faults, raced>>

\* The request fails or its process dies; what it signalled stays signalled.
Abort(q) ==
  /\ request[q].at # "idle"
  /\ Fault
  /\ request' = [request EXCEPT ![q] = NoRequest]
  /\ UNCHANGED <<row, minted, dead, reload, revive, quar, pool, popped, open, tick, raced>>

Poll(q) == Flush(q) \/ SignalReload(q) \/ SignalRevive(q) \/ Commit(q)

-----------------------------------------------------------------------------
(* A worker's collect tick.                                                *)

At(w, place) == tick.w = w /\ tick.at = place
GoTo(place) == tick' = [tick EXCEPT !.at = place]

\* Clients of w to sessions are connected or disconnected.
Connects(w, s) == open' = [open EXCEPT ![w][s] = @ + 1]
Disconnects(w, s, up) == open' = IF up THEN [open EXCEPT ![w][s] = @ - 1] ELSE open
ClientsUp(w) == {s \in Session : pool[w] # None /\ pool[w][s[1]].up /\ pool[w][s[1]].n = s[2]}
\* A plausible bug: the pool is dropped without closing its clients.
ClosePoolNever(w) == UNCHANGED open
ClosePool(w) ==
  open' = [open EXCEPT ![w] = [s \in Session |-> IF s \in popped[w] THEN @[s] - 1 ELSE @[s]]]

\* The tick asks whether a reload is signalled ...
StartTick(w) ==
  /\ tick = NoTick
  /\ tick' = [w |-> w, at |-> IF reload THEN "drop" ELSE "build",
               a |-> None, n |-> 0]
  /\ UNCHANGED <<store, reload, revive, quar, pool, popped, open, faults>>

\* ... takes the signal and pops its pool from the cache (invalidate) ...
DropPool(w) ==
  /\ At(w, "drop")
  /\ reload' = FALSE
  /\ popped' = [popped EXCEPT ![w] = ClientsUp(w)]
  /\ pool' = [pool EXCEPT ![w] = None]
  /\ GoTo("close")
  /\ UNCHANGED <<store, revive, quar, open, faults>>

\* ... and awaits aclose, which disconnects the popped pool's clients.
AwaitClose(w) ==
  /\ At(w, "close")
  /\ ClosePool(w)
  /\ popped' = [popped EXCEPT ![w] = {}]
  /\ GoTo("build")
  /\ UNCHANGED <<store, reload, revive, quar, pool, faults>>

\* The rows the pool is built from: the first PoolMax of them.
Loaded == {a \in Stored : Cardinality({b \in Stored : b < a}) < PoolMax}

\* A plausible bug: quarantine goes by account, not by session.
AccountMarkedDead(a) == \E s \in quar : s[1] = a

\* Is a session of the pool marked dead as it is loaded?
MarkedDead(a) == <<a, row[a]>> \in quar

\* registry.get builds the pool if there is none; with Redis down every
\* session counts as alive, and without a row there is no pool.
Build(w) ==
  /\ At(w, "build")
  /\ \/ /\ pool[w] # None \/ Stored = {}
        /\ UNCHANGED <<pool, faults>>
     \/ /\ pool[w] = None /\ Stored # {}
        /\ \E seen \in BOOLEAN :
             /\ IF seen THEN UNCHANGED faults ELSE Fault
             /\ pool' = [pool EXCEPT ![w] =
                           [a \in Accounts |->
                              IF a \in Loaded
                                THEN [n |-> row[a], out |-> seen /\ MarkedDead(a), up |-> FALSE]
                                ELSE NoSlot]]
  /\ GoTo("revive")
  /\ UNCHANGED <<store, reload, revive, quar, popped, open>>

Target(w) == revive # None /\ pool[w] # None /\ pool[w][revive].n # 0

\* apply_pending_revive without a slot to swap drops the signal ...
NoRevive(w) ==
  /\ At(w, "revive")
  /\ ~Target(w)
  /\ revive' = IF pool[w] = None THEN revive ELSE None
  /\ GoTo("read")
  /\ UNCHANGED <<store, reload, quar, pool, popped, open, faults>>

\* ... else it loads the stored session and disconnects the old client ...
BeginRevive(w) ==
  /\ At(w, "revive")
  /\ Target(w)
  /\ LET old == pool[w][revive]
     IN  /\ Disconnects(w, <<revive, old.n>>, old.up)
         /\ pool' = [pool EXCEPT ![w][revive].up = FALSE]
  /\ tick' = [tick EXCEPT !.at = "swap", !.a = revive, !.n = row[revive]]
  /\ UNCHANGED <<store, reload, revive, quar, popped, faults>>

\* ... connects the new one, puts it in the slot, takes the old session out
\* of quarantine and drops the signal; if it cannot connect, all that waits.
Swap(w) ==
  LET a == tick.a
  IN  /\ At(w, "swap")
      /\ \/ /\ Connects(w, <<a, tick.n>>)
            /\ pool' = [pool EXCEPT ![w][a] = [n |-> tick.n, out |-> FALSE, up |-> TRUE]]
            /\ quar' = quar \ {<<a, pool[w][a].n>>}
            /\ revive' = None
            /\ UNCHANGED faults
         \/ /\ Fault
            /\ UNCHANGED <<open, pool, quar, revive>>
      /\ GoTo("read")
      /\ UNCHANGED <<store, reload, popped>>

\* A channel is read through an account: its client is connected first, and
\* a refusal quarantines the session, in the pool and (best effort) in Redis.
Read(w, a) ==
  /\ At(w, "read")
  /\ pool[w] # None
  /\ pool[w][a].n # 0 /\ ~pool[w][a].out
  /\ LET s == <<a, pool[w][a].n>>
     IN  /\ IF pool[w][a].up THEN UNCHANGED open ELSE Connects(w, s)
         /\ pool' = [pool EXCEPT ![w][a].up = TRUE, ![w][a].out = s \in dead]
         /\ \/ quar' = (IF s \in dead THEN quar \cup {s} ELSE quar) /\ UNCHANGED faults
            \/ s \in dead /\ Fault /\ UNCHANGED quar
  /\ UNCHANGED <<store, reload, revive, popped, tick>>

EndTick(w) ==
  /\ At(w, "read")
  /\ tick' = NoTick
  /\ UNCHANGED <<store, reload, revive, quar, pool, popped, open, faults>>

\* The child is recycled after max_tasks_per_child tasks, or killed.
WorkerEnds(w) ==
  /\ pool[w] # None \/ tick.w = w
  /\ pool' = [pool EXCEPT ![w] = None]
  /\ popped' = [popped EXCEPT ![w] = {}]
  /\ open' = [open EXCEPT ![w] = [s \in Session |-> 0]]
  /\ tick' = IF tick.w = w THEN NoTick ELSE tick
  /\ UNCHANGED <<store, reload, revive, quar, faults>>

Tick(w) ==
  \/ StartTick(w) \/ DropPool(w) \/ AwaitClose(w) \/ Build(w) \/ NoRevive(w)
  \/ BeginRevive(w) \/ Swap(w) \/ EndTick(w)

-----------------------------------------------------------------------------
(* Telegram revokes a session; signals nobody consumes expire.             *)

Revoked(s) ==
  /\ Exists(s)
  /\ dead' = dead \cup {s}
  /\ UNCHANGED <<row, minted, request, reload, revive, quar, pool, popped, open, tick, faults, raced>>

SignalsExpire ==
  /\ reload' = FALSE
  /\ revive' = None
  /\ UNCHANGED <<store, quar, pool, popped, open, tick, faults, raced>>

SessionsNext ==
  \/ SignalsExpire
  \/ \E s \in Session : Revoked(s)
  \/ \E q \in Requests : \/ Poll(q) \/ Abort(q)
                         \/ \E a \in Accounts : Login(q, a)
  \/ \E w \in Workers : \/ Tick(w) \/ WorkerEnds(w)
                        \/ \E a \in Accounts : Read(w, a)

-----------------------------------------------------------------------------
(* Properties.                                                             *)

\* A worker never has two connected clients of one session, whatever was
\* reloaded, swapped or left disconnected by a failed swap (aclose before the
\* rebuild, disconnect before connect: the AuthKeyDuplicated invariant of
\* registry.ainvalidate and AccountPool.revive_slot).
OneClientEach == \A w \in Workers, s \in Session : open[w][s] <= 1

\* A session that is stored for good, and that Telegram does not revoke, ends
\* up in rotation in every worker, also in those that never saw a signal, saw
\* it before the commit or hold the quarantine of an earlier session
\* (_signal_reload: "a missed flag self-heals on the next restart").
StoredServes ==
  \A a \in Accounts, n \in 1..MaxMint :
    <>[](a \in Loaded /\ row[a] = n /\ <<a, n>> \notin dead)
      => <>[](\A w \in Workers :
                pool[w] # None => pool[w][a].n = n /\ ~pool[w][a].out)

\* Unless two accounts were being added at once, the stored accounts stay
\* within the cap, whatever was revived, refused or rolled back meanwhile
\* (_active_count and the insert are two statements, without a lock).
CapExceededOnlyByRace == ~raced => Cardinality(Stored) <= PoolMax

\* The sessions are used singly, and are as many as the pool may have.
SessionsWithinBounds == OneClientEach /\ CapExceededOnlyByRace
=============================================================================
