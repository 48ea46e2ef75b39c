------------------------------ MODULE Factory ------------------------------
(***************************************************************************)
(* The account factory: a tick buys and registers a Telegram account when  *)
(* the pool is short and the budget allows, and promotes the accounts      *)
(* whose probation is over into the pool (factory/tasks.py,                *)
(* factory/service.py, storage/factory_account_store.py,                   *)
(* storage/pool_session_store.py).                                         *)
(*                                                                         *)
(* A tick is ONE transaction, and nothing keeps two ticks apart: the beat, *)
(* a redelivery and the admin's button (api/routes/factory.py) each run    *)
(* one.  It reads what is committed, waits for rows that another has       *)
(* written, and any exception rolls all of it back, but not the number it  *)
(* bought nor the proxies it gave up.  Each account comes with a proxy of  *)
(* its own, leased from a provider.                                        *)
(***************************************************************************)
EXTENDS Integers, FiniteSets

CONSTANTS
  Runs,        \* bound: ticks under way at once
  NumAccounts, \* bound: accounts are 1..NumAccounts, in the order of their ids
  NoAccount,
  Price,       \* account_factory_price_usd
  ProxyPrice,  \* account_factory_proxy_price_usd
  Budget,      \* account_factory_budget_usd
  Probation,   \* account_factory_probation_days
  PoolMax,     \* POOL_MAX
  MaxTime,     \* bound: the clock, in days
  MaxFaults    \* bound: ticks that die

Accounts == 1..NumAccounts

ASSUME FactoryParameters ==
  /\ IsFiniteSet(Runs)
  /\ Runs # {}
  /\ NumAccounts \in Nat
  /\ NoAccount \notin Accounts
  /\ {Price, ProxyPrice, Budget} \subseteq Nat
  /\ Probation \in Nat \ {0}
  /\ PoolMax \in Nat
  /\ MaxTime \in Nat
  /\ MaxFaults \in Nat

VARIABLES
  now,
  row,        \* factory_accounts.state as committed; "none": no row
  until,      \* probation_until
  spent,      \* the sum of cost_usd
  pool,       \* the accounts with a row in pool_sessions
  others,     \* the rows of pool_sessions that the factory did not make
  leased,     \* the accounts whose proxy port the provider keeps
  registered, \* history: accounts bought and registered, numbers not refunded
  run,        \* the ticks
  raced,      \* history: accounts that two ticks judged at once
  undone,     \* history: accounts of a tick that was rolled back
  faults

database == <<row, until, spent, pool, others>>
vars == <<now, database, leased, registered, run, raced, undone, faults>>

\* purchased, registered and banned are never committed: the first two are passed
\* within one transaction, and no caller of the registrar leads to banned.
Status == {"none", "probation", "promoted", "failed"}
Final == {"promoted", "failed"}

\* buy: about to buy; register: a number and a proxy in hand; promote: in the loop;
\* the others: an account in hand whose row the tick has read and not yet written.
Places == {"idle", "buy", "register", "promote", "rejecting", "inserting", "promoting"}

Run == [at : Places, today : 0..MaxTime, paying : BOOLEAN, account : Accounts \cup {NoAccount},
        cost : {0, Price, Price + ProxyPrice}, todo : SUBSET Accounts,
        hand : Accounts \cup {NoAccount}, known : BOOLEAN,
        wrote : [Accounts -> Status], added : SUBSET Accounts]
NoRun == [at |-> "idle", today |-> 0, paying |-> FALSE, account |-> NoAccount, cost |-> 0,
          todo |-> {}, hand |-> NoAccount, known |-> FALSE,
          wrote |-> [a \in Accounts |-> "none"], added |-> {}]

TypeOK ==
  /\ now \in 0..MaxTime
  /\ row \in [Accounts -> Status]
  /\ until \in [Accounts -> 0..(MaxTime + Probation)]
  /\ spent \in Nat
  /\ pool \subseteq Accounts
  /\ others \in 0..PoolMax
  /\ leased \subseteq Accounts
  /\ registered \subseteq Accounts
  /\ run \in [Runs -> Run]
  /\ raced \subseteq Accounts
  /\ undone \subseteq Accounts
  /\ faults \in 0..MaxFaults

Init ==
  /\ now = 0
  /\ row = [a \in Accounts |-> "none"]
  /\ until = [a \in Accounts |-> 0]
  /\ spent = 0
  /\ pool = {}
  /\ others = 0
  /\ leased = {}
  /\ registered = {}
  /\ run = [r \in Runs |-> NoRun]
  /\ raced = {}
  /\ undone = {}
  /\ faults = 0

-----------------------------------------------------------------------------
Advance ==
  /\ now < MaxTime
  /\ now' = now + 1
  /\ UNCHANGED <<database, leased, registered, run, raced, undone, faults>>

\* A QR login adds an account of the owner's (api/routes/pool_admin.py).
AddByQr ==
  /\ Cardinality(pool) + others < PoolMax
  /\ others' = others + 1
  /\ UNCHANGED <<now, row, until, spent, pool, leased, registered, run, raced, undone, faults>>

-----------------------------------------------------------------------------
(* How a transaction ends *)

Changed(r) == {a \in Accounts : run[r].wrote[a] # "none"}
Touched(r) == Changed(r) \cup ({run[r].account} \cap Accounts)

\* get_session commits when the tick is through.
Commit(r) ==
  /\ run[r].at = "promote"
  /\ run[r].todo = {}
  /\ row' = [a \in Accounts |-> IF a \in Changed(r) THEN run[r].wrote[a] ELSE row[a]]
  /\ until' = [a \in Accounts |->
       IF run[r].wrote[a] = "probation" THEN run[r].today + Probation ELSE until[a]]
  /\ spent' = spent + run[r].cost
  /\ pool' = pool \cup run[r].added
  /\ run' = [run EXCEPT ![r] = NoRun]
  /\ UNCHANGED <<now, others, leased, registered, raced, undone, faults>>

\* An exception reaches factory_tick: get_session rolls back.
Rollback(r) ==
  /\ run' = [run EXCEPT ![r] = NoRun]
  /\ undone' = undone \cup Touched(r)
  /\ UNCHANGED <<now, database, registered>>

\* The process dies or is killed, or the commit fails.
Dies(r) ==
  /\ run[r].at # "idle"
  /\ faults < MaxFaults
  /\ faults' = faults + 1
  /\ Rollback(r)
  /\ UNCHANGED <<leased, raced>>

-----------------------------------------------------------------------------
(* The buy phase *)

\* A plausible bug: an account is due after its day only.
DueAfter(today) == {a \in Accounts : row[a] = "probation" /\ until[a] < today}

\* The promote loop runs over what list_by_state returns at its start, of which
\* is_promotable lets through those whose gate is open.
Due(today) == {a \in Accounts : row[a] = "probation" /\ until[a] <= today}

Promoting(r) == [run[r] EXCEPT !.at = "promote", !.todo = Due(run[r].today)]

\* A plausible bug: the sum spent so far is compared, without the purchase.
CanAffordSpent == spent <= Budget

\* can_afford; the proxy is not in the sum.
CanAfford == spent + Price <= Budget

\* The pool-health snapshot shows fewer healthy accounts than the target.
StartToBuy(r) ==
  /\ run[r].at = "idle"
  /\ CanAfford
  /\ run' = [run EXCEPT ![r] = [NoRun EXCEPT !.at = "buy", !.today = now, !.paying = TRUE]]
  /\ UNCHANGED <<now, database, leased, registered, raced, undone, faults>>

\* It shows enough, or none is there, or the budget is used up.
StartToPromote(r) ==
  /\ run[r].at = "idle"
  /\ run' = [run EXCEPT ![r] =
       [NoRun EXCEPT !.at = "promote", !.today = now, !.todo = Due(now)]]
  /\ UNCHANGED <<now, database, leased, registered, raced, undone, faults>>

\* SmsNumberUnavailableError: no purchase in this tick.
NoNumber(r) ==
  /\ run[r].at = "buy"
  /\ run' = [run EXCEPT ![r] = Promoting(r)]
  /\ UNCHANGED <<now, database, leased, registered, raced, undone, faults>>

\* Any other error of the provider, or of the allocation of the proxy (upon which
\* the number is cancelled), ends the tick.
BuyFails(r) ==
  /\ run[r].at = "buy"
  /\ Rollback(r)
  /\ UNCHANGED <<leased, raced, faults>>

Fresh(a) ==
  /\ row[a] = "none"
  /\ a \notin leased \cup registered \cup undone
  /\ \A r \in Runs : run[r].account # a

\* buy_number and allocate.
Buy(r) ==
  /\ run[r].at = "buy"
  /\ \E a \in Accounts :
       /\ Fresh(a)
       /\ \A b \in Accounts : Fresh(b) => a <= b
       /\ run' = [run EXCEPT ![r].at = "register", ![r].account = a]
       /\ leased' = leased \cup {a}
  /\ UNCHANGED <<now, database, registered, raced, undone, faults>>

\* The tick writes the row of its purchase.
Record(r, status, cost) ==
  run' = [run EXCEPT ![r] =
    [Promoting(r) EXCEPT !.cost = cost, !.wrote = [@ EXCEPT ![run[r].account] = status]]]

\* register and finish: purchased, registered and at once on probation.
Register(r) ==
  /\ run[r].at = "register"
  /\ Record(r, "probation", Price + ProxyPrice)
  /\ registered' = registered \cup {run[r].account}
  /\ UNCHANGED <<now, database, leased, raced, undone, faults>>

\* SmsCodeTimeoutError: number cancelled, proxy released, and a failed row.
CodeTimeout(r) ==
  /\ run[r].at = "register"
  /\ Record(r, "failed", Price)
  /\ leased' = leased \ {run[r].account}
  /\ UNCHANGED <<now, database, registered, raced, undone, faults>>

\* Telegram rejects the number: cancelled, released, and the error, which nothing
\* in the buy phase catches, ends the tick before its promotions.
RegisterRejected(r) ==
  /\ run[r].at = "register"
  /\ run' = [run EXCEPT ![r] = NoRun]
  /\ leased' = leased \ {run[r].account}
  /\ UNCHANGED <<now, database, registered, raced, undone, faults>>

-----------------------------------------------------------------------------
(* The promote phase *)

\* The tick takes the next account; another one may have it in hand, or have
\* written it and not committed yet.
TakeUp(r, a, place) ==
  /\ run[r].at = "promote"
  /\ a \in run[r].todo
  /\ \A b \in run[r].todo : a <= b
  /\ run' = [run EXCEPT ![r].at = place, ![r].todo = @ \ {a}, ![r].hand = a,
                        ![r].known = a \in pool]
  /\ raced' = IF \E q \in Runs \ {r} : run[q].hand = a \/ a \in Changed(q)
              THEN raced \cup {a} ELSE raced
  /\ UNCHANGED <<now, database, leased, registered, undone, faults>>

\* The probe fails; transition reads the state.
Reject(r, a) ==
  /\ row[a] = "probation"
  /\ TakeUp(r, a, "rejecting")

\* The probe passes; upsert_revive_or_add looks for the account and for room.
Admit(r, a) ==
  /\ a \in pool \/ Cardinality(pool \cup run[r].added) + others < PoolMax
  /\ TakeUp(r, a, "inserting")

\* PoolCapacityExceededError, or transition finds that another tick has dealt with
\* the account: the whole tick is rolled back.
JudgementFails(r, a) ==
  /\ run[r].at = "promote"
  /\ a \in run[r].todo
  /\ \A b \in run[r].todo : a <= b
  /\ \/ a \notin pool /\ Cardinality(pool \cup run[r].added) + others >= PoolMax
     \/ row[a] # "probation"
  /\ Rollback(r)
  /\ UNCHANGED <<leased, raced, faults>>

PoolRowLocked(r) == \E q \in Runs \ {r} : run[r].hand \in run[q].added

\* A plausible bug: the pool row survives the tick's rollback.
InsertCommitted(r) ==
  /\ run[r].at = "inserting"
  /\ ~PoolRowLocked(r)
  /\ run[r].known \/ run[r].hand \notin pool
  /\ row[run[r].hand] = "probation"
  /\ pool' = pool \cup {run[r].hand}
  /\ run' = [run EXCEPT ![r].at = "promoting", ![r].added = @ \cup {run[r].hand}]
  /\ UNCHANGED <<now, row, until, spent, others, leased, registered, raced, undone, faults>>

\* A plausible bug: the state of the account is not read again.
InsertUnchecked(r) ==
  /\ run[r].at = "inserting"
  /\ run' = [run EXCEPT ![r].at = "promoting", ![r].added = @ \cup {run[r].hand}]
  /\ UNCHANGED <<now, database, leased, registered, raced, undone, faults>>

\* The row is flushed into pool_sessions, and transition reads the state.
InsertPoolRow(r) ==
  /\ run[r].at = "inserting"
  /\ ~PoolRowLocked(r)
  /\ run[r].known \/ run[r].hand \notin pool
  /\ row[run[r].hand] = "probation"
  /\ run' = [run EXCEPT ![r].at = "promoting", ![r].added = @ \cup {run[r].hand}]
  /\ UNCHANGED <<now, database, leased, registered, raced, undone, faults>>

\* Another tick has inserted the account (tg_user_id is unique) or moved it on.
InsertFails(r) ==
  /\ run[r].at = "inserting"
  /\ ~PoolRowLocked(r)
  /\ \/ ~run[r].known /\ run[r].hand \in pool
     \/ row[run[r].hand] # "probation"
  /\ Rollback(r)
  /\ UNCHANGED <<leased, raced, faults>>

RowLocked(r) == \E q \in Runs \ {r} : run[r].hand \in Changed(q)

\* The flush of the new state waits for the row and overwrites whatever the other
\* tick has committed; a rejected account's proxy is released at once.
Write(r) ==
  /\ ~RowLocked(r)
  /\ \/ /\ run[r].at = "rejecting"
        /\ run' = [run EXCEPT ![r].at = "promote", ![r].hand = NoAccount,
                              ![r].wrote = [@ EXCEPT ![run[r].hand] = "failed"]]
        /\ leased' = leased \ {run[r].hand}
     \/ /\ run[r].at = "promoting"
        /\ run' = [run EXCEPT ![r].at = "promote", ![r].hand = NoAccount,
                              ![r].wrote = [@ EXCEPT ![run[r].hand] = "promoted"]]
        /\ UNCHANGED leased
  /\ UNCHANGED <<now, database, registered, raced, undone, faults>>

-----------------------------------------------------------------------------
Tick(r) ==
  \/ StartToBuy(r) \/ StartToPromote(r)
  \/ NoNumber(r) \/ BuyFails(r) \/ Buy(r)
  \/ Register(r) \/ CodeTimeout(r) \/ RegisterRejected(r)
  \/ \E a \in Accounts : Reject(r, a) \/ Admit(r, a) \/ JudgementFails(r, a)
  \/ InsertPoolRow(r) \/ InsertFails(r) \/ Write(r) \/ Commit(r)

Next ==
  \/ Advance
  \/ AddByQr
  \/ \E r \in Runs : Tick(r) \/ Dies(r)

\* Time passes, the beat starts tick after tick, and one that does not die goes on.
Fairness == WF_vars(Advance) /\ \A r \in Runs : WF_vars(Tick(r))

Spec == Init /\ [][Next]_vars /\ Fairness

-----------------------------------------------------------------------------
Settled(a) == \A r \in Runs : run[r].hand # a /\ a \notin Touched(r)
Untroubled(a) == a \notin raced \cup undone

\* What the factory spends, by its books, exceeds the "hard" budget by the price of
\* a proxy at most, and by one account for every other tick under way.
OverspendBounded ==
  spent <= Budget + ProxyPrice + (Cardinality(Runs) - 1) * (Price + ProxyPrice)

\* A proxy is paid for as long as its account is alive and no longer (tasks.py: "so
\* neither cost leaks"), unless two ticks judge the account at once or the tick
\* that had it is rolled back.
ProxyFollowsAccount ==
  \A a \in Accounts : Untroubled(a) /\ Settled(a) =>
    (a \in leased <=> row[a] \in {"probation", "promoted"})

\* The pool holds an account of the factory exactly when its row says promoted,
\* unless two ticks judge it at once; rolled-back ticks do not disturb this.
PoolMatchesRows ==
  \A a \in Accounts : a \notin raced => (a \in pool <=> row[a] = "promoted")

\* What the factory pays for and what the pool holds follow the accounts' rows.
RecordsFollowRows == ProxyFollowsAccount /\ PoolMatchesRows

\* promoted and failed are terminal (factory/constants.py: "Terminal states have NO
\* outgoing transitions"), again unless two ticks judge the account at once.
FinalIsFinal ==
  [][\A a \in Accounts : row[a] \in Final /\ a \notin raced => row'[a] = row[a]]_vars

\* From some point on every tick gets as far as its commit.
TicksCommit ==
  <>[][\A r \in Runs :
         run[r].at # "idle" /\ run'[r].at = "idle"
           => run[r].at = "promote" /\ run[r].todo = {}]_run

\* Then no account stays on probation when its time is over.
ProbationEnds ==
  TicksCommit =>
    \A a \in Accounts :
      row[a] = "probation" /\ until[a] <= MaxTime ~> row[a] \in Final

\* config.py: "Hard USD budget ceiling for provisioning" that "ALWAYS applies".
HardCap == Cardinality(registered) * (Price + ProxyPrice) <= Budget
=============================================================================
