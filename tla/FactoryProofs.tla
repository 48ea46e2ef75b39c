--------------------------- MODULE FactoryProofs ---------------------------
(***************************************************************************)
(* Proofs about Factory, for any prices, budget and number of ticks at     *)
(* once: what the books may exceed the budget by, and, for accounts that   *)
(* no two ticks judge at once, the agreement of rows, pool and proxies.    *)
(***************************************************************************)
EXTENDS Factory, FiniteSetTheorems, TLAPS

-----------------------------------------------------------------------------
(* What a tick carries from place to place.  TypeOK alone is not inductive: *)
(* that a tick about to register has a number in hand rests on it.          *)

Judging == {"rejecting", "inserting", "promoting"}
Buying == {"idle", "buy", "register"}

Carries(r) ==
  /\ run[r].at = "register" <=> run[r].at \in Buying /\ run[r].account \in Accounts
  /\ run[r].at \in Judging <=> run[r].hand \in Accounts
  /\ run[r].at \in {"buy", "register"} \/ run[r].cost # 0 => run[r].paying
  /\ run[r].at = "idle" => ~run[r].paying
  /\ run[r].at \in Buying =>
       /\ run[r].cost = 0
       /\ run[r].todo = {}
       /\ run[r].added = {}
       /\ run[r].wrote = [a \in Accounts |-> "none"]

Typed == TypeOK /\ \A r \in Runs : Carries(r)

\* The idle tick is a tick, and carries nothing.
LEMMA NoRunType == NoRun \in Run /\ NoAccount \notin Accounts
<1>1. [a \in Accounts |-> "none"] \in [Accounts -> Status]
  BY DEF Status
<1> QED
  BY <1>1, FactoryParameters DEF NoRun, Run, Places

\* A set of accounts is finite.
LEMMA SetOfAccounts ==
  ASSUME NEW S, S \subseteq Accounts
  PROVE  Cardinality(S) \in Nat
<1>1. IsFiniteSet(Accounts)
  BY FS_Interval, FactoryParameters DEF Accounts
<1> QED
  BY <1>1, FS_Subset, FS_CardinalityType

\* The accounts that are due are accounts.
LEMMA DueType == \A today : Due(today) \subseteq Accounts
BY DEF Due

\* Starting the promotions is well typed and changes the place and the list only.
LEMMA PromotingType ==
  ASSUME Typed, NEW r \in Runs
  PROVE  /\ Promoting(r) \in Run
         /\ Promoting(r).at = "promote"
         /\ Promoting(r).todo = Due(run[r].today)
         /\ Promoting(r).today = run[r].today
         /\ Promoting(r).paying = run[r].paying
         /\ Promoting(r).account = run[r].account
         /\ Promoting(r).cost = run[r].cost
         /\ Promoting(r).hand = run[r].hand
         /\ Promoting(r).wrote = run[r].wrote
         /\ Promoting(r).added = run[r].added
<1>1. run[r] \in Run
  BY DEF Typed, TypeOK
<1>2. Due(run[r].today) \in SUBSET Accounts
  BY DueType
<1> QED
  BY <1>1, <1>2 DEF Promoting, Run, Places

\* The types hold initially.
LEMMA InitTyped == Init => Typed
<1> SUFFICES ASSUME Init PROVE Typed
  OBVIOUS
<1> USE FactoryParameters, NoRunType DEF Init
<1>1. row \in [Accounts -> Status]
  BY DEF Status
<1>2. TypeOK
  BY <1>1 DEF TypeOK
<1>3. \A r \in Runs : Carries(r)
  BY DEF Carries, NoRun, Judging, Buying
<1> QED
  BY <1>2, <1>3 DEF Typed

\* A tick that ends without a commit leaves the types alone.
LEMMA NoRunTyped ==
  ASSUME Typed, NEW r \in Runs, run' = [run EXCEPT ![r] = NoRun]
  PROVE  run' \in [Runs -> Run] /\ \A q \in Runs : Carries(q)'
<1>1. run' \in [Runs -> Run]
  BY NoRunType DEF Typed, TypeOK
<1>2. \A q \in Runs : run'[q] = IF q = r THEN NoRun ELSE run[q]
  BY DEF Typed, TypeOK
<1>3. \A q \in Runs \ {r} : Carries(q)'
  BY <1>2 DEF Typed, Carries
<1>4. Carries(r)'
  BY <1>2, NoRunType DEF Carries, NoRun, Judging, Buying
<1> QED
  BY <1>1, <1>3, <1>4

\* So does a rollback.
LEMMA RollbackTyped ==
  ASSUME Typed, NEW r \in Runs, Rollback(r), leased' = leased,
         raced' = raced, faults' \in 0..MaxFaults
  PROVE  Typed'
<1>1. run' \in [Runs -> Run] /\ \A q \in Runs : Carries(q)'
  BY NoRunTyped DEF Rollback
<1>2. undone' \subseteq Accounts
  BY DEF Rollback, Touched, Changed, Typed, TypeOK
<1> QED
  BY <1>1, <1>2 DEF Rollback, database, Typed, TypeOK

\* Every step of a tick preserves the types and what ticks carry.
LEMMA TickTyped == ASSUME Typed, NEW r \in Runs, Tick(r) PROVE Typed'
<1> USE FactoryParameters, NoRunType DEF database
<1>0. run \in [Runs -> Run] /\ run[r] \in Run /\ Carries(r)
  BY DEF Typed, TypeOK
<1>1. CASE StartToBuy(r)
  <2> DEFINE new == [NoRun EXCEPT !.at = "buy", !.today = now, !.paying = TRUE]
  <2>1. new \in Run
    BY DEF Typed, TypeOK, NoRun, Run, Places
  <2>2. run' = [run EXCEPT ![r] = new]
    BY <1>1 DEF StartToBuy
  <2>3. Carries(r)'
    BY <2>2, <1>0 DEF Carries, NoRun, Judging, Buying
  <2>4. \A q \in Runs \ {r} : Carries(q)'
    BY <2>2, <1>0 DEF Typed, Carries
  <2> QED
    BY <1>1, <2>1, <2>2, <2>3, <2>4 DEF StartToBuy, Typed, TypeOK
<1>2. CASE StartToPromote(r)
  <2> DEFINE new == [NoRun EXCEPT !.at = "promote", !.today = now, !.todo = Due(now)]
  <2>1. new \in Run
    BY DueType DEF Typed, TypeOK, NoRun, Run, Places
  <2>2. run' = [run EXCEPT ![r] = new]
    BY <1>2 DEF StartToPromote
  <2>3. Carries(r)'
    BY <2>2, <1>0 DEF Carries, NoRun, Judging, Buying
  <2>4. \A q \in Runs \ {r} : Carries(q)'
    BY <2>2, <1>0 DEF Typed, Carries
  <2> QED
    BY <1>2, <2>1, <2>2, <2>3, <2>4 DEF StartToPromote, Typed, TypeOK
<1>3. CASE NoNumber(r)
  <2>1. run' = [run EXCEPT ![r] = Promoting(r)]
    BY <1>3 DEF NoNumber
  <2>2. Carries(r)'
    BY <1>0, <1>3, <2>1, PromotingType DEF NoNumber, Carries, Judging, Buying
  <2>3. \A q \in Runs \ {r} : Carries(q)'
    BY <2>1, <1>0 DEF Typed, Carries
  <2> QED
    BY <1>3, <2>1, <2>2, <2>3, PromotingType DEF NoNumber, Typed, TypeOK
<1>4. CASE BuyFails(r)
  BY <1>4, RollbackTyped DEF BuyFails, Typed, TypeOK
<1>5. CASE Buy(r)
  <2>1. PICK a \in Accounts :
          /\ run' = [run EXCEPT ![r].at = "register", ![r].account = a]
          /\ leased' = leased \cup {a}
    BY <1>5 DEF Buy
  <2>2. run' \in [Runs -> Run]
    BY <2>1, <1>0 DEF Run, Places
  <2>3. Carries(r)'
    BY <1>0, <1>5, <2>1 DEF Buy, Carries, Judging, Buying, Run
  <2>4. \A q \in Runs \ {r} : Carries(q)'
    BY <2>1, <1>0 DEF Typed, Carries
  <2> QED
    BY <1>5, <2>1, <2>2, <2>3, <2>4 DEF Buy, Typed, TypeOK
<1>6. ASSUME NEW status \in Status, NEW cost \in {Price, Price + ProxyPrice},
             run[r].at = "register", Record(r, status, cost)
      PROVE  run' \in [Runs -> Run] /\ \A q \in Runs : Carries(q)'
  <2> DEFINE new == [Promoting(r) EXCEPT !.cost = cost,
                                         !.wrote = [@ EXCEPT ![run[r].account] = status]]
  <2>1. run' = [run EXCEPT ![r] = new]
    BY <1>6 DEF Record
  <2>2. [Promoting(r).wrote EXCEPT ![run[r].account] = status] \in [Accounts -> Status]
    BY PromotingType DEF Run
  <2>3. new \in Run
    <3>1. Promoting(r) \in Run
      BY PromotingType
    <3>2. cost \in {0, Price, Price + ProxyPrice}
      OBVIOUS
    <3> QED
      BY <3>1, <3>2, <2>2 DEF Run
  <2>4. Carries(r)'
    BY <1>0, <1>6, <2>1, PromotingType DEF Carries, Judging, Buying, Run
  <2>5. \A q \in Runs \ {r} : Carries(q)'
    BY <2>1, <1>0 DEF Typed, Carries
  <2> QED
    BY <1>0, <2>1, <2>3, <2>4, <2>5
<1>7. CASE Register(r)
  <2>1. run[r].account \in Accounts
    BY <1>0, <1>7 DEF Register, Carries
  <2> QED
    BY <1>6, <1>7, <2>1 DEF Register, Typed, TypeOK, Status
<1>8. CASE CodeTimeout(r)
  BY <1>6, <1>8 DEF CodeTimeout, Typed, TypeOK, Status
<1>9. CASE RegisterRejected(r)
  BY <1>9, NoRunTyped DEF RegisterRejected, Typed, TypeOK
<1>10. ASSUME NEW a \in Accounts, NEW place \in {"rejecting", "inserting"}, TakeUp(r, a, place)
       PROVE  Typed'
  <2>0. (a \in pool) \in BOOLEAN
    OBVIOUS
  <2>1. PICK known \in BOOLEAN :
          run' = [run EXCEPT ![r].at = place, ![r].todo = @ \ {a}, ![r].hand = a,
                             ![r].known = known]
    BY <1>10, <2>0, Zenon DEF TakeUp
  <2> DEFINE new == [run[r] EXCEPT !.at = place, !.todo = @ \ {a}, !.hand = a, !.known = known]
  <2>2. run' \in [Runs -> Run]
    <3>1. run' = [run EXCEPT ![r] = new]
      BY <2>1
    <3>2. place \in Places /\ run[r].todo \ {a} \in SUBSET Accounts
      BY <1>0 DEF Places, Run
    <3>3. new \in Run
      BY <1>0, <3>2 DEF Run
    <3> QED
      BY <3>1, <3>3, <1>0
  <2>3. Carries(r)'
    BY <1>0, <1>10, <2>1 DEF TakeUp, Carries, Judging, Buying, Run
  <2>4. \A q \in Runs \ {r} : Carries(q)'
    BY <2>1, <1>0 DEF Typed, Carries
  <2> QED
    BY <1>10, <2>2, <2>3, <2>4 DEF TakeUp, Typed, TypeOK
<1>11. ASSUME NEW a \in Accounts, Reject(r, a) PROVE Typed'
  BY <1>10, <1>11 DEF Reject
<1>12. ASSUME NEW a \in Accounts, Admit(r, a) PROVE Typed'
  BY <1>10, <1>12 DEF Admit
<1>13. ASSUME NEW a \in Accounts, JudgementFails(r, a) PROVE Typed'
  BY <1>13, RollbackTyped DEF JudgementFails, Typed, TypeOK
<1>14. CASE InsertPoolRow(r)
  <2>1. run' = [run EXCEPT ![r].at = "promoting", ![r].added = @ \cup {run[r].hand}]
    BY <1>14 DEF InsertPoolRow
  <2>2. run[r].hand \in Accounts
    BY <1>0, <1>14 DEF InsertPoolRow, Carries, Judging
  <2>3. run' \in [Runs -> Run]
    BY <2>1, <2>2, <1>0 DEF Run, Places
  <2>4. Carries(r)'
    BY <1>0, <1>14, <2>1, <2>2 DEF InsertPoolRow, Carries, Judging, Buying, Run
  <2>5. \A q \in Runs \ {r} : Carries(q)'
    BY <2>1, <1>0 DEF Typed, Carries
  <2> QED
    BY <1>14, <2>3, <2>4, <2>5 DEF InsertPoolRow, Typed, TypeOK
<1>15. CASE InsertFails(r)
  BY <1>15, RollbackTyped DEF InsertFails, Typed, TypeOK
<1>16. CASE Write(r)
  <2>1. PICK status \in {"failed", "promoted"} :
          run' = [run EXCEPT ![r].at = "promote", ![r].hand = NoAccount,
                             ![r].wrote = [@ EXCEPT ![run[r].hand] = status]]
    BY <1>16 DEF Write
  <2>2. [run[r].wrote EXCEPT ![run[r].hand] = status] \in [Accounts -> Status]
    BY <1>0 DEF Run, Status
  <2>3. run' \in [Runs -> Run]
    BY <2>1, <2>2, <1>0 DEF Run, Places
  <2>4. Carries(r)'
    BY <1>0, <1>16, <2>1 DEF Write, Carries, Judging, Buying, Run
  <2>5. \A q \in Runs \ {r} : Carries(q)'
    BY <2>1, <1>0 DEF Typed, Carries
  <2>6. leased' \subseteq Accounts
    BY <1>16 DEF Write, Typed, TypeOK
  <2> QED
    BY <1>16, <2>3, <2>4, <2>5, <2>6 DEF Write, Typed, TypeOK
<1>17. CASE Commit(r)
  <2>1. run' = [run EXCEPT ![r] = NoRun]
    BY <1>17 DEF Commit
  <2>2. row' \in [Accounts -> Status] /\ pool' \subseteq Accounts
    BY <1>0, <1>17 DEF Commit, Changed, Typed, TypeOK, Run
  <2>3. spent' \in Nat
    BY <1>0, <1>17 DEF Commit, Typed, TypeOK, Run
  <2>4. until' \in [Accounts -> 0..(MaxTime + Probation)]
    <3>1. run[r].today \in 0..MaxTime
      BY <1>0 DEF Run
    <3>2. run[r].today + Probation \in 0..(MaxTime + Probation)
      BY <3>1
    <3> QED
      BY <1>17, <3>2 DEF Commit, Typed, TypeOK
  <2> QED
    BY <1>17, <2>1, <2>2, <2>3, <2>4, NoRunTyped DEF Commit, Typed, TypeOK
<1> QED
  BY <1>1, <1>2, <1>3, <1>4, <1>5, <1>7, <1>8, <1>9, <1>11, <1>12, <1>13, <1>14,
     <1>15, <1>16, <1>17 DEF Tick

\* Every step preserves the types.
LEMMA TypedStep == Typed /\ [Next]_vars => Typed'
<1> SUFFICES ASSUME Typed, [Next]_vars PROVE Typed'
  OBVIOUS
<1> USE FactoryParameters DEF database
<1>1. CASE Advance
  BY <1>1 DEF Advance, Typed, TypeOK, Carries
<1>2. CASE AddByQr
  <2>1. Cardinality(pool) \in Nat
    BY SetOfAccounts DEF Typed, TypeOK
  <2> QED
    BY <1>2, <2>1 DEF AddByQr, Typed, TypeOK, Carries
<1>3. ASSUME NEW r \in Runs, Dies(r) PROVE Typed'
  <2>1. faults' \in 0..MaxFaults
    BY <1>3 DEF Dies, Typed, TypeOK
  <2> QED
    BY <1>3, <2>1, RollbackTyped DEF Dies
<1>4. CASE UNCHANGED vars
  BY <1>4 DEF vars, Typed, TypeOK, Carries
<1> QED
  BY <1>1, <1>2, <1>3, <1>4, TickTyped DEF Next

\* The factory's state stays within its types.
THEOREM TypeCorrect == Spec => []TypeOK
<1>1. Typed => TypeOK
  BY DEF Typed
<1> QED
  BY <1>1, InitTyped, TypedStep, PTL DEF Spec
-----------------------------------------------------------------------------
(* The budget *)

Payers == {r \in Runs : run[r].paying}
PerAccount == Price + ProxyPrice

\* What is spent and what the ticks under way may still spend.
Covered ==
  spent + Cardinality(Payers) * PerAccount
    <= Budget + ProxyPrice + (Cardinality(Runs) - 1) * PerAccount

\* The ticks that pay are finitely many, and arithmetic of the price.
LEMMA PayersType ==
  /\ IsFiniteSet(Payers)
  /\ Cardinality(Payers) \in Nat
  /\ Cardinality(Runs) \in Nat
  /\ Cardinality(Payers) <= Cardinality(Runs)
<1>1. Payers \in SUBSET Runs
  BY DEF Payers
<1> QED
  BY <1>1, FS_Subset, FS_CardinalityType, FactoryParameters

LEMMA PriceProduct ==
  /\ PerAccount \in Nat
  /\ \A n \in Int : n * PerAccount \in Int /\ (n + 1) * PerAccount = n * PerAccount + PerAccount
  /\ \A m, n \in Int : m <= n => m * PerAccount <= n * PerAccount
<1>1. PerAccount \in Nat
  BY FactoryParameters DEF PerAccount
<1> HIDE DEF PerAccount
<1>2. \A n \in Int : n * PerAccount \in Int /\ (n + 1) * PerAccount = n * PerAccount + PerAccount
  BY <1>1
<1>3. ASSUME NEW m \in Int, NEW n \in Int, m <= n PROVE m * PerAccount <= n * PerAccount
  <2>1. n - m \in Nat
    BY <1>3
  <2>2. n * PerAccount = m * PerAccount + (n - m) * PerAccount
    BY <1>1, <2>1
  <2>3. (n - m) * PerAccount \in Nat
    BY <1>1, <2>1
  <2> QED
    BY <1>1, <2>2, <2>3
<1> QED
  BY <1>1, <1>2, <1>3

\* Nothing is covered that was not: what remains when ticks stop paying.
LEMMA FewerPay ==
  ASSUME Typed, Covered, spent' = spent, Payers' \subseteq Payers
  PROVE  Covered'
<1>1. /\ Cardinality(Payers') \in Nat
      /\ Cardinality(Payers') <= Cardinality(Payers)
  <2>1. Payers' \in SUBSET Payers
    OBVIOUS
  <2> QED
    BY <2>1, PayersType, FS_Subset, FS_CardinalityType
<1> DEFINE old == Cardinality(Payers) * PerAccount
           new == Cardinality(Payers') * PerAccount
           top == Budget + ProxyPrice + (Cardinality(Runs) - 1) * PerAccount
<1>2. new <= old /\ new \in Int /\ old \in Int
  BY <1>1, PayersType, PriceProduct
<1>3. spent \in Int /\ top \in Int
  <2>1. (Cardinality(Runs) - 1) * PerAccount \in Int
    BY PayersType, PriceProduct
  <2> QED
    BY <2>1, FactoryParameters DEF Typed, TypeOK
<1>4. spent + old <= top
  BY DEF Covered
<1>5. spent' + new <= top
  <2> HIDE DEF old, new, top
  <2> QED
    BY <1>2, <1>3, <1>4
<1> QED
  BY <1>5 DEF Covered, PerAccount

\* A tick that begins to buy adds one payer; the check of the budget covers it.
LEMMA StartCovered == ASSUME Typed, Covered, NEW r \in Runs, StartToBuy(r) PROVE Covered'
<1>1. Payers' = Payers \cup {r}
  BY DEF StartToBuy, Payers, Typed, TypeOK, NoRun
<1>2. r \notin Payers
  BY DEF StartToBuy, Payers, Typed, Carries
<1>3. Cardinality(Payers') = Cardinality(Payers) + 1
  BY <1>1, <1>2, PayersType, FS_AddElement
<1>4. Cardinality(Payers) + 1 <= Cardinality(Runs)
  <2>1. Payers \cup {r} \in SUBSET Runs
    BY DEF Payers
  <2> QED
    BY <2>1, <1>1, <1>3, FS_Subset, FactoryParameters
<1> DEFINE n == Cardinality(Payers)
           m == Cardinality(Runs)
<1>5. n \in Nat /\ m \in Nat
  BY PayersType
<1>6. n * PerAccount <= (m - 1) * PerAccount
  BY <1>4, <1>5, PriceProduct
<1>7. (n + 1) * PerAccount = n * PerAccount + PerAccount
  BY <1>5, PriceProduct
<1>8. spent + Price <= Budget /\ spent \in Nat /\ spent' = spent
  BY DEF StartToBuy, CanAfford, database, Typed, TypeOK
<1>9. n * PerAccount \in Int /\ (m - 1) * PerAccount \in Int
  BY <1>5, PriceProduct
<1>10. spent' + (n + 1) * PerAccount <= Budget + ProxyPrice + (m - 1) * PerAccount
  <2> DEFINE x == n * PerAccount
             y == (m - 1) * PerAccount
  <2>1. x <= y /\ x \in Int /\ y \in Int /\ (n + 1) * PerAccount = x + (Price + ProxyPrice)
    BY <1>6, <1>7, <1>9 DEF PerAccount
  <2> HIDE DEF x
  <2>2. spent + (x + (Price + ProxyPrice)) <= Budget + ProxyPrice + y
    <3> HIDE DEF y
    <3> QED
      BY <1>8, <2>1, FactoryParameters
  <2> QED
    BY <1>8, <2>1, <2>2
<1> QED
  BY <1>3, <1>10 DEF Covered, PerAccount

\* A commit spends what its tick was covered for.
LEMMA CommitCovered == ASSUME Typed, Covered, NEW r \in Runs, Commit(r) PROVE Covered'
<1>1. run' = [run EXCEPT ![r] = NoRun] /\ spent' = spent + run[r].cost
  BY DEF Commit
<1>2. Payers' = Payers \ {r}
  BY <1>1 DEF Payers, Typed, TypeOK, NoRun
<1>3. CASE run[r].paying
  <2> DEFINE n == Cardinality(Payers)
             top == Budget + ProxyPrice + (Cardinality(Runs) - 1) * PerAccount
  <2>1. Cardinality(Payers') = n - 1
    BY <1>2, <1>3, PayersType, FS_RemoveElement DEF Payers
  <2>2. n \in Nat /\ n - 1 \in Int
    BY PayersType
  <2>3. n * PerAccount = (n - 1) * PerAccount + PerAccount
    <3>1. n = (n - 1) + 1
      BY <2>2
    <3> QED
      BY <2>2, <3>1, PriceProduct
  <2>4. run[r].cost \in Nat /\ run[r].cost <= PerAccount
    BY FactoryParameters DEF Typed, TypeOK, Run, PerAccount
  <2>5. (n - 1) * PerAccount \in Int /\ PerAccount \in Nat /\ spent \in Nat
    BY <2>2, PriceProduct DEF Typed, TypeOK
  <2>6. top \in Int /\ spent + n * PerAccount <= top
    <3>1. (Cardinality(Runs) - 1) * PerAccount \in Int
      BY PayersType, PriceProduct
    <3> QED
      BY <3>1, FactoryParameters DEF Covered
  <2>7. spent' + (n - 1) * PerAccount <= top
    <3> DEFINE x == (n - 1) * PerAccount
    <3>1. spent + (x + PerAccount) <= top /\ x \in Int
      BY <2>3, <2>5, <2>6
    <3> HIDE DEF x, top, PerAccount
    <3>2. spent' + x <= top
      BY <1>1, <2>4, <2>5, <2>6, <3>1
    <3> QED
      BY <3>2 DEF x
  <2> QED
    BY <2>1, <2>7 DEF Covered, PerAccount
<1>4. CASE ~run[r].paying
  <2>1. run[r].cost = 0
    BY <1>4 DEF Typed, Carries
  <2>2. spent' = spent
    BY <1>1, <2>1 DEF Typed, TypeOK
  <2> QED
    BY <1>2, <2>2, FewerPay
<1> QED
  BY <1>3, <1>4

\* Every step keeps the expenses covered.
LEMMA CoveredStep == Typed /\ Covered /\ [Next]_vars => Covered'
<1> SUFFICES ASSUME Typed, Covered, [Next]_vars PROVE Covered'
  OBVIOUS
<1> USE DEF database
<1>0. run \in [Runs -> Run]
  BY DEF Typed, TypeOK
<1>1. CASE run' = run /\ spent' = spent
  BY <1>1, FewerPay DEF Payers
<1>2. ASSUME NEW r \in Runs, run' = [run EXCEPT ![r] = NoRun], spent' = spent
      PROVE  Covered'
  BY <1>0, <1>2, FewerPay DEF Payers, NoRun
<1>3. ASSUME NEW r \in Runs, NEW new, run' = [run EXCEPT ![r] = new],
             new.paying = run[r].paying, spent' = spent
      PROVE  Covered'
  BY <1>0, <1>3, FewerPay DEF Payers
<1>4. ASSUME NEW r \in Runs, Tick(r) PROVE Covered'
  <2>1. CASE StartToPromote(r)
    <3>1. run' = [run EXCEPT ![r] =
            [NoRun EXCEPT !.at = "promote", !.today = now, !.todo = Due(now)]]
      BY <2>1 DEF StartToPromote
    <3>2. Payers' \subseteq Payers
      BY <1>0, <3>1 DEF Payers, NoRun
    <3> QED
      BY <2>1, <3>2, FewerPay DEF StartToPromote
  <2>2. CASE NoNumber(r)
    BY <1>3, <2>2, PromotingType DEF NoNumber
  <2>3. CASE BuyFails(r)
    BY <1>2, <2>3 DEF BuyFails, Rollback
  <2>4. CASE Buy(r)
    <3>1. PICK a \in Accounts :
            run' = [run EXCEPT ![r].at = "register", ![r].account = a]
      BY <2>4 DEF Buy
    <3>2. Payers' \subseteq Payers
      BY <1>0, <3>1 DEF Payers, Run
    <3> QED
      BY <2>4, <3>2, FewerPay DEF Buy
  <2>5. ASSUME NEW status, NEW cost, Record(r, status, cost), spent' = spent PROVE Covered'
    <3>1. Promoting(r) \in Run /\ Promoting(r).paying = run[r].paying
      BY PromotingType
    <3>2. Payers' \subseteq Payers
      BY <1>0, <2>5, <3>1 DEF Record, Payers, Run
    <3> QED
      BY <2>5, <3>2, FewerPay
  <2>6. CASE Register(r)
    BY <2>5, <2>6 DEF Register
  <2>7. CASE CodeTimeout(r)
    BY <2>5, <2>7 DEF CodeTimeout
  <2>8. CASE RegisterRejected(r)
    BY <1>2, <2>8 DEF RegisterRejected
  <2>9. ASSUME NEW a \in Accounts, NEW place, TakeUp(r, a, place) PROVE Covered'
    <3>1. Payers' \subseteq Payers
      BY <1>0, <2>9 DEF TakeUp, Payers, Run
    <3> QED
      BY <2>9, <3>1, FewerPay DEF TakeUp
  <2>10. ASSUME NEW a \in Accounts, Reject(r, a) \/ Admit(r, a) PROVE Covered'
    BY <2>9, <2>10 DEF Reject, Admit
  <2>11. ASSUME NEW a \in Accounts, JudgementFails(r, a) PROVE Covered'
    BY <1>2, <2>11 DEF JudgementFails, Rollback
  <2>12. CASE InsertPoolRow(r)
    <3>1. Payers' \subseteq Payers
      BY <1>0, <2>12 DEF InsertPoolRow, Payers, Run
    <3> QED
      BY <2>12, <3>1, FewerPay DEF InsertPoolRow
  <2>13. CASE InsertFails(r)
    BY <1>2, <2>13 DEF InsertFails, Rollback
  <2>14. CASE Write(r)
    <3>1. PICK status \in {"failed", "promoted"} :
            run' = [run EXCEPT ![r].at = "promote", ![r].hand = NoAccount,
                               ![r].wrote = [@ EXCEPT ![run[r].hand] = status]]
      BY <2>14 DEF Write
    <3>2. Payers' \subseteq Payers
      BY <1>0, <3>1 DEF Payers, Run
    <3> QED
      BY <2>14, <3>2, FewerPay DEF Write
  <2> QED
    BY <1>4, <2>1, <2>2, <2>3, <2>4, <2>6, <2>7, <2>8, <2>10, <2>11, <2>12, <2>13, <2>14,
       StartCovered, CommitCovered DEF Tick
<1>5. ASSUME NEW r \in Runs, Dies(r) PROVE Covered'
  BY <1>2, <1>5 DEF Dies, Rollback
<1> QED
  BY <1>1, <1>4, <1>5 DEF Next, Advance, AddByQr, vars

\* The books exceed the budget by one proxy, and by one account for every other
\* tick under way, at most.
THEOREM BudgetHeld == Spec => []OverspendBounded
<1>1. Init => Covered
  <2> SUFFICES ASSUME Init PROVE Covered
    OBVIOUS
  <2>1. Payers = {}
    BY DEF Init, Payers, NoRun
  <2>2. Cardinality(Payers) = 0 /\ spent = 0
    BY <2>1, FS_EmptySet DEF Init
  <2>3. 1 <= Cardinality(Runs)
    BY PayersType, FS_EmptySet, FactoryParameters
  <2>4. 0 <= (Cardinality(Runs) - 1) * PerAccount /\ (Cardinality(Runs) - 1) * PerAccount \in Int
    BY <2>3, PayersType, PriceProduct
  <2>5. Cardinality(Payers) * PerAccount = 0
    BY <2>2, PriceProduct
  <2> QED
    BY <2>2, <2>4, <2>5, FactoryParameters DEF Covered
<1>2. Typed /\ Covered => OverspendBounded
  <2> SUFFICES ASSUME Typed, Covered PROVE OverspendBounded
    OBVIOUS
  <2> DEFINE x == Cardinality(Payers) * PerAccount
             top == Budget + ProxyPrice + (Cardinality(Runs) - 1) * PerAccount
  <2>1. 0 <= x /\ x \in Int
    BY PayersType, PriceProduct
  <2>2. top \in Int /\ spent \in Int /\ spent + x <= top
    <3>1. (Cardinality(Runs) - 1) * PerAccount \in Int
      BY PayersType, PriceProduct
    <3> QED
      BY <3>1, FactoryParameters DEF Covered, Typed, TypeOK
  <2>3. spent <= top
    <3> HIDE DEF x, top
    <3> QED
      BY <2>1, <2>2
  <2> QED
    BY <2>3 DEF OverspendBounded, PerAccount
<1> QED
  BY <1>1, <1>2, InitTyped, TypedStep, CoveredStep, PTL DEF Spec
-----------------------------------------------------------------------------
(* The steps, by what they do to rows, pool, proxies and the tick's hands *)

OthersStay(r) == \A q \in Runs \ {r} : run'[q] = run[q]
EmptyHanded(tick) ==
  /\ tick.account = NoAccount
  /\ tick.hand = NoAccount
  /\ tick.added = {}
  /\ tick.wrote = [a \in Accounts |-> "none"]

Begins(r) ==
  /\ OthersStay(r)
  /\ Touched(r) = {}
  /\ EmptyHanded(run'[r])
  /\ run'[r].at \in {"buy", "promote"}
  /\ run'[r].todo \subseteq {a \in Accounts : row[a] = "probation"}
  /\ UNCHANGED <<row, pool, leased, raced, undone>>

Abandons(r) ==
  /\ OthersStay(r)
  /\ EmptyHanded(run'[r])
  /\ run'[r].at = "idle"
  /\ run'[r].todo = {}
  /\ undone' = undone \cup Touched(r)
  /\ UNCHANGED <<row, pool, leased, raced>>

Buys(r, a) ==
  /\ OthersStay(r)
  /\ Fresh(a)
  /\ EmptyHanded(run[r])
  /\ run'[r].at = "register"
  /\ run'[r].account = a
  /\ run'[r].hand = NoAccount
  /\ run'[r].added = {}
  /\ run'[r].todo = {}
  /\ run'[r].wrote = run[r].wrote
  /\ leased' = leased \cup {a}
  /\ UNCHANGED <<row, pool, raced, undone>>

Records(r, status) ==
  /\ OthersStay(r)
  /\ run[r].at = "register"
  /\ run[r].account \in Accounts
  /\ run[r].hand = NoAccount
  /\ run[r].wrote = [a \in Accounts |-> "none"]
  /\ run'[r].at = "promote"
  /\ run'[r].account = run[r].account
  /\ run'[r].hand = NoAccount
  /\ run'[r].added = {}
  /\ run'[r].todo \subseteq {a \in Accounts : row[a] = "probation"}
  /\ run'[r].wrote = [a \in Accounts |-> IF a = run[r].account THEN status ELSE "none"]
  /\ \/ status = "probation" /\ leased' = leased
     \/ status = "failed" /\ leased' = leased \ {run[r].account}
  /\ UNCHANGED <<row, pool, raced, undone>>

Loses(r) ==
  /\ OthersStay(r)
  /\ run[r].account \in Accounts
  /\ run[r].wrote = [a \in Accounts |-> "none"]
  /\ EmptyHanded(run'[r])
  /\ run'[r].at = "idle"
  /\ run'[r].todo = {}
  /\ leased' = leased \ {run[r].account}
  /\ UNCHANGED <<row, pool, raced, undone>>

Takes(r, a) ==
  /\ OthersStay(r)
  /\ run[r].at = "promote"
  /\ run[r].hand = NoAccount
  /\ a \in run[r].todo
  /\ \/ run'[r].at = "rejecting" /\ row[a] = "probation"
     \/ run'[r].at = "inserting"
  /\ run'[r].account = run[r].account
  /\ run'[r].hand = a
  /\ run'[r].todo = run[r].todo \ {a}
  /\ run'[r].added = run[r].added
  /\ run'[r].wrote = run[r].wrote
  /\ raced' = IF \E q \in Runs \ {r} : run[q].hand = a \/ a \in Changed(q)
              THEN raced \cup {a} ELSE raced
  /\ UNCHANGED <<row, pool, leased, undone>>

Inserts(r) ==
  /\ OthersStay(r)
  /\ run[r].at = "inserting"
  /\ run[r].hand \in Accounts
  /\ row[run[r].hand] = "probation"
  /\ run'[r].at = "promoting"
  /\ run'[r].account = run[r].account
  /\ run'[r].hand = run[r].hand
  /\ run'[r].todo = run[r].todo
  /\ run'[r].added = run[r].added \cup {run[r].hand}
  /\ run'[r].wrote = run[r].wrote
  /\ UNCHANGED <<row, pool, leased, raced, undone>>

Writes(r, status) ==
  /\ OthersStay(r)
  /\ run[r].hand \in Accounts
  /\ run'[r].at = "promote"
  /\ run'[r].account = run[r].account
  /\ run'[r].hand = NoAccount
  /\ run'[r].todo = run[r].todo
  /\ run'[r].added = run[r].added
  /\ run'[r].wrote =
       [a \in Accounts |-> IF a = run[r].hand THEN status ELSE run[r].wrote[a]]
  /\ \/ run[r].at = "rejecting" /\ status = "failed" /\ leased' = leased \ {run[r].hand}
     \/ run[r].at = "promoting" /\ status = "promoted" /\ leased' = leased
  /\ UNCHANGED <<row, pool, raced, undone>>

Commits(r) ==
  /\ OthersStay(r)
  /\ run[r].at = "promote"
  /\ run[r].hand = NoAccount
  /\ EmptyHanded(run'[r])
  /\ run'[r].at = "idle"
  /\ run'[r].todo = {}
  /\ row' = [a \in Accounts |-> IF a \in Changed(r) THEN run[r].wrote[a] ELSE row[a]]
  /\ pool' = pool \cup run[r].added
  /\ UNCHANGED <<leased, raced, undone>>

Effect(r) ==
  \/ Begins(r) \/ Abandons(r) \/ Loses(r) \/ Inserts(r) \/ Commits(r)
  \/ \E a \in Accounts : Buys(r, a) \/ Takes(r, a)
  \/ \E status \in Status : Records(r, status) \/ Writes(r, status)

\* A tick that ends without a commit, by whatever way, abandons.
LEMMA RollbackAbandons ==
  ASSUME Typed, NEW r \in Runs, Rollback(r), leased' = leased, raced' = raced
  PROVE  Abandons(r)
BY DEF Rollback, Abandons, OthersStay, EmptyHanded, NoRun, database, Typed, TypeOK

\* Every step of a tick is one of these.
LEMMA TickEffect == ASSUME Typed, NEW r \in Runs, Tick(r) PROVE Effect(r)
<1> USE NoRunType DEF database
<1>0. run \in [Runs -> Run] /\ run[r] \in Run /\ Carries(r)
  BY DEF Typed, TypeOK
<1>00. /\ run[r].hand \notin Accounts => run[r].hand = NoAccount
       /\ run[r].account \notin Accounts => run[r].account = NoAccount
  BY <1>0 DEF Run
<1>1. CASE StartToBuy(r)
  <2>1. Begins(r)
    BY <1>0, <1>00, <1>1
    DEF StartToBuy, Begins, OthersStay, EmptyHanded, Touched, Changed, Carries, Buying, Judging, NoRun
  <2> QED
    BY <2>1 DEF Effect
<1>2. CASE StartToPromote(r)
  <2>1. Begins(r)
    BY <1>0, <1>00, <1>2
    DEF StartToPromote, Begins, OthersStay, EmptyHanded, Touched, Changed, Carries, Buying,
        Judging, NoRun, Due
  <2> QED
    BY <2>1 DEF Effect
<1>3. CASE NoNumber(r)
  <2>1. Begins(r)
    BY <1>0, <1>00, <1>3, PromotingType
    DEF NoNumber, Begins, OthersStay, EmptyHanded, Touched, Changed, Carries, Buying, Judging, Due
  <2> QED
    BY <2>1 DEF Effect
<1>4. CASE BuyFails(r)
  BY <1>4, RollbackAbandons DEF BuyFails, Effect
<1>5. CASE Buy(r)
  <2>1. PICK a \in Accounts :
          /\ Fresh(a)
          /\ run' = [run EXCEPT ![r].at = "register", ![r].account = a]
          /\ leased' = leased \cup {a}
    BY <1>5 DEF Buy
  <2>2. EmptyHanded(run[r]) /\ run[r].todo = {}
    BY <1>0, <1>00, <1>5 DEF Buy, EmptyHanded, Carries, Buying, Judging
  <2>3. Buys(r, a)
    BY <1>0, <1>5, <2>1, <2>2 DEF Buy, Buys, OthersStay, EmptyHanded, Run
  <2> QED
    BY <2>3 DEF Effect
<1>6. ASSUME NEW status \in Status, NEW cost, run[r].at = "register", Record(r, status, cost),
             \/ status = "probation" /\ leased' = leased
             \/ status = "failed" /\ leased' = leased \ {run[r].account},
             UNCHANGED <<row, pool, raced, undone>>
      PROVE  Effect(r)
  <2>1. /\ run[r].account \in Accounts
        /\ run[r].hand = NoAccount
        /\ run[r].added = {}
        /\ run[r].wrote = [a \in Accounts |-> "none"]
    BY <1>0, <1>00, <1>6 DEF Carries, Buying, Judging
  <2>2. /\ run'[r].at = "promote"
        /\ run'[r].account = run[r].account
        /\ run'[r].hand = NoAccount
        /\ run'[r].added = {}
        /\ run'[r].todo = Due(run[r].today)
        /\ run'[r].wrote = [run[r].wrote EXCEPT ![run[r].account] = status]
        /\ OthersStay(r)
    <3> DEFINE new == [Promoting(r) EXCEPT !.cost = cost,
                         !.wrote = [@ EXCEPT ![run[r].account] = status]]
    <3>1. run'[r] = new /\ OthersStay(r)
      BY <1>0, <1>6 DEF Record, OthersStay
    <3>2. /\ Promoting(r) \in Run
          /\ Promoting(r).at = "promote"
          /\ Promoting(r).account = run[r].account
          /\ Promoting(r).hand = NoAccount
          /\ Promoting(r).added = {}
          /\ Promoting(r).todo = Due(run[r].today)
          /\ Promoting(r).wrote = run[r].wrote
      BY <2>1, PromotingType
    <3>3. /\ new.at = Promoting(r).at
          /\ new.account = Promoting(r).account
          /\ new.hand = Promoting(r).hand
          /\ new.added = Promoting(r).added
          /\ new.todo = Promoting(r).todo
          /\ new.wrote = [Promoting(r).wrote EXCEPT ![run[r].account] = status]
      BY <3>2 DEF Run
    <3> QED
      BY <3>1, <3>2, <3>3
  <2>3. Records(r, status)
    BY <1>6, <2>1, <2>2 DEF Records, Due
  <2> QED
    BY <2>3 DEF Effect
<1>7. CASE Register(r)
  BY <1>6, <1>7 DEF Register, Status
<1>8. CASE CodeTimeout(r)
  BY <1>6, <1>8 DEF CodeTimeout, Status
<1>9. CASE RegisterRejected(r)
  <2>1. Loses(r)
    BY <1>0, <1>00, <1>9
    DEF RegisterRejected, Loses, OthersStay, EmptyHanded, Carries, Buying, Judging, NoRun
  <2> QED
    BY <2>1 DEF Effect
<1>10. ASSUME NEW a \in Accounts, NEW place, TakeUp(r, a, place),
              \/ place = "rejecting" /\ row[a] = "probation"
              \/ place = "inserting"
       PROVE  Effect(r)
  <2>1. run[r].hand = NoAccount
    BY <1>0, <1>00, <1>10 DEF TakeUp, Carries, Judging
  <2>2. /\ run'[r].at = place
        /\ run'[r].account = run[r].account
        /\ run'[r].hand = a
        /\ run'[r].todo = run[r].todo \ {a}
        /\ run'[r].added = run[r].added
        /\ run'[r].wrote = run[r].wrote
        /\ OthersStay(r)
    BY <1>0, <1>10 DEF TakeUp, OthersStay, Run
  <2>3. Takes(r, a)
    BY <1>10, <2>1, <2>2 DEF TakeUp, Takes
  <2> QED
    BY <2>3 DEF Effect
<1>11. ASSUME NEW a \in Accounts, Reject(r, a) \/ Admit(r, a) PROVE Effect(r)
  BY <1>10, <1>11 DEF Reject, Admit
<1>12. ASSUME NEW a \in Accounts, JudgementFails(r, a) PROVE Effect(r)
  BY <1>12, RollbackAbandons DEF JudgementFails, Effect
<1>13. CASE InsertPoolRow(r)
  <2>1. run[r].hand \in Accounts
    BY <1>0, <1>13 DEF InsertPoolRow, Carries, Judging
  <2>2. Inserts(r)
    BY <1>0, <1>13, <2>1 DEF InsertPoolRow, Inserts, OthersStay, Run
  <2> QED
    BY <2>2 DEF Effect
<1>14. CASE InsertFails(r)
  BY <1>14, RollbackAbandons DEF InsertFails, Effect
<1>15. CASE Write(r)
  <2>1. PICK status \in {"failed", "promoted"} :
          /\ run' = [run EXCEPT ![r].at = "promote", ![r].hand = NoAccount,
                                ![r].wrote = [@ EXCEPT ![run[r].hand] = status]]
          /\ \/ run[r].at = "rejecting" /\ status = "failed" /\ leased' = leased \ {run[r].hand}
             \/ run[r].at = "promoting" /\ status = "promoted" /\ leased' = leased
    BY <1>15 DEF Write
  <2>2. run[r].hand \in Accounts
    BY <1>0, <2>1 DEF Carries, Judging
  <2>3. /\ run'[r].at = "promote"
        /\ run'[r].account = run[r].account
        /\ run'[r].hand = NoAccount
        /\ run'[r].todo = run[r].todo
        /\ run'[r].added = run[r].added
        /\ run'[r].wrote = [run[r].wrote EXCEPT ![run[r].hand] = status]
        /\ OthersStay(r)
    BY <1>0, <2>1 DEF OthersStay, Run
  <2>4. run[r].wrote \in [Accounts -> Status]
    BY <1>0 DEF Run
  <2>5. run'[r].wrote = [a \in Accounts |-> IF a = run[r].hand THEN status ELSE run[r].wrote[a]]
    BY <2>3, <2>4
  <2>6. Writes(r, status)
    BY <1>15, <2>1, <2>2, <2>3, <2>5 DEF Write, Writes
  <2> QED
    BY <2>1, <2>6 DEF Effect, Status
<1>16. CASE Commit(r)
  <2>1. Commits(r)
    BY <1>0, <1>00, <1>16
    DEF Commit, Commits, OthersStay, EmptyHanded, Carries, Judging, NoRun
  <2> QED
    BY <2>1 DEF Effect
<1> QED
  BY <1>1, <1>2, <1>3, <1>4, <1>5, <1>7, <1>8, <1>9, <1>11, <1>12, <1>13, <1>14,
     <1>15, <1>16 DEF Tick

\* A step leaves all of this alone or has the effect of one tick.
LEMMA StepEffect ==
  ASSUME Typed, [Next]_vars
  PROVE  \/ UNCHANGED <<row, pool, leased, raced, undone, run>>
         \/ \E r \in Runs : Effect(r)
<1>1. CASE Advance \/ AddByQr \/ UNCHANGED vars
  BY <1>1 DEF Advance, AddByQr, vars, database
<1>2. ASSUME NEW r \in Runs, Dies(r) PROVE Effect(r)
  BY <1>2, RollbackAbandons DEF Dies, Effect
<1> QED
  BY <1>1, <1>2, TickEffect DEF Next
-----------------------------------------------------------------------------
(* What ticks have in hand: purchases of their own, accounts off probation. *)

KeptPurchase(r) ==
  run[r].account \in Accounts =>
    /\ row[run[r].account] = "none"
    /\ run[r].at \notin Buying => run[r].wrote[run[r].account] \in {"probation", "failed"}
    /\ \A q \in Runs : run[q].account = run[r].account => q = r
KeptOthers(r) ==
  /\ run[r].hand \in Accounts =>
       row[run[r].hand] # "none" /\ run[r].wrote[run[r].hand] = "none"
  /\ \A a \in run[r].todo :
       row[a] # "none" /\ run[r].wrote[a] = "none" /\ a # run[r].hand
  /\ \A a \in Changed(r) : a = run[r].account \/ row[a] # "none"
KeptPool(r) ==
  \A a \in Accounts :
    a \in run[r].added <=>
      \/ run[r].wrote[a] = "promoted"
      \/ run[r].at = "promoting" /\ run[r].hand = a
Kept == \A r \in Runs : KeptPurchase(r) /\ KeptOthers(r) /\ KeptPool(r)

\* Every step preserves what ticks know of their own purchase and of the others.
LEMMA KeptStep == Typed /\ Kept /\ [Next]_vars => Kept'
<1> SUFFICES ASSUME Typed, Kept, [Next]_vars PROVE Kept'
  OBVIOUS
<1>0. Typed'
  BY TypedStep
<1> USE NoRunType
<1> USE DEF Kept, KeptPurchase, KeptOthers, KeptPool, Changed
<1>1. CASE UNCHANGED <<row, pool, leased, raced, undone, run>>
  BY <1>1
<1>2. ASSUME NEW r \in Runs, Begins(r) PROVE Kept'
  BY <1>2 DEF Begins, OthersStay, EmptyHanded, Buying
<1>3. ASSUME NEW r \in Runs, Abandons(r) PROVE Kept'
  BY <1>3 DEF Abandons, OthersStay, EmptyHanded, Buying
<1>4. ASSUME NEW r \in Runs, Loses(r) PROVE Kept'
  BY <1>4 DEF Loses, OthersStay, EmptyHanded, Buying
<1>5. ASSUME NEW r \in Runs, NEW a \in Accounts, Buys(r, a) PROVE Kept'
  BY <1>5 DEF Buys, Fresh, OthersStay, EmptyHanded, Buying
<1>6. ASSUME NEW r \in Runs, NEW status \in Status, Records(r, status) PROVE Kept'
  <2>1. \A q \in Runs : KeptPurchase(q)'
    BY <1>6 DEF Records, OthersStay, Buying
  <2>2. \A q \in Runs : KeptOthers(q)'
    BY <1>6 DEF Records, OthersStay
  <2>3. \A q \in Runs : KeptPool(q)'
    BY <1>6 DEF Records, OthersStay
  <2> QED
    BY <2>1, <2>2, <2>3
<1>7. ASSUME NEW r \in Runs, NEW a \in Accounts, Takes(r, a) PROVE Kept'
  <2>1. \A q \in Runs : KeptPurchase(q)'
    BY <1>7 DEF Takes, OthersStay, Buying
  <2>2. \A q \in Runs : KeptOthers(q)'
    BY <1>7 DEF Takes, OthersStay
  <2>3. \A q \in Runs : KeptPool(q)'
    BY <1>7 DEF Takes, OthersStay
  <2> QED
    BY <2>1, <2>2, <2>3
<1>8. ASSUME NEW r \in Runs, Inserts(r) PROVE Kept'
  <2>1. \A q \in Runs : KeptPurchase(q)'
    BY <1>8 DEF Inserts, OthersStay, Buying
  <2>2. \A q \in Runs : KeptOthers(q)'
    BY <1>8 DEF Inserts, OthersStay
  <2>3. \A q \in Runs : KeptPool(q)'
    BY <1>8 DEF Inserts, OthersStay
  <2> QED
    BY <2>1, <2>2, <2>3
<1>9. ASSUME NEW r \in Runs, NEW status \in Status, Writes(r, status) PROVE Kept'
  <2>1. \A q \in Runs : KeptPurchase(q)'
    BY <1>9 DEF Writes, OthersStay, Buying
  <2>2. \A q \in Runs : KeptOthers(q)'
    <3>1. run[r].todo \subseteq Accounts
      BY DEF Typed, TypeOK, Run
    <3>2. KeptOthers(r)'
      <4>1. \A a \in Changed(r)' : a \in Changed(r) \/ a = run[r].hand
        BY <1>9 DEF Writes
      <4>2. \A a \in Changed(r)' : a = run'[r].account \/ row'[a] # "none"
        BY <1>9, <4>1 DEF Writes
      <4>3. \A a \in run[r].todo : run'[r].wrote[a] = "none"
        BY <1>9, <3>1 DEF Writes
      <4> QED
        BY <1>9, <3>1, <4>2, <4>3 DEF Writes
    <3>3. \A q \in Runs \ {r} : KeptOthers(q)'
      BY <1>9 DEF Writes, OthersStay
    <3> QED
      BY <3>2, <3>3
  <2>3. \A q \in Runs : KeptPool(q)'
    BY <1>9 DEF Writes, OthersStay
  <2> QED
    BY <2>1, <2>2, <2>3
<1>10. ASSUME NEW r \in Runs, Commits(r) PROVE Kept'
  <2>1. \A a \in Accounts : row[a] # "none" => row'[a] # "none"
    BY <1>10 DEF Commits
  <2>2. \A a \in Accounts : a \notin Changed(r) => row'[a] = row[a]
    BY <1>10 DEF Commits
  <2>3. \A q \in Runs : KeptPurchase(q)'
    BY <1>10, <2>2 DEF Commits, OthersStay, EmptyHanded, Buying
  <2>4. \A q \in Runs : KeptOthers(q)'
    BY <1>10, <2>1 DEF Commits, OthersStay, EmptyHanded, Typed, TypeOK, Run
  <2>5. \A q \in Runs : KeptPool(q)'
    BY <1>10 DEF Commits, OthersStay, EmptyHanded
  <2> QED
    BY <2>3, <2>4, <2>5
<1> QED
  BY <1>1, <1>2, <1>3, <1>4, <1>5, <1>6, <1>7, <1>8, <1>9, <1>10, StepEffect DEF Effect

-----------------------------------------------------------------------------
(* Accounts that no two ticks judge at once *)

Holds(r, a) == run[r].hand = a \/ a \in Changed(r)

Alone(a) ==
  /\ \A q, r \in Runs : Holds(q, a) /\ Holds(r, a) => q = r
  /\ \A r \in Runs :
       /\ run[r].hand = a /\ run[r].at # "inserting" => row[a] = "probation"
       /\ a \in Changed(r) => a = run[r].account \/ row[a] = "probation"
Serial == \A a \in Accounts : a \notin raced => Alone(a)

\* Every step keeps the tick that judges such an account alone with it.
LEMMA SerialStep == Typed /\ Kept /\ Serial /\ [Next]_vars => Serial'
<1> SUFFICES ASSUME Typed, Kept, Serial, [Next]_vars PROVE Serial'
  OBVIOUS
<1> USE NoRunType
<1> USE DEF Serial, Alone, Holds, Changed
<1>1. CASE UNCHANGED <<row, pool, leased, raced, undone, run>>
  BY <1>1
<1>2. ASSUME NEW r \in Runs, Begins(r) PROVE Serial'
  BY <1>2 DEF Begins, OthersStay, EmptyHanded
<1>3. ASSUME NEW r \in Runs, Abandons(r) PROVE Serial'
  BY <1>3 DEF Abandons, OthersStay, EmptyHanded
<1>4. ASSUME NEW r \in Runs, Loses(r) PROVE Serial'
  BY <1>4 DEF Loses, OthersStay, EmptyHanded
<1>5. ASSUME NEW r \in Runs, NEW a \in Accounts, Buys(r, a) PROVE Serial'
  BY <1>5 DEF Buys, OthersStay, EmptyHanded
<1>6. ASSUME NEW r \in Runs, NEW status \in Status, Records(r, status) PROVE Serial'
  <2>1. \A q \in Runs \ {r} : ~Holds(q, run[r].account)
    BY <1>6 DEF Records, Kept, KeptPurchase, KeptOthers
  <2> QED
    BY <1>6, <2>1 DEF Records, OthersStay
<1>7. ASSUME NEW r \in Runs, NEW a \in Accounts, Takes(r, a) PROVE Serial'
  <2> SUFFICES ASSUME NEW b \in Accounts, b \notin raced' PROVE Alone(b)'
    OBVIOUS
  <2>1. b \notin raced /\ (b = a => \A q \in Runs \ {r} : ~Holds(q, a))
    BY <1>7 DEF Takes
  <2> QED
    BY <1>7, <2>1 DEF Takes, OthersStay
<1>8. ASSUME NEW r \in Runs, Inserts(r) PROVE Serial'
  BY <1>8 DEF Inserts, OthersStay
<1>9. ASSUME NEW r \in Runs, NEW status \in Status, Writes(r, status) PROVE Serial'
  <2> SUFFICES ASSUME NEW b \in Accounts, b \notin raced PROVE Alone(b)'
    BY <1>9 DEF Writes
  <2>1. \A q \in Runs : Holds(q, b)' => Holds(q, b)
    BY <1>9 DEF Writes, OthersStay
  <2>2. b = run[r].hand => row[b] = "probation"
    BY <1>9 DEF Writes
  <2> QED
    BY <1>9, <2>1, <2>2 DEF Writes, OthersStay
<1>10. ASSUME NEW r \in Runs, Commits(r) PROVE Serial'
  <2> SUFFICES ASSUME NEW b \in Accounts, b \notin raced PROVE Alone(b)'
    BY <1>10 DEF Commits
  <2>1. ~Holds(r, b)'
    BY <1>10 DEF Commits, EmptyHanded
  <2>2. \A q \in Runs \ {r} :
          /\ run'[q] = run[q]
          /\ Holds(q, b) => b \notin Changed(r)
    BY <1>10 DEF Commits, OthersStay
  <2>3. b \notin Changed(r) => row'[b] = row[b]
    BY <1>10 DEF Commits
  <2>4. \A q \in Runs : Holds(q, b)' => q # r /\ Holds(q, b)
    BY <2>1, <2>2
  <2>5. Alone(b)
    OBVIOUS
  <2>6. \A q, p \in Runs : Holds(q, b)' /\ Holds(p, b)' => q = p
    <3> HIDE DEF Holds, Changed
    <3> QED
      BY <2>4, <2>5
  <2>7. ASSUME NEW q \in Runs \ {r}
        PROVE  /\ run'[q].hand = b /\ run'[q].at # "inserting" => row'[b] = "probation"
               /\ b \in Changed(q)' => b = run'[q].account \/ row'[b] = "probation"
    <3>1. run'[q] = run[q] /\ (Holds(q, b) => row'[b] = row[b])
      BY <2>2, <2>3
    <3> QED
      BY <2>5, <3>1
  <2>8. run'[r].hand # b /\ b \notin Changed(r)'
    BY <2>1
  <2> QED
    BY <2>6, <2>7, <2>8
<1> QED
  BY <1>1, <1>2, <1>3, <1>4, <1>5, <1>6, <1>7, <1>8, <1>9, <1>10, StepEffect DEF Effect

\* A commit takes such an account from nothing or from probation.
LEMMA CommitFromProbation ==
  ASSUME Kept, Serial, NEW r \in Runs, NEW a \in Changed(r), a \notin raced
  PROVE  row[a] \in {"none", "probation"}
BY DEF Kept, KeptPurchase, Serial, Alone, Changed

\* Every step keeps pool and rows in agreement.
LEMMA PoolStep == Typed /\ Kept /\ Serial /\ PoolMatchesRows /\ [Next]_vars => PoolMatchesRows'
<1> SUFFICES ASSUME Typed, Kept, Serial, PoolMatchesRows, [Next]_vars PROVE PoolMatchesRows'
  OBVIOUS
<1>1. CASE UNCHANGED <<row, pool>> /\ raced \subseteq raced'
  BY <1>1 DEF PoolMatchesRows
<1>2. ASSUME NEW r \in Runs, Commits(r) PROVE PoolMatchesRows'
  <2> SUFFICES ASSUME NEW a \in Accounts, a \notin raced
               PROVE  a \in pool' <=> row'[a] = "promoted"
    BY <1>2 DEF Commits, PoolMatchesRows
  <2>1. a \in run[r].added <=> run[r].wrote[a] = "promoted"
    BY <1>2 DEF Commits, Kept, KeptPool
  <2>2. CASE a \in Changed(r)
    BY <1>2, <2>1, <2>2, CommitFromProbation DEF Commits, PoolMatchesRows
  <2>3. CASE a \notin Changed(r)
    BY <1>2, <2>1, <2>3 DEF Commits, PoolMatchesRows, Changed
  <2> QED
    BY <2>2, <2>3
<1>3. ASSUME NEW r \in Runs, Effect(r), ~Commits(r) PROVE PoolMatchesRows'
  BY <1>1, <1>3 DEF Effect, Begins, Abandons, Loses, Inserts, Buys, Takes, Records, Writes
<1> QED
  BY <1>1, <1>2, <1>3, StepEffect

\* No step changes what is final.
LEMMA FinalStep ==
  ASSUME Typed, Kept, Serial, [Next]_vars, NEW a \in Accounts, row[a] \in Final, a \notin raced
  PROVE  row'[a] = row[a]
<1>1. ASSUME NEW r \in Runs, Commits(r) PROVE row'[a] = row[a]
  BY <1>1, CommitFromProbation DEF Commits, Final
<1>2. ASSUME NEW r \in Runs, Effect(r), ~Commits(r) PROVE row'[a] = row[a]
  BY <1>2 DEF Effect, Begins, Abandons, Loses, Inserts, Buys, Takes, Records, Writes
<1> QED
  BY <1>1, <1>2, StepEffect

-----------------------------------------------------------------------------
(* Proxies *)

Wanted == {"probation", "promoted"}
Paid(a) ==
  /\ \A r \in Runs :
       /\ a \in Changed(r) => (a \in leased <=> run[r].wrote[a] \in Wanted)
       /\ run[r].at = "register" /\ run[r].account = a => a \in leased
  /\ (\A r \in Runs : a \notin Touched(r)) => (a \in leased <=> row[a] \in Wanted)
Proxied == \A a \in Accounts : Untroubled(a) => Paid(a)

\* Every step keeps the proxies with their accounts.
LEMMA ProxiedStep == Typed /\ Kept /\ Serial /\ Proxied /\ [Next]_vars => Proxied'
<1> SUFFICES ASSUME Typed, Kept, Serial, Proxied, [Next]_vars,
                    NEW b \in Accounts, Untroubled(b)'
             PROVE  Paid(b)'
  BY DEF Proxied
<1> USE NoRunType
<1>0. ASSUME raced \subseteq raced', undone \subseteq undone'
      PROVE  Untroubled(b) /\ Paid(b) /\ b \notin raced
  BY <1>0 DEF Untroubled, Proxied
<1> USE DEF Paid, Changed, Touched
<1>1. CASE UNCHANGED <<row, pool, leased, raced, undone, run>>
  BY <1>0, <1>1
<1>2. ASSUME NEW r \in Runs, Begins(r) PROVE Paid(b)'
  BY <1>0, <1>2 DEF Begins, OthersStay, EmptyHanded
<1>3. ASSUME NEW r \in Runs, Abandons(r) PROVE Paid(b)'
  <2>1. b \notin Touched(r)
    BY <1>3 DEF Abandons, Untroubled
  <2> QED
    BY <1>0, <1>3, <2>1 DEF Abandons, OthersStay, EmptyHanded
<1>4. ASSUME NEW r \in Runs, Loses(r) PROVE Paid(b)'
  <2>1. CASE b = run[r].account
    <3>1. row[b] = "none" /\ \A q \in Runs \ {r} : b \notin Touched(q)
      BY <1>4, <2>1 DEF Loses, Kept, KeptPurchase, KeptOthers
    <3> QED
      BY <1>4, <2>1, <3>1 DEF Loses, OthersStay, EmptyHanded, Wanted
  <2>2. CASE b # run[r].account
    BY <1>0, <1>4, <2>2 DEF Loses, OthersStay, EmptyHanded
  <2> QED
    BY <2>1, <2>2
<1>5. ASSUME NEW r \in Runs, NEW a \in Accounts, Buys(r, a) PROVE Paid(b)'
  <2>1. CASE b = a
    <3>1. \A q \in Runs : b \notin Changed(q)
      BY <1>5, <2>1 DEF Buys, Fresh, Kept, KeptOthers
    <3> QED
      BY <1>5, <2>1, <3>1 DEF Buys, OthersStay
  <2>2. CASE b # a
    BY <1>0, <1>5, <2>2 DEF Buys, OthersStay, EmptyHanded
  <2> QED
    BY <2>1, <2>2
<1>6. ASSUME NEW r \in Runs, NEW status \in Status, Records(r, status) PROVE Paid(b)'
  <2>1. CASE b = run[r].account
    <3>1. \A q \in Runs \ {r} : b \notin Touched(q)
      BY <1>6, <2>1 DEF Records, Kept, KeptPurchase, KeptOthers
    <3>2. b \in leased
      BY <1>0, <1>6, <2>1 DEF Records
    <3> QED
      BY <1>6, <2>1, <3>1, <3>2 DEF Records, OthersStay, Wanted
  <2>2. CASE b # run[r].account
    BY <1>0, <1>6, <2>2 DEF Records, OthersStay
  <2> QED
    BY <2>1, <2>2
<1>7. ASSUME NEW r \in Runs, NEW a \in Accounts, Takes(r, a) PROVE Paid(b)'
  BY <1>0, <1>7 DEF Takes, OthersStay
<1>8. ASSUME NEW r \in Runs, Inserts(r) PROVE Paid(b)'
  BY <1>0, <1>8 DEF Inserts, OthersStay
<1>9. ASSUME NEW r \in Runs, NEW status \in Status, Writes(r, status) PROVE Paid(b)'
  <2>1. CASE b = run[r].hand
    <3>1. row[b] = "probation" /\ \A q \in Runs \ {r} : b \notin Changed(q)
      BY <1>0, <1>9, <2>1 DEF Writes, Serial, Alone, Holds
    <3>2. \A q \in Runs : b # run[q].account
      BY <3>1 DEF Kept, KeptPurchase
    <3>3. b \notin Changed(r)
      BY <1>9, <2>1 DEF Writes, Kept, KeptOthers
    <3>4. b \in leased
      <4>1. Paid(b)
        BY <1>0, <1>9 DEF Writes
      <4>2. \A q \in Runs : b \notin Touched(q)
        BY <3>1, <3>2, <3>3
      <4> QED
        BY <3>1, <4>1, <4>2 DEF Wanted
    <3> QED
      BY <1>9, <2>1, <3>1, <3>2, <3>4 DEF Writes, OthersStay, Wanted
  <2>2. CASE b # run[r].hand
    BY <1>0, <1>9, <2>2 DEF Writes, OthersStay
  <2> QED
    BY <2>1, <2>2
<1>10. ASSUME NEW r \in Runs, Commits(r) PROVE Paid(b)'
  <2>0. Paid(b) /\ b \notin raced
    BY <1>0, <1>10 DEF Commits
  <2>1. \A q \in Runs \ {r} : run'[q] = run[q]
    BY <1>10 DEF Commits, OthersStay
  <2>2. b \notin Touched(r)'
    BY <1>10 DEF Commits, EmptyHanded
  <2>3. CASE b \in Changed(r)
    BY <1>10, <2>0, <2>1, <2>2, <2>3 DEF Commits
  <2>4. CASE b \notin Changed(r)
    <3>1. b # run[r].account
      BY <1>10, <2>4 DEF Commits, Kept, KeptPurchase, Buying
    <3>2. row'[b] = row[b]
      BY <1>10, <2>4 DEF Commits
    <3> QED
      BY <1>10, <2>0, <2>1, <2>2, <2>4, <3>1, <3>2 DEF Commits
  <2> QED
    BY <2>3, <2>4
<1> QED
  BY <1>1, <1>2, <1>3, <1>4, <1>5, <1>6, <1>7, <1>8, <1>9, <1>10, StepEffect DEF Effect

-----------------------------------------------------------------------------
IInv == Typed /\ Kept /\ Serial /\ PoolMatchesRows /\ Proxied

\* The inductive invariant holds initially,
LEMMA InitInv == Init => IInv
<1> SUFFICES ASSUME Init PROVE IInv
  OBVIOUS
<1>1. Typed
  BY InitTyped
<1>2. \A r \in Runs : Changed(r) = {} /\ Touched(r) = {} /\ EmptyHanded(run[r]) /\ run[r].todo = {}
  BY NoRunType DEF Init, Changed, Touched, EmptyHanded, NoRun
<1>3. Kept
  BY <1>2, NoRunType DEF Init, Kept, KeptPurchase, KeptOthers, KeptPool, EmptyHanded, NoRun
<1>4. Serial
  BY <1>2, NoRunType DEF Serial, Alone, Holds, EmptyHanded
<1>5. PoolMatchesRows
  BY DEF Init, PoolMatchesRows
<1>6. Proxied
  BY <1>2 DEF Init, Proxied, Paid, NoRun, Wanted
<1> QED
  BY <1>1, <1>3, <1>4, <1>5, <1>6 DEF IInv

\* and always.
LEMMA Invariance == Spec => []IInv
<1>1. IInv /\ [Next]_vars => IInv'
  BY TypedStep, KeptStep, SerialStep, PoolStep, ProxiedStep DEF IInv
<1> QED
  BY <1>1, InitInv, PTL DEF Spec

\* For accounts that no two ticks judge at once the pool agrees with the rows.
THEOREM PoolAgrees == Spec => []PoolMatchesRows
<1>1. IInv => PoolMatchesRows
  BY DEF IInv
<1> QED
  BY <1>1, Invariance, PTL

\* What is promoted or failed stays so.
THEOREM FinalStays == Spec => FinalIsFinal
<1>1. IInv /\ [Next]_vars =>
        [\A a \in Accounts : row[a] \in Final /\ a \notin raced => row'[a] = row[a]]_vars
  BY FinalStep DEF IInv
<1> QED
  BY <1>1, Invariance, PTL DEF Spec, FinalIsFinal

\* A proxy is leased as long as its account lives and no longer.
THEOREM ProxyFollows == Spec => []ProxyFollowsAccount
<1>1. IInv => ProxyFollowsAccount
  BY DEF IInv, Proxied, Paid, Wanted, ProxyFollowsAccount, Settled
<1> QED
  BY <1>1, Invariance, PTL

\* For accounts that no two ticks judge at once, the proxies that are paid for
\* and the rows of the pool follow the accounts.
THEOREM RecordsFollow == Spec => []RecordsFollowRows
  BY ProxyFollows, PoolAgrees, PTL DEF RecordsFollowRows
=============================================================================
