--------------------------- MODULE BillingProofs ---------------------------
(***************************************************************************)
(* Proofs about Billing, for any invoices, period, grace and number of     *)
(* concurrent requests: as long as no two transactions overlap, the ledger *)
(* of periods adds up.                                                     *)
(***************************************************************************)
EXTENDS Billing, FiniteSetTheorems, TLAPS

\* Finite arithmetic on periods.
LEMMA PeriodProduct ==
  /\ \A n \in Nat : Period * n \in Nat /\ Period * (n + 1) = Period * n + Period
  /\ \A m, n \in Nat : m <= n => Period * m <= Period * n
<1> USE BillingParameters
<1>1. \A n \in Nat : Period * n \in Nat /\ Period * (n + 1) = Period * n + Period
  OBVIOUS
<1>2. ASSUME NEW m \in Nat, NEW n \in Nat, m <= n PROVE Period * m <= Period * n
  <2>1. n - m \in Nat
    BY <1>2
  <2>2. Period * n = Period * m + Period * (n - m)
    BY <2>1
  <2>3. Period * (n - m) \in Nat
    BY <2>1
  <2> QED
    BY <2>2, <2>3
<1> QED
  BY <1>1, <1>2

\* Every set of invoices is finite and has at most as many as there are.
LEMMA SetOfPayments ==
  ASSUME NEW S, S \subseteq Payments
  PROVE  /\ IsFiniteSet(S)
         /\ Cardinality(S) \in Nat
         /\ Cardinality(S) <= Cardinality(Payments)
<1>1. IsFiniteSet(S) /\ Cardinality(S) <= Cardinality(Payments)
  BY FS_Subset, BillingParameters
<1> QED
  BY <1>1, FS_CardinalityType

\* The bound of the expiries is a number no smaller than that of the clock.
LEMMA BoundType == MaxExpiry \in Nat /\ MaxTime <= MaxExpiry
<1>1. Cardinality(Payments) \in Nat
  BY FS_CardinalityType, BillingParameters
<1>2. Period * (Cardinality(Payments) + 1) \in Nat
  BY <1>1, PeriodProduct
<1> QED
  BY <1>2, BillingParameters DEF MaxExpiry

-----------------------------------------------------------------------------
(* What an open request carries.  TypeOK alone is not inductive: that only  *)
(* invoices declared finished are answered as finished rests on it.         *)

Carries(r) ==
  /\ Open(r) => request[r].ipn \in Ipn
  /\ Open(r) /\ request[r].ipn.status = "finished" => request[r].ipn.order \in paid
  /\ Written(r) /\ request[r].ipn.status = "finished" => request[r].ipn.order \in acked
  /\ request[r].at = "subscription" => Activates(request[r].ipn)

Typed == TypeOK /\ \A r \in Requests : Carries(r)

\* The types hold initially.
LEMMA InitTyped == Init => Typed
<1> SUFFICES ASSUME Init PROVE Typed
  OBVIOUS
<1> USE BillingParameters, BoundType DEF Init
<1>1. FreeRequest \in [at : Stages, ipn : Ipn \cup {NoIpn}, seen : PaymentStatus,
                       known : BOOLEAN, from : 0..MaxExpiry, rewarded : BOOLEAN]
  BY DEF FreeRequest, Stages, PaymentStatus
<1>2. TypeOK
  <2>1. /\ request \in [Requests -> [at : Stages, ipn : Ipn \cup {NoIpn}, seen : PaymentStatus,
                       known : BOOLEAN, from : 0..MaxExpiry, rewarded : BOOLEAN]]
        /\ payment \in [Payments -> PaymentStatus]
    BY <1>1 DEF PaymentStatus
  <2>2. /\ now \in 0..MaxTime /\ expires \in 0..MaxExpiry /\ restarts \in 0..MaxRestarts
        /\ began \in 0..MaxTime /\ last \in 0..MaxTime
    OBVIOUS
  <2> QED
    BY <2>1, <2>2 DEF TypeOK
<1>3. \A r \in Requests : Carries(r)
  BY DEF Carries, Open, Written, FreeRequest
<1> QED
  BY <1>2, <1>3 DEF Typed

\* Every step preserves the types and what requests carry.
LEMMA TypedStep == Typed /\ [Next]_vars => Typed'
<1> SUFFICES ASSUME Typed, [Next]_vars PROVE Typed'
  OBVIOUS
<1> USE BillingParameters, BoundType DEF database, gateway, history
<1> DEFINE Request ==
      [at : Stages, ipn : Ipn \cup {NoIpn}, seen : PaymentStatus,
       known : BOOLEAN, from : 0..MaxExpiry, rewarded : BOOLEAN]
<1>0. FreeRequest \in Request /\ FreeRequest.at = "free"
  BY DEF FreeRequest, Stages, PaymentStatus
<1>1. CASE Advance
  BY <1>1 DEF Advance, Typed, TypeOK, Carries, Open, Written
<1>2. ASSUME NEW p \in Payments, CreateInvoice(p) PROVE Typed'
  BY <1>2 DEF CreateInvoice, Typed, TypeOK, Carries, Open, Written, PaymentStatus
<1>3. ASSUME NEW p \in Payments, Pay(p) PROVE Typed'
  BY <1>3 DEF Pay, Typed, TypeOK, Carries, Open, Written
<1>4. ASSUME NEW r \in Requests, NEW i \in Ipn, Receive(r, i) PROVE Typed'
  <2>1. request' \in [Requests -> Request]
    BY <1>4, <1>0 DEF Receive, Typed, TypeOK, FreeRequest, Stages, PaymentStatus, Ipn
  <2>2. TypeOK'
    BY <1>4, <2>1 DEF Receive, Typed, TypeOK
  <2>3. \A q \in Requests : Carries(q)'
    BY <1>4 DEF Receive, Delivered, Typed, TypeOK, Carries, Open, Written, FreeRequest, Ipn
  <2> QED
    BY <2>2, <2>3 DEF Typed
<1>5. ASSUME NEW i \in Ipn, Replay(i) PROVE Typed'
  <2>1. acked' \subseteq paid' /\ acked \subseteq acked'
    BY <1>5 DEF Replay, Delivered, Finished, Typed, TypeOK
  <2> QED
    BY <1>5, <2>1 DEF Replay, Typed, TypeOK, Carries, Open, Written
<1>6. ASSUME NEW r \in Requests, ReadSubscription(r) PROVE Typed'
  <2>1. Later(now, expires) \in 0..MaxExpiry
    BY DEF Typed, TypeOK, Later
  <2>2. request' \in [Requests -> Request]
    <3> DEFINE known == expires > 0
               read == [request[r] EXCEPT !.at = "subscription", !.known = known,
                                          !.from = Later(now, expires)]
    <3>1. known \in BOOLEAN
      OBVIOUS
    <3>2. request' = [request EXCEPT ![r] = read]
      BY <1>6 DEF ReadSubscription
    <3>3. read \in Request
      <4> HIDE DEF known
      <4> QED
        BY <2>1, <3>1 DEF Typed, TypeOK, Stages
    <3> QED
      BY <3>2, <3>3 DEF Typed, TypeOK
  <2>3. TypeOK'
    BY <1>6, <2>2 DEF ReadSubscription, Typed, TypeOK
  <2>4. \A q \in Requests : Carries(q)'
    BY <1>6 DEF ReadSubscription, Typed, TypeOK, Carries, Open, Written
  <2> QED
    BY <2>3, <2>4 DEF Typed
<1>7. ASSUME NEW r \in Requests, FlushActivation(r) \/ FlushStatus(r) PROVE Typed'
  <2>1. /\ Answer(r)
        /\ Open(r)
        /\ \E inserted \in BOOLEAN :
             \/ request' = [request EXCEPT ![r].at = "flushed", ![r].rewarded = inserted]
             \/ request' = [request EXCEPT ![r].at = "flushed"]
    BY <1>7 DEF FlushActivation, FlushStatus, Open, RewardDue
  <2>2. /\ acked' = acked \cup Finished({request[r].ipn})
        /\ acked' \subseteq paid
        /\ request[r].ipn.status = "finished" => request[r].ipn.order \in acked'
    BY <2>1 DEF Answer, Finished, Typed, TypeOK, Carries
  <2>3. request' \in [Requests -> Request]
    BY <2>1 DEF Typed, TypeOK, Stages
  <2>4. TypeOK'
    BY <2>1, <2>2, <2>3 DEF Answer, Typed, TypeOK
  <2>5. \A q \in Requests : Carries(q)'
    <3>1. /\ request'[r].at = "flushed" /\ request'[r].ipn = request[r].ipn
          /\ \A q \in Requests \ {r} : request'[q] = request[q]
      BY <2>1 DEF Typed, TypeOK
    <3>2. Carries(r)'
      BY <2>1, <2>2, <3>1 DEF Answer, Typed, Carries, Open, Written
    <3>3. ASSUME NEW q \in Requests \ {r} PROVE Carries(q)'
      BY <2>1, <2>2, <3>1, <3>3 DEF Answer, Typed, Carries, Open, Written
    <3> QED
      BY <3>2, <3>3
  <2> QED
    BY <2>4, <2>5 DEF Typed
<1>8. ASSUME NEW r \in Requests, InsertConflict(r) PROVE Typed'
  <2>1. request' \in [Requests -> Request]
    BY <1>8, <1>0 DEF InsertConflict, Close, Typed, TypeOK
  <2> QED
    BY <1>8, <1>0, <2>1 DEF InsertConflict, Close, Typed, TypeOK, Carries, Open, Written
<1>9. ASSUME NEW r \in Requests, StartTeardown(r) PROVE Typed'
  <2>1. request' \in [Requests -> Request]
    BY <1>9 DEF StartTeardown, Typed, TypeOK, Stages
  <2>2. TypeOK'
    BY <1>9, <2>1 DEF StartTeardown, Typed, TypeOK
  <2>3. \A q \in Requests : Carries(q)'
    BY <1>9 DEF StartTeardown, Typed, TypeOK, Carries, Open, Written
  <2> QED
    BY <2>2, <2>3 DEF Typed
<1>10. ASSUME NEW r \in Requests, Commit(r) PROVE Typed'
  <2>1. request' = [request EXCEPT ![r] = FreeRequest]
    BY <1>10 DEF Commit, Close
  <2>2. request' \in [Requests -> Request]
    BY <2>1, <1>0 DEF Typed, TypeOK
  <2>3. \A q \in Requests : Carries(q)'
    BY <1>10, <2>1, <1>0 DEF Commit, Typed, TypeOK, Carries, Open, Written
  <2>4. request[r].ipn \in Ipn /\ request[r].ipn.order \in Payments
    BY <1>10 DEF Commit, Typed, Carries, Open, Ipn
  <2>5. request[r].from \in 0..MaxExpiry
    BY DEF Typed, TypeOK
  <2>6. CASE CommitActivation(r)
    <3>1. expires' \in 0..MaxExpiry
      BY <2>5, <2>6 DEF CommitActivation, Least
    <3> QED
      BY <1>10, <2>2, <2>3, <2>4, <2>6, <3>1
         DEF Commit, CommitActivation, Typed, TypeOK, PaymentStatus
  <2>7. CASE CommitStatus(r) /\ ~Activates(request[r].ipn)
    <3>1. request[r].ipn.status = "waiting"
      BY <2>4, <2>7 DEF Ipn, Activates
    <3> QED
      BY <1>10, <2>2, <2>3, <2>4, <2>7, <3>1
         DEF Commit, CommitStatus, Typed, TypeOK, PaymentStatus
  <2> QED
    BY <1>10, <2>6, <2>7 DEF Commit
<1>11. CASE Restart
  <2>1. dropped' \subseteq acked
    BY <1>11 DEF Restart, Finished, Typed, TypeOK, Carries
  <2>2. request' \in [Requests -> Request]
    BY <1>11, <1>0 DEF Restart
  <2> QED
    BY <1>11, <1>0, <2>1, <2>2 DEF Restart, Typed, TypeOK, Carries, Open, Written
<1>12. CASE UNCHANGED vars
  BY <1>12 DEF vars, Typed, TypeOK, Carries, Open, Written
<1> QED
  BY <1>1, <1>2, <1>3, <1>4, <1>5, <1>6, <1>7, <1>8, <1>9, <1>10, <1>11, <1>12
     DEF Next, Handle

\* The types hold in every state, for any number of invoices and requests.
THEOREM TypeCorrect == Spec => []TypeOK
<1>1. Typed => TypeOK
  BY DEF Typed
<1> QED
  BY InitTyped, TypedStep, <1>1, PTL DEF Spec

-----------------------------------------------------------------------------
(* The ledger.  Without an overlap at most one request is open, and what it *)
(* has read still holds: the payment is not processed, the period begins    *)
(* where the subscription ends, nobody has paid before if it rewards.       *)

Alone == \A q, r \in Requests : Open(q) /\ Open(r) => q = r

Granting(r) ==
  Activates(request[r].ipn) /\ request[r].at \in {"subscription", "flushed", "commit"}

Fresh(r) ==
  /\ Open(r) => payment[request[r].ipn.order] # "processed"
  /\ Granting(r) => request[r].from = Later(now, expires)
  /\ request[r].rewarded => Open(r) /\ granted = {}

Booked ==
  /\ first \in granted
  /\ began <= last /\ last <= now
  /\ began + Period * Cardinality(granted) <= expires
  /\ last + Period <= expires
  /\ expires <= last + Period * Cardinality(granted)

Ledger ==
  /\ granted = {p \in Payments : payment[p] = "processed"}
  /\ granted \subseteq paid
  /\ ~repeated
  /\ granted = {} => expires = 0 /\ reward = NoPayment
  /\ granted # {} => Booked
  /\ reward # NoPayment => reward = first

Serial == ~raced => Alone /\ (\A r \in Requests : Fresh(r)) /\ Ledger

IInv == Typed /\ Serial

\* The ledger is in order initially.
LEMMA InitSerial == Init => Serial
BY DEF Init, Serial, Alone, Fresh, Granting, Ledger, Open, FreeRequest

\* A step that leaves the database, the history and the clock alone keeps the
\* ledger.
LEMMA LedgerStays ==
  ASSUME Ledger, UNCHANGED <<now, database, history>>, paid \subseteq paid'
  PROVE  Ledger'
BY DEF Ledger, Booked, database, history

\* A step that closes requests, or lets them be, keeps the others fresh.
LEMMA ClosingStays ==
  ASSUME NEW S \in SUBSET Requests, Alone, \A r \in Requests : Fresh(r),
         request' = [r \in Requests |-> IF r \in S THEN FreeRequest ELSE request[r]],
         UNCHANGED <<now, database, history>>
 PROVE  Alone' /\ \A r \in Requests : Fresh(r)'
BY DEF Alone, Fresh, Granting, Open, FreeRequest, database, history

\* The commit of an activation books one more period.
LEMMA CommitBooks ==
  ASSUME Typed, Alone, \A r \in Requests : Fresh(r), Ledger,
         NEW r \in Requests, Commit(r), Activates(request[r].ipn), CommitActivation(r)
  PROVE  Ledger'
<1> DEFINE p == request[r].ipn.order
           n == Cardinality(granted)
           m == Period * n
<1> USE BillingParameters
<1>1. /\ p \in Payments /\ p \in paid /\ p \notin granted
      /\ request[r].from = Later(now, expires)
      /\ request[r].rewarded => granted = {}
      /\ now' = now /\ paid' = paid
  BY DEF Typed, Carries, Fresh, Granting, Ledger, Commit, Open, Ipn, Activates, gateway
<1>2. /\ payment' = [payment EXCEPT ![p] = "processed"]
      /\ expires' = Least(Later(now, expires) + Period, MaxExpiry)
      /\ reward' = IF request[r].rewarded THEN p ELSE reward
      /\ granted' = granted \cup {p}
      /\ repeated' = (repeated \/ p \in granted)
      /\ first' = IF granted = {} THEN p ELSE first
      /\ began' = IF granted = {} THEN now ELSE began
      /\ last' = now
  BY <1>1 DEF CommitActivation
<1>3. /\ n \in Nat /\ Cardinality(granted') = n + 1
      /\ n <= Cardinality(Payments) /\ Cardinality(Payments) \in Nat
  <2>1. granted \subseteq Payments
    BY DEF Typed, TypeOK
  <2> QED
    BY <1>1, <1>2, <2>1, SetOfPayments, FS_AddElement
<1>4. m \in Nat /\ Period * Cardinality(granted') = m + Period
  BY <1>3, PeriodProduct
<1>5. MaxTime + m + Period <= MaxExpiry /\ MaxExpiry \in Nat
  <2>1. m <= Period * Cardinality(Payments)
    BY <1>3, PeriodProduct
  <2>2. /\ Period * (Cardinality(Payments) + 1) = Period * Cardinality(Payments) + Period
        /\ Period * Cardinality(Payments) \in Nat
    BY <1>3, PeriodProduct
  <2> QED
    BY <1>4, <2>1, <2>2, BoundType DEF MaxExpiry
<1>6. now \in 0..MaxTime /\ expires \in Nat /\ last \in Nat /\ began \in Nat
  BY BoundType DEF Typed, TypeOK
<1>7. granted = {} => n = 0 /\ m = 0 /\ expires = 0
  BY FS_EmptySet DEF Ledger
<1>8. granted # {} => /\ began <= last /\ last <= now
                      /\ began + m <= expires
                      /\ expires <= last + m
  BY DEF Ledger, Booked
<1> HIDE DEF n, m
<1>9. expires' = Later(now, expires) + Period
  BY <1>2, <1>4, <1>5, <1>6, <1>7, <1>8 DEF Later, Least
<1>10. /\ began' <= last' /\ last' <= now'
       /\ began' + (m + Period) <= expires'
       /\ last' + Period <= expires'
       /\ expires' <= last' + (m + Period)
  BY <1>1, <1>2, <1>4, <1>6, <1>7, <1>8, <1>9 DEF Later
<1>11. first' \in granted'
  BY <1>2 DEF Ledger, Booked
<1>12. granted' # {} => Booked'
  BY <1>4, <1>10, <1>11 DEF Booked
<1>13. granted' = {q \in Payments : payment'[q] = "processed"}
  BY <1>1, <1>2 DEF Ledger, Typed, TypeOK
<1>14. reward' # NoPayment => reward' = first'
  BY <1>1, <1>2 DEF Ledger
<1>15. granted' # {} /\ granted' \subseteq paid' /\ ~repeated'
  BY <1>1, <1>2 DEF Ledger
<1> QED
  BY <1>12, <1>13, <1>14, <1>15 DEF Ledger

\* Every step preserves the ledger.
LEMMA SerialStep == Typed /\ Serial /\ [Next]_vars => Serial'
<1> SUFFICES ASSUME Typed, Serial, [Next]_vars, ~raced'
            PROVE  Alone' /\ (\A r \in Requests : Fresh(r)') /\ Ledger'
  BY DEF Serial
<1> DEFINE Goal == Alone' /\ (\A r \in Requests : Fresh(r)') /\ Ledger'
<1>0. ~raced /\ Alone /\ (\A r \in Requests : Fresh(r)) /\ Ledger
  <2>1. ~raced
    BY DEF Next, Handle, Advance, Restart, CreateInvoice, Pay, Replay, ReadSubscription,
           FlushActivation, InsertConflict, FlushStatus, Commit, StartTeardown, Receive,
           Answer, vars
  <2> QED
    BY <2>1 DEF Serial
<1> USE BillingParameters
<1>1. CASE Advance
  <2>1. \A r \in Requests : Fresh(r)'
    BY <1>0, <1>1 DEF Advance, Fresh, Granting, Open, database, history
  <2>2. Ledger'
    BY <1>0, <1>1 DEF Advance, Ledger, Booked, Typed, TypeOK, database, history, gateway
  <2> QED
    BY <1>0, <1>1, <2>1, <2>2 DEF Advance, Alone, Open
<1>2. ASSUME NEW p \in Payments, CreateInvoice(p) PROVE Goal
  <2>1. \A q \in Payments : payment'[q] = "processed" <=> payment[q] = "processed"
    BY <1>2 DEF CreateInvoice, Typed, TypeOK
  <2>2. Ledger'
    BY <1>0, <1>2, <2>1 DEF CreateInvoice, Ledger, Booked, history, gateway
  <2>3. \A r \in Requests : Fresh(r)'
    BY <1>0, <1>2, <2>1 DEF CreateInvoice, Fresh, Granting, Open, history, Typed, Carries, Ipn
  <2> QED
    BY <1>0, <1>2, <2>2, <2>3 DEF CreateInvoice, Alone, Open
<1>3. ASSUME NEW p \in Payments, Pay(p) PROVE Goal
  <2>1. Ledger'
    BY <1>0, <1>3, LedgerStays DEF Pay
  <2> QED
    BY <1>0, <1>3, <2>1 DEF Pay, Alone, Fresh, Granting, Open, database, history
<1>4. ASSUME NEW r \in Requests, NEW i \in Ipn, Receive(r, i) PROVE Goal
  <2>1. \A q \in Requests : ~Open(q)
    BY <1>4 DEF Receive
  <2>2. /\ request'[r] = [FreeRequest EXCEPT !.at = "payment", !.ipn = i,
                                             !.seen = payment[i.order]]
        /\ \A q \in Requests \ {r} : request'[q] = request[q]
    BY <1>4 DEF Receive, Typed, TypeOK
  <2>3. Alone'
    <3>1. \A q \in Requests \ {r} : ~Open(q)'
      BY <2>1, <2>2 DEF Open
    <3> QED
      BY <3>1 DEF Alone
  <2>4. Fresh(r)'
    <3>1. /\ request'[r].at = "payment" /\ request'[r].ipn = i
          /\ ~request'[r].rewarded
      BY <2>2 DEF FreeRequest
    <3>2. payment'[i.order] # "processed"
      BY <1>4 DEF Receive, database
    <3> QED
      BY <3>1, <3>2 DEF Fresh, Granting, Open
  <2>5. ASSUME NEW q \in Requests \ {r} PROVE Fresh(q)'
    BY <1>0, <1>4, <2>2 DEF Receive, Fresh, Granting, Open, database, history
  <2>6. Ledger'
    BY <1>0, <1>4, LedgerStays DEF Receive, gateway
  <2> QED
    BY <2>3, <2>4, <2>5, <2>6
<1>5. ASSUME NEW i \in Ipn, Replay(i) PROVE Goal
  <2>1. Ledger'
    BY <1>0, <1>5, LedgerStays DEF Replay
  <2> QED
    BY <1>0, <1>5, <2>1 DEF Replay, Alone, Fresh, Granting, Open, database, history
<1>6. ASSUME NEW r \in Requests, ReadSubscription(r) PROVE Goal
  <2>1. /\ request'[r].at = "subscription" /\ request'[r].ipn = request[r].ipn
        /\ request'[r].from = Later(now, expires)
        /\ request'[r].rewarded = request[r].rewarded
        /\ \A q \in Requests \ {r} : request'[q] = request[q]
    BY <1>6 DEF ReadSubscription, Typed, TypeOK
  <2>2. Alone' /\ Fresh(r)'
    BY <1>0, <1>6, <2>1 DEF ReadSubscription, Alone, Fresh, Granting, Open, database, history
  <2>3. ASSUME NEW q \in Requests \ {r} PROVE Fresh(q)'
    BY <1>0, <1>6, <2>1 DEF ReadSubscription, Fresh, Granting, Open, database, history
  <2>4. Ledger'
    BY <1>0, <1>6, LedgerStays DEF ReadSubscription, gateway
  <2> QED
    BY <2>2, <2>3, <2>4
<1>7. ASSUME NEW r \in Requests, FlushActivation(r) PROVE Goal
  <2>1. PICK inserted \in {FALSE, RewardDue} :
          request' = [request EXCEPT ![r].at = "flushed", ![r].rewarded = inserted]
    BY <1>7 DEF FlushActivation
  <2>2. /\ request'[r].at = "flushed" /\ request'[r].ipn = request[r].ipn
        /\ request'[r].from = request[r].from
        /\ request'[r].rewarded = inserted
        /\ \A q \in Requests \ {r} : request'[q] = request[q]
    BY <2>1 DEF Typed, TypeOK
  <2>3. inserted => granted = {}
    BY <1>0, <2>1 DEF RewardDue, Ledger
  <2>4. UNCHANGED <<now, database, history>> /\ paid' = paid
    BY <1>7 DEF FlushActivation, Answer
  <2>5. Alone'
    BY <1>0, <1>7, <2>2 DEF FlushActivation, Alone, Open
  <2>6. Fresh(r)'
    BY <1>0, <1>7, <2>2, <2>3, <2>4
       DEF FlushActivation, Fresh, Granting, Open, database, history
  <2>7. ASSUME NEW q \in Requests \ {r} PROVE Fresh(q)'
    BY <1>0, <2>2, <2>4 DEF Fresh, Granting, Open, database, history
  <2>8. Ledger'
    BY <1>0, <2>4, LedgerStays
  <2> QED
    BY <2>5, <2>6, <2>7, <2>8
<1>8. ASSUME NEW r \in Requests, InsertConflict(r) PROVE Goal
  <2>1. request' = [q \in Requests |-> IF q \in {r} THEN FreeRequest ELSE request[q]]
    BY <1>8 DEF InsertConflict, Close, Typed, TypeOK
  <2>2. UNCHANGED <<now, database, history>> /\ paid' = paid
    BY <1>8 DEF InsertConflict, gateway
  <2> QED
    BY <1>0, <2>1, <2>2, ClosingStays, LedgerStays
<1>9. ASSUME NEW r \in Requests, FlushStatus(r) \/ StartTeardown(r) PROVE Goal
  <2>1. /\ Open(r) /\ Open(r)'
        /\ request'[r].ipn = request[r].ipn
        /\ request'[r].from = request[r].from
        /\ request'[r].rewarded = request[r].rewarded
        /\ Granting(r)' => Granting(r)
        /\ \A q \in Requests \ {r} : request'[q] = request[q]
    BY <1>9 DEF FlushStatus, StartTeardown, Open, Granting, Activates, Typed, TypeOK
  <2>2. UNCHANGED <<now, database, history>> /\ paid' = paid
    BY <1>9 DEF FlushStatus, StartTeardown, Answer, gateway
  <2>3. Alone' /\ Fresh(r)'
    BY <1>0, <2>1, <2>2 DEF Alone, Fresh, Open, Granting, Activates, database, history
  <2>4. ASSUME NEW q \in Requests \ {r} PROVE Fresh(q)'
    BY <1>0, <2>1, <2>2 DEF Fresh, Open, Granting, Activates, database, history
  <2>5. Ledger'
    BY <1>0, <2>2, LedgerStays
  <2> QED
    BY <2>3, <2>4, <2>5
<1>10. ASSUME NEW r \in Requests, Commit(r) PROVE Goal
  <2>1. request' = [request EXCEPT ![r] = FreeRequest]
    BY <1>10 DEF Commit, Close
  <2>2. \A q \in Requests : ~Open(q)' /\ ~request'[q].rewarded
    BY <1>0, <1>10, <2>1 DEF Commit, Alone, Fresh, Open, FreeRequest, Typed, TypeOK
  <2>3. Alone' /\ \A q \in Requests : Fresh(q)'
    BY <2>2 DEF Alone, Fresh, Granting, Open
  <2>4. CASE Activates(request[r].ipn) /\ CommitActivation(r)
    BY <1>0, <1>10, <2>3, <2>4, CommitBooks
  <2>5. CASE ~Activates(request[r].ipn) /\ CommitStatus(r)
    <3>1. payment[request[r].ipn.order] # "processed" /\ request[r].ipn.status # "processed"
      BY <1>0, <1>10 DEF Commit, Fresh, Open, Typed, Carries, Ipn
    <3>2. \A q \in Payments : payment'[q] = "processed" <=> payment[q] = "processed"
      BY <2>5, <3>1 DEF CommitStatus, Typed, TypeOK
    <3> QED
      BY <1>0, <1>10, <2>3, <2>5, <3>2 DEF Commit, CommitStatus, Ledger, Booked, history, gateway
  <2> QED
    BY <1>10, <2>4, <2>5 DEF Commit
<1>11. CASE Restart
  <2>1. request' = [q \in Requests |-> IF q \in Requests THEN FreeRequest ELSE request[q]]
    BY <1>11 DEF Restart
  <2>2. UNCHANGED <<now, database, history>> /\ paid' = paid
    BY <1>11 DEF Restart, gateway
  <2> QED
    BY <1>0, <2>1, <2>2, ClosingStays, LedgerStays
<1>12. CASE UNCHANGED vars
  BY <1>0, <1>12 DEF vars, Alone, Fresh, Granting, Open, Ledger, Booked, database, history, gateway
<1> QED
  BY <1>1, <1>2, <1>3, <1>4, <1>5, <1>6, <1>7, <1>8, <1>9, <1>10, <1>11, <1>12
     DEF Next, Handle

\* The inductive invariant: the types, and the ledger until two requests overlap.
THEOREM Invariance == Spec => []IInv
<1>1. Init => IInv
  BY InitTyped, InitSerial DEF IInv
<1>2. IInv /\ [Next]_vars => IInv'
  BY TypedStep, SerialStep DEF IInv
<1> QED
  BY <1>1, <1>2, PTL DEF Spec

-----------------------------------------------------------------------------
\* Without an overlap no invoice grants its period twice.
THEOREM NoSecondGrant == Spec => []GrantedOnce
<1>1. IInv => GrantedOnce
  BY DEF IInv, Serial, Ledger, GrantedOnce
<1> QED
  BY <1>1, Invariance, PTL

\* Without an overlap paid periods add up.
THEOREM RenewalsAddUp == Spec => []PaidTimeServed
<1>1. IInv => PaidTimeServed
  <2> SUFFICES ASSUME IInv, ~raced, granted # {}
               PROVE  /\ now < began + Period * Cardinality(granted) => Active
                      /\ now < last + Period => Active
    BY DEF PaidTimeServed
  <2>1. Booked /\ granted \subseteq Payments
    BY DEF IInv, Serial, Ledger, Typed, TypeOK
  <2>2. Period * Cardinality(granted) \in Nat
    BY <2>1, SetOfPayments, PeriodProduct
  <2>3. now \in Nat /\ began \in Nat /\ last \in Nat /\ expires \in Nat
    BY BillingParameters, BoundType DEF IInv, Typed, TypeOK
  <2> QED
    BY <2>1, <2>2, <2>3, BillingParameters DEF Booked, Active
<1> QED
  BY <1>1, Invariance, PTL

\* Without an overlap nobody is served beyond what the gateway declared paid.
THEOREM NothingForFree == Spec => []NoFreeTime
<1>1. IInv => NoFreeTime
  <2> SUFFICES ASSUME IInv, ~raced, Entitled
               PROVE  now < last + Period * Cardinality(paid) + Grace
    BY DEF NoFreeTime
  <2>1. Ledger /\ granted \subseteq Payments /\ paid \subseteq Payments
    BY DEF IInv, Serial, Typed, TypeOK
  <2>2. Booked /\ granted \subseteq paid
    BY <2>1 DEF Ledger, Entitled
  <2>3. /\ Cardinality(granted) <= Cardinality(paid)
        /\ Cardinality(granted) \in Nat /\ Cardinality(paid) \in Nat
    BY <2>1, <2>2, SetOfPayments, FS_Subset
  <2>4. /\ Period * Cardinality(granted) <= Period * Cardinality(paid)
        /\ Period * Cardinality(granted) \in Nat /\ Period * Cardinality(paid) \in Nat
    BY <2>3, PeriodProduct
  <2>5. now \in Nat /\ last \in Nat /\ expires \in Nat
    BY BillingParameters, BoundType DEF IInv, Typed, TypeOK
  <2> QED
    BY <2>2, <2>4, <2>5, BillingParameters DEF Booked, Entitled
<1> QED
  BY <1>1, Invariance, PTL

\* Without an overlap the reward goes to the first payment.
THEOREM RewardForTheFirst == Spec => []RewardFollowsFirstPayment
<1>1. IInv => RewardFollowsFirstPayment
  BY DEF IInv, Serial, Ledger, RewardFollowsFirstPayment
<1> QED
  BY <1>1, Invariance, PTL

\* Without an overlap users are served for what they paid, no less and no more.
THEOREM TimeIsExact == Spec => []ServedAsPaid
  BY RenewalsAddUp, NothingForFree, PTL DEF ServedAsPaid

\* Without an overlap a payment is good for one period, and the first one, and
\* no other, for the reward (webhook.py, referral/service.py).
THEOREM PaymentsAreGoodOnce == Spec => []PaymentsCountOnce
  BY NoSecondGrant, RewardForTheFirst, PTL DEF PaymentsCountOnce
=============================================================================
