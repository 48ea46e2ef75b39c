------------------------------- MODULE Supply -------------------------------
(***************************************************************************)
(* What the account factory pays for while it makes an account: a number   *)
(* of an SMS provider (factory/providers/smspva.py), a proxy port that is  *)
(* leased for it (factory/proxy/mobileproxy.py) or taken from a fixed pool *)
(* (factory/service.py), and the account that Telegram registers on them   *)
(* (factory/registrar/telethon.py), called one after the other by          *)
(* factory/tasks.py (_provision); and the operators' list of the accounts  *)
(* (api/routes/factory.py).                                                *)
(*                                                                         *)
(* A call may be refused, get lost on its way there, or get lost with its  *)
(* answer.  An answer that cannot be read is an answer lost.  Ticks run    *)
(* side by side; what one books is seen when its transaction commits, and  *)
(* an error rolls it back.  The budget and the races over promotions are   *)
(* module Factory's.                                                       *)
(***************************************************************************)
EXTENDS Reckoning, Sequences, FiniteSetsExt

CONSTANTS
  Attempts,   \* bound: the accounts that are tried, each in a tick of its own
  NumProxies, \* the fixed pool, in its order
  MaxWaits    \* how often poll_code asks within its timeout

ASSUME SupplyParameters ==
  /\ IsFiniteSet(Attempts) /\ NumProxies \in Nat /\ MaxWaits \in Nat \ {0}

VARIABLES
  leasing,  \* there is a ProxyProvider; the fixed pool is not used then
  number,   \* the order at the SMS provider
  port,     \* the port at the proxy provider
  signed,     \* the accounts that Telegram has registered
  booked,   \* factory_accounts.state as committed, "none": no row
  attempt,  \* where the tick is
  astray,   \* history: what a lost call, or a tick that dies or rolls back, leaves unsettled
  beside,   \* history: attempts under way or promoted when this one chose a proxy
  listing   \* the request for the list, one of which is followed

supplyVars == <<leasing, number, port, signed, booked, attempt, astray, beside, listing>>

Costs == {"number", "port", "account"}
Steps == {"off", "buy", "allocate", "connect", "code", "sign in", "sign up", "me",
          "finish", "cancel", "release", "book", "over", "reject"}
NoAttempt == [at |-> "off", proxy |-> 0, lease |-> FALSE, waits |-> 0, why |-> "none"]
\* FACTORY_STATES; purchased, registered and banned are never committed.
States == {"probation", "promoted", "failed"}
NoListing == [left |-> {}, seen |-> {}, had |-> {}, moved |-> {}]

SupplyTypeOK ==
  /\ leasing \in BOOLEAN
  /\ number \in [Attempts -> {"none", "open", "used", "cancelled"}]
  /\ port \in [Attempts -> {"none", "held", "released"}]
  /\ signed \subseteq Attempts
  /\ booked \in [Attempts -> States \cup {"none"}]
  /\ attempt \in [Attempts -> [at : Steps, proxy : 0..NumProxies, lease : BOOLEAN,
                               waits : 0..MaxWaits, why : {"none", "timeout", "error"}]]
  /\ astray \in [Attempts -> SUBSET Costs]
  /\ beside \in [Attempts -> SUBSET Attempts]
  /\ listing \in [left : SUBSET States, seen : SUBSET (Attempts \X States),
                  had : SUBSET Attempts, moved : SUBSET Attempts]

SupplyInit ==
  /\ leasing \in BOOLEAN
  /\ number = [a \in Attempts |-> "none"] /\ port = [a \in Attempts |-> "none"]
  /\ signed = {} /\ booked = [a \in Attempts |-> "none"]
  /\ attempt = [a \in Attempts |-> NoAttempt]
  /\ astray = [a \in Attempts |-> {}] /\ beside = [a \in Attempts |-> {}]
  /\ listing = NoListing

-----------------------------------------------------------------------------
Goes(a, step) ==
  attempt' = [attempt EXCEPT ![a].at = step, ![a].waits = 0,
                             ![a].why = IF step = "over" THEN "none" ELSE @]
\* An error is raised: the number is given back first.
Raises(a, why) ==
  attempt' = [attempt EXCEPT ![a].at = "cancel", ![a].waits = 0, ![a].why = why]
Loses(a, cost) == astray' = [astray EXCEPT ![a] = @ \cup {cost}]

UnderWay(a) == attempt[a].at \notin {"off", "reject", "over"}

\* _used_proxies: a promoted account's proxy counts as free again.
Used == {attempt[a].proxy : a \in {b \in Attempts : booked[b] = "probation"}}

\* The beat or the operators' button starts a tick; the pool is short, the budget
\* allows.  assign_proxy takes the first free proxy; if all are used nothing is
\* bought, if there are none the account does without.
StartAttempt(a) ==
  /\ attempt[a].at = "off"
  /\ LET free == (1..NumProxies) \ Used
     IN  attempt' = [attempt EXCEPT
           ![a].proxy = IF leasing \/ free = {} THEN 0 ELSE Min(free),
           ![a].at = IF ~leasing /\ NumProxies > 0 /\ free = {} THEN "over" ELSE "buy"]
  /\ beside' = [beside EXCEPT ![a] =
       {b \in Attempts \ {a} : ~leasing /\ (UnderWay(b) \/ booked[b] = "promoted")}]
  /\ UNCHANGED <<leasing, number, port, signed, booked, astray, listing>>

\* buy_number: a number, none, or one whose order nobody knows.
BuyNumber(a) ==
  /\ attempt[a].at = "buy"
  /\ \/ /\ Goes(a, IF leasing THEN "allocate" ELSE "connect")
        /\ number' = [number EXCEPT ![a] = "open"]
        /\ UNCHANGED astray
     \/ Goes(a, "over") /\ UNCHANGED <<number, astray>>
     \/ /\ Goes(a, "over")
        /\ number' = [number EXCEPT ![a] = "open"]
        /\ Loses(a, "number")
  /\ UNCHANGED <<leasing, port, signed, booked, beside, listing>>

\* allocate; an incomplete answer has leased a port without naming it.
Allocate(a) ==
  /\ attempt[a].at = "allocate"
  /\ \/ /\ attempt' = [attempt EXCEPT ![a].at = "connect", ![a].lease = TRUE]
        /\ port' = [port EXCEPT ![a] = "held"]
        /\ UNCHANGED astray
     \/ Raises(a, "error") /\ UNCHANGED <<port, astray>>
     \/ /\ Raises(a, "error")
        /\ port' = [port EXCEPT ![a] = "held"]
        /\ Loses(a, "port")
  /\ UNCHANGED <<leasing, number, signed, booked, beside, listing>>

\* connect and send_code_request.
SendCode(a) ==
  /\ attempt[a].at = "connect"
  /\ Goes(a, "code") \/ Raises(a, "error")
  /\ UNCHANGED <<leasing, number, port, signed, booked, astray, beside, listing>>

\* poll_code: the code, not yet, no more time or a stale order, any other answer.
PollCode(a) ==
  /\ attempt[a].at = "code"
  /\ \/ Goes(a, "sign in")
     \/ /\ attempt[a].waits < MaxWaits
        /\ attempt' = [attempt EXCEPT ![a].waits = @ + 1]
     \/ Raises(a, "timeout") \/ Raises(a, "error")
  /\ UNCHANGED <<leasing, number, port, signed, booked, astray, beside, listing>>

\* sign_in, and sign_up when the number has no account yet.
Sign(a) ==
  /\ attempt[a].at \in {"sign in", "sign up"}
  /\ \/ Goes(a, "me") /\ signed' = signed \cup {a} /\ UNCHANGED astray
     \/ attempt[a].at = "sign in" /\ Goes(a, "sign up") /\ UNCHANGED <<signed, astray>>
     \/ Raises(a, "error") /\ UNCHANGED <<signed, astray>>
     \/ Raises(a, "error") /\ signed' = signed \cup {a} /\ Loses(a, "account")
  /\ UNCHANGED <<leasing, number, port, booked, beside, listing>>

\* get_me and disconnect: an error here gives the number back that the account
\* has just been registered with.
GetMe(a) ==
  /\ attempt[a].at = "me"
  /\ \/ Goes(a, "finish") /\ UNCHANGED astray
     \/ Raises(a, "error") /\ Loses(a, "account")
  /\ UNCHANGED <<leasing, number, port, signed, booked, beside, listing>>

\* finish, best effort.
Finish(a) ==
  /\ attempt[a].at = "finish"
  /\ Goes(a, "book")
  /\ \/ number' = [number EXCEPT ![a] = "used"] /\ UNCHANGED astray
     \/ UNCHANGED number /\ Loses(a, "number")
  /\ UNCHANGED <<leasing, port, signed, booked, beside, listing>>

\* SmsCodeTimeoutError is booked as a failed account, other errors end the tick.
Settles(a) == IF attempt[a].why = "timeout" THEN "book" ELSE "over"

\* A plausible bug: the error goes on before the port is given back.
AfterCancelDone(a) == Settles(a)
AfterCancel(a) == IF attempt[a].lease THEN "release" ELSE Settles(a)

\* cancel, best effort.
Cancel(a) ==
  /\ attempt[a].at = "cancel"
  /\ Goes(a, AfterCancel(a))
  /\ \/ number' = [number EXCEPT ![a] = "cancelled"] /\ UNCHANGED astray
     \/ UNCHANGED number /\ Loses(a, "number")
  /\ UNCHANGED <<leasing, port, signed, booked, beside, listing>>

\* release, best effort.
GivesBack(a) ==
  \/ port' = [port EXCEPT ![a] = "released"] /\ UNCHANGED astray
  \/ UNCHANGED port /\ Loses(a, "port")

ReleasePort(a) ==
  /\ attempt[a].at = "release"
  /\ Goes(a, Settles(a))
  /\ GivesBack(a)
  /\ UNCHANGED <<leasing, number, signed, booked, beside, listing>>

\* The row is written and the tick commits.
Book(a) ==
  /\ attempt[a].at = "book"
  /\ Goes(a, "over")
  /\ booked' = [booked EXCEPT ![a] =
       IF attempt[a].why = "timeout" THEN "failed" ELSE "probation"]
  /\ UNCHANGED <<leasing, number, port, signed, astray, beside, listing>>

\* The process dies, or the transaction is rolled back.
AttemptDies(a) ==
  /\ UnderWay(a)
  /\ Goes(a, "over")
  /\ astray' = [astray EXCEPT ![a] = Costs]
  /\ UNCHANGED <<leasing, number, port, signed, booked, beside, listing>>

Shifts(a, state) ==
  /\ booked[a] = "probation"
  /\ booked' = [booked EXCEPT ![a] = state]
  /\ listing' = [listing EXCEPT !.moved = IF listing.left = {} THEN @ ELSE @ \cup {a}]
  /\ UNCHANGED <<leasing, number, signed, beside>>

\* A later tick promotes the account ...
Promoted(a) ==
  /\ attempt[a].at = "over" /\ Shifts(a, "promoted")
  /\ UNCHANGED <<attempt, port, astray>>

\* ... or finds that it cannot read: its row is locked by the UPDATE, its port given
\* back, and the rest of the tick goes on ...
Rejects(a) ==
  /\ attempt[a].at = "over" /\ booked[a] = "probation"
  /\ Goes(a, "reject")
  /\ IF attempt[a].lease THEN GivesBack(a) ELSE UNCHANGED <<port, astray>>
  /\ UNCHANGED <<leasing, number, signed, booked, beside, listing>>

\* ... to its commit ...
Rejected(a) ==
  /\ attempt[a].at = "reject" /\ Goes(a, "over") /\ Shifts(a, "failed")
  /\ UNCHANGED <<port, astray>>

\* ... or to an error at a later row: the account is on probation again, without a port.
RejectionLost(a) ==
  /\ attempt[a].at = "reject" /\ Goes(a, "over")
  /\ IF attempt[a].lease THEN Loses(a, "port") ELSE UNCHANGED astray
  /\ UNCHANGED <<leasing, number, port, signed, booked, beside, listing>>

-----------------------------------------------------------------------------
\* list_factory_accounts: a SELECT for each state, in the order of a frozenset,
\* which is any.
AskForList ==
  /\ listing.left = {}
  /\ listing' = [NoListing EXCEPT !.left = States,
                     !.had = {a \in Attempts : booked[a] # "none"}]
  /\ UNCHANGED <<leasing, number, port, signed, booked, attempt, astray, beside>>

ReadState(state) ==
  /\ state \in listing.left
  /\ listing' = [listing EXCEPT !.left = @ \ {state},
                   !.seen = @ \cup ({a \in Attempts : booked[a] = state} \X {state})]
  /\ UNCHANGED <<leasing, number, port, signed, booked, attempt, astray, beside>>

SupplyNext ==
  \/ AskForList \/ \E state \in States : ReadState(state)
  \/ \E a \in Attempts :
       \/ StartAttempt(a) \/ BuyNumber(a) \/ Allocate(a) \/ SendCode(a) \/ PollCode(a)
       \/ Sign(a) \/ GetMe(a) \/ Finish(a) \/ Cancel(a) \/ ReleasePort(a) \/ Book(a)
       \/ AttemptDies(a) \/ Promoted(a)
       \/ Rejects(a) \/ Rejected(a) \/ RejectionLost(a)

-----------------------------------------------------------------------------
(* Properties.                                                             *)

\* When an attempt is over the number is given back, or used for an account; a port
\* is held for a live account alone, never without a number while the attempt goes
\* on; and an account that Telegram has registered is in the books.  This holds for
\* whatever of it no lost call, no error after the registration and no tick that dies or
\* rolls back concerns (_provision: "so neither cost leaks").
NothingPaidLeaks ==
  \A a \in Attempts :
    LET over == attempt[a].at = "over"
        alive == booked[a] \in {"probation", "promoted"}
    IN  /\ over /\ "number" \notin astray[a] =>
             number[a] = IF a \in signed /\ booked[a] # "none" THEN "used"
                         ELSE IF number[a] = "none" THEN "none" ELSE "cancelled"
        /\ over /\ "port" \notin astray[a] => (port[a] = "held" <=> leasing /\ alive)
        /\ over /\ "account" \notin astray[a] /\ a \in signed => booked[a] # "none"
        /\ alive => a \in signed
        /\ ~over /\ port[a] = "held" => number[a] # "none"

\* Two live accounts share a proxy of the fixed pool only when one was bought beside
\* the other, or after the other's promotion (_used_proxies leaves that one out).
SharedOnlyBeside ==
  \A a, b \in Attempts :
    /\ a # b /\ attempt[a].proxy = attempt[b].proxy /\ attempt[a].proxy # 0
    /\ {booked[a], booked[b]} \subseteq {"probation", "promoted"}
    => a \in beside[b] \/ b \in beside[a]

\* The list has every account that was there when it was asked for, once, unless
\* that was promoted or rejected meanwhile: then it may be missing or be there twice
\* (list_factory_accounts: "all factory accounts across every state").
ListWhole ==
  listing.left = {} =>
    \A a \in listing.had \ listing.moved :
      Cardinality({r \in listing.seen : r[1] = a}) = 1

\* What is paid for is used or given back, by one account at a time, and shown.
SupplyHolds == NothingPaidLeaks /\ SharedOnlyBeside /\ ListWhole
=============================================================================
