------------------------------ MODULE QrLogin ------------------------------
(***************************************************************************)
(* The QR logins in progress (collector/telegram/qr_login.py): a start     *)
(* connects a client and registers it under a token, polls watch the task  *)
(* that waits for the scan, and whatever ends a login takes it out of the  *)
(* registry and disconnects its client.                                    *)
(*                                                                         *)
(* One process and one event loop: what lies between two awaits is one     *)
(* step.  A start and the login it registers share a number, given in the  *)
(* order of the requests.  What becomes of the session a poll hands on is  *)
(* module PoolSessions; nothing calls cancel.                              *)
(***************************************************************************)
EXTENDS Integers, FiniteSets

CONSTANTS
  MaxStarts, \* bound: requests that start a login
  MaxPolls,  \* bound: polls handled at once
  AtOnce,    \* MAX_CONCURRENT_QR_LOGINS
  Lifetime,  \* qr_login_timeout_seconds
  LastHour   \* bound: the clock

ASSUME QrLoginParameters ==
  /\ MaxStarts \in Nat /\ MaxPolls \in Nat
  /\ AtOnce \in Nat \ {0} /\ Lifetime \in Nat /\ LastHour \in Nat

Logins == 1..MaxStarts
NoLogin == 0
Pollers == 1..MaxPolls

VARIABLES
  now,
  starting,  \* each start request: where it is, whom it reaps, whom it disconnects
  online,    \* the logins whose client is connected
  registry,  \* _registry
  deadline,  \* expires_at
  scan,      \* what the task that waits for the scan came to
  polling,   \* the polls under way
  crossed    \* history: a start passed the cap while another had passed it

qrVars == <<now, starting, online, registry, deadline, scan, polling, crossed>>

NoPoll == [at |-> "idle", l |-> NoLogin, says |-> ""]
NewStart == [at |-> "new", todo |-> {}, x |-> NoLogin]
Outcome == {"waiting", "authorized", "not yet", "failed", "cancelled"}

QrTypeOK ==
  /\ now \in 0..LastHour
  /\ starting \in [Logins -> [at : {"new", "reaping", "connecting", "asking", "undoing", "done"},
                              todo : SUBSET Logins, x : Logins \cup {NoLogin}]]
  /\ online \subseteq Logins /\ registry \subseteq Logins
  /\ deadline \in [Logins -> Nat]
  /\ scan \in [Logins -> Outcome]
  /\ polling \in [Pollers -> [at : {"idle", "yielding", "checking", "naming", "closing"},
                              l : Logins \cup {NoLogin},
                              says : {"", "expired", "error", "success"}]]
  /\ crossed \in BOOLEAN

QrInit ==
  /\ now = 0
  /\ starting = [l \in Logins |-> NewStart]
  /\ online = {} /\ registry = {}
  /\ deadline = [l \in Logins |-> 0]
  /\ scan = [l \in Logins |-> "waiting"]
  /\ polling = [p \in Pollers |-> NoPoll]
  /\ crossed = FALSE

Expired(l) == now >= deadline[l]

-----------------------------------------------------------------------------
(* The outside world.                                                      *)

ClockTicks ==
  /\ now < LastHour
  /\ now' = now + 1
  /\ UNCHANGED <<starting, online, registry, deadline, scan, polling, crossed>>

\* QRLogin.wait() ends: scanned, its token rotated, or refused (2FA, timeout).
ScanEnds(l) ==
  /\ l \in registry /\ scan[l] = "waiting"
  /\ \E o \in {"authorized", "not yet", "failed"} : scan' = [scan EXCEPT ![l] = o]
  /\ UNCHANGED <<now, starting, online, registry, deadline, polling, crossed>>

-----------------------------------------------------------------------------
(* _evict: out of the registry, the task drained, then disconnected.       *)

Popped(l) ==
  /\ registry' = registry \ {l}
  /\ scan' = [scan EXCEPT ![l] = IF @ = "waiting" THEN "cancelled" ELSE @]

-----------------------------------------------------------------------------
(* start().                                                                *)

\* Past the cap, not yet registered.
Underway == {l \in Logins : starting[l].at \in {"connecting", "asking", "undoing"}}

FullUp(reg) == Cardinality(reg) >= AtOnce

\* The check after the reap, or the first one.
Admit(l, reg) ==
  /\ starting' = [starting EXCEPT ![l] =
                    [NewStart EXCEPT !.at = IF FullUp(reg) THEN "done" ELSE "connecting"]]
  /\ crossed' = (crossed \/ (~FullUp(reg) /\ Underway # {}))

Reap(l, x, todo) ==
  /\ Popped(x)
  /\ starting' = [starting EXCEPT ![l] = [at |-> "reaping", todo |-> todo \ {x}, x |-> x]]
  /\ UNCHANGED crossed

StartLogin(l) ==
  LET stale == {x \in registry : Expired(x)}
  IN  /\ starting[l].at = "new" /\ \A k \in 1..l - 1 : starting[k].at # "new"
      /\ IF FullUp(registry) /\ stale # {}
         THEN \E x \in stale : Reap(l, x, stale)
         ELSE Admit(l, registry) /\ UNCHANGED <<registry, scan>>
      /\ UNCHANGED <<now, online, deadline, polling>>

\* A reaped login is disconnected; then comes the next one, or the second check.
Reaped(l) ==
  LET s == starting[l]
  IN  /\ s.at = "reaping"
      /\ online' = online \ {s.x}
      /\ IF s.todo # {}
         THEN \E x \in s.todo : Reap(l, x, s.todo)
         ELSE Admit(l, registry) /\ UNCHANGED <<registry, scan>>
      /\ UNCHANGED <<now, deadline, polling>>

Connect(l) ==
  /\ starting[l].at = "connecting"
  /\ \/ /\ online' = online \cup {l}
        /\ starting' = [starting EXCEPT ![l].at = "asking"]
     \/ /\ starting' = [starting EXCEPT ![l].at = "done"]
        /\ UNCHANGED online
  /\ UNCHANGED <<now, registry, deadline, scan, polling, crossed>>

Register(l) ==
  /\ starting[l].at = "asking"
  /\ registry' = registry \cup {l}
  /\ deadline' = [deadline EXCEPT ![l] = now + Lifetime]
  /\ starting' = [starting EXCEPT ![l].at = "done"]
  /\ UNCHANGED <<now, online, scan, polling, crossed>>

\* A plausible bug: the client of a login that failed stays connected.
LeftConnected(l) == starting' = [starting EXCEPT ![l].at = "done"] /\ UNCHANGED online
Disconnected(l) == starting' = [starting EXCEPT ![l].at = "undoing"] /\ UNCHANGED online

\* qr_login() fails: the client is disconnected before the error goes on.
AskFails(l) ==
  /\ starting[l].at = "asking"
  /\ Disconnected(l)
  /\ UNCHANGED <<now, registry, deadline, scan, polling, crossed>>

Undone(l) ==
  /\ starting[l].at = "undoing"
  /\ online' = online \ {l}
  /\ starting' = [starting EXCEPT ![l].at = "done"]
  /\ UNCHANGED <<now, registry, deadline, scan, polling, crossed>>

-----------------------------------------------------------------------------
(* poll().                                                                 *)

PollAt(p, place) == polling' = [polling EXCEPT ![p].at = place]
Answer(p) == polling' = [polling EXCEPT ![p] = NoPoll]

Evict(p, l, says) ==
  /\ Popped(l)
  /\ polling' = [polling EXCEPT ![p] = [at |-> "closing", l |-> l, says |-> says]]

\* What a poll makes of a task that is done.  A cancelled one makes it raise.
Resolve(p, l) ==
  CASE scan[l] = "failed" -> Evict(p, l, "error")
    [] scan[l] = "authorized" -> /\ polling' = [polling EXCEPT ![p] = [NoPoll EXCEPT !.at = "checking", !.l = l]]
                                 /\ UNCHANGED <<registry, scan>>
    [] OTHER -> Answer(p) /\ UNCHANGED <<registry, scan>>

\* An unknown token is answered at once; one past its deadline is evicted.
BeginPoll(p, l) ==
  /\ polling[p].at = "idle"
  /\ l \in registry
  /\ IF Expired(l) THEN Evict(p, l, "expired")
     ELSE IF scan[l] = "waiting"
       THEN /\ polling' = [polling EXCEPT ![p] = [NoPoll EXCEPT !.at = "yielding", !.l = l]]
            /\ UNCHANGED <<registry, scan>>
       ELSE Resolve(p, l)
  /\ UNCHANGED <<now, starting, online, deadline, crossed>>

\* sleep(0), and the task's state is read again: still waiting is pending.
Yielded(p) ==
  /\ polling[p].at = "yielding"
  /\ Resolve(p, polling[p].l)
  /\ UNCHANGED <<now, starting, online, deadline, crossed>>

\* is_user_authorized: not yet is pending; without connection the poll raises.
Checked(p) ==
  /\ polling[p].at = "checking"
  /\ \/ polling[p].l \in online /\ PollAt(p, "naming")
     \/ Answer(p)
  /\ UNCHANGED <<now, starting, online, registry, deadline, scan, crossed>>

\* get_me: without an identity the session is not handed on.
NamedOrNot(p) ==
  /\ polling[p].at = "naming"
  /\ \/ polling[p].l \in online /\ Evict(p, polling[p].l, "success")
     \/ Evict(p, polling[p].l, "error")
  /\ UNCHANGED <<now, starting, online, deadline, crossed>>

\* The client is disconnected, and the poll answers.
Closed(p) ==
  /\ polling[p].at = "closing"
  /\ online' = online \ {polling[p].l}
  /\ Answer(p)
  /\ UNCHANGED <<now, starting, registry, deadline, scan, crossed>>

QrNext ==
  \/ ClockTicks \/ \E l \in Logins : ScanEnds(l)
  \/ \E l \in Logins : \/ StartLogin(l) \/ Reaped(l) \/ Connect(l)
                       \/ Register(l) \/ AskFails(l) \/ Undone(l)
  \/ \E p \in Pollers : \/ Yielded(p) \/ Checked(p) \/ NamedOrNot(p) \/ Closed(p)
                        \/ \E l \in Logins : BeginPoll(p, l)

-----------------------------------------------------------------------------
(* Properties.                                                             *)

\* Every connected client is in the registry, where a poll or a reap can find it,
\* or in the hands of a start, a poll or a reap that will disconnect it - whatever
\* polls and reaps end the same login side by side; and the registry exceeds its
\* cap only if a start passed the check while another was still connecting.
\* (start: "so the connected client cannot leak"; "bound the in-process registry".)
LoginsAccounted ==
  /\ \A l \in online :
       \/ l \in registry
       \/ starting[l].at \in {"asking", "undoing"}
       \/ \E s \in Logins : starting[s].at = "reaping" /\ starting[s].x = l
       \/ \E p \in Pollers : polling[p].at = "closing" /\ polling[p].l = l
  /\ ~crossed => Cardinality(registry) <= AtOnce
=============================================================================
