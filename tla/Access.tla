------------------------------- MODULE Access -------------------------------
(***************************************************************************)
(* How a user comes in: by a referral link, a registration and the mail    *)
(* that verifies it (api/auth/users.py, api/referral/router.py,            *)
(* referral/service.py), and, on a plan that has it, by API keys           *)
(* (api/api_keys/, api/auth/api_key.py, billing/limits.py).                *)
(*                                                                         *)
(* Requests run side by side, each in a transaction of its own.  A SELECT  *)
(* sees what is committed; an UPDATE of a row that another transaction has *)
(* written waits for it, and writes the columns that were assigned.        *)
(* Registrations and keys touch different rows and are followed one at a   *)
(* time.                                                                   *)
(***************************************************************************)
EXTENDS Integers, FiniteSets

CONSTANTS
  ApiKeys,    \* bound: keys of one user
  Callers,    \* bound: requests under way
  Throttle,   \* _LAST_USED_THROTTLE_SECONDS
  PlanTerm,   \* how long a payment gives the plan, its grace included
  LastHourOf, \* bound: the clock
  Newcomers,  \* bound: users who register with the link
  MaxCodes,   \* bound: referral codes are 1..MaxCodes, 0 for none
  Never

ASSUME AccessParameters ==
  /\ IsFiniteSet(ApiKeys) /\ IsFiniteSet(Callers) /\ IsFiniteSet(Newcomers)
  /\ Throttle \in Nat /\ PlanTerm \in Nat \ {0} /\ LastHourOf \in Nat /\ MaxCodes \in Nat
  /\ Never \notin ApiKeys \cup Newcomers /\ Never \notin 0..LastHourOf

VARIABLES
  time,
  planEnds,  \* when the plan with API_ACCESS and its grace are over
  key,       \* api_keys as committed
  call,      \* the requests with, or about, a key
  gone,      \* history: keys whose revocation has been committed
  beyond,    \* history: keys that were used across another request's use
  servedAt   \* history: when a key was last let through

keyVars == <<time, planEnds, key, call, gone, beyond, servedAt>>

VARIABLES
  owner,     \* the user whose link it is: there, or deleted
  code,      \* his users.ref_code
  asking,    \* his requests for the link: what each has read and written
  shown,     \* history: the codes he was shown
  twice,     \* history: two requests have made a code side by side
  newcomer,  \* those who register
  verifying, \* the requests with a verification token: whose, and where
  welcomed,  \* history: welcome mails of a newcomer
  together   \* history: newcomers verified by two requests side by side

signupVars == <<owner, code, asking, shown, twice, newcomer, verifying, welcomed, together>>
accessVars == <<keyVars, signupVars>>

Hours == 0..LastHourOf
KeyRow == [there : BOOLEAN, revoked : Hours \cup {Never}, used : Hours \cup {Never}]
NoKey == [there |-> FALSE, revoked |-> Never, used |-> Never]
NoCall == [at |-> "off", key |-> Never, read |-> NoKey, now |-> 0]
NoAsking == [at |-> "off", code |-> 0]
Unborn == [at |-> "off", link |-> 0, by |-> FALSE, good |-> FALSE,
           verified |-> FALSE]

AccessTypeOK ==
  /\ time \in Hours /\ planEnds \in 0..(LastHourOf + PlanTerm)
  /\ key \in [ApiKeys -> KeyRow]
  /\ call \in [Callers -> [at : {"off", "matched", "use", "used", "revoke", "revoked"},
                           key : ApiKeys \cup {Never}, read : KeyRow, now : Hours]]
  /\ gone \subseteq ApiKeys /\ beyond \subseteq ApiKeys
  /\ servedAt \in [ApiKeys -> Hours \cup {Never}]
  /\ owner \in {"there", "deleted"} /\ code \in 0..MaxCodes
  /\ asking \in [Callers -> [at : {"off", "read", "written"}, code : 0..MaxCodes]]
  /\ shown \subseteq 1..MaxCodes /\ twice \in BOOLEAN
  /\ newcomer \in [Newcomers -> [at : {"off", "bind", "write", "done"}, link : 0..MaxCodes,
                                 by : BOOLEAN, good : BOOLEAN,
                                 verified : BOOLEAN]]
  /\ verifying \in [Callers -> Newcomers \cup {Never}]
  /\ welcomed \in [Newcomers -> 0..Cardinality(Callers)] /\ together \subseteq Newcomers

AccessInit ==
  /\ time = 0 /\ planEnds = PlanTerm /\ key = [k \in ApiKeys |-> NoKey]
  /\ call = [q \in Callers |-> NoCall] /\ gone = {} /\ beyond = {}
  /\ servedAt = [k \in ApiKeys |-> Never]
  /\ owner = "there" /\ code = 0 /\ asking = [q \in Callers |-> NoAsking]
  /\ shown = {} /\ twice = FALSE
  /\ newcomer = [n \in Newcomers |-> Unborn]
  /\ verifying = [q \in Callers |-> Never]
  /\ welcomed = [n \in Newcomers |-> 0] /\ together = {}

-----------------------------------------------------------------------------
(* API keys.                                                               *)

HourPasses ==
  /\ time < LastHourOf
  /\ time' = time + 1
  /\ UNCHANGED <<planEnds, key, call, gone, beyond, servedAt>>

Renew ==
  /\ planEnds <= time
  /\ planEnds' = time + PlanTerm
  /\ UNCHANGED <<time, key, call, gone, beyond, servedAt>>

\* effective_plan and assert_within_limit(API_ACCESS).
HasAccess == planEnds > time

\* create_api_key, which commits before the key is of any use.
CreateKey(k) ==
  /\ HasAccess /\ ~key[k].there
  /\ key' = [key EXCEPT ![k].there = TRUE]
  /\ UNCHANGED <<time, planEnds, call, gone, beyond, servedAt>>

On(k) == {q \in Callers : call[q].key = k}
Writing(k) == {q \in On(k) : call[q].at \in {"used", "revoked"}}

\* resolve_api_key finds a key that is not revoked; no other one is let through.
MatchKey(q, k) ==
  /\ call[q].at = "off" /\ key[k].there /\ key[k].revoked = Never
  /\ call' = [call EXCEPT ![q] = [at |-> "matched", key |-> k, read |-> key[k], now |-> 0]]
  /\ beyond' = IF \E p \in On(k) : call[p].at \in {"matched", "use", "used"}
               THEN beyond \cup {k} ELSE beyond
  /\ UNCHANGED <<time, planEnds, key, gone, servedAt>>

\* last_used_at is written when it is old enough.
UseDue(q) == call[q].read.used = Never \/ time - call[q].read.used >= Throttle

Serves(q) == servedAt' = [servedAt EXCEPT ![call[q].key] = time]

\* The downgrade gate, and the throttle.
CheckPlan(q) ==
  /\ call[q].at = "matched"
  /\ IF ~HasAccess
     THEN call' = [call EXCEPT ![q] = NoCall] /\ UNCHANGED servedAt
     ELSE /\ call' = [call EXCEPT ![q] = IF UseDue(q) THEN [@ EXCEPT !.at = "use", !.now = time]
                                                      ELSE NoCall]
          /\ Serves(q)
  /\ UNCHANGED <<time, planEnds, key, gone, beyond>>

\* revoke_api_key, by the owner, of any key of his.
StartRevoke(q, k) ==
  /\ call[q].at = "off" /\ key[k].there
  /\ call' = [call EXCEPT ![q] = [at |-> "revoke", key |-> k, read |-> key[k], now |-> time]]
  /\ UNCHANGED <<time, planEnds, key, gone, beyond, servedAt>>

\* The flush waits for the row.
FlushKey(q) ==
  /\ call[q].at \in {"use", "revoke"}
  /\ Writing(call[q].key) = {}
  /\ call' = [call EXCEPT ![q].at = IF @ = "use" THEN "used" ELSE "revoked"]
  /\ UNCHANGED <<time, planEnds, key, gone, beyond, servedAt>>

\* A plausible bug: the row is written as it was read.
RowAsRead(q) ==
  IF call[q].at = "used" THEN [call[q].read EXCEPT !.used = call[q].now]
                         ELSE [call[q].read EXCEPT !.revoked = call[q].now]
\* The column that was assigned.
RowAssigned(q) ==
  IF call[q].at = "used" THEN [key[call[q].key] EXCEPT !.used = call[q].now]
                         ELSE [key[call[q].key] EXCEPT !.revoked = call[q].now]

CommitKey(q) ==
  LET k == call[q].key
  IN  /\ call[q].at \in {"used", "revoked"}
      /\ key' = [key EXCEPT ![k] = RowAssigned(q)]
      /\ gone' = IF call[q].at = "revoked" THEN gone \cup {k} ELSE gone
      /\ call' = [call EXCEPT ![q] = NoCall]
      /\ UNCHANGED <<time, planEnds, beyond, servedAt>>

\* The request fails and is rolled back.
CallFails(q) ==
  /\ call[q].at \in {"use", "used", "revoke", "revoked"}
  /\ call' = [call EXCEPT ![q] = NoCall]
  /\ beyond' = IF call[q].at \in {"use", "used"} THEN beyond \cup {call[q].key} ELSE beyond
  /\ UNCHANGED <<time, planEnds, key, gone, servedAt>>

KeysNext ==
  \/ HourPasses \/ Renew
  \/ \E k \in ApiKeys : CreateKey(k) \/ \E q \in Callers : MatchKey(q, k) \/ StartRevoke(q, k)
  \/ \E q \in Callers : CheckPlan(q) \/ FlushKey(q) \/ CommitKey(q) \/ CallFails(q)

-----------------------------------------------------------------------------
(* Links, registrations and verifications.                                 *)

SameOwner == UNCHANGED <<newcomer, verifying, welcomed, together>>

Made == shown \cup {code} \cup {asking[q].code : q \in Callers}

\* get_or_create_ref_code: the code there is, or a new one.
AskLink(q) ==
  /\ asking[q].at = "off" /\ owner = "there"
  /\ \/ /\ code # 0
        /\ shown' = shown \cup {code}
        /\ UNCHANGED <<asking, twice>>
     \/ /\ code = 0
        /\ \E c \in (1..MaxCodes) \ Made :
             /\ \A d \in (1..MaxCodes) \ Made : c <= d
             /\ asking' = [asking EXCEPT ![q] = [at |-> "read", code |-> c]]
        /\ twice' = (twice \/ \E p \in Callers : asking[p].at # "off")
        /\ UNCHANGED shown
  /\ UNCHANGED <<owner, code>> /\ SameOwner

\* The flush waits for another request's; a deleted user's row is no more.
FlushLink(q) ==
  /\ asking[q].at = "read" /\ owner = "there"
  /\ \A p \in Callers : asking[p].at # "written"
  /\ asking' = [asking EXCEPT ![q].at = "written"]
  /\ UNCHANGED <<owner, code, shown, twice>> /\ SameOwner

\* The commit, and the link is shown; or the request fails.
ShowLink(q) ==
  /\ asking[q].at = "written"
  /\ code' = asking[q].code
  /\ shown' = shown \cup {asking[q].code}
  /\ asking' = [asking EXCEPT ![q] = NoAsking]
  /\ UNCHANGED <<owner, twice>> /\ SameOwner

LinkFails(q) ==
  /\ asking[q].at # "off"
  /\ asking' = [asking EXCEPT ![q] = NoAsking]
  /\ UNCHANGED <<owner, code, shown, twice>> /\ SameOwner

\* ON DELETE SET NULL.
DeleteOwner ==
  /\ owner = "there"
  /\ \A q \in Callers : asking[q].at # "written"
  /\ owner' = "deleted" /\ code' = 0
  /\ newcomer' = [n \in Newcomers |-> [newcomer[n] EXCEPT !.by = FALSE]]
  /\ UNCHANGED <<asking, shown, twice, verifying, welcomed, together>>

SameLinks == UNCHANGED <<owner, code, asking, shown, twice>>

\* The user is committed; on_after_register begins, with the link of its body.
Register(n, c) ==
  /\ newcomer[n].at = "off"
  /\ newcomer' = [newcomer EXCEPT ![n].at = "bind", ![n].link = c]
  /\ SameLinks /\ UNCHANGED <<verifying, welcomed, together>>

\* _bind_referral: resolve_referrer_id.
Resolve(n) ==
  /\ newcomer[n].at = "bind"
  /\ newcomer' = [newcomer EXCEPT
       ![n].at = IF newcomer[n].link = code THEN "write" ELSE "done",
       ![n].good = newcomer[n].link = code]
  /\ SameLinks /\ UNCHANGED <<verifying, welcomed, together>>

\* referred_by and the commit; an owner deleted meanwhile is no longer there to
\* refer to, and any error leaves the newcomer without.
Bind(n) ==
  /\ newcomer[n].at = "write"
  /\ \/ newcomer' = [newcomer EXCEPT ![n].at = "done", ![n].by = owner = "there"]
     \/ newcomer' = [newcomer EXCEPT ![n].at = "done", ![n].good = FALSE]
  /\ SameLinks /\ UNCHANGED <<verifying, welcomed, together>>

\* verify: a user who is verified already is refused.
StartVerify(q, n) ==
  /\ verifying[q] = Never /\ newcomer[n].at = "done" /\ ~newcomer[n].verified
  /\ together' = IF \E p \in Callers : verifying[p] = n THEN together \cup {n} ELSE together
  /\ verifying' = [verifying EXCEPT ![q] = n]
  /\ SameLinks /\ UNCHANGED <<newcomer, welcomed>>

\* The user is verified.
Mark(n) == newcomer' = [newcomer EXCEPT ![n].verified = TRUE]

\* is_verified is committed, and on_after_verify sends the welcome mail.
Verify(q) ==
  LET n == verifying[q]
  IN  /\ n # Never
      /\ Mark(n)
      /\ welcomed' = [welcomed EXCEPT ![n] = @ + 1]
      /\ verifying' = [verifying EXCEPT ![q] = Never]
      /\ SameLinks /\ UNCHANGED together

SignupNext ==
  \/ DeleteOwner
  \/ \E q \in Callers :
       \/ AskLink(q) \/ FlushLink(q) \/ ShowLink(q) \/ LinkFails(q) \/ Verify(q)
       \/ \E n \in Newcomers : StartVerify(q, n)
  \/ \E n \in Newcomers : Resolve(n) \/ Bind(n) \/ \E c \in shown : Register(n, c)

-----------------------------------------------------------------------------
(* Properties.                                                             *)

\* A key whose revocation is committed lets nobody in again, though requests that
\* had matched it before write the same row afterwards; and a use that no other
\* one crossed is no further from last_used_at than the throttle allows.
KeysHold ==
  /\ \A k \in gone : key[k].revoked # Never
  /\ \A k \in ApiKeys \ beyond :
       servedAt[k] # Never /\ (\A q \in On(k) : call[q].at \notin {"use", "used"})
         => key[k].used # Never /\ servedAt[k] - key[k].used <= Throttle

\* A link that was shown is its owner's until he is deleted, unless he asked for
\* his first one twice at once; whoever came by it then, with no error, is bound to
\* him; and one welcome mail is sent (users.py: "Exactly-once"), unless two requests
\* verify the same user at once.
SignupsHold ==
  /\ owner = "there" /\ ~twice => shown \subseteq {code}
  /\ \A n \in Newcomers :
       /\ newcomer[n].at = "done" /\ newcomer[n].good => newcomer[n].by = (owner = "there")
       /\ newcomer[n].by => owner = "there"
       /\ newcomer[n].verified <=> welcomed[n] > 0
       /\ n \notin together => welcomed[n] <= 1

\* Who is let in, is let in for cause.
AccessHolds == KeysHold /\ SignupsHold
=============================================================================
