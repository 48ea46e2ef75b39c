---------------------------- MODULE AccountPool ----------------------------
(***************************************************************************)
(* One worker process reads its channels through its pool of Telegram      *)
(* accounts (collector/telegram/account_pool.py and reader.py).            *)
(*                                                                         *)
(* The pool books what an account answered - a flood wait, a refusal, a    *)
(* failure, a clean read - on the account its cursor _index points at, not *)
(* on the one that was asked.  The two are the same while one coroutine    *)
(* reads.  A tick that its soft time limit cuts while it waits leaves its  *)
(* coroutine suspended in the event loop of the process, and the next tick *)
(* runs that loop again: then two coroutines share the cursor.             *)
(*                                                                         *)
(* Which healthy slot the hash of a handle picks is left open.  Timers     *)
(* count down.  Where sessions come from is module PoolSessions, what      *)
(* becomes of the posts modules Collect and UserBatch.                     *)
(***************************************************************************)
EXTENDS Naturals

CONSTANTS
  Size,        \* accounts in the pool
  LastRef,     \* a tick reads the channels 1..LastRef in this order
  Coroutines,  \* bound: _collect_refs coroutines alive at once
  None,        \* no coroutine
  Hints,       \* the flood waits Telegram asks for
  InlineCap,   \* FLOOD_WAIT_INLINE_CAP_SECONDS
  Failing,     \* POOL_FAILING_THRESHOLD
  Threshold,   \* READ_REF_FAILURE_SKIP_THRESHOLD
  SkipTTL,     \* READ_REF_SKIP_TTL_SECONDS
  MaxTrouble,  \* bound: floods, refusals and failed connects
  MaxCuts      \* bound: ticks cut by their soft limit

ASSUME AccountPoolParameters ==
  /\ Size \in Nat \ {0} /\ LastRef \in Nat \ {0}
  /\ Hints \subseteq Nat /\ InlineCap \in Nat
  /\ Failing \in Nat \ {0} /\ Threshold \in Nat \ {0} /\ SkipTTL \in Nat
  /\ MaxTrouble \in Nat /\ MaxCuts \in Nat
  /\ None \notin Coroutines

VARIABLES
  slot,     \* the pool's books on each account
  index,    \* the pool's cursor
  refFails, \* consecutive failures of each channel
  refSkip,  \* time left until a channel is read again
  read,     \* the coroutines
  current,  \* the coroutine of the tick that runs
  told,     \* history: what each account really answered, booked likewise
  trouble,  \* history: floods, refusals and failed connects so far
  cuts      \* history: ticks cut so far

poolVars == <<slot, index, refFails, refSkip, read, current, told, trouble, cuts>>

Slots == 0..(Size - 1)
Refs == 1..LastRef

\* cool: cooldown left; out: quarantined; fails: reads failed in a row.
Account == [cool : Nat, out : BOOLEAN, fails : 0..Failing]

\* Where a coroutine awaits: before its next read ("turn"), a request on the
\* account "of" (to connect, or to resolve the channel and read its messages,
\* whose errors are handled alike), or a cooldown ("wait").
Asking == {"connect", "request"}
Places == {"none", "turn", "wait"} \cup Asking
Reading == [at : Places, ref : 1..(LastRef + 1), of : Slots, left : Nat]

PoolTypeOK ==
  /\ slot \in [Slots -> Account]
  /\ told \in [Slots -> Account]
  /\ index \in Slots
  /\ refFails \in [Refs -> 0..(Threshold + 1)]
  /\ refSkip \in [Refs -> Nat]
  /\ read \in [Coroutines -> Reading]
  /\ current \in Coroutines \cup {None}
  /\ trouble \in 0..MaxTrouble
  /\ cuts \in 0..MaxCuts

NoRead == [at |-> "none", ref |-> 1, of |-> 0, left |-> 0]
Fresh == [cool |-> 0, out |-> FALSE, fails |-> 0]

PoolInit ==
  /\ slot = [s \in Slots |-> Fresh]
  /\ told = [s \in Slots |-> Fresh]
  /\ index = 0
  /\ refFails = [f \in Refs |-> 0]
  /\ refSkip = [f \in Refs |-> 0]
  /\ read = [c \in Coroutines |-> NoRead]
  /\ current = None
  /\ trouble = 0
  /\ cuts = 0

Least(a, b) == IF a <= b THEN a ELSE b
Less(t) == IF t = 0 THEN 0 ELSE t - 1

-----------------------------------------------------------------------------
(* The pool's operations.                                                  *)

Live == {s \in Slots : ~slot[s].out}
\* A plausible bug: cooldowns are not looked at.
HealthyWhileCooling == Live
Healthy == {s \in Live : slot[s].cool = 0}

\* Those, not quarantined, whose cooldown ends first (cooldown_remaining).
Readiest == {s \in Live : \A r \in Live : slot[s].cool <= slot[r].cool}

\* What an answer does to the books on an account.
Flooded(a, hint) == [a EXCEPT !.cool = hint]
Quarantined(a) == [a EXCEPT !.out = TRUE]
FailedOnce(a) == [a EXCEPT !.fails = Least(@ + 1, Failing)]
ReadCleanly(a) == [a EXCEPT !.fails = 0]

\* A plausible bug: the cursor turns before the books are written.
RotateFirst(a) == slot' = [slot EXCEPT ![(index + 1) % Size] = a]

\* The pool books an answer on the account under the cursor ...
Book(a) == slot' = [slot EXCEPT ![index] = a]

\* ... and after a flood wait or a quarantine turns to the next one.
Rotate == index' = (index + 1) % Size

\* history: the account that was asked is the one that answered (followed
\* until a tick is cut).
Answered(c, a) ==
  told' = IF cuts = 0 THEN [told EXCEPT ![read[c].of] = a] ELSE told

-----------------------------------------------------------------------------
(* A coroutine runs from one await to the next, and only while a tick runs *)
(* the event loop of the process.                                          *)

At(c, places) == current # None /\ read[c].at \in places

Leave(c, place, ref, t) == read' = [read EXCEPT ![c] = [at |-> place, ref |-> ref, of |-> 0, left |-> t]]
NextRef(c) == Leave(c, "turn", read[c].ref + 1, 0)
Sleep(c, place, t) == Leave(c, place, read[c].ref, t)

\* The coroutine ends; the tick ends with the coroutine it started.
Ends(c) ==
  /\ read' = [read EXCEPT ![c] = NoRead]
  /\ current' = IF c = current THEN None ELSE current

Trouble == trouble < MaxTrouble /\ trouble' = trouble + 1

\* The tick starts its own coroutine.
StartTick(c) ==
  /\ current = None
  /\ read[c].at = "none"
  /\ current' = c
  /\ read' = [read EXCEPT ![c].at = "turn"]
  /\ UNCHANGED <<slot, index, refFails, refSkip, told, trouble, cuts>>

\* _acquire_ready_client: a healthy account is taken under the cursor; with
\* all quarantined or the shortest cooldown above the cap the channel is
\* passed over, and a short cooldown is slept.
Acquire(c) ==
  /\ \/ \E s \in Healthy, p \in Asking :
          /\ index' = s
          /\ read' = [read EXCEPT ![c].at = p, ![c].of = s, ![c].left = 0]
     \/ /\ \A s \in Live : slot[s].cool > InlineCap
        /\ NextRef(c)
        /\ UNCHANGED index
     \/ /\ Healthy = {}
        /\ \E s \in Readiest :
             slot[s].cool <= InlineCap /\ Sleep(c, "wait", slot[s].cool)
        /\ UNCHANGED index
  /\ UNCHANGED <<slot, refFails, refSkip, current, told, trouble, cuts>>

\* A plausible bug: the skip guard asks the counter, not the deadline.
TurnCountingFailures(c) ==
  /\ At(c, {"turn"})
  /\ read[c].left = 0
  /\ read[c].ref \in Refs
  /\ IF refFails[read[c].ref] >= Threshold
       THEN /\ NextRef(c)
            /\ UNCHANGED <<slot, index, refFails, refSkip, current, told, trouble, cuts>>
       ELSE Acquire(c)

\* _read_one begins, for the next channel or again after a flood wait.
Turn(c) ==
  /\ At(c, {"turn"})
  /\ read[c].left = 0
  /\ read[c].ref \in Refs
  /\ IF refSkip[read[c].ref] > 0
       THEN /\ NextRef(c)
            /\ UNCHANGED <<slot, index, refFails, refSkip, current, told, trouble, cuts>>
       ELSE Acquire(c)

\* The loop of _acquire_ready_client after its sleep.
AskAgain(c) ==
  /\ At(c, {"wait"})
  /\ read[c].left = 0
  /\ Acquire(c)

FinishRead(c) ==
  /\ At(c, {"turn"})
  /\ read[c].ref \notin Refs
  /\ Ends(c)
  /\ UNCHANGED <<slot, index, refFails, refSkip, told, trouble, cuts>>

Connected(c) ==
  /\ At(c, {"connect"})
  /\ read' = [read EXCEPT ![c].at = "request"]
  /\ UNCHANGED <<slot, index, refFails, refSkip, current, told, trouble, cuts>>

\* connect() is outside the reader's handlers: its error ends the whole tick.
ConnectFails(c) ==
  /\ At(c, {"connect"})
  /\ Trouble
  /\ Ends(c)
  /\ UNCHANGED <<slot, index, refFails, refSkip, told, cuts>>

ReadDone(c) ==
  /\ At(c, {"request"})
  /\ Book(ReadCleanly(slot[index]))
  /\ Answered(c, ReadCleanly(told[read[c].of]))
  /\ refFails' = [refFails EXCEPT ![read[c].ref] = 0]
  /\ refSkip' = [refSkip EXCEPT ![read[c].ref] = 0]
  /\ NextRef(c)
  /\ UNCHANGED <<index, current, trouble, cuts>>

\* A flood wait: the account cools down; a short wait is slept, and the
\* channel is read again.
FloodWait(c, hint) ==
  /\ At(c, {"request"})
  /\ Trouble
  /\ Book(Flooded(slot[index], hint))
  /\ Rotate
  /\ Answered(c, Flooded(told[read[c].of], hint))
  /\ Sleep(c, "turn", IF hint <= InlineCap THEN hint ELSE 0)
  /\ UNCHANGED <<refFails, refSkip, current, cuts>>

\* A permanent auth error: the account is quarantined, the channel given up.
Refuse(c) ==
  /\ At(c, {"request"})
  /\ Trouble
  /\ Book(Quarantined(slot[index]))
  /\ Rotate
  /\ Answered(c, Quarantined(told[read[c].of]))
  /\ NextRef(c)
  /\ UNCHANGED <<refFails, refSkip, current, cuts>>

\* Any other error: the channel is given up, and skipped for a while once
\* it has failed exactly Threshold times in a row.
Fail(c) ==
  /\ At(c, {"request"})
  /\ Book(FailedOnce(slot[index]))
  /\ Answered(c, FailedOnce(told[read[c].of]))
  /\ LET f == read[c].ref
         n == refFails[f] + 1
     IN  /\ refFails' = [refFails EXCEPT ![f] = Least(n, Threshold + 1)]
         /\ refSkip' = IF n = Threshold THEN [refSkip EXCEPT ![f] = SkipTTL] ELSE refSkip
  /\ NextRef(c)
  /\ UNCHANGED <<index, current, trouble, cuts>>

\* SoftTimeLimitExceeded leaves run_until_complete; the coroutine stays.
SoftLimit ==
  /\ current # None
  /\ cuts < MaxCuts
  /\ current' = None
  /\ cuts' = cuts + 1
  /\ told' = [s \in Slots |-> Fresh]
  /\ UNCHANGED <<slot, index, refFails, refSkip, read, trouble>>

Pass ==
  LET cooled(b) == [s \in Slots |-> [b[s] EXCEPT !.cool = Less(@)]]
  IN  /\ slot' = cooled(slot)
      /\ told' = cooled(told)
      /\ refSkip' = [f \in Refs |-> Less(refSkip[f])]
      /\ read' = [c \in Coroutines |-> [read[c] EXCEPT !.left = Less(@)]]
      /\ UNCHANGED <<index, refFails, current, trouble, cuts>>

\* A coroutine goes on by itself, whatever the answers it gets.
Step(c) ==
  \/ Turn(c) \/ AskAgain(c) \/ FinishRead(c) \/ Connected(c) \/ ConnectFails(c)
  \/ ReadDone(c) \/ Refuse(c) \/ Fail(c)
  \/ \E h \in Hints : FloodWait(c, h)

PoolNext ==
  \/ Pass \/ SoftLimit
  \/ \E c \in Coroutines : StartTick(c) \/ Step(c)

\* Beat starts ticks, requests are answered and time passes.
PoolFairness ==
  /\ WF_poolVars(Pass)
  /\ WF_poolVars(\E c \in Coroutines : StartTick(c))
  /\ \A c \in Coroutines : WF_poolVars(Step(c))

PoolSpec == PoolInit /\ [][PoolNext]_poolVars /\ PoolFairness

-----------------------------------------------------------------------------
(* Properties.                                                             *)

\* Until a tick is cut, every answer is booked on the account that gave it:
\* none cools down, is quarantined or is counted as failing for another one
\* (note_current_error, report_flood_wait, quarantine_current and
\* note_read_failure all go by the cursor; acquire_for_channel's docstring
\* promises that they "annotate the correct account").
BooksMatch == cuts = 0 => slot = told

\* Until a tick is cut, no request is under way on an account that Telegram
\* told to wait, or refused for good (acquire, acquire_for_channel).
NeverAsksResting ==
  cuts = 0 => \A c \in Coroutines :
                read[c].at \in Asking => /\ told[read[c].of].cool = 0
                                         /\ ~told[read[c].of].out

\* So the pool's books are those of the accounts, and are heeded.
BooksKept == BooksMatch /\ NeverAsksResting

\* Whatever fails, and whatever ticks are cut, a channel is tried again and
\* again as long as an account is left (the skip guard and the acquire loop
\* of reader.py, the skip-and-continue of _collect_refs).
EveryRefTried ==
  \A f \in Refs :
    \/ []<>(\E c \in Coroutines : read[c].ref = f /\ read[c].at \in Asking)
    \/ <>[](Live = {})
=============================================================================
