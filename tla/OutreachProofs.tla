--------------------------- MODULE OutreachProofs ---------------------------
(***************************************************************************)
(* Theorems of Outreach, for any number of children and faults, any        *)
(* windows, periods and times-to-live: what each sweep and the reports of  *)
(* the system's own state promise.  The parts share no state but the       *)
(* history of the sweeps, so that each has an invariant of its own.        *)
(***************************************************************************)
EXTENDS Outreach, FiniteSetTheorems, TLAPS

-----------------------------------------------------------------------------
(* Finite sets.                                                            *)

\* A set of numbers has a least one, and a greatest one if it is finite.
LEMMA LeastOf ==
  ASSUME NEW S \in SUBSET Nat, S # {}
  PROVE  \E m \in S : \A n \in S : m <= n
<1> DEFINE R == OpToRel(<, Nat)
<1>1. IsWellFoundedOn(R, Nat)
  BY NatLessThanWellFounded
<1>2. PICK m \in S : \A n \in S : <<n, m>> \notin R
  <2> HIDE DEF R
  <2> QED BY <1>1, WFMin
<1>3. \A n \in S : ~(n < m)
  BY <1>2 DEF OpToRel
<1>4. \A n \in S : n \in Nat /\ m \in Nat
  OBVIOUS
<1> QED BY <1>3, <1>4

LEMMA GreatestOf ==
  ASSUME NEW S \in SUBSET Nat, S # {}, IsFiniteSet(S)
  PROVE  \E m \in S : \A n \in S : n <= m
<1> DEFINE Bad == {T \in SUBSET S : T # {} /\ ~ \E m \in T : \A n \in T : n <= m}
           R == StrictSubsetOrdering(S)
<1>1. IsWellFoundedOn(R, FiniteSubsetsOf(S))
  BY FS_StrictSubsetOrderingWellFounded
<1>2. FiniteSubsetsOf(S) = SUBSET S
  BY FS_FiniteSubsetsOfFinite
<1>3. SUFFICES ASSUME Bad # {} PROVE FALSE
  OBVIOUS
<1>4. PICK T \in Bad : \A U \in Bad : <<U, T>> \notin R
  <2>1. Bad \subseteq FiniteSubsetsOf(S)
    BY <1>2
  <2> HIDE DEF R, Bad
  <2> QED BY <1>1, <1>3, <2>1, WFMin
<1>5. PICK x \in T : TRUE
  OBVIOUS
<1> DEFINE U == T \ {x}
<1>6. U \notin Bad
  BY <1>4, <1>5 DEF StrictSubsetOrdering
<1>7. CASE U = {}
  <2>1. T = {x}
    BY <1>7, <1>5
  <2> QED BY <2>1
<1>8. CASE U # {}
  <2>1. PICK m \in U : \A n \in U : n <= m
    BY <1>6, <1>8
  <2>2. m \in Nat /\ x \in Nat
    BY <1>5
  <2>3. CASE x <= m
    BY <2>1, <2>3, <2>2
  <2>4. CASE m <= x
    <3>1. \A n \in T : n <= x
      BY <2>1, <2>4, <2>2
    <3> QED BY <3>1, <1>5
  <2> QED BY <2>2, <2>3, <2>4
<1> QED BY <1>7, <1>8
-----------------------------------------------------------------------------
(* Sweeps that overlap.                                                    *)

\* A sweep that no other has overlapped is alone.
Alone(busy) == \A w \in busy \ crossed : busy = {w}

LEMMA EntersAlone ==
  ASSUME NEW busy, Alone(busy), NEW w, w \notin busy, Enter(w, busy)
  PROVE  \A v \in (busy \cup {w}) \ crossed' : v = w /\ busy = {}
BY DEF Alone, Enter

LEMMA LeavesAlone ==
  ASSUME NEW busy, Alone(busy), NEW w \in busy, Leave(w)
  PROVE  busy \ {w} \subseteq crossed'
BY DEF Alone, Leave
-----------------------------------------------------------------------------
(* Watch: the report that all is healthy and nothing comes in.             *)

\* A verdict of a stall is as old as its key, a report at least as old as the
\* verdict in it, and so is the health that is shown.
VerdictDated == verdict > 0 => proven + verdict <= VerdictTTL

ReportDated ==
  /\ report.contradiction => report.at = "set"
  /\ report.contradiction => proven <= VerdictTTL + report.age \/ report.age > FreshFor

HealthDated ==
  health.contradiction => proven <= VerdictTTL + health.age \/ health.age > FreshFor

WatchInv == WatchTypeOK /\ VerdictDated /\ ReportDated /\ HealthDated

LEMMA WatchStart == WatchInit => WatchInv
BY WatchParameters
   DEF WatchInit, WatchInv, WatchTypeOK, VerdictDated, ReportDated, HealthDated,
       NoHealth, NoMeasure, NoReport, NoPosts, LongAgo, Reasons, PoolReasons, Conditions

\* An age grows by one and stops at its cap; what is left of a key shrinks.
LEMMA Ages ==
  ASSUME NEW cap \in Nat, NEW age \in 0..cap
  PROVE  /\ Aged(age, cap) \in 0..cap /\ Aged(age, cap) <= age + 1
         /\ age < cap => Aged(age, cap) = age + 1
         /\ Less(age) \in 0..cap
BY DEF Aged, Less

LEMMA TimeKeepsDates == WatchInv /\ TimePasses => WatchInv'
<1> SUFFICES ASSUME WatchInv, TimePasses PROVE WatchInv'
  OBVIOUS
<1> USE WatchParameters DEF WatchInv, WatchTypeOK
<1>1. silent' \in NoPosts..Silence
  BY Ages DEF TimePasses, NoPosts
<1>2. /\ verdict' \in 0..VerdictTTL
      /\ verdict' > 0 => verdict > 0 /\ verdict' = verdict - 1
  BY DEF TimePasses, Less
<1>3. /\ health' \in [left : 0..HealthTTL, age : 0..FreshFor + 1, contradiction : BOOLEAN]
      /\ health'.contradiction => health.contradiction /\ health'.age = Aged(health.age, FreshFor + 1)
  <2>1. CASE health.left <= 1
    BY <2>1 DEF TimePasses, NoHealth
  <2>2. CASE health.left > 1
    <3>1. Aged(health.age, FreshFor + 1) \in 0..FreshFor + 1
      BY DEF Aged
    <3>2. health' = [health EXCEPT !.left = @ - 1, !.age = Aged(@, FreshFor + 1)]
      BY <2>2 DEF TimePasses
    <3>3. health.left - 1 \in 0..HealthTTL
      BY <2>2
    <3> HIDE DEF WatchInv
    <3>4. health \in [left : 0..HealthTTL, age : 0..FreshFor + 1, contradiction : BOOLEAN]
      BY DEF WatchInv
    <3> QED
      BY <3>1, <3>2, <3>3, <3>4
  <2> QED BY <2>1, <2>2
<1>4. /\ report' \in [at : {"off", "set", "warn"}, age : 0..FreshFor + 1,
                      reason : PoolReasons \cup {"none"}, contradiction : BOOLEAN]
      /\ report'.at = report.at /\ report'.contradiction = report.contradiction
      /\ report.at = "set" => report'.age = Aged(report.age, FreshFor + 1)
  <2>1. report \in [at : {"off", "set", "warn"}, age : 0..FreshFor + 1,
                    reason : PoolReasons \cup {"none"}, contradiction : BOOLEAN]
    OBVIOUS
  <2>2. CASE report.at = "set"
    <3>1. PICK age : age = Aged(report.age, FreshFor + 1)
      OBVIOUS
    <3>2. age \in 0..FreshFor + 1
      BY <2>1, <3>1 DEF Aged
    <3>3. report' = [report EXCEPT !.age = age]
      BY <2>2, <3>1 DEF TimePasses
    <3> HIDE DEF WatchInv
    <3> QED BY <2>1, <2>2, <3>1, <3>2, <3>3
  <2>3. CASE report.at # "set"
    BY <2>1, <2>3 DEF TimePasses
  <2> QED BY <2>2, <2>3
<1>5. muted' \in [Reasons -> 0..Throttle]
  BY Ages DEF TimePasses
<1>6. proven' \in 0..LongAgo /\ proven' <= proven + 1
  BY DEF TimePasses, LongAgo, Aged
<1>7. WatchTypeOK'
  BY <1>1, <1>2, <1>3, <1>4, <1>5, <1>6 DEF TimePasses
<1>8. VerdictDated'
  <2>1. ASSUME verdict' > 0 PROVE proven' + verdict' <= VerdictTTL
    <3>1. verdict > 0 /\ verdict' = verdict - 1 /\ verdict \in 0..VerdictTTL
      BY <1>2, <2>1
    <3>2. proven + verdict <= VerdictTTL /\ proven \in Nat /\ proven' \in Nat
      BY <1>6, <3>1 DEF VerdictDated, LongAgo
    <3>3. verdict' + 1 = verdict /\ verdict' \in Nat /\ verdict \in Nat /\ VerdictTTL \in Nat
      BY <3>1
    <3>4. proven' <= proven + 1
      BY <1>6
    <3> HIDE DEF WatchInv
    <3>5. PICK p \in Nat, q \in Nat, v \in Nat, w \in Nat :
            p = proven /\ q = proven' /\ v = verdict /\ w = verdict'
      BY <3>2, <3>3
    <3>6. p + v <= VerdictTTL /\ q <= p + 1 /\ w + 1 = v
      BY <3>2, <3>3, <3>4, <3>5
    <3>7. q + w <= p + v
      BY <3>6
    <3>8. q + w <= VerdictTTL
      BY <3>3, <3>6, <3>7
    <3> QED BY <3>5, <3>8
  <2> QED BY <2>1 DEF VerdictDated
<1>9. ReportDated'
  BY <1>4, <1>6 DEF ReportDated, LongAgo, Aged, TimePasses
<1>10. HealthDated'
  BY <1>3, <1>6 DEF HealthDated, LongAgo, Aged
<1> QED BY <1>7, <1>8, <1>9, <1>10

\* A warning, sent or not, sets its own throttle at most.
LEMMA MutedType ==
  ASSUME WatchTypeOK, NEW r \in Reasons, Sent(r) \/ NotSent(r)
  PROVE  muted' \in [Reasons -> 0..Throttle]
BY WatchParameters DEF WatchTypeOK, Sent, NotSent, Mute

LEMMA WatchStep == WatchInv /\ [WatchNext]_watchVars => WatchInv'
<1> SUFFICES ASSUME WatchInv, [WatchNext]_watchVars PROVE WatchInv'
  OBVIOUS
<1> USE WatchParameters
    DEF WatchInv, WatchTypeOK, VerdictDated, ReportDated, HealthDated,
        NoMeasure, NoReport, NoPosts, LongAgo, MeasureAt
<1>1. CASE TimePasses
  BY <1>1, TimeKeepsDates
<1>2. CASE StorePosts
  BY <1>2 DEF StorePosts
<1>3. CASE ReadRefused
  BY <1>3 DEF ReadRefused, Warning, PoolReasons
<1>4. ASSUME NEW how \in Conditions, AccountsChange(how) PROVE WatchInv'
  BY <1>4 DEF AccountsChange
<1>5. CASE BeginMeasure
  BY <1>5 DEF BeginMeasure
<1>6. CASE PublishVerdict
  BY <1>6 DEF PublishVerdict
<1>7. CASE Warn \/ WarnInVain
  <2>1. muted' \in [Reasons -> 0..Throttle]
    BY <1>7, MutedType DEF Warn, WarnInVain, Reasons
  <2>2. measure' = NoMeasure
        /\ UNCHANGED <<silent, accounts, verdict, health, report, proven>>
    BY <1>7 DEF Warn, WarnInVain
  <2> QED
    BY <2>1, <2>2
<1>8. CASE MeasureEnds
  BY <1>8 DEF MeasureEnds
<1>9. CASE BeginReport
  <2>1. PICK contradiction \in Contradicts, reason \in PoolReasons \cup {"none"} :
          report' = [at |-> "set", age |-> 0, contradiction |-> contradiction, reason |-> reason]
    BY <1>9 DEF BeginReport, PoolReasons
  <2>2. contradiction \in BOOLEAN /\ (contradiction => verdict > 0)
    BY DEF Contradicts
  <2>3. contradiction => proven <= VerdictTTL
    BY <2>2
  <2> QED BY <1>9, <2>1, <2>2, <2>3 DEF BeginReport
<1>10. CASE PublishHealth
  BY <1>10 DEF PublishHealth, Dated, Warning
<1>11. ASSUME NEW r \in PoolReasons, WarnPool(r) \/ WarnPoolInVain(r) PROVE WatchInv'
  <2>1. muted' \in [Reasons -> 0..Throttle]
    BY <1>11, MutedType DEF WarnPool, WarnPoolInVain, Reasons
  <2>2. report' = NoReport
        /\ UNCHANGED <<silent, accounts, verdict, health, measure, proven>>
    BY <1>11 DEF WarnPool, WarnPoolInVain
  <2> QED
    BY <2>1, <2>2
<1>12. CASE ReportEnds
  BY <1>12 DEF ReportEnds
<1>13. CASE UNCHANGED watchVars
  BY <1>13 DEF watchVars
<1> QED
  BY <1>1, <1>2, <1>3, <1>4, <1>5, <1>6, <1>7, <1>8, <1>9, <1>10, <1>11, <1>12, <1>13
     DEF WatchNext

\* Whatever the beat runs, the part Watch takes a step of its own or none.
LEMMA WatchStepOrNone == [Next]_vars => [WatchNext]_watchVars
BY DEF Next, Renewing, Mails, Posts, Watching, NotMails, vars, watchVars

LEMMA WatchInvariance == Spec => []WatchInv
<1>1. Init => WatchInv
  BY WatchStart DEF Init
<1>2. WatchInv /\ [Next]_vars => WatchInv'
  BY WatchStep, WatchStepOrNone
<1> QED BY <1>1, <1>2, PTL DEF Spec

\* The page that shows a contradiction is founded on a stall that was found no
\* longer ago than the key and the page last (_ingest_contradiction), for every
\* choice of the times-to-live and however late a report is published.
THEOREM Founded == Spec => []ContradictionFounded
<1>1. WatchInv => ContradictionFounded
  BY WatchParameters
     DEF WatchInv, WatchTypeOK, HealthDated, ContradictionFounded, Fresh, LongAgo
<1> QED BY <1>1, WatchInvariance, PTL

-----------------------------------------------------------------------------
(* Renewals: the windows of a paid period.                                 *)

LEMMA WindowsAreNumbers ==
  /\ Widest \in RenewalDays /\ Widest \in Nat \ {0} /\ Far \in Nat \ {0}
  /\ \A d \in RenewalDays : d \in Nat \ {0} /\ d <= Widest /\ d < Far
<1>1. \E d \in RenewalDays : \A e \in RenewalDays : e <= d
  BY GreatestOf, RenewalDaysParameter
<1>2. Widest \in RenewalDays /\ \A e \in RenewalDays : e <= Widest
  BY <1>1 DEF Widest
<1> QED
  BY <1>2, RenewalDaysParameter DEF Far

\* The window a row falls in is the tightest.
LEMMA WindowIsTightest ==
  ASSUME NEW left \in 0..Widest
  PROVE  /\ CurrentWindow(left) \in RenewalDays
         /\ left <= CurrentWindow(left)
         /\ \A e \in RenewalDays : left <= e => CurrentWindow(left) <= e
<1> DEFINE S == {d \in RenewalDays : d >= left}
<1>1. Widest \in S /\ S \in SUBSET Nat
  <2>1. left \in Nat /\ left <= Widest /\ Widest \in RenewalDays /\ RenewalDays \subseteq Nat
    BY WindowsAreNumbers, RenewalDaysParameter
  <2> QED BY <2>1
<1>2. PICK m \in S : \A n \in S : m <= n
  BY <1>1, LeastOf
<1>3. m \in RenewalDays /\ m >= left /\ \A e \in RenewalDays : e >= left => m <= e
  BY <1>2
<1> QED
  BY <1>3, WindowsAreNumbers DEF CurrentWindow

Notices == [at : {"off", "send", "mark"}, renewed : BOOLEAN,
            window : RenewalDays \cup {NoWindow}, older : BOOLEAN]

LEMMA NoNoticeType == NoNotice \in Notices
BY DEF NoNotice, Notices

\* A sweep under way is at a window of the period it has read; those of an
\* earlier period end before the first window of the next.
NoticeInv ==
  /\ \A w \in Workers : notice[w].at # "off" => notice[w].window \in RenewalDays
  /\ \A w \in Workers : notice[w].at = "off" => notice[w] = NoNotice
  /\ plan.left < Far => \A w \in Workers : ~notice[w].renewed
  /\ plan.left = Far => told = {} /\ swept = {} /\ \A w \in Noticing : notice[w].renewed

\* Until the first reminder of a period no sweep of it puts a mark, so that only
\* the window that is marked can have been passed over.
MarkInv ==
  /\ told = {} => swept \subseteq {plan.marker}
  /\ \A w \in Workers : notice[w].at = "mark" /\ ~notice[w].renewed => notice[w].window \in told

RenewalInv == RenewalsTypeOK /\ NoticeInv /\ MarkInv

LEMMA RenewalStart == RenewalsInit => RenewalInv
<1> SUFFICES ASSUME RenewalsInit PROVE RenewalInv
  OBVIOUS
<1> USE DEF RenewalsInit, NoWindow
<1>1. /\ Far \in 0..Far /\ plan = [left |-> Far, marker |-> NoWindow]
      /\ told = {} /\ swept = {} /\ unmarked = {}
  BY WindowsAreNumbers
<1>2. notice = [w \in Workers |-> NoNotice] /\ NoNotice \in Notices
  BY NoNoticeType
<1>3. RenewalsTypeOK
  BY <1>1, <1>2 DEF RenewalsTypeOK, Notices
<1>4. \A w \in Workers : notice[w].at = "off"
  BY <1>2 DEF NoNotice
<1>5. NoticeInv /\ MarkInv
  BY <1>1, <1>2, <1>4 DEF NoticeInv, MarkInv, Noticing
<1> QED BY <1>3, <1>5 DEF RenewalInv

\* A renewal or a new day leaves a sweep a sweep.
LEMMA NoticeSeesTime ==
  ASSUME NEW n \in Notices
  PROVE  /\ [n EXCEPT !.renewed = TRUE] \in Notices
         /\ [n EXCEPT !.older = TRUE] \in Notices
BY DEF Notices

\* A sweep that is over is off the board.
LEMMA SweepGone ==
  ASSUME RenewalsTypeOK, NEW w \in Workers, SweepEnds(w)
  PROVE  /\ notice' \in [Workers -> Notices]
         /\ \A v \in Workers : notice'[v] = IF v = w THEN NoNotice ELSE notice[v]
         /\ NoNotice.at = "off" /\ ~NoNotice.renewed
BY NoNoticeType DEF RenewalsTypeOK, Notices, SweepEnds, Sweeping, NoNotice

LEMMA RenewalStep ==
  RenewalInv /\ [RenewalsNext]_renewalVars => RenewalInv'
<1> SUFFICES ASSUME RenewalInv, [RenewalsNext]_renewalVars PROVE RenewalInv'
  OBVIOUS
<1> USE DEF RenewalInv, RenewalsTypeOK, NoticeInv, MarkInv, Noticing, Notices
<1>1. ASSUME NEW w \in Workers, ReadPlan(w) PROVE RenewalInv'
  <2> DEFINE window == CurrentWindow(plan.left)
  <2>1. plan.left < Far /\ window \in RenewalDays
    BY <1>1, WindowIsTightest, WindowsAreNumbers DEF ReadPlan, Far
  <2>2. CASE Reminded(window)
    <3>1. swept' = swept \cup {window} /\ UNCHANGED <<plan, notice, told, unmarked>>
      BY <1>1, <2>2 DEF ReadPlan
    <3> QED
      BY <2>1, <2>2, <3>1 DEF Reminded
  <2>3. CASE ~Reminded(window)
    <3> DEFINE n == [NoNotice EXCEPT !.at = "send", !.window = window]
    <3>1. notice' = [notice EXCEPT ![w] = n] /\ UNCHANGED <<plan, told, swept, unmarked>>
      BY <1>1, <2>3 DEF ReadPlan, Sweeping
    <3>2. /\ n \in Notices
          /\ n.at = "send" /\ ~n.renewed /\ n.window = window
      BY <2>1 DEF NoNotice
    <3> HIDE DEF n, window
    <3> QED
      BY <2>1, <3>1, <3>2
  <2> QED BY <2>2, <2>3
<1>2. ASSUME NEW w \in Workers, Remind(w) PROVE RenewalInv'
  <2>1. notice' = [notice EXCEPT ![w] = [notice[w] EXCEPT !.at = "mark"]]
        /\ UNCHANGED <<plan, swept, unmarked>>
    BY <1>2 DEF Remind, Sweeping
  <2>2. told' = IF notice[w].renewed THEN told ELSE told \cup {notice[w].window}
    BY <1>2 DEF Remind, Tells
  <2>3. notice[w].at = "send"
    BY <1>2 DEF Remind
  <2> QED BY <2>1, <2>2, <2>3, WindowsAreNumbers
<1>3. ASSUME NEW w \in Workers, RemindFails(w) PROVE RenewalInv'
  <2>1. /\ notice' \in [Workers -> Notices]
        /\ \A v \in Workers : notice'[v] = IF v = w THEN NoNotice ELSE notice[v]
        /\ NoNotice.at = "off" /\ ~NoNotice.renewed
    BY <1>3, SweepGone DEF RemindFails
  <2>2. /\ UNCHANGED <<plan, swept>>
        /\ \/ told' = told
           \/ told' = told \cup {notice[w].window} /\ ~notice[w].renewed
        /\ unmarked' = unmarked \/ unmarked' = unmarked \cup {notice[w].window}
        /\ notice[w].at = "send" /\ notice[w].window \in RenewalDays
    BY <1>3 DEF RemindFails, Tells
  <2>3. RenewalsTypeOK'
    BY <2>1, <2>2
  <2>4. NoticeInv' /\ MarkInv'
    BY <2>1, <2>2
  <2> QED BY <2>3, <2>4
<1>4. ASSUME NEW w \in Workers, MarkReminded(w) PROVE RenewalInv'
  <2>1. /\ notice' \in [Workers -> Notices]
        /\ \A v \in Workers : notice'[v] = IF v = w THEN NoNotice ELSE notice[v]
        /\ NoNotice.at = "off" /\ ~NoNotice.renewed
    BY <1>4, SweepGone DEF MarkReminded
  <2>2. /\ told' = told
        /\ swept' = IF notice[w].renewed THEN swept ELSE swept \cup {notice[w].window}
        /\ unmarked' = unmarked \/ unmarked' = unmarked \cup {plan.marker}
        /\ notice[w].at = "mark" /\ notice[w].window \in RenewalDays
    BY <1>4 DEF MarkReminded
  <2>3. plan' = [left |-> plan.left, marker |-> notice[w].window]
    BY <1>4 DEF MarkReminded
  <2>4. RenewalsTypeOK'
    BY <2>1, <2>2, <2>3
  <2>5. NoticeInv'
    BY <2>1, <2>2, <2>3, WindowsAreNumbers
  <2>6. /\ notice[w].renewed => swept' = {}
        /\ ~notice[w].renewed => told' # {}
    <3>1. plan.left \in 0..Far /\ Far \in Nat
      BY WindowsAreNumbers
    <3>2. notice[w].renewed => plan.left = Far
      BY <3>1
    <3>3. notice[w].renewed => swept = {}
      BY <3>2
    <3>4. ~notice[w].renewed => notice[w].window \in told
      BY <2>2
    <3> QED BY <3>3, <3>4, <2>2
  <2>7. \A v \in Workers : notice'[v].at = "mark" /\ ~notice'[v].renewed => notice'[v].window \in told'
    BY <2>1, <2>2
  <2>8. MarkInv'
    BY <2>6, <2>7
  <2> QED BY <2>4, <2>5, <2>8
<1>5. ASSUME NEW w \in Workers, RemindLost(w) PROVE RenewalInv'
  <2>1. /\ notice' \in [Workers -> Notices]
        /\ \A v \in Workers : notice'[v] = IF v = w THEN NoNotice ELSE notice[v]
        /\ NoNotice.at = "off" /\ ~NoNotice.renewed
    BY <1>5, SweepGone DEF RemindLost
  <2>2. /\ UNCHANGED <<plan, told, swept>>
        /\ unmarked' = unmarked \/ unmarked' = unmarked \cup {notice[w].window}
        /\ notice[w].window \in RenewalDays \cup {NoWindow}
    BY <1>5 DEF RemindLost
  <2> QED BY <2>1, <2>2
<1>6. CASE Renew
  <2>1. /\ plan' = [left |-> Far, marker |-> plan.marker]
        /\ told' = {} /\ swept' = {} /\ unmarked' = {}
        /\ notice' = [w \in Workers |-> IF w \in Noticing
                                          THEN [notice[w] EXCEPT !.renewed = TRUE]
                                          ELSE notice[w]]
    BY <1>6 DEF Renew
  <2>2. \A w \in Workers :
          /\ notice'[w].at = notice[w].at /\ notice'[w].window = notice[w].window
          /\ notice[w].at # "off" => notice'[w].renewed
          /\ notice[w].at = "off" => notice'[w] = notice[w]
    BY <2>1
  <2>3. notice' \in [Workers -> Notices]
    BY <2>1, NoticeSeesTime
  <2>4. plan' \in [left : 0..Far, marker : RenewalDays \cup {NoWindow}] /\ plan'.left = Far
    BY <2>1, WindowsAreNumbers
  <2>5. RenewalsTypeOK'
    BY <2>1, <2>3, <2>4
  <2>6. NoticeInv' /\ MarkInv'
    BY <2>1, <2>2, <2>4, WindowsAreNumbers
  <2> QED BY <2>5, <2>6
<1>7. CASE DayOfPlan
  <2>1. /\ plan.left > 0 /\ plan' = [left |-> plan.left - 1, marker |-> plan.marker]
        /\ \A w \in Noticing : plan.left # Far
        /\ notice' = [w \in Workers |-> IF w \in Noticing
                                          THEN [notice[w] EXCEPT !.older = TRUE]
                                          ELSE notice[w]]
        /\ UNCHANGED <<told, swept, unmarked>>
    BY <1>7 DEF DayOfPlan
  <2>2. \A w \in Workers :
          /\ notice'[w].at = notice[w].at /\ notice'[w].window = notice[w].window
          /\ notice'[w].renewed = notice[w].renewed
          /\ notice[w].at = "off" => notice'[w] = notice[w]
    BY <2>1
  <2>3. notice' \in [Workers -> Notices]
    BY <2>1, NoticeSeesTime
  <2>7. plan' \in [left : 0..Far, marker : RenewalDays \cup {NoWindow}]
    <3>1. plan.left \in 0..Far /\ Far \in Nat /\ plan.left > 0
      BY <2>1, WindowsAreNumbers
    <3> QED BY <3>1, <2>1
  <2>8. RenewalsTypeOK'
    BY <2>1, <2>3, <2>7
  <2>4. plan'.left < Far /\ (plan.left = Far => Noticing = {})
    BY <2>1, WindowsAreNumbers
  <2>5. \A w \in Workers : ~notice[w].renewed
    BY <2>1, <2>4, WindowsAreNumbers DEF NoNotice
  <2>6. NoticeInv' /\ MarkInv'
    BY <2>1, <2>2, <2>4, <2>5, WindowsAreNumbers
  <2> QED BY <2>8, <2>6
<1>8. CASE UNCHANGED renewalVars
  BY <1>8 DEF renewalVars
<1> QED
  BY <1>1, <1>2, <1>3, <1>4, <1>5, <1>6, <1>7, <1>8 DEF RenewalsNext

\* Whatever the beat runs, the part Renewals takes a step of its own or none.
LEMMA RenewalInvariance == Spec => []RenewalInv
<1>1. Init => RenewalInv
  BY RenewalStart DEF Init
<1>2. [Next]_vars => [RenewalsNext]_renewalVars
  BY DEF Next, Renewing, Mails, Posts, Watching, NotMails, NotWatch, vars, renewalVars
<1>3. RenewalInv /\ [Next]_vars => RenewalInv'
  BY <1>2, RenewalStep
<1> QED BY <1>1, <1>3, PTL DEF Spec

\* A subscriber whose every window was met by a sweep is reminded before the
\* period ends (_check_expiring_subscriptions), whatever mark an earlier period
\* has left - provided there are two windows (RENEWAL_REMINDER_DAYS has three):
\* a single one would be taken for sent in the next period.
THEOREM NeverUnreminded ==
  ASSUME \E d, e \in RenewalDays : d # e
  PROVE  Spec => []NeverExpiresUnreminded
<1>1. RenewalInv => NeverExpiresUnreminded
  <2> SUFFICES ASSUME RenewalInv, swept = RenewalDays, told = {} PROVE FALSE
    BY DEF NeverExpiresUnreminded
  <2>1. RenewalDays \subseteq {plan.marker}
    BY DEF RenewalInv, MarkInv
  <2> QED BY <2>1
<1> QED BY <1>1, RenewalInvariance, PTL

\* There is a tighter window for the days left.
Passed(d) == \E e \in RenewalDays : plan.left <= e /\ e < d

\* What was told, and what is being told, is of a window not over.
ToldInTime ==
  /\ \A d \in told : plan.left <= d
  /\ \A w \in Noticing : ~notice[w].renewed => plan.left <= notice[w].window

\* A window once told is marked, about to be, or passed, or its mark is lost.
ToldAndMarked ==
  \A d \in told :
    \/ d \in unmarked \/ d = plan.marker \/ Passed(d)
    \/ \E v \in Workers : notice[v].at = "mark" /\ ~notice[v].renewed /\ notice[v].window = d

\* A sweep that is alone is at a window that was not told before.
ToldBefore ==
  \A w \in Noticing \ crossed : ~notice[w].renewed =>
    \A d \in told : \/ d \in unmarked
                    \/ d # notice[w].window /\ Passed(d)
                    \/ notice[w].at = "mark" /\ d = notice[w].window

RenewalRace == Alone(Noticing) /\ ToldInTime /\ ToldAndMarked /\ ToldBefore

LEMMA RenewalRaceStep ==
  RenewalInv /\ RenewalRace /\ [RenewalsNext]_<<renewalVars, sweepsVars>> => RenewalRace'
<1> SUFFICES ASSUME RenewalInv, RenewalRace, [RenewalsNext]_<<renewalVars, sweepsVars>>
             PROVE  RenewalRace'
  OBVIOUS
<1> USE DEF RenewalRace
<1>1. /\ plan \in [left : 0..Far, marker : RenewalDays \cup {NoWindow}] /\ Far \in Nat
      /\ told \subseteq RenewalDays /\ RenewalDays \subseteq Nat
      /\ notice \in [Workers -> Notices]
      /\ \A w \in Noticing : notice[w].window \in RenewalDays
  BY WindowsAreNumbers, RenewalDaysParameter
     DEF RenewalInv, RenewalsTypeOK, Notices, NoticeInv, Noticing
<1>2. ASSUME NEW w \in Workers, ReadPlan(w) PROVE RenewalRace'
  <2> DEFINE window == CurrentWindow(plan.left)
  <2>1. /\ window \in RenewalDays /\ plan.left <= window
        /\ \A e \in RenewalDays : plan.left <= e => window <= e
    BY <1>2, WindowIsTightest DEF ReadPlan
  <2>2. CASE Reminded(window)
    <3>1. UNCHANGED <<plan, notice, told, unmarked, crossed>>
      BY <1>2, <2>2 DEF ReadPlan
    <3> QED
      BY <3>1 DEF Alone, ToldInTime, ToldAndMarked, ToldBefore, Passed, Noticing
  <2>3. CASE ~Reminded(window)
    <3> DEFINE n == [NoNotice EXCEPT !.at = "send", !.window = window]
    <3>1. /\ notice' = [notice EXCEPT ![w] = n] /\ UNCHANGED <<plan, told, unmarked>>
          /\ Enter(w, Noticing) /\ w \notin Noticing
      BY <1>2, <2>3 DEF ReadPlan, Sweeping, Noticing
    <3>2. n.at = "send" /\ ~n.renewed /\ n.window = window
      BY DEF NoNotice
    <3>3. plan.marker # window
      BY <2>3 DEF Reminded
    <3> HIDE DEF n, window
    <3>4. /\ \A v \in Workers : notice'[v] = IF v = w THEN n ELSE notice[v]
          /\ Noticing' = Noticing \cup {w}
      BY <1>1, <3>1, <3>2 DEF Noticing
    <3>5. \A v \in Noticing' \ crossed' : v = w /\ Noticing = {}
      BY <3>1, <3>4, EntersAlone
    <3>6. Alone(Noticing)'
      BY <3>4, <3>5 DEF Alone
    <3>7. ToldInTime'
      BY <1>1, <2>1, <3>1, <3>2, <3>4 DEF ToldInTime, Noticing
    <3>8. ToldAndMarked'
      BY <1>1, <3>1, <3>4 DEF ToldAndMarked, Passed, Noticing
    <3>9. ToldBefore'
      <4> SUFFICES ASSUME w \notin crossed', Noticing = {}, NEW d \in told
                   PROVE  d \in unmarked \/ (d # window /\ Passed(d))
        BY <3>1, <3>2, <3>4, <3>5 DEF ToldBefore, Passed
      <4>1. d \in unmarked \/ d = plan.marker \/ Passed(d)
        BY DEF ToldAndMarked, Noticing
      <4>2. plan.left <= d
        BY DEF ToldInTime
      <4>3. ASSUME d # window PROVE Passed(d)
        <5>1. window <= d /\ d \in Nat /\ window \in Nat
          BY <2>1, <4>2, <1>1
        <5> QED BY <5>1, <4>3, <2>1 DEF Passed
      <4>4. ASSUME Passed(d) PROVE d # window
        <5>1. PICK e \in RenewalDays : plan.left <= e /\ e < d
          BY <4>4 DEF Passed
        <5>2. window <= e /\ window \in Nat /\ e \in Nat /\ d \in Nat
          BY <5>1, <2>1, <1>1
        <5> QED BY <5>1, <5>2
      <4>5. CASE d = window
        <5>1. ~Passed(d)
          BY <4>4, <4>5
        <5>2. d # plan.marker
          BY <4>5, <3>3
        <5> QED BY <4>1, <5>1, <5>2
      <4>6. CASE d # window
        BY <4>3, <4>6
      <4> QED BY <4>5, <4>6
    <3> QED BY <3>6, <3>7, <3>8, <3>9
  <2> QED BY <2>2, <2>3
<1>3. ASSUME NEW w \in Workers, Remind(w) PROVE RenewalRace'
  <2>1. /\ notice[w].at = "send" /\ w \in Noticing
        /\ UNCHANGED <<plan, unmarked, crossed>>
        /\ told' = IF notice[w].renewed THEN told ELSE told \cup {notice[w].window}
    BY <1>3 DEF Remind, Tells, Noticing
  <2>2. notice' = [notice EXCEPT ![w] = [notice[w] EXCEPT !.at = "mark"]]
    BY <1>3 DEF Remind, Sweeping
  <2>3. \A v \in Workers :
          /\ notice'[v].at = IF v = w THEN "mark" ELSE notice[v].at
          /\ notice'[v].renewed = notice[v].renewed /\ notice'[v].window = notice[v].window
    BY <1>1, <2>2 DEF Notices
  <2>4. Noticing' = Noticing
    BY <2>1, <2>3 DEF Noticing
  <2>5. Alone(Noticing)'
    BY <2>1, <2>4 DEF Alone
  <2>6. ToldInTime'
    BY <2>1, <2>3, <2>4 DEF ToldInTime, Noticing
  <2>7. ToldAndMarked'
    BY <2>1, <2>3 DEF ToldAndMarked, Passed
  <2>8. ToldBefore'
    <3>1. \A v \in Noticing \ crossed : v = w
      BY <2>1 DEF Alone
    <3> QED
      BY <3>1, <2>1, <2>3, <2>4 DEF ToldBefore, Passed
  <2> QED BY <2>5, <2>6, <2>7, <2>8
<1>4. ASSUME NEW w \in Workers, w \in Noticing, SweepEnds(w), plan'.left = plan.left,
             told' \subseteq told \cup (IF notice[w].renewed THEN {} ELSE {notice[w].window}),
             unmarked \subseteq unmarked', 
             \A d \in told' : \/ d \in unmarked' \/ d = plan'.marker \/ Passed(d)
                              \/ \E v \in Workers \ {w} : notice[v].at = "mark"
                                   /\ ~notice[v].renewed /\ notice[v].window = d
      PROVE  RenewalRace'
  <2>1. /\ \A v \in Workers : notice'[v] = IF v = w THEN NoNotice ELSE notice[v]
        /\ NoNotice.at = "off" /\ ~NoNotice.renewed
    BY <1>4, SweepGone DEF RenewalInv
  <2>2. Noticing' = Noticing \ {w} /\ Noticing' \subseteq crossed'
    BY <1>4, <2>1, LeavesAlone DEF Noticing, SweepEnds
  <2>3. Alone(Noticing)' /\ ToldBefore'
    BY <2>2 DEF Alone, ToldBefore
  <2>4. ToldInTime'
    BY <1>4, <2>1, <2>2 DEF ToldInTime, Noticing
  <2>5. ToldAndMarked'
    BY <1>4, <2>1 DEF ToldAndMarked, Passed
  <2> QED BY <2>3, <2>4, <2>5
<1>5. ASSUME NEW w \in Workers, RemindFails(w) PROVE RenewalRace'
  <2>1. /\ notice[w].at = "send" /\ w \in Noticing /\ SweepEnds(w) /\ plan' = plan
        /\ \/ told' = told /\ unmarked' = unmarked
           \/ /\ told' = IF notice[w].renewed THEN told ELSE told \cup {notice[w].window}
              /\ unmarked' = unmarked \cup {notice[w].window}
    BY <1>5 DEF RemindFails, Tells, Noticing
  <2>2. \A d \in told' : \/ d \in unmarked' \/ d = plan'.marker \/ Passed(d)
                         \/ \E v \in Workers \ {w} : notice[v].at = "mark"
                              /\ ~notice[v].renewed /\ notice[v].window = d
    BY <2>1 DEF ToldAndMarked
  <2> QED BY <1>4, <2>1, <2>2
<1>6. ASSUME NEW w \in Workers, MarkReminded(w) PROVE RenewalRace'
  <2>1. /\ notice[w].at = "mark" /\ w \in Noticing /\ SweepEnds(w) /\ told' = told
        /\ unmarked' = IF w \in crossed THEN unmarked \cup {plan.marker} ELSE unmarked
        /\ plan' = [plan EXCEPT !.marker = notice[w].window]
    BY <1>6 DEF MarkReminded, Noticing
  <2>2. plan'.left = plan.left /\ plan'.marker = notice[w].window
    BY <2>1, <1>1
  <2>3. ASSUME NEW d \in told
        PROVE  \/ d \in unmarked' \/ d = plan'.marker \/ Passed(d)
               \/ \E v \in Workers \ {w} : notice[v].at = "mark"
                    /\ ~notice[v].renewed /\ notice[v].window = d
    <3>1. CASE d = plan.marker /\ w \notin crossed
      <4>1. ~notice[w].renewed
        <5>1. plan.left # Far
          BY DEF RenewalInv, NoticeInv
        <5>2. plan.left < Far
          BY <5>1, <1>1
        <5> QED BY <5>2 DEF RenewalInv, NoticeInv
      <4> QED BY <4>1, <3>1, <2>1, <2>2 DEF ToldBefore
    <3>2. CASE d = plan.marker /\ w \in crossed
      BY <3>2, <2>1
    <3>3. CASE d # plan.marker
      BY <3>3, <2>1, <2>2 DEF ToldAndMarked
    <3> QED BY <3>1, <3>2, <3>3
  <2> QED BY <1>4, <2>1, <2>2, <2>3
<1>7. ASSUME NEW w \in Workers, RemindLost(w) PROVE RenewalRace'
  <2>1. /\ w \in Noticing /\ SweepEnds(w) /\ UNCHANGED <<told, plan>>
        /\ unmarked' = IF notice[w].at = "mark" THEN unmarked \cup {notice[w].window}
                                                ELSE unmarked
    BY <1>7 DEF RemindLost, Noticing
  <2>2. \A d \in told' : \/ d \in unmarked' \/ d = plan'.marker \/ Passed(d)
                         \/ \E v \in Workers \ {w} : notice[v].at = "mark"
                              /\ ~notice[v].renewed /\ notice[v].window = d
    BY <2>1 DEF ToldAndMarked
  <2> QED BY <1>4, <2>1, <2>2
<1>8. CASE Renew
  <2>1. /\ told' = {} /\ crossed' = crossed
        /\ notice' = [w \in Workers |-> IF w \in Noticing
                                          THEN [notice[w] EXCEPT !.renewed = TRUE]
                                          ELSE notice[w]]
    BY <1>8 DEF Renew, sweepsVars
  <2>2. /\ Noticing' = Noticing
        /\ \A w \in Noticing : notice'[w].renewed
    BY <1>1, <2>1 DEF Noticing, Notices
  <2> QED
    BY <2>1, <2>2 DEF Alone, ToldInTime, ToldAndMarked, ToldBefore
<1>9. CASE DayOfPlan
  <2>1. /\ plan' = [plan EXCEPT !.left = @ - 1]
        /\ notice' = [w \in Workers |-> IF w \in Noticing
                                          THEN [notice[w] EXCEPT !.older = TRUE]
                                          ELSE notice[w]]
        /\ UNCHANGED <<told, unmarked, crossed>>
    BY <1>9 DEF DayOfPlan
  <2>2. plan'.left = plan.left - 1 /\ plan'.marker = plan.marker
    BY <1>1, <2>1
  <2>3. \A w \in Workers :
          /\ notice'[w].at = notice[w].at /\ notice'[w].window = notice[w].window
          /\ notice'[w].renewed = notice[w].renewed
    BY <1>1, <2>1 DEF Notices
  <2>4. Noticing' = Noticing
    BY <2>3 DEF Noticing
  <2>5. \A d \in Nat : (plan.left <= d => plan'.left <= d)
    BY <1>1, <2>2
  <2>6. \A d : Passed(d) => Passed(d)'
    BY <2>5, <1>1 DEF Passed
  <2>7. ToldInTime'
    BY <1>1, <2>1, <2>3, <2>4, <2>5 DEF ToldInTime, Noticing
  <2>8. ToldAndMarked'
    BY <2>1, <2>2, <2>3, <2>6 DEF ToldAndMarked
  <2>9. ToldBefore'
    BY <2>1, <2>3, <2>4, <2>6 DEF ToldBefore, Noticing
  <2> QED
    BY <2>1, <2>4, <2>7, <2>8, <2>9 DEF Alone
<1>10. CASE UNCHANGED <<renewalVars, sweepsVars>>
  BY <1>10 DEF renewalVars, sweepsVars, Alone, ToldInTime, ToldAndMarked, ToldBefore, Passed, Noticing
<1> QED
  BY <1>2, <1>3, <1>5, <1>6, <1>7, <1>8, <1>9, <1>10 DEF RenewalsNext

\* While the beat fires the sweep, the part takes its own steps or none; while
\* it fires another, none.
LEMMA RenewalBeat ==
  ASSUME [Next]_vars
  PROVE  /\ beat' = beat
         /\ beat = "renewals" => [RenewalsNext]_<<renewalVars, sweepsVars>>
         /\ beat # "renewals" => UNCHANGED renewalVars
BY DEF Next, Renewing, Mails, Posts, Watching, NotMails, NotWatch, vars

\* A reminder is repeated within the paid period only by sweeps that overlap or
\* after a mark was lost or overwritten, for any windows and any number of sweeps.
THEOREM NotRemindedAgain == Spec => RemindedAgainOnlyByRace
<1> DEFINE Race == RenewalInv /\ (beat = "renewals" => RenewalRace)
           Again == \A w \in Workers :
                      notice[w].at = "send" /\ notice'[w].at = "mark"
                        /\ notice[w].window \in told /\ ~notice[w].renewed
                      => w \in crossed \/ notice[w].window \in unmarked
<1>1. Init => Race
  <2> SUFFICES ASSUME Init PROVE Race
    OBVIOUS
  <2>1. Noticing = {} /\ told = {}
    BY DEF Init, RenewalsInit, Noticing, NoNotice
  <2> QED
    BY <2>1, RenewalStart
       DEF Init, RenewalRace, Alone, ToldInTime, ToldAndMarked, ToldBefore
<1>2. Race /\ [Next]_vars => Race'
  <2> SUFFICES ASSUME Race, [Next]_vars PROVE Race'
    OBVIOUS
  <2>1. [RenewalsNext]_renewalVars
    BY RenewalBeat
  <2> QED
    BY <2>1, RenewalBeat, RenewalStep, RenewalRaceStep
<1>3. Race /\ [Next]_vars => [Again]_<<notice>>
  <2> SUFFICES ASSUME Race, [Next]_vars, notice' # notice,
                      NEW w \in Workers, notice[w].at = "send", notice'[w].at = "mark",
                      notice[w].window \in told, ~notice[w].renewed, w \notin crossed
               PROVE  notice[w].window \in unmarked
    OBVIOUS
  <2>1. beat = "renewals"
    BY RenewalBeat DEF renewalVars
  <2>2. w \in Noticing
    BY DEF Noticing
  <2> QED
    BY <2>1, <2>2 DEF RenewalRace, ToldBefore
<1>4. Spec => [][Again]_<<notice>>
  <2> HIDE DEF Race, Again
  <2> QED BY <1>1, <1>2, <1>3, PTL DEF Spec
<1> QED
  BY <1>4 DEF RemindedAgainOnlyByRace

-----------------------------------------------------------------------------
(* Lifecycle: the opt-out.                                                 *)

Stages == {"off", "digest", "digestSend", "digestMark",
           "winback", "winbackSend", "winbackMark"}
Letters == [at : Stages, row : Row, delivered : BOOLEAN]

AtSend == {w \in Workers : mailing[w].at \in {"digestSend", "winbackSend"}}

\* Before the opt-out nothing counts; after it every sweep past its re-reading
\* may send once.
OptOutInv ==
  IF user.row.optOut THEN late + Cardinality(AtSend) <= inFlight
                     ELSE late = 0 /\ inFlight = 0

IdleInv == \A w \in Workers : At(w, "off") => mailing[w] = NoMailing

LifecycleInv == LifecycleTypeOK /\ IdleInv /\ OptOutInv

LEMMA NoMailingType == NoRow \in Row /\ NoMailing \in Letters
<1>1. Never \in Never..Period /\ Never \in Never..Cooldown
  BY LifecycleParameters DEF Never
<1>2. NoRow \in Row
  BY <1>1 DEF NoRow, Row
<1> QED BY <1>2 DEF NoMailing, Letters, Stages

\* A sweep that goes on, and one that ends.
LEMMA GoesOnto ==
  ASSUME LifecycleTypeOK, NEW w \in Workers, NEW stage \in Stages, NEW row \in Row,
         Onto(w, stage, row)
  PROVE  /\ mailing' \in [Workers -> Letters]
         /\ \A v \in Workers \ {w} : mailing'[v] = mailing[v]
         /\ mailing'[w].at = stage /\ mailing'[w].row = row
         /\ mailing'[w].delivered = mailing[w].delivered
BY DEF LifecycleTypeOK, Letters, Stages, Onto

LEMMA Gone ==
  ASSUME LifecycleTypeOK, NEW w \in Workers, MailingEnds(w)
  PROVE  /\ mailing' \in [Workers -> Letters]
         /\ \A v \in Workers \ {w} : mailing'[v] = mailing[v]
         /\ mailing'[w] = NoMailing /\ NoMailing.at = "off" /\ ~NoMailing.delivered
         /\ Leave(w)
BY NoMailingType DEF LifecycleTypeOK, Letters, Stages, MailingEnds, NoMailing

\* What each action does to the sweep w.
LEMMA ReadUserIs ==
  ASSUME LifecycleTypeOK, NEW w \in Workers, ReadUser(w)
  PROVE  /\ At(w, "off") /\ ~user.row.optOut /\ UNCHANGED UnsentVars /\ Enter(w, Mailing)
         /\ mailing' \in [Workers -> Letters]
         /\ \A v \in Workers \ {w} : mailing'[v] = mailing[v]
         /\ mailing'[w].at = "digest" /\ mailing'[w].row = user.row
         /\ mailing'[w].delivered = mailing[w].delivered
<1>1. user.row \in Row /\ "digest" \in Stages /\ Onto(w, "digest", user.row)
  BY DEF ReadUser, LifecycleTypeOK, Stages
<1>2. At(w, "off") /\ ~user.row.optOut /\ UNCHANGED UnsentVars /\ Enter(w, Mailing)
  BY DEF ReadUser
<1> QED
  BY <1>1, <1>2, GoesOnto

LEMMA TryDigestIs ==
  ASSUME LifecycleTypeOK, NEW w \in Workers, TryDigest(w)
  PROVE  /\ At(w, "digest") /\ UNCHANGED <<UnsentVars, crossed>>
         /\ mailing' \in [Workers -> Letters]
         /\ \A v \in Workers \ {w} : mailing'[v] = mailing[v]
         /\ mailing'[w].delivered = mailing[w].delivered
         /\ \/ /\ mailing'[w].at = "digestSend" /\ mailing'[w].row = user.row
               /\ DigestDue(mailing[w].row, user.quiet) /\ ~user.row.optOut
            \/ mailing'[w].at = "winback" /\ mailing'[w].row \in {user.row, mailing[w].row}
<1> DEFINE due == DigestDue(mailing[w].row, user.quiet)
<1>1. user.row \in Row /\ mailing[w].row \in Row /\ "digestSend" \in Stages /\ "winback" \in Stages
  BY DEF LifecycleTypeOK, Stages
<1>2. At(w, "digest") /\ UNCHANGED <<UnsentVars, crossed>>
  BY DEF TryDigest, TryMail
<1>3. CASE due /\ ~user.row.optOut
  <2>1. Onto(w, "digestSend", user.row)
    BY <1>3 DEF TryDigest, TryMail
  <2> HIDE DEF due
  <2> QED
    BY <1>1, <1>2, <1>3, <2>1, GoesOnto DEF due
<1>4. CASE ~(due /\ ~user.row.optOut)
  <2>1. PICK row \in {user.row, mailing[w].row} : Onto(w, "winback", row)
    BY <1>4 DEF TryDigest, TryMail
  <2>2. row \in Row
    BY <1>1, <2>1
  <2> QED BY <1>1, <1>2, <2>1, <2>2, GoesOnto
<1> QED BY <1>3, <1>4

LEMMA TryWinbackIs ==
  ASSUME LifecycleTypeOK, NEW w \in Workers, TryWinback(w)
  PROVE  /\ At(w, "winback") /\ UNCHANGED UnsentVars
         /\ mailing' \in [Workers -> Letters]
         /\ \A v \in Workers \ {w} : mailing'[v] = mailing[v]
         /\ \/ /\ mailing'[w].at = "winbackSend" /\ mailing'[w].row = user.row
               /\ mailing'[w].delivered = mailing[w].delivered /\ crossed' = crossed
               /\ WinbackDue(mailing[w].row, mailing[w].delivered, user.quiet)
               /\ ~user.row.optOut
            \/ mailing'[w] = NoMailing /\ NoMailing.at = "off" /\ Leave(w)
<1> DEFINE due == WinbackDue(mailing[w].row, mailing[w].delivered, user.quiet)
<1>1. user.row \in Row /\ mailing[w].row \in Row /\ "winbackSend" \in Stages
  BY DEF LifecycleTypeOK, Stages
<1>2. At(w, "winback") /\ UNCHANGED UnsentVars
  BY DEF TryWinback, TryMail
<1>3. CASE due /\ ~user.row.optOut
  <2>1. Onto(w, "winbackSend", user.row) /\ crossed' = crossed
    BY <1>3 DEF TryWinback, TryMail
  <2> HIDE DEF due
  <2> QED
    BY <1>1, <1>2, <1>3, <2>1, GoesOnto DEF due
<1>4. CASE ~(due /\ ~user.row.optOut)
  <2>1. MailingEnds(w)
    BY <1>4 DEF TryWinback, TryMail
  <2> QED BY <1>2, <2>1, Gone
<1> QED BY <1>3, <1>4

LEMMA SendIs ==
  ASSUME LifecycleTypeOK, NEW w \in Workers, Send(w)
  PROVE  /\ mailing[w].at \in {"digestSend", "winbackSend"} /\ Goes(w)
         /\ UNCHANGED <<user, lost, inFlight, crossed>>
         /\ mailing' \in [Workers -> Letters]
         /\ \A v \in Workers \ {w} : mailing'[v] = mailing[v]
         /\ mailing'[w].at = (IF At(w, "digestSend") THEN "digestMark" ELSE "winbackMark")
         /\ mailing'[w].row = mailing[w].row
         /\ mailing'[w].delivered = mailing[w].delivered
<1> DEFINE next == IF At(w, "digestSend") THEN "digestMark" ELSE "winbackMark"
<1>1. mailing[w].row \in Row /\ next \in Stages
  BY DEF LifecycleTypeOK, Stages
<1>2. /\ mailing[w].at \in {"digestSend", "winbackSend"} /\ Goes(w)
      /\ UNCHANGED <<user, lost, inFlight, crossed>> /\ Onto(w, next, mailing[w].row)
  BY DEF Send
<1> HIDE DEF next
<1>3. /\ mailing' \in [Workers -> Letters]
      /\ \A v \in Workers \ {w} : mailing'[v] = mailing[v]
      /\ mailing'[w].at = next /\ mailing'[w].row = mailing[w].row
      /\ mailing'[w].delivered = mailing[w].delivered
  BY <1>1, <1>2, GoesOnto
<1> QED
  BY <1>2, <1>3 DEF next

LEMMA MarkIs ==
  ASSUME LifecycleTypeOK, NEW w \in Workers, Mark(w)
  PROVE  /\ UNCHANGED <<sent, lost, inFlight, late>>
         /\ mailing' \in [Workers -> Letters]
         /\ \A v \in Workers \ {w} : mailing'[v] = mailing[v]
         /\ user' \in [row : Row, quiet : 0..Inactive]
         /\ user'.row.optOut = user.row.optOut /\ user'.quiet = user.quiet
         /\ \/ /\ At(w, "digestMark") /\ crossed' = crossed
               /\ user'.row.digest = 0 /\ user'.row.winback = user.row.winback
               /\ user'.row.armed = user.row.armed
               /\ mailing'[w].at = "winback"
               /\ mailing'[w].delivered = mailing[w].delivered
               /\ mailing'[w].row.winback = mailing[w].row.winback
               /\ mailing'[w].row.armed = mailing[w].row.armed
            \/ /\ At(w, "winbackMark")
               /\ user'.row.digest = user.row.digest /\ user'.row.winback = 0
               /\ user'.row.armed = mailing[w].delivered
               /\ mailing'[w] = NoMailing /\ NoMailing.at = "off" /\ Leave(w)
<1>1. user \in [row : Row, quiet : 0..Inactive] /\ mailing[w] \in Letters /\ "winback" \in Stages
  BY DEF LifecycleTypeOK, Stages, Letters
<1>2. 0 \in Never..Period /\ 0 \in Never..Cooldown
  BY LifecycleParameters DEF Never
<1>3. UNCHANGED <<sent, lost, inFlight, late>>
  BY DEF Mark
<1>4. CASE At(w, "digestMark")
  <2> DEFINE row == [mailing[w].row EXCEPT !.digest = 0]
  <2>1. /\ user' = [user EXCEPT !.row.digest = 0] /\ Onto(w, "winback", row)
        /\ crossed' = crossed
    BY <1>4 DEF Mark, At
  <2>2. /\ row \in Row /\ row.winback = mailing[w].row.winback
        /\ row.armed = mailing[w].row.armed
    BY <1>1, <1>2 DEF Letters, Row
  <2>3. /\ user' \in [row : Row, quiet : 0..Inactive]
        /\ user'.row.optOut = user.row.optOut /\ user'.quiet = user.quiet
        /\ user'.row.digest = 0 /\ user'.row.winback = user.row.winback
        /\ user'.row.armed = user.row.armed
    BY <1>1, <1>2, <2>1 DEF Row
  <2> HIDE DEF row
  <2> QED
    BY <1>1, <1>3, <1>4, <2>1, <2>2, <2>3, GoesOnto
<1>5. CASE At(w, "winbackMark")
  <2>1. /\ user' = [user EXCEPT !.row.winback = 0, !.row.armed = mailing[w].delivered]
        /\ MailingEnds(w)
    BY <1>5 DEF Mark, At
  <2>2. /\ user' \in [row : Row, quiet : 0..Inactive]
        /\ user'.row.optOut = user.row.optOut /\ user'.quiet = user.quiet
        /\ user'.row.winback = 0 /\ user'.row.digest = user.row.digest
        /\ user'.row.armed = mailing[w].delivered
    BY <1>1, <1>2, <2>1 DEF Row, Letters
  <2> QED
    BY <1>3, <1>5, <2>1, <2>2, Gone
<1> QED BY <1>4, <1>5 DEF Mark

LEMMA FailsIs ==
  ASSUME LifecycleTypeOK, NEW w \in Workers, Fails(w)
  PROVE  /\ UNCHANGED <<user, inFlight>>
         /\ mailing[w].at \in {"digestSend", "digestMark", "winbackSend", "winbackMark"}
         /\ mailing' \in [Workers -> Letters]
         /\ \A v \in Workers \ {w} : mailing'[v] = mailing[v]
         /\ \/ UNCHANGED <<sent, late, lost>> /\ mailing[w].at \in {"digestSend", "winbackSend"}
            \/ /\ Goes(w) /\ lost' = lost \cup MailOf(w)
               /\ mailing[w].at \in {"digestSend", "winbackSend"}
            \/ /\ UNCHANGED <<sent, late>> /\ lost' = lost \cup MailOf(w)
               /\ mailing[w].at \in {"digestMark", "winbackMark"}
         /\ \/ /\ mailing[w].at \in {"digestSend", "digestMark"} /\ crossed' = crossed
               /\ mailing'[w].at = "winback" /\ mailing'[w].row = user.row
               /\ mailing'[w].delivered = mailing[w].delivered
            \/ /\ mailing[w].at \in {"winbackSend", "winbackMark"}
               /\ mailing'[w] = NoMailing /\ NoMailing.at = "off" /\ Leave(w)
<1>1. user.row \in Row /\ "winback" \in Stages
  BY DEF LifecycleTypeOK, Stages
<1>2. /\ UNCHANGED <<user, inFlight>>
      /\ mailing[w].at \in {"digestSend", "digestMark", "winbackSend", "winbackMark"}
      /\ \/ UNCHANGED <<sent, late, lost>> /\ mailing[w].at \in {"digestSend", "winbackSend"}
         \/ /\ Goes(w) /\ lost' = lost \cup MailOf(w)
            /\ mailing[w].at \in {"digestSend", "winbackSend"}
         \/ /\ UNCHANGED <<sent, late>> /\ lost' = lost \cup MailOf(w)
            /\ mailing[w].at \in {"digestMark", "winbackMark"}
  BY DEF Fails
<1>3. CASE mailing[w].at \in {"digestSend", "digestMark"}
  <2>1. Onto(w, "winback", user.row) /\ crossed' = crossed
    BY <1>3 DEF Fails
  <2> QED BY <1>1, <1>2, <1>3, <2>1, GoesOnto
<1>4. CASE mailing[w].at \in {"winbackSend", "winbackMark"}
  <2>1. MailingEnds(w)
    BY <1>4 DEF Fails
  <2> QED BY <1>2, <1>4, <2>1, Gone
<1> QED BY <1>2, <1>3, <1>4

LEMMA MailerDiesIs ==
  ASSUME LifecycleTypeOK, NEW w \in Workers, MailerDies(w)
  PROVE  /\ w \in Mailing /\ UNCHANGED <<user, sent, inFlight, late>>
         /\ mailing' \in [Workers -> Letters]
         /\ \A v \in Workers \ {w} : mailing'[v] = mailing[v]
         /\ mailing'[w] = NoMailing /\ NoMailing.at = "off" /\ Leave(w)
         /\ lost' = (IF mailing[w].at \in {"digestMark", "winbackMark"}
                     THEN lost \cup MailOf(w) ELSE lost)
BY Gone DEF MailerDies

LEMMA DeliveredIs ==
  ASSUME LifecycleTypeOK, Delivered
  PROVE  /\ UNCHANGED <<inFlight, late, crossed>>
         /\ user' \in [row : Row, quiet : 0..Inactive] /\ user'.quiet = 0
         /\ user'.row.optOut = user.row.optOut /\ user'.row.digest = user.row.digest
         /\ user'.row.winback = user.row.winback
         /\ sent' \in [digest : 0..Period, winback : BOOLEAN]
         /\ sent'.digest = sent.digest /\ ~sent'.winback /\ lost' = lost \ {"winback"}
         /\ mailing' \in [Workers -> Letters]
         /\ \A v \in Workers :
              /\ mailing'[v].at = mailing[v].at /\ mailing'[v].row = mailing[v].row
              /\ IF mailing[v].at = "off" THEN mailing'[v] = mailing[v]
                                          ELSE mailing'[v].delivered
<1>1. /\ user \in [row : Row, quiet : 0..Inactive] /\ 0 \in 0..Inactive
      /\ sent \in [digest : 0..Period, winback : BOOLEAN]
      /\ mailing \in [Workers -> Letters]
  BY LifecycleParameters DEF LifecycleTypeOK, Letters, Stages
<1>2. /\ user' = [user EXCEPT !.quiet = 0, !.row.armed = TRUE]
      /\ sent' = [sent EXCEPT !.winback = FALSE]
      /\ lost' = lost \ {"winback"} /\ UNCHANGED <<inFlight, late, crossed>>
  BY DEF Delivered, sweepsVars
<1>3. /\ user' \in [row : Row, quiet : 0..Inactive] /\ user'.quiet = 0
      /\ user'.row.optOut = user.row.optOut /\ user'.row.digest = user.row.digest
      /\ user'.row.winback = user.row.winback
  BY <1>1, <1>2 DEF Row
<1>4. \A v \in Workers : [mailing[v] EXCEPT !.delivered = TRUE] \in Letters
  BY <1>1 DEF Letters
<1>5. mailing' = [w \in Workers |-> IF w \in Mailing
                                    THEN [mailing[w] EXCEPT !.delivered = TRUE]
                                    ELSE mailing[w]]
  BY DEF Delivered
<1>6. mailing' \in [Workers -> Letters]
  BY <1>1, <1>4, <1>5
<1>7. ASSUME NEW v \in Workers
      PROVE  /\ mailing'[v].at = mailing[v].at /\ mailing'[v].row = mailing[v].row
             /\ IF mailing[v].at = "off" THEN mailing'[v] = mailing[v]
                                         ELSE mailing'[v].delivered
  BY <1>1, <1>5 DEF Mailing, Letters
<1> QED
  BY <1>1, <1>2, <1>3, <1>6, <1>7

LEMMA DayIs ==
  ASSUME LifecycleTypeOK, DayOfUser
  PROVE  /\ Mailing = {} /\ UNCHANGED <<mailing, inFlight, late, crossed>>
         /\ user' \in [row : Row, quiet : 0..Inactive]
         /\ user'.row.optOut = user.row.optOut /\ user'.row.armed = user.row.armed
         /\ user'.row.digest = Older(user.row.digest, Period)
         /\ user.row.winback # Never => user'.row.winback # Never
         /\ sent' \in [digest : 0..Period, winback : BOOLEAN]
         /\ sent'.winback = sent.winback
         /\ sent'.digest = Older(sent.digest, Period)
         /\ lost' \subseteq lost /\ ("winback" \in lost => "winback" \in lost')
         /\ sent'.digest < Period => lost' = lost
<1>1. /\ user \in [row : Row, quiet : 0..Inactive]
      /\ sent \in [digest : 0..Period, winback : BOOLEAN]
  BY DEF LifecycleTypeOK
<1>2. /\ user' = [user EXCEPT !.row.digest = Older(@, Period),
                              !.row.winback = Older(@, Cooldown),
                              !.quiet = Older(@, Inactive)]
      /\ sent' = [sent EXCEPT !.digest = Older(@, Period)]
      /\ lost' = (IF sent'.digest = Period THEN lost \ {"digest"} ELSE lost)
      /\ Mailing = {} /\ UNCHANGED <<mailing, inFlight, late, crossed>>
  BY DEF DayOfUser, sweepsVars
<1>3. ASSUME NEW most \in Nat \ {0}, NEW age \in Never..most
      PROVE  Older(age, most) \in Never..most /\ (age # Never => Older(age, most) \in 0..most)
  BY DEF Older, Never
<1>4. /\ Older(user.row.digest, Period) \in Never..Period
      /\ Older(user.row.winback, Cooldown) \in Never..Cooldown
      /\ user.row.winback # Never => Older(user.row.winback, Cooldown) # Never
      /\ Older(user.quiet, Inactive) \in 0..Inactive
      /\ Older(sent.digest, Period) \in 0..Period
  <2>1. /\ user.row.digest \in Never..Period /\ user.row.winback \in Never..Cooldown
        /\ user.quiet \in 0..Inactive /\ sent.digest \in 0..Period
    BY <1>1 DEF Row
  <2>2. /\ user.quiet \in Never..Inactive /\ user.quiet # Never
        /\ sent.digest \in Never..Period /\ sent.digest # Never
    BY <2>1, LifecycleParameters DEF Never
  <2>3. 0 # Never /\ \A most \in Nat : \A n \in 0..most : n # Never
    BY DEF Never
  <2> QED
    BY <1>3, <2>1, <2>2, <2>3, LifecycleParameters
<1> HIDE DEF Older
<1>5. /\ user' \in [row : Row, quiet : 0..Inactive]
      /\ user'.row.optOut = user.row.optOut /\ user'.row.armed = user.row.armed
      /\ user'.row.digest = Older(user.row.digest, Period)
      /\ user'.row.winback = Older(user.row.winback, Cooldown)
  BY <1>1, <1>2, <1>4 DEF Row
<1>6. /\ sent' \in [digest : 0..Period, winback : BOOLEAN]
      /\ sent'.winback = sent.winback /\ sent'.digest = Older(sent.digest, Period)
  BY <1>1, <1>2, <1>4
<1>7. sent'.digest < Period => sent'.digest # Period
  BY LifecycleParameters
<1> QED
  BY <1>2, <1>4, <1>5, <1>6, <1>7

\* The sweeps past their re-reading are finitely many.
LEMMA AtSendCount ==
  ASSUME NEW T \in SUBSET Workers
  PROVE  /\ IsFiniteSet(T) /\ Cardinality(T) \in Nat
         /\ Cardinality(T) <= Cardinality(Workers)
         /\ \A U \in SUBSET T : Cardinality(U) \in Nat /\ Cardinality(U) <= Cardinality(T)
         /\ \A w \in T : Cardinality(T \ {w}) = Cardinality(T) - 1
BY FS_Subset, FS_CardinalityType, FS_RemoveElement, SweepsParameters

\* What is sent, and after the opt-out what is counted.
LEMMA GoesIs ==
  ASSUME LifecycleTypeOK, NEW w \in Workers, Goes(w)
  PROVE  /\ sent' \in [digest : 0..Period, winback : BOOLEAN]
         /\ At(w, "digestSend") => sent'.digest = 0 /\ sent'.winback = sent.winback
         /\ ~At(w, "digestSend") => sent'.digest = sent.digest
                                    /\ sent'.winback = ~mailing[w].delivered
         /\ late' = (IF user.row.optOut THEN late + 1 ELSE late)
<1>1. /\ sent \in [digest : 0..Period, winback : BOOLEAN] /\ mailing[w].delivered \in BOOLEAN
      /\ 0 \in 0..Period
  BY LifecycleParameters DEF LifecycleTypeOK
<1>2. late' = (IF user.row.optOut THEN late + 1 ELSE late)
  BY DEF Goes
<1>3. CASE At(w, "digestSend")
  <2>1. sent' = [sent EXCEPT !.digest = 0]
    BY <1>3 DEF Goes
  <2> QED BY <1>1, <1>2, <1>3, <2>1
<1>4. CASE ~At(w, "digestSend")
  <2>1. sent' = [sent EXCEPT !.winback = ~mailing[w].delivered]
    BY <1>4 DEF Goes
  <2>2. (~mailing[w].delivered) \in BOOLEAN
    OBVIOUS
  <2> QED BY <1>1, <1>2, <1>4, <2>1, <2>2
<1> QED BY <1>3, <1>4

LEMMA LifecycleStart == LifecycleInit => LifecycleInv
<1> SUFFICES ASSUME LifecycleInit PROVE LifecycleInv
  OBVIOUS
<1>1. /\ user = [row |-> NoRow, quiet |-> Inactive]
      /\ mailing = [w \in Workers |-> NoMailing]
      /\ sent = [digest |-> Period, winback |-> FALSE]
      /\ lost = {} /\ inFlight = 0 /\ late = 0
  BY DEF LifecycleInit
<1>2. Inactive \in 0..Inactive /\ Period \in 0..Period /\ 0 \in 0..Cardinality(Workers)
  BY LifecycleParameters, AtSendCount
<1>3. LifecycleTypeOK
  BY <1>1, <1>2, NoMailingType DEF LifecycleTypeOK, Letters, Stages
<1>4. IdleInv /\ OptOutInv
  BY <1>1 DEF IdleInv, OptOutInv, NoRow
<1> QED BY <1>3, <1>4 DEF LifecycleInv

LEMMA LifecycleInvStep == LifecycleInv /\ [LifecycleNext]_lifecycleVars => LifecycleInv'
<1> SUFFICES ASSUME LifecycleInv, [LifecycleNext]_lifecycleVars PROVE LifecycleInv'
  OBVIOUS
<1>1. /\ LifecycleTypeOK /\ IdleInv /\ OptOutInv
      /\ user \in [row : Row, quiet : 0..Inactive] /\ mailing \in [Workers -> Letters]
      /\ sent \in [digest : 0..Period, winback : BOOLEAN] /\ lost \subseteq {"digest", "winback"}
      /\ inFlight \in 0..Cardinality(Workers) /\ late \in Nat
  BY DEF LifecycleInv, LifecycleTypeOK, Letters, Stages
<1>2. AtSend \in SUBSET Workers /\ Cardinality(AtSend) \in Nat /\ inFlight \in Nat
  BY <1>1, AtSendCount DEF AtSend
\* One sweep moves; what is counted of it may have been sent.
<1>3. ASSUME NEW w \in Workers, mailing' \in [Workers -> Letters],
             \A v \in Workers \ {w} : mailing'[v] = mailing[v],
             mailing'[w].at = "off" => mailing'[w] = NoMailing,
             user' \in [row : Row, quiet : 0..Inactive],
             user'.row.optOut = user.row.optOut, inFlight' = inFlight,
             sent' \in [digest : 0..Period, winback : BOOLEAN],
             lost' \subseteq lost \cup {"digest", "winback"},
             \/ late' = late
             \/ late' = late + 1 /\ user.row.optOut /\ w \in AtSend,
             w \in AtSend' => ~user.row.optOut
      PROVE  LifecycleInv'
  <2>1. LifecycleTypeOK'
    <3>1. late' \in Nat
      BY <1>1, <1>3
    <3> QED BY <1>1, <1>3, <3>1 DEF LifecycleTypeOK, Letters, Stages
  <2>2. IdleInv'
    BY <1>1, <1>3 DEF IdleInv, At
  <2>3. ASSUME user.row.optOut PROVE OptOutInv'
    <3> DEFINE c == Cardinality(AtSend)
               d == Cardinality(AtSend')
    <3>1. AtSend' \subseteq AtSend \ {w} /\ late + c <= inFlight
      BY <1>1, <1>3, <2>3 DEF AtSend, OptOutInv
    <3>2. /\ d \in Nat /\ c \in Nat /\ d <= c
          /\ w \in AtSend => d <= c - 1
      BY <1>2, <3>1, AtSendCount
    <3>3. late' = late \/ (late' = late + 1 /\ w \in AtSend)
      BY <1>3
    <3>4. late' + d <= inFlight'
      <4> HIDE DEF c, d
      <4>1. inFlight' = inFlight /\ late \in Nat /\ inFlight \in Nat
        BY <1>1, <1>2, <1>3
      <4>2. CASE late' = late
        BY <4>1, <4>2, <3>1, <3>2
      <4>3. CASE late' = late + 1 /\ w \in AtSend
        BY <4>1, <4>3, <3>1, <3>2
      <4> QED BY <3>3, <4>2, <4>3
    <3>5. user'.row.optOut
      BY <1>3, <2>3
    <3> QED BY <3>4, <3>5 DEF OptOutInv
  <2>4. ASSUME ~user.row.optOut PROVE OptOutInv'
    <3>1. late = 0 /\ inFlight = 0
      BY <1>1, <2>4 DEF OptOutInv
    <3>2. ~user'.row.optOut /\ late' = late /\ inFlight' = inFlight
      BY <1>3, <2>4
    <3> QED BY <3>1, <3>2 DEF OptOutInv
  <2>5. OptOutInv'
    BY <2>3, <2>4
  <2> QED BY <2>1, <2>2, <2>5 DEF LifecycleInv
<1>4. ASSUME NEW w \in Workers, ReadUser(w) PROVE LifecycleInv'
  <2> USE <1>1, <1>4, ReadUserIs DEF UnsentVars
  <2>1. w \notin AtSend'
    BY DEF AtSend
  <2> QED BY <2>1, <1>3
<1>5. ASSUME NEW w \in Workers, TryDigest(w) PROVE LifecycleInv'
  <2> USE <1>1, <1>5, TryDigestIs DEF UnsentVars
  <2>1. w \in AtSend' => ~user.row.optOut
    BY DEF AtSend
  <2> QED BY <2>1, <1>3
<1>6. ASSUME NEW w \in Workers, TryWinback(w) PROVE LifecycleInv'
  <2> USE <1>1, <1>6, TryWinbackIs DEF UnsentVars
  <2>1. w \in AtSend' => ~user.row.optOut
    BY DEF AtSend
  <2> QED BY <2>1, <1>3
<1>7. ASSUME NEW w \in Workers, Send(w) PROVE LifecycleInv'
  <2> USE <1>1, <1>7, SendIs
  <2>1. w \notin AtSend' /\ w \in AtSend
    BY DEF AtSend
  <2>2. /\ sent' \in [digest : 0..Period, winback : BOOLEAN]
        /\ late' = late \/ (late' = late + 1 /\ user.row.optOut)
    BY GoesIs
  <2> QED BY <2>1, <2>2, <1>3
<1>8. ASSUME NEW w \in Workers, Mark(w) PROVE LifecycleInv'
  <2> USE <1>1, <1>8, MarkIs
  <2>1. w \notin AtSend'
    BY DEF AtSend
  <2> QED BY <2>1, <1>3
<1>9. ASSUME NEW w \in Workers, Fails(w) PROVE LifecycleInv'
  <2> USE <1>1, <1>9, FailsIs
  <2>1. w \notin AtSend' /\ (mailing[w].at \in {"digestSend", "winbackSend"} => w \in AtSend)
    BY DEF AtSend
  <2>2. /\ sent' \in [digest : 0..Period, winback : BOOLEAN]
        /\ late' = late \/ (late' = late + 1 /\ user.row.optOut /\ w \in AtSend)
    BY GoesIs, <2>1
  <2>3. lost' \subseteq lost \cup {"digest", "winback"}
    BY DEF MailOf
  <2> QED BY <2>1, <2>2, <2>3, <1>3
<1>10. ASSUME NEW w \in Workers, MailerDies(w) PROVE LifecycleInv'
  <2> USE <1>1, <1>10, MailerDiesIs
  <2>1. w \notin AtSend'
    BY DEF AtSend
  <2>2. lost' \subseteq lost \cup {"digest", "winback"}
    BY DEF MailOf
  <2> QED BY <2>1, <2>2, <1>3
<1>11. CASE Unsubscribe
  <2>1. /\ ~user.row.optOut /\ user' = [user EXCEPT !.row.optOut = TRUE]
        /\ inFlight' = Cardinality(AtSend) /\ UNCHANGED <<mailing, sent, lost, late>>
    BY <1>11 DEF Unsubscribe, AtSend
  <2>2. user' \in [row : Row, quiet : 0..Inactive] /\ user'.row.optOut
    BY <1>1, <2>1 DEF Row
  <2>3. inFlight' \in 0..Cardinality(Workers) /\ AtSend' = AtSend
    BY <1>2, <2>1, AtSendCount DEF AtSend
  <2>4. LifecycleTypeOK'
    BY <1>1, <2>1, <2>2, <2>3 DEF LifecycleTypeOK, Letters, Stages
  <2>5. IdleInv' /\ OptOutInv'
    BY <1>1, <1>2, <2>1, <2>2, <2>3 DEF IdleInv, At, OptOutInv
  <2> QED BY <2>4, <2>5 DEF LifecycleInv
<1>12. CASE Delivered
  <2> USE <1>1, <1>12, DeliveredIs
  <2>1. LifecycleTypeOK'
    BY DEF LifecycleTypeOK, Letters, Stages
  <2>2. AtSend' = AtSend
    BY DEF AtSend
  <2>3. IdleInv' /\ OptOutInv'
    BY <2>2 DEF IdleInv, At, OptOutInv
  <2> QED BY <2>1, <2>3 DEF LifecycleInv
<1>13. CASE DayOfUser
  <2> USE <1>1, <1>13, DayIs
  <2>1. LifecycleTypeOK'
    BY DEF LifecycleTypeOK, Letters, Stages
  <2>2. AtSend' = AtSend
    BY DEF AtSend
  <2>3. IdleInv' /\ OptOutInv'
    BY <2>2 DEF IdleInv, At, OptOutInv
  <2> QED BY <2>1, <2>3 DEF LifecycleInv
<1>14. CASE UNCHANGED lifecycleVars
  BY <1>1, <1>14
     DEF lifecycleVars, LifecycleInv, LifecycleTypeOK, IdleInv, OptOutInv, At, AtSend
<1> QED
  BY <1>4, <1>5, <1>6, <1>7, <1>8, <1>9, <1>10, <1>11, <1>12, <1>13, <1>14
     DEF LifecycleNext, LifecycleStep

\* While the beat fires the lifecycle sweep, the part takes its own steps or
\* none; while it fires another, none.
LEMMA LifecycleBeat ==
  ASSUME [Next]_vars
  PROVE  /\ beat' = beat
         /\ beat = "lifecycle" => [LifecycleNext]_<<lifecycleVars, sweepsVars>>
         /\ beat # "lifecycle" => UNCHANGED lifecycleVars
         /\ [LifecycleNext]_lifecycleVars
BY DEF Next, Renewing, Mails, Posts, Watching, NotMails, NotWatch, vars, lifecycleVars

LEMMA LifecycleInvariance == Spec => []LifecycleInv
<1>1. Init => LifecycleInv
  BY LifecycleStart DEF Init
<1>2. LifecycleInv /\ [Next]_vars => LifecycleInv'
  BY LifecycleInvStep, LifecycleBeat
<1> QED BY <1>1, <1>2, PTL DEF Spec

\* After the opt-out, however many children run the sweep and whatever fails, no
\* more mails go out than were past their re-reading (_opted_out_now).
THEOREM OptedOut == Spec => []OptOutHonoured
<1>1. LifecycleInv => OptOutHonoured
  <2> SUFFICES ASSUME LifecycleInv PROVE late <= inFlight
    BY DEF OptOutHonoured
  <2>1. AtSend \in SUBSET Workers /\ Cardinality(AtSend) \in Nat
    BY AtSendCount DEF AtSend
  <2>2. late \in Nat /\ inFlight \in 0..Cardinality(Workers) /\ Cardinality(Workers) \in Nat
    BY AtSendCount DEF LifecycleInv, LifecycleTypeOK
  <2>3. (late = 0 /\ inFlight = 0) \/ late + Cardinality(AtSend) <= inFlight
    BY DEF LifecycleInv, OptOutInv
  <2> QED BY <2>1, <2>2, <2>3
<1> QED BY <1>1, LifecycleInvariance, PTL

\* The last digest is marked, about to be, or its mark is lost; the mark that an
\* unlapped sweep reads is the one in the row.
DigestMarked ==
  /\ sent.digest < Period =>
       \/ "digest" \in lost \/ user.row.digest = sent.digest
       \/ \E v \in Workers : At(v, "digestMark")
  /\ \A w \in Workers : At(w, "digestMark") => sent.digest = 0
  /\ \A w \in Mailing \ crossed :
       /\ At(w, "digest") => mailing[w].row.digest = user.row.digest
       /\ At(w, "digestSend") /\ sent.digest < Period => "digest" \in lost

\* The same of the win-back.
WinbackMarked ==
  sent.winback => \/ "winback" \in lost
                  \/ user.row.winback # Never /\ ~user.row.armed
                  \/ \E v \in Workers : At(v, "winbackMark")

\* Once an alert is delivered the sweeps under way have no other to send.
DeliveredIsQuiet ==
  \A w \in Mailing : mailing[w].delivered =>
    /\ user.quiet = 0 /\ ~sent.winback
    /\ \A v \in Workers : At(v, "winbackSend") \/ At(v, "winbackMark") => mailing[v].delivered

\* A sweep that is alone has the row's win-back, and does not send it again.
WinbackRead ==
  \A w \in Mailing \ crossed :
    /\ ~mailing[w].delivered
       => \/ mailing[w].at \notin {"digest", "digestSend", "digestMark", "winback"}
          \/ /\ mailing[w].row.winback = user.row.winback
             /\ mailing[w].row.armed = user.row.armed
    /\ At(w, "winbackSend") /\ sent.winback => "winback" \in lost

LifecycleRace ==
  Alone(Mailing) /\ DigestMarked /\ WinbackMarked /\ DeliveredIsQuiet /\ WinbackRead

WinbackInv == WinbackMarked /\ DeliveredIsQuiet /\ WinbackRead

LEMMA LifecycleRaceStep ==
  LifecycleInv /\ LifecycleRace /\ [LifecycleNext]_<<lifecycleVars, sweepsVars>>
    => LifecycleRace'
<1> SUFFICES ASSUME LifecycleInv, LifecycleRace,
                    [LifecycleNext]_<<lifecycleVars, sweepsVars>>
             PROVE  LifecycleRace'
  OBVIOUS
<1>1. /\ LifecycleTypeOK /\ IdleInv /\ Alone(Mailing) /\ DigestMarked /\ WinbackInv
      /\ user \in [row : Row, quiet : 0..Inactive] /\ mailing \in [Workers -> Letters]
      /\ sent \in [digest : 0..Period, winback : BOOLEAN]
      /\ user.row.digest \in Never..Period /\ Never = -1
      /\ Period \in Nat \ {0} /\ Inactive \in Nat \ {0}
  BY LifecycleParameters
     DEF LifecycleInv, LifecycleTypeOK, LifecycleRace, WinbackInv, Letters, Stages, Row, Never
\* A sweep goes on, alone or among others that are all lapped.
<1>2. ASSUME NEW w \in Mailing, crossed' = crossed,
             \A v \in Workers \ {w} : mailing'[v] = mailing[v],
             mailing'[w].at # "off", mailing'[w].delivered = mailing[w].delivered
      PROVE  /\ Mailing' = Mailing /\ Alone(Mailing)'
             /\ \A v \in Mailing \ crossed : v = w
  BY <1>1, <1>2 DEF Mailing, Alone
\* A sweep ends; the others are lapped.
<1>3. ASSUME NEW w \in Mailing, Leave(w),
             \A v \in Workers \ {w} : mailing'[v] = mailing[v], mailing'[w].at = "off"
      PROVE  Mailing' = Mailing \ {w} /\ Mailing' \subseteq crossed' /\ Alone(Mailing)'
  <2>1. Mailing' = Mailing \ {w}
    BY <1>3 DEF Mailing
  <2> QED BY <1>1, <1>3, <2>1, LeavesAlone DEF Alone
<1>4. ASSUME NEW w \in Workers, ReadUser(w) PROVE LifecycleRace'
  <2>1. /\ At(w, "off") /\ UNCHANGED UnsentVars /\ Enter(w, Mailing)
        /\ \A v \in Workers \ {w} : mailing'[v] = mailing[v]
        /\ mailing'[w].at = "digest" /\ mailing'[w].row = user.row
        /\ mailing'[w].delivered = mailing[w].delivered
    BY <1>1, <1>4, ReadUserIs
  <2>2. ~mailing'[w].delivered
    BY <1>1, <2>1 DEF IdleInv, NoMailing
  <2>3. Mailing' = Mailing \cup {w} /\ w \notin Mailing
    BY <2>1 DEF Mailing, At
  <2>4. \A v \in Mailing' \ crossed' : v = w /\ Mailing = {}
    BY <1>1, <2>1, <2>3, EntersAlone
  <2>5. Alone(Mailing)'
    BY <2>3, <2>4 DEF Alone
  <2>6. DigestMarked'
    BY <1>1, <2>1, <2>3, <2>4 DEF DigestMarked, At, UnsentVars
  <2>7. WinbackInv'
    <3>1. WinbackMarked'
      BY <1>1, <2>1, <2>2, <2>3, <2>4 DEF WinbackInv, WinbackMarked, DeliveredIsQuiet, At, Mailing, UnsentVars
    <3>2. DeliveredIsQuiet'
      BY <1>1, <2>1, <2>2, <2>3, <2>4 DEF WinbackInv, DeliveredIsQuiet, At, Mailing, UnsentVars
    <3>3. WinbackRead'
      BY <1>1, <2>1, <2>2, <2>3, <2>4 DEF WinbackInv, WinbackRead, DeliveredIsQuiet, At, UnsentVars
    <3> QED BY <3>1, <3>2, <3>3 DEF WinbackInv
  <2> QED BY <2>5, <2>6, <2>7 DEF LifecycleRace, WinbackInv
<1>5. ASSUME NEW w \in Workers, TryDigest(w) PROVE LifecycleRace'
  <2>1. /\ At(w, "digest") /\ UNCHANGED <<UnsentVars, crossed>>
        /\ \A v \in Workers \ {w} : mailing'[v] = mailing[v]
        /\ mailing'[w].delivered = mailing[w].delivered
        /\ \/ /\ mailing'[w].at = "digestSend" /\ mailing'[w].row = user.row
              /\ DigestDue(mailing[w].row, user.quiet)
           \/ mailing'[w].at = "winback" /\ mailing'[w].row \in {user.row, mailing[w].row}
    BY <1>1, <1>5, TryDigestIs
  <2>2. /\ w \in Mailing /\ Mailing' = Mailing /\ Alone(Mailing)'
        /\ \A v \in Mailing \ crossed : v = w
    BY <1>2, <2>1 DEF Mailing, At
  <2>3. w \notin crossed /\ mailing'[w].at = "digestSend" /\ sent.digest < Period
          => "digest" \in lost
    <3> SUFFICES ASSUME w \notin crossed, mailing'[w].at = "digestSend", sent.digest < Period,
                        "digest" \notin lost
                 PROVE  FALSE
      OBVIOUS
    <3>1. mailing[w].row.digest = user.row.digest
      BY <1>1, <2>1, <2>2 DEF DigestMarked
    <3>2. user.row.digest = Never \/ user.row.digest >= Period
      BY <2>1, <3>1 DEF DigestDue
    <3>3. \A v \in Workers : ~At(v, "digestMark")
      BY <1>1, <2>1, <2>2 DEF Alone, Mailing, At
    <3>4. user.row.digest = sent.digest
      BY <1>1, <3>3 DEF DigestMarked
    <3> QED BY <1>1, <3>2, <3>4
  <2>4. DigestMarked'
    BY <1>1, <2>1, <2>2, <2>3 DEF DigestMarked, At, UnsentVars
  <2>5. WinbackInv'
    <3>1. WinbackMarked'
      BY <1>1, <2>1, <2>2 DEF WinbackInv, WinbackMarked, DeliveredIsQuiet, At, Mailing, UnsentVars
    <3>2. DeliveredIsQuiet'
      BY <1>1, <2>1, <2>2 DEF WinbackInv, DeliveredIsQuiet, At, Mailing, UnsentVars
    <3>3. WinbackRead'
      BY <1>1, <2>1, <2>2 DEF WinbackInv, WinbackRead, DeliveredIsQuiet, At, UnsentVars
    <3> QED BY <3>1, <3>2, <3>3 DEF WinbackInv
  <2> QED BY <2>2, <2>4, <2>5 DEF LifecycleRace, WinbackInv
<1>6. ASSUME NEW w \in Workers, TryWinback(w) PROVE LifecycleRace'
  <2>1. /\ At(w, "winback") /\ UNCHANGED UnsentVars
        /\ \A v \in Workers \ {w} : mailing'[v] = mailing[v]
        /\ \/ /\ mailing'[w].at = "winbackSend" /\ mailing'[w].row = user.row
              /\ mailing'[w].delivered = mailing[w].delivered /\ crossed' = crossed
              /\ WinbackDue(mailing[w].row, mailing[w].delivered, user.quiet)
           \/ mailing'[w] = NoMailing /\ NoMailing.at = "off" /\ Leave(w)
    BY <1>1, <1>6, TryWinbackIs
  <2>2. CASE mailing'[w] = NoMailing /\ NoMailing.at = "off" /\ Leave(w)
    <3>1. Mailing' = Mailing \ {w} /\ Mailing' \subseteq crossed' /\ Alone(Mailing)'
      BY <1>3, <2>1, <2>2 DEF Mailing, At
    <3>2. DigestMarked' /\ WinbackInv'
      BY <1>1, <2>1, <2>2, <3>1 DEF DigestMarked, WinbackMarked, DeliveredIsQuiet, WinbackRead, WinbackInv, At, UnsentVars, Mailing
    <3> QED BY <3>1, <3>2 DEF LifecycleRace, WinbackInv
  <2>3. CASE /\ mailing'[w].at = "winbackSend"
             /\ mailing'[w].delivered = mailing[w].delivered /\ crossed' = crossed
             /\ WinbackDue(mailing[w].row, mailing[w].delivered, user.quiet)
    <3>1. /\ w \in Mailing /\ Mailing' = Mailing /\ Alone(Mailing)'
          /\ \A v \in Mailing \ crossed : v = w
      BY <1>2, <2>1, <2>3 DEF Mailing, At
    <3>2. user.quiet >= Inactive /\ user.quiet # 0
      BY <1>1, <2>3 DEF WinbackDue
    <3>3. \A v \in Mailing : ~mailing[v].delivered
      BY <1>1, <3>2 DEF WinbackMarked, DeliveredIsQuiet, WinbackRead, WinbackInv
    <3>4. w \notin crossed /\ sent.winback => "winback" \in lost
      <4> SUFFICES ASSUME w \notin crossed, sent.winback, "winback" \notin lost PROVE FALSE
        OBVIOUS
      <4>1. /\ mailing[w].row.winback = user.row.winback
            /\ mailing[w].row.armed = user.row.armed
        BY <1>1, <2>1, <3>1, <3>3 DEF WinbackMarked, DeliveredIsQuiet, WinbackRead, WinbackInv, At
      <4>2. user.row.winback = Never \/ user.row.armed
        BY <2>3, <3>1, <3>3, <4>1 DEF WinbackDue
      <4>3. \A v \in Workers : ~At(v, "winbackMark")
        BY <1>1, <2>1, <3>1 DEF Alone, Mailing, At
      <4> QED BY <1>1, <4>2, <4>3 DEF WinbackMarked, DeliveredIsQuiet, WinbackRead, WinbackInv
    <3>5. DigestMarked'
      BY <1>1, <2>1, <2>3, <3>1 DEF DigestMarked, At, UnsentVars
    <3>6. WinbackInv'
      <4>1. \A v \in Mailing : ~mailing'[v].delivered
        BY <2>1, <2>3, <3>3 DEF Mailing
      <4> QED
        BY <1>1, <2>1, <2>3, <3>1, <3>4, <4>1 DEF WinbackMarked, DeliveredIsQuiet, WinbackRead, WinbackInv, At, UnsentVars
    <3> QED BY <3>1, <3>5, <3>6 DEF LifecycleRace, WinbackInv
  <2> QED BY <2>1, <2>2, <2>3
<1>7. ASSUME NEW w \in Workers, Send(w) PROVE LifecycleRace'
  <2>1. /\ mailing[w].at \in {"digestSend", "winbackSend"} /\ Goes(w)
        /\ UNCHANGED <<user, lost, crossed>>
        /\ \A v \in Workers \ {w} : mailing'[v] = mailing[v]
        /\ mailing'[w].at = (IF At(w, "digestSend") THEN "digestMark" ELSE "winbackMark")
        /\ mailing'[w].row = mailing[w].row
        /\ mailing'[w].delivered = mailing[w].delivered
    BY <1>1, <1>7, SendIs
  <2>2. /\ w \in Mailing /\ Mailing' = Mailing /\ Alone(Mailing)'
        /\ \A v \in Mailing \ crossed : v = w
    BY <1>2, <2>1 DEF Mailing
  <2>3. /\ At(w, "digestSend") => sent'.digest = 0 /\ sent'.winback = sent.winback
        /\ ~At(w, "digestSend") => sent'.digest = sent.digest
                                   /\ sent'.winback = ~mailing[w].delivered
    BY <1>1, <2>1, GoesIs
  <2>4. DigestMarked'
    BY <1>1, <2>1, <2>2, <2>3 DEF DigestMarked, At
  <2>5. WinbackInv'
    <3>1. WinbackMarked'
      <4>1. CASE At(w, "digestSend")
        BY <1>1, <2>1, <2>3, <4>1 DEF WinbackInv, WinbackMarked, At
      <4>2. CASE ~At(w, "digestSend")
        <5>1. At(w, "winbackMark")'
          BY <2>1, <4>2 DEF At
        <5> QED BY <5>1 DEF WinbackMarked
      <4> QED BY <4>1, <4>2
    <3>2. DeliveredIsQuiet'
      BY <1>1, <2>1, <2>2, <2>3 DEF WinbackInv, DeliveredIsQuiet, At, Mailing
    <3>3. WinbackRead'
      BY <1>1, <2>1, <2>2, <2>3 DEF WinbackInv, WinbackRead, DeliveredIsQuiet, At
    <3> QED BY <3>1, <3>2, <3>3 DEF WinbackInv
  <2> QED BY <2>2, <2>4, <2>5 DEF LifecycleRace, WinbackInv
<1>8. ASSUME NEW w \in Workers, Mark(w) PROVE LifecycleRace'
  <2>1. /\ UNCHANGED <<sent, lost>>
        /\ \A v \in Workers \ {w} : mailing'[v] = mailing[v]
        /\ user'.quiet = user.quiet
        /\ \/ /\ At(w, "digestMark") /\ crossed' = crossed
              /\ user'.row.digest = 0 /\ user'.row.winback = user.row.winback
              /\ user'.row.armed = user.row.armed
              /\ mailing'[w].at = "winback"
              /\ mailing'[w].delivered = mailing[w].delivered
              /\ mailing'[w].row.winback = mailing[w].row.winback
              /\ mailing'[w].row.armed = mailing[w].row.armed
           \/ /\ At(w, "winbackMark")
              /\ user'.row.digest = user.row.digest /\ user'.row.winback = 0
              /\ user'.row.armed = mailing[w].delivered
              /\ mailing'[w] = NoMailing /\ NoMailing.at = "off" /\ Leave(w)
    BY <1>1, <1>8, MarkIs
  <2>2. CASE At(w, "digestMark")
    <3>1. /\ crossed' = crossed /\ mailing'[w].at = "winback"
          /\ user'.row.digest = 0 /\ user'.row.winback = user.row.winback
          /\ user'.row.armed = user.row.armed
          /\ mailing'[w].delivered = mailing[w].delivered
          /\ mailing'[w].row.winback = mailing[w].row.winback
          /\ mailing'[w].row.armed = mailing[w].row.armed
      BY <2>1, <2>2 DEF At
    <3>2. /\ w \in Mailing /\ Mailing' = Mailing /\ Alone(Mailing)'
          /\ \A v \in Mailing \ crossed : v = w
      BY <1>2, <2>1, <2>2, <3>1 DEF Mailing, At
    <3>3. DigestMarked'
      BY <1>1, <2>1, <2>2, <3>1, <3>2 DEF DigestMarked, At
    <3>4. WinbackInv'
      <4>1. WinbackMarked'
        BY <1>1, <2>1, <2>2, <3>1, <3>2 DEF WinbackInv, WinbackMarked, DeliveredIsQuiet, At, Mailing
      <4>2. DeliveredIsQuiet'
        BY <1>1, <2>1, <2>2, <3>1, <3>2 DEF WinbackInv, DeliveredIsQuiet, At, Mailing
      <4>3. WinbackRead'
        BY <1>1, <2>1, <2>2, <3>1, <3>2 DEF WinbackInv, WinbackRead, DeliveredIsQuiet, At
      <4> QED BY <4>1, <4>2, <4>3 DEF WinbackInv
    <3> QED BY <3>2, <3>3, <3>4 DEF LifecycleRace, WinbackInv
  <2>3. CASE At(w, "winbackMark")
    <3>1. /\ user'.row.digest = user.row.digest /\ user'.row.winback = 0
          /\ user'.row.armed = mailing[w].delivered
          /\ mailing'[w] = NoMailing /\ NoMailing.at = "off" /\ Leave(w)
      BY <2>1, <2>3 DEF At
    <3>2. Mailing' = Mailing \ {w} /\ Mailing' \subseteq crossed' /\ Alone(Mailing)'
      BY <1>3, <2>1, <2>3, <3>1 DEF Mailing, At
    <3>3. DigestMarked'
      BY <1>1, <2>1, <2>3, <3>1, <3>2 DEF DigestMarked, At, Mailing
    <3>4. WinbackInv'
      <4>1. sent.winback => ~mailing[w].delivered
        BY <1>1, <2>3 DEF WinbackMarked, DeliveredIsQuiet, WinbackRead, WinbackInv, Mailing, At
      <4> QED
        BY <1>1, <2>1, <2>3, <3>1, <3>2, <4>1 DEF WinbackMarked, DeliveredIsQuiet, WinbackRead, WinbackInv, At, Mailing
    <3> QED BY <3>2, <3>3, <3>4 DEF LifecycleRace, WinbackInv
  <2> QED BY <2>1, <2>2, <2>3
<1>9. ASSUME NEW w \in Workers, Fails(w) PROVE LifecycleRace'
  <2>1. /\ user' = user
        /\ mailing[w].at \in {"digestSend", "digestMark", "winbackSend", "winbackMark"}
        /\ \A v \in Workers \ {w} : mailing'[v] = mailing[v]
        /\ \/ UNCHANGED <<sent, lost>> /\ mailing[w].at \in {"digestSend", "winbackSend"}
           \/ /\ Goes(w) /\ lost' = lost \cup MailOf(w)
              /\ mailing[w].at \in {"digestSend", "winbackSend"}
           \/ /\ sent' = sent /\ lost' = lost \cup MailOf(w)
              /\ mailing[w].at \in {"digestMark", "winbackMark"}
        /\ \/ /\ mailing[w].at \in {"digestSend", "digestMark"} /\ crossed' = crossed
              /\ mailing'[w].at = "winback" /\ mailing'[w].row = user.row
              /\ mailing'[w].delivered = mailing[w].delivered
           \/ /\ mailing[w].at \in {"winbackSend", "winbackMark"}
              /\ mailing'[w] = NoMailing /\ NoMailing.at = "off" /\ Leave(w)
    BY <1>1, <1>9, FailsIs
  <2>2. CASE mailing[w].at \in {"digestSend", "digestMark"}
    <3>1. /\ crossed' = crossed /\ mailing'[w].at = "winback" /\ mailing'[w].row = user.row
          /\ mailing'[w].delivered = mailing[w].delivered
      BY <2>1, <2>2
    <3>2. /\ w \in Mailing /\ Mailing' = Mailing /\ Alone(Mailing)'
          /\ \A v \in Mailing \ crossed : v = w
      BY <1>2, <2>1, <2>2, <3>1 DEF Mailing
    <3>3. /\ sent'.winback = sent.winback
          /\ \/ sent' = sent /\ lost' = lost /\ At(w, "digestSend")
             \/ sent'.digest = 0 /\ lost' = lost \cup {"digest"}
             \/ sent' = sent /\ lost' = lost \cup {"digest"}
      BY <1>1, <2>1, <2>2, GoesIs DEF MailOf, At
    <3>4. DigestMarked'
      BY <1>1, <2>1, <2>2, <3>1, <3>2, <3>3 DEF DigestMarked, At
    <3>5. WinbackInv'
      <4>1. WinbackMarked'
        BY <1>1, <2>1, <2>2, <3>1, <3>2, <3>3 DEF WinbackInv, WinbackMarked, DeliveredIsQuiet, At, Mailing
      <4>2. DeliveredIsQuiet'
        BY <1>1, <2>1, <2>2, <3>1, <3>2, <3>3 DEF WinbackInv, DeliveredIsQuiet, At, Mailing
      <4>3. WinbackRead'
        BY <1>1, <2>1, <2>2, <3>1, <3>2, <3>3 DEF WinbackInv, WinbackRead, DeliveredIsQuiet, At
      <4> QED BY <4>1, <4>2, <4>3 DEF WinbackInv
    <3> QED BY <3>2, <3>4, <3>5 DEF LifecycleRace, WinbackInv
  <2>3. CASE mailing[w].at \in {"winbackSend", "winbackMark"}
    <3>1. mailing'[w] = NoMailing /\ NoMailing.at = "off" /\ Leave(w)
      BY <2>1, <2>3
    <3>2. w \in Mailing /\ Mailing' = Mailing \ {w} /\ Mailing' \subseteq crossed'
          /\ Alone(Mailing)'
      BY <1>3, <2>1, <2>3, <3>1 DEF Mailing
    <3>3. /\ sent'.digest = sent.digest
          /\ \/ sent' = sent /\ lost' = lost /\ At(w, "winbackSend")
             \/ /\ sent'.winback = ~mailing[w].delivered /\ lost' = lost \cup {"winback"}
             \/ sent' = sent /\ lost' = lost \cup {"winback"}
      BY <1>1, <2>1, <2>3, GoesIs DEF MailOf, At
    <3>4. DigestMarked'
      BY <1>1, <2>1, <2>3, <3>1, <3>2, <3>3 DEF DigestMarked, At, Mailing
    <3>5. WinbackInv'
      BY <1>1, <2>1, <2>3, <3>1, <3>2, <3>3 DEF WinbackMarked, DeliveredIsQuiet, WinbackRead, WinbackInv, At, Mailing
    <3> QED BY <3>2, <3>4, <3>5 DEF LifecycleRace, WinbackInv
  <2> QED BY <2>1, <2>2, <2>3
<1>10. ASSUME NEW w \in Workers, MailerDies(w) PROVE LifecycleRace'
  <2>1. /\ w \in Mailing /\ UNCHANGED <<user, sent>>
        /\ \A v \in Workers \ {w} : mailing'[v] = mailing[v]
        /\ mailing'[w] = NoMailing /\ NoMailing.at = "off" /\ Leave(w)
        /\ lost \subseteq lost'
        /\ At(w, "digestMark") => "digest" \in lost'
        /\ At(w, "winbackMark") => "winback" \in lost'
    BY <1>1, <1>10, MailerDiesIs DEF MailOf, At
  <2>2. Mailing' = Mailing \ {w} /\ Mailing' \subseteq crossed' /\ Alone(Mailing)'
    BY <1>3, <2>1
  <2>3. DigestMarked'
    BY <1>1, <2>1, <2>2 DEF DigestMarked, At, Mailing
  <2>4. WinbackInv'
    BY <1>1, <2>1, <2>2 DEF WinbackMarked, DeliveredIsQuiet, WinbackRead, WinbackInv, At, Mailing
  <2> QED BY <2>2, <2>3, <2>4 DEF LifecycleRace, WinbackInv
<1>11. CASE Unsubscribe
  <2>1. /\ user' = [user EXCEPT !.row.optOut = TRUE]
        /\ UNCHANGED <<mailing, sent, lost, crossed>>
    BY <1>11 DEF Unsubscribe, sweepsVars
  <2>2. /\ user'.row.digest = user.row.digest /\ user'.row.winback = user.row.winback
        /\ user'.row.armed = user.row.armed /\ user'.quiet = user.quiet
    BY <1>1, <2>1 DEF Row
  <2> QED
    BY <1>1, <2>1, <2>2 DEF LifecycleRace, Alone, DigestMarked, WinbackMarked, DeliveredIsQuiet, WinbackRead, WinbackInv, At, Mailing
<1>12. CASE Delivered
  <2>1. /\ crossed' = crossed /\ user'.quiet = 0
        /\ user'.row.digest = user.row.digest
        /\ sent'.digest = sent.digest /\ ~sent'.winback /\ lost' = lost \ {"winback"}
        /\ \A v \in Workers :
             /\ mailing'[v].at = mailing[v].at /\ mailing'[v].row = mailing[v].row
             /\ mailing[v].at # "off" => mailing'[v].delivered
    BY <1>1, <1>12, DeliveredIs
  <2>2. Mailing' = Mailing
    BY <2>1 DEF Mailing
  <2>3. Alone(Mailing)' /\ DigestMarked'
    BY <1>1, <2>1, <2>2 DEF Alone, DigestMarked, At, Mailing
  <2>4. WinbackInv'
    BY <1>1, <2>1, <2>2 DEF WinbackMarked, DeliveredIsQuiet, WinbackRead, WinbackInv, At, Mailing
  <2> QED BY <2>3, <2>4 DEF LifecycleRace, WinbackInv
<1>13. CASE DayOfUser
  <2>1. /\ Mailing = {} /\ UNCHANGED <<mailing, crossed>>
        /\ user'.row.armed = user.row.armed
        /\ user'.row.digest = Older(user.row.digest, Period)
        /\ user.row.winback # Never => user'.row.winback # Never
        /\ sent'.winback = sent.winback
        /\ sent'.digest = Older(sent.digest, Period)
        /\ "winback" \in lost => "winback" \in lost'
        /\ sent'.digest < Period => lost' = lost
    BY <1>1, <1>13, DayIs
  <2>2. Mailing' = {}
    BY <2>1 DEF Mailing
  <2>3. sent'.digest < Period => sent.digest < Period
    BY <1>1, <2>1 DEF Older
  <2>4. Alone(Mailing)' /\ DigestMarked'
    BY <1>1, <2>1, <2>2, <2>3 DEF Alone, DigestMarked, At, Mailing
  <2>5. WinbackInv'
    BY <1>1, <2>1, <2>2 DEF WinbackMarked, DeliveredIsQuiet, WinbackRead, WinbackInv, At, Mailing
  <2> QED BY <2>4, <2>5 DEF LifecycleRace, WinbackInv
<1>14. CASE UNCHANGED <<lifecycleVars, sweepsVars>>
  BY <1>1, <1>14 DEF lifecycleVars, sweepsVars, LifecycleRace, Alone, DigestMarked,
                     WinbackMarked, DeliveredIsQuiet, WinbackRead, WinbackInv, At, Mailing
<1> QED
  BY <1>4, <1>5, <1>6, <1>7, <1>8, <1>9, <1>10, <1>11, <1>12, <1>13, <1>14
     DEF LifecycleNext, LifecycleStep

\* A second digest within the period, or a second win-back with no delivery in
\* between, is sent only by sweeps that overlap or after a mark was lost, for any
\* periods (is_digest_due, is_winback_due).
THEOREM NotMailedAgain == Spec => MailedAgainOnlyByRace
<1> DEFINE Race == LifecycleInv /\ (beat = "lifecycle" => LifecycleRace)
           Again ==
             \A w \in Workers :
               /\ At(w, "digestSend") /\ mailing'[w].at = "digestMark" /\ sent.digest < Period
                    => w \in crossed \/ "digest" \in lost
               /\ At(w, "winbackSend") /\ mailing'[w].at = "winbackMark" /\ sent.winback
                    => w \in crossed \/ "winback" \in lost
<1>1. Init => Race
  <2> SUFFICES ASSUME Init PROVE Race
    OBVIOUS
  <2>1. LifecycleInit
    BY DEF Init
  <2>2. LifecycleInv
    BY <2>1, LifecycleStart
  <2>3. \A w \in Workers : mailing[w].at = "off"
    BY <2>1 DEF LifecycleInit, NoMailing
  <2>4. sent.digest = Period /\ ~sent.winback
    BY <2>1 DEF LifecycleInit
  <2>5. ~(Period < Period)
    BY LifecycleParameters
  <2>6. LifecycleRace
    BY <2>3, <2>4, <2>5 DEF LifecycleRace, Alone, DigestMarked, WinbackMarked,
                            DeliveredIsQuiet, WinbackRead, Mailing, At
  <2> QED BY <2>2, <2>6
<1>2. Race /\ [Next]_vars => Race'
  <2> SUFFICES ASSUME Race, [Next]_vars PROVE Race'
    OBVIOUS
  <2> QED
    BY LifecycleBeat, LifecycleInvStep, LifecycleRaceStep
<1>3. Race /\ [Next]_vars => [Again]_<<mailing>>
  <2> SUFFICES ASSUME Race, [Next]_vars, mailing' # mailing, NEW w \in Workers, w \notin crossed
               PROVE  /\ At(w, "digestSend") /\ sent.digest < Period => "digest" \in lost
                      /\ At(w, "winbackSend") /\ sent.winback => "winback" \in lost
    OBVIOUS
  <2>1. beat = "lifecycle"
    BY LifecycleBeat DEF lifecycleVars
  <2>2. w \in Mailing \/ At(w, "off")
    BY DEF Mailing, At
  <2> QED
    BY <2>1, <2>2 DEF LifecycleRace, DigestMarked, WinbackRead, At
<1>4. Spec => [][Again]_<<mailing>>
  <2> HIDE DEF Race, Again
  <2> QED BY <1>1, <1>2, <1>3, PTL DEF Spec
<1> QED
  BY <1>4 DEF MailedAgainOnlyByRace

-----------------------------------------------------------------------------
(* Showcase.                                                               *)

Ticks == [at : {"off", "fix", "select", "list", "read", "send", "mark"},
          c : Clusters \cup {NoCluster}, old : BOOLEAN]

\* A tick past its choice has a cluster.
Chosen == \A w \in Workers : tick[w].at \in {"list", "read", "send", "mark"} => tick[w].c \in Clusters

AtMark == {w \in Workers : tick[w].at = "mark"}
Handling == {w \in Workers : tick[w].at \in {"send", "mark"}}
Booked(c) == status[c] \in {"posted", "postedToday"}

\* A cluster the channel has shown is booked, about to be, or its mark is lost.
ShownAndBooked ==
  \A c \in posted : c \in vanished \/ Booked(c) \/ \E v \in AtMark : tick[v].c = c

\* A tick that no other meets at its cluster's row has it for itself.
Unmet ==
  \A w \in Handling \ meets :
    /\ \A v \in Handling : tick[v].c = tick[w].c => v = w
    /\ tick[w].at = "send" /\ tick[w].c \in posted => tick[w].c \in vanished

\* The day's posts are booked, or about to be, and a tick that is alone has
\* found room for one.
DayCounted ==
  /\ vanished = {} => today <= Cardinality(PostsToday) + Cardinality(AtMark)
  /\ \A w \in Ticking \ crossed :
       tick[w].at \in {"list", "read", "send"} /\ vanished = {} => today < PostsPerDay

ShowcaseRace == Alone(Ticking) /\ ShownAndBooked /\ Unmet /\ DayCounted
ShowcaseInv == ShowcaseTypeOK /\ Chosen

LEMMA NoTickType == NoTick \in Ticks /\ NoTick.at = "off"
BY DEF NoTick, Ticks

LEMMA Counted ==
  /\ \A T \in SUBSET Workers : IsFiniteSet(T) /\ Cardinality(T) \in Nat
  /\ \A T \in SUBSET Clusters : IsFiniteSet(T) /\ Cardinality(T) \in Nat
  /\ \A T \in SUBSET Clusters : \A c \in Clusters \ T :
       Cardinality(T \cup {c}) = Cardinality(T) + 1
  /\ \A T \in SUBSET Workers : \A w \in Workers \ T :
       Cardinality(T \cup {w}) = Cardinality(T) + 1
  /\ \A T \in SUBSET Workers : \A w \in T : Cardinality(T \ {w}) = Cardinality(T) - 1
  /\ \A w \in Workers : Cardinality({}) = 0
BY FS_Subset, FS_CardinalityType, FS_AddElement, FS_RemoveElement, FS_EmptySet,
   SweepsParameters, ShowcaseParameters

\* A tick that goes on, and one that ends.
LEMMA TickMoves ==
  ASSUME ShowcaseInv, NEW w \in Workers,
         NEW stage \in {"fix", "select", "read", "send", "mark"}, Moves(w, stage)
  PROVE  /\ tick' \in [Workers -> Ticks]
         /\ \A v \in Workers \ {w} : tick'[v] = tick[v]
         /\ tick'[w].at = stage /\ tick'[w].c = tick[w].c /\ tick'[w].old = tick[w].old
BY DEF ShowcaseInv, ShowcaseTypeOK, Ticks, Moves

LEMMA TickGone ==
  ASSUME ShowcaseInv, NEW w \in Workers, TickEnds(w)
  PROVE  /\ tick' \in [Workers -> Ticks]
         /\ \A v \in Workers \ {w} : tick'[v] = tick[v]
         /\ tick'[w].at = "off" /\ Leave(w) /\ meets' = meets \ {w}
BY NoTickType DEF ShowcaseInv, ShowcaseTypeOK, Ticks, TickEnds

LEMMA ShowcaseStart == ShowcaseInit => ShowcaseInv
BY NoTickType DEF ShowcaseInit, ShowcaseInv, ShowcaseTypeOK, Chosen, Ticks

LEMMA ShowcaseInvStep == ShowcaseInv /\ [ShowcaseNext]_showcaseVars => ShowcaseInv'
<1> SUFFICES ASSUME ShowcaseInv, [ShowcaseNext]_showcaseVars PROVE ShowcaseInv'
  OBVIOUS
<1>1. /\ able \subseteq Clusters
      /\ status \in [Clusters -> {Unlisted, "pending", "posted", "postedToday"}]
      /\ tick \in [Workers -> Ticks]
      /\ posted \subseteq Clusters /\ today \in Nat
      /\ meets \subseteq Workers /\ vanished \subseteq Clusters /\ Chosen
  BY DEF ShowcaseInv, ShowcaseTypeOK, Ticks
\* One tick moves.
<1>2. ASSUME NEW w \in Workers, tick' \in [Workers -> Ticks],
             \A v \in Workers \ {w} : tick'[v] = tick[v],
             tick'[w].at \in {"list", "read", "send", "mark"} => tick'[w].c \in Clusters,
             able' = able,
             status' \in [Clusters -> {Unlisted, "pending", "posted", "postedToday"}],
             posted' \subseteq Clusters, today' \in Nat, meets' \subseteq Workers,
             vanished' \subseteq Clusters
      PROVE  ShowcaseInv'
  BY <1>1, <1>2 DEF ShowcaseInv, ShowcaseTypeOK, Ticks, Chosen
<1>3. ASSUME NEW w \in Workers, StartTick(w) PROVE ShowcaseInv'
  <2>1. Moves(w, "fix") /\ UNCHANGED <<able, status, meets, UnpostedVars>>
    BY <1>3 DEF StartTick
  <2> QED BY <1>1, <1>2, <2>1, TickMoves DEF UnpostedVars
<1>4. ASSUME NEW w \in Workers, FixCases(w) PROVE ShowcaseInv'
  <2>1. /\ \/ Moves(w, "select") /\ meets' = meets
           \/ TickEnds(w)
        /\ UNCHANGED <<able, status, UnpostedVars>>
    BY <1>4 DEF FixCases
  <2>2. CASE Moves(w, "select") /\ meets' = meets
    BY <1>1, <1>2, <2>1, <2>2, TickMoves DEF UnpostedVars
  <2>3. CASE TickEnds(w)
    BY <1>1, <1>2, <2>1, <2>3, TickGone DEF UnpostedVars
  <2> QED BY <2>1, <2>2, <2>3
<1>5. ASSUME NEW w \in Workers, PickBest(w) PROVE ShowcaseInv'
  <2>1. UNCHANGED <<able, status, UnpostedVars>>
    BY <1>5 DEF PickBest
  <2>2. CASE TickEnds(w)
    BY <1>1, <1>2, <2>1, <2>2, TickGone DEF UnpostedVars
  <2>3. ASSUME NEW c \in Candidates, tick' = [tick EXCEPT ![w].at = "list", ![w].c = c],
               meets' = meets
        PROVE  ShowcaseInv'
    <3>1. c \in Clusters
      BY <1>1 DEF Candidates
    <3>2. /\ tick' \in [Workers -> Ticks] /\ tick'[w].c = c
          /\ \A v \in Workers \ {w} : tick'[v] = tick[v]
      BY <1>1, <2>3, <3>1 DEF Ticks
    <3> QED BY <1>1, <1>2, <2>1, <2>3, <3>1, <3>2 DEF UnpostedVars
  <2> QED BY <1>5, <2>2, <2>3 DEF PickBest
<1>6. ASSUME NEW w \in Workers, InsertPending(w) PROVE ShowcaseInv'
  <2>1. tick[w].at = "list" /\ UNCHANGED <<able, UnpostedVars>>
    BY <1>6 DEF InsertPending
  <2>2. CASE Moves(w, "read") /\ meets' = meets
             /\ status' = IF status[tick[w].c] = Unlisted
                          THEN [status EXCEPT ![tick[w].c] = "pending"] ELSE status
    BY <1>1, <1>2, <2>1, <2>2, TickMoves DEF UnpostedVars, Chosen
  <2>3. CASE TickEnds(w) /\ status' = status
    BY <1>1, <1>2, <2>1, <2>3, TickGone DEF UnpostedVars
  <2> QED BY <1>6, <2>2, <2>3 DEF InsertPending
<1>7. ASSUME NEW w \in Workers, Refetch(w) PROVE ShowcaseInv'
  <2>1. tick[w].at = "read" /\ UNCHANGED <<able, status, UnpostedVars>>
    BY <1>7 DEF Refetch
  <2>2. CASE Moves(w, "send") /\ Meets(w)
    <3>1. meets' \subseteq Workers
      BY <1>1, <2>2 DEF Meets
    <3> QED BY <1>1, <1>2, <2>1, <2>2, <3>1, TickMoves DEF UnpostedVars, Chosen
  <2>3. CASE TickEnds(w)
    BY <1>1, <1>2, <2>1, <2>3, TickGone DEF UnpostedVars
  <2> QED BY <1>7, <2>2, <2>3 DEF Refetch
<1>8. ASSUME NEW w \in Workers, SendPost(w) PROVE ShowcaseInv'
  <2>1. /\ tick[w].at = "send" /\ UNCHANGED <<able, status>> /\ tick[w].c \in Clusters
        /\ \/ UNCHANGED UnpostedVars
           \/ Shown(tick[w].c) /\ vanished' = vanished
           \/ Shown(tick[w].c) /\ vanished' = vanished \cup {tick[w].c}
        /\ (Moves(w, "mark") /\ meets' = meets) \/ TickEnds(w)
    BY <1>1, <1>8 DEF SendPost, Chosen
  <2>2. posted' \subseteq Clusters /\ today' \in Nat /\ vanished' \subseteq Clusters
    BY <1>1, <2>1 DEF Shown, UnpostedVars
  <2>3. CASE Moves(w, "mark") /\ meets' = meets
    BY <1>1, <1>2, <2>1, <2>2, <2>3, TickMoves
  <2>4. CASE TickEnds(w)
    BY <1>1, <1>2, <2>1, <2>2, <2>4, TickGone
  <2> QED BY <2>1, <2>3, <2>4
<1>9. ASSUME NEW w \in Workers, MarkPosted(w) PROVE ShowcaseInv'
  <2>1. /\ TickEnds(w) /\ UNCHANGED <<able, posted, today>> /\ tick[w].c \in Clusters
        /\ \E b \in {"posted", "postedToday"} : status' = [status EXCEPT ![tick[w].c] = b]
        /\ vanished' = vanished \/ vanished' = vanished \cup {tick[w].c}
    BY <1>1, <1>9 DEF MarkPosted, Chosen
  <2> QED BY <1>1, <1>2, <2>1, TickGone
<1>10. ASSUME NEW w \in Workers, TickDies(w) PROVE ShowcaseInv'
  <2>1. /\ TickEnds(w) /\ UNCHANGED <<able, status, posted, today>>
        /\ \/ vanished' = vanished
           \/ vanished' = vanished \cup {tick[w].c} /\ tick[w].at = "mark"
    BY <1>10 DEF TickDies
  <2> QED BY <1>1, <1>2, <2>1, TickGone DEF Chosen
<1>11. ASSUME NEW c \in Clusters, Ripens(c) \/ Withers(c) PROVE ShowcaseInv'
  BY <1>1, <1>11 DEF Ripens, Withers, UnpostedVars, ShowcaseInv, ShowcaseTypeOK, Ticks, Chosen
<1>12. CASE Midnight
  <2>1. /\ status' = [c \in Clusters |-> IF status[c] = "postedToday" THEN "posted"
                                         ELSE status[c]]
        /\ tick' = [w \in Workers |-> IF w \in Ticking THEN [tick[w] EXCEPT !.old = TRUE]
                                      ELSE tick[w]]
        /\ today' = 0 /\ UNCHANGED <<able, posted, meets, vanished>>
    BY <1>12 DEF Midnight
  <2>2. \A w \in Workers :
          tick'[w] \in Ticks /\ tick'[w].at = tick[w].at /\ tick'[w].c = tick[w].c
    BY <1>1, <2>1 DEF Ticks
  <2>3. tick' \in [Workers -> Ticks]
    BY <2>1, <2>2
  <2> QED
    BY <1>1, <2>1, <2>2, <2>3 DEF ShowcaseInv, ShowcaseTypeOK, Ticks, Chosen
<1>13. CASE UNCHANGED showcaseVars
  BY <1>1, <1>13 DEF showcaseVars, ShowcaseInv, ShowcaseTypeOK, Ticks, Chosen
<1> QED
  BY <1>3, <1>4, <1>5, <1>6, <1>7, <1>8, <1>9, <1>10, <1>11, <1>12, <1>13
     DEF ShowcaseNext, ShowcaseStep

LEMMA ShowcaseRaceStep ==
  ShowcaseInv /\ ShowcaseRace /\ [ShowcaseNext]_<<showcaseVars, sweepsVars>> => ShowcaseRace'
<1> SUFFICES ASSUME ShowcaseInv, ShowcaseRace, [ShowcaseNext]_<<showcaseVars, sweepsVars>>
             PROVE  ShowcaseRace'
  OBVIOUS
<1>1. /\ status \in [Clusters -> {Unlisted, "pending", "posted", "postedToday"}]
      /\ tick \in [Workers -> Ticks] /\ Chosen
      /\ posted \subseteq Clusters /\ today \in Nat /\ PostsPerDay \in Nat \ {0}
      /\ Alone(Ticking) /\ ShownAndBooked /\ Unmet /\ DayCounted
      /\ AtMark \in SUBSET Workers /\ PostsToday \in SUBSET Clusters
  BY ShowcaseParameters
     DEF ShowcaseInv, ShowcaseTypeOK, Ticks, ShowcaseRace, AtMark, PostsToday
\* A tick goes on, alone or among others that are all lapped.
<1>2. ASSUME NEW w \in Ticking, crossed' = crossed,
             \A v \in Workers \ {w} : tick'[v] = tick[v], tick'[w].at # "off"
      PROVE  Ticking' = Ticking /\ Alone(Ticking)' /\ \A v \in Ticking \ crossed : v = w
  BY <1>1, <1>2 DEF Ticking, Alone
\* A tick ends that was not at its mark, having posted nothing or lost what it has.
<1>3. ASSUME NEW w \in Ticking, TickEnds(w), tick[w].at # "mark", status' = status,
             \/ UNCHANGED <<posted, today, vanished>>
             \/ posted' = posted \cup {tick[w].c} /\ vanished' = vanished \cup {tick[w].c}
      PROVE  ShowcaseRace'
  <2>1. /\ \A v \in Workers \ {w} : tick'[v] = tick[v]
        /\ tick'[w].at = "off" /\ Leave(w) /\ meets' = meets \ {w}
    BY <1>3, TickGone DEF Ticking
  <2>2. Ticking' = Ticking \ {w} /\ Ticking' \subseteq crossed' /\ Alone(Ticking)'
    <3>1. Ticking' = Ticking \ {w}
      BY <1>3, <2>1 DEF Ticking
    <3> QED BY <1>1, <1>3, <2>1, <3>1, LeavesAlone DEF Alone
  <2>3. AtMark' = AtMark /\ Handling' = Handling \ {w} /\ PostsToday' = PostsToday
    BY <1>3, <2>1 DEF AtMark, Handling, PostsToday, Ticking
  <2>4. \A v \in AtMark : v # w /\ v \in Workers
    BY <1>3 DEF AtMark
  <2>5. ShownAndBooked'
    BY <1>1, <1>3, <2>1, <2>3, <2>4 DEF ShownAndBooked, Booked
  <2>6. Unmet'
    BY <1>1, <1>3, <2>1, <2>3 DEF Unmet, Handling
  <2>7. DayCounted'
    BY <1>1, <1>3, <2>2, <2>3 DEF DayCounted
  <2> QED BY <2>2, <2>5, <2>6, <2>7 DEF ShowcaseRace
<1>4. ASSUME NEW w \in Workers, StartTick(w) PROVE ShowcaseRace'
  <2>1. /\ tick[w].at = "off" /\ Moves(w, "fix") /\ Enter(w, Ticking)
        /\ UNCHANGED <<status, meets, posted, today, vanished>>
    BY <1>4 DEF StartTick, UnpostedVars
  <2>2. /\ \A v \in Workers \ {w} : tick'[v] = tick[v]
        /\ tick'[w].at = "fix"
    BY <2>1, TickMoves
  <2>3. Ticking' = Ticking \cup {w} /\ w \notin Ticking
    BY <2>1, <2>2 DEF Ticking
  <2>4. \A v \in Ticking' \ crossed' : v = w /\ Ticking = {}
    BY <1>1, <2>1, <2>3, EntersAlone
  <2>5. Alone(Ticking)'
    BY <2>3, <2>4 DEF Alone
  <2>6. AtMark' = AtMark /\ Handling' = Handling /\ PostsToday' = PostsToday
        /\ w \notin Handling /\ w \notin AtMark
    BY <2>1, <2>2 DEF AtMark, Handling, PostsToday
  <2>7. ShownAndBooked'
    BY <1>1, <2>1, <2>2, <2>6 DEF ShownAndBooked, Booked, AtMark
  <2>8. Unmet'
    BY <1>1, <2>1, <2>2, <2>6 DEF Unmet, Handling
  <2>9. DayCounted'
    BY <1>1, <2>1, <2>2, <2>4, <2>6 DEF DayCounted
  <2> QED BY <2>5, <2>7, <2>8, <2>9 DEF ShowcaseRace
<1>5. ASSUME NEW w \in Workers, FixCases(w) PROVE ShowcaseRace'
  <2>1. /\ tick[w].at = "fix" /\ w \in Ticking
        /\ UNCHANGED <<status, posted, today, vanished>>
        /\ TickEnds(w) \/ (Moves(w, "select") /\ UNCHANGED <<meets, crossed>>)
    BY <1>5 DEF FixCases, UnpostedVars, Ticking
  <2>2. CASE TickEnds(w)
    BY <1>3, <2>1, <2>2
  <2>3. CASE Moves(w, "select") /\ UNCHANGED <<meets, crossed>>
    <3>1. (\A v \in Workers \ {w} : tick'[v] = tick[v]) /\ tick'[w].at = "select"
      BY <2>3, TickMoves
    <3>2. Ticking' = Ticking /\ Alone(Ticking)' /\ \A v \in Ticking \ crossed : v = w
      BY <1>2, <2>1, <2>3, <3>1
    <3>3. AtMark' = AtMark /\ Handling' = Handling /\ PostsToday' = PostsToday
          /\ w \notin Handling /\ w \notin AtMark
      BY <2>1, <3>1 DEF AtMark, Handling, PostsToday
    <3>4. ShownAndBooked' /\ Unmet'
      BY <1>1, <2>1, <2>3, <3>1, <3>3 DEF ShownAndBooked, Booked, Unmet, Handling, AtMark
    <3>5. DayCounted'
      BY <1>1, <2>1, <2>3, <3>1, <3>2, <3>3 DEF DayCounted
    <3> QED BY <3>2, <3>4, <3>5 DEF ShowcaseRace
  <2> QED BY <2>1, <2>2, <2>3
<1>6. ASSUME NEW w \in Workers, PickBest(w) PROVE ShowcaseRace'
  <2>1. /\ tick[w].at = "select" /\ w \in Ticking
        /\ UNCHANGED <<status, posted, today, vanished>>
    BY <1>6 DEF PickBest, UnpostedVars, Ticking
  <2>2. CASE TickEnds(w)
    BY <1>3, <2>1, <2>2
  <2>3. ASSUME NEW c \in Candidates, tick' = [tick EXCEPT ![w].at = "list", ![w].c = c],
               UNCHANGED <<crossed, meets>>
        PROVE  ShowcaseRace'
    <3>1. (\A v \in Workers \ {w} : tick'[v] = tick[v]) /\ tick'[w].at = "list"
      BY <1>1, <2>3 DEF Ticks
    <3>2. Ticking' = Ticking /\ Alone(Ticking)' /\ \A v \in Ticking \ crossed : v = w
      BY <1>2, <2>1, <2>3, <3>1
    <3>3. AtMark' = AtMark /\ Handling' = Handling /\ PostsToday' = PostsToday
          /\ w \notin Handling /\ w \notin AtMark
      BY <2>1, <3>1 DEF AtMark, Handling, PostsToday
    <3>4. ShownAndBooked' /\ Unmet'
      BY <1>1, <2>1, <2>3, <3>1, <3>3 DEF ShownAndBooked, Booked, Unmet, Handling, AtMark
    <3>5. Cardinality(PostsToday) \in Nat /\ Cardinality(PostsToday) < PostsPerDay
      <4>1. Cardinality(PostsToday) \in Nat
        BY <1>1, Counted
      <4>2. ~(Cardinality(PostsToday) >= PostsPerDay)
        BY <2>3 DEF Candidates
      <4> QED BY <1>1, <4>1, <4>2
    <3>6. w \notin crossed => AtMark = {} /\ Cardinality(AtMark) = 0
      <4>1. w \notin crossed => AtMark = {}
        BY <1>1, <2>1 DEF Alone, AtMark, Ticking
      <4> QED BY <4>1, Counted
    <3>7. w \notin crossed /\ vanished = {} => today < PostsPerDay
      BY <1>1, <3>5, <3>6 DEF DayCounted
    <3>8. DayCounted'
      BY <1>1, <2>1, <2>3, <3>1, <3>2, <3>3, <3>7 DEF DayCounted
    <3> QED BY <3>2, <3>4, <3>8 DEF ShowcaseRace
  <2> QED BY <1>6, <2>2, <2>3 DEF PickBest
<1>7. ASSUME NEW w \in Workers, InsertPending(w) PROVE ShowcaseRace'
  <2>1. /\ tick[w].at = "list" /\ w \in Ticking /\ tick[w].c \in Clusters
        /\ UNCHANGED <<posted, today, vanished>>
    BY <1>1, <1>7 DEF InsertPending, UnpostedVars, Ticking, Chosen
  <2>2. CASE TickEnds(w) /\ status' = status
    BY <1>3, <2>1, <2>2
  <2>3. CASE /\ status' = (IF status[tick[w].c] = Unlisted
                           THEN [status EXCEPT ![tick[w].c] = "pending"] ELSE status)
             /\ Moves(w, "read") /\ UNCHANGED <<crossed, meets>>
    <3>1. (\A v \in Workers \ {w} : tick'[v] = tick[v]) /\ tick'[w].at = "read"
      BY <2>3, TickMoves
    <3>2. Ticking' = Ticking /\ Alone(Ticking)' /\ \A v \in Ticking \ crossed : v = w
      BY <1>2, <2>1, <2>3, <3>1
    <3>3. AtMark' = AtMark /\ Handling' = Handling /\ w \notin Handling /\ w \notin AtMark
      BY <2>1, <3>1 DEF AtMark, Handling
    <3>4. \A c \in Clusters : /\ Booked(c)' <=> Booked(c)
                              /\ status'[c] = "postedToday" <=> status[c] = "postedToday"
      BY <1>1, <2>1, <2>3 DEF Booked, Unlisted
    <3>5. PostsToday' = PostsToday
      BY <3>4 DEF PostsToday
    <3>6. ShownAndBooked' /\ Unmet'
      BY <1>1, <2>1, <2>3, <3>1, <3>3, <3>4 DEF ShownAndBooked, Unmet, Handling, AtMark
    <3>7. DayCounted'
      BY <1>1, <2>1, <2>3, <3>1, <3>2, <3>3, <3>5 DEF DayCounted
    <3> QED BY <3>2, <3>6, <3>7 DEF ShowcaseRace
  <2> QED BY <1>7, <2>2, <2>3 DEF InsertPending
<1>8. ASSUME NEW w \in Workers, Refetch(w) PROVE ShowcaseRace'
  <2>1. /\ tick[w].at = "read" /\ w \in Ticking
        /\ UNCHANGED <<status, posted, today, vanished>>
    BY <1>8 DEF Refetch, UnpostedVars, Ticking
  <2>2. CASE TickEnds(w)
    BY <1>3, <2>1, <2>2
  <2>3. CASE ~Booked(tick[w].c) /\ Moves(w, "send") /\ Meets(w) /\ crossed' = crossed
    <3> DEFINE others == {v \in Workers \ {w} :
                            tick[v].c = tick[w].c /\ tick[v].at \in {"send", "mark"}}
    <3>1. /\ \A v \in Workers \ {w} : tick'[v] = tick[v]
          /\ tick'[w].at = "send" /\ tick'[w].c = tick[w].c
      BY <2>3, TickMoves
    <3>2. Ticking' = Ticking /\ Alone(Ticking)' /\ \A v \in Ticking \ crossed : v = w
      BY <1>2, <2>1, <2>3, <3>1
    <3>3. AtMark' = AtMark /\ Handling' = Handling \cup {w} /\ PostsToday' = PostsToday
          /\ w \notin Handling /\ w \notin AtMark
      BY <2>1, <3>1 DEF AtMark, Handling, PostsToday
    <3>4. /\ meets \subseteq meets' /\ others \subseteq meets'
          /\ w \notin meets' => others = {}
      BY <2>3 DEF Meets
    <3>5. ShownAndBooked'
      BY <1>1, <2>1, <3>1, <3>3 DEF ShownAndBooked, Booked, AtMark
    <3>6. ASSUME w \notin meets', tick[w].c \in posted PROVE tick[w].c \in vanished
      <4>1. \A v \in AtMark : tick[v].c # tick[w].c
        BY <3>3, <3>4, <3>6 DEF AtMark
      <4> QED BY <1>1, <2>3, <3>6, <4>1 DEF ShownAndBooked
    <3>7. Unmet'
      <4> SUFFICES ASSUME NEW u \in Handling' \ meets'
                   PROVE  /\ \A v \in Handling' : tick'[v].c = tick'[u].c => v = u
                          /\ tick'[u].at = "send" /\ tick'[u].c \in posted =>
                               tick'[u].c \in vanished
        BY <2>1 DEF Unmet
      <4>1. CASE u = w
        <5>1. others = {}
          BY <3>4, <4>1
        <5> QED BY <3>1, <3>3, <3>6, <4>1, <5>1 DEF Handling
      <4>2. CASE u # w
        <5>1. u \in Handling \ meets /\ u \in Workers
          BY <3>3, <3>4, <4>2 DEF Handling
        <5>2. tick[u].c # tick[w].c
          BY <3>4, <4>2, <5>1 DEF Handling
        <5> QED BY <1>1, <3>1, <3>3, <4>2, <5>1, <5>2 DEF Unmet, Handling
      <4> QED BY <4>1, <4>2
    <3>8. DayCounted'
      BY <1>1, <2>1, <2>3, <3>1, <3>2, <3>3 DEF DayCounted
    <3> QED BY <3>2, <3>5, <3>7, <3>8 DEF ShowcaseRace
  <2> QED BY <1>8, <2>2, <2>3 DEF Refetch, Booked
<1>9. ASSUME NEW w \in Workers, SendPost(w) PROVE ShowcaseRace'
  <2> DEFINE c == tick[w].c
  <2>1. tick[w].at = "send" /\ w \in Ticking /\ c \in Clusters /\ status' = status
    BY <1>1, <1>9 DEF SendPost, Ticking, Chosen
  <2>2. CASE TickEnds(w) /\ \/ UNCHANGED UnpostedVars
                            \/ Shown(c) /\ vanished' = vanished \cup {c}
    BY <1>3, <2>1, <2>2 DEF Shown, UnpostedVars
  <2>3. CASE Shown(c) /\ Moves(w, "mark") /\ UNCHANGED <<vanished, meets, crossed>>
    <3>1. /\ \A v \in Workers \ {w} : tick'[v] = tick[v]
          /\ tick'[w].at = "mark" /\ tick'[w].c = c
      BY <2>3, TickMoves
    <3>2. Ticking' = Ticking /\ Alone(Ticking)' /\ \A v \in Ticking \ crossed : v = w
      BY <1>2, <2>1, <2>3, <3>1
    <3>3. AtMark' = AtMark \cup {w} /\ Handling' = Handling /\ PostsToday' = PostsToday
          /\ w \in Handling /\ w \notin AtMark
      BY <2>1, <3>1 DEF AtMark, Handling, PostsToday
    <3>4. posted' = posted \cup {c} /\ today' = today + 1
      BY <2>3 DEF Shown
    <3> HIDE DEF c
    <3>5. ShownAndBooked'
      <4> SUFFICES ASSUME NEW e \in posted'
                   PROVE  e \in vanished \/ Booked(e)' \/ \E v \in AtMark' : tick'[v].c = e
        BY <2>3 DEF ShownAndBooked
      <4>1. CASE e = c
        BY <3>1, <3>3, <4>1
      <4>2. CASE e # c
        <5>1. e \in vanished \/ Booked(e) \/ \E v \in AtMark : tick[v].c = e
          BY <1>1, <3>4, <4>2 DEF ShownAndBooked
        <5>2. \A v \in AtMark : v \in AtMark' /\ tick'[v] = tick[v]
          BY <3>1, <3>3 DEF AtMark
        <5> QED BY <2>1, <5>1, <5>2 DEF Booked
      <4> QED BY <4>1, <4>2
    <3>6. Unmet'
      <4> SUFFICES ASSUME NEW u \in Handling \ meets
                   PROVE  /\ \A v \in Handling : tick'[v].c = tick'[u].c => v = u
                          /\ tick'[u].at = "send" /\ tick'[u].c \in posted' =>
                               tick'[u].c \in vanished
        BY <2>3, <3>3 DEF Unmet
      <4>1. \A v \in Workers : tick'[v].c = tick[v].c
        BY <3>1 DEF c
      <4>2. \A v \in Handling : tick[v].c = tick[u].c => v = u
        BY <1>1 DEF Unmet
      <4>3. \A v \in Handling : v \in Workers
        BY DEF Handling
      <4>4. ASSUME tick'[u].at = "send", tick'[u].c \in posted' PROVE tick'[u].c \in vanished
        <5>1. u # w /\ tick[u].at = "send"
          BY <3>1, <4>3, <4>4
        <5>2. tick[u].c # c
          BY <3>3, <4>2, <5>1 DEF c
        <5>3. tick[u].c \in posted
          BY <3>4, <4>1, <4>3, <4>4, <5>2
        <5> QED BY <1>1, <4>1, <4>3, <5>1, <5>3 DEF Unmet
      <4> QED BY <4>1, <4>2, <4>3, <4>4
    <3>7. Cardinality(AtMark') = Cardinality(AtMark) + 1
          /\ Cardinality(AtMark) \in Nat /\ Cardinality(PostsToday) \in Nat
      BY <1>1, <3>3, Counted
    <3>8. vanished = {} => today' <= Cardinality(PostsToday) + Cardinality(AtMark')
      BY <1>1, <3>4, <3>7 DEF DayCounted
    <3>9. DayCounted'
      BY <2>3, <3>1, <3>2, <3>3, <3>8 DEF DayCounted
    <3> QED BY <3>2, <3>5, <3>6, <3>9 DEF ShowcaseRace
  <2> QED BY <1>9, <2>2, <2>3 DEF SendPost
<1>10. ASSUME NEW w \in Workers, MarkPosted(w) PROVE ShowcaseRace'
  <2> DEFINE c == tick[w].c
  <2>1. /\ tick[w].at = "mark" /\ w \in Ticking /\ c \in Clusters
        /\ UNCHANGED <<posted, today>> /\ TickEnds(w)
        /\ status' = [status EXCEPT ![c] = IF tick[w].old THEN "posted" ELSE "postedToday"]
        /\ vanished' = (IF tick[w].old \/ Booked(c) THEN vanished \cup {c} ELSE vanished)
    BY <1>1, <1>10 DEF MarkPosted, Ticking, Chosen, Booked
  <2>2. /\ \A v \in Workers \ {w} : tick'[v] = tick[v]
        /\ tick'[w].at = "off" /\ Leave(w) /\ meets' = meets \ {w}
    BY <2>1, TickGone
  <2>3. Ticking' = Ticking \ {w} /\ Ticking' \subseteq crossed' /\ Alone(Ticking)'
    <3>1. Ticking' = Ticking \ {w}
      BY <2>1, <2>2 DEF Ticking
    <3> QED BY <1>1, <2>1, <2>2, <3>1, LeavesAlone DEF Alone
  <2>4. AtMark' = AtMark \ {w} /\ Handling' = Handling \ {w} /\ w \in AtMark
    BY <2>1, <2>2 DEF AtMark, Handling, Ticking
  <2>5. /\ status'[c] \in {"posted", "postedToday"}
        /\ \A e \in Clusters \ {c} : status'[e] = status[e]
    <3> HIDE DEF c
    <3>1. PICK b \in {"posted", "postedToday"} : status' = [status EXCEPT ![c] = b]
      BY <2>1
    <3>2. status'[c] = b
      BY <1>1, <2>1, <3>1
    <3>3. \A e \in Clusters \ {c} : status'[e] = status[e]
      BY <1>1, <2>1, <3>1
    <3> QED BY <3>2, <3>3
  <2>6. ShownAndBooked'
    <3> SUFFICES ASSUME NEW e \in posted, e # c
                 PROVE  e \in vanished' \/ Booked(e)' \/ \E v \in AtMark' : tick'[v].c = e
      <4>1. \A e : e = c => Booked(e)'
        BY <2>5 DEF Booked
      <4> QED BY <2>1, <4>1 DEF ShownAndBooked
    <3>1. e \in vanished \/ Booked(e) \/ \E v \in AtMark : tick[v].c = e
      BY <1>1 DEF ShownAndBooked
    <3>2. \A v \in AtMark : tick[v].c = e => v \in AtMark' /\ tick'[v] = tick[v]
      BY <2>2, <2>4 DEF AtMark
    <3>3. Booked(e) => Booked(e)'
      BY <1>1, <2>5 DEF Booked
    <3> QED BY <2>1, <3>1, <3>2, <3>3
  <2>7. Unmet'
    BY <1>1, <2>1, <2>2, <2>4 DEF Unmet, Handling
  <2>8. ASSUME vanished' = {}
        PROVE  today' <= Cardinality(PostsToday') + Cardinality(AtMark')
    <3>1. ~tick[w].old /\ ~Booked(c) /\ vanished = {}
      BY <2>1, <2>8
    <3>2. status'[c] = "postedToday"
      BY <1>1, <2>1, <3>1
    <3>3. PostsToday' = PostsToday \cup {c} /\ c \notin PostsToday
      BY <2>1, <2>5, <3>1, <3>2 DEF PostsToday, Booked
    <3>4. /\ Cardinality(PostsToday') = Cardinality(PostsToday) + 1
          /\ Cardinality(AtMark') = Cardinality(AtMark) - 1
          /\ Cardinality(PostsToday) \in Nat /\ Cardinality(AtMark) \in Nat
      BY <1>1, <2>1, <2>4, <3>3, Counted
    <3> QED BY <1>1, <2>1, <3>1, <3>4 DEF DayCounted
  <2>9. DayCounted'
    BY <2>3, <2>8 DEF DayCounted
  <2> QED BY <2>3, <2>6, <2>7, <2>9 DEF ShowcaseRace
<1>11. ASSUME NEW w \in Workers, TickDies(w) PROVE ShowcaseRace'
  <2>1. /\ w \in Ticking /\ TickEnds(w) /\ UNCHANGED <<status, posted, today>>
        /\ vanished' = (IF tick[w].at = "mark" THEN vanished \cup {tick[w].c} ELSE vanished)
    BY <1>11 DEF TickDies
  <2>2. CASE tick[w].at # "mark"
    BY <1>3, <2>1, <2>2
  <2>3. CASE tick[w].at = "mark"
    <3>1. /\ \A v \in Workers \ {w} : tick'[v] = tick[v]
          /\ tick'[w].at = "off" /\ Leave(w) /\ meets' = meets \ {w}
      BY <2>1, TickGone
    <3>2. Ticking' = Ticking \ {w} /\ Ticking' \subseteq crossed' /\ Alone(Ticking)'
      <4>1. Ticking' = Ticking \ {w}
        BY <2>1, <3>1 DEF Ticking
      <4> QED BY <1>1, <2>1, <3>1, <4>1, LeavesAlone DEF Alone
    <3>3. AtMark' = AtMark \ {w} /\ Handling' = Handling \ {w}
      BY <2>3, <3>1 DEF AtMark, Handling
    <3>4. ShownAndBooked'
      BY <1>1, <2>1, <2>3, <3>1, <3>3 DEF ShownAndBooked, Booked, AtMark
    <3>5. Unmet'
      BY <1>1, <2>1, <3>1, <3>3 DEF Unmet, Handling
    <3>6. DayCounted'
      BY <2>1, <2>3, <3>2 DEF DayCounted
    <3> QED BY <3>2, <3>4, <3>5, <3>6 DEF ShowcaseRace
  <2> QED BY <2>2, <2>3
<1>12. ASSUME NEW c \in Clusters, Ripens(c) \/ Withers(c) PROVE ShowcaseRace'
  <2>1. UNCHANGED <<status, tick, meets, posted, today, vanished, crossed>>
    BY <1>12 DEF Ripens, Withers, UnpostedVars, sweepsVars
  <2> QED
    BY <1>1, <2>1 DEF ShowcaseRace, Alone, ShownAndBooked, Booked, Unmet, DayCounted,
                      Ticking, AtMark, Handling, PostsToday
<1>13. CASE Midnight
  <2>1. /\ status' = [c \in Clusters |-> IF status[c] = "postedToday" THEN "posted"
                                         ELSE status[c]]
        /\ tick' = [w \in Workers |-> IF w \in Ticking THEN [tick[w] EXCEPT !.old = TRUE]
                                      ELSE tick[w]]
        /\ today' = 0 /\ UNCHANGED <<posted, meets, vanished, crossed>>
    BY <1>13 DEF Midnight, sweepsVars
  <2>2. \A w \in Workers : tick'[w].at = tick[w].at /\ tick'[w].c = tick[w].c
    BY <1>1, <2>1 DEF Ticks
  <2>3. Ticking' = Ticking /\ AtMark' = AtMark /\ Handling' = Handling
    BY <2>2 DEF Ticking, AtMark, Handling
  <2>4. \A c \in Clusters : Booked(c) => Booked(c)'
    BY <1>1, <2>1 DEF Booked
  <2>5. ShownAndBooked'
    BY <1>1, <2>1, <2>2, <2>3, <2>4 DEF ShownAndBooked, AtMark
  <2>6. Unmet'
    BY <1>1, <2>1, <2>2, <2>3 DEF Unmet, Handling
  <2>7. Cardinality(PostsToday') \in Nat /\ Cardinality(AtMark') \in Nat
    <3>1. PostsToday' \in SUBSET Clusters /\ AtMark' \in SUBSET Workers
      BY DEF PostsToday, AtMark
    <3> QED BY <3>1, Counted
  <2>8. DayCounted'
    BY <1>1, <2>1, <2>7 DEF DayCounted
  <2> QED BY <1>1, <2>1, <2>3, <2>5, <2>6, <2>8 DEF ShowcaseRace, Alone
<1>14. CASE UNCHANGED <<showcaseVars, sweepsVars>>
  BY <1>1, <1>14
     DEF showcaseVars, sweepsVars, ShowcaseRace, Alone, ShownAndBooked, Booked, Unmet,
         DayCounted, Ticking, AtMark, Handling, PostsToday
<1> QED
  BY <1>4, <1>5, <1>6, <1>7, <1>8, <1>9, <1>10, <1>11, <1>12, <1>13, <1>14
     DEF ShowcaseNext, ShowcaseStep

\* While the beat fires the showcase tick, the part takes its own steps or none;
\* while it fires another, none.
LEMMA ShowcaseBeat ==
  ASSUME [Next]_vars
  PROVE  /\ beat' = beat
         /\ beat = "showcase" => [ShowcaseNext]_<<showcaseVars, sweepsVars>>
         /\ beat # "showcase" => UNCHANGED showcaseVars
         /\ [ShowcaseNext]_showcaseVars
BY DEF Next, Renewing, Mails, Posts, Watching, NotMails, NotWatch, vars, showcaseVars

\* A cluster is posted again only by ticks that meet at its row, or after its
\* mark was lost; and the channel gets more than its posts a day only by ticks
\* that overlap, or after a post that its day does not count - for any number of
\* clusters and any cap (showcase/tasks.py, selection.py).
THEOREM NotPostedAgain == Spec => PostedAgainOnlyByRace
<1> DEFINE Race == ShowcaseInv /\ (beat = "showcase" => ShowcaseRace)
           Again ==
             \A w \in Workers :
               tick[w].at = "send" /\ tick'[w].at = "mark"
               => /\ tick[w].c \in posted => w \in meets \/ tick[w].c \in vanished
                  /\ today >= PostsPerDay => w \in crossed \/ vanished # {}
<1>1. Init => Race
  <2> SUFFICES ASSUME Init PROVE Race
    OBVIOUS
  <2>1. ShowcaseInit
    BY DEF Init
  <2>2. ShowcaseInv
    BY <2>1, ShowcaseStart
  <2>3. /\ \A w \in Workers : tick[w].at = "off"
        /\ posted = {} /\ today = 0
    BY <2>1 DEF ShowcaseInit, NoTick
  <2>4. Cardinality(PostsToday) \in Nat /\ Cardinality(AtMark) \in Nat
    <3>1. PostsToday \in SUBSET Clusters /\ AtMark \in SUBSET Workers
      BY DEF PostsToday, AtMark
    <3> QED BY <3>1, Counted
  <2>5. ShowcaseRace
    BY <2>3, <2>4 DEF ShowcaseRace, Alone, ShownAndBooked, Unmet, DayCounted, Ticking, Handling
  <2> QED BY <2>2, <2>5
<1>2. Race /\ [Next]_vars => Race'
  <2> SUFFICES ASSUME Race, [Next]_vars PROVE Race'
    OBVIOUS
  <2> QED
    BY ShowcaseBeat, ShowcaseInvStep, ShowcaseRaceStep
<1>3. Race /\ [Next]_vars => [Again]_<<tick>>
  <2> SUFFICES ASSUME Race, [Next]_vars, tick' # tick, NEW w \in Workers, tick[w].at = "send"
               PROVE  /\ tick[w].c \in posted => w \in meets \/ tick[w].c \in vanished
                      /\ today >= PostsPerDay => w \in crossed \/ vanished # {}
    OBVIOUS
  <2>1. beat = "showcase"
    BY ShowcaseBeat DEF showcaseVars
  <2>2. w \in Ticking /\ w \in Handling
    BY DEF Ticking, Handling
  <2>3. today \in Nat /\ PostsPerDay \in Nat
    BY ShowcaseParameters DEF ShowcaseInv, ShowcaseTypeOK
  <2> QED
    BY <2>1, <2>2, <2>3 DEF ShowcaseRace, Unmet, DayCounted
<1>4. Spec => [][Again]_<<tick>>
  <2> HIDE DEF Race, Again
  <2> QED BY <1>1, <1>2, <1>3, PTL DEF Spec
<1> QED
  BY <1>4 DEF PostedAgainOnlyByRace

-----------------------------------------------------------------------------
(* The three together.                                                     *)

\* Nothing is sent twice but for a race, a crash or a lost mark.
THEOREM NothingSentAgain == Spec => SentAgainOnlyByRace
BY NotRemindedAgain, NotMailedAgain, NotPostedAgain DEF SentAgainOnlyByRace


\* What the sweeps share keeps its type.
SharedOK == faults \in 0..MaxFaults /\ crossed \subseteq Workers

LEMMA FaultsCounted == SharedOK /\ (Fault \/ faults' = faults) => faults' \in 0..MaxFaults
BY SweepsParameters DEF SharedOK, Fault

LEMMA CrossedType ==
  ASSUME SharedOK, NEW w \in Workers, NEW busy \in SUBSET Workers,
         Enter(w, busy) \/ Leave(w) \/ crossed' = crossed
  PROVE  crossed' \subseteq Workers
BY DEF SharedOK, Enter, Leave

LEMMA RenewalsShare ==
  SharedOK /\ [RenewalsNext]_<<renewalVars, sweepsVars>> => SharedOK'
<1> SUFFICES ASSUME SharedOK, [RenewalsNext]_<<renewalVars, sweepsVars>> PROVE SharedOK'
  OBVIOUS
<1>1. Noticing \in SUBSET Workers
  BY DEF Noticing
<1>2. ASSUME NEW w \in Workers,
             ReadPlan(w) \/ Remind(w) \/ RemindFails(w) \/ MarkReminded(w) \/ RemindLost(w)
      PROVE  SharedOK'
  <2>1. /\ Fault \/ faults' = faults
        /\ Enter(w, Noticing) \/ Leave(w) \/ crossed' = crossed
    BY <1>2 DEF ReadPlan, Remind, RemindFails, MarkReminded, RemindLost, SweepEnds
  <2> QED BY <1>1, <2>1, FaultsCounted, CrossedType DEF SharedOK
<1>3. CASE Renew \/ DayOfPlan \/ UNCHANGED <<renewalVars, sweepsVars>>
  <2>1. UNCHANGED <<faults, crossed>>
    BY <1>3 DEF Renew, DayOfPlan, sweepsVars
  <2> QED BY <2>1 DEF SharedOK
<1> QED BY <1>2, <1>3 DEF RenewalsNext

LEMMA LifecycleShares ==
  SharedOK /\ [LifecycleNext]_<<lifecycleVars, sweepsVars>> => SharedOK'
<1> SUFFICES ASSUME SharedOK, [LifecycleNext]_<<lifecycleVars, sweepsVars>> PROVE SharedOK'
  OBVIOUS
<1>1. Mailing \in SUBSET Workers
  BY DEF Mailing
<1>2. ASSUME NEW w \in Workers, LifecycleStep(w) \/ Fails(w) \/ MailerDies(w)
      PROVE  SharedOK'
  <2>1. /\ Fault \/ faults' = faults
        /\ Enter(w, Mailing) \/ Leave(w) \/ crossed' = crossed
    BY <1>2 DEF LifecycleStep, ReadUser, TryDigest, TryWinback, TryMail, Send, Mark, Fails,
                MailerDies, MailingEnds
  <2> QED BY <1>1, <2>1, FaultsCounted, CrossedType DEF SharedOK
<1>3. CASE Unsubscribe \/ Delivered \/ DayOfUser \/ UNCHANGED <<lifecycleVars, sweepsVars>>
  <2>1. UNCHANGED <<faults, crossed>>
    BY <1>3 DEF Unsubscribe, Delivered, DayOfUser, sweepsVars
  <2> QED BY <2>1 DEF SharedOK
<1> QED BY <1>2, <1>3 DEF LifecycleNext

LEMMA ShowcaseShares ==
  SharedOK /\ [ShowcaseNext]_<<showcaseVars, sweepsVars>> => SharedOK'
<1> SUFFICES ASSUME SharedOK, [ShowcaseNext]_<<showcaseVars, sweepsVars>> PROVE SharedOK'
  OBVIOUS
<1>1. Ticking \in SUBSET Workers
  BY DEF Ticking
<1>2. ASSUME NEW w \in Workers, ShowcaseStep(w) \/ TickDies(w) PROVE SharedOK'
  <2>1. /\ Fault \/ faults' = faults
        /\ Enter(w, Ticking) \/ Leave(w) \/ crossed' = crossed
    BY <1>2 DEF ShowcaseStep, StartTick, FixCases, PickBest, InsertPending, Refetch, SendPost,
                MarkPosted, TickDies, TickEnds
  <2> QED BY <1>1, <2>1, FaultsCounted, CrossedType DEF SharedOK
<1>3. ASSUME NEW c \in Clusters, Ripens(c) \/ Withers(c) PROVE SharedOK'
  BY <1>3 DEF Ripens, Withers, sweepsVars, SharedOK
<1>4. CASE Midnight \/ UNCHANGED <<showcaseVars, sweepsVars>>
  BY <1>4 DEF Midnight, sweepsVars, SharedOK
<1> QED BY <1>2, <1>3, <1>4 DEF ShowcaseNext

\* The variables keep their types, whatever task the beat fires.
THEOREM OutreachTypes == Spec => []TypeOK
<1> DEFINE Beat == beat \in {"renewals", "lifecycle", "showcase", "watch"} /\ SharedOK
<1>1. Init => Beat /\ ShowcaseInv
  BY SweepsParameters, ShowcaseStart DEF Init, SharedOK
<1>2. ShowcaseInv /\ [Next]_vars => ShowcaseInv'
  BY ShowcaseBeat, ShowcaseInvStep
<1>3. Beat /\ [Next]_vars => Beat'
  <2> SUFFICES ASSUME Beat, [Next]_vars PROVE Beat'
    OBVIOUS
  <2>1. beat' = beat
    BY RenewalBeat
  <2>2. beat = "watch" => UNCHANGED <<faults, crossed>>
    BY DEF Next, Renewing, Mails, Posts, Watching, NotWatch, vars, sweepsVars
  <2>3. SharedOK'
    <3>1. CASE beat = "watch"
      BY <2>2, <3>1 DEF SharedOK
    <3>2. CASE beat # "watch"
      BY <3>2, RenewalBeat, LifecycleBeat, ShowcaseBeat, RenewalsShare, LifecycleShares,
         ShowcaseShares
    <3> QED BY <3>1, <3>2
  <2> QED BY <2>1, <2>3
<1>4. Beat /\ ShowcaseInv /\ RenewalInv /\ LifecycleInv /\ WatchInv => TypeOK
  BY DEF SharedOK, ShowcaseInv, RenewalInv, LifecycleInv, WatchInv, TypeOK
<1> QED
  BY <1>1, <1>2, <1>3, <1>4, RenewalInvariance, LifecycleInvariance, WatchInvariance, PTL
     DEF Spec

\* With two windows at least, a subscriber whom every sweep has met is warned, and
\* after an opt-out no more mails go out than were past their re-reading.
THEOREM RemindersAndOptOuts ==
  ASSUME \E d, e \in RenewalDays : d # e
  PROVE  Spec => []WarnedNotPestered
  BY NeverUnreminded, OptedOut, PTL DEF WarnedNotPestered
=============================================================================
