---------------------------- MODULE ServiceProofs ----------------------------
(***************************************************************************)
(* Proofs about what is asked of the system at its edges: for any alerts,  *)
(* pages, plans, clusters and channels, any taps and delays, any keys,     *)
(* requests and newcomers, any payers, dates and runs of the job, and any  *)
(* attempts to make an account.                                            *)
(***************************************************************************)
EXTENDS Service, TenantProofs

-----------------------------------------------------------------------------
(* Ratings.                                                                *)

\* The requests carry an alert and a verdict; while the account goes none of them
\* has written, and when it is gone no verdict is left.
TapsWell == \A q \in Taps : tap[q].at # "off" => tap[q].notice \in Notices /\ tap[q].verdict \in Thumbs
GoneLeavesNothing ==
  /\ account # "there" => \A q \in Taps : tap[q].at # "written"
  /\ account = "gone" => \A a \in Notices : opinion[a] = Blank
AnswerStands == \A a \in Notices : answered[a] # Blank => opinion[a] = answered[a]

RatingInv == RatingsTypeOK /\ TapsWell /\ GoneLeavesNothing /\ AnswerStands /\ LatencySound

LEMMA RatingsBegin == RatingsInit => RatingInv
<1> SUFFICES ASSUME RatingsInit PROVE RatingInv
  OBVIOUS
<1>1. RatingsTypeOK /\ TapsWell /\ GoneLeavesNothing /\ AnswerStands
  BY RatingsParameters DEF RatingsInit, RatingsTypeOK, TapsWell, GoneLeavesNothing, AnswerStands, NoTap, Opinion
<1>2. LatencySound
  BY DEF RatingsInit, LatencySound, NoLatency
<1> QED BY <1>1, <1>2 DEF RatingInv

\* The latest report is all that the latencies' bounds speak of.
LEMMA SameReport == LatencySound /\ latency' = latency => LatencySound'
BY DEF LatencySound

LEMMA TurnKeeps == RatingInv /\ TurnPasses => RatingInv'
<1> SUFFICES ASSUME RatingInv, TurnPasses PROVE RatingInv'
  OBVIOUS
<1>1. RatingsTypeOK'
  BY RatingsParameters DEF RatingInv, RatingsTypeOK, TurnPasses, tapVars, cameVars
<1>2. (TapsWell /\ GoneLeavesNothing /\ AnswerStands)'
  BY DEF RatingInv, TapsWell, GoneLeavesNothing, AnswerStands, TurnPasses, tapVars
<1>3. LatencySound'
  BY SameReport DEF RatingInv, TurnPasses, cameVars
<1> QED BY <1>1, <1>2, <1>3 DEF RatingInv

LEMMA LinksKeep == ASSUME RatingInv, NEW a \in Notices, GivesLinks(a) PROVE RatingInv'
<1>1. Buttons(a) \subseteq Link
  BY RatingsParameters DEF Buttons, Link, RatingInv, RatingsTypeOK
<1>2. RatingsTypeOK'
  BY <1>1 DEF RatingInv, RatingsTypeOK, GivesLinks, cameVars
<1>3. (TapsWell /\ GoneLeavesNothing /\ AnswerStands)'
  BY DEF RatingInv, TapsWell, GoneLeavesNothing, AnswerStands, GivesLinks
<1>4. LatencySound'
  BY SameReport DEF RatingInv, GivesLinks, cameVars
<1> QED BY <1>2, <1>3, <1>4 DEF RatingInv

LEMMA TapKeeps == ASSUME RatingInv, NEW q \in Taps, NEW link \in links, Tap(q, link) PROVE RatingInv'
<1>1. link.notice \in Notices /\ link.verdict \in Thumbs
  BY DEF RatingInv, RatingsTypeOK, Link
<1>2. /\ tap' \in [Taps -> [at : {"off", "found", "written"}, notice : Notices \cup {Blank},
                            verdict : Thumbs \cup {Blank}, now : 0..LastTurn, alone : BOOLEAN]]
      /\ \A p \in Taps : tap'[p].at # "off" => tap'[p].notice \in Notices /\ tap'[p].verdict \in Thumbs
      /\ \A p \in Taps : tap'[p].at = "written" => tap[p].at = "written"
  <2>1. \A p \in Taps : tap[p] \in [at : {"off", "found", "written"}, notice : Notices \cup {Blank},
                            verdict : Thumbs \cup {Blank}, now : 0..LastTurn, alone : BOOLEAN]
    BY DEF RatingInv, RatingsTypeOK
  <2>2. turn \in 0..LastTurn /\ (Under(link.notice) = {}) \in BOOLEAN
    BY DEF RatingInv, RatingsTypeOK
  <2>3. ASSUME NEW p \in Taps
        PROVE  /\ tap'[p] \in [at : {"off", "found", "written"}, notice : Notices \cup {Blank},
                               verdict : Thumbs \cup {Blank}, now : 0..LastTurn, alone : BOOLEAN]
               /\ tap'[p].at # "off" => tap'[p].notice \in Notices /\ tap'[p].verdict \in Thumbs
               /\ tap'[p].at = "written" => tap[p].at = "written"
    <3>1. CASE p = q
      BY <1>1, <2>2, <3>1 DEF Tap
    <3>2. CASE p # q
      <4>1. tap'[p] = tap[p] \/ tap'[p] = [tap[p] EXCEPT !.alone = FALSE]
        BY <3>2 DEF Tap
      <4> QED BY <2>1, <4>1 DEF RatingInv, TapsWell
    <3> QED BY <3>1, <3>2
  <2> QED BY <2>3 DEF Tap
<1>3. RatingsTypeOK'
  BY <1>2, RatingsParameters DEF RatingInv, RatingsTypeOK, Tap, cameVars
<1>4. (TapsWell /\ GoneLeavesNothing /\ AnswerStands)'
  BY <1>2 DEF RatingInv, TapsWell, GoneLeavesNothing, AnswerStands, Tap
<1>5. LatencySound'
  BY SameReport DEF RatingInv, Tap, cameVars
<1> QED BY <1>3, <1>4, <1>5 DEF RatingInv

LEMMA UpsertKeeps == ASSUME RatingInv, NEW q \in Taps, Upsert(q) PROVE RatingInv'
<1>1. RatingsTypeOK'
  BY DEF RatingInv, RatingsTypeOK, Upsert, cameVars
<1>2. (TapsWell /\ GoneLeavesNothing /\ AnswerStands)'
  BY DEF RatingInv, RatingsTypeOK, TapsWell, GoneLeavesNothing, AnswerStands, Upsert
<1>3. LatencySound'
  BY SameReport DEF RatingInv, Upsert, cameVars
<1> QED BY <1>1, <1>2, <1>3 DEF RatingInv

LEMMA AnswerKeeps == ASSUME RatingInv, NEW q \in Taps, Answer(q) PROVE RatingInv'
<1> DEFINE a == tap[q].notice
           o == [verdict |-> tap[q].verdict, at |-> tap[q].now]
<1>1. /\ a \in Notices /\ o \in Opinion /\ account = "there"
      /\ opinion \in [Notices -> Opinion \cup {Blank}] /\ answered \in [Notices -> Opinion \cup {Blank}]
  BY DEF RatingInv, RatingsTypeOK, TapsWell, GoneLeavesNothing, Answer, Opinion
<1>2. /\ opinion' = [opinion EXCEPT ![a] = o]
      /\ answered' = [answered EXCEPT ![a] = IF tap[q].alone THEN o ELSE Blank]
  BY DEF Answer, Stored
<1> HIDE DEF o, a
<1>3. RatingsTypeOK'
  <2>1. opinion' \in [Notices -> Opinion \cup {Blank}] /\ answered' \in [Notices -> Opinion \cup {Blank}]
    BY <1>1, <1>2
  <2>2. tap' = [tap EXCEPT ![q] = NoTap] /\ UNCHANGED <<turn, account, links, taps, came>>
    BY DEF Answer, cameVars
  <2> QED BY <2>1, <2>2, RatingsParameters DEF RatingInv, RatingsTypeOK, NoTap
<1>4. AnswerStands'
  BY <1>1, <1>2 DEF RatingInv, AnswerStands
<1>5. TapsWell' /\ GoneLeavesNothing'
  <2>1. tap' = [tap EXCEPT ![q] = NoTap] /\ UNCHANGED account
    BY DEF Answer
  <2> QED BY <1>1, <2>1 DEF RatingInv, RatingsTypeOK, TapsWell, GoneLeavesNothing, NoTap
<1>6. LatencySound'
  BY SameReport DEF RatingInv, Answer, cameVars
<1> QED BY <1>3, <1>4, <1>5, <1>6 DEF RatingInv

LEMMA TapFailsKeeps == ASSUME RatingInv, NEW q \in Taps, TapFails(q) PROVE RatingInv'
<1>1. RatingsTypeOK'
  BY RatingsParameters DEF RatingInv, RatingsTypeOK, TapFails, cameVars, NoTap
<1>2. (TapsWell /\ GoneLeavesNothing /\ AnswerStands)'
  BY DEF RatingInv, RatingsTypeOK, TapsWell, GoneLeavesNothing, AnswerStands, TapFails, NoTap
<1>3. LatencySound'
  BY SameReport DEF RatingInv, TapFails, cameVars
<1> QED BY <1>1, <1>2, <1>3 DEF RatingInv

LEMMA DeletionKeeps == RatingInv /\ (DeleteAccount \/ AccountDeleted \/ DeletionFails) => RatingInv'
<1> SUFFICES ASSUME RatingInv, DeleteAccount \/ AccountDeleted \/ DeletionFails PROVE RatingInv'
  OBVIOUS
<1>1. RatingsTypeOK'
  BY DEF RatingInv, RatingsTypeOK, DeleteAccount, AccountDeleted, DeletionFails, Cascade, cameVars
<1>2. (TapsWell /\ GoneLeavesNothing /\ AnswerStands)'
  BY DEF RatingInv, TapsWell, GoneLeavesNothing, AnswerStands, DeleteAccount, AccountDeleted,
         DeletionFails, Cascade
<1>3. LatencySound'
  BY SameReport DEF RatingInv, DeleteAccount, AccountDeleted, DeletionFails, cameVars
<1> QED BY <1>1, <1>2, <1>3 DEF RatingInv

LEMMA ComeKeeps == ASSUME RatingInv, NEW a \in Notices, Come(a) PROVE RatingInv'
<1>1. RatingsTypeOK'
  BY DEF RatingInv, RatingsTypeOK, Come, tapVars
<1>2. (TapsWell /\ GoneLeavesNothing /\ AnswerStands)'
  BY DEF RatingInv, TapsWell, GoneLeavesNothing, AnswerStands, Come, tapVars
<1>3. LatencySound'
  BY SameReport DEF RatingInv, Come
<1> QED BY <1>1, <1>2, <1>3 DEF RatingInv

\* The delays up to a given one; the delays from which on at least i are counted.
UpTo(delay, a) == {b \in DOMAIN delay : delay[b] <= delay[a]}
From(i, delay) == {delay[a] : a \in {b \in DOMAIN delay : Cardinality(UpTo(delay, b)) >= i}}

LEMMA NthIs == \A i, delay : Nth(i, delay) = Min(From(i, delay))
BY DEF Nth, From, UpTo

\* The i-th smallest of the delays is one of them, and they ascend.
LEMMA NthAscends ==
  ASSUME NEW D, IsFiniteSet(D), D # {}, NEW top \in Nat, NEW delay \in [D -> 0..top],
         NEW i \in 1..Cardinality(D), NEW j \in 1..Cardinality(D), i <= j
  PROVE  /\ Nth(i, delay) \in 0..top /\ Nth(j, delay) \in 0..top
         /\ Nth(i, delay) <= Nth(j, delay)
<1>1. Cardinality(D) \in Nat
  BY FS_CardinalityType
<1> DEFINE all == {delay[a] : a \in D}
<1>2. all \in SUBSET Int /\ all # {} /\ IsFiniteSet(all)
  <2>1. delay = [a \in D |-> delay[a]]
    OBVIOUS
  <2> QED BY <2>1, FiniteImage
<1>3. PICK m \in all : \A n \in all : n <= m
  <2> HIDE DEF all
  <2> QED BY <1>2, ExtremesExist
<1>4. PICK a \in D : m = delay[a]
  OBVIOUS
<1>5. UpTo(delay, a) = D
  BY <1>3, <1>4 DEF UpTo
<1>6. ASSUME NEW k \in 1..Cardinality(D)
      PROVE  From(k, delay) \subseteq all /\ m \in From(k, delay)
  BY <1>1, <1>4, <1>5 DEF From
<1>7. From(j, delay) \subseteq From(i, delay)
  <2>1. ASSUME NEW b \in D, Cardinality(UpTo(delay, b)) >= j PROVE Cardinality(UpTo(delay, b)) >= i
    <3>1. UpTo(delay, b) \in SUBSET D
      BY DEF UpTo
    <3>2. Cardinality(UpTo(delay, b)) \in Nat
      BY <3>1, FS_Subset, FS_CardinalityType
    <3> QED BY <1>1, <2>1, <3>2
  <2> QED BY <2>1 DEF From
<1>8. ASSUME NEW k \in 1..Cardinality(D)
      PROVE  Min(From(k, delay)) \in From(k, delay) /\ \A n \in From(k, delay) : Min(From(k, delay)) <= n
  <2> DEFINE F == From(k, delay)
  <2>1. F \in SUBSET Int /\ F # {} /\ IsFiniteSet(F)
    <3> HIDE DEF all
    <3> QED BY <1>2, <1>6, FS_Subset
  <2> HIDE DEF F
  <2>2. PICK l \in F : \A n \in F : l <= n
    BY <2>1, ExtremesExist
  <2>3. Min(F) \in F /\ \A n \in F : Min(F) <= n
    BY <2>2 DEF Min
  <2> QED BY <2>3 DEF F
<1>9. all \subseteq 0..top
  OBVIOUS
<1> HIDE DEF all
<1> QED BY <1>6, <1>7, <1>8, <1>9, NthIs

\* Between two numbers in order, at r hundredths of the way.
LEMMA Interpolated ==
  ASSUME NEW l \in Int, NEW h \in Int, l <= h, NEW r \in 0..99
  PROVE  /\ 100 * l + r * (h - l) \in Int
         /\ 100 * l <= 100 * l + r * (h - l) /\ 100 * l + r * (h - l) <= 100 * h
         /\ \A s \in r..99 : 100 * l + r * (h - l) <= 100 * l + s * (h - l)
<1> DEFINE d == h - l
<1>1. d \in Nat
  OBVIOUS
<1> HIDE DEF d
<1>2. r * d \in Int /\ 0 <= r * d
  BY <1>1
<1>3. ASSUME NEW s \in r..100 PROVE s * d \in Int /\ r * d <= s * d
  <2>1. s - r \in Nat /\ (s - r) * d >= 0
    BY <1>1
  <2>2. s * d = r * d + (s - r) * d
    BY <1>1
  <2> QED BY <1>1, <1>2, <2>1, <2>2
<1>4. r * d <= 100 * d
  BY <1>3
<1>5. 100 * h = 100 * l + 100 * d
  BY DEF d
<1> QED BY <1>1, <1>2, <1>3, <1>4, <1>5 DEF d

\* Where the p-th percentile of n delays lies, and what is left for interpolation.
LEMMA PlaceOf ==
  ASSUME NEW n \in Nat \ {0}, NEW p \in 0..99
  PROVE  /\ (p * (n - 1)) % 100 \in 0..99 /\ (p * (n - 1)) \div 100 + 1 \in 1..n
         /\ (p * (n - 1)) % 100 # 0 => (p * (n - 1)) \div 100 + 2 \in 1..n
         /\ p * (n - 1) = 100 * ((p * (n - 1)) \div 100) + ((p * (n - 1)) % 100)
<1> DEFINE at == p * (n - 1)
<1>1. at \in Nat /\ at <= 99 * (n - 1)
  <2>1. (n - 1) \in Nat /\ (99 - p) \in Nat
    OBVIOUS
  <2>2. (99 - p) * (n - 1) >= 0 /\ p * (n - 1) >= 0
    BY <2>1
  <2>3. (99 - p) * (n - 1) = 99 * (n - 1) - p * (n - 1)
    OBVIOUS
  <2> QED BY <2>1, <2>2, <2>3
<1> HIDE DEF at
<1>2. at = 100 * (at \div 100) + (at % 100) /\ at % 100 \in 0..99 /\ at \div 100 \in Nat
  <2>1. at = 100 * (at \div 100) + (at % 100)
    BY <1>1
  <2>2. at % 100 \in 0..99
    BY <1>1
  <2>3. at \div 100 \in Nat
    BY <1>1
  <2> QED BY <2>1, <2>2, <2>3
<1>3. at \div 100 <= n - 1
  BY <1>1, <1>2
<1>4. at % 100 # 0 => at \div 100 < n - 1
  BY <1>1, <1>2
<1>5. at % 100 \in 0..99 /\ at \div 100 + 1 \in 1..n /\ (at % 100 # 0 => at \div 100 + 2 \in 1..n)
  BY <1>2, <1>3, <1>4
<1> QED BY <1>2, <1>5 DEF at

\* The median and the 95th of any delays are in order and within their bounds.
LEMMA PercentilesAscend ==
  ASSUME NEW D, IsFiniteSet(D), NEW top \in Nat, NEW delay \in [D -> 0..top]
  PROVE  LET half == HalfAndMost(delay)
         IN  half # <<>> => 0 <= half[1] /\ half[1] <= half[2] /\ half[2] <= 100 * top
<1>1. CASE D = {}
  BY <1>1 DEF HalfAndMost
<1>2. CASE D # {}
  <2> DEFINE n == Cardinality(D)
             N == [i \in 1..n |-> Nth(i, delay)]
  <2>1. n \in Nat \ {0}
    BY <1>2, FS_CardinalityType, FS_EmptySet
  <2>2. \A i, j \in 1..n : i <= j => N[i] \in 0..top /\ N[j] \in 0..top /\ N[i] <= N[j]
    <3> TAKE i, j \in 1..n
    <3> HAVE i <= j
    <3> QED BY <1>2, NthAscends
  <2> DEFINE low(p) == N[(p * (n - 1)) \div 100 + 1]
             rest(p) == (p * (n - 1)) % 100
             high(p) == IF rest(p) = 0 THEN low(p) ELSE N[(p * (n - 1)) \div 100 + 2]
             value(p) == 100 * low(p) + rest(p) * (high(p) - low(p))
  <2>3. ASSUME NEW p \in 0..99 PROVE Percentile(p, delay) = value(p)
    <3>1. DOMAIN delay = D
      OBVIOUS
    <3>2. (p * (n - 1)) \div 100 + 1 \in 1..n /\ (rest(p) # 0 => (p * (n - 1)) \div 100 + 2 \in 1..n)
      <4> HIDE DEF n
      <4> QED BY <2>1, PlaceOf
    <3>3. low(p) = Nth((p * (n - 1)) \div 100 + 1, delay)
      BY <3>2
    <3>4. high(p) = IF rest(p) = 0 THEN Nth((p * (n - 1)) \div 100 + 1, delay)
                                   ELSE Nth((p * (n - 1)) \div 100 + 2, delay)
      <4> HIDE DEF n
      <4> QED BY <3>2, <3>3
    <3> HIDE DEF low, high, N
    <3> QED BY <3>1, <3>3, <3>4 DEF Percentile
  <2> HIDE DEF N, n
  <2>4. ASSUME NEW p \in 0..99
        PROVE  /\ low(p) \in 0..top /\ high(p) \in 0..top /\ low(p) <= high(p) /\ rest(p) \in 0..99
               /\ 100 * low(p) <= value(p) /\ value(p) <= 100 * high(p) /\ value(p) \in Int
    <3>1. /\ rest(p) \in 0..99 /\ (p * (n - 1)) \div 100 + 1 \in 1..n
          /\ rest(p) # 0 => (p * (n - 1)) \div 100 + 2 \in 1..n
      BY <2>1, PlaceOf
    <3>2. low(p) \in 0..top /\ high(p) \in 0..top /\ low(p) <= high(p)
      <4>1. CASE rest(p) = 0
        BY <2>2, <3>1, <4>1
      <4>2. CASE rest(p) # 0
        <5>1. (p * (n - 1)) \div 100 + 1 <= (p * (n - 1)) \div 100 + 2
          BY <2>1, <3>1
        <5> QED BY <2>2, <3>1, <4>2, <5>1
      <4> QED BY <4>1, <4>2
    <3> HIDE DEF low, high, rest
    <3>3. /\ 100 * low(p) + rest(p) * (high(p) - low(p)) \in Int
          /\ 100 * low(p) <= 100 * low(p) + rest(p) * (high(p) - low(p))
          /\ 100 * low(p) + rest(p) * (high(p) - low(p)) <= 100 * high(p)
      BY <3>1, <3>2, Interpolated
    <3> QED BY <3>1, <3>2, <3>3
  <2>5. value(50) <= value(95)
    <3> DEFINE a == (50 * (n - 1)) \div 100
               b == (95 * (n - 1)) \div 100
    <3>1. /\ a \in Nat /\ b \in Nat /\ rest(50) \in 0..99 /\ rest(95) \in 0..99
          /\ a + 1 \in 1..n /\ b + 1 \in 1..n
          /\ rest(50) # 0 => a + 2 \in 1..n
          /\ rest(95) # 0 => b + 2 \in 1..n
          /\ 100 * a + rest(50) <= 100 * b + rest(95)
      <4>1. /\ 50 * (n - 1) = 100 * a + rest(50) /\ rest(50) \in 0..99 /\ a + 1 \in 1..n
            /\ (rest(50) # 0 => a + 2 \in 1..n)
        BY <2>1, PlaceOf
      <4>2. /\ 95 * (n - 1) = 100 * b + rest(95) /\ rest(95) \in 0..99 /\ b + 1 \in 1..n
            /\ (rest(95) # 0 => b + 2 \in 1..n)
        BY <2>1, PlaceOf
      <4>3. 50 * (n - 1) <= 95 * (n - 1) /\ a \in Nat /\ b \in Nat
        BY <2>1
      <4> QED BY <4>1, <4>2, <4>3
    <3>2. /\ low(50) = N[a + 1] /\ low(95) = N[b + 1]
          /\ high(50) = IF rest(50) = 0 THEN N[a + 1] ELSE N[a + 2]
          /\ high(95) = IF rest(95) = 0 THEN N[b + 1] ELSE N[b + 2]
      OBVIOUS
    <3> HIDE DEF a, b, low, high, rest
    <3>3. CASE a = b
      <4>1. rest(50) <= rest(95) /\ low(50) = low(95)
        BY <3>1, <3>2, <3>3
      <4>2. CASE rest(50) = 0
        <5>1. value(50) = 100 * low(50)
          BY <2>4, <4>2
        <5>2. 100 * low(95) <= value(95)
          BY <2>4
        <5> QED BY <4>1, <5>1, <5>2
      <4>3. CASE rest(50) # 0
        <5>1. high(50) = high(95)
          BY <3>1, <3>2, <3>3, <4>1, <4>3
        <5>2. /\ low(50) \in Int /\ high(50) \in Int /\ low(50) <= high(50)
              /\ rest(50) \in 0..99 /\ rest(95) \in rest(50)..99
          BY <2>4, <3>1, <4>1
        <5>3. 100 * low(50) + rest(50) * (high(50) - low(50))
                <= 100 * low(50) + rest(95) * (high(50) - low(50))
          BY <5>2, Interpolated
        <5> QED BY <4>1, <5>1, <5>3
      <4> QED BY <4>2, <4>3
    <3>4. CASE a # b
      <4>1. a < b
        BY <3>1, <3>4
      <4>2. high(50) <= low(95)
        <5>1. CASE rest(50) = 0
          <6>1. a + 1 <= b + 1
            BY <3>1, <4>1
          <6> QED BY <2>2, <3>1, <3>2, <5>1, <6>1
        <5>2. CASE rest(50) # 0
          <6>1. a + 2 <= b + 1
            BY <3>1, <4>1
          <6> QED BY <2>2, <3>1, <3>2, <5>2, <6>1
        <5> QED BY <5>1, <5>2
      <4>3. value(50) <= 100 * high(50) /\ 100 * low(95) <= value(95) /\ value(50) \in Int /\ value(95) \in Int
            /\ high(50) \in Int /\ low(95) \in Int
        BY <2>4
      <4> HIDE DEF value
      <4> QED BY <4>2, <4>3
    <3> QED BY <3>3, <3>4
  <2>6. /\ 0 <= value(50) /\ value(95) <= 100 * top
    <3> HIDE DEF value, low, high, rest
    <3>1. 100 * low(50) <= value(50) /\ low(50) \in 0..top /\ value(50) \in Int
      BY <2>4
    <3>2. value(95) <= 100 * high(95) /\ high(95) \in 0..top /\ value(95) \in Int
      BY <2>4
    <3> QED BY <3>1, <3>2
  <2>7. HalfAndMost(delay) = <<value(50), value(95)>>
    <3>1. DOMAIN delay = D
      OBVIOUS
    <3> HIDE DEF value
    <3>2. Percentile(50, delay) = value(50) /\ Percentile(95, delay) = value(95)
      BY <2>3
    <3> QED BY <1>2, <3>1, <3>2 DEF HalfAndMost
  <2> HIDE DEF value
  <2> QED BY <2>5, <2>6, <2>7
<1> QED BY <1>1, <1>2

LEMMA MeasureKeeps == RatingInv /\ MeasureLatency => RatingInv'
<1> SUFFICES ASSUME RatingInv, MeasureLatency PROVE RatingInv'
  OBVIOUS
<1>1. RatingsTypeOK'
  BY DEF RatingInv, RatingsTypeOK, MeasureLatency, tapVars
<1>2. (TapsWell /\ GoneLeavesNothing /\ AnswerStands)'
  BY DEF RatingInv, TapsWell, GoneLeavesNothing, AnswerStands, MeasureLatency, tapVars
<1> DEFINE early == [a \in Reported |-> AtLeastZero(came[a].seen)]
           whole == [a \in Reported |-> AtLeastZero(came[a].post)]
<1>3. IsFiniteSet(Reported)
  <2>1. Reported \in SUBSET Notices
    BY DEF Reported
  <2> QED BY <2>1, RatingsParameters, FS_Subset
<1>4. early \in [Reported -> 0..Longest] /\ whole \in [Reported -> 0..Longest]
  <2>1. ASSUME NEW d \in Delays \cup {Blank} PROVE AtLeastZero(d) \in 0..Longest
    BY RatingsParameters DEF AtLeastZero, Delays
  <2>2. ASSUME NEW a \in Reported PROVE came[a].seen \in Delays /\ came[a].post \in Delays \cup {Blank}
    BY DEF Reported, RatingInv, RatingsTypeOK
  <2> QED BY <2>1, <2>2
<1> HIDE DEF early, whole
<1>5. \A half \in {HalfAndMost(early), HalfAndMost(whole)} :
        half # <<>> => 0 <= half[1] /\ half[1] <= half[2] /\ half[2] <= 100 * Longest
  <2>1. HalfAndMost(early) # <<>> => /\ 0 <= HalfAndMost(early)[1] /\ HalfAndMost(early)[1] <= HalfAndMost(early)[2]
                                    /\ HalfAndMost(early)[2] <= 100 * Longest
    BY <1>3, <1>4, RatingsParameters, PercentilesAscend
  <2>2. HalfAndMost(whole) # <<>> => /\ 0 <= HalfAndMost(whole)[1] /\ HalfAndMost(whole)[1] <= HalfAndMost(whole)[2]
                                    /\ HalfAndMost(whole)[2] <= 100 * Longest
    BY <1>3, <1>4, RatingsParameters, PercentilesAscend
  <2> QED BY <2>1, <2>2
<1>6. latency'.delivery = HalfAndMost(early) /\ latency'.whole = HalfAndMost(whole)
  BY DEF MeasureLatency, early, whole
<1>7. LatencySound'
  BY <1>5, <1>6 DEF LatencySound
<1> QED BY <1>1, <1>2, <1>7 DEF RatingInv

\* Every step of either section keeps the invariant of the ratings.
LEMMA RatingsGoOn == RatingInv /\ (TapNext \/ LatencyNext \/ UNCHANGED ratingVars) => RatingInv'
<1>1. ASSUME RatingInv, UNCHANGED ratingVars PROVE RatingInv'
  <2>1. RatingsTypeOK'
    BY <1>1 DEF RatingInv, RatingsTypeOK, ratingVars, tapVars, cameVars
  <2>2. (TapsWell /\ GoneLeavesNothing /\ AnswerStands /\ LatencySound)'
    BY <1>1 DEF RatingInv, TapsWell, GoneLeavesNothing, AnswerStands, LatencySound, ratingVars, tapVars, cameVars
  <2> QED BY <2>1, <2>2 DEF RatingInv
<1>2. ASSUME RatingInv, TapNext PROVE RatingInv'
  BY <1>2, TurnKeeps, LinksKeep, TapKeeps, UpsertKeeps, AnswerKeeps, TapFailsKeeps, DeletionKeeps
     DEF TapNext, SendButtons, ShowDetail
<1>3. ASSUME RatingInv, LatencyNext PROVE RatingInv'
  BY <1>3, TurnKeeps, MeasureKeeps, ComeKeeps DEF LatencyNext
<1> QED BY <1>1, <1>2, <1>3

LEMMA RatingsAreWell == RatingInv => RatingsHold
BY DEF RatingInv, GoneLeavesNothing, AnswerStands, InWindow, RatingsHold, LastTapStands

-----------------------------------------------------------------------------
(* Access.                                                                 *)

CallPlaces == {"off", "matched", "use", "used", "revoke", "revoked"}
CallRow == [at : CallPlaces, key : ApiKeys \cup {Never}, read : KeyRow, now : Hours]

\* The requests with a key; a key that no use crossed is under one of them at most,
\* which has read what last_used_at still is, and has been let through last.
CallsWell == \A q \in Callers : call[q].at # "off" => call[q].key \in ApiKeys
InUse(k) == {q \in Callers : call[q].key = k /\ call[q].at \in {"matched", "use", "used"}}
UsedAlone ==
  \A k \in ApiKeys \ beyond :
    /\ \A p, q \in InUse(k) : p = q
    /\ \A q \in InUse(k) : /\ call[q].at = "matched" => call[q].read.used = key[k].used
                           /\ call[q].at # "matched" => servedAt[k] = call[q].now

KeyTypeOK ==
  /\ time \in Hours /\ planEnds \in 0..(LastHourOf + PlanTerm)
  /\ key \in [ApiKeys -> KeyRow]
  /\ call \in [Callers -> CallRow]
  /\ gone \subseteq ApiKeys /\ beyond \subseteq ApiKeys
  /\ servedAt \in [ApiKeys -> Hours \cup {Never}]

KeyInv == KeyTypeOK /\ CallsWell /\ UsedAlone /\ KeysHold

LEMMA KeysBegin == AccessInit => KeyInv
<1> SUFFICES ASSUME AccessInit PROVE KeyInv
  OBVIOUS
<1>1. KeyTypeOK
  BY AccessParameters DEF AccessInit, KeyTypeOK, Hours, KeyRow, NoKey, NoCall, CallRow, CallPlaces
<1>2. CallsWell /\ UsedAlone /\ KeysHold
  BY DEF AccessInit, CallsWell, UsedAlone, KeysHold, InUse, NoCall
<1> QED BY <1>1, <1>2 DEF KeyInv

LEMMA HourKeeps == KeyInv /\ HourPasses => KeyInv'
<1> SUFFICES ASSUME KeyInv, HourPasses PROVE KeyInv'
  OBVIOUS
<1>1. KeyTypeOK'
  BY AccessParameters DEF KeyInv, KeyTypeOK, HourPasses, Hours
<1>2. (CallsWell /\ UsedAlone /\ KeysHold)'
  BY DEF KeyInv, CallsWell, UsedAlone, KeysHold, InUse, On, HourPasses
<1> QED BY <1>1, <1>2 DEF KeyInv

LEMMA RenewKeeps == KeyInv /\ Renew => KeyInv'
<1> SUFFICES ASSUME KeyInv, Renew PROVE KeyInv'
  OBVIOUS
<1>1. KeyTypeOK'
  BY AccessParameters DEF KeyInv, KeyTypeOK, Renew, Hours
<1>2. (CallsWell /\ UsedAlone /\ KeysHold)'
  BY DEF KeyInv, CallsWell, UsedAlone, KeysHold, InUse, On, Renew
<1> QED BY <1>1, <1>2 DEF KeyInv

LEMMA CreateKeyKeeps == ASSUME KeyInv, NEW k \in ApiKeys, CreateKey(k) PROVE KeyInv'
<1>1. KeyTypeOK'
  BY DEF KeyInv, KeyTypeOK, CreateKey, KeyRow
<1>2. \A j \in ApiKeys : key'[j].revoked = key[j].revoked /\ key'[j].used = key[j].used
  BY DEF KeyInv, KeyTypeOK, CreateKey, KeyRow
<1>3. (CallsWell /\ UsedAlone)'
  BY <1>2 DEF KeyInv, CallsWell, UsedAlone, InUse, CreateKey
<1>4. KeysHold'
  BY <1>2 DEF KeyInv, KeyTypeOK, KeysHold, On, CreateKey
<1> QED BY <1>1, <1>3, <1>4 DEF KeyInv

LEMMA MatchKeyKeeps ==
  ASSUME KeyInv, NEW q \in Callers, NEW k \in ApiKeys, MatchKey(q, k)
  PROVE  KeyInv'
<1> DEFINE r == [at |-> "matched", key |-> k, read |-> key[k], now |-> 0]
<1>1. r \in CallRow /\ r.at = "matched" /\ r.key = k /\ r.read = key[k] /\ 0 \in Hours
  BY AccessParameters DEF KeyInv, KeyTypeOK, CallRow, CallPlaces, Hours
<1>2. call' = [call EXCEPT ![q] = r] /\ UNCHANGED <<time, planEnds, key, gone, servedAt>>
  BY DEF MatchKey
<1>3. /\ beyond \subseteq beyond' /\ beyond' \subseteq ApiKeys
      /\ k \notin beyond' => InUse(k) = {}
  BY DEF MatchKey, KeyInv, KeyTypeOK, InUse, On
<1> HIDE DEF r
<1>4. KeyTypeOK'
  BY <1>1, <1>2, <1>3 DEF KeyInv, KeyTypeOK
<1>5. \A p \in Callers : p # q => call'[p] = call[p]
  BY <1>2 DEF KeyInv, KeyTypeOK
<1>6. call'[q] = r /\ call[q].at = "off"
  BY <1>2 DEF KeyInv, KeyTypeOK, MatchKey
<1>7. CallsWell'
  BY <1>1, <1>5, <1>6 DEF KeyInv, CallsWell
<1>8. \A j \in ApiKeys : InUse(j)' = IF j = k THEN InUse(j) \cup {q} ELSE InUse(j)
  BY <1>1, <1>5, <1>6 DEF InUse
<1>9. UsedAlone'
  <2>1. ASSUME NEW j \in ApiKeys \ beyond', NEW p \in InUse(j)', NEW o \in InUse(j)' PROVE p = o
    BY <1>3, <1>8, <2>1 DEF KeyInv, UsedAlone
  <2>2. ASSUME NEW j \in ApiKeys \ beyond', NEW p \in InUse(j)'
        PROVE  /\ call'[p].at = "matched" => call'[p].read.used = key'[j].used
               /\ call'[p].at # "matched" => servedAt'[j] = call'[p].now
    <3>1. CASE p = q
      BY <1>1, <1>2, <1>6, <1>8, <2>2, <3>1 DEF InUse
    <3>2. CASE p # q
      <4>1. p \in InUse(j) /\ j \in ApiKeys \ beyond
        BY <1>3, <1>8, <2>2, <3>2
      <4> QED BY <1>2, <1>5, <3>2, <4>1 DEF KeyInv, UsedAlone, InUse
    <3> QED BY <3>1, <3>2
  <2> QED BY <2>1, <2>2 DEF UsedAlone
<1>10. KeysHold'
  <2>1. \A j \in ApiKeys : (\A p \in On(j)' : call'[p].at \notin {"use", "used"})
                              => (\A p \in On(j) : call[p].at \notin {"use", "used"})
    BY <1>1, <1>5, <1>6 DEF On
  <2> QED BY <1>2, <1>3, <2>1 DEF KeyInv, KeysHold
<1> QED BY <1>4, <1>7, <1>9, <1>10 DEF KeyInv

LEMMA CheckPlanKeeps == ASSUME KeyInv, NEW q \in Callers, CheckPlan(q) PROVE KeyInv'
<1>1. PICK k \in ApiKeys : k = call[q].key /\ q \in InUse(k) /\ call[q].at = "matched"
  BY DEF KeyInv, CallsWell, CheckPlan, InUse
<1>2. UNCHANGED <<time, planEnds, key, gone, beyond>> /\ \A p \in Callers : p # q => call'[p] = call[p]
  BY DEF KeyInv, KeyTypeOK, CheckPlan
<1>3. NoCall \in CallRow /\ NoCall.at = "off"
  BY AccessParameters DEF NoCall, CallRow, NoKey, KeyRow, Hours, CallPlaces
<1>4. /\ call[q] \in CallRow /\ time \in Hours /\ key[k] \in KeyRow
      /\ servedAt \in [ApiKeys -> Hours \cup {Never}]
  BY <1>1 DEF KeyInv, KeyTypeOK
<1>5. \/ call'[q] = NoCall /\ UNCHANGED servedAt /\ call' = [call EXCEPT ![q] = NoCall]
      \/ /\ call' = [call EXCEPT ![q] = NoCall] /\ call'[q] = NoCall
         /\ servedAt' = [servedAt EXCEPT ![k] = time]
         /\ call[q].read.used # Never /\ time - call[q].read.used < Throttle
      \/ /\ call' = [call EXCEPT ![q] = [call[q] EXCEPT !.at = "use", !.now = time]]
         /\ call'[q] = [call[q] EXCEPT !.at = "use", !.now = time]
         /\ servedAt' = [servedAt EXCEPT ![k] = time]
  <2>1. call \in [Callers -> CallRow]
    BY DEF KeyInv, KeyTypeOK
  <2>2. ~UseDue(q) => call[q].read.used # Never /\ time - call[q].read.used < Throttle
    <3>1. call[q].read.used \in Hours \cup {Never} /\ Throttle \in Nat
      BY <1>4, AccessParameters DEF CallRow, KeyRow
    <3> QED BY <1>4, <3>1 DEF UseDue, Hours
  <2> QED BY <1>1, <2>1, <2>2 DEF CheckPlan, Serves
<1>6. /\ call' \in [Callers -> CallRow] /\ servedAt' \in [ApiKeys -> Hours \cup {Never}]
      /\ call'[q] = NoCall \/ call'[q] = [call[q] EXCEPT !.at = "use", !.now = time]
  <2>1. [call[q] EXCEPT !.at = "use", !.now = time] \in CallRow
    BY <1>4 DEF CallRow, CallPlaces
  <2>2. call \in [Callers -> CallRow]
    BY DEF KeyInv, KeyTypeOK
  <2> QED BY <1>3, <1>4, <1>5, <2>1, <2>2
<1>7. KeyTypeOK'
  BY <1>2, <1>6 DEF KeyInv, KeyTypeOK
<1>8. CallsWell'
  <2>1. call'[q].at # "off" => call'[q].key = k
    BY <1>1, <1>3, <1>4, <1>6 DEF CallRow
  <2> QED BY <1>1, <1>2, <2>1 DEF KeyInv, CallsWell
<1>9. \A j \in ApiKeys : InUse(j)' \subseteq InUse(j)
  <2>1. call'[q].at \in {"matched", "use", "used"} => call'[q].key = k
    BY <1>1, <1>3, <1>4, <1>6 DEF CallRow
  <2> QED BY <1>1, <1>2, <2>1 DEF InUse
<1>10. \A j \in ApiKeys \ {k} : servedAt'[j] = servedAt[j]
  BY <1>4, <1>5
<1>11. \A j \in ApiKeys : q \in InUse(j)' => j = k /\ call'[q].at = "use" /\ servedAt'[k] = call'[q].now
  <2>1. call'[q].at = "off" \/ (call'[q].at = "use" /\ call'[q].key = k /\ call'[q].now = time)
    BY <1>1, <1>3, <1>4, <1>6 DEF CallRow
  <2>2. call'[q].at # "off" => servedAt'[k] = time
    BY <1>1, <1>3, <1>4, <1>5
  <2> QED BY <2>1, <2>2 DEF InUse
<1>12. UsedAlone'
  <2>1. ASSUME NEW j \in ApiKeys \ beyond', NEW p \in InUse(j)'
        PROVE  /\ call'[p].at = "matched" => call'[p].read.used = key'[j].used
               /\ call'[p].at # "matched" => servedAt'[j] = call'[p].now
    <3>1. CASE p = q
      BY <1>11, <2>1, <3>1
    <3>2. CASE p # q
      <4>1. p \in InUse(j) /\ j \in ApiKeys \ beyond /\ p \in Callers
        BY <1>2, <1>9, <2>1 DEF InUse
      <4>2. j # k
        BY <1>1, <3>2, <4>1 DEF KeyInv, UsedAlone
      <4> QED BY <1>2, <1>10, <3>2, <4>1, <4>2 DEF KeyInv, UsedAlone
    <3> QED BY <3>1, <3>2
  <2> QED BY <1>2, <1>9, <2>1 DEF KeyInv, UsedAlone
<1>13. KeysHold'
  <2>1. ASSUME NEW j \in ApiKeys \ beyond', servedAt'[j] # Never,
               \A p \in On(j)' : call'[p].at \notin {"use", "used"}
        PROVE  key'[j].used # Never /\ servedAt'[j] - key'[j].used <= Throttle
    <3>1. CASE j # k
      <4>1. \A p \in On(j) : call[p].at \notin {"use", "used"}
        <5>1. On(j) \subseteq On(j)' \/ j = k
          BY <1>1, <1>2 DEF On
        <5>2. q \notin On(j)
          BY <1>1, <3>1 DEF On
        <5> QED BY <1>2, <2>1, <3>1, <5>1, <5>2 DEF On
      <4> QED BY <1>2, <1>10, <2>1, <3>1, <4>1 DEF KeyInv, KeysHold
    <3>2. CASE j = k
      <4>1. k \in ApiKeys \ beyond
        BY <1>2, <2>1, <3>2
      <4>2. call[q].read.used = key[k].used /\ \A p \in InUse(k) : p = q
        BY <1>1, <4>1 DEF KeyInv, UsedAlone
      <4>3. call'[q] = NoCall
        <5>1. ASSUME call'[q] = [call[q] EXCEPT !.at = "use", !.now = time] PROVE FALSE
          <6>1. q \in On(k)' /\ call'[q].at = "use"
            BY <1>1, <1>4, <5>1 DEF On, CallRow
          <6> QED BY <2>1, <3>2, <6>1
        <5> QED BY <1>6, <5>1
      <4>4. CASE UNCHANGED servedAt
        <5>1. \A p \in On(k) : call[p].at \notin {"use", "used"}
          BY <1>1, <4>2 DEF On, InUse
        <5> QED BY <1>2, <2>1, <3>2, <4>1, <4>4, <5>1 DEF KeyInv, KeysHold
      <4>5. CASE /\ servedAt' = [servedAt EXCEPT ![k] = time]
                 /\ call[q].read.used # Never /\ time - call[q].read.used < Throttle
        <5>1. servedAt'[k] = time /\ key'[k].used = call[q].read.used
          BY <1>1, <1>2, <1>4, <4>2, <4>5
        <5>2. key[k].used \in Hours \cup {Never} /\ Throttle \in Nat
          BY <1>4, AccessParameters DEF KeyRow
        <5> QED BY <1>4, <3>2, <4>2, <4>5, <5>1, <5>2 DEF Hours
      <4>6. ~ (call'[q] = [call[q] EXCEPT !.at = "use", !.now = time])
        BY <1>3, <1>4, <4>3 DEF CallRow
      <4> QED BY <1>5, <4>4, <4>5, <4>6
    <3> QED BY <3>1, <3>2
  <2>2. \A j \in gone' : key'[j].revoked # Never
    BY <1>2 DEF KeyInv, KeysHold
  <2> QED BY <2>1, <2>2 DEF KeysHold
<1> QED BY <1>7, <1>8, <1>12, <1>13 DEF KeyInv

LEMMA StartRevokeKeeps ==
  ASSUME KeyInv, NEW q \in Callers, NEW k \in ApiKeys, StartRevoke(q, k)
  PROVE  KeyInv'
<1> DEFINE r == [at |-> "revoke", key |-> k, read |-> key[k], now |-> time]
<1>1. r \in CallRow /\ r.at = "revoke" /\ r.key = k
  BY DEF KeyInv, KeyTypeOK, CallRow, CallPlaces
<1>2. call' = [call EXCEPT ![q] = r] /\ UNCHANGED <<time, planEnds, key, gone, beyond, servedAt>>
  BY DEF StartRevoke
<1> HIDE DEF r
<1>3. /\ \A p \in Callers : p # q => call'[p] = call[p]
      /\ call'[q] = r /\ call[q].at = "off"
  BY <1>2 DEF KeyInv, KeyTypeOK, StartRevoke
<1>4. KeyTypeOK'
  BY <1>1, <1>2 DEF KeyInv, KeyTypeOK
<1>5. CallsWell'
  BY <1>1, <1>3 DEF KeyInv, CallsWell
<1>6. \A j \in ApiKeys : InUse(j)' = InUse(j)
  BY <1>1, <1>3 DEF InUse
<1>7. UsedAlone'
  BY <1>2, <1>3, <1>6 DEF KeyInv, UsedAlone, InUse
<1>8. KeysHold'
  <2>1. \A j \in ApiKeys : (\A p \in On(j)' : call'[p].at \notin {"use", "used"})
                              => (\A p \in On(j) : call[p].at \notin {"use", "used"})
    BY <1>1, <1>3 DEF On
  <2> QED BY <1>2, <2>1 DEF KeyInv, KeysHold
<1> QED BY <1>4, <1>5, <1>7, <1>8 DEF KeyInv

LEMMA FlushKeyKeeps == ASSUME KeyInv, NEW q \in Callers, FlushKey(q) PROVE KeyInv'
<1>1. /\ UNCHANGED <<time, planEnds, key, gone, beyond, servedAt>>
      /\ \A p \in Callers : p # q => call'[p] = call[p]
      /\ call'[q] = [call[q] EXCEPT !.at = IF @ = "use" THEN "used" ELSE "revoked"]
      /\ call' = [call EXCEPT ![q] = [call[q] EXCEPT !.at = IF @ = "use" THEN "used" ELSE "revoked"]]
      /\ call[q].at \in {"use", "revoke"}
      /\ call[q] \in CallRow
  BY DEF KeyInv, KeyTypeOK, FlushKey
<1>2. /\ call'[q] \in CallRow /\ call'[q].key = call[q].key /\ call'[q].now = call[q].now
      /\ call'[q].at = IF call[q].at = "use" THEN "used" ELSE "revoked"
  BY <1>1 DEF CallRow, CallPlaces
<1>3. KeyTypeOK'
  <2>1. call' \in [Callers -> CallRow]
    BY <1>1, <1>2 DEF KeyInv, KeyTypeOK
  <2> QED BY <1>1, <2>1 DEF KeyInv, KeyTypeOK
<1>4. CallsWell'
  BY <1>1, <1>2 DEF KeyInv, CallsWell
<1>5. \A j \in ApiKeys : InUse(j)' = InUse(j)
  BY <1>1, <1>2 DEF InUse
<1>6. UsedAlone'
  BY <1>1, <1>2, <1>5 DEF KeyInv, UsedAlone, InUse
<1>7. KeysHold'
  <2>1. \A j \in ApiKeys : (\A p \in On(j)' : call'[p].at \notin {"use", "used"})
                              => (\A p \in On(j) : call[p].at \notin {"use", "used"})
    BY <1>1, <1>2 DEF On
  <2> QED BY <1>1, <2>1 DEF KeyInv, KeysHold
<1> QED BY <1>3, <1>4, <1>6, <1>7 DEF KeyInv

LEMMA CommitKeyKeeps == ASSUME KeyInv, NEW q \in Callers, CommitKey(q) PROVE KeyInv'
<1>1. PICK k \in ApiKeys : k = call[q].key
  BY DEF KeyInv, CallsWell, CommitKey
<1>2. /\ UNCHANGED <<time, planEnds, beyond, servedAt>>
      /\ call' = [call EXCEPT ![q] = NoCall] /\ call'[q] = NoCall
      /\ \A p \in Callers : p # q => call'[p] = call[p]
      /\ gone' = IF call[q].at = "revoked" THEN gone \cup {k} ELSE gone
      /\ call[q].at \in {"used", "revoked"}
      /\ call[q] \in CallRow
  BY <1>1 DEF KeyInv, KeyTypeOK, CommitKey
<1>3. /\ key' = [key EXCEPT ![k] = IF call[q].at = "used" THEN [key[k] EXCEPT !.used = call[q].now]
                                   ELSE [key[k] EXCEPT !.revoked = call[q].now]]
      /\ key \in [ApiKeys -> KeyRow]
  BY <1>1 DEF KeyInv, KeyTypeOK, CommitKey, RowAssigned
<1>4. /\ key' \in [ApiKeys -> KeyRow]
      /\ \A j \in ApiKeys : j # k => key'[j] = key[j]
      /\ call[q].at = "used" => key'[k].used = call[q].now /\ key'[k].revoked = key[k].revoked
      /\ call[q].at = "revoked" => key'[k].revoked = call[q].now /\ key'[k].used = key[k].used
      /\ call[q].now \in Hours
  BY <1>2, <1>3 DEF CallRow, KeyRow
<1>5. NoCall \in CallRow /\ NoCall.at = "off"
  BY AccessParameters DEF NoCall, CallRow, NoKey, KeyRow, Hours, CallPlaces
<1>6. KeyTypeOK'
  BY <1>2, <1>4, <1>5 DEF KeyInv, KeyTypeOK
<1>7. CallsWell'
  BY <1>2, <1>5 DEF KeyInv, CallsWell
<1>8. \A j \in ApiKeys : InUse(j)' = InUse(j) \ {q}
  BY <1>2, <1>5 DEF InUse
<1>9. UsedAlone'
  <2>1. ASSUME NEW j \in ApiKeys \ beyond', NEW p \in InUse(j)'
        PROVE  /\ call'[p].at = "matched" => call'[p].read.used = key'[j].used
               /\ call'[p].at # "matched" => servedAt'[j] = call'[p].now
    <3>1. p \in InUse(j) /\ p # q /\ j \in ApiKeys \ beyond /\ p \in Callers /\ call'[p] = call[p]
      BY <1>2, <1>8, <2>1 DEF InUse
    <3>2. key'[j].used = key[j].used
      <4>1. j = k /\ call[q].at = "used" => q \in InUse(j)
        BY <1>1 DEF InUse
      <4>2. ~(j = k /\ call[q].at = "used")
        BY <3>1, <4>1 DEF KeyInv, UsedAlone
      <4> QED BY <1>2, <1>4, <4>2
    <3> QED BY <1>2, <3>1, <3>2 DEF KeyInv, UsedAlone
  <2> QED BY <1>2, <1>8, <2>1 DEF KeyInv, UsedAlone
<1>10. KeysHold'
  <2>1. ASSUME NEW j \in gone' PROVE key'[j].revoked # Never
    <3>1. call[q].now # Never /\ gone \subseteq ApiKeys
      BY <1>4, AccessParameters DEF Hours, KeyInv, KeyTypeOK
    <3>2. CASE j \in gone
      BY <1>2, <1>4, <3>1, <3>2 DEF KeyInv, KeysHold
    <3>3. CASE j \notin gone
      BY <1>2, <1>4, <2>1, <3>1, <3>3
    <3> QED BY <3>2, <3>3
  <2>2. ASSUME NEW j \in ApiKeys \ beyond', servedAt'[j] # Never,
               \A p \in On(j)' : call'[p].at \notin {"use", "used"}
        PROVE  key'[j].used # Never /\ servedAt'[j] - key'[j].used <= Throttle
    <3>1. CASE j = k /\ call[q].at = "used"
      <4>1. q \in InUse(k) /\ k \in ApiKeys \ beyond
        BY <1>1, <1>2, <2>2, <3>1 DEF InUse
      <4>2. servedAt[k] = call[q].now /\ key'[k].used = call[q].now
        BY <1>4, <3>1, <4>1 DEF KeyInv, UsedAlone
      <4>3. servedAt'[j] - key'[j].used = 0 /\ key'[j].used # Never
        BY <1>2, <1>4, <3>1, <4>2, AccessParameters DEF Hours
      <4> QED BY <4>3, AccessParameters
    <3>2. CASE ~(j = k /\ call[q].at = "used")
      <4>1. \A p \in On(j) : call[p].at \notin {"use", "used"}
        <5>1. ASSUME NEW p \in On(j) PROVE call[p].at \notin {"use", "used"}
          <6>1. CASE p = q
            BY <1>1, <1>2, <3>2, <5>1, <6>1 DEF On
          <6>2. CASE p # q
            BY <1>2, <2>2, <5>1, <6>2 DEF On
          <6> QED BY <6>1, <6>2
        <5> QED BY <5>1
      <4>2. key'[j].used = key[j].used
        BY <1>2, <1>4, <3>2
      <4> QED BY <1>2, <2>2, <4>1, <4>2 DEF KeyInv, KeysHold
    <3> QED BY <3>1, <3>2
  <2> QED BY <2>1, <2>2 DEF KeysHold
<1> QED BY <1>6, <1>7, <1>9, <1>10 DEF KeyInv

LEMMA CallFailsKeeps == ASSUME KeyInv, NEW q \in Callers, CallFails(q) PROVE KeyInv'
<1>1. PICK k \in ApiKeys : k = call[q].key
  BY DEF KeyInv, CallsWell, CallFails
<1>2. /\ UNCHANGED <<time, planEnds, key, gone, servedAt>>
      /\ call' = [call EXCEPT ![q] = NoCall] /\ call'[q] = NoCall
      /\ \A p \in Callers : p # q => call'[p] = call[p]
      /\ beyond' = IF call[q].at \in {"use", "used"} THEN beyond \cup {k} ELSE beyond
      /\ call[q].at \in {"use", "used", "revoke", "revoked"}
  BY <1>1 DEF KeyInv, KeyTypeOK, CallFails
<1>3. NoCall \in CallRow /\ NoCall.at = "off"
  BY AccessParameters DEF NoCall, CallRow, NoKey, KeyRow, Hours, CallPlaces
<1>4. KeyTypeOK'
  BY <1>1, <1>2, <1>3 DEF KeyInv, KeyTypeOK
<1>5. CallsWell'
  BY <1>2, <1>3 DEF KeyInv, CallsWell
<1>6. \A j \in ApiKeys : InUse(j)' = InUse(j) \ {q}
  BY <1>2, <1>3 DEF InUse
<1>7. UsedAlone'
  BY <1>2, <1>6 DEF KeyInv, UsedAlone, InUse
<1>8. KeysHold'
  <2>1. ASSUME NEW j \in ApiKeys \ beyond', \A p \in On(j)' : call'[p].at \notin {"use", "used"}
        PROVE  \A p \in On(j) : call[p].at \notin {"use", "used"}
    <3>1. ASSUME NEW p \in On(j) PROVE call[p].at \notin {"use", "used"}
      <4>1. CASE p = q
        BY <1>1, <1>2, <2>1, <3>1, <4>1 DEF On
      <4>2. CASE p # q
        BY <1>2, <2>1, <3>1, <4>2 DEF On
      <4> QED BY <4>1, <4>2
    <3> QED BY <3>1
  <2>2. beyond \subseteq beyond'
    BY <1>2
  <2> QED BY <1>2, <2>1, <2>2 DEF KeyInv, KeysHold
<1> QED BY <1>4, <1>5, <1>7, <1>8 DEF KeyInv

LEMMA KeysGoOn == KeyInv /\ (KeysNext \/ UNCHANGED keyVars) => KeyInv'
<1>1. ASSUME KeyInv, UNCHANGED keyVars PROVE KeyInv'
  BY <1>1 DEF KeyInv, KeyTypeOK, CallsWell, UsedAlone, KeysHold, InUse, On, keyVars
<1>2. ASSUME KeyInv, KeysNext PROVE KeyInv'
  BY <1>2, HourKeeps, RenewKeeps, CreateKeyKeeps, MatchKeyKeeps, StartRevokeKeeps, CheckPlanKeeps,
     FlushKeyKeeps, CommitKeyKeeps, CallFailsKeeps DEF KeysNext
<1> QED BY <1>1, <1>2

-----------------------------------------------------------------------------
(* Sign-up.                                                                *)

NewcomerRow == [at : {"off", "bind", "write", "done"}, link : 0..MaxCodes, by : BOOLEAN, good : BOOLEAN,
                verified : BOOLEAN]
Verifiers(n) == {q \in Callers : verifying[q] = n}

SignupTypeOK ==
  /\ owner \in {"there", "deleted"} /\ code \in 0..MaxCodes
  /\ asking \in [Callers -> [at : {"off", "read", "written"}, code : 0..MaxCodes]]
  /\ shown \subseteq 1..MaxCodes /\ twice \in BOOLEAN
  /\ newcomer \in [Newcomers -> NewcomerRow]
  /\ verifying \in [Callers -> Newcomers \cup {Never}]
  /\ welcomed \in [Newcomers -> 0..Cardinality(Callers)] /\ together \subseteq Newcomers

\* Unless two requests make a code side by side, the one that does is alone and
\* nothing has been shown before.
OneAsks ==
  /\ \A q \in Callers : asking[q].at # "off" => asking[q].code \in 1..MaxCodes
  /\ owner = "there" /\ ~twice =>
       \A q \in Callers : asking[q].at # "off" =>
         /\ code = 0 /\ shown = {}
         /\ \A p \in Callers : asking[p].at # "off" => p = q

\* A verification under way began before the first was done, and alone unless the
\* newcomer is counted among those verified side by side.
OneVerifies ==
  \A n \in Newcomers :
    /\ welcomed[n] + Cardinality(Verifiers(n)) <= Cardinality(Callers)
    /\ n \notin together =>
         /\ \A p, q \in Verifiers(n) : p = q
         /\ newcomer[n].verified => Verifiers(n) = {}

SignupInv == SignupTypeOK /\ OneAsks /\ OneVerifies /\ SignupsHold

LEMMA CallersCounted ==
  /\ Cardinality(Callers) \in Nat
  /\ \A n : Verifiers(n) \subseteq Callers /\ IsFiniteSet(Verifiers(n)) /\ Cardinality(Verifiers(n)) \in Nat
            /\ Cardinality(Verifiers(n)) <= Cardinality(Callers)
<1>1. IsFiniteSet(Callers) /\ Cardinality(Callers) \in Nat
  BY AccessParameters, FS_CardinalityType
<1>2. ASSUME NEW n PROVE /\ Verifiers(n) \subseteq Callers /\ IsFiniteSet(Verifiers(n))
                         /\ Cardinality(Verifiers(n)) \in Nat
                         /\ Cardinality(Verifiers(n)) <= Cardinality(Callers)
  <2>1. Verifiers(n) \in SUBSET Callers
    BY DEF Verifiers
  <2> QED BY <1>1, <2>1, FS_Subset, FS_CardinalityType
<1> QED BY <1>1, <1>2

LEMMA SignupBegins == AccessInit => SignupInv
<1> SUFFICES ASSUME AccessInit PROVE SignupInv
  OBVIOUS
<1>1. SignupTypeOK
  <2>1. 0 \in 0..MaxCodes /\ 0 \in 0..Cardinality(Callers)
    BY AccessParameters, CallersCounted
  <2>2. NoAsking \in [at : {"off", "read", "written"}, code : 0..MaxCodes] /\ Unborn \in NewcomerRow
    BY <2>1 DEF NoAsking, Unborn, NewcomerRow
  <2> QED BY <2>1, <2>2 DEF AccessInit, SignupTypeOK
<1>2. OneAsks
  BY DEF AccessInit, OneAsks, NoAsking
<1>3. SignupsHold
  BY DEF AccessInit, SignupsHold, Unborn
<1>4. OneVerifies
  <2> SUFFICES ASSUME NEW n \in Newcomers
      PROVE  /\ welcomed[n] + Cardinality(Verifiers(n)) <= Cardinality(Callers)
             /\ n \notin together => /\ \A p, q \in Verifiers(n) : p = q
                                     /\ newcomer[n].verified => Verifiers(n) = {}
    BY DEF OneVerifies
  <2>1. welcomed[n] = 0 /\ newcomer[n].verified = FALSE
    BY DEF AccessInit, Unborn
  <2>2. \A q \in Callers : verifying[q] = Never
    BY DEF AccessInit
  <2>3. Cardinality(Verifiers(n)) <= Cardinality(Callers) /\ Cardinality(Verifiers(n)) \in Nat
    BY CallersCounted
  <2>4. Verifiers(n) = {}
    BY <2>2, AccessParameters DEF Verifiers
  <2> QED BY <2>1, <2>3, <2>4
<1> QED BY <1>1, <1>2, <1>3, <1>4 DEF SignupInv

\* What concerns the verifications alone, and what the links.
LEMMA VerifiersSame ==
  ASSUME OneVerifies, UNCHANGED <<verifying, welcomed, together>>,
         \A n \in Newcomers : newcomer'[n].verified = newcomer[n].verified
  PROVE  OneVerifies'
BY DEF OneVerifies, Verifiers

LEMMA AskLinkKeeps == ASSUME SignupInv, NEW q \in Callers, AskLink(q) PROVE SignupInv'
<1>1. OneVerifies'
  BY VerifiersSame DEF SignupInv, AskLink, SameOwner
<1>2. CASE code # 0 /\ shown' = shown \cup {code} /\ UNCHANGED <<asking, twice>>
  <2>1. SignupTypeOK'
    BY <1>2 DEF SignupInv, SignupTypeOK, AskLink, SameOwner
  <2>2. OneAsks'
    BY <1>2 DEF SignupInv, OneAsks, AskLink
  <2>3. SignupsHold'
    BY <1>2 DEF SignupInv, SignupsHold, AskLink, SameOwner
  <2> QED BY <1>1, <2>1, <2>2, <2>3 DEF SignupInv
<1>3. CASE code = 0 /\ UNCHANGED shown
  <2>1. PICK c \in 1..MaxCodes : asking' = [asking EXCEPT ![q] = [at |-> "read", code |-> c]]
    BY <1>3 DEF AskLink
  <2>2. /\ \A p \in Callers : p # q => asking'[p] = asking[p]
        /\ asking'[q] = [at |-> "read", code |-> c]
        /\ twice' = (twice \/ \E p \in Callers : asking[p].at # "off")
        /\ asking[q].at = "off" /\ owner = "there" /\ UNCHANGED <<owner, code, newcomer, verifying, welcomed, together>>
    BY <1>3, <2>1 DEF SignupInv, SignupTypeOK, AskLink, SameOwner
  <2>3. SignupTypeOK'
    BY <1>3, <2>1, <2>2 DEF SignupInv, SignupTypeOK
  <2>4. shown = {} \/ twice
    BY <1>3, <2>2 DEF SignupInv, SignupTypeOK, SignupsHold
  <2>5. OneAsks'
    <3>1. \A p \in Callers : asking'[p].at # "off" => asking'[p].code \in 1..MaxCodes
      BY <2>2 DEF SignupInv, OneAsks
    <3>2. ~twice' => ~twice /\ \A p \in Callers : asking[p].at = "off"
      BY <2>2
    <3>3. ASSUME ~twice' PROVE \A p \in Callers : asking'[p].at # "off" =>
                                 /\ code' = 0 /\ shown' = {}
                                 /\ \A o \in Callers : asking'[o].at # "off" => o = p
      BY <1>3, <2>2, <2>4, <3>2, <3>3
    <3> QED BY <3>1, <3>3 DEF OneAsks
  <2>6. SignupsHold'
    BY <1>3, <2>2 DEF SignupInv, SignupTypeOK, SignupsHold
  <2> QED BY <1>1, <2>3, <2>5, <2>6 DEF SignupInv
<1> QED BY <1>2, <1>3 DEF AskLink

LEMMA FlushLinkKeeps == ASSUME SignupInv, NEW q \in Callers, FlushLink(q) PROVE SignupInv'
<1>1. OneVerifies'
  BY VerifiersSame DEF SignupInv, FlushLink, SameOwner
<1>2. SignupTypeOK'
  BY DEF SignupInv, SignupTypeOK, FlushLink, SameOwner
<1>3. OneAsks'
  BY DEF SignupInv, SignupTypeOK, OneAsks, FlushLink
<1>4. SignupsHold'
  BY DEF SignupInv, SignupsHold, FlushLink, SameOwner
<1> QED BY <1>1, <1>2, <1>3, <1>4 DEF SignupInv

LEMMA ShowLinkKeeps == ASSUME SignupInv, NEW q \in Callers, ShowLink(q) PROVE SignupInv'
<1>1. OneVerifies'
  BY VerifiersSame DEF SignupInv, ShowLink, SameOwner
<1>2. SignupTypeOK'
  <2>1. asking[q].code \in 1..MaxCodes /\ NoAsking \in [at : {"off", "read", "written"}, code : 0..MaxCodes]
    BY AccessParameters DEF SignupInv, OneAsks, ShowLink, NoAsking
  <2> QED BY <2>1, AccessParameters DEF SignupInv, SignupTypeOK, ShowLink, SameOwner
<1>3. OneAsks'
  <2>1. /\ \A p \in Callers : p # q => asking'[p] = asking[p]
        /\ asking'[q] = NoAsking /\ asking[q].at # "off" /\ UNCHANGED <<owner, twice>>
    BY DEF SignupInv, SignupTypeOK, ShowLink
  <2>2. \A p \in Callers : asking'[p].at # "off" => p # q /\ asking[p].at # "off"
                                                  /\ asking'[p] = asking[p]
    BY <2>1 DEF NoAsking
  <2> QED BY <2>1, <2>2 DEF SignupInv, OneAsks
<1>4. SignupsHold'
  BY DEF SignupInv, OneAsks, SignupsHold, ShowLink, SameOwner
<1> QED BY <1>1, <1>2, <1>3, <1>4 DEF SignupInv

LEMMA LinkFailsKeeps == ASSUME SignupInv, NEW q \in Callers, LinkFails(q) PROVE SignupInv'
<1>1. OneVerifies'
  BY VerifiersSame DEF SignupInv, LinkFails, SameOwner
<1>2. SignupTypeOK'
  BY AccessParameters DEF SignupInv, SignupTypeOK, LinkFails, SameOwner, NoAsking
<1>3. OneAsks'
  BY DEF SignupInv, SignupTypeOK, OneAsks, LinkFails, NoAsking
<1>4. SignupsHold'
  BY DEF SignupInv, SignupsHold, LinkFails, SameOwner
<1> QED BY <1>1, <1>2, <1>3, <1>4 DEF SignupInv

LEMMA DeleteOwnerKeeps == SignupInv /\ DeleteOwner => SignupInv'
<1> SUFFICES ASSUME SignupInv, DeleteOwner PROVE SignupInv'
  OBVIOUS
<1>1. \A n \in Newcomers : /\ newcomer'[n] \in NewcomerRow
                           /\ newcomer'[n].by = FALSE /\ newcomer'[n].at = newcomer[n].at
                           /\ newcomer'[n].verified = newcomer[n].verified
  <2> TAKE n \in Newcomers
  <2>1. newcomer[n] \in NewcomerRow /\ newcomer'[n] = [newcomer[n] EXCEPT !.by = FALSE]
    BY DEF SignupInv, SignupTypeOK, DeleteOwner
  <2> QED BY <2>1 DEF NewcomerRow
<1>2. OneVerifies'
  BY <1>1, VerifiersSame DEF SignupInv, DeleteOwner
<1>3. SignupTypeOK'
  BY <1>1, AccessParameters DEF SignupInv, SignupTypeOK, DeleteOwner
<1>4. OneAsks'
  BY DEF SignupInv, OneAsks, DeleteOwner
<1>5. SignupsHold'
  BY <1>1 DEF SignupInv, SignupsHold, DeleteOwner
<1> QED BY <1>2, <1>3, <1>4, <1>5 DEF SignupInv

LEMMA NewcomerKeeps ==
  ASSUME SignupInv, NEW n \in Newcomers, (\E c \in shown : Register(n, c)) \/ Resolve(n) \/ Bind(n)
  PROVE  SignupInv'
<1>1. /\ newcomer[n] \in NewcomerRow
      /\ UNCHANGED <<owner, code, asking, shown, twice, verifying, welcomed, together>>
      /\ \A m \in Newcomers : m # n => newcomer'[m] = newcomer[m]
      /\ newcomer'[n] \in NewcomerRow /\ newcomer'[n].verified = newcomer[n].verified
      /\ newcomer' = [newcomer EXCEPT ![n] = newcomer'[n]]
      /\ newcomer'[n].at = "done" /\ newcomer'[n].good => newcomer'[n].by = (owner = "there")
      /\ newcomer'[n].by => owner = "there"
  <2>0. newcomer[n] \in NewcomerRow
    BY DEF SignupInv, SignupTypeOK
  <2>1. newcomer[n] \in NewcomerRow /\ newcomer \in [Newcomers -> NewcomerRow]
    BY DEF SignupInv, SignupTypeOK
  <2>2. /\ newcomer[n].at = "done" /\ newcomer[n].good => newcomer[n].by = (owner = "there")
        /\ newcomer[n].by => owner = "there"
    BY DEF SignupInv, SignupsHold
  <2>3. CASE \E c \in shown : Register(n, c)
    <3>1. PICK c \in 1..MaxCodes : newcomer' = [newcomer EXCEPT ![n].at = "bind", ![n].link = c]
      BY <2>3 DEF SignupInv, SignupTypeOK, Register
    <3>2. /\ newcomer'[n] = [newcomer[n] EXCEPT !.at = "bind", !.link = c]
          /\ newcomer' = [newcomer EXCEPT ![n] = newcomer'[n]]
      BY <2>1, <3>1
    <3>3. newcomer'[n] \in NewcomerRow /\ newcomer'[n].at = "bind" /\ newcomer'[n].by = newcomer[n].by
          /\ newcomer'[n].verified = newcomer[n].verified
      <4>1. newcomer'[n] = [newcomer[n] EXCEPT !.at = "bind", !.link = c]
        BY <3>2
      <4>2. c \in 0..MaxCodes
        BY AccessParameters
      <4> QED BY <2>0, <4>1, <4>2 DEF NewcomerRow
    <3> QED BY <2>1, <2>2, <2>3, <3>2, <3>3 DEF Register, SameLinks
  <2>4. CASE Resolve(n)
    <3>1. /\ newcomer'[n] = [newcomer[n] EXCEPT
                 !.at = IF newcomer[n].link = code THEN "write" ELSE "done",
                 !.good = newcomer[n].link = code]
          /\ newcomer' = [newcomer EXCEPT ![n] = newcomer'[n]]
      BY <2>1, <2>4 DEF Resolve
    <3>2. newcomer'[n] \in NewcomerRow /\ newcomer'[n].by = newcomer[n].by
          /\ newcomer'[n].verified = newcomer[n].verified
          /\ ~(newcomer'[n].at = "done" /\ newcomer'[n].good)
      <4>1. CASE newcomer[n].link = code
        <5>1. newcomer'[n] = [newcomer[n] EXCEPT !.at = "write", !.good = TRUE]
          BY <3>1, <4>1
        <5> QED BY <2>0, <5>1 DEF NewcomerRow
      <4>2. CASE newcomer[n].link # code
        <5>1. newcomer'[n] = [newcomer[n] EXCEPT !.at = "done", !.good = FALSE]
          BY <3>1, <4>2
        <5> QED BY <2>0, <5>1 DEF NewcomerRow
      <4> QED BY <4>1, <4>2
    <3> QED BY <2>1, <2>2, <2>4, <3>1, <3>2 DEF Resolve, SameLinks
  <2>5. CASE Bind(n)
    <3>1. /\ \/ newcomer'[n] = [newcomer[n] EXCEPT !.at = "done", !.by = owner = "there"]
             \/ newcomer'[n] = [newcomer[n] EXCEPT !.at = "done", !.good = FALSE]
          /\ newcomer' = [newcomer EXCEPT ![n] = newcomer'[n]]
      BY <2>1, <2>5 DEF Bind
    <3>2. newcomer'[n] \in NewcomerRow /\ newcomer'[n].verified = newcomer[n].verified
          /\ \/ newcomer'[n].by = (owner = "there")
             \/ newcomer'[n].by = newcomer[n].by /\ newcomer'[n].good = FALSE
      BY <2>0, <3>1 DEF NewcomerRow
    <3> QED BY <2>1, <2>2, <2>5, <3>1, <3>2 DEF Bind, SameLinks
  <2> QED BY <2>3, <2>4, <2>5
<1>2. \A m \in Newcomers : newcomer'[m].verified = newcomer[m].verified
  BY <1>1
<1>3. OneVerifies'
  BY <1>1, <1>2, VerifiersSame DEF SignupInv
<1>4. SignupTypeOK'
  <2>1. newcomer' \in [Newcomers -> NewcomerRow]
    BY <1>1 DEF SignupInv, SignupTypeOK
  <2> QED BY <1>1, <2>1 DEF SignupInv, SignupTypeOK
<1>5. OneAsks'
  BY <1>1 DEF SignupInv, OneAsks
<1>6. SignupsHold'
  BY <1>1, <1>2 DEF SignupInv, SignupsHold
<1> QED BY <1>3, <1>4, <1>5, <1>6 DEF SignupInv

LEMMA StartVerifyKeeps ==
  ASSUME SignupInv, NEW q \in Callers, NEW n \in Newcomers, StartVerify(q, n)
  PROVE  SignupInv'
<1>1. /\ UNCHANGED <<owner, code, asking, shown, twice, newcomer, welcomed>>
      /\ verifying[q] = Never /\ ~newcomer[n].verified
      /\ verifying'[q] = n /\ \A p \in Callers : p # q => verifying'[p] = verifying[p]
      /\ together' = IF Verifiers(n) # {} THEN together \cup {n} ELSE together
  BY DEF StartVerify, SameLinks, SignupInv, SignupTypeOK, Verifiers
<1>2. SignupTypeOK'
  BY DEF SignupInv, SignupTypeOK, StartVerify, SameLinks
<1>3. OneAsks' /\ SignupsHold'
  BY <1>1 DEF SignupInv, OneAsks, SignupsHold
<1>4. welcomed[n] = 0
  BY <1>1 DEF SignupInv, SignupTypeOK, SignupsHold
<1>5. \A m \in Newcomers : /\ Verifiers(m)' = IF m = n THEN Verifiers(n) \cup {q} ELSE Verifiers(m) \ {q}
  BY <1>1 DEF Verifiers
<1>6. \A m \in Newcomers : Verifiers(m)' \subseteq Callers /\ Cardinality(Verifiers(m)') \in Nat
                           /\ Cardinality(Verifiers(m)') <= Cardinality(Callers)
  <2>1. ASSUME NEW m \in Newcomers PROVE Verifiers(m)' \in SUBSET Callers
    BY DEF Verifiers
  <2> QED BY <2>1, AccessParameters, FS_Subset, FS_CardinalityType
<1>7. \A m \in Newcomers : m # n => Cardinality(Verifiers(m)') <= Cardinality(Verifiers(m))
  BY <1>5, CallersCounted, FS_Subset
<1>8. OneVerifies'
  <2> SUFFICES ASSUME NEW m \in Newcomers
      PROVE  /\ welcomed'[m] + Cardinality(Verifiers(m)') <= Cardinality(Callers)
             /\ m \notin together' => /\ \A o, p \in Verifiers(m)' : o = p
                                      /\ newcomer'[m].verified => Verifiers(m)' = {}
    BY DEF OneVerifies
  <2>1. CASE m = n
    BY <1>1, <1>4, <1>5, <1>6, <2>1, CallersCounted
  <2>2. CASE m # n
    <3>1. welcomed[m] \in Nat /\ welcomed[m] + Cardinality(Verifiers(m)) <= Cardinality(Callers)
      BY CallersCounted DEF SignupInv, SignupTypeOK, OneVerifies
    <3>2. welcomed[m] + Cardinality(Verifiers(m)') <= Cardinality(Callers)
      BY <1>6, <1>7, <2>2, <3>1, CallersCounted
    <3> QED BY <1>1, <1>5, <2>2, <3>2 DEF SignupInv, OneVerifies
  <2> QED BY <2>1, <2>2
<1> QED BY <1>2, <1>3, <1>8 DEF SignupInv

LEMMA VerifyKeeps == ASSUME SignupInv, NEW q \in Callers, Verify(q) PROVE SignupInv'
<1>1. PICK n \in Newcomers : n = verifying[q] /\ n # Never
  BY DEF SignupInv, SignupTypeOK, Verify
<1>2. /\ UNCHANGED <<owner, code, asking, shown, twice, together>>
      /\ newcomer' = [newcomer EXCEPT ![n].verified = TRUE]
      /\ welcomed' = [welcomed EXCEPT ![n] = welcomed[n] + 1]
      /\ verifying' = [verifying EXCEPT ![q] = Never]
  BY <1>1 DEF Verify, Mark, SameLinks, SignupInv, SignupTypeOK
<1>3. /\ verifying'[q] = Never /\ \A p \in Callers : p # q => verifying'[p] = verifying[p]
      /\ \A m \in Newcomers : m # n => newcomer'[m] = newcomer[m] /\ welcomed'[m] = welcomed[m]
      /\ newcomer[n] \in NewcomerRow /\ newcomer'[n] = [newcomer[n] EXCEPT !.verified = TRUE]
      /\ welcomed[n] \in Nat /\ welcomed'[n] = welcomed[n] + 1
  BY <1>2, CallersCounted DEF SignupInv, SignupTypeOK
<1>4. /\ newcomer'[n] \in NewcomerRow /\ newcomer'[n].verified = TRUE /\ newcomer'[n].at = newcomer[n].at
      /\ newcomer'[n].good = newcomer[n].good /\ newcomer'[n].by = newcomer[n].by
  BY <1>3 DEF NewcomerRow
<1>5. \A m \in Newcomers : m # Never => Verifiers(m)' = Verifiers(m) \ {q}
  BY <1>3 DEF Verifiers
<1>6. q \in Verifiers(n) /\ Verifiers(n)' = Verifiers(n) \ {q}
  BY <1>1, <1>5 DEF Verifiers
<1>7. Cardinality(Verifiers(n)') = Cardinality(Verifiers(n)) - 1
  BY <1>6, CallersCounted, FS_RemoveElement
<1>8. welcomed[n] + Cardinality(Verifiers(n)) <= Cardinality(Callers)
  BY DEF SignupInv, OneVerifies
<1>9. Cardinality(Verifiers(n)) \in Nat /\ Cardinality(Callers) \in Nat /\ Cardinality(Verifiers(n)) # 0
  BY <1>6, CallersCounted, FS_EmptySet
<1>10. SignupTypeOK'
  <2>1. welcomed[n] + 1 \in 0..Cardinality(Callers)
    BY <1>3, <1>8, <1>9
  <2> QED BY <1>2, <1>4, <2>1 DEF SignupInv, SignupTypeOK
<1>11. OneAsks'
  BY <1>2 DEF SignupInv, OneAsks
<1>12. n \notin together => welcomed[n] = 0
  <2>1. n \notin together => ~newcomer[n].verified
    BY <1>6 DEF SignupInv, OneVerifies
  <2> QED BY <1>3, <2>1 DEF SignupInv, SignupsHold
<1>13. SignupsHold'
  <2> SUFFICES ASSUME NEW m \in Newcomers
      PROVE  /\ newcomer'[m].at = "done" /\ newcomer'[m].good => newcomer'[m].by = (owner' = "there")
             /\ newcomer'[m].by => owner' = "there"
             /\ newcomer'[m].verified <=> welcomed'[m] > 0
             /\ m \notin together' => welcomed'[m] <= 1
    BY <1>2 DEF SignupInv, SignupsHold
  <2>1. CASE m = n
    BY <1>2, <1>3, <1>4, <1>12, <2>1 DEF SignupInv, SignupsHold
  <2>2. CASE m # n
    BY <1>2, <1>3, <2>2 DEF SignupInv, SignupsHold
  <2> QED BY <2>1, <2>2
<1>14. OneVerifies'
  <2> SUFFICES ASSUME NEW m \in Newcomers
      PROVE  /\ welcomed'[m] + Cardinality(Verifiers(m)') <= Cardinality(Callers)
             /\ m \notin together' => /\ \A o, p \in Verifiers(m)' : o = p
                                      /\ newcomer'[m].verified => Verifiers(m)' = {}
    BY DEF OneVerifies
  <2>1. CASE m = n
    <3>1. welcomed'[m] + Cardinality(Verifiers(m)') <= Cardinality(Callers)
      BY <1>3, <1>7, <1>8, <1>9, <2>1
    <3>2. n \notin together => Verifiers(n)' = {}
      BY <1>6 DEF SignupInv, OneVerifies
    <3> QED BY <1>2, <2>1, <3>1, <3>2
  <2>2. CASE m # n
    <3>1. m # Never
      BY AccessParameters
    <3>2. Verifiers(m)' = Verifiers(m)
      BY <1>1, <1>3, <2>2, <3>1 DEF Verifiers
    <3> QED BY <1>2, <1>3, <2>2, <3>2 DEF SignupInv, OneVerifies
  <2> QED BY <2>1, <2>2
<1> QED BY <1>10, <1>11, <1>13, <1>14 DEF SignupInv

LEMMA SignupGoesOn == SignupInv /\ (SignupNext \/ UNCHANGED signupVars) => SignupInv'
<1>1. ASSUME SignupInv, UNCHANGED signupVars PROVE SignupInv'
  <2>1. SignupTypeOK' /\ OneAsks' /\ SignupsHold'
    BY <1>1 DEF SignupInv, SignupTypeOK, OneAsks, SignupsHold, signupVars
  <2>2. OneVerifies'
    BY <1>1, VerifiersSame DEF SignupInv, signupVars
  <2> QED BY <2>1, <2>2 DEF SignupInv
<1>2. ASSUME SignupInv, SignupNext PROVE SignupInv'
  BY <1>2, DeleteOwnerKeeps, AskLinkKeeps, FlushLinkKeeps, ShowLinkKeeps, LinkFailsKeeps, VerifyKeeps,
     StartVerifyKeeps, NewcomerKeeps DEF SignupNext
<1> QED BY <1>1, <1>2

\* Each element has its place.
LEMMA AllInOrder ==
  ASSUME NEW S, IsFiniteSet(S), NEW b \in Ordering(S), NEW s, InOrder(s, S, b), NEW x \in S
  PROVE  \E i \in 1..Cardinality(S) : s[i] = x
<1>1. b[x] \in SUBSET S /\ x \notin b[x]
  BY DEF Ordering
<1>2. IsFiniteSet(b[x]) /\ b[x] \cup {x} \in SUBSET S
  BY <1>1, FS_Subset
<1>3. Cardinality(b[x] \cup {x}) = Cardinality(b[x]) + 1 /\ Cardinality(b[x]) \in Nat
  BY <1>1, <1>2, FS_AddElement, FS_CardinalityType
<1>4. Cardinality(b[x] \cup {x}) <= Cardinality(S) /\ Cardinality(S) \in Nat
  BY <1>2, FS_Subset, FS_CardinalityType
<1> DEFINE i == Cardinality(b[x]) + 1
<1>5. i \in 1..Cardinality(S)
  BY <1>3, <1>4
<1>6. s[i] \in S /\ Cardinality(b[s[i]]) = Cardinality(b[x])
  BY <1>3, <1>5 DEF InOrder
<1>7. s[i] = x
  <2>1. ASSUME s[i] \in b[x] PROVE FALSE
    BY <1>3, <1>6, <2>1, RanksDiffer
  <2>2. ASSUME x \in b[s[i]] PROVE FALSE
    BY <1>3, <1>6, <2>2, RanksDiffer
  <2> QED BY <1>6, <2>1, <2>2 DEF Ordering
<1> QED BY <1>5, <1>7

\* The first m of n places, if a page has size of them: all there are, or so many that
\* the last is before the rest.
IsPage(S, b, size, n, m, page) ==
  /\ n = Cardinality(S) /\ n \in Nat /\ m \in 0..n
  /\ page \in Seq(S) /\ Len(page) = m
  /\ \A i, j \in 1..m : i < j => page[i] \in b[page[j]]
  /\ n <= size => \A x \in S : \E i \in 1..m : page[i] = x
  /\ n > size => /\ m > 0
                 /\ \A x \in S : (\E i \in 1..m : page[i] = x) \/ page[m] \in b[x]
LEMMA FirstPlaces ==
  ASSUME NEW S, IsFiniteSet(S), NEW b \in Ordering(S), NEW s, InOrder(s, S, b),
         NEW size \in Nat \ {0}, NEW n, n = Len(s),
         NEW m, m = (IF n < size THEN n ELSE size), NEW page, page = SubSeq(s, 1, m)
  PROVE  IsPage(S, b, size, n, m, page)
<1>1. n = Cardinality(S) /\ n \in Nat
  BY InOrderIsLong
<1>2. s = [i \in 1..n |-> s[i]] /\ \A i \in 1..n : s[i] \in S
  BY <1>1 DEF InOrder
<1>3. s \in Seq(S)
  BY <1>1, <1>2
<1>4. m \in 0..n /\ m \in Nat
  BY <1>1
<1>5. page \in Seq(S) /\ Len(page) = m /\ \A i \in 1..m : page[i] = s[i]
  <2>1. \A t \in Seq(S), k \in Nat :
          k <= Len(t) => /\ SubSeq(t, 1, k) \in Seq(S) /\ Len(SubSeq(t, 1, k)) = k
                         /\ \A i \in 1..k : SubSeq(t, 1, k)[i] = t[i]
    OBVIOUS
  <2>2. m \in Nat /\ m <= Len(s)
    BY <1>1, <1>4
  <2> QED BY <1>3, <2>1, <2>2
<1>6. \A i, j \in 1..n : i < j => s[i] \in b[s[j]]
  BY <1>1, OrderIsKept
<1>7. \A x \in S : \E i \in 1..n : s[i] = x
  BY <1>1, AllInOrder
<1>8. \A i, j \in 1..m : i < j => page[i] \in b[page[j]]
  BY <1>1, <1>4, <1>5, <1>6
<1>9. n <= size => \A x \in S : \E i \in 1..m : page[i] = x
  <2>1. n <= size => m = n
    BY <1>1
  <2> QED BY <1>5, <1>7, <2>1
<1>10. n > size => /\ m > 0
                   /\ \A x \in S : (\E i \in 1..m : page[i] = x) \/ page[m] \in b[x]
  <2>1. SUFFICES ASSUME n > size PROVE /\ m > 0
                   /\ \A x \in S : (\E i \in 1..m : page[i] = x) \/ page[m] \in b[x]
    OBVIOUS
  <2>2. m = size /\ m \in 1..n
    BY <1>1, <2>1
  <2>3. ASSUME NEW x \in S PROVE (\E i \in 1..m : page[i] = x) \/ page[m] \in b[x]
    <3>1. PICK i \in 1..n : s[i] = x
      BY <1>7
    <3>2. CASE i <= m
      <4>1. i \in 1..m
        BY <1>1, <1>4, <3>2
      <4> QED BY <1>5, <3>1, <4>1
    <3>3. CASE m < i
      <4>1. m \in 1..m
        BY <2>2
      <4> QED BY <1>5, <1>6, <2>2, <3>1, <3>3, <4>1
    <3> QED BY <1>1, <2>2, <3>2, <3>3
  <2> QED BY <2>2, <2>3
<1> QED BY <1>1, <1>4, <1>5, <1>8, <1>9, <1>10 DEF IsPage

-----------------------------------------------------------------------------
(* The alert list.                                                         *)

NewerOf(S) == [a \in S |-> {c \in S : Newer(c, a)}]

LEMMA AlertsAreOrdered ==
  ASSUME alerts \in Seq(0..LastDay), NEW S \in SUBSET (1..Len(alerts))
  PROVE  IsFiniteSet(S) /\ NewerOf(S) \in Ordering(S) /\ InOrder(Sorted(S, Newer), S, NewerOf(S))
<1>1. \A x \in S : alerts[x] \in Nat /\ x \in Nat
  BY FeedParameters
<1> DEFINE b == NewerOf(S)
           s == Sorted(S, Newer)
<1>2. b \in Ordering(S)
  <2>1. /\ \A x, y \in S : x \in b[y] <=> Newer(x, y)
        /\ b \in [S -> SUBSET S]
    BY DEF NewerOf
  <2> HIDE DEF b
  <2>2. \A x, y \in S : Newer(x, y) <=> (alerts[x] > alerts[y] \/ (alerts[x] = alerts[y] /\ x > y))
    BY DEF Newer
  <2>3. \A x, y, z \in S : ~Newer(x, x) /\ (x = y \/ Newer(x, y) \/ Newer(y, x))
                           /\ (Newer(z, y) /\ Newer(y, x) => Newer(z, x))
    BY <1>1, <2>2
  <2>4. \A x, y \in S : /\ x \notin b[x]
                        /\ x = y \/ x \in b[y] \/ y \in b[x]
                        /\ y \in b[x] => b[y] \subseteq b[x]
    BY <2>1, <2>3
  <2> QED BY <2>1, <2>4 DEF Ordering
<1>3. IsFiniteSet(S)
  <2>1. Len(alerts) \in Nat
    OBVIOUS
  <2>2. IsFiniteSet(1..Len(alerts))
    BY <2>1, FS_Interval
  <2> QED BY <2>2, FS_Subset
<1>4. ASSUME NEW i \in 1..Cardinality(S) PROVE s[i] \in S /\ Cardinality(b[s[i]]) = i - 1
  <2>1. s[i] = CHOOSE x \in S : Cardinality({y \in S : Newer(y, x)}) = i - 1
    BY DEF Sorted
  <2>2. \E x \in S : Cardinality(b[x]) = i - 1
    <3> HIDE DEF b
    <3> QED BY <1>2, <1>3, RanksExist
  <2>3. \E x \in S : Cardinality({y \in S : Newer(y, x)}) = i - 1
    BY <2>2 DEF NewerOf
  <2>4. s[i] \in S /\ Cardinality({y \in S : Newer(y, s[i])}) = i - 1
    <3> HIDE DEF s, b
    <3> QED BY <2>1, <2>3
  <2> QED BY <2>4 DEF NewerOf
<1>5. s = [i \in 1..Cardinality(S) |-> s[i]]
  <2> DEFINE at(i) == CHOOSE x \in S : Cardinality({y \in S : Newer(y, x)}) = i - 1
  <2>1. s = [i \in 1..Cardinality(S) |-> at(i)]
    BY Zenon DEF Sorted
  <2> HIDE DEF s, at
  <2> QED BY <2>1
<1>6. InOrder(s, S, b)
  <2> HIDE DEF s, b
  <2> QED BY <1>4, <1>5 DEF InOrder
<1> QED BY <1>2, <1>3, <1>6

\* What a reader has had are the newest alerts, newest first; whatever he has not
\* had of those that were there when he began comes after his cursor, and that
\* is the last he had.
ListTypeOK ==
  /\ day \in 0..LastDay /\ tariff \in Histories
  /\ alerts \in Seq(0..LastDay) /\ Len(alerts) <= MaxAlerts
  /\ scan = [at |-> scan.at, cursor |-> scan.cursor, shown |-> scan.shown,
             known |-> scan.known, floor |-> scan.floor]
  /\ scan.at \in {"off", "reading", "done"}
  /\ scan.shown \in Seq(1..Len(alerts)) /\ scan.known \in 0..Len(alerts) /\ scan.floor \in 0..LastDay
Falling == \A i, j \in 1..Len(scan.shown) : i < j => Newer(scan.shown[i], scan.shown[j])
Was(a) == \E i \in 1..Len(scan.shown) : scan.shown[i] = a
CursorIsLast ==
  /\ scan.at = "off" => scan.shown = <<>> /\ scan.cursor = Unset
  /\ scan.at = "reading" =>
       /\ Len(scan.shown) > 0
       /\ scan.cursor = [seen |-> alerts[scan.shown[Len(scan.shown)]], id |-> scan.shown[Len(scan.shown)]]
       /\ \A a \in 1..scan.known : Was(a) \/ Past(a, scan.cursor)
  /\ scan.at = "done" => \A a \in 1..scan.known : alerts[a] >= scan.floor => Was(a)

ListInv == ListTypeOK /\ Falling /\ CursorIsLast

LEMMA ListBegins == FeedInit => ListInv
<1> SUFFICES ASSUME FeedInit PROVE ListInv
  OBVIOUS
<1>1. /\ day = 0 /\ alerts = <<>> /\ tariff \in Histories /\ Len(alerts) = 0
      /\ scan.at = "off" /\ scan.cursor = Unset /\ scan.shown = <<>> /\ scan.known = 0 /\ scan.floor = 0
      /\ scan = NoScan
  BY DEF FeedInit, NoScan
<1>2. ListTypeOK
  BY <1>1, FeedParameters DEF ListTypeOK, NoScan
<1>3. Falling
  BY <1>1 DEF Falling
<1>4. CursorIsLast
  BY <1>1 DEF CursorIsLast
<1> QED BY <1>2, <1>3, <1>4 DEF ListInv

LEMMA ListRests == ListInv /\ UNCHANGED listVars => ListInv'
BY DEF ListInv, ListTypeOK, Falling, CursorIsLast, Was, Past, Newer, listVars

LEMMA NextDayKeeps == ListInv /\ NextDay => ListInv'
<1> SUFFICES ASSUME ListInv, NextDay PROVE ListInv'
  OBVIOUS
<1>1. ListTypeOK'
  BY FeedParameters DEF ListInv, ListTypeOK, NextDay
<1>2. (Falling /\ CursorIsLast)'
  BY DEF ListInv, Falling, CursorIsLast, Was, Past, Newer, NextDay
<1> QED BY <1>1, <1>2 DEF ListInv

LEMMA ChangeTariffKeeps == ASSUME ListInv, NEW days \in Histories, ChangeTariff(days) PROVE ListInv'
<1>1. ListTypeOK'
  BY DEF ListInv, ListTypeOK, ChangeTariff
<1>2. (Falling /\ CursorIsLast)'
  BY DEF ListInv, Falling, CursorIsLast, Was, Past, Newer, ChangeTariff
<1> QED BY <1>1, <1>2 DEF ListInv

LEMMA StartAgainKeeps == ListInv /\ StartAgain => ListInv'
<1> SUFFICES ASSUME ListInv, StartAgain PROVE ListInv'
  OBVIOUS
<1>1. /\ UNCHANGED <<day, alerts, tariff>>
      /\ scan'.at = "off" /\ scan'.cursor = Unset /\ scan'.shown = <<>> /\ scan'.known = 0 /\ scan'.floor = 0
      /\ scan' = NoScan
  BY DEF StartAgain, NoScan
<1>2. ListTypeOK'
  BY <1>1, FeedParameters DEF ListInv, ListTypeOK, NoScan
<1>3. Falling'
  BY <1>1 DEF Falling
<1>4. CursorIsLast'
  BY <1>1 DEF CursorIsLast
<1> QED BY <1>2, <1>3, <1>4 DEF ListInv

LEMMA AddAlertKeeps == ListInv /\ AddAlert => ListInv'
<1> SUFFICES ASSUME ListInv, AddAlert PROVE ListInv'
  OBVIOUS
<1>1. /\ Len(alerts) < MaxAlerts /\ Len(alerts) \in Nat /\ alerts \in Seq(0..LastDay)
      /\ UNCHANGED <<day, tariff, scan>>
  BY DEF ListInv, ListTypeOK, AddAlert
<1>2. PICK d \in 0..day : alerts' = Append(alerts, d)
  BY DEF AddAlert
<1>3. d \in 0..LastDay
  BY FeedParameters DEF ListInv, ListTypeOK
<1>4. /\ alerts' \in Seq(0..LastDay) /\ Len(alerts') = Len(alerts) + 1
      /\ \A a \in 1..Len(alerts) : alerts'[a] = alerts[a]
  BY <1>1, <1>2, <1>3
<1>5. 1..Len(alerts) \subseteq 1..Len(alerts')
  BY <1>1, <1>4
<1>6. ListTypeOK'
  <2>1. scan.shown \in Seq(1..Len(alerts'))
    <3>1. PICK p \in Seq(1..Len(alerts)) : p = scan.shown
      BY DEF ListInv, ListTypeOK
    <3>2. Len(p) \in Nat /\ p = [i \in 1..Len(p) |-> p[i]] /\ \A i \in 1..Len(p) : p[i] \in 1..Len(alerts')
      BY <1>5
    <3>3. p \in Seq(1..Len(alerts'))
      BY <3>2
    <3> QED BY <3>1, <3>3
  <2>2. scan.known \in 0..Len(alerts') /\ Len(alerts') <= MaxAlerts
    <3>1. scan.known \in 0..Len(alerts) /\ MaxAlerts \in Nat
      BY FeedParameters DEF ListInv, ListTypeOK
    <3>2. Len(alerts) \in Nat /\ Len(alerts) < MaxAlerts /\ Len(alerts') = Len(alerts) + 1
      BY <1>1, <1>4
    <3> QED BY <3>1, <3>2
  <2> QED BY <1>1, <1>4, <2>1, <2>2 DEF ListInv, ListTypeOK
<1>7. /\ Len(scan.shown) \in Nat
      /\ \A i \in 1..Len(scan.shown) : scan.shown[i] \in 1..Len(alerts)
      /\ \A a \in 1..scan.known : a \in 1..Len(alerts)
  BY <1>1 DEF ListInv, ListTypeOK
<1>8. Falling'
  <2>1. \A i, j \in 1..Len(scan.shown) : Newer(scan.shown[i], scan.shown[j])' <=> Newer(scan.shown[i], scan.shown[j])
    BY <1>1, <1>4, <1>7 DEF Newer
  <2> QED BY <1>1, <2>1 DEF ListInv, Falling
<1>9. CursorIsLast'
  <2>1. scan.at = "reading" => Len(scan.shown) \in 1..Len(scan.shown)
    BY <1>7 DEF ListInv, CursorIsLast
  <2>2. scan.at = "reading" => alerts'[scan.shown[Len(scan.shown)]] = alerts[scan.shown[Len(scan.shown)]]
    BY <1>4, <1>7, <2>1
  <2>3. \A a \in 1..scan.known : Past(a, scan.cursor)' <=> Past(a, scan.cursor)
    BY <1>1, <1>4, <1>7 DEF Past
  <2>4. \A a : Was(a)' <=> Was(a)
    BY <1>1 DEF Was
  <2> QED BY <1>1, <1>4, <1>7, <2>2, <2>3, <2>4 DEF ListInv, CursorIsLast
<1> QED BY <1>6, <1>8, <1>9 DEF ListInv

Left == {a \in 1..Len(alerts) : alerts[a] >= Oldest /\ Past(a, scan.cursor)}
Page(page, at, cursor) ==
  scan' = [at |-> at, cursor |-> cursor, shown |-> scan.shown \o page,
           known |-> IF scan.at = "off" THEN Len(alerts) ELSE scan.known,
           floor |-> IF Oldest > 0 THEN Oldest ELSE 0]

\* A page is what is left, or its newest and there is more.
LEMMA PageIsNewest ==
  ASSUME ListInv, NEW limit \in Sizes, ListAlerts(limit)
  PROVE  \E page \in Seq(Left) :
           /\ \A i, j \in 1..Len(page) : i < j => Newer(page[i], page[j])
           /\ \/ /\ Page(page, "done", Unset)
                 /\ \A a \in Left : \E i \in 1..Len(page) : page[i] = a
              \/ /\ Len(page) > 0
                 /\ Page(page, "reading", [seen |-> alerts[page[Len(page)]], id |-> page[Len(page)]])
                 /\ \A a \in Left : (\E i \in 1..Len(page) : page[i] = a) \/ Newer(page[Len(page)], a)
<1> DEFINE size == Clamped(limit)
           S == Left
           sorted == Sorted(S, Newer)
           n == Len(sorted)
           m == IF n < size THEN n ELSE size
           page == SubSeq(sorted, 1, m)
           b == NewerOf(S)
<1>1. size \in Nat \ {0}
  BY FeedParameters DEF Clamped
<1>2. IsFiniteSet(S) /\ b \in Ordering(S) /\ InOrder(sorted, S, b)
  <2>1. alerts \in Seq(0..LastDay) /\ S \in SUBSET (1..Len(alerts))
    BY DEF ListInv, ListTypeOK, Left
  <2> HIDE DEF S
  <2> QED BY <2>1, AlertsAreOrdered
<1>3. \A x, y \in S : x \in b[y] <=> Newer(x, y)
  BY DEF NewerOf
<1>4. scan' = [at |-> IF n > size THEN "reading" ELSE "done",
                  cursor |-> IF n > size THEN [seen |-> alerts[page[Len(page)]], id |-> page[Len(page)]]
                                     ELSE Unset,
                  shown |-> scan.shown \o page,
                  known |-> IF scan.at = "off" THEN Len(alerts) ELSE scan.known,
                  floor |-> IF Oldest > 0 THEN Oldest ELSE 0]
  BY Zenon DEF ListAlerts, Left
<1>5. /\ n \in Nat /\ m \in 0..n
      /\ page \in Seq(S) /\ Len(page) = m
      /\ \A i, j \in 1..m : i < j => page[i] \in b[page[j]]
      /\ n <= size => \A x \in S : \E i \in 1..m : page[i] = x
      /\ n > size => /\ m > 0
                     /\ \A x \in S : (\E i \in 1..m : page[i] = x) \/ page[m] \in b[x]
  <2>1. n = Len(sorted) /\ m = (IF n < size THEN n ELSE size) /\ page = SubSeq(sorted, 1, m)
    OBVIOUS
  <2> HIDE DEF size, S, sorted, b, n, m, page
  <2>2. IsPage(S, b, size, n, m, page)
    BY <1>1, <1>2, <2>1, FirstPlaces
  <2> QED BY <2>2 DEF IsPage
<1> HIDE DEF size, S, sorted, n, m, page, b
<1>6. \A i \in 1..m : page[i] \in S
  BY <1>5
<1>7. \A i, j \in 1..m : i < j => Newer(page[i], page[j])
  BY <1>3, <1>5, <1>6
<1>8. CASE n <= size
  <2>1. ~(n > size)
    BY <1>1, <1>5, <1>8
  <2>2. Page(page, "done", Unset)
    BY <1>4, <2>1 DEF Page
  <2> QED BY <1>5, <1>7, <1>8, <2>2 DEF S
<1>9. CASE n > size
  <2>1. Page(page, "reading", [seen |-> alerts[page[Len(page)]], id |-> page[Len(page)]])
    BY <1>4, <1>9 DEF Page
  <2>2. m \in 1..m
    BY <1>5, <1>9
  <2>3. \A a \in S : (\E i \in 1..m : page[i] = a) \/ Newer(page[m], a)
    BY <1>3, <1>5, <1>6, <1>9, <2>2
  <2> QED BY <1>5, <1>7, <1>9, <2>1, <2>3 DEF S
<1>10. n <= size \/ n > size
  BY <1>1, <1>5
<1> QED BY Zenon, <1>8, <1>9, <1>10

LEMMA NewerIsTransitive ==
  ASSUME alerts \in Seq(0..LastDay), NEW x \in 1..Len(alerts), NEW y \in 1..Len(alerts),
         NEW z \in 1..Len(alerts), Newer(x, y), Newer(y, z)
  PROVE  Newer(x, z)
<1>1. alerts[x] \in Nat /\ alerts[y] \in Nat /\ alerts[z] \in Nat /\ x \in Nat /\ y \in Nat /\ z \in Nat
  BY FeedParameters
<1> QED BY <1>1 DEF Newer

\* What comes past the cursor of an alert is older than it.
LEMMA PastIsOlder ==
  ASSUME alerts \in Seq(0..LastDay), NEW k \in 1..Len(alerts), NEW a \in 1..Len(alerts)
  PROVE  Past(a, [seen |-> alerts[k], id |-> k]) <=> Newer(k, a)
<1>1. alerts[k] \in Nat /\ alerts[a] \in Nat /\ k \in Nat /\ a \in Nat
  BY FeedParameters
<1>2. [seen |-> alerts[k], id |-> k] # Unset
  BY <1>1, FeedParameters
<1> QED BY <1>1, <1>2 DEF Past, Newer

LEMMA ListAlertsKeeps == ASSUME ListInv, NEW limit \in Sizes, ListAlerts(limit) PROVE ListInv'
<1>1. PICK page \in Seq(Left) :
        /\ \A i, j \in 1..Len(page) : i < j => Newer(page[i], page[j])
        /\ \/ /\ Page(page, "done", Unset)
              /\ \A a \in Left : \E i \in 1..Len(page) : page[i] = a
           \/ /\ Len(page) > 0
              /\ Page(page, "reading", [seen |-> alerts[page[Len(page)]], id |-> page[Len(page)]])
              /\ \A a \in Left : (\E i \in 1..Len(page) : page[i] = a) \/ Newer(page[Len(page)], a)
  BY PageIsNewest
<1>2. /\ alerts \in Seq(0..LastDay) /\ Len(alerts) \in Nat /\ Len(alerts) <= MaxAlerts
      /\ day \in 0..LastDay /\ tariff \in Histories /\ scan.known \in 0..Len(alerts)
      /\ \A a \in 1..Len(alerts) : alerts[a] \in Nat
      /\ UNCHANGED <<day, alerts, tariff>> /\ scan.at \in {"off", "reading"}
  <2>1. /\ alerts \in Seq(0..LastDay) /\ Len(alerts) <= MaxAlerts
        /\ day \in 0..LastDay /\ tariff \in Histories /\ scan.known \in 0..Len(alerts)
    BY DEF ListInv, ListTypeOK
  <2>2. UNCHANGED <<day, alerts, tariff>> /\ scan.at \in {"off", "reading"}
    BY DEF ListInv, ListTypeOK, ListAlerts
  <2>3. Len(alerts) \in Nat /\ \A a \in 1..Len(alerts) : alerts[a] \in Nat
    BY <2>1, FeedParameters
  <2> QED BY <2>1, <2>2, <2>3
<1>3. PICK p \in Seq(1..Len(alerts)) : p = scan.shown
  BY DEF ListInv, ListTypeOK
<1>4. Oldest \in Int /\ Oldest <= LastDay
  BY <1>2, FeedParameters DEF Oldest
<1>5. PICK floor \in 0..LastDay : floor = (IF Oldest > 0 THEN Oldest ELSE 0) /\ floor >= Oldest
  BY <1>4, FeedParameters
<1>6. PICK known \in 0..Len(alerts) :
         /\ known = (IF scan.at = "off" THEN Len(alerts) ELSE scan.known)
         /\ \A a \in 1..known : (\E i \in 1..Len(p) : p[i] = a) \/ Past(a, scan.cursor)
  <2>1. CASE scan.at = "off"
    <3>1. \A a : Past(a, scan.cursor)
      BY <2>1 DEF ListInv, CursorIsLast, Past
    <3> QED BY <1>2, <2>1, <3>1
  <2>2. CASE scan.at = "reading"
    BY <1>2, <1>3, <2>2 DEF ListInv, CursorIsLast, Was
  <2> QED BY <1>2, <2>1, <2>2
<1>7. \A a \in Left : a \in 1..Len(alerts) /\ Past(a, scan.cursor) /\ alerts[a] >= Oldest
  BY DEF Left
<1>8. /\ Len(p) \in Nat /\ Len(page) \in Nat
      /\ \A i \in 1..Len(p) : p[i] \in 1..Len(alerts)
      /\ \A i \in 1..Len(page) : page[i] \in Left /\ page[i] \in 1..Len(alerts)
  BY <1>7
<1>9. PICK q : q = p \o page
  OBVIOUS
<1>10. /\ q \in Seq(1..Len(alerts)) /\ Len(q) = Len(p) + Len(page)
       /\ \A i \in 1..Len(p) : q[i] = p[i]
       /\ \A i \in 1..Len(page) : q[Len(p) + i] = page[i]
  <2>1. page \in Seq(1..Len(alerts))
    <3>1. PICK N : N = 1..Len(alerts)
      OBVIOUS
    <3>2. Len(page) \in Nat /\ page = [i \in 1..Len(page) |-> page[i]]
      OBVIOUS
    <3>3. \A i \in 1..Len(page) : page[i] \in N
      BY <1>8, <3>1
    <3>4. page \in Seq(N)
      BY <3>2, <3>3
    <3> QED BY <3>1, <3>4
  <2> QED BY <1>9, <2>1
<1>11. \A i \in 1..Len(q) : i \in 1..Len(p) \/ (i - Len(p) \in 1..Len(page) /\ i = Len(p) + (i - Len(p)))
  BY <1>8, <1>10
<1>12. ASSUME NEW i \in 1..Len(p), NEW a \in Left PROVE Newer(p[i], a)
  <2>1. scan.at = "reading" /\ Len(p) \in 1..Len(p)
    BY <1>2, <1>3, <1>8, <1>12 DEF ListInv, CursorIsLast
  <2>2. PICK k \in 1..Len(alerts) : k = p[Len(p)] /\ scan.cursor = [seen |-> alerts[k], id |-> k]
    BY <1>3, <1>8, <2>1 DEF ListInv, CursorIsLast
  <2>3. Newer(k, a)
    BY <1>2, <1>7, <2>2, PastIsOlder
  <2>4. i = Len(p) \/ Newer(p[i], k)
    <3>1. \A h, j \in 1..Len(p) : h < j => Newer(p[h], p[j])
      BY <1>3 DEF ListInv, Falling
    <3>2. i = Len(p) \/ i < Len(p)
      BY <1>8
    <3> QED BY <2>1, <2>2, <3>1, <3>2
  <2> QED BY <1>2, <1>7, <1>8, <2>2, <2>3, <2>4, NewerIsTransitive
<1>13. \A i, j \in 1..Len(q) : i < j => Newer(q[i], q[j])
  <2> TAKE i, j \in 1..Len(q)
  <2> HAVE i < j
  <2>1. CASE j \in 1..Len(p)
    <3>1. i \in 1..Len(p)
      BY <1>8, <2>1
    <3> QED BY <1>3, <1>10, <2>1, <3>1 DEF ListInv, Falling
  <2>2. CASE j - Len(p) \in 1..Len(page)
    <3>1. PICK l \in 1..Len(page) : j = Len(p) + l /\ q[j] = page[l]
      <4>1. PICK l \in 1..Len(page) : l = j - Len(p)
        BY <2>2
      <4>2. j \in Int /\ l \in Int /\ Len(p) \in Int
        BY <1>8, <1>10
      <4>3. j = Len(p) + l
        BY <4>1, <4>2
      <4> QED BY <1>10, <4>3
    <3>2. CASE i \in 1..Len(p)
      BY <1>8, <1>10, <1>12, <3>1, <3>2
    <3>3. CASE i - Len(p) \in 1..Len(page)
      <4>1. PICK h \in 1..Len(page) : i = Len(p) + h /\ q[i] = page[h]
        <5>1. PICK h \in 1..Len(page) : h = i - Len(p)
          BY <3>3
        <5>2. i \in Int /\ h \in Int /\ Len(p) \in Int
          BY <1>8, <1>10
        <5>3. i = Len(p) + h
          BY <5>1, <5>2
        <5> QED BY <1>10, <5>3
      <4>2. h < l
        BY <1>8, <3>1, <4>1
      <4> QED BY <1>1, <3>1, <4>1, <4>2
    <3> QED BY <1>11, <3>2, <3>3
  <2> QED BY <1>11, <2>1, <2>2
<1>14. \A a : (\E i \in 1..Len(p) : p[i] = a) \/ (\E i \in 1..Len(page) : page[i] = a)
                => \E i \in 1..Len(q) : q[i] = a
  <2>1. \A i \in 1..Len(p) : i \in 1..Len(q)
    BY <1>8, <1>10
  <2>2. \A i \in 1..Len(page) : Len(p) + i \in 1..Len(q)
    BY <1>8, <1>10
  <2> QED BY <1>10, <2>1, <2>2
<1>15. CASE /\ Page(page, "done", Unset)
            /\ \A a \in Left : \E i \in 1..Len(page) : page[i] = a
  <2>1. scan' = [at |-> "done", cursor |-> Unset, shown |-> q, known |-> known, floor |-> floor]
    BY <1>3, <1>5, <1>6, <1>9, <1>15 DEF Page
  <2>2. scan'.at = "done" /\ scan'.shown = q /\ scan'.known = known /\ scan'.floor = floor /\ scan'.cursor = Unset
    BY <2>1
  <2>3. ListTypeOK'
    BY <1>2, <1>10, <2>1, <2>2 DEF ListTypeOK
  <2>4. Falling'
    BY <1>2, <1>13, <2>2 DEF Falling, Newer
  <2>5. \A a \in 1..known : alerts[a] >= floor => \E i \in 1..Len(q) : q[i] = a
    <3> TAKE a \in 1..known
    <3> HAVE alerts[a] >= floor
    <3>1. a \in 1..Len(alerts)
      BY <1>2
    <3>2. alerts[a] >= Oldest
      BY <1>2, <1>4, <1>5, <3>1
    <3> QED BY <1>6, <1>14, <1>15, <3>1, <3>2 DEF Left
  <2>6. CursorIsLast'
    BY <1>2, <2>2, <2>5 DEF CursorIsLast, Was
  <2> QED BY <2>3, <2>4, <2>6 DEF ListInv
<1>16. CASE /\ Len(page) > 0
            /\ Page(page, "reading", [seen |-> alerts[page[Len(page)]], id |-> page[Len(page)]])
            /\ \A a \in Left : (\E i \in 1..Len(page) : page[i] = a) \/ Newer(page[Len(page)], a)
  <2>1. PICK k \in Left : k = page[Len(page)] /\ k = q[Len(q)] /\ k \in 1..Len(alerts)
    BY <1>8, <1>10, <1>16
  <2>2. scan' = [at |-> "reading", cursor |-> [seen |-> alerts[k], id |-> k], shown |-> q,
                 known |-> known, floor |-> floor]
    BY <1>3, <1>5, <1>6, <1>9, <1>16, <2>1 DEF Page
  <2>3. /\ scan'.at = "reading" /\ scan'.shown = q /\ scan'.known = known /\ scan'.floor = floor
        /\ scan'.cursor = [seen |-> alerts[k], id |-> k]
    BY <2>2
  <2>4. ListTypeOK'
    BY <1>2, <1>10, <2>2, <2>3 DEF ListTypeOK
  <2>5. Falling'
    BY <1>2, <1>13, <2>3 DEF Falling, Newer
  <2>6. \A a \in 1..known : (\E i \in 1..Len(q) : q[i] = a) \/ Newer(k, a)
    <3> TAKE a \in 1..known
    <3>1. a \in 1..Len(alerts)
      BY <1>2
    <3>2. CASE Past(a, scan.cursor) /\ alerts[a] >= Oldest
      BY <1>14, <1>16, <2>1, <3>1, <3>2 DEF Left
    <3>3. CASE alerts[a] < Oldest
      <4>1. alerts[k] >= Oldest
        BY <1>7, <2>1
      <4> QED BY <1>2, <1>4, <2>1, <3>1, <3>3, <4>1 DEF Newer
    <3>4. alerts[a] >= Oldest \/ alerts[a] < Oldest
      BY <1>2, <1>4, <3>1
    <3> QED BY <1>6, <1>14, <3>2, <3>3, <3>4
  <2>7. \A a \in 1..known : (\E i \in 1..Len(q) : q[i] = a) \/ Past(a, [seen |-> alerts[k], id |-> k])
    <3>1. \A a \in 1..known : a \in 1..Len(alerts)
      BY <1>2
    <3> QED BY <1>2, <2>1, <2>6, <3>1, PastIsOlder
  <2>8. Len(q) > 0
    BY <1>8, <1>10, <1>16
  <2>10. CursorIsLast'
    BY <1>2, <2>1, <2>3, <2>7, <2>8 DEF CursorIsLast, Was, Past
  <2> QED BY <2>4, <2>5, <2>10 DEF ListInv
<1> QED BY <1>1, <1>15, <1>16

LEMMA ListGoesOn == ListInv /\ (ListNext \/ UNCHANGED listVars) => ListInv'
BY ListRests, NextDayKeeps, AddAlertKeeps, StartAgainKeeps, ChangeTariffKeeps, ListAlertsKeeps DEF ListNext

LEMMA ListIsWhole == ListInv => FeedIsWhole
BY DEF ListInv, Falling, CursorIsLast, Was, FeedIsWhole

-----------------------------------------------------------------------------
(* The live signals.                                                       *)

\* While the request runs, a cluster that had a score when it came keeps one that
\* is recent enough; the scores once read, each such cluster has its own.
DeskTypeOK ==
  /\ instant \in 0..LastInstant
  /\ scored \in [Tales -> ScoreRow \cup {Unset}]
  /\ alerted \in [Tales -> 0..LastInstant \cup {Unset}]
  /\ desk = [at |-> desk.at, start |-> desk.start, of |-> desk.of, had |-> desk.had,
             got |-> desk.got, rows |-> desk.rows]
  /\ desk.at \in {"off", "scores", "alerts", "shown"} /\ desk.start \in 0..instant
  /\ desk.of \in [Streams -> SUBSET Tales] /\ desk.had \in SUBSET Tales
  /\ desk.got \in [Tales -> ScoreRow \cup {Unset}]
StaysScored ==
  /\ desk.at = "scores" =>
       \A c \in desk.had : scored[c] # Unset /\ scored[c].at >= WindowStart(desk.start)
  /\ desk.at = "alerts" =>
       \A ch \in Streams : \A c \in desk.of[ch] \cap desk.had : desk.got[c] # Unset

DeskInv == DeskTypeOK /\ StaysScored /\ DeskAgrees

LEMMA DeskBegins == FeedInit => DeskInv
<1> SUFFICES ASSUME FeedInit PROVE DeskInv
  OBVIOUS
<1>1. /\ desk = NoDesk /\ desk.at = "off" /\ desk.start = 0 /\ desk.of = [ch \in Streams |-> {}]
      /\ desk.had = {} /\ desk.got = [c \in Tales |-> Unset]
  BY DEF FeedInit, NoDesk
<1>2. DeskTypeOK
  BY <1>1, FeedParameters DEF FeedInit, DeskTypeOK, NoDesk
<1>3. StaysScored /\ DeskAgrees
  BY <1>1 DEF StaysScored, DeskAgrees
<1> QED BY <1>2, <1>3 DEF DeskInv

LEMMA ScoreRowIs ==
  ASSUME NEW r \in ScoreRow
  PROVE  r # Unset /\ r.at \in Nat /\ r.value \in Nat /\ r.value \in Values
<1>1. r.at \in Nat /\ r.value \in Nat /\ r.value \in Values /\ r = [at |-> r.at, value |-> r.value]
  <2>1. r = [at |-> r.at, value |-> r.value] /\ r.at \in 0..LastInstant /\ r.value \in Values
    BY DEF ScoreRow
  <2> QED BY <2>1, FeedParameters
<1>2. r \in [at : Nat, value : Nat]
  BY <1>1
<1> QED BY <1>1, <1>2, FeedParameters

LEMMA DeskRests == DeskInv /\ UNCHANGED deskVars => DeskInv'
BY DEF DeskInv, DeskTypeOK, StaysScored, DeskAgrees, deskVars

LEMMA InstantKeeps == DeskInv /\ InstantPasses => DeskInv'
<1> SUFFICES ASSUME DeskInv, InstantPasses PROVE DeskInv'
  OBVIOUS
<1>1. DeskTypeOK'
  BY FeedParameters DEF DeskInv, DeskTypeOK, InstantPasses
<1>2. (StaysScored /\ DeskAgrees)'
  BY DEF DeskInv, StaysScored, DeskAgrees, InstantPasses
<1> QED BY <1>1, <1>2 DEF DeskInv

LEMMA HearKeeps == ASSUME DeskInv, NEW c \in Tales, NEW ch \in Streams, Hear(c, ch) PROVE DeskInv'
BY DEF DeskInv, DeskTypeOK, StaysScored, DeskAgrees, Hear

LEMMA AlertOnKeeps == ASSUME DeskInv, NEW c \in Tales, AlertOn(c) PROVE DeskInv'
<1>1. DeskTypeOK'
  BY DEF DeskInv, DeskTypeOK, AlertOn
<1>2. (StaysScored /\ DeskAgrees)'
  BY DEF DeskInv, StaysScored, DeskAgrees, AlertOn
<1> QED BY <1>1, <1>2 DEF DeskInv

LEMMA RescoreKeeps == ASSUME DeskInv, NEW c \in Tales, NEW v \in Values, Rescore(c, v) PROVE DeskInv'
<1>1. PICK r : r = [at |-> instant, value |-> v]
  OBVIOUS
<1>2. r \in ScoreRow /\ r.at = instant
  BY <1>1 DEF DeskInv, DeskTypeOK, ScoreRow
<1>3. scored' = [scored EXCEPT ![c] = r] /\ UNCHANGED <<instant, heard, alerted, desk>>
  BY <1>1 DEF Rescore
<1>4. DeskTypeOK'
  BY <1>2, <1>3 DEF DeskInv, DeskTypeOK
<1>5. r # Unset /\ r.at >= WindowStart(desk.start)
  <2>1. desk.start \in Nat /\ instant \in Nat /\ Desked \in Nat /\ desk.start <= instant
    BY FeedParameters DEF DeskInv, DeskTypeOK
  <2> QED BY <1>2, <2>1, ScoreRowIs DEF WindowStart
<1>6. StaysScored'
  <2>1. \A d \in desk.had : scored'[d] = scored[d] \/ scored'[d] = r
    BY <1>3 DEF DeskInv, DeskTypeOK
  <2> QED BY <1>3, <1>5, <2>1 DEF DeskInv, StaysScored, WindowStart
<1>7. DeskAgrees'
  BY <1>3 DEF DeskInv, DeskAgrees
<1> QED BY <1>4, <1>6, <1>7 DEF DeskInv

LEMMA DeskChannelsKeeps == DeskInv /\ DeskChannels => DeskInv'
<1> SUFFICES ASSUME DeskInv, DeskChannels PROVE DeskInv'
  OBVIOUS
<1>1. PICK of, had : /\ desk' = [NoDesk EXCEPT !.at = "scores", !.start = instant, !.of = of, !.had = had]
                     /\ of = [ch \in Streams |-> OnChannel(ch, WindowStart(instant))]
                     /\ had = ScoredSince(WindowStart(instant))
                     /\ UNCHANGED <<instant, heard, scored, alerted>>
  BY DEF DeskChannels
<1>2. of \in [Streams -> SUBSET Tales] /\ had \in SUBSET Tales
  BY <1>1 DEF OnChannel, ScoredSince
<1>3. desk' = [at |-> "scores", start |-> instant, of |-> of, had |-> had,
               got |-> [c \in Tales |-> Unset], rows |-> [ch \in Streams |-> NoSignal]]
  BY <1>1 DEF NoDesk
<1>4. /\ desk'.at = "scores" /\ desk'.start = instant /\ desk'.of = of /\ desk'.had = had
      /\ desk'.got = [c \in Tales |-> Unset]
  BY <1>3
<1>5. DeskTypeOK'
  <2>1. instant \in 0..instant /\ instant \in 0..LastInstant
    BY FeedParameters DEF DeskInv, DeskTypeOK
  <2> QED BY <1>1, <1>2, <1>3, <1>4, <2>1 DEF DeskInv, DeskTypeOK
<1>6. StaysScored'
  <2>1. \A c \in had : scored[c] # Unset /\ scored[c].at >= WindowStart(instant)
    BY <1>1 DEF ScoredSince
  <2> QED BY <1>1, <1>4, <2>1 DEF StaysScored, WindowStart
<1>7. DeskAgrees'
  BY <1>4 DEF DeskAgrees
<1> QED BY <1>5, <1>6, <1>7 DEF DeskInv

LEMMA DeskScoresKeeps == DeskInv /\ DeskScores => DeskInv'
<1> SUFFICES ASSUME DeskInv, DeskScores PROVE DeskInv'
  OBVIOUS
<1>1. PICK g, found :
        /\ desk' = [desk EXCEPT !.at = "alerts", !.got = g]
        /\ g = [c \in Tales |-> IF c \in found THEN scored[c] ELSE Unset]
        /\ found = (UNION {desk.of[ch] : ch \in Streams}) \cap ScoredSince(WindowStart(desk.start))
        /\ UNCHANGED <<instant, heard, scored, alerted>> /\ desk.at = "scores"
  <2> DEFINE asked == UNION {desk.of[ch] : ch \in Streams}
             all == asked \cap ScoredSince(WindowStart(desk.start))
             h == [c \in Tales |-> IF c \in all THEN scored[c] ELSE Unset]
  <2>1. /\ desk' = [desk EXCEPT !.at = "alerts", !.got = h]
        /\ UNCHANGED <<instant, heard, scored, alerted>> /\ desk.at = "scores"
    BY DEF DeskScores
  <2>2. h = [c \in Tales |-> IF c \in all THEN scored[c] ELSE Unset]
    OBVIOUS
  <2>3. all = (UNION {desk.of[ch] : ch \in Streams}) \cap ScoredSince(WindowStart(desk.start))
    OBVIOUS
  <2> HIDE DEF asked, all, h
  <2> QED BY Zenon, <2>1, <2>2, <2>3
<1>2. g \in [Tales -> ScoreRow \cup {Unset}]
  BY <1>1 DEF DeskInv, DeskTypeOK
<1>3. desk' = [at |-> "alerts", start |-> desk.start, of |-> desk.of, had |-> desk.had,
               got |-> g, rows |-> desk.rows]
  BY <1>1 DEF DeskInv, DeskTypeOK
<1>4. /\ desk'.at = "alerts" /\ desk'.start = desk.start /\ desk'.of = desk.of /\ desk'.had = desk.had
      /\ desk'.got = g
  BY <1>3
<1>5. DeskTypeOK'
  BY <1>1, <1>2, <1>3, <1>4 DEF DeskInv, DeskTypeOK
<1>6. \A ch \in Streams : \A c \in desk.of[ch] \cap desk.had : g[c] # Unset
  <2> TAKE ch \in Streams
  <2> TAKE c \in desk.of[ch] \cap desk.had
  <2>1. c \in Tales /\ scored[c] # Unset /\ scored[c].at >= WindowStart(desk.start)
    BY <1>1 DEF DeskInv, DeskTypeOK, StaysScored
  <2>2. c \in UNION {desk.of[s] : s \in Streams}
    OBVIOUS
  <2>3. c \in found
    <3>1. c \in ScoredSince(WindowStart(desk.start))
      BY <2>1 DEF ScoredSince
    <3> QED BY Zenon, <1>1, <2>2, <3>1
  <2> QED BY <1>1, <2>1, <2>3
<1>7. StaysScored' /\ DeskAgrees'
  BY <1>4, <1>6 DEF StaysScored, DeskAgrees
<1> QED BY <1>5, <1>7 DEF DeskInv

\* The signal of a channel: its score is of the last hour that has one, and not
\* above the highest of that hour.
LEMMA SignalIsFair ==
  ASSUME DeskTypeOK, NEW cs \in SUBSET Tales, NEW r \in Signals(cs)
  PROVE  /\ r.line = Sparkline(cs) /\ r.alert = LastAlert(cs)
         /\ r.score = Unset <=> Scored(cs) = {}
         /\ DOMAIN r.line = {} <=> Scored(cs) = {}
         /\ DOMAIN r.line # {} => r.score <= r.line[Max(DOMAIN r.line)]
<1>1. /\ r.line = Sparkline(cs) /\ r.alert = LastAlert(cs)
      /\ r.score \in (IF Scored(cs) = {} THEN {Unset} ELSE {desk.got[c].value : c \in Latest(cs)})
  BY DEF Signals
<1>2. \A c \in Scored(cs) : c \in Tales /\ desk.got[c] \in ScoreRow
  BY DEF Scored, DeskTypeOK
<1>3. \A c \in Scored(cs) : desk.got[c].at \in Nat /\ desk.got[c].value \in Nat /\ desk.got[c].value # Unset
  BY <1>2, ScoreRowIs, FeedParameters
<1>4. r.score = Unset <=> Scored(cs) = {}
  BY <1>1, <1>3 DEF Latest
<1>5. DOMAIN r.line = {HourOf(c) : c \in Scored(cs)}
  BY <1>1 DEF Sparkline
<1>6. DOMAIN r.line = {} <=> Scored(cs) = {}
  BY <1>5
<1>7. ASSUME Scored(cs) # {} PROVE r.score <= r.line[Max(DOMAIN r.line)]
  <2>1. PICK c \in Latest(cs) : r.score = desk.got[c].value
    BY <1>1, <1>7
  <2>2. c \in Scored(cs) /\ \A d \in Scored(cs) : desk.got[d].at <= desk.got[c].at
    BY <2>1 DEF Latest
  <2>3. \A d \in Scored(cs) : HourOf(d) \in Nat /\ HourOf(d) <= HourOf(c)
    <3>1. \A a, b \in Nat, k \in Nat \ {0} : a <= b => a \div k <= b \div k /\ a \div k \in Nat
      OBVIOUS
    <3> QED BY <1>3, <2>2, <3>1, FeedParameters DEF HourOf
  <2>4. Max(DOMAIN r.line) = HourOf(c)
    <3>1. HourOf(c) \in DOMAIN r.line /\ \A h \in DOMAIN r.line : h \in Nat /\ HourOf(c) >= h
      BY <1>5, <2>2, <2>3
    <3>2. Max(DOMAIN r.line) \in DOMAIN r.line /\ \A h \in DOMAIN r.line : Max(DOMAIN r.line) >= h
      BY <3>1 DEF Max
    <3> QED BY <3>1, <3>2
  <2>5. PICK T : T = {desk.got[e].value : e \in {d \in Scored(cs) : HourOf(d) = HourOf(c)}}
    OBVIOUS
  <2>6. r.line[HourOf(c)] = Max(T)
    BY <1>1, <2>2, <2>5 DEF Sparkline
  <2>7. T \in SUBSET Int /\ desk.got[c].value \in T
    BY <1>3, <2>2, <2>5
  <2>8. IsFiniteSet(T)
    <3> DEFINE E == {d \in Scored(cs) : HourOf(d) = HourOf(c)}
               f == [e \in E |-> desk.got[e].value]
    <3>1. IsFiniteSet(E)
      <4>1. E \in SUBSET Tales
        BY <1>2
      <4> QED BY <4>1, FeedParameters, FS_Subset
    <3>2. T = {f[e] : e \in E} /\ f = [e \in E |-> f[e]]
      BY <2>5
    <3> HIDE DEF E, f
    <3> QED BY <3>1, <3>2, FiniteImage
  <2>9. \A t \in T : Max(T) >= t
    <3>1. \E m \in T : \A t \in T : t <= m
      BY <2>7, <2>8, ExtremesExist
    <3>2. \E m \in T : \A t \in T : m >= t
      BY <2>7, <3>1
    <3> QED BY <3>2 DEF Max
  <2>10. Max(T) \in Int
    <3>1. \E m \in T : \A t \in T : t <= m
      BY <2>7, <2>8, ExtremesExist
    <3>2. \E m \in T : \A t \in T : m >= t
      BY <2>7, <3>1
    <3> QED BY <2>7, <3>2 DEF Max
  <2> QED BY <1>3, <2>1, <2>2, <2>4, <2>6, <2>7, <2>9, <2>10
<1> QED BY <1>1, <1>4, <1>6, <1>7

LEMMA DeskAlertsKeeps == DeskInv /\ DeskAlerts => DeskInv'
<1> SUFFICES ASSUME DeskInv, DeskAlerts PROVE DeskInv'
  OBVIOUS
<1>1. PICK rs : /\ \A ch \in Streams : rs[ch] \in Signals(desk.of[ch])
                /\ desk' = [desk EXCEPT !.at = "shown", !.rows = rs]
                /\ desk.at = "alerts"
                /\ UNCHANGED <<instant, heard, scored, alerted>>
  BY DEF DeskAlerts
<1>2. desk' = [at |-> "shown", start |-> desk.start, of |-> desk.of, had |-> desk.had,
               got |-> desk.got, rows |-> rs]
  <2>1. desk = [at |-> desk.at, start |-> desk.start, of |-> desk.of, had |-> desk.had,
                got |-> desk.got, rows |-> desk.rows]
    BY DEF DeskInv, DeskTypeOK
  <2>2. desk' = [desk EXCEPT !.at = "shown", !.rows = rs]
    BY <1>1
  <2> QED BY <2>1, <2>2
<1>3. /\ desk'.at = "shown" /\ desk'.start = desk.start /\ desk'.of = desk.of /\ desk'.had = desk.had
      /\ desk'.got = desk.got /\ desk'.rows = rs
  BY <1>2
<1>4. DeskTypeOK'
  <2>1. UNCHANGED <<instant, scored, alerted>>
    BY <1>1
  <2> QED BY <1>2, <1>3, <2>1 DEF DeskInv, DeskTypeOK
<1>5. StaysScored'
  BY <1>3 DEF StaysScored
<1>6. ASSUME NEW ch \in Streams
      PROVE  LET r == rs[ch]
             IN  /\ desk.of[ch] \cap desk.had # {} => r.score # Unset
                 /\ r.score = Unset <=> DOMAIN r.line = {}
                 /\ DOMAIN r.line # {} => r.score <= r.line[Max(DOMAIN r.line)]
                 /\ r.line = Sparkline(desk.of[ch]) /\ r.alert = LastAlert(desk.of[ch])
  <2>1. desk.of[ch] \in SUBSET Tales /\ rs[ch] \in Signals(desk.of[ch]) /\ DeskTypeOK
    BY <1>1 DEF DeskInv, DeskTypeOK
  <2>2. /\ rs[ch].line = Sparkline(desk.of[ch]) /\ rs[ch].alert = LastAlert(desk.of[ch])
        /\ rs[ch].score = Unset <=> Scored(desk.of[ch]) = {}
        /\ DOMAIN rs[ch].line = {} <=> Scored(desk.of[ch]) = {}
        /\ DOMAIN rs[ch].line # {} => rs[ch].score <= rs[ch].line[Max(DOMAIN rs[ch].line)]
    BY <2>1, SignalIsFair
  <2>3. desk.of[ch] \cap desk.had # {} => Scored(desk.of[ch]) # {}
    BY <1>1 DEF DeskInv, StaysScored, Scored
  <2> QED BY <2>2, <2>3
<1>7. DeskAgrees'
  BY <1>3, <1>6 DEF DeskAgrees
<1> QED BY <1>4, <1>5, <1>7 DEF DeskInv

LEMMA DeskGoesOn == DeskInv /\ (DeskNext \/ UNCHANGED deskVars) => DeskInv'
BY DeskRests, InstantKeeps, HearKeeps, AlertOnKeeps, RescoreKeeps, DeskChannelsKeeps,
   DeskScoresKeeps, DeskAlertsKeeps DEF DeskNext

-----------------------------------------------------------------------------
(* The business figures.                                                   *)

Ended == {u \in Payers : ends[u] # 0}

\* A row's count of payers is never more than those who paid first on its day, and all
\* of them if the day was over, unless one of them came late; and what it counts as
\* churned and active are different users.
PaidIs(d, n) == d \notin overdue => n = Cardinality(PaidOn(d))
PaidAtLeast(d, n) == n <= Cardinality(PaidOn(d))
FewerThanEnded(d, n) == d \notin straddled => n <= Cardinality(Ended)
RowWell(d, r) ==
  /\ r.paid \in Nat /\ r.churned \in Nat /\ r.active \in Nat
  /\ PaidAtLeast(d, r.paid)
  /\ r.over => d < date /\ PaidIs(d, r.paid)
  /\ FewerThanEnded(d, r.churned + r.active)

JobWell(r) ==
  /\ r = [at |-> r.at, on |-> r.on, day |-> r.day, paid |-> r.paid, churned |-> r.churned,
          active |-> r.active, wrote |-> r.wrote]
  /\ r.on \in 1..date /\ r.day \in 0..LastDate
  /\ r.paid \in Nat /\ r.churned \in Nat /\ r.active \in Nat
  /\ r.at \in {"churned", "active", "upsert"} =>
       PaidAtLeast(r.day, r.paid) /\ (r.day < r.on => PaidIs(r.day, r.paid))
  /\ r.at = "active" => (r.day \notin straddled => r.churned = Cardinality(ChurnedOn(r.day)))
  /\ r.at = "upsert" => FewerThanEnded(r.day, r.churned + r.active)
  /\ r.wrote = [d \in 0..LastDate |-> r.wrote[d]]
  /\ \A d \in 0..LastDate : r.wrote[d] # NoFigure => RowWell(d, r.wrote[d])

FigureTypeOK ==
  /\ date \in 1..LastDate
  /\ paying \subseteq Payers \X (1..date) /\ paid \subseteq Payers \X (1..date)
  /\ ends \in [Payers -> Nat]
  /\ figure = [d \in 0..LastDate |-> figure[d]]
  /\ job = [j \in Jobs |-> job[j]]

\* The payments of one user come one after the other, on days of their own.
InTurn ==
  /\ \A p \in paying, q \in paid : p[1] = q[1] => q[2] < p[2]
  /\ \A p, q \in paying : p[1] = q[1] => p = q

FigureInv ==
  /\ FigureTypeOK /\ InTurn
  /\ \A j \in Jobs : JobWell(job[j])
  /\ \A d \in 0..LastDate : figure[d] # NoFigure => RowWell(d, figure[d])

LEMMA EmptyIsWell ==
  ASSUME FigureTypeOK, NEW on \in 1..date, NEW d \in 0..LastDate,
         NEW at \in {"off", "paid", "over"},
         NEW r, r = [at |-> at, on |-> on, day |-> d, paid |-> 0, churned |-> 0, active |-> 0,
                     wrote |-> NoFigures]
  PROVE  JobWell(r)
<1>1. /\ r.at = at /\ r.on = on /\ r.day = d /\ r.paid = 0 /\ r.churned = 0 /\ r.active = 0
      /\ r.wrote = NoFigures
  OBVIOUS
<1>2. \A e \in 0..LastDate : NoFigures[e] = NoFigure
  BY DEF NoFigures
<1>3. NoFigures = [e \in 0..LastDate |-> NoFigures[e]]
  BY <1>2 DEF NoFigures
<1> QED BY <1>1, <1>2, <1>3 DEF JobWell

LEMMA FiguresBegin == FiguresInit => FigureInv
<1> SUFFICES ASSUME FiguresInit PROVE FigureInv
  OBVIOUS
<1>1. FigureTypeOK
  BY FiguresParameters DEF FiguresInit, FigureTypeOK, NoFigures
<1>2. ASSUME NEW j \in Jobs PROVE JobWell(job[j])
  <2>1. job[j] = [at |-> "off", on |-> 1, day |-> 0, paid |-> 0, churned |-> 0, active |-> 0,
                  wrote |-> NoFigures]
    BY DEF FiguresInit, NoJob
  <2>2. 1 \in 1..date /\ 0 \in 0..LastDate /\ "off" \in {"off", "paid", "over"}
    BY <1>1, FiguresParameters DEF FigureTypeOK
  <2> QED BY <1>1, <2>1, <2>2, EmptyIsWell
<1>3. \A d \in 0..LastDate : figure[d] = NoFigure
  BY DEF FiguresInit, NoFigures
<1>4. InTurn
  BY DEF FiguresInit, InTurn
<1> QED BY <1>1, <1>2, <1>3, <1>4 DEF FigureInv

\* What is well stays so while only the date moves, or nothing that it speaks of.
LEMMA RowStays ==
  ASSUME FigureTypeOK, date' \in Nat, date <= date', UNCHANGED <<paid, ends, overdue, straddled>>,
         NEW d \in 0..LastDate, NEW r, RowWell(d, r)
  PROVE  RowWell(d, r)'
<1>1. r.over => d < date'
  BY DEF RowWell, FigureTypeOK
<1> QED BY <1>1 DEF RowWell, PaidIs, PaidAtLeast, PaidOn, DaysPaid, FirstPaid, FewerThanEnded, Ended

LEMMA JobStays ==
  ASSUME FigureTypeOK, date' \in Nat, date <= date', UNCHANGED <<paid, ends, overdue, straddled>>,
         NEW r, JobWell(r)
  PROVE  JobWell(r)'
<1>1. \A d \in 0..LastDate : r.wrote[d] # NoFigure => RowWell(d, r.wrote[d])'
  BY RowStays DEF JobWell
<1>2. r.on \in 1..date'
  BY DEF JobWell, FigureTypeOK
<1> QED BY <1>1, <1>2 DEF JobWell, PaidIs, PaidAtLeast, PaidOn, DaysPaid, FirstPaid, FewerThanEnded, Ended,
                        ChurnedOn

LEMMA NextDateKeeps == FigureInv /\ NextDate => FigureInv'
<1> SUFFICES ASSUME FigureInv, NextDate PROVE FigureInv'
  OBVIOUS
<1>1. /\ FigureTypeOK /\ date' \in 1..LastDate /\ date' \in Nat /\ date <= date'
      /\ UNCHANGED <<paying, paid, ends, figure, job, overdue, straddled>>
  BY FiguresParameters DEF FigureInv, FigureTypeOK, NextDate
<1>2. 1..date \subseteq 1..date'
  BY <1>1 DEF FigureTypeOK
<1>3. FigureTypeOK'
  <2>1. Payers \X (1..date) \subseteq Payers \X (1..date')
    BY <1>2
  <2> QED BY <1>1, <2>1 DEF FigureTypeOK
<1>4. \A j \in Jobs : JobWell(job[j])'
  BY <1>1, JobStays DEF FigureInv
<1>5. \A d \in 0..LastDate : figure[d] # NoFigure => RowWell(d, figure[d])'
  BY <1>1, RowStays DEF FigureInv
<1>6. InTurn'
  BY <1>1 DEF FigureInv, InTurn
<1> QED BY <1>1, <1>3, <1>4, <1>5, <1>6 DEF FigureInv

\* A job's step, or a payment that opens.
LEMMA JobMoves ==
  ASSUME FigureInv, UNCHANGED <<date, paid, ends, overdue, straddled>>,
         FigureTypeOK', InTurn',
         \A j \in Jobs : job'[j] = job[j] \/ JobWell(job'[j]),
         \A d \in 0..LastDate : figure'[d] = figure[d] \/ RowWell(d, figure'[d])
  PROVE  FigureInv'
<1>1. FigureTypeOK /\ date' \in Nat /\ date <= date'
  BY DEF FigureInv, FigureTypeOK
<1>2. ASSUME NEW j \in Jobs PROVE JobWell(job[j])'
  <2>1. JobWell(job[j]) /\ (job'[j] = job[j] \/ JobWell(job'[j]))
    BY DEF FigureInv
  <2>2. PICK r : r = job'[j]
    OBVIOUS
  <2>3. JobWell(r)
    BY <2>1, <2>2
  <2>4. JobWell(r)'
    BY <1>1, <2>3, JobStays
  <2> QED BY <2>2, <2>4
<1>3. ASSUME NEW d \in 0..LastDate PROVE (figure[d] # NoFigure => RowWell(d, figure[d]))'
  <2>1. PICK r : r = figure'[d]
    OBVIOUS
  <2>2. SUFFICES ASSUME r # NoFigure PROVE RowWell(d, r)'
    BY <2>1
  <2>3. RowWell(d, r)
    BY <2>1, <2>2 DEF FigureInv
  <2> QED BY <1>1, <2>3, RowStays
<1> QED BY <1>2, <1>3 DEF FigureInv

LEMMA StartPaymentKeeps == ASSUME FigureInv, NEW u \in Payers, StartPayment(u) PROVE FigureInv'
<1>1. FigureTypeOK /\ UNCHANGED <<date, paid, ends, figure, job, overdue, straddled>>
  BY DEF FigureInv, StartPayment
<1>2. <<u, date>> \in Payers \X (1..date)
  BY <1>1, FiguresParameters DEF FigureTypeOK
<1>3. FigureTypeOK'
  BY <1>1, <1>2 DEF FigureTypeOK, StartPayment
<1>4. ASSUME NEW q \in paid, q[1] = u PROVE q[2] < date
  <2>1. q \in Payers \X (1..date) /\ date \in Nat /\ <<u, date>> \notin paid
    BY <1>1, FiguresParameters DEF FigureTypeOK, StartPayment
  <2>2. q = <<q[1], q[2]>> /\ q[2] \in 1..date
    BY <2>1
  <2> QED BY <1>4, <2>1, <2>2
<1>5. InTurn'
  <2>1. paying' = paying \cup {<<u, date>>} /\ \A p \in paying : p[1] # u
    BY DEF StartPayment
  <2> QED BY <1>1, <1>4, <2>1 DEF FigureInv, InTurn
<1> QED BY <1>1, <1>3, <1>5, JobMoves

\* A step of one run, which turns its record into a well one.
LEMMA RunMoves ==
  ASSUME FigureInv, NEW j \in Jobs, NEW r, JobWell(r), job' = [job EXCEPT ![j] = r],
         UNCHANGED <<date, paying, paid, ends, figure, overdue, straddled>>
  PROVE  FigureInv'
<1>1. FigureTypeOK'
  BY DEF FigureInv, FigureTypeOK
<1>2. \A i \in Jobs : job'[i] = job[i] \/ JobWell(job'[i])
  BY DEF FigureInv, FigureTypeOK
<1>3. InTurn'
  BY DEF FigureInv, InTurn
<1> QED BY <1>1, <1>2, <1>3, JobMoves

LEMMA StartJobKeeps == ASSUME FigureInv, NEW j \in Jobs, StartJob(j) PROVE FigureInv'
<1>1. FigureTypeOK /\ UNCHANGED <<date, paying, paid, ends, figure, overdue, straddled>>
  BY DEF FigureInv, StartJob
<1>2. PICK r : r = [NoJob EXCEPT !.at = "paid", !.on = date, !.day = date - 1]
  OBVIOUS
<1>3. date \in 1..date /\ date - 1 \in 0..LastDate
  BY <1>1, FiguresParameters DEF FigureTypeOK
<1>4. "paid" \in {"off", "paid", "over"}
  OBVIOUS
<1>5. PICK d \in 0..LastDate : d = date - 1
  BY <1>3
<1>6. r = [at |-> "paid", on |-> date, day |-> d, paid |-> 0, churned |-> 0, active |-> 0, wrote |-> NoFigures]
  BY <1>2, <1>5 DEF NoJob
<1>7. JobWell(r)
  BY <1>1, <1>3, <1>4, <1>6, EmptyIsWell
<1> QED BY <1>1, <1>2, <1>7, RunMoves DEF StartJob

LEMMA JobFailsKeeps == ASSUME FigureInv, NEW j \in Jobs, JobFails(j) PROVE FigureInv'
<1>1. FigureTypeOK /\ UNCHANGED <<date, paying, paid, ends, figure, overdue, straddled>>
  BY DEF FigureInv, JobFails
<1>2. PICK r : r = [NoJob EXCEPT !.at = "over"]
  OBVIOUS
<1>3. r = [at |-> "over", on |-> 1, day |-> 0, paid |-> 0, churned |-> 0, active |-> 0, wrote |-> NoFigures]
  BY <1>2 DEF NoJob
<1>4. 1 \in 1..date /\ 0 \in 0..LastDate /\ "over" \in {"off", "paid", "over"}
  BY <1>1, FiguresParameters DEF FigureTypeOK
<1>5. JobWell(r)
  BY <1>1, <1>3, <1>4, EmptyIsWell
<1> QED BY <1>1, <1>2, <1>5, RunMoves DEF JobFails

\* What a set of payers counts to.
LEMMA PayersCount ==
  ASSUME NEW S \in SUBSET Payers
  PROVE  IsFiniteSet(S) /\ Cardinality(S) \in Nat
BY FiguresParameters, FS_Subset, FS_CardinalityType

LEMMA CountPaidKeeps == ASSUME FigureInv, NEW j \in Jobs, CountPaid(j) PROVE FigureInv'
<1>1. JobWell(job[j]) /\ UNCHANGED <<date, paying, paid, ends, figure, overdue, straddled>>
  BY DEF FigureInv, CountPaid
<1>2. PICK n \in Nat : n = Cardinality(PaidOn(job[j].day))
  <2>1. PaidOn(job[j].day) \in SUBSET Payers
    BY DEF PaidOn
  <2> QED BY <2>1, PayersCount
<1>3. PICK r : r = [job[j] EXCEPT !.at = "churned", !.paid = n]
  OBVIOUS
<1>4. job' = [job EXCEPT ![j] = r]
  BY <1>2, <1>3 DEF CountPaid
<1>5. /\ r = [at |-> "churned", on |-> job[j].on, day |-> job[j].day, paid |-> n, churned |-> job[j].churned,
              active |-> job[j].active, wrote |-> job[j].wrote]
  BY <1>1, <1>3 DEF JobWell
<1>6. JobWell(r)
  <2>1. /\ r.at = "churned" /\ r.on = job[j].on /\ r.day = job[j].day /\ r.paid = n
        /\ r.churned = job[j].churned /\ r.active = job[j].active /\ r.wrote = job[j].wrote
    BY <1>5
  <2> QED BY <1>1, <1>2, <1>5, <2>1 DEF JobWell, PaidIs, PaidAtLeast
<1> QED BY <1>1, <1>4, <1>6, RunMoves

LEMMA CountChurnedKeeps == ASSUME FigureInv, NEW j \in Jobs, CountChurned(j) PROVE FigureInv'
<1>1. /\ JobWell(job[j]) /\ job[j].at = "churned"
      /\ UNCHANGED <<date, paying, paid, ends, figure, overdue, straddled>>
  BY DEF FigureInv, CountChurned
<1>2. PICK n \in Nat : n = Cardinality(ChurnedOn(job[j].day))
  <2>1. ChurnedOn(job[j].day) \in SUBSET Payers
    BY DEF ChurnedOn
  <2> QED BY <2>1, PayersCount
<1>3. PICK r : r = [job[j] EXCEPT !.at = "active", !.churned = n]
  OBVIOUS
<1>4. job' = [job EXCEPT ![j] = r]
  BY <1>2, <1>3 DEF CountChurned
<1>5. /\ r = [at |-> "active", on |-> job[j].on, day |-> job[j].day, paid |-> job[j].paid, churned |-> n,
              active |-> job[j].active, wrote |-> job[j].wrote]
  BY <1>1, <1>3 DEF JobWell
<1>6. JobWell(r)
  <2>1. /\ r.at = "active" /\ r.on = job[j].on /\ r.day = job[j].day /\ r.paid = job[j].paid
        /\ r.churned = n /\ r.active = job[j].active /\ r.wrote = job[j].wrote
    BY <1>5
  <2> QED BY <1>1, <1>2, <1>5, <2>1 DEF JobWell
<1> QED BY <1>1, <1>4, <1>6, RunMoves

LEMMA CountActiveKeeps == ASSUME FigureInv, NEW j \in Jobs, CountActive(j) PROVE FigureInv'
<1>1. /\ JobWell(job[j]) /\ job[j].at = "active"
      /\ UNCHANGED <<date, paying, paid, ends, figure, overdue, straddled>>
  BY DEF FigureInv, CountActive
<1>2. PICK d \in 0..LastDate : d = job[j].day
  BY <1>1 DEF JobWell
<1>3. PICK n \in Nat : n = Cardinality(ActiveAfter(d))
  <2>1. ActiveAfter(d) \in SUBSET Payers
    BY DEF ActiveAfter
  <2> QED BY <2>1, PayersCount
<1>4. PICK r : r = [job[j] EXCEPT !.at = "upsert", !.active = n]
  OBVIOUS
<1>5. job' = [job EXCEPT ![j] = r]
  BY <1>2, <1>3, <1>4 DEF CountActive
<1>6. /\ r = [at |-> "upsert", on |-> job[j].on, day |-> d, paid |-> job[j].paid, churned |-> job[j].churned,
              active |-> n, wrote |-> job[j].wrote]
  BY <1>1, <1>2, <1>4 DEF JobWell
<1>7. FewerThanEnded(d, job[j].churned + n)
  <2>1. SUFFICES ASSUME d \notin straddled PROVE job[j].churned + n <= Cardinality(Ended)
    BY DEF FewerThanEnded
  <2>2. PICK C : C = ChurnedOn(d)
    OBVIOUS
  <2>3. PICK A : A = ActiveAfter(d)
    OBVIOUS
  <2>4. job[j].churned = Cardinality(C) /\ n = Cardinality(A)
    BY <1>1, <1>2, <1>3, <2>1, <2>2, <2>3 DEF JobWell
  <2>5. C \in SUBSET Ended /\ A \in SUBSET Ended /\ C \cap A = {} /\ C \in SUBSET Payers /\ A \in SUBSET Payers
    <3>1. \A u \in Payers : ends[u] \in Nat
      BY DEF FigureInv, FigureTypeOK
    <3> QED BY <2>2, <2>3, <3>1 DEF ChurnedOn, ActiveAfter, Ended
  <2>6. Cardinality(C \cup A) = Cardinality(C) + Cardinality(A) - Cardinality(C \cap A)
    BY <2>5, PayersCount, FS_Union
  <2>7. Cardinality(C \cap A) = 0
    BY <2>5, FS_EmptySet
  <2>8. Cardinality(C \cup A) <= Cardinality(Ended)
    <3>1. Ended \in SUBSET Payers /\ C \cup A \in SUBSET Ended
      BY <2>5 DEF Ended
    <3> QED BY <3>1, PayersCount, FS_Subset
  <2>9. Cardinality(C) \in Nat /\ Cardinality(A) \in Nat
    BY <2>5, PayersCount
  <2> QED BY <2>4, <2>6, <2>7, <2>8, <2>9
<1>8. JobWell(r)
  <2>1. /\ r.at = "upsert" /\ r.on = job[j].on /\ r.day = d /\ r.paid = job[j].paid
        /\ r.churned = job[j].churned /\ r.active = n /\ r.wrote = job[j].wrote
    BY <1>6
  <2> QED BY <1>1, <1>2, <1>3, <1>6, <1>7, <2>1 DEF JobWell
<1> QED BY <1>1, <1>5, <1>8, RunMoves

LEMMA FigureUpsertKeeps == ASSUME FigureInv, NEW j \in Jobs, UpsertFigure(j) PROVE FigureInv'
<1>1. /\ JobWell(job[j]) /\ job[j].at = "upsert"
      /\ UNCHANGED <<date, paying, paid, ends, figure, overdue, straddled>>
  BY DEF FigureInv, UpsertFigure
<1>2. PICK d \in 0..LastDate : d = job[j].day
  BY <1>1 DEF JobWell
<1>3. PICK new : new = [paid |-> job[j].paid, churned |-> job[j].churned, active |-> job[j].active,
                        over |-> d < job[j].on]
  OBVIOUS
<1>4. PICK wrote : wrote = [job[j].wrote EXCEPT ![d] = new]
  OBVIOUS
<1>5. PICK at \in {"paid", "commit"} : at = IF new.over THEN "paid" ELSE "commit"
  OBVIOUS
<1>6. PICK r : r = [NoJob EXCEPT !.wrote = wrote, !.on = job[j].on, !.day = job[j].on, !.at = at]
  OBVIOUS
<1>7. job' = [job EXCEPT ![j] = r]
  BY <1>2, <1>3, <1>4, <1>5, <1>6 DEF UpsertFigure
<1>8. /\ r = [at |-> at, on |-> job[j].on, day |-> job[j].on, paid |-> 0, churned |-> 0,
              active |-> 0, wrote |-> wrote]
  BY <1>6 DEF NoJob
<1>9. /\ new.paid = job[j].paid /\ new.churned = job[j].churned /\ new.active = job[j].active
      /\ new.over <=> d < job[j].on
  BY <1>3
<1>10. RowWell(d, new)
  <2>1. d < job[j].on => d < date
    BY <1>1 DEF JobWell, FigureInv, FigureTypeOK
  <2> QED BY <1>1, <1>2, <1>9, <2>1 DEF JobWell, RowWell
<1>11. /\ wrote = [e \in 0..LastDate |-> wrote[e]]
       /\ \A e \in 0..LastDate : wrote[e] # NoFigure => RowWell(e, wrote[e])
  BY <1>1, <1>4, <1>10 DEF JobWell
<1>12. job[j].on \in 1..date /\ job[j].on \in 0..LastDate
  BY <1>1, FiguresParameters DEF JobWell, FigureInv, FigureTypeOK
<1>13. JobWell(r)
  <2>1. /\ r.at = at /\ r.on = job[j].on /\ r.day = job[j].on /\ r.paid = 0
        /\ r.churned = 0 /\ r.active = 0 /\ r.wrote = wrote
    BY <1>8
  <2> QED BY <1>8, <1>11, <1>12, <2>1 DEF JobWell
<1> QED BY <1>1, <1>7, <1>13, RunMoves

LEMMA CommitJobKeeps == ASSUME FigureInv, NEW j \in Jobs, CommitJob(j) PROVE FigureInv'
<1>1. /\ FigureTypeOK /\ JobWell(job[j]) /\ UNCHANGED <<date, paying, paid, ends, overdue, straddled>>
      /\ figure' = [d \in 0..LastDate |-> IF job[j].wrote[d] = NoFigure THEN figure[d]
                                                                       ELSE job[j].wrote[d]]
  BY DEF FigureInv, CommitJob
<1>2. PICK r : r = [NoJob EXCEPT !.at = "over"]
  OBVIOUS
<1>3. r = [at |-> "over", on |-> 1, day |-> 0, paid |-> 0, churned |-> 0, active |-> 0, wrote |-> NoFigures]
  BY <1>2 DEF NoJob
<1>4. 1 \in 1..date /\ 0 \in 0..LastDate /\ "over" \in {"off", "paid", "over"}
  BY <1>1, FiguresParameters DEF FigureTypeOK
<1>5. JobWell(r)
  BY <1>1, <1>3, <1>4, EmptyIsWell
<1>7. job' = [job EXCEPT ![j] = r] /\ JobWell(r)
  BY <1>2, <1>5 DEF CommitJob
<1>8. FigureTypeOK'
  BY <1>1, <1>7 DEF FigureTypeOK
<1>9. \A i \in Jobs : job'[i] = job[i] \/ JobWell(job'[i])
  BY <1>1, <1>7 DEF FigureTypeOK
<1>10. \A d \in 0..LastDate : figure'[d] = figure[d] \/ RowWell(d, figure'[d])
  BY <1>1 DEF JobWell
<1>11. InTurn'
  BY <1>1 DEF FigureInv, InTurn, CommitJob
<1> QED BY <1>1, <1>8, <1>9, <1>10, <1>11, JobMoves

\* A later payment leaves the first day as it was.
LEMMA FirstStays ==
  ASSUME FigureInv, NEW p \in paying, NEW u, u = p[1], DaysPaid(u, paid) # {}
  PROVE  FirstPaid(u, paid \cup {p}) = FirstPaid(u, paid)
<1>1. PICK D : D = DaysPaid(u, paid)
  OBVIOUS
<1>2. PICK E : E = DaysPaid(u, paid \cup {p})
  OBVIOUS
<1>3. PICK n : n = p[2]
  OBVIOUS
<1>4. p[2] \in 1..date /\ date \in Nat /\ D \in SUBSET (1..date)
  BY <1>1, FiguresParameters DEF DaysPaid, FigureInv, FigureTypeOK
<1>5. E = D \cup {n} /\ \A d \in D : d < n
  BY <1>1, <1>2, <1>3 DEF DaysPaid, FigureInv, InTurn
<1>6. IsFiniteSet(D) /\ D \in SUBSET Int
  <2>1. IsFiniteSet(1..date)
    BY <1>4, FS_Interval
  <2>2. IsFiniteSet(D)
    BY <1>4, <2>1, FS_Subset
  <2> QED BY <1>4, <2>2
<1>7. PICK m \in D : \A d \in D : m <= d
  BY <1>1, <1>6, ExtremesExist
<1>8. \A d \in E : m <= d
  BY <1>3, <1>4, <1>5, <1>7
<1>9. Min(D) = CHOOSE x \in D : \A y \in D : x <= y
  BY DEF Min
<1>10. Min(E) = CHOOSE x \in E : \A y \in E : x <= y
  BY DEF Min
<1>11. Min(D) = m
  <2>1. \A x \in D : (\A y \in D : x <= y) => x = m
    BY <1>6, <1>7
  <2> QED BY <1>7, <1>9, <2>1
<1>12. m \in E /\ \A x \in E : (\A y \in E : x <= y) => x = m
  BY <1>3, <1>4, <1>5, <1>6, <1>7, <1>8
<1>13. Min(E) = m
  BY <1>8, <1>10, <1>12
<1> QED BY <1>1, <1>2, <1>11, <1>13 DEF FirstPaid

\* A payment that is committed takes nobody from those who paid first on a day, and
\* adds one only to a day that is noted as overdue, or goes on.
LEMMA PaymentMovesDay ==
  ASSUME FigureInv, NEW p \in paying, CommitPayment(p), NEW d \in Nat
  PROVE  /\ PaidOn(d) \subseteq PaidOn(d)'
         /\ d < date /\ d \notin overdue' => PaidOn(d)' = PaidOn(d)
<1>1. PICK u \in Payers : u = p[1]
  BY DEF FigureInv, FigureTypeOK
<1>2. PICK now : now = paid \cup {p} /\ paid' = now
  BY DEF CommitPayment
<1>3. \A v \in Payers : v # u => DaysPaid(v, now) = DaysPaid(v, paid)
  BY <1>1, <1>2 DEF DaysPaid
<1>4. DaysPaid(u, now) # {}
  BY <1>1, <1>2 DEF DaysPaid
<1>5. DaysPaid(u, paid) # {} => FirstPaid(u, now) = FirstPaid(u, paid)
  BY <1>1, <1>2, FirstStays
<1>6. DaysPaid(u, paid) = {} => FirstPaid(u, now) = p[2]
  <2>1. SUFFICES ASSUME DaysPaid(u, paid) = {} PROVE FirstPaid(u, now) = p[2]
    OBVIOUS
  <2>2. PICK E : E = DaysPaid(u, now)
    OBVIOUS
  <2>3. PICK n \in Nat : n = p[2]
    BY FiguresParameters DEF FigureInv, FigureTypeOK
  <2>4. E = {n}
    BY <1>1, <1>2, <2>1, <2>2, <2>3 DEF DaysPaid
  <2>5. Min(E) = CHOOSE x \in E : \A y \in E : x <= y
    BY DEF Min
  <2>6. Min(E) = n
    BY <2>3, <2>4, <2>5
  <2> QED BY <2>2, <2>3, <2>6 DEF FirstPaid
<1>7. DaysPaid(u, paid) = {} /\ p[2] < date => p[2] \in overdue'
  BY <1>1 DEF CommitPayment
<1>8. ASSUME NEW v \in Payers, DaysPaid(v, paid) # {}
      PROVE  DaysPaid(v, now) # {} /\ FirstPaid(v, now) = FirstPaid(v, paid)
  <2>1. CASE v = u
    BY <1>4, <1>5, <1>8, <2>1
  <2>2. CASE v # u
    BY <1>3, <1>8, <2>2 DEF FirstPaid
  <2> QED BY <2>1, <2>2
<1>9. ASSUME NEW v \in Payers, DaysPaid(v, now) # {}, DaysPaid(v, paid) = {}
      PROVE  FirstPaid(v, now) < date => FirstPaid(v, now) \in overdue'
  BY <1>3, <1>6, <1>7, <1>9
<1>10. PaidOn(d)' = {v \in Payers : DaysPaid(v, now) # {} /\ FirstPaid(v, now) = d}
  BY <1>2 DEF PaidOn, DaysPaid, FirstPaid
<1> QED BY <1>8, <1>9, <1>10 DEF PaidOn

LEMMA CommitPaymentKeeps == ASSUME FigureInv, NEW p \in paying, CommitPayment(p) PROVE FigureInv'
<1>1. /\ FigureTypeOK /\ UNCHANGED <<date, figure, job>>
      /\ overdue \subseteq overdue' /\ straddled \subseteq straddled'
  BY DEF FigureInv, CommitPayment
<1>2. /\ p \in Payers \X (1..date) /\ p[1] \in Payers /\ p[2] \in Nat
      /\ ends \in [Payers -> Nat] /\ Term \in Nat \ {0}
  BY <1>1, FiguresParameters DEF FigureTypeOK
<1>3. PICK last \in Nat \ {0} : ends' = [ends EXCEPT ![p[1]] = last]
  <2>1. PICK m : m = ends[p[1]]
    OBVIOUS
  <2>2. ends' = [ends EXCEPT ![p[1]] = (IF m > p[2] THEN m ELSE p[2]) + Term]
    BY <1>2, <2>1 DEF CommitPayment
  <2>3. PICK e : e = (IF m > p[2] THEN m ELSE p[2]) + Term
    OBVIOUS
  <2>4. m \in Nat
    BY <1>2, <2>1
  <2>5. e \in Nat \ {0}
    BY <1>2, <2>3, <2>4
  <2> QED BY <2>2, <2>3, <2>5
<1>4. FigureTypeOK'
  <2>1. ends' \in [Payers -> Nat]
    BY <1>2, <1>3
  <2>2. paying' \subseteq paying /\ paid' = paid \cup {p}
    BY DEF CommitPayment
  <2> QED BY <1>1, <1>2, <2>1, <2>2 DEF FigureTypeOK
<1>5. /\ Cardinality(Ended) \in Nat /\ Cardinality(Ended') \in Nat
      /\ Cardinality(Ended) <= Cardinality(Ended')
  <2>1. Ended \in SUBSET Payers /\ Ended' \in SUBSET Payers /\ Ended \in SUBSET Ended'
    BY <1>2, <1>3 DEF Ended
  <2> QED BY <2>1, PayersCount, FS_Subset
<1>6. ASSUME NEW d \in 0..LastDate, NEW n, d < date, PaidIs(d, n) PROVE PaidIs(d, n)'
  <2>1. SUFFICES ASSUME d \notin overdue' PROVE n = Cardinality(PaidOn(d)')
    BY DEF PaidIs
  <2>2. PaidOn(d)' = PaidOn(d)
    BY <1>6, <2>1, PaymentMovesDay
  <2> QED BY <1>1, <1>6, <2>1, <2>2 DEF PaidIs
<1>7. ASSUME NEW d, NEW n \in Nat, FewerThanEnded(d, n) PROVE FewerThanEnded(d, n)'
  BY <1>1, <1>5, <1>7 DEF FewerThanEnded
<1>11. ASSUME NEW d \in 0..LastDate, NEW n \in Nat, PaidAtLeast(d, n) PROVE PaidAtLeast(d, n)'
  <2>1. PICK A : A = PaidOn(d)
    OBVIOUS
  <2>2. PICK B : B = PaidOn(d)'
    OBVIOUS
  <2>3. A \in SUBSET B /\ B \in SUBSET Payers
    BY <2>1, <2>2, PaymentMovesDay DEF PaidOn
  <2>4. Cardinality(A) <= Cardinality(B) /\ Cardinality(A) \in Nat /\ Cardinality(B) \in Nat
    <3>1. A \in SUBSET Payers
      BY <2>3
    <3> QED BY <2>3, <3>1, PayersCount, FS_Subset
  <2>5. n <= Cardinality(A)
    BY <1>11, <2>1 DEF PaidAtLeast
  <2>6. n <= Cardinality(B)
    BY <2>4, <2>5
  <2> QED BY <2>2, <2>6 DEF PaidAtLeast
<1>12. InTurn'
  <2>1. paying' = paying \ {p} /\ paid' = paid \cup {p}
    BY DEF CommitPayment
  <2>2. \A q \in paying \ {p} : q[1] # p[1]
    BY DEF FigureInv, InTurn
  <2> QED BY <2>1, <2>2 DEF FigureInv, InTurn
<1>8. ASSUME NEW d \in 0..LastDate, NEW r, RowWell(d, r) PROVE RowWell(d, r)'
  <2>1. r.paid \in Nat /\ r.churned \in Nat /\ r.active \in Nat /\ r.churned + r.active \in Nat
    BY <1>8 DEF RowWell
  <2>2. FewerThanEnded(d, r.churned + r.active)'
    BY <1>7, <1>8, <2>1 DEF RowWell
  <2>3. r.over => d < date' /\ PaidIs(d, r.paid)'
    BY <1>1, <1>6, <1>8 DEF RowWell
  <2>4. PaidAtLeast(d, r.paid)'
    BY <1>8, <1>11, <2>1 DEF RowWell
  <2> QED BY <2>1, <2>2, <2>3, <2>4 DEF RowWell
<1>9. ASSUME NEW j \in Jobs PROVE JobWell(job[j])'
  <2>1. PICK r : r = job[j] /\ r = job'[j] /\ JobWell(r)
    BY <1>1 DEF FigureInv
  <2>2. \A d \in 0..LastDate : r.wrote[d] # NoFigure => RowWell(d, r.wrote[d])'
    BY <1>8, <2>1 DEF JobWell
  <2>3. r.at = "active" => r.day \in straddled'
    BY <2>1 DEF CommitPayment
  <2>4. r.at = "upsert" => FewerThanEnded(r.day, r.churned + r.active)'
    <3>1. r.churned + r.active \in Nat
      BY <2>1 DEF JobWell
    <3> QED BY <1>7, <2>1, <3>1 DEF JobWell
  <2>5. r.at \in {"churned", "active", "upsert"} =>
          PaidAtLeast(r.day, r.paid)' /\ (r.day < r.on => PaidIs(r.day, r.paid)')
    <3>1. r.day \in 0..LastDate /\ r.on \in 1..date /\ date \in Nat
      BY <1>1, <2>1 DEF JobWell, FigureTypeOK
    <3>2. r.day < r.on => r.day < date
      BY <3>1
    <3>3. r.paid \in Nat
      BY <2>1 DEF JobWell
    <3> QED BY <1>6, <1>11, <2>1, <3>1, <3>2, <3>3 DEF JobWell
  <2>6. JobWell(r)'
    BY <1>1, <2>1, <2>2, <2>3, <2>4, <2>5 DEF JobWell
  <2> QED BY <2>1, <2>6
<1>10. \A d \in 0..LastDate : (figure[d] # NoFigure => RowWell(d, figure[d]))'
  BY <1>1, <1>8 DEF FigureInv
<1> QED BY <1>4, <1>9, <1>10, <1>12 DEF FigureInv

LEMMA FiguresRest == FigureInv /\ UNCHANGED figuresVars => FigureInv'
<1> SUFFICES ASSUME FigureInv, UNCHANGED figuresVars PROVE FigureInv'
  OBVIOUS
<1>1. FigureTypeOK'
  BY DEF FigureInv, FigureTypeOK, figuresVars
<1>2. InTurn'
  BY DEF FigureInv, InTurn, figuresVars
<1> QED BY <1>1, <1>2, JobMoves DEF figuresVars

LEMMA FiguresGoOn == FigureInv /\ (FiguresNext \/ UNCHANGED figuresVars) => FigureInv'
BY FiguresRest, NextDateKeeps, StartPaymentKeeps, CommitPaymentKeeps, StartJobKeeps, CountPaidKeeps,
   CountChurnedKeeps, CountActiveKeeps, FigureUpsertKeeps, CommitJobKeeps, JobFailsKeeps DEF FiguresNext

-----------------------------------------------------------------------------
\* The payers who paid first on some days.
PaidWithin(ds) == {u \in Payers : \E d \in ds : u \in PaidOn(d)}

\* Of a set there are as many as one likes to take, if there are so many.
LEMMA SomeOf ==
  ASSUME NEW S \in SUBSET Payers, NEW k \in Nat, k <= Cardinality(S)
  PROVE  \E A \in SUBSET S : Cardinality(A) = k
<1>1. PICK n \in Nat : n = Cardinality(S)
  BY PayersCount
<1>2. PICK f : f \in Bijection(1..n, S)
  BY <1>1, PayersCount, FS_CardinalityType DEF ExistsBijection
<1>3. PICK A : A = {f[i] : i \in 1..k}
  OBVIOUS
<1>4. PICK g : g = [i \in 1..k |-> f[i]]
  OBVIOUS
<1>5. /\ f \in [1..n -> S] /\ \A a, b \in 1..n : f[a] = f[b] => a = b
  BY <1>2 DEF Bijection, Injection, IsInjective
<1>6. 1..k \subseteq 1..n
  BY <1>1
<1>7. g \in Bijection(1..k, A)
  BY <1>3, <1>4, <1>5, <1>6 DEF Bijection, Injection, IsInjective, Surjection
<1>8. Cardinality(A) = k
  BY <1>7, FS_CountingElements DEF ExistsBijection
<1> QED BY <1>3, <1>5, <1>6, <1>8

\* A sum of rows is the number of different payers, if each row's are among those who
\* paid first on its day.
LEMMA FunnelCounts ==
  ASSUME NEW T, IsFiniteSet(T), NEW of, \A d \in T : of[d] \in SUBSET PaidOn(d),
         \A d \in T : figure[d].paid = Cardinality(of[d])
  PROVE  FunnelPaid(T) = Cardinality(UNION {of[d] : d \in T})
<1> DEFINE All(s) == UNION {of[d] : d \in s}
           g == [s \in SUBSET T |-> Cardinality(All(s))]
           w == [d \in T |-> figure[d].paid]
           Fold(iter) == iter = [s \in SUBSET T |->
                                   IF s = {} THEN 0
                                   ELSE LET x == CHOOSE x \in s : TRUE
                                        IN  figure[x].paid + iter[s \ {x}]]
           sum == CHOOSE iter : Fold(iter)
<1>1. FunnelPaid(T) = sum[T]
  BY DEF FunnelPaid, MapThenSumSet, MapThenFoldSet
<1>2. g[{}] = 0
  <2>1. All({}) = {}
    OBVIOUS
  <2> QED BY <2>1, FS_EmptySet
<1>3. ASSUME NEW s \in SUBSET T, NEW x \in s PROVE g[s] = w[x] + g[s \ {x}]
  <2>1. PICK A : A = of[x]
    OBVIOUS
  <2>2. PICK B : B = All(s \ {x})
    OBVIOUS
  <2>3. A \in SUBSET Payers /\ B \in SUBSET Payers
    BY <2>1, <2>2 DEF PaidOn
  <2>4. All(s) = A \cup B
    BY <2>1, <2>2, <2>3
  <2>5. A \cap B = {}
    BY <2>1, <2>2 DEF PaidOn
  <2>6. Cardinality(A \cup B) = Cardinality(A) + Cardinality(B) - Cardinality(A \cap B)
    BY <2>3, PayersCount, FS_Union
  <2>7. Cardinality(A \cap B) = 0 /\ Cardinality(A) \in Nat /\ Cardinality(B) \in Nat
    BY <2>3, <2>5, PayersCount, FS_EmptySet
  <2>8. g[s] = Cardinality(A \cup B) /\ w[x] = Cardinality(A) /\ g[s \ {x}] = Cardinality(B)
    BY <2>1, <2>2, <2>4
  <2> HIDE DEF g, w
  <2> QED BY <2>6, <2>7, <2>8
<1>4. g = [s \in SUBSET T |-> g[s]]
  OBVIOUS
<1>5. Summing(g, w, T) /\ \A f : Summing(f, w, T) => f[T] = g[T]
  <2> HIDE DEF g, w
  <2> QED BY <1>2, <1>3, <1>4, SumIs
<1>6. ASSUME NEW f PROVE Summing(f, w, T) <=> Fold(f)
  <2>1. \A s \in SUBSET T : s # {} => Some(s) \in s
    BY DEF Some
  <2>2. \A s \in SUBSET T : s # {} => w[Some(s)] = figure[Some(s)].paid
    BY <2>1
  <2> HIDE DEF w
  <2> QED BY <2>2 DEF Summing, Some
<1>7. Fold(sum)
  <2> HIDE DEF Fold, g
  <2> QED BY <1>5, <1>6
<1>8. sum[T] = g[T]
  <2> HIDE DEF Fold, sum, g, w
  <2> QED BY <1>5, <1>6, <1>7
<1>9. g[T] = Cardinality(All(T))
  OBVIOUS
<1> HIDE DEF sum, g
<1> QED BY <1>1, <1>8, <1>9

\* Who has paid has a day on which he paid first.
LEMMA PaidOnADay ==
  ASSUME FigureTypeOK, NEW u \in Payers, DaysPaid(u, paid) # {}
  PROVE  FirstPaid(u, paid) \in 1..date /\ u \in PaidOn(FirstPaid(u, paid))
<1>1. PICK D : D = DaysPaid(u, paid)
  OBVIOUS
<1>2. D # {} /\ D \in SUBSET (1..date) /\ date \in Nat
  BY <1>1, FiguresParameters DEF DaysPaid, FigureTypeOK
<1>3. IsFiniteSet(D) /\ D \in SUBSET Int
  <2>1. IsFiniteSet(1..date)
    BY <1>2, FS_Interval
  <2>2. IsFiniteSet(D)
    BY <1>2, <2>1, FS_Subset
  <2> QED BY <1>2, <2>2
<1>4. \E m \in D : \A n \in D : m <= n
  BY <1>2, <1>3, ExtremesExist
<1>5. Min(D) \in D
  <2>1. Min(D) = CHOOSE x \in D : \A y \in D : x <= y
    BY DEF Min
  <2> QED BY <1>4, <2>1
<1> QED BY <1>1, <1>2, <1>5 DEF FirstPaid, PaidOn

\* The matured payers paid first before the window.
LEMMA MaturedPaidBefore ==
  ASSUME FigureTypeOK, NEW u \in Matured, NEW d \in Nat, date - FunnelDays <= d
  PROVE  u \notin PaidOn(d)
<1>1. PICK n : n = FirstPaid(u, paid)
  OBVIOUS
<1>2. u \in Payers /\ n \in 1..date /\ n <= date - Maturity /\ date \in Nat
  BY <1>1, PaidOnADay, FiguresParameters DEF Matured, FigureTypeOK
<1>3. FunnelDays \in Nat /\ Maturity \in Nat /\ FunnelDays < Maturity
  BY FiguresParameters
<1>4. n # d
  BY <1>2, <1>3
<1> QED BY <1>1, <1>4 DEF PaidOn

\* The figures hold.
LEMMA FiguresAreWell == FigureInv => FiguresHold
<1> SUFFICES ASSUME FigureInv PROVE FiguresHold
  OBVIOUS
<1> DEFINE past == {d \in Dates : date - FunnelDays <= d /\ d < date}
           payers == {u \in Payers : DaysPaid(u, paid) # {}}
<1>1. ASSUME NEW d \in Counted PROVE RowWell(d, figure[d])
  BY DEF FigureInv, Counted
<1>2. CountedOnce
  BY <1>1 DEF CountedOnce, RowWell, PaidIs, FewerThanEnded, Ended
<1>3. date \in 1..LastDate /\ date \in Nat /\ date \in Int /\ LastDate \in Nat
  BY FiguresParameters DEF FigureInv, FigureTypeOK
<1>4. \A d \in Funnel : d \in 0..LastDate /\ d \in Counted /\ d \in Nat /\ date - FunnelDays <= d
  <2>1. FunnelDays \in Nat
    BY FiguresParameters
  <2>2. \A d \in 0..LastDate : d \in Nat /\ (d >= date - FunnelDays => date - FunnelDays <= d)
    BY <1>3, <2>1
  <2> QED BY <2>2 DEF Funnel, Counted
<1>5. IsFiniteSet(Funnel)
  <2>1. IsFiniteSet(0..LastDate)
    BY <1>3, FS_Interval
  <2>2. Funnel \in SUBSET (0..LastDate)
    BY <1>4
  <2> QED BY <2>1, <2>2, FS_Subset
<1>6. \A d \in Funnel : \E A \in SUBSET PaidOn(d) : Cardinality(A) = figure[d].paid
  <2> TAKE d \in Funnel
  <2>1. PICK S : S = PaidOn(d)
    OBVIOUS
  <2>2. S \in SUBSET Payers
    BY <2>1 DEF PaidOn
  <2>3. PICK k \in Nat : k = figure[d].paid /\ k <= Cardinality(S)
    BY <1>1, <1>4, <2>1 DEF RowWell, PaidAtLeast
  <2> QED BY <2>1, <2>2, <2>3, SomeOf
<1>7. PICK of : of = [d \in Funnel |-> CHOOSE A \in SUBSET PaidOn(d) : Cardinality(A) = figure[d].paid]
  OBVIOUS
<1>8. \A d \in Funnel : of[d] \in SUBSET PaidOn(d) /\ Cardinality(of[d]) = figure[d].paid
  BY <1>6, <1>7
<1>9. PICK C : C = UNION {of[d] : d \in Funnel}
  OBVIOUS
<1>10. FunnelPaid(Funnel) = Cardinality(C)
  BY <1>5, <1>8, <1>9, FunnelCounts
<1>11. C \in SUBSET payers /\ C \cap Matured = {}
  BY <1>4, <1>8, <1>9, MaturedPaidBefore DEF PaidOn, FigureInv
<1>12. PICK W : W = PaidWithin(past \cup {date})
  OBVIOUS
<1>13. C \in SUBSET W
  <2>1. ASSUME NEW d \in Funnel, NEW u \in of[d] PROVE u \in W
    <3>1. u \in Payers /\ DaysPaid(u, paid) # {} /\ FirstPaid(u, paid) = d /\ u \in PaidOn(d)
      BY <1>8, <2>1 DEF PaidOn
    <3>2. d \in 1..date
      BY <3>1, PaidOnADay DEF FigureInv
    <3>3. d \in Dates /\ d <= date
      BY <1>3, <3>2 DEF Dates
    <3>4. d \in past \cup {date}
      BY <1>3, <1>4, <3>2, <3>3
    <3> QED BY <1>12, <3>1, <3>4 DEF PaidWithin
  <2> QED BY <1>9, <2>1
<1>14. /\ W \in SUBSET Payers /\ payers \in SUBSET Payers /\ Matured \in SUBSET payers
       /\ C \in SUBSET Payers /\ Matured \in SUBSET Payers
  BY <1>11, <1>12 DEF PaidWithin, Matured
<1>15. FunnelPaid(Funnel) <= Cardinality(W)
  BY <1>10, <1>13, <1>14, PayersCount, FS_Subset
<1>16. FunnelPaid(Funnel) + Cardinality(Matured) <= Cardinality(payers)
  <2>1. Cardinality(C \cup Matured) = Cardinality(C) + Cardinality(Matured) - Cardinality(C \cap Matured)
    BY <1>14, PayersCount, FS_Union
  <2>2. Cardinality(C \cap Matured) = 0
    BY <1>11, FS_EmptySet
  <2>3. Cardinality(C \cup Matured) <= Cardinality(payers)
    <3>1. C \cup Matured \in SUBSET payers /\ IsFiniteSet(payers)
      BY <1>11, <1>14, PayersCount
    <3> HIDE DEF payers
    <3> QED BY <3>1, FS_Subset
  <2>4. Cardinality(C) \in Nat /\ Cardinality(Matured) \in Nat
    BY <1>14, PayersCount
  <2> QED BY <1>10, <2>1, <2>2, <2>3, <2>4
<1>17. ASSUME \A d \in past : d \in Funnel /\ figure[d].over /\ d \notin overdue
       PROVE  Cardinality(PaidWithin(past)) <= FunnelPaid(Funnel)
  <2>1. ASSUME NEW d \in past PROVE of[d] = PaidOn(d)
    <3>1. PICK A : A = of[d]
      OBVIOUS
    <3>2. PICK B : B = PaidOn(d)
      OBVIOUS
    <3>3. A \in SUBSET B /\ B \in SUBSET Payers /\ A \in SUBSET Payers
      BY <1>8, <1>17, <3>1, <3>2 DEF PaidOn
    <3>4. Cardinality(A) = Cardinality(B)
      BY <1>2, <1>4, <1>8, <1>17, <3>1, <3>2 DEF CountedOnce
    <3>5. A = B
      BY <3>3, <3>4, PayersCount, FS_Subset
    <3> QED BY <3>1, <3>2, <3>5
  <2>2. PaidWithin(past) \in SUBSET C
    BY <1>9, <1>17, <2>1 DEF PaidWithin
  <2> HIDE DEF past
  <2>3. Cardinality(PaidWithin(past)) <= Cardinality(C)
    BY <1>14, <2>2, PayersCount, FS_Subset
  <2> QED BY <1>10, <2>3
<1>18. PageAgrees
  <2>1. W = {u \in Payers : \E d \in past \cup {date} : u \in PaidOn(d)}
    BY <1>12 DEF PaidWithin
  <2>2. PaidWithin(past) = {u \in Payers : \E d \in past : u \in PaidOn(d)}
    BY DEF PaidWithin
  <2> QED BY <1>15, <1>16, <1>17, <2>1, <2>2 DEF PageAgrees
<1> QED BY <1>2, <1>18 DEF FiguresHold

-----------------------------------------------------------------------------
(* What the accounts cost.                                                 *)

AttemptRow == [at : Steps, proxy : Nat, lease : BOOLEAN, waits : Nat, why : {"none", "timeout", "error"}]

SupplyTyped ==
  /\ leasing \in BOOLEAN
  /\ number \in [Attempts -> {"none", "open", "used", "cancelled"}]
  /\ port \in [Attempts -> {"none", "held", "released"}]
  /\ signed \subseteq Attempts
  /\ booked \in [Attempts -> States \cup {"none"}]
  /\ attempt \in [Attempts -> AttemptRow]
  /\ astray \in [Attempts -> SUBSET Costs]
  /\ beside \in [Attempts -> SUBSET Attempts]

\* What has been paid for at each step of an attempt: its record r, its number n and
\* port p, whether Telegram has registered it (s), its row b and what is astray (out).
Leased(r, p) == (r.lease <=> leasing) /\ p = (IF leasing THEN "held" ELSE "none")
Unsold(r, s, out) == r.why # "none" /\ (s => "account" \in out /\ r.why # "timeout")
Fits(r, n, p, s, b, out) ==
  /\ b # "none" => r.at \in {"reject", "over"}
  /\ r.at = "off" => r.proxy = 0
  /\ r.at \in {"off", "buy"} => n = "none" /\ p = "none" /\ ~s /\ r.why = "none" /\ ~r.lease
  /\ r.at = "allocate" => n = "open" /\ p = "none" /\ ~s /\ r.why = "none" /\ ~r.lease /\ leasing
  /\ r.at \in {"connect", "code", "sign in", "sign up"}
       => n = "open" /\ Leased(r, p) /\ ~s /\ r.why = "none"
  /\ r.at \in {"me", "finish"} => n = "open" /\ Leased(r, p) /\ s /\ r.why = "none"
  /\ r.at = "cancel" => /\ n = "open" /\ Unsold(r, s, out)
                        /\ r.lease => leasing /\ p = "held"
                        /\ ~r.lease => p = "none" \/ "port" \in out
  /\ r.at = "release" => /\ n = "cancelled" \/ (n = "open" /\ "number" \in out)
                         /\ Unsold(r, s, out) /\ r.lease /\ leasing /\ p = "held"
  /\ r.at = "book" => /\ n # "none" /\ r.why # "error"
                      /\ r.why = "none" => s /\ Leased(r, p) /\ (n = "used" \/ "number" \in out)
                      /\ r.why = "timeout" => /\ ~s /\ (n = "cancelled" \/ "number" \in out)
                                              /\ p # "held" \/ "port" \in out
  /\ r.at = "reject" => /\ b = "probation" /\ s /\ (r.lease <=> leasing) /\ n # "none"
                        /\ "number" \notin out => n = "used"
                        /\ "port" \notin out => p # "held"
  /\ r.at = "over" =>
       /\ b \in {"probation", "promoted"} => /\ s /\ (r.lease <=> leasing) /\ n # "none"
                                             /\ "number" \notin out => n = "used"
                                             /\ "port" \notin out => (p = "held" <=> leasing)
       /\ b = "failed" => /\ "number" \notin out => n = (IF s THEN "used" ELSE "cancelled")
                          /\ "port" \notin out => p # "held"
       /\ b = "none" => /\ "number" \notin out => n \in {"none", "cancelled"}
                        /\ "port" \notin out => p # "held"
                        /\ "account" \notin out => ~s

Fit(a) == Fits(attempt[a], number[a], port[a], a \in signed, booked[a], astray[a])

CostInv == SupplyTyped /\ \A a \in Attempts : Fit(a)

LEMMA CostsBegin == SupplyInit => CostInv
<1> SUFFICES ASSUME SupplyInit PROVE CostInv
  OBVIOUS
<1>1. NoAttempt \in AttemptRow
  BY SupplyParameters DEF NoAttempt, AttemptRow, Steps
<1>2. SupplyTyped
  BY <1>1 DEF SupplyInit, SupplyTyped, States, Costs
<1>3. ASSUME NEW a \in Attempts PROVE Fit(a)
  <2>1. /\ attempt[a] = NoAttempt /\ number[a] = "none" /\ port[a] = "none" /\ a \notin signed
        /\ booked[a] = "none"
    BY DEF SupplyInit
  <2>2. /\ NoAttempt.at = "off" /\ NoAttempt.proxy = 0 /\ NoAttempt.why = "none" /\ ~NoAttempt.lease
    BY DEF NoAttempt
  <2> QED BY <2>1, <2>2 DEF Fit, Fits
<1> QED BY <1>2, <1>3 DEF CostInv

\* A step of one attempt.
LEMMA CostsMove ==
  ASSUME CostInv, SupplyTyped', leasing' = leasing, NEW a \in Attempts,
         \A b \in Attempts \ {a} : /\ attempt'[b] = attempt[b] /\ number'[b] = number[b]
                                   /\ port'[b] = port[b] /\ booked'[b] = booked[b]
                                   /\ astray'[b] = astray[b] /\ (b \in signed' <=> b \in signed),
         Fits(attempt'[a], number'[a], port'[a], a \in signed', booked'[a], astray'[a])
  PROVE  CostInv'
<1>1. ASSUME NEW b \in Attempts PROVE Fit(b)'
  <2>1. CASE b = a
    BY <2>1 DEF Fit, Fits, Leased
  <2>2. CASE b # a
    <3>1. Fit(b) /\ b \in Attempts \ {a}
      BY <2>2 DEF CostInv
    <3>2. PICK r, n, p, w, out : /\ r = attempt[b] /\ n = number[b] /\ p = port[b]
                                   /\ w = booked[b] /\ out = astray[b]
      OBVIOUS
    <3>3. /\ r = attempt'[b] /\ n = number'[b] /\ p = port'[b]
          /\ w = booked'[b] /\ out = astray'[b] /\ (b \in signed' <=> b \in signed)
      BY <3>1, <3>2
    <3>4. CASE b \in signed
      <4>1. Fits(r, n, p, TRUE, w, out)
        BY <3>1, <3>2, <3>4 DEF Fit, Fits, Leased, Unsold
      <4>2. Fits(r, n, p, TRUE, w, out)'
        BY <4>1 DEF Fits, Leased, Unsold
      <4> QED BY <3>3, <3>4, <4>2 DEF Fit, Fits, Leased, Unsold
    <3>5. CASE b \notin signed
      <4>1. Fits(r, n, p, FALSE, w, out)
        BY <3>1, <3>2, <3>5 DEF Fit, Fits, Leased, Unsold
      <4>2. Fits(r, n, p, FALSE, w, out)'
        BY <4>1 DEF Fits, Leased, Unsold
      <4> QED BY <3>3, <3>5, <4>2 DEF Fit, Fits, Leased, Unsold
    <3> QED BY <3>4, <3>5
  <2> QED BY <2>1, <2>2
<1> QED BY <1>1 DEF CostInv

\* The record of an attempt that goes on or fails.
LEMMA GoesTo ==
  ASSUME SupplyTyped, NEW a \in Attempts, NEW step \in Steps, Goes(a, step)
  PROVE  /\ attempt' = [attempt EXCEPT ![a] = attempt'[a]] /\ attempt'[a] \in AttemptRow
         /\ attempt'[a].at = step /\ attempt'[a].proxy = attempt[a].proxy
         /\ attempt'[a].lease = attempt[a].lease
         /\ attempt'[a].why = (IF step = "over" THEN "none" ELSE attempt[a].why)
<1>1. attempt[a] \in AttemptRow
  BY DEF SupplyTyped
<1>2. PICK r : r = [attempt[a] EXCEPT !.at = step, !.waits = 0,
                                      !.why = IF step = "over" THEN "none" ELSE attempt[a].why]
  OBVIOUS
<1>3. attempt' = [attempt EXCEPT ![a] = r] /\ attempt'[a] = r
  BY <1>2 DEF Goes, SupplyTyped
<1>4. /\ r \in AttemptRow /\ r.at = step /\ r.proxy = attempt[a].proxy /\ r.lease = attempt[a].lease
      /\ r.why = (IF step = "over" THEN "none" ELSE attempt[a].why)
  BY <1>1, <1>2 DEF AttemptRow
<1> QED BY <1>3, <1>4

LEMMA RaisesTo ==
  ASSUME SupplyTyped, NEW a \in Attempts, NEW why \in {"timeout", "error"}, Raises(a, why)
  PROVE  /\ attempt' = [attempt EXCEPT ![a] = attempt'[a]] /\ attempt'[a] \in AttemptRow
         /\ attempt'[a].at = "cancel" /\ attempt'[a].proxy = attempt[a].proxy
         /\ attempt'[a].lease = attempt[a].lease
         /\ attempt'[a].why = why
<1>1. attempt[a] \in AttemptRow
  BY DEF SupplyTyped
<1>2. PICK r : r = [attempt[a] EXCEPT !.at = "cancel", !.waits = 0, !.why = why]
  OBVIOUS
<1>3. attempt' = [attempt EXCEPT ![a] = r] /\ attempt'[a] = r
  BY <1>2 DEF Raises, SupplyTyped
<1>4. /\ r \in AttemptRow /\ r.at = "cancel" /\ r.proxy = attempt[a].proxy /\ r.lease = attempt[a].lease
      /\ r.why = why
  BY <1>1, <1>2 DEF AttemptRow, Steps
<1> QED BY <1>3, <1>4

\* An attempt has gone on to a record r, a number n, a port p, a row b and what is
\* astray.
Turned(a, r, n, p, b, out) ==
  /\ attempt' = [attempt EXCEPT ![a] = r]
  /\ number' = [number EXCEPT ![a] = n] \/ (number' = number /\ n = number[a])
  /\ port' = [port EXCEPT ![a] = p] \/ (port' = port /\ p = port[a])
  /\ booked' = [booked EXCEPT ![a] = b] \/ (booked' = booked /\ b = booked[a])
  /\ astray' = [astray EXCEPT ![a] = out] \/ (astray' = astray /\ out = astray[a])
  /\ signed' = signed \/ signed' = signed \cup {a}
  /\ leasing' = leasing /\ beside' \in [Attempts -> SUBSET Attempts]

LEMMA TurnedKeeps ==
  ASSUME CostInv, NEW a \in Attempts, NEW r \in AttemptRow,
         NEW n \in {"none", "open", "used", "cancelled"}, NEW p \in {"none", "held", "released"},
         NEW b \in States \cup {"none"}, NEW out \in SUBSET Costs,
         Turned(a, r, n, p, b, out), Fits(r, n, p, a \in signed', b, out)
  PROVE  CostInv'
<1>1. SupplyTyped
  BY DEF CostInv
<1>2. /\ attempt' \in [Attempts -> AttemptRow] /\ attempt'[a] = r
      /\ \A c \in Attempts \ {a} : attempt'[c] = attempt[c]
  BY <1>1 DEF SupplyTyped, Turned
<1>3. /\ number' \in [Attempts -> {"none", "open", "used", "cancelled"}] /\ number'[a] = n
      /\ \A c \in Attempts \ {a} : number'[c] = number[c]
  BY <1>1 DEF SupplyTyped, Turned
<1>4. /\ port' \in [Attempts -> {"none", "held", "released"}] /\ port'[a] = p
      /\ \A c \in Attempts \ {a} : port'[c] = port[c]
  BY <1>1 DEF SupplyTyped, Turned
<1>5. /\ booked' \in [Attempts -> States \cup {"none"}] /\ booked'[a] = b
      /\ \A c \in Attempts \ {a} : booked'[c] = booked[c]
  BY <1>1 DEF SupplyTyped, Turned
<1>6. /\ astray' \in [Attempts -> SUBSET Costs] /\ astray'[a] = out
      /\ \A c \in Attempts \ {a} : astray'[c] = astray[c]
  BY <1>1 DEF SupplyTyped, Turned
<1>7. /\ signed' \subseteq Attempts /\ leasing' = leasing /\ beside' \in [Attempts -> SUBSET Attempts]
      /\ \A c \in Attempts \ {a} : c \in signed' <=> c \in signed
  BY <1>1 DEF SupplyTyped, Turned
<1>8. SupplyTyped'
  BY <1>1, <1>2, <1>3, <1>4, <1>5, <1>6, <1>7 DEF SupplyTyped
<1> QED BY <1>2, <1>3, <1>4, <1>5, <1>6, <1>7, <1>8, CostsMove

\* What an attempt is before it goes on.
LEMMA AttemptIs ==
  ASSUME CostInv, NEW a \in Attempts
  PROVE  /\ SupplyTyped /\ attempt[a] \in AttemptRow /\ beside \in [Attempts -> SUBSET Attempts]
         /\ number[a] \in {"none", "open", "used", "cancelled"} /\ port[a] \in {"none", "held", "released"}
         /\ booked[a] \in States \cup {"none"} /\ astray[a] \in SUBSET Costs
         /\ Fits(attempt[a], number[a], port[a], a \in signed, booked[a], astray[a])
BY DEF CostInv, SupplyTyped, Fit

LEMMA StartCosts == ASSUME CostInv, NEW a \in Attempts, StartAttempt(a) PROVE CostInv'
<1>1. /\ attempt[a] \in AttemptRow /\ SupplyTyped
      /\ Fits(attempt[a], number[a], port[a], a \in signed, booked[a], astray[a])
      /\ attempt[a].at = "off"
  BY AttemptIs DEF StartAttempt
<1>2. PICK free : free = (1..NumProxies) \ Used
  OBVIOUS
<1>3. PICK proxy \in Nat, at \in {"over", "buy"} : attempt' = [attempt EXCEPT ![a].proxy = proxy, ![a].at = at]
  <2>1. PICK m : m = Min(free)
    OBVIOUS
  <2>2. free # {} => m \in Nat
    <3>1. free \in SUBSET (1..NumProxies) /\ free \in SUBSET Int
      BY <1>2, SupplyParameters
    <3>2. IsFiniteSet(free)
      <4>1. IsFiniteSet(1..NumProxies)
        BY SupplyParameters, FS_Interval
      <4> QED BY <3>1, <4>1, FS_Subset
    <3>3. free # {} => \E x \in free : \A y \in free : x <= y
      BY <3>1, <3>2, ExtremesExist
    <3>4. free # {} => m \in free
      BY <2>1, <3>3 DEF Min
    <3>5. free # {} => m \in 1..NumProxies
      BY <3>1, <3>4
    <3> QED BY <3>5, SupplyParameters
  <2>3. attempt' = [attempt EXCEPT
           ![a].proxy = IF leasing \/ free = {} THEN 0 ELSE m,
           ![a].at = IF ~leasing /\ NumProxies > 0 /\ free = {} THEN "over" ELSE "buy"]
    BY <1>2, <2>1 DEF StartAttempt
  <2> QED BY <2>2, <2>3
<1>4. PICK r : r = [attempt[a] EXCEPT !.proxy = proxy, !.at = at]
  OBVIOUS
<1>5. attempt' = [attempt EXCEPT ![a] = r]
  BY <1>1, <1>3, <1>4 DEF SupplyTyped
<1>6. /\ r \in AttemptRow /\ r.at = at /\ r.proxy = proxy /\ r.lease = attempt[a].lease
      /\ r.why = attempt[a].why
  BY <1>1, <1>4 DEF AttemptRow, Steps
<1>7. Fits(r, number[a], port[a], a \in signed', booked[a], astray[a])
  BY <1>1, <1>6 DEF Fits, StartAttempt
<1>8. beside' \in [Attempts -> SUBSET Attempts]
  BY <1>1 DEF SupplyTyped, StartAttempt
<1>9. Turned(a, r, number[a], port[a], booked[a], astray[a])
  BY <1>5, <1>8 DEF Turned, StartAttempt
<1>10. /\ number[a] \in {"none", "open", "used", "cancelled"} /\ port[a] \in {"none", "held", "released"}
       /\ booked[a] \in States \cup {"none"} /\ astray[a] \in SUBSET Costs
  BY AttemptIs
<1> QED BY <1>6, <1>7, <1>9, <1>10, TurnedKeeps

LEMMA BuyCosts == ASSUME CostInv, NEW a \in Attempts, BuyNumber(a) PROVE CostInv'
<1>1. /\ attempt[a] \in AttemptRow /\ SupplyTyped /\ beside \in [Attempts -> SUBSET Attempts]
      /\ port[a] \in {"none", "held", "released"} /\ booked[a] \in States \cup {"none"} /\ astray[a] \in SUBSET Costs
      /\ Fits(attempt[a], number[a], port[a], a \in signed, booked[a], astray[a])
      /\ attempt[a].at = "buy" /\ UNCHANGED <<leasing, port, signed, booked, beside>>
      /\ number[a] \in {"none", "open", "used", "cancelled"}
  BY AttemptIs DEF BuyNumber
<1>2. PICK r : r = attempt'[a]
  OBVIOUS
<1>3. CASE Goes(a, IF leasing THEN "allocate" ELSE "connect")
           /\ number' = [number EXCEPT ![a] = "open"] /\ UNCHANGED astray
  <2>1. /\ r \in AttemptRow /\ attempt' = [attempt EXCEPT ![a] = r]
        /\ r.at = (IF leasing THEN "allocate" ELSE "connect")
        /\ r.lease = attempt[a].lease /\ r.why = attempt[a].why
    <3>1. (IF leasing THEN "allocate" ELSE "connect") \in Steps
      BY DEF Steps
    <3> QED BY <1>1, <1>2, <1>3, <3>1, GoesTo
  <2>2. Fits(r, "open", port[a], a \in signed', booked[a], astray[a])
    BY <1>1, <2>1 DEF Fits, Leased
  <2>3. Turned(a, r, "open", port[a], booked[a], astray[a])
    BY <1>1, <1>3, <2>1 DEF Turned
  <2> QED BY <1>1, <2>1, <2>2, <2>3, TurnedKeeps
<1>4. CASE Goes(a, "over") /\ UNCHANGED <<number, astray>>
  <2>1. r \in AttemptRow /\ attempt' = [attempt EXCEPT ![a] = r] /\ r.at = "over"
    BY <1>1, <1>2, <1>4, GoesTo DEF Steps
  <2>2. Fits(r, number[a], port[a], a \in signed', booked[a], astray[a])
    BY <1>1, <2>1 DEF Fits
  <2>3. Turned(a, r, number[a], port[a], booked[a], astray[a])
    BY <1>1, <1>4, <2>1 DEF Turned
  <2> QED BY <1>1, <2>1, <2>2, <2>3, TurnedKeeps
<1>5. CASE Goes(a, "over") /\ number' = [number EXCEPT ![a] = "open"] /\ Loses(a, "number")
  <2>1. r \in AttemptRow /\ attempt' = [attempt EXCEPT ![a] = r] /\ r.at = "over"
    BY <1>1, <1>2, <1>5, GoesTo DEF Steps
  <2>2. PICK out \in SUBSET Costs : out = astray[a] \cup {"number"}
    BY <1>1 DEF Costs
  <2>3. Fits(r, "open", port[a], a \in signed', booked[a], out)
    BY <1>1, <2>1, <2>2 DEF Fits
  <2>4. Turned(a, r, "open", port[a], booked[a], out)
    BY <1>1, <1>5, <2>1, <2>2 DEF Turned, Loses
  <2> QED BY <1>1, <2>1, <2>3, <2>4, TurnedKeeps
<1> QED BY <1>3, <1>4, <1>5 DEF BuyNumber

LEMMA AllocateCosts == ASSUME CostInv, NEW a \in Attempts, Allocate(a) PROVE CostInv'
<1>1. /\ attempt[a] \in AttemptRow /\ SupplyTyped /\ beside \in [Attempts -> SUBSET Attempts]
      /\ port[a] \in {"none", "held", "released"} /\ booked[a] \in States \cup {"none"} /\ astray[a] \in SUBSET Costs
      /\ Fits(attempt[a], number[a], port[a], a \in signed, booked[a], astray[a])
      /\ attempt[a].at = "allocate" /\ UNCHANGED <<leasing, number, signed, booked, beside>>
      /\ number[a] \in {"none", "open", "used", "cancelled"}
  BY AttemptIs DEF Allocate
<1>2. PICK r : r = attempt'[a]
  OBVIOUS
<1>3. CASE /\ attempt' = [attempt EXCEPT ![a].at = "connect", ![a].lease = TRUE]
           /\ port' = [port EXCEPT ![a] = "held"] /\ UNCHANGED astray
  <2>1. PICK q : q = [attempt[a] EXCEPT !.at = "connect", !.lease = TRUE]
    OBVIOUS
  <2>2. attempt' = [attempt EXCEPT ![a] = q]
    BY <1>1, <1>3, <2>1 DEF SupplyTyped
  <2>3. /\ q \in AttemptRow /\ q.at = "connect" /\ q.lease /\ q.why = attempt[a].why
    BY <1>1, <2>1 DEF AttemptRow, Steps
  <2>4. Fits(q, number[a], "held", a \in signed', booked[a], astray[a])
    BY <1>1, <2>3 DEF Fits, Leased
  <2>5. Turned(a, q, number[a], "held", booked[a], astray[a])
    BY <1>1, <1>3, <2>2 DEF Turned
  <2> QED BY <1>1, <2>3, <2>4, <2>5, TurnedKeeps
<1>4. CASE Raises(a, "error") /\ UNCHANGED <<port, astray>>
  <2>1. /\ r \in AttemptRow /\ attempt' = [attempt EXCEPT ![a] = r] /\ r.at = "cancel" /\ r.why = "error"
        /\ r.lease = attempt[a].lease
    BY <1>1, <1>2, <1>4, RaisesTo
  <2>2. Fits(r, number[a], port[a], a \in signed', booked[a], astray[a])
    BY <1>1, <2>1 DEF Fits, Unsold
  <2>3. Turned(a, r, number[a], port[a], booked[a], astray[a])
    BY <1>1, <1>4, <2>1 DEF Turned
  <2> QED BY <1>1, <2>1, <2>2, <2>3, TurnedKeeps
<1>5. CASE Raises(a, "error") /\ port' = [port EXCEPT ![a] = "held"] /\ Loses(a, "port")
  <2>1. /\ r \in AttemptRow /\ attempt' = [attempt EXCEPT ![a] = r] /\ r.at = "cancel" /\ r.why = "error"
        /\ r.lease = attempt[a].lease
    BY <1>1, <1>2, <1>5, RaisesTo
  <2>2. PICK out \in SUBSET Costs : out = astray[a] \cup {"port"}
    BY <1>1 DEF Costs
  <2>3. Fits(r, number[a], "held", a \in signed', booked[a], out)
    BY <1>1, <2>1, <2>2 DEF Fits, Unsold
  <2>4. Turned(a, r, number[a], "held", booked[a], out)
    BY <1>1, <1>5, <2>1, <2>2 DEF Turned, Loses
  <2> QED BY <1>1, <2>1, <2>3, <2>4, TurnedKeeps
<1> QED BY <1>3, <1>4, <1>5 DEF Allocate

LEMMA SendCodeCosts == ASSUME CostInv, NEW a \in Attempts, SendCode(a) PROVE CostInv'
<1>1. /\ attempt[a] \in AttemptRow /\ SupplyTyped /\ beside \in [Attempts -> SUBSET Attempts]
      /\ number[a] \in {"none", "open", "used", "cancelled"} /\ port[a] \in {"none", "held", "released"}
      /\ booked[a] \in States \cup {"none"} /\ astray[a] \in SUBSET Costs
      /\ Fits(attempt[a], number[a], port[a], a \in signed, booked[a], astray[a])
      /\ attempt[a].at = "connect" /\ UNCHANGED <<leasing, number, port, signed, booked, astray, beside>>
  BY AttemptIs DEF SendCode
<1>2. PICK r : r = attempt'[a]
  OBVIOUS
<1>3. /\ r \in AttemptRow /\ attempt' = [attempt EXCEPT ![a] = r] /\ r.lease = attempt[a].lease
      /\ (r.at = "code" /\ r.why = attempt[a].why) \/ (r.at = "cancel" /\ r.why = "error")
  BY <1>1, <1>2, GoesTo, RaisesTo DEF SendCode, Steps
<1>4. Fits(r, number[a], port[a], a \in signed', booked[a], astray[a])
  BY <1>1, <1>3 DEF Fits, Leased, Unsold
<1>5. Turned(a, r, number[a], port[a], booked[a], astray[a])
  BY <1>1, <1>3 DEF Turned
<1> QED BY <1>1, <1>3, <1>4, <1>5, TurnedKeeps

LEMMA PollCodeCosts == ASSUME CostInv, NEW a \in Attempts, PollCode(a) PROVE CostInv'
<1>1. /\ attempt[a] \in AttemptRow /\ SupplyTyped /\ beside \in [Attempts -> SUBSET Attempts]
      /\ number[a] \in {"none", "open", "used", "cancelled"} /\ port[a] \in {"none", "held", "released"}
      /\ booked[a] \in States \cup {"none"} /\ astray[a] \in SUBSET Costs
      /\ Fits(attempt[a], number[a], port[a], a \in signed, booked[a], astray[a])
      /\ attempt[a].at = "code" /\ UNCHANGED <<leasing, number, port, signed, booked, astray, beside>>
  BY AttemptIs DEF PollCode
<1>2. PICK r : r = attempt'[a]
  OBVIOUS
<1>3. /\ r \in AttemptRow /\ attempt' = [attempt EXCEPT ![a] = r] /\ r.lease = attempt[a].lease
      /\ \/ r.at \in {"code", "sign in"} /\ r.why = attempt[a].why
         \/ r.at = "cancel" /\ r.why \in {"timeout", "error"}
  <2>1. CASE Goes(a, "sign in")
    BY <1>1, <1>2, <2>1, GoesTo DEF Steps
  <2>2. CASE Raises(a, "timeout") \/ Raises(a, "error")
    BY <1>1, <1>2, <2>2, RaisesTo
  <2>3. CASE attempt' = [attempt EXCEPT ![a].waits = @ + 1]
    <3>1. r = [attempt[a] EXCEPT !.waits = attempt[a].waits + 1]
      BY <1>1, <1>2, <2>3 DEF SupplyTyped
    <3>2. attempt' = [attempt EXCEPT ![a] = r]
      BY <1>1, <2>3, <3>1 DEF SupplyTyped
    <3>3. r \in AttemptRow /\ r.lease = attempt[a].lease /\ r.at = "code" /\ r.why = attempt[a].why
      BY <1>1, <3>1 DEF AttemptRow
    <3> QED BY <3>2, <3>3
  <2> QED BY <2>1, <2>2, <2>3 DEF PollCode
<1>4. Fits(r, number[a], port[a], a \in signed', booked[a], astray[a])
  BY <1>1, <1>3 DEF Fits, Leased, Unsold
<1>5. Turned(a, r, number[a], port[a], booked[a], astray[a])
  BY <1>1, <1>3 DEF Turned
<1> QED BY <1>1, <1>3, <1>4, <1>5, TurnedKeeps

LEMMA SignCosts == ASSUME CostInv, NEW a \in Attempts, Sign(a) PROVE CostInv'
<1>1. /\ attempt[a] \in AttemptRow /\ SupplyTyped /\ beside \in [Attempts -> SUBSET Attempts]
      /\ number[a] \in {"none", "open", "used", "cancelled"} /\ port[a] \in {"none", "held", "released"}
      /\ booked[a] \in States \cup {"none"} /\ astray[a] \in SUBSET Costs
      /\ Fits(attempt[a], number[a], port[a], a \in signed, booked[a], astray[a])
      /\ attempt[a].at \in {"sign in", "sign up"} /\ UNCHANGED <<leasing, number, port, booked, beside>>
  BY AttemptIs DEF Sign
<1>2. PICK r : r = attempt'[a]
  OBVIOUS
<1>3. CASE Goes(a, "me") /\ signed' = signed \cup {a} /\ UNCHANGED astray
  <2>1. /\ r \in AttemptRow /\ attempt' = [attempt EXCEPT ![a] = r] /\ r.at = "me"
        /\ r.lease = attempt[a].lease /\ r.why = attempt[a].why
    BY <1>1, <1>2, <1>3, GoesTo DEF Steps
  <2>2. Fits(r, number[a], port[a], a \in signed', booked[a], astray[a])
    BY <1>1, <1>3, <2>1 DEF Fits, Leased
  <2>3. Turned(a, r, number[a], port[a], booked[a], astray[a])
    BY <1>1, <1>3, <2>1 DEF Turned
  <2> QED BY <1>1, <2>1, <2>2, <2>3, TurnedKeeps
<1>4. CASE Goes(a, "sign up") /\ UNCHANGED <<signed, astray>>
  <2>1. /\ r \in AttemptRow /\ attempt' = [attempt EXCEPT ![a] = r] /\ r.at = "sign up"
        /\ r.lease = attempt[a].lease /\ r.why = attempt[a].why
    BY <1>1, <1>2, <1>4, GoesTo DEF Steps
  <2>2. Fits(r, number[a], port[a], a \in signed', booked[a], astray[a])
    BY <1>1, <1>4, <2>1 DEF Fits, Leased
  <2>3. Turned(a, r, number[a], port[a], booked[a], astray[a])
    BY <1>1, <1>4, <2>1 DEF Turned
  <2> QED BY <1>1, <2>1, <2>2, <2>3, TurnedKeeps
<1>5. CASE Raises(a, "error") /\ UNCHANGED <<signed, astray>>
  <2>1. /\ r \in AttemptRow /\ attempt' = [attempt EXCEPT ![a] = r] /\ r.at = "cancel"
        /\ r.lease = attempt[a].lease /\ r.why = "error"
    BY <1>1, <1>2, <1>5, RaisesTo
  <2>2. Fits(r, number[a], port[a], a \in signed', booked[a], astray[a])
    BY <1>1, <1>5, <2>1 DEF Fits, Leased, Unsold
  <2>3. Turned(a, r, number[a], port[a], booked[a], astray[a])
    BY <1>1, <1>5, <2>1 DEF Turned
  <2> QED BY <1>1, <2>1, <2>2, <2>3, TurnedKeeps
<1>6. CASE Raises(a, "error") /\ signed' = signed \cup {a} /\ Loses(a, "account")
  <2>1. /\ r \in AttemptRow /\ attempt' = [attempt EXCEPT ![a] = r] /\ r.at = "cancel"
        /\ r.lease = attempt[a].lease /\ r.why = "error"
    BY <1>1, <1>2, <1>6, RaisesTo
  <2>2. PICK out \in SUBSET Costs : out = astray[a] \cup {"account"}
    BY <1>1 DEF Costs
  <2>3. Fits(r, number[a], port[a], a \in signed', booked[a], out)
    BY <1>1, <1>6, <2>1, <2>2 DEF Fits, Leased, Unsold
  <2>4. Turned(a, r, number[a], port[a], booked[a], out)
    BY <1>1, <1>6, <2>1, <2>2 DEF Turned, Loses
  <2> QED BY <1>1, <2>1, <2>3, <2>4, TurnedKeeps
<1> QED BY <1>3, <1>4, <1>5, <1>6 DEF Sign

LEMMA GetMeCosts == ASSUME CostInv, NEW a \in Attempts, GetMe(a) PROVE CostInv'
<1>1. /\ attempt[a] \in AttemptRow /\ SupplyTyped /\ beside \in [Attempts -> SUBSET Attempts]
      /\ number[a] \in {"none", "open", "used", "cancelled"} /\ port[a] \in {"none", "held", "released"}
      /\ booked[a] \in States \cup {"none"} /\ astray[a] \in SUBSET Costs
      /\ Fits(attempt[a], number[a], port[a], a \in signed, booked[a], astray[a])
      /\ attempt[a].at = "me" /\ UNCHANGED <<leasing, number, port, signed, booked, beside>>
  BY AttemptIs DEF GetMe
<1>2. PICK r : r = attempt'[a]
  OBVIOUS
<1>3. CASE Goes(a, "finish") /\ UNCHANGED astray
  <2>1. /\ r \in AttemptRow /\ attempt' = [attempt EXCEPT ![a] = r] /\ r.at = "finish"
        /\ r.lease = attempt[a].lease /\ r.why = attempt[a].why
    BY <1>1, <1>2, <1>3, GoesTo DEF Steps
  <2>2. Fits(r, number[a], port[a], a \in signed', booked[a], astray[a])
    BY <1>1, <1>3, <2>1 DEF Fits, Leased
  <2>3. Turned(a, r, number[a], port[a], booked[a], astray[a])
    BY <1>1, <1>3, <2>1 DEF Turned
  <2> QED BY <1>1, <2>1, <2>2, <2>3, TurnedKeeps
<1>4. CASE Raises(a, "error") /\ Loses(a, "account")
  <2>1. /\ r \in AttemptRow /\ attempt' = [attempt EXCEPT ![a] = r] /\ r.at = "cancel"
        /\ r.lease = attempt[a].lease /\ r.why = "error"
    BY <1>1, <1>2, <1>4, RaisesTo
  <2>2. PICK out \in SUBSET Costs : out = astray[a] \cup {"account"}
    BY <1>1 DEF Costs
  <2>3. Fits(r, number[a], port[a], a \in signed', booked[a], out)
    BY <1>1, <2>1, <2>2 DEF Fits, Leased, Unsold
  <2>4. Turned(a, r, number[a], port[a], booked[a], out)
    BY <1>1, <1>4, <2>1, <2>2 DEF Turned, Loses
  <2> QED BY <1>1, <2>1, <2>3, <2>4, TurnedKeeps
<1> QED BY <1>3, <1>4 DEF GetMe

LEMMA FinishCosts == ASSUME CostInv, NEW a \in Attempts, Finish(a) PROVE CostInv'
<1>1. /\ attempt[a] \in AttemptRow /\ SupplyTyped /\ beside \in [Attempts -> SUBSET Attempts]
      /\ number[a] \in {"none", "open", "used", "cancelled"} /\ port[a] \in {"none", "held", "released"}
      /\ booked[a] \in States \cup {"none"} /\ astray[a] \in SUBSET Costs
      /\ Fits(attempt[a], number[a], port[a], a \in signed, booked[a], astray[a])
      /\ attempt[a].at = "finish" /\ UNCHANGED <<leasing, port, signed, booked, beside>>
  BY AttemptIs DEF Finish
<1>2. PICK r : r = attempt'[a]
  OBVIOUS
<1>3. /\ r \in AttemptRow /\ attempt' = [attempt EXCEPT ![a] = r] /\ r.at = "book"
      /\ r.lease = attempt[a].lease /\ r.why = attempt[a].why
  BY <1>1, <1>2, GoesTo DEF Steps, Finish
<1>4. CASE number' = [number EXCEPT ![a] = "used"] /\ UNCHANGED astray
  <2>1. Fits(r, "used", port[a], a \in signed', booked[a], astray[a])
    BY <1>1, <1>3 DEF Fits, Leased
  <2>2. Turned(a, r, "used", port[a], booked[a], astray[a])
    BY <1>1, <1>3, <1>4 DEF Turned
  <2> QED BY <1>1, <1>3, <2>1, <2>2, TurnedKeeps
<1>5. CASE UNCHANGED number /\ Loses(a, "number")
  <2>1. PICK out \in SUBSET Costs : out = astray[a] \cup {"number"}
    BY <1>1 DEF Costs
  <2>2. Fits(r, number[a], port[a], a \in signed', booked[a], out)
    BY <1>1, <1>3, <2>1 DEF Fits, Leased
  <2>3. Turned(a, r, number[a], port[a], booked[a], out)
    BY <1>1, <1>3, <1>5, <2>1 DEF Turned, Loses
  <2> QED BY <1>1, <1>3, <2>2, <2>3, TurnedKeeps
<1> QED BY <1>4, <1>5 DEF Finish

LEMMA CancelCosts == ASSUME CostInv, NEW a \in Attempts, Cancel(a) PROVE CostInv'
<1>1. /\ attempt[a] \in AttemptRow /\ SupplyTyped /\ beside \in [Attempts -> SUBSET Attempts]
      /\ number[a] \in {"none", "open", "used", "cancelled"} /\ port[a] \in {"none", "held", "released"}
      /\ booked[a] \in States \cup {"none"} /\ astray[a] \in SUBSET Costs
      /\ Fits(attempt[a], number[a], port[a], a \in signed, booked[a], astray[a])
      /\ attempt[a].at = "cancel" /\ UNCHANGED <<leasing, port, signed, booked, beside>>
  BY AttemptIs DEF Cancel
<1>2. PICK r : r = attempt'[a]
  OBVIOUS
<1>3. /\ r \in AttemptRow /\ attempt' = [attempt EXCEPT ![a] = r] /\ r.lease = attempt[a].lease
      /\ r.at = AfterCancel(a) /\ r.why = (IF r.at = "over" THEN "none" ELSE attempt[a].why)
  <2>1. AfterCancel(a) \in Steps
    BY DEF AfterCancel, Settles, Steps
  <2> QED BY <1>1, <1>2, <2>1, GoesTo DEF Cancel
<1>4. \/ r.lease /\ r.at = "release"
      \/ ~r.lease /\ attempt[a].why = "timeout" /\ r.at = "book"
      \/ ~r.lease /\ attempt[a].why = "error" /\ r.at = "over"
  BY <1>1, <1>3 DEF AfterCancel, Settles, Fits, Unsold, AttemptRow
<1>5. CASE number' = [number EXCEPT ![a] = "cancelled"] /\ UNCHANGED astray
  <2>1. Fits(r, "cancelled", port[a], a \in signed', booked[a], astray[a])
    BY <1>1, <1>3, <1>4 DEF Fits, Unsold
  <2>2. Turned(a, r, "cancelled", port[a], booked[a], astray[a])
    BY <1>1, <1>3, <1>5 DEF Turned
  <2> QED BY <1>1, <1>3, <2>1, <2>2, TurnedKeeps
<1>6. CASE UNCHANGED number /\ Loses(a, "number")
  <2>1. PICK out \in SUBSET Costs : out = astray[a] \cup {"number"}
    BY <1>1 DEF Costs
  <2>2. Fits(r, number[a], port[a], a \in signed', booked[a], out)
    BY <1>1, <1>3, <1>4, <2>1 DEF Fits, Unsold
  <2>3. Turned(a, r, number[a], port[a], booked[a], out)
    BY <1>1, <1>3, <1>6, <2>1 DEF Turned, Loses
  <2> QED BY <1>1, <1>3, <2>2, <2>3, TurnedKeeps
<1> QED BY <1>5, <1>6 DEF Cancel

LEMMA ReleaseCosts == ASSUME CostInv, NEW a \in Attempts, ReleasePort(a) PROVE CostInv'
<1>1. /\ attempt[a] \in AttemptRow /\ SupplyTyped /\ beside \in [Attempts -> SUBSET Attempts]
      /\ number[a] \in {"none", "open", "used", "cancelled"} /\ port[a] \in {"none", "held", "released"}
      /\ booked[a] \in States \cup {"none"} /\ astray[a] \in SUBSET Costs
      /\ Fits(attempt[a], number[a], port[a], a \in signed, booked[a], astray[a])
      /\ attempt[a].at = "release" /\ UNCHANGED <<leasing, number, signed, booked, beside>>
  BY AttemptIs DEF ReleasePort
<1>2. PICK r : r = attempt'[a]
  OBVIOUS
<1>3. /\ r \in AttemptRow /\ attempt' = [attempt EXCEPT ![a] = r] /\ r.lease = attempt[a].lease
      /\ r.at = Settles(a) /\ r.why = (IF r.at = "over" THEN "none" ELSE attempt[a].why)
  <2>1. Settles(a) \in Steps
    BY DEF Settles, Steps
  <2> QED BY <1>1, <1>2, <2>1, GoesTo DEF ReleasePort
<1>4. \/ attempt[a].why = "timeout" /\ r.at = "book"
      \/ attempt[a].why = "error" /\ r.at = "over"
  BY <1>1, <1>3 DEF Settles, Fits, Unsold, AttemptRow
<1>5. CASE port' = [port EXCEPT ![a] = "released"] /\ UNCHANGED astray
  <2>1. Fits(r, number[a], "released", a \in signed', booked[a], astray[a])
    BY <1>1, <1>3, <1>4 DEF Fits, Unsold
  <2>2. Turned(a, r, number[a], "released", booked[a], astray[a])
    BY <1>1, <1>3, <1>5 DEF Turned
  <2> QED BY <1>1, <1>3, <2>1, <2>2, TurnedKeeps
<1>6. CASE UNCHANGED port /\ Loses(a, "port")
  <2>1. PICK out \in SUBSET Costs : out = astray[a] \cup {"port"}
    BY <1>1 DEF Costs
  <2>2. Fits(r, number[a], port[a], a \in signed', booked[a], out)
    BY <1>1, <1>3, <1>4, <2>1 DEF Fits, Unsold
  <2>3. Turned(a, r, number[a], port[a], booked[a], out)
    BY <1>1, <1>3, <1>6, <2>1 DEF Turned, Loses
  <2> QED BY <1>1, <1>3, <2>2, <2>3, TurnedKeeps
<1> QED BY <1>5, <1>6 DEF ReleasePort, GivesBack

LEMMA BookCosts == ASSUME CostInv, NEW a \in Attempts, Book(a) PROVE CostInv'
<1>1. /\ attempt[a] \in AttemptRow /\ SupplyTyped /\ beside \in [Attempts -> SUBSET Attempts]
      /\ number[a] \in {"none", "open", "used", "cancelled"} /\ port[a] \in {"none", "held", "released"}
      /\ astray[a] \in SUBSET Costs
      /\ Fits(attempt[a], number[a], port[a], a \in signed, booked[a], astray[a])
      /\ attempt[a].at = "book" /\ UNCHANGED <<leasing, number, port, signed, astray, beside>>
  BY AttemptIs DEF Book
<1>2. PICK r : r = attempt'[a]
  OBVIOUS
<1>3. /\ r \in AttemptRow /\ attempt' = [attempt EXCEPT ![a] = r] /\ r.lease = attempt[a].lease
      /\ r.at = "over"
  BY <1>1, <1>2, GoesTo DEF Book, Steps
<1>4. PICK b \in States : /\ b = IF attempt[a].why = "timeout" THEN "failed" ELSE "probation"
                          /\ booked' = [booked EXCEPT ![a] = b]
  BY DEF Book, States
<1>5. attempt[a].why \in {"none", "timeout"}
  BY <1>1 DEF Fits, AttemptRow
<1>6. CASE attempt[a].why = "timeout" /\ b = "failed"
  BY <1>1, <1>3, <1>4, <1>6, TurnedKeeps DEF Fits, Turned
<1>7. CASE attempt[a].why = "none" /\ b = "probation"
  BY <1>1, <1>3, <1>4, <1>7, TurnedKeeps DEF Fits, Leased, Turned
<1> QED BY <1>4, <1>5, <1>6, <1>7

LEMMA DiesCosts == ASSUME CostInv, NEW a \in Attempts, AttemptDies(a) PROVE CostInv'
<1>1. /\ attempt[a] \in AttemptRow /\ SupplyTyped /\ beside \in [Attempts -> SUBSET Attempts]
      /\ number[a] \in {"none", "open", "used", "cancelled"} /\ port[a] \in {"none", "held", "released"}
      /\ booked[a] \in States \cup {"none"}
      /\ Fits(attempt[a], number[a], port[a], a \in signed, booked[a], astray[a])
      /\ attempt[a].at \notin {"reject", "over"}
      /\ UNCHANGED <<leasing, number, port, signed, booked, beside>>
  BY AttemptIs DEF AttemptDies, UnderWay
<1>2. PICK r : r = attempt'[a]
  OBVIOUS
<1>3. r \in AttemptRow /\ attempt' = [attempt EXCEPT ![a] = r] /\ r.at = "over"
  BY <1>1, <1>2, GoesTo DEF AttemptDies, Steps
<1>4. PICK out \in SUBSET Costs : out = Costs
  OBVIOUS
<1>5. Fits(r, number[a], port[a], a \in signed', booked[a], out)
  BY <1>1, <1>3, <1>4 DEF Fits, Costs
<1>6. Turned(a, r, number[a], port[a], booked[a], out)
  BY <1>1, <1>3, <1>4 DEF Turned, AttemptDies
<1> QED BY <1>1, <1>3, <1>5, <1>6, TurnedKeeps

LEMMA PromotedCosts == ASSUME CostInv, NEW a \in Attempts, Promoted(a) PROVE CostInv'
<1>1. /\ attempt[a] \in AttemptRow /\ SupplyTyped /\ beside \in [Attempts -> SUBSET Attempts]
      /\ number[a] \in {"none", "open", "used", "cancelled"} /\ port[a] \in {"none", "held", "released"}
      /\ astray[a] \in SUBSET Costs
      /\ Fits(attempt[a], number[a], port[a], a \in signed, booked[a], astray[a])
      /\ booked[a] = "probation" /\ attempt[a].at = "over"
      /\ UNCHANGED <<leasing, number, signed, attempt, beside, port, astray>>
  BY AttemptIs DEF Promoted, Shifts
<1>2. PICK r : r = attempt[a] /\ r \in AttemptRow
  BY <1>1
<1>3. attempt' = [attempt EXCEPT ![a] = r] /\ r.at = "over"
  BY <1>1, <1>2 DEF SupplyTyped
<1>4. Fits(r, number[a], port[a], a \in signed', "promoted", astray[a])
  BY <1>1, <1>2, <1>3 DEF Fits
<1>5. Turned(a, r, number[a], port[a], "promoted", astray[a])
  BY <1>1, <1>3 DEF Turned, Promoted, Shifts
<1>6. "promoted" \in States
  BY DEF States
<1> QED BY <1>1, <1>2, <1>4, <1>5, <1>6, TurnedKeeps

LEMMA RejectsCosts == ASSUME CostInv, NEW a \in Attempts, Rejects(a) PROVE CostInv'
<1>1. /\ attempt[a] \in AttemptRow /\ SupplyTyped /\ beside \in [Attempts -> SUBSET Attempts]
      /\ number[a] \in {"none", "open", "used", "cancelled"} /\ port[a] \in {"none", "held", "released"}
      /\ booked[a] \in States \cup {"none"} /\ astray[a] \in SUBSET Costs
      /\ Fits(attempt[a], number[a], port[a], a \in signed, booked[a], astray[a])
      /\ booked[a] = "probation" /\ attempt[a].at = "over"
      /\ UNCHANGED <<leasing, number, signed, booked, beside>>
  BY AttemptIs DEF Rejects
<1>2. PICK r : r = attempt'[a]
  OBVIOUS
<1>3. /\ r \in AttemptRow /\ attempt' = [attempt EXCEPT ![a] = r] /\ r.at = "reject"
      /\ r.lease = attempt[a].lease
  BY <1>1, <1>2, GoesTo DEF Rejects, Steps
<1>4. CASE ~attempt[a].lease
  <2>1. Fits(r, number[a], port[a], a \in signed', booked[a], astray[a])
    BY <1>1, <1>3, <1>4 DEF Fits
  <2>2. Turned(a, r, number[a], port[a], booked[a], astray[a])
    BY <1>1, <1>3, <1>4 DEF Turned, Rejects
  <2> QED BY <1>1, <1>3, <2>1, <2>2, TurnedKeeps
<1>5. CASE attempt[a].lease /\ port' = [port EXCEPT ![a] = "released"] /\ UNCHANGED astray
  <2>1. Fits(r, number[a], "released", a \in signed', booked[a], astray[a])
    BY <1>1, <1>3 DEF Fits
  <2>2. Turned(a, r, number[a], "released", booked[a], astray[a])
    BY <1>1, <1>3, <1>5 DEF Turned
  <2> QED BY <1>1, <1>3, <2>1, <2>2, TurnedKeeps
<1>6. CASE attempt[a].lease /\ UNCHANGED port /\ Loses(a, "port")
  <2>1. PICK out \in SUBSET Costs : out = astray[a] \cup {"port"}
    BY <1>1 DEF Costs
  <2>2. Fits(r, number[a], port[a], a \in signed', booked[a], out)
    BY <1>1, <1>3, <2>1 DEF Fits
  <2>3. Turned(a, r, number[a], port[a], booked[a], out)
    BY <1>1, <1>3, <1>6, <2>1 DEF Turned, Loses
  <2> QED BY <1>1, <1>3, <2>2, <2>3, TurnedKeeps
<1> QED BY <1>4, <1>5, <1>6 DEF Rejects, GivesBack

LEMMA RejectedCosts == ASSUME CostInv, NEW a \in Attempts, Rejected(a) PROVE CostInv'
<1>1. /\ attempt[a] \in AttemptRow /\ SupplyTyped /\ beside \in [Attempts -> SUBSET Attempts]
      /\ number[a] \in {"none", "open", "used", "cancelled"} /\ port[a] \in {"none", "held", "released"}
      /\ astray[a] \in SUBSET Costs
      /\ Fits(attempt[a], number[a], port[a], a \in signed, booked[a], astray[a])
      /\ booked[a] = "probation" /\ attempt[a].at = "reject"
      /\ UNCHANGED <<leasing, number, signed, beside, port, astray>>
  BY AttemptIs DEF Rejected, Shifts
<1>2. PICK r : r = attempt'[a]
  OBVIOUS
<1>3. /\ r \in AttemptRow /\ attempt' = [attempt EXCEPT ![a] = r] /\ r.at = "over"
      /\ r.lease = attempt[a].lease
  BY <1>1, <1>2, GoesTo DEF Rejected, Steps
<1>4. Fits(r, number[a], port[a], a \in signed', "failed", astray[a])
  BY <1>1, <1>3 DEF Fits
<1>5. Turned(a, r, number[a], port[a], "failed", astray[a])
  BY <1>1, <1>3 DEF Turned, Rejected, Shifts
<1>6. "failed" \in States
  BY DEF States
<1> QED BY <1>1, <1>3, <1>4, <1>5, <1>6, TurnedKeeps

LEMMA RejectionLostCosts == ASSUME CostInv, NEW a \in Attempts, RejectionLost(a) PROVE CostInv'
<1>1. /\ attempt[a] \in AttemptRow /\ SupplyTyped /\ beside \in [Attempts -> SUBSET Attempts]
      /\ number[a] \in {"none", "open", "used", "cancelled"} /\ port[a] \in {"none", "held", "released"}
      /\ booked[a] \in States \cup {"none"} /\ astray[a] \in SUBSET Costs
      /\ Fits(attempt[a], number[a], port[a], a \in signed, booked[a], astray[a])
      /\ attempt[a].at = "reject" /\ UNCHANGED <<leasing, number, signed, booked, beside, port>>
  BY AttemptIs DEF RejectionLost
<1>2. PICK r : r = attempt'[a]
  OBVIOUS
<1>3. /\ r \in AttemptRow /\ attempt' = [attempt EXCEPT ![a] = r] /\ r.at = "over"
      /\ r.lease = attempt[a].lease
  BY <1>1, <1>2, GoesTo DEF RejectionLost, Steps
<1>4. CASE ~attempt[a].lease
  <2>1. Fits(r, number[a], port[a], a \in signed', booked[a], astray[a])
    BY <1>1, <1>3, <1>4 DEF Fits
  <2>2. Turned(a, r, number[a], port[a], booked[a], astray[a])
    BY <1>1, <1>3, <1>4 DEF Turned, RejectionLost
  <2> QED BY <1>1, <1>3, <2>1, <2>2, TurnedKeeps
<1>5. CASE attempt[a].lease
  <2>1. PICK out \in SUBSET Costs : out = astray[a] \cup {"port"}
    BY <1>1 DEF Costs
  <2>2. Fits(r, number[a], port[a], a \in signed', booked[a], out)
    BY <1>1, <1>3, <2>1 DEF Fits
  <2>3. Turned(a, r, number[a], port[a], booked[a], out)
    BY <1>1, <1>3, <1>5, <2>1 DEF Turned, RejectionLost, Loses
  <2> QED BY <1>1, <1>3, <2>2, <2>3, TurnedKeeps
<1> QED BY <1>4, <1>5

LEMMA CostsRest ==
  CostInv /\ UNCHANGED <<leasing, number, port, signed, booked, attempt, astray, beside>> => CostInv'
<1> SUFFICES ASSUME CostInv, UNCHANGED <<leasing, number, port, signed, booked, attempt, astray, beside>>
             PROVE  CostInv'
  OBVIOUS
<1>1. SupplyTyped'
  BY DEF CostInv, SupplyTyped
<1>2. ASSUME NEW a \in Attempts PROVE Fit(a)'
  <2>1. Fit(a)
    BY DEF CostInv
  <2> QED BY <2>1 DEF Fit, Fits, Leased, Unsold
<1> QED BY <1>1, <1>2 DEF CostInv

LEMMA CostsGoOn == CostInv /\ (SupplyNext \/ UNCHANGED supplyVars) => CostInv'
<1> SUFFICES ASSUME CostInv, SupplyNext \/ UNCHANGED supplyVars PROVE CostInv'
  OBVIOUS
<1>1. CASE AskForList \/ (\E state \in States : ReadState(state)) \/ UNCHANGED supplyVars
  BY <1>1, CostsRest DEF AskForList, ReadState, supplyVars
<1> QED BY <1>1, StartCosts, BuyCosts, AllocateCosts, SendCodeCosts, PollCodeCosts, SignCosts, GetMeCosts,
     FinishCosts, CancelCosts, ReleaseCosts, BookCosts, DiesCosts, PromotedCosts, RejectsCosts, RejectedCosts,
     RejectionLostCosts DEF SupplyNext

LEMMA NothingLeaks == CostInv => NothingPaidLeaks
<1> SUFFICES ASSUME CostInv, NEW a \in Attempts
             PROVE  LET over == attempt[a].at = "over"
                        alive == booked[a] \in {"probation", "promoted"}
                    IN  /\ over /\ "number" \notin astray[a] =>
                             number[a] = IF a \in signed /\ booked[a] # "none" THEN "used"
                                         ELSE IF number[a] = "none" THEN "none" ELSE "cancelled"
                        /\ over /\ "port" \notin astray[a] => (port[a] = "held" <=> leasing /\ alive)
                        /\ over /\ "account" \notin astray[a] /\ a \in signed => booked[a] # "none"
                        /\ alive => a \in signed
                        /\ ~over /\ port[a] = "held" => number[a] # "none"
  BY DEF NothingPaidLeaks
<1>1. /\ attempt[a] \in AttemptRow /\ number[a] \in {"none", "open", "used", "cancelled"}
      /\ booked[a] \in {"none", "probation", "promoted", "failed"} /\ leasing \in BOOLEAN
      /\ Fits(attempt[a], number[a], port[a], a \in signed, booked[a], astray[a])
  BY AttemptIs DEF States, SupplyTyped
<1>2. attempt[a].at \in Steps
  BY <1>1 DEF AttemptRow
<1> QED BY <1>1, <1>2 DEF Fits, Leased, Steps

\* An attempt that is over and has nothing in the books stays so.
Dead(a) == attempt[a].at = "over" /\ booked[a] \in {"none", "failed"}

\* Who shares a proxy with another was bought beside it, or one of them is dead.
ShareInv ==
  \A a, b \in Attempts :
    a # b /\ attempt[a].proxy = attempt[b].proxy /\ attempt[a].proxy # 0
      => a \in beside[b] \/ b \in beside[a] \/ Dead(a) \/ Dead(b)

LEMMA SharingStays ==
  ASSUME ShareInv, UNCHANGED beside,
         \A a \in Attempts : attempt'[a].proxy = attempt[a].proxy /\ (Dead(a) => Dead(a)')
  PROVE  ShareInv'
BY DEF ShareInv

\* Where an attempt goes, it keeps its proxy.
LEMMA ProxyStays ==
  ASSUME CostInv, NEW a \in Attempts, attempt' = [attempt EXCEPT ![a] = attempt'[a]],
         attempt'[a].proxy = attempt[a].proxy, ~Dead(a),
         \A b \in Attempts \ {a} : booked'[b] = booked[b]
  PROVE  \A b \in Attempts : attempt'[b].proxy = attempt[b].proxy /\ (Dead(b) => Dead(b)')
<1>1. attempt \in [Attempts -> AttemptRow]
  BY DEF CostInv, SupplyTyped
<1> TAKE b \in Attempts
<1>2. CASE b = a
  BY <1>2
<1>3. CASE b # a
  <2>1. attempt'[b] = attempt[b] /\ booked'[b] = booked[b]
    BY <1>1, <1>3
  <2> QED BY <2>1 DEF Dead
<1> QED BY <1>2, <1>3

LEMMA GoingShares ==
  ASSUME CostInv, ShareInv, NEW a \in Attempts, UNCHANGED <<beside, booked>>, attempt[a].at # "over",
         (\E step \in Steps : Goes(a, step)) \/ (\E why \in {"timeout", "error"} : Raises(a, why))
  PROVE  ShareInv'
<1>1. SupplyTyped
  BY DEF CostInv
<1>2. attempt' = [attempt EXCEPT ![a] = attempt'[a]] /\ attempt'[a].proxy = attempt[a].proxy
  BY <1>1, GoesTo, RaisesTo
<1>3. ~Dead(a)
  BY DEF Dead
<1>4. \A b \in Attempts \ {a} : booked'[b] = booked[b]
  OBVIOUS
<1> QED BY <1>2, <1>3, <1>4, ProxyStays, SharingStays

LEMMA StartShares == ASSUME CostInv, ShareInv, NEW a \in Attempts, StartAttempt(a) PROVE ShareInv'
<1>1. /\ attempt \in [Attempts -> AttemptRow] /\ beside \in [Attempts -> SUBSET Attempts]
      /\ booked \in [Attempts -> States \cup {"none"}] /\ attempt[a].at = "off" /\ UNCHANGED booked
  BY DEF CostInv, SupplyTyped, StartAttempt
<1>2. PICK free : free = (1..NumProxies) \ Used
  OBVIOUS
<1>3. PICK m : m = Min(free)
  OBVIOUS
<1>4. free # {} => m \in free
  <2>1. free \in SUBSET (1..NumProxies) /\ free \in SUBSET Int
    BY <1>2, SupplyParameters
  <2>2. IsFiniteSet(free)
    <3>1. IsFiniteSet(1..NumProxies)
      BY SupplyParameters, FS_Interval
    <3> QED BY <2>1, <3>1, FS_Subset
  <2>3. free # {} => \E x \in free : \A y \in free : x <= y
    BY <2>1, <2>2, ExtremesExist
  <2> QED BY <1>3, <2>3 DEF Min
<1>5. PICK proxy, at : /\ attempt' = [attempt EXCEPT ![a].proxy = proxy, ![a].at = at]
                       /\ proxy # 0 => ~leasing /\ proxy \in free
  <2>1. attempt' = [attempt EXCEPT
           ![a].proxy = IF leasing \/ free = {} THEN 0 ELSE m,
           ![a].at = IF ~leasing /\ NumProxies > 0 /\ free = {} THEN "over" ELSE "buy"]
    BY <1>2, <1>3 DEF StartAttempt
  <2> QED BY <1>4, <2>1
<1>6. /\ attempt'[a].proxy = proxy
      /\ \A b \in Attempts \ {a} : attempt'[b] = attempt[b] /\ beside'[b] = beside[b]
      /\ ~leasing => beside'[a] = {b \in Attempts \ {a} : UnderWay(b) \/ booked[b] = "promoted"}
  <2>1. attempt[a] \in AttemptRow /\ attempt'[a] = [attempt[a] EXCEPT !.proxy = proxy, !.at = at]
    BY <1>1, <1>5
  <2>2. attempt'[a].proxy = proxy
    BY <2>1 DEF AttemptRow
  <2>3. \A b \in Attempts \ {a} : attempt'[b] = attempt[b]
    BY <1>1, <1>5
  <2>4. /\ \A b \in Attempts \ {a} : beside'[b] = beside[b]
        /\ ~leasing => beside'[a] = {b \in Attempts \ {a} : UnderWay(b) \/ booked[b] = "promoted"}
    BY <1>1 DEF StartAttempt
  <2> QED BY <2>2, <2>3, <2>4
\* Whoever has the proxy already is on its way, promoted or dead.
<1>7. ASSUME NEW b \in Attempts \ {a}, attempt[b].proxy = proxy, proxy # 0
      PROVE  b \in beside'[a] \/ Dead(b)
  <2>1. proxy \notin Used
    BY <1>2, <1>5, <1>7
  <2>2. booked[b] # "probation"
    BY <1>7, <2>1 DEF Used
  <2>3. attempt[b].at # "off"
    BY <1>7, AttemptIs DEF Fits
  <2>4. booked[b] \in {"none", "probation", "promoted", "failed"}
    BY <1>1 DEF States
  <2>5. attempt[b].at # "reject"
    BY <2>2, AttemptIs DEF Fits
  <2> QED BY <1>5, <1>6, <1>7, <2>2, <2>3, <2>4, <2>5 DEF Dead, UnderWay
<1>8. \A b \in Attempts \ {a} : Dead(b) => Dead(b)'
  BY <1>1, <1>6 DEF Dead
<1> SUFFICES ASSUME NEW b \in Attempts, NEW c \in Attempts, b # c,
                    attempt'[b].proxy = attempt'[c].proxy, attempt'[b].proxy # 0
             PROVE  b \in beside'[c] \/ c \in beside'[b] \/ Dead(b)' \/ Dead(c)'
  BY DEF ShareInv
<1>9. CASE b = a
  BY <1>6, <1>7, <1>8, <1>9
<1>10. CASE c = a
  BY <1>6, <1>7, <1>8, <1>10
<1>11. CASE b # a /\ c # a
  BY <1>6, <1>8, <1>11 DEF ShareInv
<1> QED BY <1>9, <1>10, <1>11

LEMMA SharesGoOn == CostInv /\ ShareInv /\ (SupplyNext \/ UNCHANGED supplyVars) => ShareInv'
<1> SUFFICES ASSUME CostInv, ShareInv, SupplyNext \/ UNCHANGED supplyVars PROVE ShareInv'
  OBVIOUS
<1>0. attempt \in [Attempts -> AttemptRow] /\ booked \in [Attempts -> States \cup {"none"}]
  BY DEF CostInv, SupplyTyped
<1>1. CASE AskForList \/ (\E state \in States : ReadState(state)) \/ UNCHANGED supplyVars
  BY <1>1, SharingStays DEF AskForList, ReadState, supplyVars, Dead
<1>2. ASSUME NEW a \in Attempts,
             \/ BuyNumber(a) \/ SendCode(a) \/ Sign(a) \/ GetMe(a) \/ Finish(a) \/ Cancel(a)
             \/ ReleasePort(a) \/ AttemptDies(a)
      PROVE  ShareInv'
  <2>1. UNCHANGED <<beside, booked>> /\ attempt[a].at # "over"
    BY <1>2 DEF BuyNumber, SendCode, Sign, GetMe, Finish, Cancel, ReleasePort, AttemptDies, UnderWay
  <2>2. (\E step \in Steps : Goes(a, step)) \/ (\E why \in {"timeout", "error"} : Raises(a, why))
    <3>1. {"allocate", "connect", "code", "me", "sign up", "finish", "book", "over", "release"} \subseteq Steps
      BY DEF Steps
    <3> QED BY <1>2, <3>1 DEF BuyNumber, SendCode, Sign, GetMe, Finish, Cancel, ReleasePort, AttemptDies,
                             AfterCancel, Settles
  <2> QED BY <2>1, <2>2, GoingShares
<1>3. ASSUME NEW a \in Attempts, Allocate(a) PROVE ShareInv'
  <2>1. UNCHANGED <<beside, booked>> /\ attempt[a].at = "allocate"
    BY <1>3 DEF Allocate
  <2>2. CASE Raises(a, "error")
    BY <2>1, <2>2, GoingShares
  <2>3. CASE attempt' = [attempt EXCEPT ![a].at = "connect", ![a].lease = TRUE]
    <3>1. attempt'[a] = [attempt[a] EXCEPT !.at = "connect", !.lease = TRUE] /\ attempt[a] \in AttemptRow
      BY <1>0, <2>3
    <3>2. attempt'[a].proxy = attempt[a].proxy
      BY <3>1 DEF AttemptRow
    <3>3. attempt' = [attempt EXCEPT ![a] = attempt'[a]]
      BY <1>0, <2>3
    <3>4. ~Dead(a)
      BY <2>1 DEF Dead
    <3> QED BY <2>1, <3>2, <3>3, <3>4, ProxyStays, SharingStays
  <2> QED BY <1>3, <2>2, <2>3 DEF Allocate
<1>4. ASSUME NEW a \in Attempts, PollCode(a) PROVE ShareInv'
  <2>1. UNCHANGED <<beside, booked>> /\ attempt[a].at = "code"
    BY <1>4 DEF PollCode
  <2>2. CASE Goes(a, "sign in") \/ Raises(a, "timeout") \/ Raises(a, "error")
    BY <2>1, <2>2, GoingShares DEF Steps
  <2>3. CASE attempt' = [attempt EXCEPT ![a].waits = @ + 1]
    <3>1. attempt'[a] = [attempt[a] EXCEPT !.waits = attempt[a].waits + 1] /\ attempt[a] \in AttemptRow
      BY <1>0, <2>3
    <3>2. attempt'[a].proxy = attempt[a].proxy
      BY <3>1 DEF AttemptRow
    <3>3. attempt' = [attempt EXCEPT ![a] = attempt'[a]]
      BY <1>0, <2>3
    <3>4. ~Dead(a)
      BY <2>1 DEF Dead
    <3> QED BY <2>1, <3>2, <3>3, <3>4, ProxyStays, SharingStays
  <2> QED BY <1>4, <2>2, <2>3 DEF PollCode
<1>5. ASSUME NEW a \in Attempts, Book(a) PROVE ShareInv'
  <2>1. UNCHANGED beside /\ attempt[a].at = "book" /\ \A b \in Attempts \ {a} : booked'[b] = booked[b]
    BY <1>0, <1>5 DEF Book
  <2>2. attempt' = [attempt EXCEPT ![a] = attempt'[a]] /\ attempt'[a].proxy = attempt[a].proxy
    BY <1>5, GoesTo DEF Book, Steps, CostInv
  <2>3. ~Dead(a)
    BY <2>1 DEF Dead
  <2> QED BY <2>1, <2>2, <2>3, ProxyStays, SharingStays
<1>6. ASSUME NEW a \in Attempts, Promoted(a) \/ Rejects(a) \/ Rejected(a) \/ RejectionLost(a)
      PROVE  ShareInv'
  <2>1. UNCHANGED beside /\ booked[a] = "probation"
        /\ \A b \in Attempts \ {a} : booked'[b] = booked[b]
    <3>1. attempt[a].at = "reject" => booked[a] = "probation"
      BY AttemptIs DEF Fits
    <3> QED BY <1>0, <1>6, <3>1 DEF Promoted, Rejects, Rejected, RejectionLost, Shifts
  <2>2. attempt' = [attempt EXCEPT ![a] = attempt'[a]] /\ attempt'[a].proxy = attempt[a].proxy
    <3>1. CASE Promoted(a)
      BY <1>0, <3>1 DEF Promoted
    <3>2. CASE Goes(a, "reject") \/ Goes(a, "over")
      BY <3>2, GoesTo DEF Steps, CostInv
    <3> QED BY <1>6, <3>1, <3>2 DEF Rejects, Rejected, RejectionLost
  <2>3. ~Dead(a)
    BY <2>1 DEF Dead
  <2> QED BY <2>1, <2>2, <2>3, ProxyStays, SharingStays
<1> QED BY <1>1, <1>2, <1>3, <1>4, <1>5, <1>6, StartShares DEF SupplyNext

LEMMA SharesBegin == SupplyInit => ShareInv
<1> SUFFICES ASSUME SupplyInit PROVE ShareInv
  OBVIOUS
<1>1. \A a \in Attempts : attempt[a].proxy = 0
  BY DEF SupplyInit, NoAttempt
<1> QED BY <1>1 DEF ShareInv

LEMMA SharersAreBeside == ShareInv => SharedOnlyBeside
BY DEF ShareInv, SharedOnlyBeside, Dead

\* While the list is read, each account that nothing has moved has been seen once,
\* or is in a state that is still to be read.
SeenOf(a) == {r \in listing.seen : r[1] = a}
ListingInv ==
  /\ listing = [left |-> listing.left, seen |-> listing.seen, had |-> listing.had, moved |-> listing.moved]
  /\ listing.left \subseteq States /\ listing.had \subseteq Attempts
  /\ listing.left # {} =>
       \A a \in listing.had \ listing.moved :
         /\ booked[a] # "none"
         /\ booked[a] \in listing.left => SeenOf(a) = {}
         /\ booked[a] \notin listing.left => SeenOf(a) = {<<a, booked[a]>>}
  /\ listing.left = {} => \A a \in listing.had \ listing.moved : \E r : SeenOf(a) = {r}

LEMMA ListingBegins == SupplyInit => ListingInv
<1> SUFFICES ASSUME SupplyInit PROVE ListingInv
  OBVIOUS
<1>1. listing = NoListing /\ listing.left = {} /\ listing.had = {}
  BY DEF SupplyInit, NoListing
<1> QED BY <1>1 DEF ListingInv, NoListing

LEMMA ListingRests ==
  ASSUME ListingInv, UNCHANGED listing,
         \A a \in Attempts : booked[a] # "none" => booked'[a] = booked[a]
  PROVE  ListingInv'
<1>1. /\ listing = [left |-> listing.left, seen |-> listing.seen, had |-> listing.had, moved |-> listing.moved]
      /\ listing.left \subseteq States /\ listing.had \subseteq Attempts
  BY DEF ListingInv
<1>2. \A a : SeenOf(a)' = SeenOf(a)
  BY DEF SeenOf
<1>3. \A a \in listing.had \ listing.moved :
        listing.left # {} => booked'[a] = booked[a] /\ booked[a] # "none"
  BY <1>1 DEF ListingInv
<1> QED BY <1>1, <1>2, <1>3 DEF ListingInv

LEMMA AskKeeps == ASSUME CostInv, AskForList PROVE ListingInv'
<1>1. PICK had : had = {a \in Attempts : booked[a] # "none"}
  OBVIOUS
<1>2. listing' = [left |-> States, seen |-> {}, had |-> had, moved |-> {}]
  BY <1>1 DEF AskForList, NoListing
<1>7. UNCHANGED booked
  BY DEF AskForList
<1>3. /\ listing'.left = States /\ listing'.seen = {} /\ listing'.had = had /\ listing'.moved = {}
      /\ UNCHANGED booked
  BY <1>2, <1>7
<1>4. \A a \in had : a \in Attempts /\ booked[a] # "none" /\ booked[a] \in States
  BY <1>1 DEF CostInv, SupplyTyped
<1>5. States # {}
  BY DEF States
<1>6. \A a : SeenOf(a)' = {}
  BY <1>3 DEF SeenOf
<1> QED BY <1>2, <1>3, <1>4, <1>5, <1>6 DEF ListingInv

LEMMA ReadKeeps == ASSUME CostInv, ListingInv, NEW state \in States, ReadState(state) PROVE ListingInv'
<1>1. PICK left, seen2 :
        /\ left = listing.left \ {state}
        /\ seen2 = listing.seen \cup ({a \in Attempts : booked[a] = state} \X {state})
  OBVIOUS
<1>2. listing' = [left |-> left, seen |-> seen2, had |-> listing.had, moved |-> listing.moved]
  BY <1>1 DEF ReadState, ListingInv
<1>7. UNCHANGED booked /\ state \in listing.left
  BY DEF ReadState
<1>3. /\ listing'.left = left /\ listing'.seen = seen2 /\ listing'.had = listing.had
      /\ listing'.moved = listing.moved /\ UNCHANGED booked /\ state \in listing.left
  BY <1>2, <1>7
<1>4. ASSUME NEW a \in listing.had \ listing.moved
      PROVE  /\ booked[a] # "none"
             /\ booked[a] \in left => SeenOf(a)' = {}
             /\ booked[a] \notin left => SeenOf(a)' = {<<a, booked[a]>>}
  <2>1. /\ booked[a] # "none" /\ a \in Attempts
        /\ booked[a] \in listing.left => SeenOf(a) = {}
        /\ booked[a] \notin listing.left => SeenOf(a) = {<<a, booked[a]>>}
    BY <1>3 DEF ListingInv
  <2>2. SeenOf(a)' = SeenOf(a) \cup (IF booked[a] = state THEN {<<a, state>>} ELSE {})
    <3>1. \A r : r \in {b \in Attempts : booked[b] = state} \X {state} /\ r[1] = a
                   <=> booked[a] = state /\ r = <<a, state>>
      <4>1. ASSUME NEW r, r \in {b \in Attempts : booked[b] = state} \X {state}, r[1] = a
            PROVE  booked[a] = state /\ r = <<a, state>>
        BY <4>1
      <4>2. ASSUME NEW r, booked[a] = state, r = <<a, state>>
            PROVE  r \in {b \in Attempts : booked[b] = state} \X {state} /\ r[1] = a
        BY <2>1, <4>2
      <4> QED BY <4>1, <4>2
    <3>2. SeenOf(a)' = {r \in seen2 : r[1] = a}
      BY <1>3 DEF SeenOf
    <3> QED BY <1>1, <3>1, <3>2 DEF SeenOf
  <2> QED BY <1>1, <1>3, <2>1, <2>2
<1>5. left \subseteq States /\ listing.had \subseteq Attempts
  BY <1>1 DEF ListingInv
<1>6. left = {} => \A a \in listing.had \ listing.moved : \E r : SeenOf(a)' = {r}
  BY <1>4
<1> QED BY <1>2, <1>3, <1>4, <1>5, <1>6 DEF ListingInv

LEMMA ShiftKeepsList ==
  ASSUME CostInv, ListingInv, NEW a \in Attempts, NEW state, Shifts(a, state)
  PROVE  ListingInv'
<1>1. PICK moved : moved = IF listing.left = {} THEN listing.moved ELSE listing.moved \cup {a}
  OBVIOUS
<1>2. listing' = [left |-> listing.left, seen |-> listing.seen, had |-> listing.had, moved |-> moved]
  BY <1>1 DEF Shifts, ListingInv
<1>3. /\ listing'.left = listing.left /\ listing'.seen = listing.seen /\ listing'.had = listing.had
      /\ listing'.moved = moved
  BY <1>2
<1>4. \A b \in Attempts \ {a} : booked'[b] = booked[b]
  BY DEF Shifts, CostInv, SupplyTyped
<1>5. \A b : SeenOf(b)' = SeenOf(b)
  BY <1>3 DEF SeenOf
<1>6. CASE listing.left = {}
  <2>1. moved = listing.moved
    BY <1>1, <1>6
  <2> QED BY <1>2, <1>3, <1>5, <1>6, <2>1 DEF ListingInv
<1>7. CASE listing.left # {}
  <2>1. \A b \in listing.had \ moved : b \in Attempts \ {a} /\ b \in listing.had \ listing.moved
    BY <1>1, <1>7 DEF ListingInv
  <2>2. \A b \in listing.had \ moved : /\ booked'[b] = booked[b] /\ booked[b] # "none"
                                       /\ booked[b] \in listing.left => SeenOf(b) = {}
                                       /\ booked[b] \notin listing.left => SeenOf(b) = {<<b, booked[b]>>}
    BY <1>4, <1>7, <2>1 DEF ListingInv
  <2>3. listing.left \subseteq States /\ listing.had \subseteq Attempts
    BY DEF ListingInv
  <2> QED BY <1>2, <1>3, <1>5, <1>7, <2>2, <2>3 DEF ListingInv
<1> QED BY <1>6, <1>7

LEMMA ListingGoesOn ==
  CostInv /\ ListingInv /\ (SupplyNext \/ UNCHANGED supplyVars) => ListingInv'
<1> SUFFICES ASSUME CostInv, ListingInv, SupplyNext \/ UNCHANGED supplyVars PROVE ListingInv'
  OBVIOUS
<1>1. ASSUME UNCHANGED <<listing, booked>> PROVE ListingInv'
  BY <1>1, ListingRests
<1>2. CASE UNCHANGED supplyVars
  BY <1>1, <1>2 DEF supplyVars
<1>3. ASSUME NEW a \in Attempts,
             \/ StartAttempt(a) \/ BuyNumber(a) \/ Allocate(a) \/ SendCode(a) \/ PollCode(a)
             \/ Sign(a) \/ GetMe(a) \/ Finish(a) \/ Cancel(a) \/ ReleasePort(a) \/ AttemptDies(a)
             \/ Rejects(a) \/ RejectionLost(a)
      PROVE  ListingInv'
  BY <1>1, <1>3 DEF StartAttempt, BuyNumber, Allocate, SendCode, PollCode, Sign, GetMe, Finish, Cancel,
                    ReleasePort, AttemptDies, Rejects, RejectionLost
<1>4. ASSUME NEW a \in Attempts, Book(a) PROVE ListingInv'
  <2>1. booked[a] = "none"
    BY <1>4, AttemptIs DEF Book, Fits
  <2>2. UNCHANGED listing /\ \A b \in Attempts : booked[b] # "none" => booked'[b] = booked[b]
    BY <1>4, <2>1 DEF Book, CostInv, SupplyTyped
  <2> QED BY <2>2, ListingRests
<1>5. ASSUME NEW a \in Attempts, Promoted(a) \/ Rejected(a) PROVE ListingInv'
  BY <1>5, ShiftKeepsList DEF Promoted, Rejected
<1> QED BY <1>2, <1>3, <1>4, <1>5, AskKeeps, ReadKeeps DEF SupplyNext

LEMMA ListingIsWhole == ListingInv => ListWhole
<1> SUFFICES ASSUME ListingInv, listing.left = {}, NEW a \in listing.had \ listing.moved
             PROVE  Cardinality({r \in listing.seen : r[1] = a}) = 1
  BY DEF ListWhole
<1>1. PICK r : {q \in listing.seen : q[1] = a} = {r}
  BY DEF ListingInv, SeenOf
<1> QED BY <1>1, FS_Singleton

SupplyInv == CostInv /\ ShareInv /\ ListingInv

LEMMA SupplyBegins == SupplyInit => SupplyInv
BY CostsBegin, SharesBegin, ListingBegins DEF SupplyInv

LEMMA SupplyGoesOn == SupplyInv /\ (SupplyNext \/ UNCHANGED supplyVars) => SupplyInv'
BY CostsGoOn, SharesGoOn, ListingGoesOn DEF SupplyInv

LEMMA SuppliesAreWell == SupplyInv => SupplyHolds
BY NothingLeaks, SharersAreBeside, ListingIsWhole DEF SupplyInv, SupplyHolds

-----------------------------------------------------------------------------
(***************************************************************************)
(* The service: each section's invariant is untouched by the steps of the  *)
(* others.                                                                 *)
(***************************************************************************)
ServiceInv == RatingInv /\ KeyInv /\ SignupInv /\ ListInv /\ DeskInv /\ FigureInv /\ SupplyInv

LEMMA ServiceBegins == ServiceInit => ServiceInv
BY RatingsBegin, KeysBegin, SignupBegins, ListBegins, DeskBegins, FiguresBegin, SupplyBegins
DEF ServiceInit, ServiceInv

LEMMA ServiceGoesOn == ServiceInv /\ [ServiceNext]_serviceVars => ServiceInv'
<1> SUFFICES ASSUME ServiceInv, [ServiceNext]_serviceVars PROVE ServiceInv'
  OBVIOUS
<1>1. TapNext \/ LatencyNext \/ UNCHANGED ratingVars
  BY DEF ServiceNext, Locking, Paging, Rating, Entering, Figuring, Supplying, serviceVars
<1>2. KeysNext \/ UNCHANGED keyVars
  BY DEF ServiceNext, Locking, Paging, Rating, Entering, Figuring, Supplying, serviceVars, accessVars
<1>3. SignupNext \/ UNCHANGED signupVars
  BY DEF ServiceNext, Locking, Paging, Rating, Entering, Figuring, Supplying, serviceVars, accessVars
<1>4. ListNext \/ UNCHANGED listVars
  BY DEF ServiceNext, Locking, Paging, Rating, Entering, Figuring, Supplying, serviceVars, feedVars
<1>5. DeskNext \/ UNCHANGED deskVars
  BY DEF ServiceNext, Locking, Paging, Rating, Entering, Figuring, Supplying, serviceVars, feedVars
<1>6. FiguresNext \/ UNCHANGED figuresVars
  BY DEF ServiceNext, Locking, Paging, Rating, Entering, Figuring, Supplying, serviceVars
<1>7. SupplyNext \/ UNCHANGED supplyVars
  BY DEF ServiceNext, Locking, Paging, Rating, Entering, Figuring, Supplying, serviceVars
<1> QED BY <1>1, <1>2, <1>3, <1>4, <1>5, <1>6, <1>7, RatingsGoOn, KeysGoOn, SignupGoesOn,
           ListGoesOn, DeskGoesOn, FiguresGoOn, SupplyGoesOn DEF ServiceInv

LEMMA ServiceKept == ServiceSpec => []ServiceInv
BY ServiceBegins, ServiceGoesOn, PTL DEF ServiceSpec

\* Whoever reads list_alerts to the end has had every alert that was there when he
\* began and is in his history, none twice; and the live signals show a score for each
\* channel that had one, the one its line ends with at most.
THEOREM PagesAreWhole == ServiceSpec => []PagesHold
<1>1. ServiceInv => PagesHold
  BY ListIsWhole DEF ServiceInv, DeskInv, PagesHold
<1> QED BY <1>1, ServiceKept, PTL

\* An alert shows the verdict of the last tap that was answered and none crossed, no
\* verdict outlives its user, and the percentiles of a latency report are in order and
\* within what was measured.
THEOREM RatingsAreKept == ServiceSpec => []RatingsHold
<1>1. ServiceInv => RatingsHold
  BY RatingsAreWell DEF ServiceInv
<1> QED BY <1>1, ServiceKept, PTL

\* A key once revoked stays so, whatever requests write its row afterwards; last_used_at
\* is within the throttle of a use that no other one crossed; a link that was shown is
\* its owner's, and one welcome mail is sent, but for requests that run side by side.
THEOREM AccessIsKept == ServiceSpec => []AccessHolds
<1>1. ServiceInv => AccessHolds
  BY DEF ServiceInv, KeyInv, SignupInv, AccessHolds
<1> QED BY <1>1, ServiceKept, PTL

\* The row of a day counts each payer of the day once, whatever runs of the job repeat
\* or overlap, and the figures of the page that are taken from rows agree with those
\* that are counted anew.
THEOREM FiguresAreKept == ServiceSpec => []FiguresHold
<1>1. ServiceInv => FiguresHold
  BY FiguresAreWell DEF ServiceInv
<1> QED BY <1>1, ServiceKept, PTL

\* Every number and port an attempt took is used for an account or given back, whatever
\* step it ends at, but for what a lost call or an error after the registration concerns;
\* live accounts share a proxy only when one was bought beside the other; and the list
\* has each account that nothing moved, once.
THEOREM SuppliesAreKept == ServiceSpec => []SupplyHolds
<1>1. ServiceInv => SupplyHolds
  BY SuppliesAreWell DEF ServiceInv
<1> QED BY <1>1, ServiceKept, PTL

-----------------------------------------------------------------------------
(***************************************************************************)
(* Types.  The invariants above say most of them; here is the rest.        *)
(***************************************************************************)
PageTyped == scan.at = "done" => scan.cursor = Unset
SignalsTyped ==
  /\ heard \in [Tales -> [Streams -> 0..LastInstant \cup {Unset}]]
  /\ changes \in 0..MaxChanges
  /\ desk.rows \in Rows

LEMMA PageTypedStep ==
  ListInv /\ PageTyped /\ (ListNext \/ UNCHANGED listVars) => PageTyped'
<1> SUFFICES ASSUME ListInv, PageTyped, ListNext \/ UNCHANGED listVars PROVE PageTyped'
  OBVIOUS
<1>1. CASE UNCHANGED scan
  BY <1>1 DEF PageTyped
<1>2. CASE StartAgain
  BY <1>2 DEF PageTyped, StartAgain, NoScan
<1>3. ASSUME NEW limit \in Sizes, ListAlerts(limit) PROVE PageTyped'
  <2>1. PICK page, cursor : Page(page, "done", Unset) \/ Page(page, "reading", cursor)
    BY <1>3, PageIsNewest
  <2>2. CASE Page(page, "done", Unset)
    <3>1. scan'.cursor = Unset
      BY <2>2 DEF Page
    <3> QED BY <3>1 DEF PageTyped
  <2>3. CASE Page(page, "reading", cursor)
    <3>1. scan'.at = "reading"
      BY <2>3 DEF Page
    <3> QED BY <3>1 DEF PageTyped
  <2> QED BY <2>1, <2>2, <2>3
<1> QED BY <1>1, <1>2, <1>3 DEF ListNext, NextDay, AddAlert, ChangeTariff, listVars

LEMMA PagesAreTyped ==
  ASSUME ListInv, PageTyped
  PROVE  scan \in [at : {"off", "reading", "done"}, cursor : Cursors, shown : Seq(1..MaxAlerts),
                   known : 0..MaxAlerts, floor : 0..LastDay]
<1>1. /\ alerts \in Seq(0..LastDay) /\ Len(alerts) <= MaxAlerts /\ Len(alerts) \in Nat
      /\ scan = [at |-> scan.at, cursor |-> scan.cursor, shown |-> scan.shown,
                 known |-> scan.known, floor |-> scan.floor]
      /\ scan.at \in {"off", "reading", "done"}
      /\ scan.shown \in Seq(1..Len(alerts)) /\ scan.known \in 0..Len(alerts) /\ scan.floor \in 0..LastDay
  BY DEF ListInv, ListTypeOK
<1>2. 1..Len(alerts) \subseteq 1..MaxAlerts /\ 0..Len(alerts) \subseteq 0..MaxAlerts
  BY <1>1, FeedParameters
<1>3. scan.shown \in Seq(1..MaxAlerts)
  <2>1. \A S, T : S \subseteq T => Seq(S) \subseteq Seq(T)
    OBVIOUS
  <2> QED BY <1>1, <1>2, <2>1
<1>4. scan.cursor \in Cursors
  <2>1. CASE scan.at = "reading"
    <3>1. PICK i : i = scan.shown[Len(scan.shown)]
      OBVIOUS
    <3>2. Len(scan.shown) > 0 /\ scan.cursor = [seen |-> alerts[i], id |-> i]
      BY <2>1, <3>1 DEF ListInv, CursorIsLast
    <3>3. i \in 1..Len(alerts)
      <4>1. Len(scan.shown) \in 1..Len(scan.shown)
        BY <1>1, <3>2
      <4> QED BY <1>1, <3>1, <4>1
    <3>4. alerts[i] \in 0..LastDay
      <4>1. \A T, s, k : s \in Seq(T) /\ k \in 1..Len(s) => s[k] \in T
        OBVIOUS
      <4> QED BY <1>1, <3>3, <4>1
    <3>5. i \in 1..MaxAlerts
      BY <1>2, <3>3
    <3> QED BY <3>2, <3>4, <3>5 DEF Cursors
  <2>2. CASE scan.at # "reading"
    BY <1>1, <2>2 DEF ListInv, CursorIsLast, PageTyped, Cursors
  <2> QED BY <2>1, <2>2
<1> QED BY <1>1, <1>2, <1>3, <1>4

LEMMA SignalIsTyped ==
  ASSUME DeskTypeOK, NEW cs \in SUBSET Tales, NEW r \in Signals(cs)
  PROVE  r \in [score : Values \cup {Unset},
                line : UNION {[hs -> Values] : hs \in SUBSET (0..LastInstant)},
                alert : 0..LastInstant \cup {Unset}]
<1>1. /\ r = [score |-> r.score, line |-> r.line, alert |-> r.alert]
      /\ r.line = Sparkline(cs) /\ r.alert = LastAlert(cs)
      /\ r.score \in (IF Scored(cs) = {} THEN {Unset} ELSE {desk.got[c].value : c \in Latest(cs)})
  BY DEF Signals
<1>2. \A c \in Scored(cs) : c \in Tales /\ desk.got[c] \in ScoreRow
  BY DEF Scored, DeskTypeOK
<1>3. \A c \in Scored(cs) : desk.got[c].at \in 0..LastInstant /\ desk.got[c].value \in Values
  BY <1>2 DEF ScoreRow
<1>4. r.score \in Values \cup {Unset}
  BY <1>1, <1>3 DEF Latest
<1>5. \A c \in Scored(cs) : HourOf(c) \in 0..LastInstant
  <2>1. \A a \in Nat, k \in Nat \ {0} : a \div k \in Nat /\ a \div k <= a
    OBVIOUS
  <2> QED BY <1>3, <2>1, FeedParameters DEF HourOf
<1>6. PICK hs : hs = {HourOf(c) : c \in Scored(cs)}
  OBVIOUS
<1>7. r.line \in [hs -> Values]
  <2>1. ASSUME NEW h \in hs
        PROVE  Max({desk.got[c].value : c \in {d \in Scored(cs) : HourOf(d) = h}}) \in Values
    <3>1. PICK T : T = {desk.got[e].value : e \in {d \in Scored(cs) : HourOf(d) = h}}
      OBVIOUS
    <3>2. T \in SUBSET Values /\ T \in SUBSET Int /\ T # {}
      BY <1>3, <1>6, <3>1, FeedParameters
    <3>3. IsFiniteSet(T)
      <4> DEFINE E == {d \in Scored(cs) : HourOf(d) = h}
                 f == [e \in E |-> desk.got[e].value]
      <4>1. IsFiniteSet(E)
        <5>1. E \in SUBSET Tales
          BY <1>2
        <5> QED BY <5>1, FeedParameters, FS_Subset
      <4>2. T = {f[e] : e \in E} /\ f = [e \in E |-> f[e]]
        BY <3>1
      <4> HIDE DEF E, f
      <4> QED BY <4>1, <4>2, FiniteImage
    <3>4. \E m \in T : \A t \in T : m >= t
      <4>1. \E m \in T : \A t \in T : t <= m
        BY <3>2, <3>3, ExtremesExist
      <4> QED BY <3>2, <4>1
    <3>5. Max(T) \in T
      BY <3>4 DEF Max
    <3> QED BY <3>1, <3>2, <3>5
  <2> QED BY <1>1, <1>6, <2>1 DEF Sparkline
<1>8. r.line \in UNION {[gs -> Values] : gs \in SUBSET (0..LastInstant)}
  <2>1. hs \in SUBSET (0..LastInstant)
    BY <1>5, <1>6
  <2> QED BY <1>7, <2>1
<1>9. r.alert \in 0..LastInstant \cup {Unset}
  <2>1. PICK told : told = {alerted[c] : c \in cs} \ {Unset}
    OBVIOUS
  <2>2. told \in SUBSET (0..LastInstant) /\ told \in SUBSET Int
    BY <2>1 DEF DeskTypeOK
  <2>3. r.alert = IF told = {} THEN Unset ELSE Max(told)
    BY <1>1, <2>1 DEF LastAlert
  <2>4. ASSUME told # {} PROVE Max(told) \in told
    <3>1. IsFiniteSet(told)
      <4>1. IsFiniteSet(0..LastInstant)
        <5>1. 0 \in Int /\ LastInstant \in Int
          BY FeedParameters
        <5> QED BY <5>1, FS_Interval
      <4> QED BY <2>2, <4>1, FS_Subset
    <3>2. \E m \in told : \A t \in told : t <= m
      BY <2>2, <2>4, <3>1, ExtremesExist
    <3>3. \E m \in told : \A t \in told : m >= t
      BY <2>2, <3>2
    <3> QED BY <3>3 DEF Max
  <2> QED BY <2>2, <2>3, <2>4
<1> QED BY <1>1, <1>4, <1>8, <1>9

LEMMA NothingIsTyped == [ch \in Streams |-> NoSignal] \in Rows
<1>1. [h \in {} |-> 0] \in [{} -> Values] /\ {} \in SUBSET (0..LastInstant)
  OBVIOUS
<1>2. [h \in {} |-> 0] \in UNION {[hs -> Values] : hs \in SUBSET (0..LastInstant)}
  BY <1>1
<1> QED BY <1>2 DEF NoSignal, Rows

LEMMA SignalsTypedStep ==
  DeskInv /\ SignalsTyped /\ (DeskNext \/ UNCHANGED deskVars) => SignalsTyped'
<1> SUFFICES ASSUME DeskInv, SignalsTyped, DeskNext \/ UNCHANGED deskVars PROVE SignalsTyped'
  OBVIOUS
<1>1. CASE InstantPasses \/ UNCHANGED deskVars
  BY <1>1 DEF SignalsTyped, InstantPasses, deskVars
<1>2. Change => changes' \in 0..MaxChanges
  BY FeedParameters DEF SignalsTyped, Change
<1>3. ASSUME NEW c \in Tales, AlertOn(c) \/ \E v \in Values : Rescore(c, v) PROVE SignalsTyped'
  BY <1>2, <1>3 DEF SignalsTyped, AlertOn, Rescore
<1>4. ASSUME NEW c \in Tales, NEW ch \in Streams, Hear(c, ch) PROVE SignalsTyped'
  <2>1. instant \in 0..LastInstant \cup {Unset}
    BY DEF DeskInv, DeskTypeOK
  <2>2. heard' = [heard EXCEPT ![c] = [heard[c] EXCEPT ![ch] = instant]]
    BY <1>4 DEF Hear
  <2>3. [heard[c] EXCEPT ![ch] = instant] \in [Streams -> 0..LastInstant \cup {Unset}]
    BY <2>1 DEF SignalsTyped
  <2> QED BY <1>2, <1>4, <2>2, <2>3 DEF SignalsTyped, Hear
<1>5. CASE DeskChannels
  <2>1. UNCHANGED <<heard, changes>>
    BY <1>5 DEF DeskChannels
  <2>2. desk'.rows = [ch \in Streams |-> NoSignal]
    <3>1. PICK of, had : desk' = [NoDesk EXCEPT !.at = "scores", !.start = instant, !.of = of, !.had = had]
      BY <1>5 DEF DeskChannels
    <3> QED BY <3>1 DEF NoDesk
  <2> QED BY <2>1, <2>2, NothingIsTyped DEF SignalsTyped
<1>6. CASE DeskScores
  <2>1. UNCHANGED <<heard, changes>>
    BY <1>6 DEF DeskScores
  <2>2. PICK g : desk' = [desk EXCEPT !.at = "alerts", !.got = g]
    BY <1>6 DEF DeskScores
  <2>3. desk'.rows = desk.rows
    BY <2>2 DEF DeskInv, DeskTypeOK
  <2> QED BY <2>1, <2>3 DEF SignalsTyped
<1>7. CASE DeskAlerts
  <2>1. PICK rs : /\ \E S : rs \in [Streams -> S]
                  /\ \A ch \in Streams : rs[ch] \in Signals(desk.of[ch])
                  /\ desk' = [desk EXCEPT !.at = "shown", !.rows = rs]
                  /\ UNCHANGED <<heard, changes>>
    BY <1>7 DEF DeskAlerts
  <2>2. DeskTypeOK /\ \A ch \in Streams : desk.of[ch] \in SUBSET Tales
    BY DEF DeskInv, DeskTypeOK
  <2>3. desk'.rows = rs
    <3>1. desk = [at |-> desk.at, start |-> desk.start, of |-> desk.of, had |-> desk.had,
                  got |-> desk.got, rows |-> desk.rows]
      BY <2>2 DEF DeskTypeOK
    <3> QED BY <2>1, <3>1
  <2>4. \A ch \in Streams : rs[ch] \in [score : Values \cup {Unset},
                line : UNION {[hs -> Values] : hs \in SUBSET (0..LastInstant)},
                alert : 0..LastInstant \cup {Unset}]
    BY <2>1, <2>2, SignalIsTyped
  <2> QED BY <2>1, <2>3, <2>4 DEF SignalsTyped, Rows
<1> QED BY <1>1, <1>3, <1>4, <1>5, <1>6, <1>7 DEF DeskNext

LEMMA FeedIsTyped ==
  ListInv /\ PageTyped /\ DeskInv /\ SignalsTyped => FeedTypeOK
<1> SUFFICES ASSUME ListInv, PageTyped, DeskInv, SignalsTyped PROVE FeedTypeOK
  OBVIOUS
<1>1. desk \in [at : {"off", "scores", "alerts", "shown"}, start : 0..LastInstant,
                of : [Streams -> SUBSET Tales], had : SUBSET Tales,
                got : [Tales -> ScoreRow \cup {Unset}], rows : Rows]
  <2>1. desk.start \in 0..LastInstant
    BY FeedParameters DEF DeskInv, DeskTypeOK
  <2> QED BY <2>1 DEF DeskInv, DeskTypeOK, SignalsTyped
<1> QED BY <1>1, PagesAreTyped DEF ListInv, ListTypeOK, DeskInv, DeskTypeOK, SignalsTyped, FeedTypeOK

LEMMA FeedTypesBegin == FeedInit => PageTyped /\ SignalsTyped
<1> SUFFICES ASSUME FeedInit PROVE PageTyped /\ SignalsTyped
  OBVIOUS
<1>1. scan.at = "off" /\ desk.rows = [ch \in Streams |-> NoSignal]
  BY DEF FeedInit, NoScan, NoDesk
<1> QED BY <1>1, NothingIsTyped, FeedParameters DEF FeedInit, PageTyped, SignalsTyped

\* The rows and the runs; and an end is within the terms that were paid for.
RunRow == [at : {"off", "paid", "churned", "active", "upsert", "commit", "over"},
           on : Dates, day : 0..LastDate, paid : Count, churned : Count,
           active : Count, wrote : [0..LastDate -> Figure \cup {NoFigure}]]
PaidBy(u) == {q \in paid : q[1] = u}
RunsTyped ==
  /\ figure \in [0..LastDate -> Figure \cup {NoFigure}]
  /\ job \in [Jobs -> RunRow]
  /\ overdue \subseteq 0..LastDate /\ straddled \subseteq 0..LastDate
EndsWithin ==
  /\ paying \cap paid = {}
  /\ IsFiniteSet(paying \cup paid) /\ Cardinality(paying \cup paid) <= MaxPaid
  /\ \A u \in Payers : ends[u] <= date + Term * Cardinality(PaidBy(u))

LEMMA CountIs ==
  ASSUME NEW S \in SUBSET Payers
  PROVE  Cardinality(S) \in Count
BY FiguresParameters, FS_Subset, FS_CardinalityType DEF Count

LEMMA NobodyIsCounted == 0 \in Count /\ NoFigures \in [0..LastDate -> Figure \cup {NoFigure}]
<1>1. 0 \in Count
  BY FiguresParameters, FS_CardinalityType DEF Count
<1> QED BY <1>1 DEF NoFigures

LEMMA RunsTypedTurn ==
  ASSUME RunsTyped, NEW j \in Jobs, NEW r \in RunRow, job' = [job EXCEPT ![j] = r],
         UNCHANGED <<figure, overdue, straddled>>
  PROVE  RunsTyped'
BY DEF RunsTyped

LEMMA EmptyIsTyped ==
  ASSUME NEW r, NEW at \in {"off", "paid", "over"}, NEW on \in Dates, NEW d \in 0..LastDate,
         r = [NoJob EXCEPT !.at = at, !.on = on, !.day = d]
  PROVE  r \in RunRow
<1>1. r = [at |-> at, on |-> on, day |-> d, paid |-> 0, churned |-> 0, active |-> 0, wrote |-> NoFigures]
  BY DEF NoJob
<1> QED BY <1>1, NobodyIsCounted DEF RunRow

LEMMA OverIsTyped ==
  ASSUME NEW r, r = [NoJob EXCEPT !.at = "over"]
  PROVE  r \in RunRow
<1>1. r = [at |-> "over", on |-> 1, day |-> 0, paid |-> 0, churned |-> 0, active |-> 0, wrote |-> NoFigures]
  BY DEF NoJob
<1>2. PICK on \in Dates, d \in 0..LastDate : on = 1 /\ d = 0
  BY FiguresParameters DEF Dates
<1>3. PICK at \in {"off", "paid", "over"} : at = "over"
  OBVIOUS
<1>4. r = [NoJob EXCEPT !.at = at, !.on = on, !.day = d]
  BY <1>1, <1>2, <1>3 DEF NoJob
<1> QED BY <1>4, EmptyIsTyped

LEMMA CountsTyped ==
  ASSUME RunsTyped, NEW j \in Jobs, CountPaid(j) \/ CountChurned(j) \/ CountActive(j)
  PROVE  RunsTyped'
<1>1. job[j] \in RunRow /\ UNCHANGED <<figure, overdue, straddled>>
  BY DEF RunsTyped, CountPaid, CountChurned, CountActive
<1>2. CASE CountPaid(j)
  <2>1. PICK n : n = Cardinality(PaidOn(job[j].day))
    OBVIOUS
  <2>2. n \in Count
    <3>1. PaidOn(job[j].day) \in SUBSET Payers
      BY DEF PaidOn
    <3> QED BY <2>1, <3>1, CountIs
  <2>3. PICK r : r = [job[j] EXCEPT !.at = "churned", !.paid = n]
    OBVIOUS
  <2>4. job' = [job EXCEPT ![j] = r]
    BY <1>2, <2>1, <2>3 DEF CountPaid
  <2>5. r \in RunRow
    BY <1>1, <2>2, <2>3 DEF RunRow
  <2> QED BY <1>1, <2>4, <2>5, RunsTypedTurn
<1>3. CASE CountChurned(j)
  <2>1. PICK n : n = Cardinality(ChurnedOn(job[j].day))
    OBVIOUS
  <2>2. n \in Count
    <3>1. ChurnedOn(job[j].day) \in SUBSET Payers
      BY DEF ChurnedOn
    <3> QED BY <2>1, <3>1, CountIs
  <2>3. PICK r : r = [job[j] EXCEPT !.at = "active", !.churned = n]
    OBVIOUS
  <2>4. job' = [job EXCEPT ![j] = r]
    BY <1>3, <2>1, <2>3 DEF CountChurned
  <2>5. r \in RunRow
    BY <1>1, <2>2, <2>3 DEF RunRow
  <2> QED BY <1>1, <2>4, <2>5, RunsTypedTurn
<1>4. CASE CountActive(j)
  <2>1. PICK n : n = Cardinality(ActiveAfter(job[j].day))
    OBVIOUS
  <2>2. n \in Count
    <3>1. ActiveAfter(job[j].day) \in SUBSET Payers
      BY DEF ActiveAfter
    <3> QED BY <2>1, <3>1, CountIs
  <2>3. PICK r : r = [job[j] EXCEPT !.at = "upsert", !.active = n]
    OBVIOUS
  <2>4. job' = [job EXCEPT ![j] = r]
    BY <1>4, <2>1, <2>3 DEF CountActive
  <2>5. r \in RunRow
    BY <1>1, <2>2, <2>3 DEF RunRow
  <2> QED BY <1>1, <2>4, <2>5, RunsTypedTurn
<1> QED BY <1>2, <1>3, <1>4

LEMMA UpsertTyped == ASSUME RunsTyped, NEW j \in Jobs, UpsertFigure(j) PROVE RunsTyped'
<1>1. job[j] \in RunRow /\ UNCHANGED <<figure, overdue, straddled>>
  BY DEF RunsTyped, UpsertFigure
<1>2. /\ job[j].on \in Dates /\ job[j].day \in 0..LastDate /\ job[j].paid \in Count
      /\ job[j].churned \in Count /\ job[j].active \in Count
      /\ job[j].wrote \in [0..LastDate -> Figure \cup {NoFigure}] /\ job[j].on \in 0..LastDate
  BY <1>1, FiguresParameters DEF RunRow, Dates
<1>4. PICK new : new = [paid |-> job[j].paid, churned |-> job[j].churned, active |-> job[j].active,
                        over |-> job[j].day < job[j].on]
  OBVIOUS
<1>5. new \in Figure
  <2>1. PICK d \in Int, on \in Int : d = job[j].day /\ on = job[j].on
    BY <1>2, FiguresParameters
  <2>2. new = [paid |-> job[j].paid, churned |-> job[j].churned, active |-> job[j].active,
               over |-> d < on]
    BY <1>4, <2>1
  <2>3. (d < on) \in BOOLEAN
    BY <2>1
  <2> QED BY <1>2, <2>2, <2>3 DEF Figure
<1>6. PICK wrote : wrote = [job[j].wrote EXCEPT ![job[j].day] = new]
  OBVIOUS
<1>7. wrote \in [0..LastDate -> Figure \cup {NoFigure}]
  BY <1>2, <1>5, <1>6
<1>3. PICK at \in {"paid", "commit"} : at = IF new.over THEN "paid" ELSE "commit"
  OBVIOUS
<1>8. PICK r : r = [NoJob EXCEPT !.wrote = wrote, !.on = job[j].on, !.day = job[j].on, !.at = at]
  OBVIOUS
<1>9. job' = [job EXCEPT ![j] = r]
  BY <1>3, <1>4, <1>6, <1>8 DEF UpsertFigure
<1>10. r = [at |-> at, on |-> job[j].on, day |-> job[j].on, paid |-> 0,
            churned |-> 0, active |-> 0, wrote |-> wrote]
  BY <1>8 DEF NoJob
<1>11. r \in RunRow
  BY <1>2, <1>3, <1>7, <1>10, NobodyIsCounted DEF RunRow
<1> QED BY <1>1, <1>9, <1>11, RunsTypedTurn

LEMMA CommitJobTyped == ASSUME RunsTyped, NEW j \in Jobs, CommitJob(j) PROVE RunsTyped'
<1>1. /\ job[j] \in RunRow /\ UNCHANGED <<overdue, straddled>>
      /\ figure' = [d \in 0..LastDate |-> IF job[j].wrote[d] = NoFigure THEN figure[d]
                                                                       ELSE job[j].wrote[d]]
  BY DEF RunsTyped, CommitJob
<1>2. job[j].wrote \in [0..LastDate -> Figure \cup {NoFigure}]
  BY <1>1 DEF RunRow
<1>3. figure' \in [0..LastDate -> Figure \cup {NoFigure}]
  BY <1>1, <1>2 DEF RunsTyped
<1>4. PICK r : r = [NoJob EXCEPT !.at = "over"]
  OBVIOUS
<1>5. r \in RunRow /\ job' = [job EXCEPT ![j] = r]
  BY <1>4, OverIsTyped DEF CommitJob
<1> QED BY <1>1, <1>3, <1>5 DEF RunsTyped

LEMMA CommitPaymentTyped ==
  ASSUME FigureInv, RunsTyped, NEW p \in paying, CommitPayment(p)
  PROVE  RunsTyped'
<1>1. FigureTypeOK /\ UNCHANGED <<figure, job>> /\ date \in 1..LastDate
  BY DEF FigureInv, FigureTypeOK, CommitPayment
<1>2. p[2] \in 0..LastDate
  BY <1>1, FiguresParameters DEF FigureTypeOK
<1>3. overdue' = overdue \/ overdue' = overdue \cup {p[2]}
  BY DEF CommitPayment
<1>9. overdue' \subseteq 0..LastDate
  BY <1>2, <1>3 DEF RunsTyped
<1>10. straddled' \subseteq 0..LastDate
  <2>1. straddled' = straddled \cup {job[j].day : j \in {k \in Jobs : job[k].at = "active"}}
    BY DEF CommitPayment
  <2>2. \A j \in Jobs : job[j].day \in 0..LastDate
    BY DEF RunsTyped, RunRow
  <2> QED BY <2>1, <2>2 DEF RunsTyped
<1> QED BY <1>1, <1>9, <1>10 DEF RunsTyped

LEMMA RunsTypedStep ==
  FigureInv /\ RunsTyped /\ (FiguresNext \/ UNCHANGED figuresVars) => RunsTyped'
<1> SUFFICES ASSUME FigureInv, RunsTyped, FiguresNext \/ UNCHANGED figuresVars PROVE RunsTyped'
  OBVIOUS
<1>1. CASE NextDate \/ (\E u \in Payers : StartPayment(u)) \/ UNCHANGED figuresVars
  BY <1>1 DEF RunsTyped, NextDate, StartPayment, figuresVars
<1>2. ASSUME NEW j \in Jobs, StartJob(j) PROVE RunsTyped'
  <2>1. PICK r : r = [NoJob EXCEPT !.at = "paid", !.on = date, !.day = date - 1]
    OBVIOUS
  <2>2. date \in Dates /\ date - 1 \in 0..LastDate /\ "paid" \in {"off", "paid", "over"}
    BY FiguresParameters DEF FigureInv, FigureTypeOK, Dates
  <2>3. r \in RunRow
    BY <2>1, <2>2, EmptyIsTyped
  <2> QED BY <1>2, <2>1, <2>3, RunsTypedTurn DEF StartJob
<1>3. ASSUME NEW j \in Jobs, JobFails(j) PROVE RunsTyped'
  <2>1. PICK r : r = [NoJob EXCEPT !.at = "over"]
    OBVIOUS
  <2> QED BY <1>3, <2>1, OverIsTyped, RunsTypedTurn DEF JobFails
<1> QED BY <1>1, <1>2, <1>3, CountsTyped, UpsertTyped, CommitJobTyped, CommitPaymentTyped DEF FiguresNext

LEMMA MoreTerms == \A t, m, n \in Nat : m <= n => t * m <= t * n
<1> SUFFICES ASSUME NEW t \in Nat, NEW m \in Nat, NEW n \in Nat, m <= n PROVE t * m <= t * n
  OBVIOUS
<1>1. PICK k \in Nat : k = n - m
  OBVIOUS
<1>2. t * n = t * m + t * k
  BY <1>1
<1>3. t * k \in Nat /\ t * m \in Nat
  OBVIOUS
<1> QED BY <1>2, <1>3

\* Payments of a user are among those there are.
LEMMA PaymentsOfOne ==
  ASSUME EndsWithin, NEW u
  PROVE  IsFiniteSet(PaidBy(u)) /\ Cardinality(PaidBy(u)) \in Nat /\ Cardinality(PaidBy(u)) <= MaxPaid
<1>1. PICK S : S = paying \cup paid
  OBVIOUS
<1>2. IsFiniteSet(S) /\ Cardinality(S) \in Nat /\ Cardinality(S) <= MaxPaid
  BY <1>1, FS_CardinalityType DEF EndsWithin
<1>3. PaidBy(u) \in SUBSET S
  BY <1>1 DEF PaidBy
<1>4. IsFiniteSet(PaidBy(u)) /\ Cardinality(PaidBy(u)) <= Cardinality(S)
  BY <1>2, <1>3, FS_Subset
<1> QED BY <1>2, <1>4, FS_CardinalityType, FiguresParameters

LEMMA EndsBegin == FiguresInit => RunsTyped /\ EndsWithin
<1> SUFFICES ASSUME FiguresInit PROVE RunsTyped /\ EndsWithin
  OBVIOUS
<1>1. NoJob \in RunRow
  <2>1. PICK r : r = [NoJob EXCEPT !.at = "off", !.on = 1, !.day = 0]
    OBVIOUS
  <2>2. PICK on \in Dates, d \in 0..LastDate : on = 1 /\ d = 0
    BY FiguresParameters DEF Dates
  <2>3. PICK at \in {"off", "paid", "over"} : at = "off"
    OBVIOUS
  <2>4. r = [NoJob EXCEPT !.at = at, !.on = on, !.day = d]
    BY <2>1, <2>2, <2>3
  <2>5. r \in RunRow
    BY <2>4, EmptyIsTyped
  <2>6. r = NoJob
    BY <2>1 DEF NoJob
  <2> QED BY <2>5, <2>6
<1>2. RunsTyped
  BY <1>1, NobodyIsCounted DEF FiguresInit, RunsTyped
<1>3. /\ paying = {} /\ paid = {} /\ date = 1 /\ \A u \in Payers : ends[u] = 0
      /\ paying \cup paid = {}
  BY DEF FiguresInit
<1>4. paying \cap paid = {} /\ IsFiniteSet(paying \cup paid) /\ Cardinality(paying \cup paid) <= MaxPaid
  BY <1>3, FS_EmptySet, FiguresParameters
<1>5. ASSUME NEW u \in Payers PROVE ends[u] <= date + Term * Cardinality(PaidBy(u))
  <2>1. PaidBy(u) = {}
    BY <1>3 DEF PaidBy
  <2>2. Cardinality(PaidBy(u)) = 0
    BY <2>1, FS_EmptySet
  <2>3. Term * 0 = 0
    BY FiguresParameters
  <2> QED BY <1>3, <2>2, <2>3
<1> QED BY <1>2, <1>4, <1>5 DEF EndsWithin

LEMMA EndsWithinStep ==
  FigureInv /\ EndsWithin /\ (FiguresNext \/ UNCHANGED figuresVars) => EndsWithin'
<1> SUFFICES ASSUME FigureInv, EndsWithin, FiguresNext \/ UNCHANGED figuresVars PROVE EndsWithin'
  OBVIOUS
<1>1. /\ date \in 1..LastDate /\ date \in Nat /\ ends \in [Payers -> Nat]
      /\ paying \subseteq Payers \X (1..date) /\ paid \subseteq Payers \X (1..date)
      /\ Term \in Nat /\ MaxPaid \in Nat
  BY FiguresParameters DEF FigureInv, FigureTypeOK
<1>2. CASE UNCHANGED <<date, paying, paid, ends>>
  BY <1>2 DEF EndsWithin, PaidBy
<1>3. CASE NextDate
  <2>1. UNCHANGED <<paying, paid, ends>> /\ date' = date + 1
    BY <1>3 DEF NextDate
  <2>2. ASSUME NEW u \in Payers PROVE ends'[u] <= date' + Term * Cardinality(PaidBy(u)')
    <3>1. PICK c \in Nat : c = Cardinality(PaidBy(u)) /\ c = Cardinality(PaidBy(u)')
      BY <2>1, PaymentsOfOne DEF PaidBy
    <3>2. ends[u] <= date + Term * c
      <4>1. ends[u] <= date + Term * Cardinality(PaidBy(u))
        BY DEF EndsWithin
      <4> QED BY <3>1, <4>1
    <3>3. Term * c \in Nat /\ ends[u] \in Nat
      BY <1>1, <3>1
    <3> QED BY <1>1, <2>1, <3>1, <3>2, <3>3
  <2>3. paying' \cap paid' = {} /\ IsFiniteSet(paying' \cup paid') /\ Cardinality(paying' \cup paid') <= MaxPaid
    BY <2>1 DEF EndsWithin
  <2> QED BY <2>2, <2>3 DEF EndsWithin, PaidBy
<1>4. ASSUME NEW u \in Payers, StartPayment(u) PROVE EndsWithin'
  <2>1. PICK p : p = <<u, date>>
    OBVIOUS
  <2>2. /\ UNCHANGED <<date, paid, ends>> /\ p \notin paid /\ paying' = paying \cup {p}
        /\ Cardinality(paying \cup paid) < MaxPaid
    BY <1>4, <2>1 DEF StartPayment
  <2>3. PICK S : S = paying \cup paid
    OBVIOUS
  <2>4. paying' \cup paid' = S \cup {p}
    BY <2>2, <2>3
  <2>5. IsFiniteSet(S \cup {p}) /\ Cardinality(S \cup {p}) <= MaxPaid
    <3>1. IsFiniteSet(S) /\ Cardinality(S) \in Nat /\ Cardinality(S) < MaxPaid
      BY <2>2, <2>3, FS_CardinalityType DEF EndsWithin
    <3>2. /\ IsFiniteSet(S \cup {p})
          /\ Cardinality(S \cup {p}) = Cardinality(S) \/ Cardinality(S \cup {p}) = Cardinality(S) + 1
      BY <3>1, FS_AddElement
    <3> QED BY <1>1, <3>1, <3>2
  <2>6. paying' \cap paid' = {}
    BY <2>2 DEF EndsWithin
  <2>7. \A v \in Payers : ends'[v] <= date' + Term * Cardinality(PaidBy(v)')
    BY <2>2 DEF EndsWithin, PaidBy
  <2> QED BY <2>4, <2>5, <2>6, <2>7 DEF EndsWithin, PaidBy
<1>5. ASSUME NEW p \in paying, CommitPayment(p) PROVE EndsWithin'
  <2>1. PICK u \in Payers, on \in 1..date : p = <<u, on>> /\ u = p[1] /\ on = p[2]
    BY <1>1
  <2>2. /\ paying' = paying \ {p} /\ paid' = paid \cup {p} /\ date' = date
        /\ ends' = [ends EXCEPT ![u] = (IF ends[u] > on THEN ends[u] ELSE on) + Term]
    BY <1>5, <2>1 DEF CommitPayment
  <2>3. paying' \cup paid' = paying \cup paid /\ paying' \cap paid' = {} /\ p \notin paid
    BY <2>2, <1>5 DEF EndsWithin
  <2>4. PICK B : B = PaidBy(u)
    OBVIOUS
  <2>5. PaidBy(u)' = B \cup {p} /\ p \notin B
    BY <2>1, <2>2, <2>3, <2>4 DEF PaidBy
  <2>6. PICK c \in Nat : c = Cardinality(B) /\ Cardinality(B \cup {p}) = c + 1
    <3>1. IsFiniteSet(B) /\ Cardinality(B) \in Nat
      BY <2>4, PaymentsOfOne
    <3> QED BY <2>5, <3>1, FS_AddElement
  <2>7. ends[u] <= date + Term * c /\ ends[u] \in Nat
    BY <1>1, <2>4, <2>6 DEF EndsWithin
  <2>8. Term * (c + 1) = Term * c + Term /\ Term * c \in Nat
    BY <1>1, <2>6
  <2>9. ends'[u] <= date' + Term * Cardinality(PaidBy(u)')
    <3>1. ends'[u] = (IF ends[u] > on THEN ends[u] ELSE on) + Term
      BY <1>1, <2>2
    <3>2. Cardinality(PaidBy(u)') = c + 1
      BY <2>5, <2>6
    <3>3. (IF ends[u] > on THEN ends[u] ELSE on) <= date + Term * c
      BY <1>1, <2>1, <2>7, <2>8
    <3>4. PICK m \in Nat : m = (IF ends[u] > on THEN ends[u] ELSE on)
      BY <1>1, <2>1, <2>7
    <3>5. m + Term <= date + Term * (c + 1)
      BY <1>1, <2>8, <3>3, <3>4
    <3> QED BY <2>2, <3>1, <3>2, <3>4, <3>5
  <2>10. ASSUME NEW v \in Payers \ {u} PROVE ends'[v] <= date' + Term * Cardinality(PaidBy(v)')
    <3>1. PaidBy(v)' = PaidBy(v)
      BY <2>1, <2>2 DEF PaidBy
    <3>2. ends'[v] = ends[v]
      BY <1>1, <2>2
    <3> QED BY <2>2, <3>1, <3>2 DEF EndsWithin
  <2>11. \A v \in Payers : ends'[v] <= date' + Term * Cardinality(PaidBy(v)')
    BY <2>9, <2>10
  <2>12. IsFiniteSet(paying' \cup paid') /\ Cardinality(paying' \cup paid') <= MaxPaid
    BY <2>3 DEF EndsWithin
  <2> QED BY <2>3, <2>11, <2>12 DEF EndsWithin, PaidBy
<1>6. CASE \E j \in Jobs : \/ StartJob(j) \/ CountPaid(j) \/ CountChurned(j) \/ CountActive(j)
                         \/ UpsertFigure(j) \/ CommitJob(j) \/ JobFails(j)
  <2>1. UNCHANGED <<date, paying, paid, ends>>
    BY <1>6 DEF StartJob, CountPaid, CountChurned, CountActive, UpsertFigure, CommitJob, JobFails
  <2> QED BY <1>2, <2>1
<1>7. CASE UNCHANGED figuresVars
  BY <1>2, <1>7 DEF figuresVars
<1> QED BY <1>3, <1>4, <1>5, <1>6, <1>7 DEF FiguresNext

LEMMA FiguresAreTyped == FigureInv /\ RunsTyped /\ EndsWithin => FiguresTypeOK
<1> SUFFICES ASSUME FigureInv, RunsTyped, EndsWithin PROVE FiguresTypeOK
  OBVIOUS
<1>1. /\ date \in 1..LastDate /\ ends \in [Payers -> Nat]
      /\ paying \subseteq Payers \X (1..date) /\ paid \subseteq Payers \X (1..date)
      /\ Term \in Nat /\ MaxPaid \in Nat /\ LastDate \in Nat
  BY FiguresParameters DEF FigureInv, FigureTypeOK
<1>2. paying \subseteq Payment /\ paid \subseteq Payment /\ date \in Dates
  BY <1>1 DEF Payment, Dates
<1>3. ASSUME NEW u \in Payers PROVE ends[u] \in 0..(LastDate + Term * MaxPaid)
  <2>1. PICK c \in Nat : c = Cardinality(PaidBy(u)) /\ c <= MaxPaid
    BY PaymentsOfOne
  <2>2. Term * c <= Term * MaxPaid /\ Term * c \in Nat /\ Term * MaxPaid \in Nat
    BY <1>1, <2>1, MoreTerms
  <2>3. ends[u] <= date + Term * c /\ ends[u] \in Nat
    <3>1. ends[u] <= date + Term * Cardinality(PaidBy(u))
      BY DEF EndsWithin
    <3>2. ends[u] \in Nat
      BY <1>1
    <3> QED BY <2>1, <3>1, <3>2
  <2> QED BY <1>1, <2>2, <2>3
<1>4. ends \in [Payers -> 0..(LastDate + Term * MaxPaid)]
  BY <1>1, <1>3
<1> QED BY <1>2, <1>4 DEF FiguresTypeOK, RunsTyped, RunRow

\* What the attempts' records and the list hold.
WithinPool(r) == r.proxy \in 0..NumProxies /\ r.waits \in 0..MaxWaits
SupplyWithin ==
  /\ \A a \in Attempts : WithinPool(attempt[a])
  /\ listing.seen \subseteq Attempts \X States /\ listing.moved \subseteq Attempts

LEMMA SupplyBeginsWithin == SupplyInit => SupplyWithin
<1> SUFFICES ASSUME SupplyInit PROVE SupplyWithin
  OBVIOUS
<1>1. \A a \in Attempts : attempt[a] = NoAttempt
  BY DEF SupplyInit
<1>2. NoAttempt.proxy = 0 /\ NoAttempt.waits = 0
  BY DEF NoAttempt
<1>3. listing.seen = {} /\ listing.moved = {}
  BY DEF SupplyInit, NoListing
<1> QED BY <1>1, <1>2, <1>3, SupplyParameters DEF SupplyWithin, WithinPool

\* One attempt goes on.
LEMMA OneWithin ==
  ASSUME CostInv, SupplyWithin, NEW a \in Attempts, NEW r,
         attempt' = [attempt EXCEPT ![a] = r], WithinPool(r)
  PROVE  \A b \in Attempts : WithinPool(attempt'[b])
<1>1. \A b \in Attempts : attempt'[b] = IF b = a THEN r ELSE attempt[b]
  BY DEF CostInv, SupplyTyped
<1> QED BY <1>1 DEF SupplyWithin

LEMMA GoingWithin ==
  ASSUME CostInv, SupplyWithin, NEW a \in Attempts,
         (\E step \in Steps : Goes(a, step)) \/ (\E why \in {"timeout", "error"} : Raises(a, why))
  PROVE  \A b \in Attempts : WithinPool(attempt'[b])
<1>1. attempt[a] \in AttemptRow /\ WithinPool(attempt[a])
  BY DEF CostInv, SupplyTyped, SupplyWithin
<1>2. ASSUME NEW step \in Steps, Goes(a, step) PROVE \A b \in Attempts : WithinPool(attempt'[b])
  <2>1. PICK r : r = [attempt[a] EXCEPT !.at = step, !.waits = 0,
                                        !.why = IF step = "over" THEN "none" ELSE attempt[a].why]
    OBVIOUS
  <2>2. attempt' = [attempt EXCEPT ![a] = r]
    BY <1>2, <2>1 DEF Goes, CostInv, SupplyTyped
  <2>3. r.proxy = attempt[a].proxy /\ r.waits = 0
    BY <1>1, <2>1 DEF AttemptRow
  <2>4. WithinPool(r)
    BY <1>1, <2>3, SupplyParameters DEF WithinPool
  <2> QED BY <2>2, <2>4, OneWithin
<1>3. ASSUME NEW why \in {"timeout", "error"}, Raises(a, why)
      PROVE  \A b \in Attempts : WithinPool(attempt'[b])
  <2>1. PICK r : r = [attempt[a] EXCEPT !.at = "cancel", !.waits = 0, !.why = why]
    OBVIOUS
  <2>2. attempt' = [attempt EXCEPT ![a] = r]
    BY <1>3, <2>1 DEF Raises, CostInv, SupplyTyped
  <2>3. r.proxy = attempt[a].proxy /\ r.waits = 0
    BY <1>1, <2>1 DEF AttemptRow
  <2>4. WithinPool(r)
    BY <1>1, <2>3, SupplyParameters DEF WithinPool
  <2> QED BY <2>2, <2>4, OneWithin
<1> QED BY <1>2, <1>3

LEMMA StartWithin ==
  ASSUME CostInv, SupplyWithin, NEW a \in Attempts, StartAttempt(a)
  PROVE  \A b \in Attempts : WithinPool(attempt'[b])
<1>1. attempt[a] \in AttemptRow /\ WithinPool(attempt[a])
  BY DEF CostInv, SupplyTyped, SupplyWithin
<1>2. PICK free : free = (1..NumProxies) \ Used
  OBVIOUS
<1>3. PICK m : m = Min(free)
  OBVIOUS
<1>4. free # {} => m \in free
  <2>1. free \in SUBSET (1..NumProxies) /\ free \in SUBSET Int
    BY <1>2, SupplyParameters
  <2>2. IsFiniteSet(free)
    <3>1. IsFiniteSet(1..NumProxies)
      BY SupplyParameters, FS_Interval
    <3> QED BY <2>1, <3>1, FS_Subset
  <2>3. free # {} => \E x \in free : \A y \in free : x <= y
    BY <2>1, <2>2, ExtremesExist
  <2> QED BY <1>3, <2>3 DEF Min
<1>5. PICK proxy, at : /\ attempt' = [attempt EXCEPT ![a].proxy = proxy, ![a].at = at]
                       /\ proxy \in 0..NumProxies
  <2>1. attempt' = [attempt EXCEPT
           ![a].proxy = IF leasing \/ free = {} THEN 0 ELSE m,
           ![a].at = IF ~leasing /\ NumProxies > 0 /\ free = {} THEN "over" ELSE "buy"]
    BY <1>2, <1>3 DEF StartAttempt
  <2>2. (IF leasing \/ free = {} THEN 0 ELSE m) \in 0..NumProxies
    BY <1>2, <1>4, SupplyParameters
  <2> QED BY <2>1, <2>2
<1>6. PICK r : r = [attempt[a] EXCEPT !.proxy = proxy, !.at = at]
  OBVIOUS
<1>7. attempt' = [attempt EXCEPT ![a] = r]
  BY <1>5, <1>6 DEF CostInv, SupplyTyped
<1>8. r.proxy = proxy /\ r.waits = attempt[a].waits
  BY <1>1, <1>6 DEF AttemptRow
<1>9. WithinPool(r)
  BY <1>1, <1>5, <1>8 DEF WithinPool
<1> QED BY <1>7, <1>9, OneWithin

LEMMA SupplyStaysWithin ==
  CostInv /\ ListingInv /\ SupplyWithin /\ (SupplyNext \/ UNCHANGED supplyVars) => SupplyWithin'
<1> SUFFICES ASSUME CostInv, ListingInv, SupplyWithin, SupplyNext \/ UNCHANGED supplyVars
             PROVE  SupplyWithin'
  OBVIOUS
<1>0. attempt \in [Attempts -> AttemptRow] /\ \A a \in Attempts : WithinPool(attempt[a])
  BY DEF CostInv, SupplyTyped, SupplyWithin
<1>1. ASSUME UNCHANGED listing, \A b \in Attempts : WithinPool(attempt'[b]) PROVE SupplyWithin'
  BY <1>1 DEF SupplyWithin
<1>2. CASE UNCHANGED supplyVars
  BY <1>0, <1>1, <1>2 DEF supplyVars
<1>3. ASSUME NEW a \in Attempts,
             \/ BuyNumber(a) \/ SendCode(a) \/ Sign(a) \/ GetMe(a) \/ Finish(a) \/ Cancel(a)
             \/ ReleasePort(a) \/ AttemptDies(a) \/ Book(a) \/ Rejects(a) \/ RejectionLost(a)
      PROVE  SupplyWithin'
  <2>1. UNCHANGED listing
    BY <1>3 DEF BuyNumber, SendCode, Sign, GetMe, Finish, Cancel, ReleasePort, AttemptDies, Book, Rejects,
                RejectionLost
  <2>2. (\E step \in Steps : Goes(a, step)) \/ (\E why \in {"timeout", "error"} : Raises(a, why))
    <3>1. {"allocate", "connect", "code", "me", "sign up", "finish", "book", "over", "release",
           "reject"} \subseteq Steps
      BY DEF Steps
    <3> QED BY <1>3, <3>1 DEF BuyNumber, SendCode, Sign, GetMe, Finish, Cancel, ReleasePort, AttemptDies,
                             Book, AfterCancel, Settles, Rejects, RejectionLost
  <2> QED BY <1>1, <2>1, <2>2, GoingWithin
<1>4. ASSUME NEW a \in Attempts, StartAttempt(a) PROVE SupplyWithin'
  BY <1>1, <1>4, StartWithin DEF StartAttempt
<1>5. ASSUME NEW a \in Attempts, Allocate(a) PROVE SupplyWithin'
  <2>1. UNCHANGED listing
    BY <1>5 DEF Allocate
  <2>2. CASE Raises(a, "error")
    BY <1>1, <2>1, <2>2, GoingWithin
  <2>3. CASE attempt' = [attempt EXCEPT ![a].at = "connect", ![a].lease = TRUE]
    <3>1. PICK r : r = [attempt[a] EXCEPT !.at = "connect", !.lease = TRUE]
      OBVIOUS
    <3>2. attempt' = [attempt EXCEPT ![a] = r]
      BY <1>0, <2>3, <3>1
    <3>3. r.proxy = attempt[a].proxy /\ r.waits = attempt[a].waits
      BY <1>0, <3>1 DEF AttemptRow
    <3>4. WithinPool(r)
      BY <1>0, <3>3 DEF WithinPool
    <3> QED BY <1>1, <2>1, <3>2, <3>4, OneWithin
  <2> QED BY <1>5, <2>2, <2>3 DEF Allocate
<1>6. ASSUME NEW a \in Attempts, PollCode(a) PROVE SupplyWithin'
  <2>1. UNCHANGED listing
    BY <1>6 DEF PollCode
  <2>2. CASE Goes(a, "sign in") \/ Raises(a, "timeout") \/ Raises(a, "error")
    <3>1. "sign in" \in Steps
      BY DEF Steps
    <3> QED BY <1>1, <2>1, <2>2, <3>1, GoingWithin
  <2>3. CASE attempt[a].waits < MaxWaits /\ attempt' = [attempt EXCEPT ![a].waits = @ + 1]
    <3>1. PICK w : w = attempt[a].waits + 1
      OBVIOUS
    <3>2. w \in 0..MaxWaits
      BY <1>0, <2>3, <3>1, SupplyParameters DEF WithinPool
    <3>3. PICK r : r = [attempt[a] EXCEPT !.waits = w]
      OBVIOUS
    <3>4. attempt' = [attempt EXCEPT ![a] = r]
      BY <1>0, <2>3, <3>1, <3>3
    <3>5. r.proxy = attempt[a].proxy /\ r.waits = w
      BY <1>0, <3>3 DEF AttemptRow
    <3>6. WithinPool(r)
      BY <1>0, <3>2, <3>5 DEF WithinPool
    <3> QED BY <1>1, <2>1, <3>4, <3>6, OneWithin
  <2> QED BY <1>6, <2>2, <2>3 DEF PollCode
<1>7. ASSUME NEW a \in Attempts, Promoted(a) \/ Rejected(a) PROVE SupplyWithin'
  <2>1. \E state : Shifts(a, state)
    BY <1>7 DEF Promoted, Rejected
  <2>2. PICK moved : moved = IF listing.left = {} THEN listing.moved ELSE listing.moved \cup {a}
    OBVIOUS
  <2>3. listing' = [left |-> listing.left, seen |-> listing.seen, had |-> listing.had, moved |-> moved]
    BY <2>1, <2>2 DEF Shifts, ListingInv
  <2>4. listing'.seen = listing.seen /\ listing'.moved = moved
    BY <2>3
  <2>5. \A b \in Attempts : WithinPool(attempt'[b])
    <3>1. CASE UNCHANGED attempt
      BY <1>0, <3>1
    <3>2. CASE Goes(a, "over")
      BY <3>2, GoingWithin DEF Steps
    <3> QED BY <1>7, <3>1, <3>2 DEF Promoted, Rejected
  <2> QED BY <1>0, <2>2, <2>4, <2>5 DEF SupplyWithin
<1>8. CASE AskForList
  <2>1. PICK had : had = {a \in Attempts : booked[a] # "none"}
    OBVIOUS
  <2>2. listing' = [left |-> States, seen |-> {}, had |-> had, moved |-> {}]
    BY <1>8, <2>1 DEF AskForList, NoListing
  <2>3. listing'.seen = {} /\ listing'.moved = {}
    BY <2>2
  <2>4. UNCHANGED attempt
    BY <1>8 DEF AskForList
  <2> QED BY <1>0, <2>3, <2>4 DEF SupplyWithin
<1>9. ASSUME NEW state \in States, ReadState(state) PROVE SupplyWithin'
  <2>1. PICK left, seen2 :
          /\ left = listing.left \ {state}
          /\ seen2 = listing.seen \cup ({a \in Attempts : booked[a] = state} \X {state})
    OBVIOUS
  <2>2. listing' = [left |-> left, seen |-> seen2, had |-> listing.had, moved |-> listing.moved]
    BY <1>9, <2>1 DEF ReadState, ListingInv
  <2>3. listing'.seen = seen2 /\ listing'.moved = listing.moved
    BY <2>2
  <2>4. seen2 \subseteq Attempts \X States
    BY <2>1 DEF SupplyWithin
  <2>5. UNCHANGED attempt
    BY <1>9 DEF ReadState
  <2> QED BY <1>0, <2>3, <2>4, <2>5 DEF SupplyWithin
<1> QED BY <1>2, <1>3, <1>4, <1>5, <1>6, <1>7, <1>8, <1>9 DEF SupplyNext

LEMMA SupplyIsTyped == CostInv /\ ListingInv /\ SupplyWithin => SupplyTypeOK
<1> SUFFICES ASSUME CostInv, ListingInv, SupplyWithin PROVE SupplyTypeOK
  OBVIOUS
<1>1. SupplyTyped
  BY DEF CostInv
<1>2. ASSUME NEW a \in Attempts
      PROVE  attempt[a] \in [at : Steps, proxy : 0..NumProxies, lease : BOOLEAN,
                             waits : 0..MaxWaits, why : {"none", "timeout", "error"}]
  BY <1>1 DEF SupplyTyped, AttemptRow, SupplyWithin, WithinPool
<1>3. attempt \in [Attempts -> [at : Steps, proxy : 0..NumProxies, lease : BOOLEAN,
                                waits : 0..MaxWaits, why : {"none", "timeout", "error"}]]
  BY <1>1, <1>2 DEF SupplyTyped
<1>4. listing \in [left : SUBSET States, seen : SUBSET (Attempts \X States),
                   had : SUBSET Attempts, moved : SUBSET Attempts]
  BY DEF ListingInv, SupplyWithin
<1> QED BY <1>1, <1>3, <1>4 DEF SupplyTypeOK, SupplyTyped

LEMMA AccessIsTyped == KeyInv /\ SignupInv => AccessTypeOK
BY DEF KeyInv, KeyTypeOK, SignupInv, SignupTypeOK, AccessTypeOK, CallRow, CallPlaces, NewcomerRow

-----------------------------------------------------------------------------
(***************************************************************************)
(* The types of the service.                                               *)
(***************************************************************************)
TypesInv ==
  /\ section \in Sections /\ LockIInv /\ ServiceInv
  /\ PageTyped /\ SignalsTyped /\ RunsTyped /\ EndsWithin /\ SupplyWithin

LEMMA TypesBegin == ServiceInit => TypesInv
BY LockInitIInv, ServiceBegins, FeedTypesBegin, EndsBegin, SupplyBeginsWithin
DEF ServiceInit, TypesInv

LEMMA TypesGoOn == TypesInv /\ [ServiceNext]_serviceVars => TypesInv'
<1> SUFFICES ASSUME TypesInv, [ServiceNext]_serviceVars PROVE TypesInv'
  OBVIOUS
<1>1. [LockNext]_lockVars /\ section' = section
  BY DEF ServiceNext, Locking, Paging, Rating, Entering, Figuring, Supplying, serviceVars
<1>2. (ListNext \/ UNCHANGED listVars) /\ (DeskNext \/ UNCHANGED deskVars)
  BY DEF ServiceNext, Locking, Paging, Rating, Entering, Figuring, Supplying, serviceVars, feedVars
<1>3. (FiguresNext \/ UNCHANGED figuresVars) /\ (SupplyNext \/ UNCHANGED supplyVars)
  BY DEF ServiceNext, Locking, Paging, Rating, Entering, Figuring, Supplying, serviceVars
<1>4. LockIInv /\ ServiceInv /\ LockIInv' /\ ServiceInv'
  BY <1>1, LockNextIInv, ServiceGoesOn DEF TypesInv
<1>5. ListInv /\ DeskInv /\ FigureInv /\ CostInv /\ ListingInv
  BY <1>4 DEF ServiceInv, SupplyInv
<1>6. PageTyped' /\ SignalsTyped'
  BY <1>2, <1>5, PageTypedStep, SignalsTypedStep DEF TypesInv
<1>7. RunsTyped' /\ EndsWithin' /\ SupplyWithin'
  BY <1>3, <1>5, RunsTypedStep, EndsWithinStep, SupplyStaysWithin DEF TypesInv
<1> QED BY <1>1, <1>4, <1>6, <1>7 DEF TypesInv

\* The state of the pages, ratings, keys, figures, purchases and of the lock stays
\* within its types: no subscription runs beyond the terms that were paid for, no proxy
\* is outside the pool, no code is asked for beyond the timeout.
THEOREM ServiceTypes == ServiceSpec => []ServiceTypeOK
<1>1. TypesInv => ServiceTypeOK
  <2> SUFFICES ASSUME TypesInv PROVE ServiceTypeOK
    OBVIOUS
  <2>1. LockTypeOK /\ section \in Sections
    BY DEF TypesInv, LockIInv
  <2>2. RatingInv /\ KeyInv /\ SignupInv /\ ListInv /\ DeskInv /\ FigureInv /\ CostInv /\ ListingInv
    BY DEF TypesInv, ServiceInv, SupplyInv
  <2>3. FeedTypeOK /\ FiguresTypeOK /\ SupplyTypeOK
    BY <2>2, FeedIsTyped, FiguresAreTyped, SupplyIsTyped DEF TypesInv
  <2>4. RatingsTypeOK /\ AccessTypeOK
    BY <2>2, AccessIsTyped DEF RatingInv
  <2> QED BY <2>1, <2>3, <2>4 DEF ServiceTypeOK
<1> QED BY <1>1, TypesBegin, TypesGoOn, PTL DEF ServiceSpec
=============================================================================
