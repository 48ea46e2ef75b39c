--------------------------- MODULE ScoringProofs ---------------------------
(***************************************************************************)
(* Theorems of Scoring, for any number of users, clusters and overlapping  *)
(* ticks.  The guards hold for what is committed because of what each      *)
(* transaction would see: its own alerts with the committed ones are within*)
(* the limit and apart, and no other transaction of the user is past the   *)
(* guards.  The hand-off is single because of the score's row lock: an     *)
(* alert is only inserted under it.                                        *)
(***************************************************************************)
EXTENDS Scoring, FiniteSetTheorems, TLAPS

\* A transaction's alerts and locks, and the cluster it is at.
Structure ==
  \A t \in Ticks :
    /\ tick[t].at \notin InTransaction => tick[t].mine = {} /\ tick[t].locks = {}
    /\ tick[t].at \in {"score", "guarded"} =>
         tick[t].on \in Clusters /\ Owner[tick[t].on] = tick[t].user
    /\ tick[t].at = "guarded" => tick[t].on \in tick[t].locks
    /\ \A c \in tick[t].todo \cup tick[t].mine : Owner[c] = tick[t].user
    /\ tick[t].mine \subseteq tick[t].locks
    /\ \A s \in Ticks \ {t} : tick[s].locks \cap tick[t].locks = {}

\* An alert is in one place: inserted, created by a tick, handed over.
HandOffs ==
  /\ \A t \in Ticks :
       /\ tick[t].mine \cap alerts = {}
       /\ tick[t].created \subseteq alerts
       /\ \A s \in Ticks \ {t} : tick[s].created \cap tick[t].created = {}
       /\ \A c \in tick[t].created : handed[c] = 0
  /\ \A c \in Clusters :
       /\ handed[c] \in {0, 1}
       /\ handed[c] = 1 => c \in alerts
       /\ c \in alerts => \/ handed[c] = 1 \/ c \in orphans
                          \/ \E t \in Ticks : c \in tick[t].created

\* The alerts of S that count for u; S is within every user's limit; the
\* alerts of S on one topic are apart.
Young(S, u) == {c \in S : Owner[c] = u /\ age[c] < RateAge}
Within(S) == \A u \in Users : Cardinality(Young(S, u)) <= Limit
Apart(S) ==
  \A c, d \in S : /\ c # d /\ Owner[c] = Owner[d] /\ topic[c] = topic[d]
                  => age[c] >= GroupAge \/ age[d] >= GroupAge

\* Past a guard, with an alert inserted or to be inserted.
PastGuards(t) ==
  tick[t].at \in InTransaction /\ (tick[t].mine # {} \/ tick[t].at = "guarded")

Undisturbed ==
  ~raced =>
    /\ Within(alerts) /\ Apart(alerts)
    /\ \A t \in Ticks :
         /\ Within(Visible(t)) /\ Apart(Visible(t))
         /\ tick[t].at = "guarded" => RateHeld(t)
         /\ \A s \in Ticks \ {t} : PastGuards(s) /\ PastGuards(t) => tick[s].user # tick[t].user

IInv == TypeOK /\ Structure /\ HandOffs /\ Undisturbed

-----------------------------------------------------------------------------
(* Counting.                                                               *)

LEMMA YoungFinite ==
  ASSUME NEW S \in SUBSET Clusters, NEW u
  PROVE  IsFiniteSet(Young(S, u)) /\ Cardinality(Young(S, u)) \in Nat
<1>1. Young(S, u) \subseteq Clusters
  BY DEF Young
<1>2. IsFiniteSet(Young(S, u))
  BY <1>1, FS_Subset, ScoringParameters
<1> QED BY <1>2, FS_CardinalityType

LEMMA FewerWithin ==
  ASSUME NEW S \in SUBSET Clusters, NEW R, R \subseteq S, Within(S)
  PROVE  Within(R)
<1> SUFFICES ASSUME NEW u \in Users PROVE Cardinality(Young(R, u)) <= Limit
  BY DEF Within
<1>1. Young(R, u) \subseteq Young(S, u)
  BY DEF Young
<1>2. Cardinality(Young(R, u)) <= Cardinality(Young(S, u))
  BY <1>1, YoungFinite, FS_Subset
<1>3. Cardinality(Young(S, u)) <= Limit
  BY DEF Within
<1> QED BY <1>2, <1>3, YoungFinite, ScoringParameters

\* One more alert fits where the rate guard has passed.
LEMMA OneMoreWithin ==
  ASSUME NEW S \in SUBSET Clusters, NEW c \in Clusters, Within(S),
         Cardinality(Young(S, Owner[c])) < Limit
  PROVE  Within(S \cup {c})
<1> SUFFICES ASSUME NEW u \in Users PROVE Cardinality(Young(S \cup {c}, u)) <= Limit
  BY DEF Within
<1>1. CASE u = Owner[c]
  <2>1. Young(S \cup {c}, u) \subseteq Young(S, u) \cup {c}
    BY DEF Young
  <2>2. /\ IsFiniteSet(Young(S, u) \cup {c})
        /\ Cardinality(Young(S, u) \cup {c}) <= Cardinality(Young(S, u)) + 1
    <3>1. IsFiniteSet(Young(S, u)) /\ Cardinality(Young(S, u)) \in Nat
      BY YoungFinite
    <3> HIDE DEF Young
    <3>2. /\ IsFiniteSet(Young(S, u) \cup {c})
          /\ Cardinality(Young(S, u) \cup {c}) =
               IF c \in Young(S, u) THEN Cardinality(Young(S, u))
               ELSE Cardinality(Young(S, u)) + 1
      BY <3>1, FS_AddElement
    <3> QED BY <3>1, <3>2
  <2>3. Cardinality(Young(S \cup {c}, u)) <= Cardinality(Young(S, u) \cup {c})
    BY <2>1, <2>2, FS_Subset
  <2>4. /\ Cardinality(Young(S \cup {c}, u)) \in Nat
        /\ Cardinality(Young(S, u) \cup {c}) \in Nat
        /\ Cardinality(Young(S, u)) \in Nat
    BY <2>2, YoungFinite, FS_CardinalityType
  <2> QED BY <1>1, <2>2, <2>3, <2>4, ScoringParameters
<1>2. CASE u # Owner[c]
  <2>1. Young(S \cup {c}, u) = Young(S, u)
    BY <1>2 DEF Young
  <2> QED BY <2>1 DEF Within
<1> QED BY <1>1, <1>2

\* Growing older only helps.
LEMMA OlderIsFine ==
  ASSUME NEW S \in SUBSET Clusters, TypeOK, NEW c \in Clusters, Ages(c)
  PROVE  /\ \A u : Cardinality(Young(S, u)') <= Cardinality(Young(S, u))
         /\ Within(S) => Within(S)'
         /\ Apart(S) => Apart(S)'
<1>1. \A d \in Clusters : age[d] \in Nat /\ age'[d] \in Nat /\ age'[d] >= age[d]
  BY DEF TypeOK, Ages
<1>2. ASSUME NEW u PROVE /\ Young(S, u)' \subseteq Young(S, u)
                         /\ Cardinality(Young(S, u)') <= Cardinality(Young(S, u))
                         /\ Cardinality(Young(S, u)') \in Nat
  <2>1. Young(S, u)' \subseteq Young(S, u)
    <3> SUFFICES ASSUME NEW d \in Young(S, u)' PROVE d \in Young(S, u)
      OBVIOUS
    <3>1. d \in S /\ Owner[d] = u /\ age'[d] < RateAge
      BY DEF Young
    <3>2. age[d] < RateAge
      BY <1>1, <3>1, ScoringParameters
    <3> QED BY <3>1, <3>2 DEF Young
  <2> QED BY <2>1, YoungFinite, FS_Subset, FS_CardinalityType
<1>3. Within(S) => Within(S)'
  BY <1>2, YoungFinite, ScoringParameters DEF Within
<1>4. Apart(S) => Apart(S)'
  BY <1>1, ScoringParameters DEF Apart, Ages
<1> QED BY <1>2, <1>3, <1>4

-----------------------------------------------------------------------------

LEMMA NoTickType == NoTick \in Tick
BY ScoringParameters DEF NoTick, Tick, Users

LEMMA InitIInv == Init => IInv
<1> SUFFICES ASSUME Init PROVE IInv
  OBVIOUS
<1>1. TypeOK
  <2>1. 0 \in 0..Oldest /\ 0 \in 0..MaxFaults
    BY ScoringParameters DEF Oldest
  <2> QED BY <2>1, NoTickType DEF Init, TypeOK
<1>2. Structure
  BY DEF Init, Structure, NoTick, InTransaction
<1>3. HandOffs
  BY DEF Init, HandOffs, NoTick
<1>4. Undisturbed
  <2>1. Within({})
    <3>1. \A u : Young({}, u) = {}
      BY DEF Young
    <3> QED BY <3>1, FS_EmptySet, ScoringParameters DEF Within
  <2>2. Apart({})
    BY DEF Apart
  <2>3. \A t \in Ticks : Visible(t) = {}
    BY DEF Init, Visible, NoTick
  <2>4. alerts = {} /\ \A t \in Ticks : tick[t].at = "idle"
    BY DEF Init, NoTick
  <2> QED BY <2>1, <2>2, <2>3, <2>4 DEF Undisturbed, PastGuards, InTransaction
<1> QED BY <1>1, <1>2, <1>3, <1>4 DEF IInv

\* A tick goes on without inserting, creating or passing a guard; it may lock.
LEMMA MoveIInv ==
  ASSUME IInv, NEW t \in Ticks, NEW r \in Tick,
         tick' = [tick EXCEPT ![t] = r],
         r.mine = tick[t].mine, r.created = tick[t].created,
         tick[t].mine = {} \/ r.user = tick[t].user,
         r.at # "guarded",
         r.at \notin InTransaction => r.mine = {} /\ r.locks = {},
         r.at = "score" => r.on \in Clusters /\ Owner[r.on] = r.user,
         \A c \in r.todo : Owner[c] = r.user,
         r.mine \subseteq r.locks,
         \A s \in Ticks \ {t} : tick[s].locks \cap r.locks = {},
         UNCHANGED <<topic, age, alerts, handed, orphans, faults, raced>>
  PROVE  IInv'
<1>1. \A s \in Ticks : tick'[s] = IF s = t THEN r ELSE tick[s]
  BY DEF IInv, TypeOK
<1>2. TypeOK'
  BY DEF IInv, TypeOK
<1>3. Structure'
  BY <1>1 DEF IInv, Structure, InTransaction
<1>4. HandOffs'
  BY <1>1 DEF IInv, HandOffs
<1>5. \A s \in Ticks : Visible(s)' = Visible(s)
  BY <1>1 DEF Visible
<1>6. ASSUME NEW s \in Ticks, PastGuards(s)'
      PROVE  PastGuards(s) /\ tick'[s].user = tick[s].user
  BY <1>1, <1>6 DEF PastGuards, IInv, Structure
<1>7. Undisturbed'
  <2> SUFFICES ASSUME ~raced PROVE Undisturbed'
    BY DEF Undisturbed
  <2>2. Within(alerts)' /\ Apart(alerts)'
    BY DEF IInv, Undisturbed, Within, Apart, Young
  <2>3. ASSUME NEW s \in Ticks
        PROVE  /\ Within(Visible(s))' /\ Apart(Visible(s))'
               /\ tick'[s].at = "guarded" => RateHeld(s)'
    <3>1. Within(Visible(s)) /\ Apart(Visible(s))
      BY DEF IInv, Undisturbed
    <3>2. Within(Visible(s))' /\ Apart(Visible(s))'
      BY <1>5, <3>1 DEF Within, Apart, Young
    <3>3. tick'[s].at = "guarded" => RateHeld(s)'
      BY <1>1, <1>5 DEF IInv, Undisturbed, RateHeld
    <3> QED BY <3>2, <3>3
  <2>4. \A s, v \in Ticks : s # v /\ PastGuards(s)' /\ PastGuards(v)'
                             => tick'[s].user # tick'[v].user
    BY <1>6 DEF IInv, Undisturbed
  <2> QED BY <2>2, <2>3, <2>4 DEF Undisturbed
<1> QED BY <1>2, <1>3, <1>4, <1>7 DEF IInv

LEMMA StartTickIInv == ASSUME IInv, NEW t \in Ticks, StartTick(t) PROVE IInv'
<1> DEFINE r == [tick[t] EXCEPT !.at = "user"]
<1>1. tick[t] \in Tick /\ tick[t].at = "idle"
  BY DEF IInv, TypeOK, StartTick
<1>2. r \in Tick
  BY <1>1 DEF Tick, InTransaction
<1>3. tick[t].mine = {} /\ tick[t].locks = {}
  BY <1>1 DEF IInv, Structure, InTransaction
<1>4. /\ r.mine = {} /\ r.locks = {} /\ r.created = tick[t].created
      /\ r.at = "user" /\ r.todo = tick[t].todo /\ r.user = tick[t].user
  BY <1>1, <1>3 DEF Tick
<1>5. \A c \in r.todo : Owner[c] = r.user
  BY <1>4 DEF IInv, Structure
<1> QED BY <1>1, <1>2, <1>3, <1>4, <1>5, MoveIInv DEF StartTick, InTransaction

LEMMA StartUserIInv == ASSUME IInv, NEW t \in Ticks, StartUser(t) PROVE IInv'
<1>1. tick[t] \in Tick /\ tick[t].at = "user"
  BY DEF IInv, TypeOK, StartUser
<1>2. tick[t].mine = {} /\ tick[t].locks = {}
  BY <1>1 DEF IInv, Structure, InTransaction
<1>3. PICK fresh \in SUBSET ClustersOf(tick[t].user) :
        tick' = [tick EXCEPT ![t].at = "scan", ![t].todo = fresh]
  BY DEF StartUser
<1> DEFINE r == [tick[t] EXCEPT !.at = "scan", !.todo = fresh]
<1>4. r \in Tick
  BY <1>1 DEF Tick, InTransaction, ClustersOf
<1>5. /\ r.mine = {} /\ r.locks = {} /\ r.created = tick[t].created
      /\ r.at = "scan" /\ r.todo = fresh /\ r.user = tick[t].user
  BY <1>1, <1>2 DEF Tick
<1>6. \A c \in r.todo : Owner[c] = r.user
  BY <1>5 DEF ClustersOf
<1>7. tick' = [tick EXCEPT ![t] = r]
  BY <1>3
<1> HIDE DEF r
<1>8. r.mine \subseteq r.locks /\ \A s \in Ticks \ {t} : tick[s].locks \cap r.locks = {}
  BY <1>5
<1>9. r.at \in InTransaction /\ r.at \notin {"guarded", "score"}
  BY <1>5 DEF InTransaction
<1>10. r.mine = tick[t].mine /\ r.created = tick[t].created
  BY <1>2, <1>5
<1>11. UNCHANGED <<topic, age, alerts, handed, orphans, faults, raced>>
  BY DEF StartUser
<1> QED BY <1>2, <1>4, <1>6, <1>7, <1>8, <1>9, <1>10, <1>11, MoveIInv

LEMMA NextClusterIInv == ASSUME IInv, NEW t \in Ticks, NextCluster(t) PROVE IInv'
<1>1. tick[t] \in Tick /\ tick[t].at = "scan"
  BY DEF IInv, TypeOK, NextCluster
<1>2. PICK c \in tick[t].todo :
        \/ tick' = [tick EXCEPT ![t].todo = @ \ {c}]
        \/ tick' = [tick EXCEPT ![t].todo = @ \ {c}, ![t].at = "score", ![t].on = c]
  BY DEF NextCluster
<1>3. c \in Clusters /\ Owner[c] = tick[t].user
  BY <1>1 DEF IInv, Structure, Tick
<1>4. PICK r \in Tick :
        /\ tick' = [tick EXCEPT ![t] = r]
        /\ r.mine = tick[t].mine /\ r.locks = tick[t].locks /\ r.created = tick[t].created
        /\ r.user = tick[t].user /\ r.todo = tick[t].todo \ {c}
        /\ r.at \in {"scan", "score"}
        /\ r.at = "score" => r.on = c
  <2>1. CASE tick' = [tick EXCEPT ![t].todo = @ \ {c}]
    <3> DEFINE r == [tick[t] EXCEPT !.todo = @ \ {c}]
    <3>1. r \in Tick
      BY <1>1 DEF Tick
    <3>2. /\ r.mine = tick[t].mine /\ r.locks = tick[t].locks /\ r.created = tick[t].created
          /\ r.user = tick[t].user /\ r.todo = tick[t].todo \ {c} /\ r.at = "scan"
      BY <1>1 DEF Tick
    <3>3. tick' = [tick EXCEPT ![t] = r]
      BY <2>1
    <3> HIDE DEF r
    <3> QED BY <3>1, <3>2, <3>3
  <2>2. CASE tick' = [tick EXCEPT ![t].todo = @ \ {c}, ![t].at = "score", ![t].on = c]
    <3> DEFINE r == [tick[t] EXCEPT !.todo = @ \ {c}, !.at = "score", !.on = c]
    <3>1. r \in Tick
      BY <1>1, <1>3 DEF Tick, InTransaction
    <3>2. /\ r.mine = tick[t].mine /\ r.locks = tick[t].locks /\ r.created = tick[t].created
          /\ r.user = tick[t].user /\ r.todo = tick[t].todo \ {c} /\ r.at = "score" /\ r.on = c
      BY <1>1 DEF Tick
    <3>3. tick' = [tick EXCEPT ![t] = r]
      BY <2>2
    <3> HIDE DEF r
    <3> QED BY <3>1, <3>2, <3>3
  <2> QED BY <1>2, <2>1, <2>2
<1>5. \A d \in r.todo : Owner[d] = r.user
  BY <1>4 DEF IInv, Structure
<1>6. r.mine \subseteq r.locks /\ \A s \in Ticks \ {t} : tick[s].locks \cap r.locks = {}
  BY <1>4 DEF IInv, Structure
<1>7. r.at \in InTransaction /\ r.at # "guarded"
  BY <1>4 DEF InTransaction
<1>8. r.at = "score" => r.on \in Clusters /\ Owner[r.on] = r.user
  BY <1>3, <1>4
<1>9. UNCHANGED <<topic, age, alerts, handed, orphans, faults, raced>>
  BY DEF NextCluster
<1> QED BY <1>4, <1>5, <1>6, <1>7, <1>8, <1>9, MoveIInv

LEMMA EndTickIInv == ASSUME IInv, NEW t \in Ticks, EndTick(t) PROVE IInv'
<1>1. /\ NoTick.mine = {} /\ NoTick.locks = {} /\ NoTick.created = {}
      /\ NoTick.at = "idle" /\ NoTick.todo = {}
  BY DEF NoTick
<1>2. tick[t].mine = {} /\ tick[t].created = {}
  BY DEF IInv, Structure, EndTick, InTransaction
<1>3. tick' = [tick EXCEPT ![t] = NoTick]
      /\ UNCHANGED <<topic, age, alerts, handed, orphans, faults, raced>>
  BY DEF EndTick
<1> HIDE DEF NoTick
<1> QED BY <1>1, <1>2, <1>3, NoTickType, MoveIInv DEF InTransaction

\* The score is locked: by then nobody else holds it.
LEMMA LockIInv ==
  ASSUME IInv, NEW t \in Ticks, tick[t].at = "score", Holders(tick[t].on) \ {t} = {}
  PROVE  /\ tick[t] \in Tick /\ tick[t].on \in Clusters
         /\ Owner[tick[t].on] = tick[t].user
         /\ tick[t].locks \cup {tick[t].on} \in SUBSET Clusters
         /\ \A s \in Ticks \ {t} : tick[s].locks \cap (tick[t].locks \cup {tick[t].on}) = {}
<1>1. tick[t] \in Tick
  BY DEF IInv, TypeOK
<1>2. tick[t].on \in Clusters /\ Owner[tick[t].on] = tick[t].user
  BY DEF IInv, Structure
<1>3. \A s \in Ticks \ {t} : tick[t].on \notin tick[s].locks
  BY DEF Holders
<1>4. \A s \in Ticks \ {t} : tick[s].locks \cap tick[t].locks = {}
  BY DEF IInv, Structure
<1> QED BY <1>1, <1>2, <1>3, <1>4 DEF Tick

LEMMA ScoredIInv ==
  ASSUME IInv, NEW t \in Ticks, tick[t].at = "score", Holders(tick[t].on) \ {t} = {},
         tick' = [tick EXCEPT ![t].at = "scan", ![t].on = None,
                              ![t].locks = @ \cup {tick[t].on}],
         UNCHANGED <<topic, age, alerts, handed, orphans, faults, raced>>
  PROVE  IInv'
<1> DEFINE r == [tick[t] EXCEPT !.at = "scan", !.on = None, !.locks = @ \cup {tick[t].on}]
<1>1. tick[t] \in Tick
  BY LockIInv
<1>2. r \in Tick
  BY <1>1, LockIInv DEF Tick, InTransaction
<1>3. /\ r.mine = tick[t].mine /\ r.created = tick[t].created /\ r.todo = tick[t].todo
      /\ r.at = "scan" /\ r.user = tick[t].user /\ r.locks = tick[t].locks \cup {tick[t].on}
  BY <1>1 DEF Tick
<1>4. tick' = [tick EXCEPT ![t] = r]
  OBVIOUS
<1> HIDE DEF r
<1>5. \A c \in r.todo : Owner[c] = r.user
  BY <1>3 DEF IInv, Structure
<1>6. r.mine \subseteq r.locks
  BY <1>3 DEF IInv, Structure
<1>7. \A s \in Ticks \ {t} : tick[s].locks \cap r.locks = {}
  BY <1>3, LockIInv
<1>8. r.at \in InTransaction /\ r.at \notin {"guarded", "score"}
  BY <1>3 DEF InTransaction
<1> QED BY <1>2, <1>3, <1>4, <1>5, <1>6, <1>7, <1>8, MoveIInv

\* Passing the rate guard: unless it is beside another transaction, nobody
\* else of the user is past a guard.
LEMMA RateGuardIInv ==
  ASSUME IInv, NEW t \in Ticks, tick[t].at = "score", Holders(tick[t].on) \ {t} = {},
         RateHeld(t),
         tick' = [tick EXCEPT ![t].at = "guarded", ![t].locks = @ \cup {tick[t].on}],
         Passed(t),
         UNCHANGED <<topic, age, alerts, handed, orphans, faults>>
  PROVE  IInv'
<1> DEFINE r == [tick[t] EXCEPT !.at = "guarded", !.locks = @ \cup {tick[t].on}]
<1>1. tick[t] \in Tick
  BY LockIInv
<1>2. r \in Tick
  BY <1>1, LockIInv DEF Tick, InTransaction
<1>3. /\ r.mine = tick[t].mine /\ r.created = tick[t].created /\ r.todo = tick[t].todo
      /\ r.at = "guarded" /\ r.user = tick[t].user /\ r.locks = tick[t].locks \cup {tick[t].on}
      /\ r.on = tick[t].on
  BY <1>1 DEF Tick
<1>4. tick'[t] = r /\ \A s \in Ticks \ {t} : tick'[s] = tick[s]
  BY DEF IInv, TypeOK
<1>5. TypeOK'
  BY <1>2 DEF IInv, TypeOK, Passed
<1> HIDE DEF r
<1>6. Structure'
  <2>1. r.mine \subseteq r.locks /\ \A c \in r.todo \cup r.mine : Owner[c] = r.user
    BY <1>3 DEF IInv, Structure
  <2>2. r.on \in Clusters /\ Owner[r.on] = r.user /\ r.on \in r.locks
    BY <1>3, LockIInv
  <2>3. \A s \in Ticks \ {t} : tick[s].locks \cap r.locks = {}
    BY <1>3, LockIInv
  <2>4. \A s \in Ticks \ {t} :
          /\ tick[s].at \notin InTransaction => tick[s].mine = {} /\ tick[s].locks = {}
          /\ tick[s].at \in {"score", "guarded"} =>
               tick[s].on \in Clusters /\ Owner[tick[s].on] = tick[s].user
          /\ tick[s].at = "guarded" => tick[s].on \in tick[s].locks
          /\ \A c \in tick[s].todo \cup tick[s].mine : Owner[c] = tick[s].user
          /\ tick[s].mine \subseteq tick[s].locks
          /\ \A q \in Ticks \ {s} : tick[q].locks \cap tick[s].locks = {}
    BY DEF IInv, Structure
  <2>5. \A s \in Ticks : \A q \in Ticks \ {s} : tick'[q].locks \cap tick'[s].locks = {}
    BY <1>4, <2>3, <2>4
  <2>6. ASSUME NEW s \in Ticks
        PROVE  /\ tick'[s].at \notin InTransaction => tick'[s].mine = {} /\ tick'[s].locks = {}
               /\ tick'[s].at \in {"score", "guarded"} =>
                    tick'[s].on \in Clusters /\ Owner[tick'[s].on] = tick'[s].user
               /\ tick'[s].at = "guarded" => tick'[s].on \in tick'[s].locks
               /\ \A c \in tick'[s].todo \cup tick'[s].mine : Owner[c] = tick'[s].user
               /\ tick'[s].mine \subseteq tick'[s].locks
    <3>1. CASE s = t
      BY <1>3, <1>4, <2>1, <2>2, <3>1 DEF InTransaction
    <3>2. CASE s # t
      BY <1>4, <2>4, <3>2
    <3> QED BY <3>1, <3>2
  <2> QED BY <2>5, <2>6 DEF Structure
<1>7. HandOffs'
  <2>1. \A s \in Ticks : tick'[s].mine = tick[s].mine /\ tick'[s].created = tick[s].created
    BY <1>3, <1>4
  <2> QED BY <2>1 DEF IInv, HandOffs
<1>8. Undisturbed'
  <2> SUFFICES ASSUME ~raced' PROVE Undisturbed'
    BY DEF Undisturbed
  <2>1. ~raced /\ Rivals(t) = {}
    BY DEF Passed, IInv, TypeOK
  <2>2. \A s \in Ticks : Visible(s)' = Visible(s)
    BY <1>3, <1>4 DEF Visible
  <2>3. Within(alerts)' /\ Apart(alerts)'
    BY <2>1 DEF IInv, Undisturbed, Within, Apart, Young
  <2>4. ASSUME NEW s \in Ticks
        PROVE  /\ Within(Visible(s))' /\ Apart(Visible(s))'
               /\ tick'[s].at = "guarded" => RateHeld(s)'
    <3>1. Within(Visible(s)) /\ Apart(Visible(s))
      BY <2>1 DEF IInv, Undisturbed
    <3>2. Within(Visible(s))' /\ Apart(Visible(s))'
      BY <2>2, <3>1 DEF Within, Apart, Young
    <3>3. tick'[s].at = "guarded" => RateHeld(s)
      BY <1>4, <2>1 DEF IInv, Undisturbed
    <3>4. tick'[s].user = tick[s].user
      BY <1>3, <1>4
    <3> QED BY <2>2, <3>2, <3>3, <3>4 DEF RateHeld
  <2>5. ASSUME NEW s \in Ticks \ {t}, PastGuards(s)
        PROVE  tick[s].user # tick[t].user
    BY <2>1, <2>5 DEF Rivals, PastGuards
  <2>6. ASSUME NEW s \in Ticks, NEW v \in Ticks, s # v, PastGuards(s)', PastGuards(v)'
        PROVE  tick'[s].user # tick'[v].user
    <3>1. \A q \in Ticks \ {t} : PastGuards(q)' => PastGuards(q)
      BY <1>4 DEF PastGuards
    <3>2. \A q \in Ticks : tick'[q].user = tick[q].user
      BY <1>3, <1>4
    <3>3. CASE s = t
      BY <2>5, <2>6, <3>1, <3>2, <3>3
    <3>4. CASE v = t
      BY <2>5, <2>6, <3>1, <3>2, <3>4
    <3>5. CASE s # t /\ v # t
      BY <2>1, <2>6, <3>1, <3>2, <3>5 DEF IInv, Undisturbed
    <3> QED BY <3>3, <3>4, <3>5
  <2> QED BY <2>3, <2>4, <2>6 DEF Undisturbed
<1> QED BY <1>5, <1>6, <1>7, <1>8 DEF IInv

LEMMA PersistScoreIInv == ASSUME IInv, NEW t \in Ticks, PersistScore(t) PROVE IInv'
<1>1. tick[t].at = "score" /\ Holders(tick[t].on) \ {t} = {}
  BY DEF PersistScore
<1>2. UNCHANGED <<topic, age, alerts, handed, orphans, faults>>
  BY DEF PersistScore
<1>3. CASE /\ tick' = [tick EXCEPT ![t].at = "scan", ![t].on = None,
                                   ![t].locks = @ \cup {tick[t].on}]
           /\ UNCHANGED raced
  BY <1>1, <1>2, <1>3, ScoredIInv
<1>4. CASE /\ RateHeld(t)
           /\ tick' = [tick EXCEPT ![t].at = "guarded", ![t].locks = @ \cup {tick[t].on}]
           /\ Passed(t)
  BY <1>1, <1>2, <1>4, RateGuardIInv
<1> QED BY <1>3, <1>4 DEF PersistScore

\* The group guard holds, and the alert is inserted under the score's lock.
LEMMA InsertIInv ==
  ASSUME IInv, NEW t \in Ticks, tick[t].at = "guarded",
         TopicIsNew(t), tick[t].on \notin Visible(t),
         tick' = [tick EXCEPT ![t].at = "scan", ![t].on = None,
                              ![t].mine = @ \cup {tick[t].on}],
         Passed(t),
         UNCHANGED <<topic, age, alerts, handed, orphans, faults>>
  PROVE  IInv'
<1> DEFINE c == tick[t].on
           r == [tick[t] EXCEPT !.at = "scan", !.on = None, !.mine = @ \cup {c}]
<1>1. tick[t] \in Tick
  BY DEF IInv, TypeOK
<1>2. c \in Clusters /\ Owner[c] = tick[t].user /\ c \in tick[t].locks
  BY DEF IInv, Structure
<1>3. r \in Tick
  BY <1>1, <1>2 DEF Tick, InTransaction
<1>4. /\ r.mine = tick[t].mine \cup {c} /\ r.created = tick[t].created
      /\ r.todo = tick[t].todo /\ r.at = "scan" /\ r.user = tick[t].user
      /\ r.locks = tick[t].locks
  BY <1>1 DEF Tick
<1>5. tick'[t] = r /\ \A s \in Ticks \ {t} : tick'[s] = tick[s]
  BY DEF IInv, TypeOK
<1>6. TypeOK'
  BY <1>3 DEF IInv, TypeOK, Passed
<1> HIDE DEF r
<1>7. Structure'
  <2>1. ASSUME NEW s \in Ticks
        PROVE  /\ tick'[s].at \notin InTransaction => tick'[s].mine = {} /\ tick'[s].locks = {}
               /\ tick'[s].at \in {"score", "guarded"} =>
                    tick'[s].on \in Clusters /\ Owner[tick'[s].on] = tick'[s].user
               /\ tick'[s].at = "guarded" => tick'[s].on \in tick'[s].locks
               /\ \A d \in tick'[s].todo \cup tick'[s].mine : Owner[d] = tick'[s].user
               /\ tick'[s].mine \subseteq tick'[s].locks
    <3>1. CASE s = t
      <4>1. /\ \A d \in tick[t].todo \cup tick[t].mine : Owner[d] = tick[t].user
            /\ tick[t].mine \subseteq tick[t].locks
        BY DEF IInv, Structure
      <4> QED BY <1>2, <1>4, <1>5, <3>1, <4>1 DEF InTransaction
    <3>2. CASE s # t
      BY <1>5, <3>2 DEF IInv, Structure
    <3> QED BY <3>1, <3>2
  <2>2. \A s \in Ticks : tick'[s].locks = tick[s].locks
    BY <1>4, <1>5
  <2> QED BY <2>1, <2>2 DEF IInv, Structure
<1>8. HandOffs'
  <2>1. \A s \in Ticks : tick'[s].created = tick[s].created
    BY <1>4, <1>5
  <2>2. \A s \in Ticks : tick'[s].mine \cap alerts = {}
    <3>1. \A s \in Ticks : tick[s].mine \cap alerts = {}
      BY DEF IInv, HandOffs
    <3>2. c \notin alerts
      BY DEF Visible
    <3> QED BY <1>4, <1>5, <3>1, <3>2
  <2> QED BY <2>1, <2>2 DEF IInv, HandOffs
<1>9. Undisturbed'
  <2> SUFFICES ASSUME ~raced' PROVE Undisturbed'
    BY DEF Undisturbed
  <2>1. ~raced
    BY DEF Passed, IInv, TypeOK
  <2>2. Visible(t)' = Visible(t) \cup {c} /\ \A s \in Ticks \ {t} : Visible(s)' = Visible(s)
    BY <1>4, <1>5 DEF Visible
  <2>3. Visible(t) \in SUBSET Clusters /\ Within(Visible(t)) /\ Apart(Visible(t))
    BY <1>1, <2>1 DEF IInv, Undisturbed, TypeOK, Visible, Tick
  <2>4. Within(Visible(t) \cup {c})
    <3>1. Cardinality(Young(Visible(t), Owner[c])) < Limit
      BY <1>2, <2>1 DEF IInv, Undisturbed, RateHeld, Young
    <3> QED BY <1>2, <2>3, <3>1, OneMoreWithin
  <2>5. Apart(Visible(t) \cup {c})
    BY <1>2, <2>3 DEF Apart, TopicIsNew
  <2>6. ASSUME NEW s \in Ticks
        PROVE  /\ Within(Visible(s))' /\ Apart(Visible(s))'
               /\ tick'[s].at = "guarded" => RateHeld(s)'
    <3>1. CASE s = t
      <4>1. Within(Visible(t))' /\ Apart(Visible(t))'
        BY <2>2, <2>4, <2>5 DEF Within, Apart, Young
      <4> QED BY <1>4, <1>5, <3>1, <4>1
    <3>2. CASE s # t
      <4>1. Within(Visible(s)) /\ Apart(Visible(s))
        BY <2>1 DEF IInv, Undisturbed
      <4>2. Within(Visible(s))' /\ Apart(Visible(s))'
        BY <2>2, <3>2, <4>1 DEF Within, Apart, Young
      <4>3. tick'[s].at = "guarded" => RateHeld(s)
        BY <1>5, <2>1, <3>2 DEF IInv, Undisturbed
      <4> QED BY <1>5, <2>2, <3>2, <4>2, <4>3 DEF RateHeld
    <3> QED BY <3>1, <3>2
  <2>7. \A s \in Ticks : PastGuards(s)' => PastGuards(s) /\ tick'[s].user = tick[s].user
    BY <1>4, <1>5 DEF PastGuards, InTransaction
  <2>8. Within(alerts)' /\ Apart(alerts)'
    BY <2>1 DEF IInv, Undisturbed, Within, Apart, Young
  <2>9. \A s \in Ticks : \A v \in Ticks \ {s} :
          PastGuards(v)' /\ PastGuards(s)' => tick'[v].user # tick'[s].user
    BY <2>1, <2>7 DEF IInv, Undisturbed
  <2> QED BY <2>6, <2>8, <2>9 DEF Undisturbed
<1> QED BY <1>6, <1>7, <1>8, <1>9 DEF IInv

LEMMA CreateAlertIInv == ASSUME IInv, NEW t \in Ticks, CreateAlert(t) PROVE IInv'
<1>1. tick[t].at = "guarded" /\ UNCHANGED <<topic, age, alerts, handed, orphans, faults>>
  BY DEF CreateAlert
<1>2. CASE TopicIsNew(t) /\ tick[t].on \notin Visible(t)
  BY <1>1, <1>2, InsertIInv DEF CreateAlert
<1>3. CASE ~(TopicIsNew(t) /\ tick[t].on \notin Visible(t))
  <2> DEFINE r == [tick[t] EXCEPT !.at = "scan", !.on = None]
  <2>1. tick[t] \in Tick
    BY DEF IInv, TypeOK
  <2>2. r \in Tick
    BY <2>1 DEF Tick, InTransaction
  <2>3. /\ r.mine = tick[t].mine /\ r.created = tick[t].created /\ r.todo = tick[t].todo
        /\ r.at = "scan" /\ r.user = tick[t].user /\ r.locks = tick[t].locks
    BY <2>1 DEF Tick
  <2>4. tick' = [tick EXCEPT ![t] = r] /\ UNCHANGED raced
    BY <1>3 DEF CreateAlert
  <2> HIDE DEF r
  <2>5. /\ \A c \in r.todo : Owner[c] = r.user
        /\ r.mine \subseteq r.locks
        /\ \A s \in Ticks \ {t} : tick[s].locks \cap r.locks = {}
    BY <2>3 DEF IInv, Structure
  <2>6. r.at \in InTransaction /\ r.at \notin {"guarded", "score"}
    BY <2>3 DEF InTransaction
  <2> QED BY <1>1, <2>2, <2>3, <2>4, <2>5, <2>6, MoveIInv
<1> QED BY <1>2, <1>3

\* What a commit makes visible to another transaction.
LEMMA CommitSeen ==
  ASSUME IInv, ~raced, NEW t \in Ticks, NEW s \in Ticks \ {t}, tick[t].at = "scan"
  PROVE  LET seen == Visible(t) \cup tick[s].mine
         IN  /\ Within(seen) /\ Apart(seen)
             /\ tick[s].at = "guarded" => Young(seen, tick[s].user) = Young(Visible(s), tick[s].user)
<1>1. /\ Within(Visible(t)) /\ Apart(Visible(t))
      /\ Within(Visible(s)) /\ Apart(Visible(s))
  BY DEF IInv, Undisturbed
<1>2. tick[t].mine \in SUBSET Clusters /\ tick[s].mine \in SUBSET Clusters
      /\ alerts \in SUBSET Clusters
  BY DEF IInv, TypeOK, Tick
<1>3. CASE tick[t].mine = {}
  <2>1. Visible(t) \cup tick[s].mine = Visible(s)
    BY <1>3 DEF Visible
  <2> QED BY <1>1, <2>1
<1>4. CASE tick[t].mine # {} /\ ~PastGuards(s)
  <2>1. tick[s].mine = {} /\ tick[s].at # "guarded"
    BY <1>4 DEF PastGuards, IInv, Structure, InTransaction
  <2>2. Visible(t) \cup tick[s].mine = Visible(t)
    BY <2>1
  <2> QED BY <1>1, <2>1, <2>2
<1>5. CASE tick[t].mine # {} /\ PastGuards(s)
  <2>1. PastGuards(t)
    BY <1>5 DEF PastGuards, InTransaction
  <2>2. tick[s].user # tick[t].user
    BY <1>5, <2>1 DEF IInv, Undisturbed
  <2>3. /\ \A c \in tick[t].mine : Owner[c] = tick[t].user
        /\ \A c \in tick[s].mine : Owner[c] = tick[s].user
    BY DEF IInv, Structure
  <2> DEFINE M == alerts \cup tick[t].mine
             N == alerts \cup tick[s].mine
             all == M \cup tick[s].mine
  <2>4. Within(M) /\ Apart(M) /\ Within(N) /\ Apart(N)
    BY <1>1 DEF Visible
  <2>5. \A w : w # tick[s].user => Young(all, w) = Young(M, w)
    BY <2>3 DEF Young
  <2>6. Young(all, tick[s].user) = Young(N, tick[s].user)
    BY <2>2, <2>3 DEF Young
  <2>7. Within(all)
    BY <2>4, <2>5, <2>6 DEF Within
  <2>8. Apart(all)
    <3> SUFFICES ASSUME NEW c \in all, NEW d \in all,
                        c # d, Owner[c] = Owner[d], topic[c] = topic[d]
                 PROVE  age[c] >= GroupAge \/ age[d] >= GroupAge
      BY DEF Apart
    <3>1. {c, d} \subseteq M \/ {c, d} \subseteq N
      BY <2>2, <2>3
    <3> QED BY <2>4, <3>1 DEF Apart
  <2> QED BY <2>6, <2>7, <2>8 DEF Visible
<1> QED BY <1>3, <1>4, <1>5

LEMMA CommitUserIInv == ASSUME IInv, NEW t \in Ticks, CommitUser(t) PROVE IInv'
<1> DEFINE u == tick[t].user
           r == [NoTick EXCEPT !.created = tick[t].created \cup tick[t].mine,
                               !.at = IF u < LastUser THEN "user" ELSE "hand",
                               !.user = IF u < LastUser THEN u + 1 ELSE u]
<1>1. tick[t] \in Tick /\ tick[t].at = "scan" /\ u \in Users
  BY DEF IInv, TypeOK, CommitUser, Tick
<1>2. r \in Tick
  <2>1. (IF u < LastUser THEN u + 1 ELSE u) \in Users
    BY <1>1, ScoringParameters DEF Users
  <2>2. tick[t].created \cup tick[t].mine \in SUBSET Clusters
    BY <1>1 DEF Tick
  <2> QED BY <2>1, <2>2, NoTickType DEF Tick
<1>3. /\ r.mine = {} /\ r.locks = {} /\ r.todo = {}
      /\ r.created = tick[t].created \cup tick[t].mine /\ r.at \in {"user", "hand"}
  BY DEF NoTick
<1>4. /\ tick' = [tick EXCEPT ![t] = r] /\ alerts' = alerts \cup tick[t].mine
      /\ UNCHANGED <<topic, age, handed, orphans, faults, raced>>
  BY DEF CommitUser
<1> HIDE DEF r
<1>5. tick'[t] = r /\ \A s \in Ticks \ {t} : tick'[s] = tick[s]
  BY <1>4 DEF IInv, TypeOK
<1>6. TypeOK'
  BY <1>1, <1>2, <1>4 DEF IInv, TypeOK, Tick
<1>7. Structure'
  <2>1. r.at \notin InTransaction /\ r.at \notin {"score", "guarded"}
    BY <1>3 DEF InTransaction
  <2> QED BY <1>3, <1>5, <2>1 DEF IInv, Structure
<1>8. HandOffs'
  <2>1. ASSUME NEW s \in Ticks \ {t} PROVE tick[s].mine \cap tick[t].mine = {}
    BY DEF IInv, Structure
  <2>2. \A c \in tick[t].mine : c \in Clusters /\ c \notin alerts /\ handed[c] = 0
    BY <1>1 DEF IInv, HandOffs, Tick
  <2>3. \A s \in Ticks : tick'[s].mine \cap alerts' = {}
    BY <1>3, <1>4, <1>5, <2>1 DEF IInv, HandOffs
  <2>4. \A s \in Ticks : tick'[s].created \subseteq alerts'
    BY <1>3, <1>4, <1>5 DEF IInv, HandOffs
  <2>5. ASSUME NEW s \in Ticks, NEW q \in Ticks \ {s}
        PROVE  tick'[q].created \cap tick'[s].created = {}
    <3>1. /\ tick[q].created \cap tick[s].created = {}
          /\ tick[q].created \subseteq alerts /\ tick[s].created \subseteq alerts
      BY DEF IInv, HandOffs
    <3> QED BY <1>3, <1>5, <2>2, <3>1
  <2>6. \A s \in Ticks : \A c \in tick'[s].created : handed'[c] = 0
    BY <1>3, <1>4, <1>5, <2>2 DEF IInv, HandOffs
  <2>7. ASSUME NEW c \in Clusters
        PROVE  /\ handed'[c] \in {0, 1}
               /\ handed'[c] = 1 => c \in alerts'
               /\ c \in alerts' => \/ handed'[c] = 1 \/ c \in orphans'
                                   \/ \E s \in Ticks : c \in tick'[s].created
    <3>1. \A s \in Ticks : tick[s].created \subseteq tick'[s].created
      BY <1>3, <1>5
    <3> QED BY <1>3, <1>4, <1>5, <3>1 DEF IInv, HandOffs
  <2> QED BY <2>3, <2>4, <2>5, <2>6, <2>7 DEF HandOffs
<1>9. Undisturbed'
  <2> SUFFICES ASSUME ~raced PROVE Undisturbed'
    BY <1>4 DEF Undisturbed
  <2>1. Within(Visible(t)) /\ Apart(Visible(t))
    BY DEF IInv, Undisturbed
  <2>2. alerts' = Visible(t) /\ Visible(t)' = Visible(t)
    BY <1>3, <1>4, <1>5 DEF Visible
  <2>3. Within(alerts)' /\ Apart(alerts)'
    BY <1>4, <2>1, <2>2 DEF Within, Apart, Young
  <2>4. ASSUME NEW s \in Ticks
        PROVE  /\ Within(Visible(s))' /\ Apart(Visible(s))'
               /\ tick'[s].at = "guarded" => RateHeld(s)'
    <3>1. CASE s = t
      BY <1>3, <1>4, <1>5, <2>1, <2>2, <3>1 DEF Within, Apart, Young
    <3>2. CASE s # t
      <4> DEFINE seen == Visible(t) \cup tick[s].mine
      <4>1. Visible(s)' = seen
        BY <1>5, <2>2, <3>2 DEF Visible
      <4>2. /\ Within(seen) /\ Apart(seen)
            /\ tick[s].at = "guarded" => Young(seen, tick[s].user) = Young(Visible(s), tick[s].user)
        BY <1>1, <3>2, CommitSeen
      <4>3. Within(Visible(s))' /\ Apart(Visible(s))'
        BY <1>4, <4>1, <4>2 DEF Within, Apart, Young
      <4>4. ASSUME tick[s].at = "guarded" PROVE RateHeld(s)'
        <5>1. RateHeld(s)
          BY <4>4 DEF IInv, Undisturbed
        <5>2. Cardinality(Young(seen, tick[s].user)) < Limit
          BY <4>2, <4>4, <5>1 DEF RateHeld, Young
        <5> QED BY <1>4, <1>5, <3>2, <4>1, <5>2 DEF RateHeld, Young
      <4> QED BY <1>5, <3>2, <4>3, <4>4
    <3> QED BY <3>1, <3>2
  <2>5. \A s \in Ticks : PastGuards(s)' => PastGuards(s) /\ tick'[s].user = tick[s].user
    BY <1>3, <1>5 DEF PastGuards, InTransaction
  <2>6. \A s \in Ticks : \A v \in Ticks \ {s} :
          PastGuards(v)' /\ PastGuards(s)' => tick'[v].user # tick'[s].user
    BY <2>5 DEF IInv, Undisturbed
  <2> QED BY <2>3, <2>4, <2>6 DEF Undisturbed
<1> QED BY <1>6, <1>7, <1>8, <1>9 DEF IInv

LEMMA HandOverIInv == ASSUME IInv, NEW t \in Ticks, HandOver(t) PROVE IInv'
<1>1. PICK c \in tick[t].created :
        /\ handed' = [handed EXCEPT ![c] = @ + 1]
        /\ tick' = [tick EXCEPT ![t].created = @ \ {c}]
  BY DEF HandOver
<1> DEFINE r == [tick[t] EXCEPT !.created = @ \ {c}]
<1>2. tick[t] \in Tick /\ c \in Clusters /\ c \in alerts /\ handed[c] = 0
  BY DEF IInv, TypeOK, Tick, HandOffs
<1>3. r \in Tick
  BY <1>2 DEF Tick
<1>4. /\ r.mine = tick[t].mine /\ r.locks = tick[t].locks /\ r.todo = tick[t].todo
      /\ r.at = tick[t].at /\ r.user = tick[t].user /\ r.on = tick[t].on
      /\ r.created = tick[t].created \ {c}
  BY <1>2 DEF Tick
<1>5. tick'[t] = r /\ \A s \in Ticks \ {t} : tick'[s] = tick[s]
  BY <1>1 DEF IInv, TypeOK
<1> HIDE DEF r
<1>6. UNCHANGED <<topic, age, alerts, orphans, faults, raced>>
  BY DEF HandOver
<1>7. \A s \in Ticks : /\ tick'[s].mine = tick[s].mine /\ tick'[s].locks = tick[s].locks
                       /\ tick'[s].todo = tick[s].todo /\ tick'[s].at = tick[s].at
                       /\ tick'[s].user = tick[s].user /\ tick'[s].on = tick[s].on
  BY <1>4, <1>5
<1>8. handed'[c] = 1 /\ \A d \in Clusters \ {c} : handed'[d] = handed[d]
  BY <1>1, <1>2 DEF IInv, TypeOK
<1>9. TypeOK'
  <2>1. handed' \in [Clusters -> Nat]
    BY <1>1, <1>2 DEF IInv, TypeOK
  <2>2. tick' \in [Ticks -> Tick]
    BY <1>1, <1>3, <1>5 DEF IInv, TypeOK
  <2> QED BY <1>6, <2>1, <2>2 DEF IInv, TypeOK
<1>10. Structure'
  BY <1>7 DEF IInv, Structure
<1>11. HandOffs'
  <2>1. \A s \in Ticks \ {t} : c \notin tick[s].created
    BY DEF IInv, HandOffs
  <2>2. ASSUME NEW s \in Ticks
        PROVE  /\ tick'[s].mine \cap alerts' = {}
               /\ tick'[s].created \subseteq alerts'
               /\ \A q \in Ticks \ {s} : tick'[q].created \cap tick'[s].created = {}
               /\ \A d \in tick'[s].created : handed'[d] = 0
    <3>1. \A q \in Ticks : tick'[q].created \subseteq tick[q].created
      BY <1>4, <1>5
    <3>2. c \notin tick'[s].created
      BY <1>4, <1>5, <2>1
    <3>3. /\ tick[s].mine \cap alerts = {} /\ tick[s].created \subseteq alerts
          /\ \A q \in Ticks \ {s} : tick[q].created \cap tick[s].created = {}
          /\ \A d \in tick[s].created : handed[d] = 0
          /\ alerts \subseteq Clusters
      BY DEF IInv, HandOffs, TypeOK
    <3> QED BY <1>6, <1>7, <1>8, <3>1, <3>2, <3>3
  <2>3. ASSUME NEW d \in Clusters
        PROVE  /\ handed'[d] \in {0, 1}
               /\ handed'[d] = 1 => d \in alerts'
               /\ d \in alerts' => \/ handed'[d] = 1 \/ d \in orphans'
                                   \/ \E s \in Ticks : d \in tick'[s].created
    <3>1. CASE d = c
      BY <1>2, <1>6, <1>8, <3>1
    <3>2. CASE d # c
      <4>1. \A s \in Ticks : d \in tick[s].created => d \in tick'[s].created
        BY <1>4, <1>5, <3>2
      <4> QED BY <1>6, <1>8, <3>2, <4>1 DEF IInv, HandOffs
    <3> QED BY <3>1, <3>2
  <2> QED BY <2>2, <2>3 DEF HandOffs
<1>12. Undisturbed'
  <2>1. \A s \in Ticks : Visible(s)' = Visible(s) /\ (PastGuards(s)' <=> PastGuards(s))
    BY <1>6, <1>7 DEF Visible, PastGuards
  <2>2. \A s \in Ticks : RateHeld(s)' <=> RateHeld(s)
    BY <1>6, <1>7, <2>1 DEF RateHeld
  <2>3. Within(alerts)' <=> Within(alerts)
    BY <1>6 DEF Within, Young
  <2>4. Apart(alerts)' <=> Apart(alerts)
    BY <1>6 DEF Apart
  <2>5. \A s \in Ticks : (Within(Visible(s))' <=> Within(Visible(s)))
                       /\ (Apart(Visible(s))' <=> Apart(Visible(s)))
    BY <1>6, <2>1 DEF Within, Apart, Young
  <2> QED BY <1>6, <1>7, <2>1, <2>2, <2>3, <2>4, <2>5 DEF IInv, Undisturbed
<1> QED BY <1>9, <1>10, <1>11, <1>12 DEF IInv

\* A rolled back transaction leaves nothing, and no hand-off but the sweep's.
LEMMA EndsEarlyIInv ==
  ASSUME IInv, NEW t \in Ticks, EndsEarly(t), faults' \in 0..MaxFaults PROVE IInv'
<1>1. /\ NoTick.mine = {} /\ NoTick.locks = {} /\ NoTick.created = {}
      /\ NoTick.at = "idle" /\ NoTick.todo = {}
  BY DEF NoTick
<1>2. tick'[t] = NoTick /\ \A s \in Ticks \ {t} : tick'[s] = tick[s]
  BY DEF IInv, TypeOK, EndsEarly
<1>3. /\ orphans' = orphans \cup tick[t].created
      /\ UNCHANGED <<topic, age, alerts, handed, raced>>
  BY DEF EndsEarly
<1>4. TypeOK'
  <2>1. tick' \in [Ticks -> Tick]
    BY NoTickType DEF IInv, TypeOK, EndsEarly
  <2>2. tick[t].created \subseteq Clusters
    BY DEF IInv, TypeOK, Tick
  <2> QED BY <1>3, <2>1, <2>2 DEF IInv, TypeOK
<1>5. Structure'
  BY <1>1, <1>2 DEF IInv, Structure, InTransaction
<1>6. HandOffs'
  <2>1. \A c \in Clusters, s \in Ticks : c \in tick[s].created
          => c \in tick'[s].created \/ c \in orphans'
    BY <1>2, <1>3
  <2>2. ASSUME NEW s \in Ticks
        PROVE  /\ tick'[s].mine \subseteq tick[s].mine
               /\ tick'[s].created \subseteq tick[s].created
    BY <1>1, <1>2
  <2> QED BY <1>3, <2>1, <2>2 DEF IInv, HandOffs
<1>7. Undisturbed'
  <2> SUFFICES ASSUME ~raced PROVE Undisturbed'
    BY <1>3 DEF Undisturbed
  <2>1. Within(alerts) /\ Apart(alerts)
    BY DEF IInv, Undisturbed
  <2>2. Visible(t)' = alerts /\ \A s \in Ticks \ {t} : Visible(s)' = Visible(s)
    BY <1>1, <1>2, <1>3 DEF Visible
  <2>3. Within(alerts)' /\ Apart(alerts)'
    BY <1>3, <2>1 DEF Within, Apart, Young
  <2>4. ASSUME NEW s \in Ticks
        PROVE  /\ Within(Visible(s))' /\ Apart(Visible(s))'
               /\ tick'[s].at = "guarded" => RateHeld(s)'
    <3>1. CASE s = t
      BY <1>1, <1>2, <1>3, <2>1, <2>2, <3>1 DEF Within, Apart, Young
    <3>2. CASE s # t
      <4>1. Within(Visible(s)) /\ Apart(Visible(s))
        BY DEF IInv, Undisturbed
      <4>2. Within(Visible(s))' /\ Apart(Visible(s))'
        BY <1>3, <2>2, <3>2, <4>1 DEF Within, Apart, Young
      <4>3. tick'[s].at = "guarded" => RateHeld(s)
        BY <1>2, <3>2 DEF IInv, Undisturbed
      <4> QED BY <1>2, <1>3, <2>2, <3>2, <4>2, <4>3 DEF RateHeld
    <3> QED BY <3>1, <3>2
  <2>5. \A s \in Ticks : PastGuards(s)' => PastGuards(s) /\ tick'[s].user = tick[s].user
    BY <1>1, <1>2 DEF PastGuards, InTransaction
  <2>6. \A s \in Ticks : \A v \in Ticks \ {s} :
          PastGuards(v)' /\ PastGuards(s)' => tick'[v].user # tick'[s].user
    BY <2>5 DEF IInv, Undisturbed
  <2> QED BY <2>3, <2>4, <2>6 DEF Undisturbed
<1> QED BY <1>4, <1>5, <1>6, <1>7 DEF IInv

LEMMA AgesIInv == ASSUME IInv, NEW c \in Clusters, Ages(c) PROVE IInv'
<1>1. UNCHANGED <<topic, alerts, tick, handed, orphans, faults, raced>>
  BY DEF Ages
<1>2. TypeOK'
  <2>1. age[c] + 1 \in 0..Oldest
    BY ScoringParameters DEF IInv, TypeOK, Ages, Oldest
  <2> QED BY <1>1, <2>1 DEF IInv, TypeOK, Ages
<1>3. Structure'
  BY <1>1 DEF IInv, Structure
<1>4. HandOffs'
  BY <1>1 DEF IInv, HandOffs
<1>5. Undisturbed'
  <2> SUFFICES ASSUME ~raced PROVE Undisturbed'
    BY <1>1 DEF Undisturbed
  <2>1. TypeOK /\ Within(alerts) /\ Apart(alerts) /\ alerts \in SUBSET Clusters
    BY DEF IInv, Undisturbed, TypeOK
  <2>2. Within(alerts)' /\ Apart(alerts)'
    <3>1. \A S \in SUBSET Clusters : (Within(S) => Within(S)') /\ (Apart(S) => Apart(S)')
      BY <2>1, OlderIsFine
    <3>2. alerts' = alerts
      BY <1>1
    <3> QED BY <2>1, <3>1, <3>2 DEF Within, Apart, Young
  <2>3. ASSUME NEW t \in Ticks
        PROVE  /\ Within(Visible(t))' /\ Apart(Visible(t))'
               /\ tick'[t].at = "guarded" => RateHeld(t)'
    <3> DEFINE S == Visible(t)
    <3>1. S \in SUBSET Clusters /\ S' = S /\ Within(S) /\ Apart(S)
      BY <1>1 DEF IInv, TypeOK, Undisturbed, Visible, Tick
    <3>2. \A R \in SUBSET Clusters :
            /\ \A u : Cardinality(Young(R, u)') <= Cardinality(Young(R, u))
            /\ Within(R) => Within(R)'
            /\ Apart(R) => Apart(R)'
      BY <2>1, OlderIsFine
    <3>3. Within(Visible(t))' /\ Apart(Visible(t))'
      BY <3>1, <3>2 DEF Within, Apart, Young
    <3>4. ASSUME tick[t].at = "guarded" PROVE RateHeld(t)'
      <4> DEFINE u == tick[t].user
      <4>1. Cardinality(Young(S, u)) < Limit
        BY <3>4 DEF IInv, Undisturbed, RateHeld, Young
      <4>2. Young(S, u)' = {d \in S : Owner[d] = u /\ age'[d] < RateAge}
        BY <1>1, <3>1 DEF Young
      <4>3. Cardinality({d \in S : Owner[d] = u /\ age'[d] < RateAge}) <= Cardinality(Young(S, u))
        <5>1. \A d \in Clusters : age[d] \in Nat /\ age'[d] \in Nat /\ age'[d] >= age[d]
          BY DEF IInv, TypeOK, Ages
        <5>2. ASSUME NEW d \in S, age'[d] < RateAge PROVE age[d] < RateAge
          BY <3>1, <5>1, <5>2, ScoringParameters
        <5>3. {d \in S : Owner[d] = u /\ age'[d] < RateAge} \subseteq Young(S, u)
          BY <5>2 DEF Young
        <5> QED BY <3>1, <5>3, YoungFinite, FS_Subset
      <4>4. /\ Cardinality({d \in S : Owner[d] = u /\ age'[d] < RateAge}) \in Nat
            /\ Cardinality(Young(S, u)) \in Nat
        <5>1. IsFiniteSet({d \in S : Owner[d] = u /\ age'[d] < RateAge})
          BY <3>1, FS_Subset, ScoringParameters
        <5> QED BY <3>1, <5>1, YoungFinite, FS_CardinalityType
      <4>5. Cardinality({d \in S : Owner[d] = u /\ age'[d] < RateAge}) < Limit
        BY <4>1, <4>3, <4>4, ScoringParameters
      <4> QED BY <1>1, <3>1, <4>5 DEF RateHeld
    <3> QED BY <1>1, <3>3, <3>4
  <2>4. \A s \in Ticks : PastGuards(s)' <=> PastGuards(s)
    BY <1>1 DEF PastGuards
  <2> QED BY <1>1, <2>2, <2>3, <2>4 DEF IInv, Undisturbed
<1> QED BY <1>2, <1>3, <1>4, <1>5 DEF IInv

LEMMA NextIInv == IInv /\ [Next]_vars => IInv'
<1> SUFFICES ASSUME IInv, [Next]_vars PROVE IInv'
  OBVIOUS
<1>1. ASSUME NEW c \in Clusters, Ages(c) PROVE IInv'
  BY <1>1, AgesIInv
<1>2. ASSUME NEW t \in Ticks, StartTick(t) PROVE IInv'
  BY <1>2, StartTickIInv
<1>3. ASSUME NEW t \in Ticks, Works(t) PROVE IInv'
  BY <1>3, StartUserIInv, NextClusterIInv, CreateAlertIInv, CommitUserIInv,
     HandOverIInv, EndTickIInv DEF Works
<1>4. ASSUME NEW t \in Ticks, PersistScore(t) PROVE IInv'
  BY <1>4, PersistScoreIInv
<1>5. ASSUME NEW t \in Ticks, DeadlockDetected(t) PROVE IInv'
  BY <1>5, EndsEarlyIInv DEF DeadlockDetected, IInv, TypeOK
<1>6. ASSUME NEW t \in Ticks, TickFails(t) PROVE IInv'
  <2>1. faults' \in 0..MaxFaults
    BY <1>6, ScoringParameters DEF TickFails, Fault, IInv, TypeOK
  <2> QED BY <1>6, <2>1, EndsEarlyIInv DEF TickFails
<1>7. CASE UNCHANGED vars
  BY <1>7 DEF vars, IInv, TypeOK, Structure, HandOffs, Undisturbed, Within, Apart,
              Young, Visible, RateHeld, PastGuards
<1> QED BY <1>1, <1>2, <1>3, <1>4, <1>5, <1>6, <1>7 DEF Next

\* The inductive invariant holds in every reachable state.
THEOREM Invariance == Spec => []IInv
BY InitIInv, NextIInv, PTL DEF Spec

-----------------------------------------------------------------------------

\* Type correctness of the ticks, their transactions and the alerts.
THEOREM TypeCorrect == Spec => []TypeOK
BY Invariance, PTL DEF IInv

\* The rate guard: a user's alerts of the hour stay within the limit unless
\* two transactions went past the guards side by side.
THEOREM RateHolds == Spec => []RateExceededOnlyByRace
<1>1. IInv => RateExceededOnlyByRace
  BY DEF IInv, Undisturbed, Within, Young, RateExceededOnlyByRace
<1> QED BY <1>1, Invariance, PTL

\* The group guard, likewise: no two alerts on a topic within the window.
THEOREM TopicsStayApart == Spec => []TopicRepeatedOnlyByRace
<1>1. IInv => TopicRepeatedOnlyByRace
  BY DEF IInv, Undisturbed, Apart, TopicRepeatedOnlyByRace
<1> QED BY <1>1, Invariance, PTL

\* An alert is handed over once, after its commit, and is only forgotten by a
\* tick that ended early.
THEOREM HandOffIsSingle == Spec => []HandedOverOnce
<1>1. ASSUME IInv PROVE HandedOverOnce
  <2> SUFFICES ASSUME NEW c \in Clusters
               PROVE  /\ handed[c] + Cardinality({t \in Ticks : c \in tick[t].created})
                            <= IF c \in alerts THEN 1 ELSE 0
                      /\ c \in alerts => \/ handed[c] = 1 \/ c \in orphans
                                         \/ \E t \in Ticks : c \in tick[t].created
    BY DEF HandedOverOnce
  <2> DEFINE T == {t \in Ticks : c \in tick[t].created}
  <2>1. handed[c] \in {0, 1} /\ (handed[c] = 1 => c \in alerts)
    BY <1>1 DEF IInv, HandOffs
  <2>2. CASE T = {}
    <3>1. Cardinality(T) = 0
      BY <2>2, FS_EmptySet
    <3>2. c \in alerts => handed[c] = 1 \/ c \in orphans
      BY <1>1, <2>2 DEF IInv, HandOffs
    <3> QED BY <2>1, <3>1, <3>2
  <2>3. CASE T # {}
    <3>1. PICK t \in Ticks : c \in tick[t].created
      BY <2>3
    <3>2. c \in alerts /\ handed[c] = 0
      BY <1>1, <3>1 DEF IInv, HandOffs
    <3>3. T = {t}
      BY <1>1, <3>1 DEF IInv, HandOffs
    <3>4. Cardinality(T) = 1
      BY <3>3, FS_Singleton
    <3> QED BY <3>1, <3>2, <3>4
  <2> QED BY <2>2, <2>3
<1> QED BY <1>1, Invariance, PTL

\* Unless two transactions went past the guards side by side, both hold.
THEOREM GuardsHold == Spec => []GuardsPassedOnlyByRace
  BY RateHolds, TopicsStayApart, PTL DEF GuardsPassedOnlyByRace
=============================================================================
