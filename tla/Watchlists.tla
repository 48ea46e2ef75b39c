----------------------------- MODULE Watchlists -----------------------------
(***************************************************************************)
(* The watchlists of one user: created, changed and deleted through the    *)
(* API (api/watchlist/service.py), subscribed to and given up in packs     *)
(* (api/packs/service.py), counted against the plan (billing/limits.py),   *)
(* and their alert thresholds adapted to the user's feedback by a beat     *)
(* task (scorer/adaptation.py).                                            *)
(*                                                                         *)
(* Each operation reads in one transaction what it writes at its end, and  *)
(* the ORM writes only the columns that differ from what it has read: a    *)
(* manual setting and an adaptation can each undo half of the other.       *)
(*                                                                         *)
(* A row is named by its channel and topic, which are unique for a user; a *)
(* PATCH that moves a row to another channel or topic is left out.         *)
(* Adaptations do not overlap (one every six hours).                       *)
(***************************************************************************)
EXTENDS Integers, FiniteSets

CONSTANTS
  Keys,       \* pairs of a channel and a topic
  Packs,      \* curated packs ...
  PackKeys,   \* ... and the pairs each stands for
  Requests,   \* bound: API requests handled at once
  None,       \* no pack, no floor, no key
  Settings,   \* thresholds a user may set
  PackSetting,\* the threshold a pack sets
  Step,       \* threshold_adapt_step
  Drift,      \* threshold_adapt_range
  Limit       \* what the plan allows: of watchlists, and of packs

ASSUME WatchlistsParameters ==
  /\ IsFiniteSet(Keys)
  /\ PackKeys \in [Packs -> SUBSET Keys]
  /\ Settings \subseteq Nat /\ PackSetting \in Settings
  /\ Step \in Nat \ {0} /\ Drift \in Nat \ {0}
  /\ Limit \in Nat
  /\ None \notin Packs \cup Keys /\ None \notin Int

VARIABLES
  row,      \* the watchlists, as committed
  request,  \* the requests under way
  adapt,    \* the adaptation under way
  crowded,  \* history: two requests have counted before either wrote
  raced     \* history: rows whose setting an adaptation may have crossed

watchlistVars == <<row, request, adapt, crowded, raced>>

\* A watchlist's threshold and its floor; and the pack it came with.
Threshold == [t : Int, floor : Int \cup {None}]
Row == [t : Int, floor : Int \cup {None}, pack : Packs \cup {None},
        set : Settings]  \* history: what the user has set last
Gone == [t |-> -1, floor |-> None]
Absent == [t |-> -1, floor |-> None, pack |-> None, set |-> PackSetting]
Idle == [op |-> "idle", k |-> None, p |-> None, seen |-> Gone]
NoAdapt == [at |-> "off", seen |-> [k \in Keys |-> Gone]]
Read(r) == [t |-> r.t, floor |-> r.floor]

WatchlistsTypeOK ==
  /\ row \in [Keys -> Row]
  /\ request \in [Requests -> [op : {"idle", "create", "patch", "subscribe"},
                               k : Keys \cup {None}, p : Packs \cup {None},
                               seen : Threshold]]
  /\ adapt \in [at : {"off", "up", "down"}, seen : [Keys -> Threshold]]
  /\ crowded \in BOOLEAN
  /\ raced \subseteq Keys

WatchlistsInit ==
  /\ row = [k \in Keys |-> Absent]
  /\ request = [q \in Requests |-> Idle]
  /\ adapt = NoAdapt
  /\ crowded = FALSE
  /\ raced = {}

Present == {k \in Keys : row[k] # Absent}

-----------------------------------------------------------------------------
(* Counting against the plan.                                              *)

Manual == {k \in Present : row[k].pack = None}
Subscribed == {row[k].pack : k \in Present} \ {None}

\* assert_within_limit.
Room(n) == n + 1 <= Limit

Begins(q, r) == request' = [request EXCEPT ![q] = r]
Ends(q) == Begins(q, Idle)

\* history: another request of this kind has counted and not yet written.
Crowds(q, op) == crowded' = (crowded \/ \E p \in Requests \ {q} : request[p].op = op)

\* create, up to its insert.
CheckCreate(q) ==
  /\ request[q] = Idle
  /\ Room(Cardinality(Manual))
  /\ Begins(q, [Idle EXCEPT !.op = "create"])
  /\ Crowds(q, "create")
  /\ UNCHANGED <<row, adapt, raced>>

\* A second row for the pair is refused by the unique key (409).
Create(q) ==
  /\ request[q].op = "create"
  /\ \E k \in Keys, t \in Settings :
       row' = IF row[k] = Absent
                THEN [row EXCEPT ![k] = [t |-> t, floor |-> None, pack |-> None, set |-> t]]
                ELSE row
  /\ Ends(q)
  /\ UNCHANGED <<adapt, crowded, raced>>

\* subscribe, up to its inserts: a pack with a row left costs no slot.
CheckSubscribe(q) ==
  /\ request[q] = Idle
  /\ \E p \in Packs :
       /\ p \in Subscribed \/ Room(Cardinality(Subscribed))
       /\ Begins(q, [Idle EXCEPT !.op = "subscribe", !.p = p])
  /\ Crowds(q, "subscribe")
  /\ UNCHANGED <<row, adapt, raced>>

\* Each row in a savepoint of its own: those that exist are skipped.
Subscribe(q) ==
  LET p == request[q].p
      new == [t |-> PackSetting, floor |-> None, pack |-> p, set |-> PackSetting]
  IN  /\ request[q].op = "subscribe"
      /\ row' = [k \in Keys |-> IF k \in PackKeys[p] \ Present THEN new ELSE row[k]]
      /\ Ends(q)
      /\ UNCHANGED <<adapt, crowded, raced>>

-----------------------------------------------------------------------------
(* Thresholds.                                                             *)

Lesser(a, b) == IF a <= b THEN a ELSE b
Greater(a, b) == IF a >= b THEN a ELSE b

\* resolve_floor and compute_threshold_step.
Floor(r) == IF r.floor = None THEN r.t ELSE r.floor
Adapted(r, way) ==
  [r EXCEPT !.floor = Floor(r),
            !.t = IF way = "up" THEN Lesser(r.t + Step, Floor(r) + Drift)
                                ELSE Greater(r.t - Step, Floor(r))]

\* The ORM writes the columns of new that differ from what was read.
Write(now, read, new) ==
  [now EXCEPT !.t = IF new.t # read.t THEN new.t ELSE @,
              !.floor = IF new.floor # read.floor THEN new.floor ELSE @]

\* update, up to its flush.
ReadPatch(q) ==
  /\ request[q] = Idle
  /\ \E k \in Present : Begins(q, [Idle EXCEPT !.op = "patch", !.k = k, !.seen = Read(row[k])])
  /\ UNCHANGED <<row, adapt, crowded, raced>>

\* A plausible bug: a manual setting leaves the floor alone.
PatchThreshold(r, t) == [r EXCEPT !.t = t]
\* A manual setting is the new floor.
Patched(r, t) == [r EXCEPT !.t = t, !.floor = t]

\* A row that was deleted meanwhile fails the request.
Patch(q) ==
  LET r == request[q]
  IN  /\ r.op = "patch"
      /\ IF r.seen = Gone
           THEN UNCHANGED <<row, raced>>
           ELSE /\ \E t \in Settings :
                     row' = [row EXCEPT ![r.k] =
                               [Write(@, r.seen, Patched(r.seen, t)) EXCEPT !.set = t]]
                /\ raced' = IF Read(row[r.k]) # r.seen \/ adapt.seen[r.k] # Gone
                              THEN raced \cup {r.k} ELSE raced \ {r.k}
      /\ Ends(q)
      /\ UNCHANGED <<adapt, crowded>>

\* _adapt_user reads the share of downvotes and all the user's rows, of
\* which those whose threshold is where it may go are left alone ...
Moves(k, way) == row[k] # Absent /\ Adapted(Read(row[k]), way) # Read(row[k])
ReadAdapt ==
  /\ adapt.at = "off"
  /\ \E way \in {"up", "down"} :
       /\ \E k \in Keys : Moves(k, way)
       /\ adapt' = [at |-> way,
                    seen |-> [k \in Keys |-> IF Moves(k, way) THEN Read(row[k]) ELSE Gone]]
  /\ UNCHANGED <<row, request, crowded, raced>>

\* ... and writes the others.
Adapt ==
  /\ adapt.at # "off"
  /\ row' = [k \in Keys |->
               IF adapt.seen[k] = Gone THEN row[k]
               ELSE Write(row[k], adapt.seen[k], Adapted(adapt.seen[k], adapt.at))]
  /\ adapt' = NoAdapt
  /\ UNCHANGED <<request, crowded, raced>>

-----------------------------------------------------------------------------
\* Rows are deleted.  A PATCH of one fails, and so does an adaptation that
\* would write one: the ORM misses the row, and the whole of it is undone.
DeleteRows(keys) ==
  /\ row' = [k \in Keys |-> IF k \in keys THEN Absent ELSE row[k]]
  /\ request' = [q \in Requests |->
                   IF request[q].k \in keys THEN [request[q] EXCEPT !.seen = Gone] ELSE request[q]]
  /\ adapt' = IF \E k \in keys : adapt.seen[k] # Gone THEN NoAdapt ELSE adapt
  /\ raced' = raced \ keys
  /\ UNCHANGED crowded

Delete == \E k \in Present : DeleteRows({k})

\* unsubscribe: the rows of the pack, and none that was set by hand.
Unsubscribe == \E p \in Subscribed : DeleteRows({k \in Present : row[k].pack = p})

WatchlistsNext ==
  \/ \E q \in Requests : \/ CheckCreate(q) \/ Create(q) \/ ReadPatch(q) \/ Patch(q)
                         \/ CheckSubscribe(q) \/ Subscribe(q)
  \/ ReadAdapt \/ Adapt \/ Delete \/ Unsubscribe

-----------------------------------------------------------------------------
(* Properties.                                                             *)

\* Unless two requests counted side by side, a user has no more watchlists of
\* its own, and no more packs, than the plan allows,
\* whatever was deleted, given up and subscribed to again, skipped or refused
\* meanwhile (assert_within_limit counts before the insert).
LimitExceededOnlyByRace ==
  ~crowded => /\ Cardinality(Manual) <= Limit
              /\ Cardinality(Subscribed) <= Limit

\* A threshold never falls below what the user set last, nor rises more than
\* Drift above it, and adaptation goes by that setting - unless the PATCH that
\* set it and an adaptation (or another PATCH) crossed; the next PATCH that
\* meets nobody makes that good (adaptation clamped "to [floor, floor+range]",
\* the re-snapshot of update).
SettingKept ==
  \A k \in Present \ raced :
    /\ row[k].t >= row[k].set /\ row[k].t <= row[k].set + Drift
    /\ Floor(row[k]) = row[k].set

\* Rows and settings are what the plan and the user said.
WatchlistsHold == LimitExceededOnlyByRace /\ SettingKept
=============================================================================
