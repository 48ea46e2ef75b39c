------------------------------ MODULE Showcase ------------------------------
(***************************************************************************)
(* The showcase channel (showcase/tasks.py, selection.py, sender.py): every*)
(* quarter of an hour a tick posts the best cluster that has not been      *)
(* posted, at most PostsPerDay a day.  A pending row is committed before   *)
(* the send and the row read again; the mark that it is posted is committed*)
(* after it.                                                               *)
(*                                                                         *)
(* A score decides between the candidates: any of them may be the best.    *)
(* Credentials are set and the showcase user exists.                       *)
(***************************************************************************)
EXTENDS Sweeps

CONSTANTS
  Clusters,
  PostsPerDay,  \* showcase_posts_per_day_max
  NoCluster

ASSUME ShowcaseParameters ==
  IsFiniteSet(Clusters) /\ PostsPerDay \in Nat \ {0} /\ NoCluster \notin Clusters

VARIABLES
  able,    \* clusters within the score and age cutoffs
  status,  \* showcase_posts: a cluster's row, if any, and its day
  tick,    \* the ticks under way
  posted,  \* history: clusters the channel has shown
  today,   \* history: posts the channel got today
  meets,   \* history: ticks past the re-reading of a row another tick is at
  vanished \* history: a post whose mark was lost, or does not count for its day

showcaseVars == <<able, status, tick, posted, today, meets, vanished>>

Unlisted == "unlisted"
NoTick == [at |-> "off", c |-> NoCluster, old |-> FALSE]

ShowcaseTypeOK ==
  /\ able \subseteq Clusters
  /\ status \in [Clusters -> {Unlisted, "pending", "posted", "postedToday"}]
  /\ tick \in [Workers -> [at : {"off", "fix", "select", "list", "read", "send", "mark"},
                           c : Clusters \cup {NoCluster}, old : BOOLEAN]]
  /\ posted \subseteq Clusters
  /\ today \in Nat
  /\ meets \subseteq Workers
  /\ vanished \subseteq Clusters

ShowcaseInit ==
  /\ able = {}
  /\ status = [c \in Clusters |-> Unlisted]
  /\ tick = [w \in Workers |-> NoTick]
  /\ posted = {} /\ today = 0 /\ meets = {} /\ vanished = {}

Ticking == {w \in Workers : tick[w].at # "off"}
Moves(w, stage) == tick' = [tick EXCEPT ![w].at = stage]
TickEnds(w) ==
  tick' = [tick EXCEPT ![w] = NoTick] /\ Leave(w) /\ meets' = meets \ {w}
UnpostedVars == <<posted, today, vanished>>

\* The tick, up to the fixing of cases.
StartTick(w) ==
  /\ tick[w].at = "off"
  /\ Moves(w, "fix")
  /\ Enter(w, Ticking)
  /\ UNCHANGED <<able, status, meets, UnpostedVars, faults>>

\* fix_cases and its commit.  When a statement of it fails, the handler goes
\* on with a transaction that PostgreSQL refuses, so that the tick ends.
FixCases(w) ==
  /\ tick[w].at = "fix"
  /\ \/ Moves(w, "select") /\ UNCHANGED <<meets, faults, crossed>>
     \/ Fault /\ TickEnds(w)
  /\ UNCHANGED <<able, status, UnpostedVars>>

PostsToday == {c \in Clusters : status[c] = "postedToday"}

\* A plausible bug: the cap is not asked.
CandidatesUncapped == {c \in able : status[c] \in {Unlisted, "pending"}}
\* pick_best_candidate's cutoffs.
Candidates ==
  IF Cardinality(PostsToday) >= PostsPerDay THEN {}
  ELSE {c \in able : status[c] \in {Unlisted, "pending"}}

PickBest(w) ==
  /\ tick[w].at = "select"
  /\ \/ /\ Candidates = {}
        /\ TickEnds(w)
     \/ /\ \E c \in Candidates : tick' = [tick EXCEPT ![w].at = "list", ![w].c = c]
        /\ UNCHANGED <<crossed, meets>>
  /\ UNCHANGED <<able, status, UnpostedVars, faults>>

\* The pending row, inserted unless it is there, and committed.
InsertPending(w) ==
  LET c == tick[w].c
  IN  /\ tick[w].at = "list"
      /\ \/ /\ status' = IF status[c] = Unlisted THEN [status EXCEPT ![c] = "pending"]
                         ELSE status
            /\ Moves(w, "read")
            /\ UNCHANGED <<crossed, meets, faults>>
         \/ /\ Fault /\ TickEnds(w)
            /\ UNCHANGED status
      /\ UNCHANGED <<able, UnpostedVars>>

\* history: w joins those that have read c's row and not committed its mark.
Meets(w) ==
  LET others == {v \in Workers \ {w} : tick[v].c = tick[w].c /\ tick[v].at \in {"send", "mark"}}
  IN  meets' = IF others = {} THEN meets ELSE meets \cup others \cup {w}

\* A plausible bug: the row is not read again after the insert.
RefetchNothing(w) ==
  /\ tick[w].at = "read"
  /\ Moves(w, "send") /\ Meets(w)
  /\ UNCHANGED <<able, status, crossed, faults, UnpostedVars>>
\* The row read again: a post of another worker ends the tick.
Refetch(w) ==
  /\ tick[w].at = "read"
  /\ IF status[tick[w].c] \in {"posted", "postedToday"} THEN TickEnds(w)
     ELSE Moves(w, "send") /\ Meets(w) /\ UNCHANGED crossed
  /\ UNCHANGED <<able, status, faults, UnpostedVars>>

Shown(c) == posted' = posted \cup {c} /\ today' = today + 1

\* send_showcase_post: never raises; False leaves the row pending.
SendPost(w) ==
  LET c == tick[w].c
  IN  /\ tick[w].at = "send"
      /\ \/ /\ Shown(c)
            /\ Moves(w, "mark")
            /\ UNCHANGED <<vanished, meets, crossed, faults>>
         \/ /\ Fault /\ TickEnds(w)
            /\ \/ UNCHANGED UnpostedVars
               \/ Shown(c) /\ vanished' = vanished \cup {c}  \* an answer lost
      /\ UNCHANGED <<able, status>>

\* status and posted_at = the tick's start, committed as the tick ends; a row
\* that another tick has marked before counts one post for both.
MarkPosted(w) ==
  LET c == tick[w].c
  IN  /\ tick[w].at = "mark"
      /\ status' = [status EXCEPT ![c] = IF tick[w].old THEN "posted" ELSE "postedToday"]
      /\ vanished' = IF tick[w].old \/ status[c] \in {"posted", "postedToday"}
                     THEN vanished \cup {c} ELSE vanished
      /\ TickEnds(w)
      /\ UNCHANGED <<able, posted, today, faults>>

\* The child dies, or a statement fails.
TickDies(w) ==
  /\ w \in Ticking
  /\ Fault
  /\ vanished' = IF tick[w].at = "mark" THEN vanished \cup {tick[w].c} ELSE vanished
  /\ TickEnds(w)
  /\ UNCHANGED <<able, status, posted, today>>

\* A cluster passes the cutoffs, and no longer passes them.
Ripens(c) ==
  /\ c \notin able /\ able' = able \cup {c}
  /\ UNCHANGED <<status, tick, meets, UnpostedVars, sweepsVars>>
Withers(c) ==
  /\ c \in able /\ able' = able \ {c}
  /\ UNCHANGED <<status, tick, meets, UnpostedVars, sweepsVars>>

\* A UTC day begins; a tick lasts less than a day.
Midnight ==
  /\ \A w \in Ticking : ~tick[w].old
  /\ status' = [c \in Clusters |-> IF status[c] = "postedToday" THEN "posted"
                                   ELSE status[c]]
  /\ tick' = [w \in Workers |-> IF w \in Ticking THEN [tick[w] EXCEPT !.old = TRUE]
                                ELSE tick[w]]
  /\ today' = 0
  /\ UNCHANGED <<able, posted, meets, vanished, sweepsVars>>

ShowcaseStep(w) ==
  \/ StartTick(w) \/ FixCases(w) \/ PickBest(w) \/ InsertPending(w)
  \/ Refetch(w) \/ SendPost(w) \/ MarkPosted(w)

ShowcaseNext ==
  \/ \E w \in Workers : ShowcaseStep(w) \/ TickDies(w)
  \/ \E c \in Clusters : Ripens(c) \/ Withers(c)
  \/ Midnight

-----------------------------------------------------------------------------
(* Properties.                                                             *)

\* The channel shows a cluster again only when two ticks were past the
\* re-reading of its row at once, or the mark of the first was lost: the
\* UNIQUE constraint prevents the second row, not the second post.  And it
\* gets more than PostsPerDay only when ticks overlapped, or a mark was lost,
\* booked on the day before, or swallowed by the mark of another tick.
PostedAgainOnlyByRace ==
  [][\A w \in Workers :
       tick[w].at = "send" /\ tick'[w].at = "mark"
       => /\ tick[w].c \in posted => w \in meets \/ tick[w].c \in vanished
          /\ today >= PostsPerDay => w \in crossed \/ vanished # {}
     ]_<<tick>>
=============================================================================
