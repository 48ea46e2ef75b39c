------------------------------ MODULE MCTenant ------------------------------
(***************************************************************************)
(* TLC instance of Tenant: two pairs of a channel and a topic, each in a   *)
(* pack of its own, and two requests at once; three embeddings, of which   *)
(* one pair is near, one near enough to merge and one neither; a story of  *)
(* three posts in two channels, and two ticks; five stories before the     *)
(* gate, of which one trains, one validates and three are ahead.           *)
(***************************************************************************)
EXTENDS Tenant, TLC

CONSTANTS k1, k2, p1, p2, q1, q2, o1, o2, s1, s2

TwoKeys == {k1, k2}
TwoPacks == {p1, p2}
OneEach == [p \in TwoPacks |-> IF p = p1 THEN {k1} ELSE {k2}]
TwoRequests == {q1, q2}
TwoSettings == {1, 2}
ThreePoints == {0, 2, 3}
TwoOutlets == {o1, o2}
TwoSubjects == {1, 2}
OneOrBoth == [t \in TwoSubjects |-> IF t = 1 THEN {o1} ELSE {o1, o2}]
TwoWindows == {15, 30}
TwoScorers == {s1, s2}
OneWeight == {60000}
\* 100 * log1p(n) / 14, for the sums of up to three of them.
Logarithms == [n \in {0, 60000, 120000, 180000} |->
                 CASE n = 0 -> 0 [] n = 60000 -> 78 [] n = 120000 -> 83 [] OTHER -> 86]

TwoGrades == {1, 2}
TwoYields == {0, 1}
FifthEach == [p \in {"train", "val"} |-> <<1, 5>>]

\* The pairs can change places with their packs, and so can the requests and the
\* ticks (together: a behaviour is of one part, and the others stand still).
Swapped == (k1 :> k2) @@ (k2 :> k1) @@ (p1 :> p2) @@ (p2 :> p1)
Exchanged == (q1 :> q2) @@ (q2 :> q1) @@ (s1 :> s2) @@ (s2 :> s1)
Still(p) == [x \in DOMAIN p |-> x]
Alike == {Swapped, Still(Swapped)} \cup {Exchanged, Still(Exchanged)}

\* Once two requests have counted side by side the limit is off: what they write
\* is seen, and then no setting is followed any further.
Counted ==
  crowded => adapt = NoAdapt /\ raced = {} /\ \A q \in Requests : request[q].op # "patch"
=============================================================================
