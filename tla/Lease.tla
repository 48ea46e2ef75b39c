------------------------------- MODULE Lease -------------------------------
(***************************************************************************)
(* What a Redis task lock promises, without the key, its time-to-live or   *)
(* the tokens: a task may enter while others are still inside only if      *)
(* every one of them has lost its lease.                                   *)
(***************************************************************************)
EXTENDS FiniteSets

CONSTANT Workers

VARIABLES
  inside,  \* the workers running the guarded body
  lost     \* those of them whose lease is no longer theirs

LeaseTypeOK == inside \subseteq Workers /\ lost \subseteq inside

LeaseInit == inside = {} /\ lost = {}

Enter(w) ==
  /\ w \notin inside
  /\ inside = lost
  /\ inside' = inside \cup {w}
  /\ UNCHANGED lost

Leave(w) ==
  /\ w \in inside
  /\ inside' = inside \ {w}
  /\ lost' = lost \ {w}

Lose(w) ==
  /\ w \in inside \ lost
  /\ lost' = lost \cup {w}
  /\ UNCHANGED inside

LeaseNext == \E w \in Workers : Enter(w) \/ Leave(w) \/ Lose(w)

LeaseSpec == LeaseInit /\ [][LeaseNext]_<<inside, lost>>
=============================================================================
