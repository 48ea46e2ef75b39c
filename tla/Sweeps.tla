------------------------------- MODULE Sweeps -------------------------------
(***************************************************************************)
(* What the outreach tasks share (billing/tasks.py, notifications/tasks.py,*)
(* showcase/tasks.py).  Each is fired by beat, takes no lock, reads what is*)
(* due, sends, and commits a mark that it has sent.  Two runs of a task    *)
(* overlap when the second is fired, or taken from the queue, before the   *)
(* first has ended.                                                        *)
(***************************************************************************)
EXTENDS Integers, FiniteSets

CONSTANTS
  Workers,   \* the Celery children a task may run in
  MaxFaults  \* bound: failing sends, failing commits and crashes

ASSUME SweepsParameters == IsFiniteSet(Workers) /\ MaxFaults \in Nat

VARIABLES
  faults,  \* faults so far
  crossed  \* history: runs that another run of the task has overlapped

sweepsVars == <<faults, crossed>>

Fault == faults < MaxFaults /\ faults' = faults + 1

\* A run begins in w while those in `busy' are under way, or it ends.
Enter(w, busy) == crossed' = IF busy = {} THEN crossed \ {w}
                                          ELSE crossed \cup busy \cup {w}
Leave(w) == crossed' = crossed \ {w}
=============================================================================
