------------------------------ MODULE Service ------------------------------
(***************************************************************************)
(* What is asked of the system at its edges while it writes: a user's      *)
(* pages (module Feed), his ratings and what is measured of them (module   *)
(* Ratings), his way in (module Access), the business figures (module      *)
(* Figures), what the accounts that read for him cost (module Supply), and *)
(* the lock of the tick that reads (module TaskLock).  Each asks for rows  *)
(* or keys that no other of them writes, so that one section at a time     *)
(* shows all that can happen to it.                                        *)
(***************************************************************************)
EXTENDS TaskLock, Feed, Ratings, Access, Figures, Supply

VARIABLE section  \* what is followed

serviceVars == <<section, lockVars, feedVars, ratingVars, accessVars, figuresVars, supplyVars>>

Sections == {"lock", "list", "desk", "taps", "reports", "keys", "signup", "figures", "supply"}

ServiceTypeOK ==
  /\ section \in Sections
  /\ LockTypeOK /\ FeedTypeOK /\ RatingsTypeOK /\ AccessTypeOK /\ FiguresTypeOK /\ SupplyTypeOK

\* Where a section begins in several ways, the others take one of them.
ServiceInit ==
  /\ section \in Sections
  /\ LockInit /\ FeedInit /\ RatingsInit /\ AccessInit /\ FiguresInit /\ SupplyInit
  /\ section # "list" => tariff = CHOOSE days \in Histories : TRUE
  /\ section # "supply" => leasing

Locking ==
  /\ section = "lock" /\ LockNext
  /\ UNCHANGED <<section, feedVars, ratingVars, accessVars, figuresVars, supplyVars>>
Paging ==
  /\ \/ section = "list" /\ ListNext /\ UNCHANGED deskVars
     \/ section = "desk" /\ DeskNext /\ UNCHANGED listVars
  /\ UNCHANGED <<section, lockVars, ratingVars, accessVars, figuresVars, supplyVars>>
Rating ==
  /\ \/ section = "taps" /\ TapNext
     \/ section = "reports" /\ LatencyNext
  /\ UNCHANGED <<section, lockVars, feedVars, accessVars, figuresVars, supplyVars>>
Entering ==
  /\ \/ section = "keys" /\ KeysNext /\ UNCHANGED signupVars
     \/ section = "signup" /\ SignupNext /\ UNCHANGED keyVars
  /\ UNCHANGED <<section, lockVars, feedVars, ratingVars, figuresVars, supplyVars>>
Figuring ==
  /\ section = "figures" /\ FiguresNext
  /\ UNCHANGED <<section, lockVars, feedVars, ratingVars, accessVars, supplyVars>>
Supplying ==
  /\ section = "supply" /\ SupplyNext
  /\ UNCHANGED <<section, lockVars, feedVars, ratingVars, accessVars, figuresVars>>

ServiceNext == Locking \/ Paging \/ Rating \/ Entering \/ Figuring \/ Supplying

\* As the lock's own specification has it.
ServiceFairness ==
  /\ WF_lockVars(section = "lock" /\ Tick)
  /\ \A w \in Workers : WF_lockVars(section = "lock" /\ HardTimeLimit(w))

ServiceSpec == ServiceInit /\ [][ServiceNext]_serviceVars /\ ServiceFairness
=============================================================================
