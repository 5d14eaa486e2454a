---------------------------- MODULE IngestionLease ----------------------------
(***************************************************************************)
(* What the supervisor promises about ingestion as a whole: the right to   *)
(* write market data is a lease that at most one run holds.  A run gets it *)
(* when nobody has it, the runs get it in the order of their ids and each  *)
(* at most once, and a run that gave it back never has it again.           *)
(***************************************************************************)
EXTENDS Naturals

CONSTANT RunIds

VARIABLES
  holders,   \* the runs holding the lease: none or one
  granted    \* every run that ever held it

Init == holders = {} /\ granted = {}

Grant(r) ==
  /\ holders = {}
  /\ \A s \in granted : s < r
  /\ holders' = {r}
  /\ granted' = granted \cup {r}

Return ==
  /\ holders # {}
  /\ holders' = {}
  /\ UNCHANGED granted

Next == Return \/ \E r \in RunIds : Grant(r)

Spec == Init /\ [][Next]_<<holders, granted>>
=============================================================================
