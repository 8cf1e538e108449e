----------------------------- MODULE ModelLease -----------------------------
(***************************************************************************)
(* What the pool of a ModelContainer promises, without lists, locks,       *)
(* events or streams: a Model is lent to one user at a time, only while    *)
(* the device does not work on it, and works only for the user it is lent  *)
(* to ("Once an inference run has started, it is not safe to re-use the    *)
(* Model until the run has finished").                                     *)
(***************************************************************************)
CONSTANTS Users, Items
VARIABLES leases,   \* pairs <<user, item>>
          busy      \* items the device works on

Init == leases = {} /\ busy = {}

Acquire(u, m) ==
  /\ \A v \in Users : <<v, m>> \notin leases
  /\ m \notin busy
  /\ leases' = leases \cup {<<u, m>>}
  /\ UNCHANGED busy

Start(u, m) ==
  /\ <<u, m>> \in leases
  /\ busy' = busy \cup {m}
  /\ UNCHANGED leases

Release(u, m) ==
  /\ <<u, m>> \in leases
  /\ leases' = leases \ {<<u, m>>}
  /\ UNCHANGED busy

Finish(m) ==
  /\ m \in busy
  /\ busy' = busy \ {m}
  /\ UNCHANGED leases

Next == \/ \E u \in Users, m \in Items : Acquire(u, m) \/ Start(u, m) \/ Release(u, m)
        \/ \E m \in Items : Finish(m)

Spec == Init /\ [][Next]_<<leases, busy>>
=============================================================================
