------------------------------ MODULE FairLock ------------------------------
(***************************************************************************)
(* What users of a lock in the firmware rely on: at most one CPU has it,   *)
(* taking it is one step, and a CPU that asks gets it.                     *)
(***************************************************************************)
CONSTANT CPUs

VARIABLE lock   \* per CPU: "idle", "waiting", "holding"

Init == lock = [c \in CPUs |-> "idle"]

Ask(c) ==
  /\ lock[c] = "idle"
  /\ lock' = [lock EXCEPT ![c] = "waiting"]

Take(c) ==
  /\ lock[c] = "waiting"
  /\ \A d \in CPUs : lock[d] # "holding"
  /\ lock' = [lock EXCEPT ![c] = "holding"]

Drop(c) ==
  /\ lock[c] = "holding"
  /\ lock' = [lock EXCEPT ![c] = "idle"]

Next == \E c \in CPUs : Ask(c) \/ Take(c) \/ Drop(c)

Safety == Init /\ [][Next]_lock

\* Strong fairness: a CPU is not passed over for ever.
Spec ==
  /\ Safety
  /\ \A c \in CPUs : SF_lock(Take(c)) /\ WF_lock(Drop(c))
=============================================================================
