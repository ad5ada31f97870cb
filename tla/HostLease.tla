------------------------------ MODULE HostLease ------------------------------
(***************************************************************************)
(* What the pipelines of fslab promise about the machines they pay for,    *)
(* without saying how.  A machine that fslab launched or started is under  *)
(* a lease.  The lease is first known only to the command that took it,    *)
(* then written down in the project's stamp, then committed once the       *)
(* launch has been confirmed.  Releasing the machine ends the lease.       *)
(*                                                                         *)
(* A launch that breaks off may lose a lease it has not committed: the     *)
(* machine keeps running and nothing in the project names it.  A committed *)
(* lease is never lost: whatever crashes, disconnects and failed clean-ups *)
(* follow, it stays committed until the machine is released.               *)
(***************************************************************************)
CONSTANT Host

VARIABLE lease

LeaseState == {"free", "acquired", "recorded", "committed", "lost"}

TypeOK == lease \in [Host -> LeaseState]

Init == lease = [h \in Host |-> "free"]

Become(h, state) == lease' = [lease EXCEPT ![h] = state]

\* A launcher takes the machine, then writes the stamp, then confirms it.
Acquire(h) == lease[h] = "free" /\ Become(h, "acquired")
Record(h)  == lease[h] = "acquired" /\ Become(h, "recorded")
Commit(h)  == lease[h] = "recorded" /\ Become(h, "committed")

\* The launch breaks off before it is confirmed.
Lose(h) == lease[h] \in {"acquired", "recorded"} /\ Become(h, "lost")

\* fslab stops or terminates the machine, or AWS takes it back.
Release(h) == lease[h] # "free" /\ Become(h, "free")

Next ==
  \E h \in Host :
    \/ Acquire(h) \/ Record(h) \/ Commit(h)
    \/ Lose(h) \/ Release(h)

Spec == Init /\ [][Next]_lease
=============================================================================
