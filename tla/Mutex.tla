-------------------------------- MODULE Mutex --------------------------------
(***************************************************************************)
(* What a lock promises: a request is pending until it is granted, only a  *)
(* free lock is granted, and only its owner gives it back.  This is the    *)
(* abstract specification that ShMutex (ngx_shmtx_t) implements.           *)
(***************************************************************************)
CONSTANTS Procs, NoProc

VARIABLES
  owner,      \* the process inside the critical section, or NoProc
  pending     \* the processes whose lock() or trylock() call has not returned

mvars == <<owner, pending>>

Init == owner = NoProc /\ pending = {}

Request(p) ==
  /\ p \notin pending
  /\ owner # p
  /\ pending' = pending \cup {p}
  /\ UNCHANGED owner

Grant(p) ==
  /\ p \in pending
  /\ owner = NoProc
  /\ owner' = p
  /\ pending' = pending \ {p}

\* A trylock() call may return without the lock.
Refuse(p) ==
  /\ p \in pending
  /\ pending' = pending \ {p}
  /\ UNCHANGED owner

Release(p) ==
  /\ owner = p
  /\ owner' = NoProc
  /\ UNCHANGED pending

Next == \E p \in Procs : Request(p) \/ Grant(p) \/ Refuse(p) \/ Release(p)

Spec == Init /\ [][Next]_mvars
==============================================================================
