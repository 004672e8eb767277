-------------------------- MODULE AcceptMutexProofs --------------------------
(***************************************************************************)
(* Proofs about the accept mutex for any finite set of workers, any number *)
(* of listeners, slots and clients, and any number of failing epoll_ctl()  *)
(* and accept() calls, crashes and quits.                                  *)
(***************************************************************************)
EXTENDS AcceptMutex, TLAPS

(***************************************************************************)
(* The inductive invariant.  The word and its history agree (WordMirrors). *)
(* Whoever is inside a turn that took the mutex still has the flag that    *)
(* makes it release it (InsideHeld).  Accept events are pending only while *)
(* the handlers run, on watched listeners (PendingOnlyInHandlers), a       *)
(* worker that shuts down uses neither mutex nor flag (ExitingLetsGo), and *)
(* a dead process watches nothing (DeadWatchesNothing).                    *)
(***************************************************************************)
WordMirrors == owner = Nobody <=> lock = Unlocked

InsideHeld == \A w \in Workers : Inside(w) => held[w]

PendingOnlyInHandlers ==
  \A w \in Workers : /\ ready[w] \subseteq active[w]
                     /\ pc[w] # "handlers" => ready[w] = {}

ExitingLetsGo ==
  \A w \in Workers : exiting[w] => ~use[w] /\ ~held[w] /\ active[w] = {}

DeadWatchesNothing ==
  \A w \in Workers : pc[w] = "dead" => active[w] = {} /\ conns[w] = 0

OwnerInside == ~stray => \A w \in Workers : Inside(w) => owner = w

WatchedByHolder ==
  faults["ctl"] = 0 =>
    \A w \in Running : active[w] = IF held[w] THEN Listeners ELSE {}

IInv ==
  /\ TypeOK
  /\ WordMirrors
  /\ InsideHeld
  /\ PendingOnlyInHandlers
  /\ ExitingLetsGo
  /\ DeadWatchesNothing
  /\ OwnerInside
  /\ NotLeftLocked
  /\ WatchedByHolder

-----------------------------------------------------------------------------
\* A counted fault changes its own counter and no other.
LEMMA CountOne ==
  ASSUME TypeOK, NEW f \in DOMAIN Bound, Count(f)
  PROVE  /\ faults' \in [DOMAIN Bound -> Nat]
         /\ faults'[f] > 0
         /\ \A g \in DOMAIN Bound : g # f => faults'[g] = faults[g]
<1>1. faults \in [DOMAIN Bound -> Nat] /\ faults' = [faults EXCEPT ![f] = @ + 1]
  BY DEF TypeOK, Count
<1>2. faults[f] \in Nat /\ faults'[f] = faults[f] + 1
  BY <1>1
<1> QED BY <1>1, <1>2

\* The faults that are counted.
LEMMA FaultNames == DOMAIN Bound = {"clients", "ctl", "accept", "crash", "quit"}
  BY DEF Bound

\* A turn over the accept threshold: post is cleared at the top of the loop,
\* where nobody is inside.
LEMMA TurnDisabledStep ==
  ASSUME IInv, NEW w \in Workers, TurnDisabled(w)
  PROVE  IInv'
<1> USE AcceptMutexAssumption DEF IInv, TypeOK, Set, wvars, Running, Listeners
<1>1. TypeOK'
  BY SMTT(60) DEF TurnDisabled, PcNames, Unlocked, Locked
<1>2. (WordMirrors /\ InsideHeld /\ OwnerInside)'
  BY DEF TurnDisabled, WordMirrors, InsideHeld, OwnerInside, Inside, Unlocked,
     Locked
<1>3. (PendingOnlyInHandlers /\ ExitingLetsGo)'
  BY DEF TurnDisabled, PendingOnlyInHandlers, ExitingLetsGo
<1>4. (DeadWatchesNothing /\ WatchedByHolder)'
  BY DEF TurnDisabled, DeadWatchesNothing, WatchedByHolder,
     PendingOnlyInHandlers
<1>5. NotLeftLocked'
  BY DEF TurnDisabled, NotLeftLocked, WordMirrors, InsideHeld, Inside,
     Unlocked, Locked
<1> QED BY <1>1, <1>2, <1>3, <1>4, <1>5

\* A turn of a worker that shuts down.
LEMMA TurnPlainStep ==
  ASSUME IInv, NEW w \in Workers, TurnPlain(w)
  PROVE  IInv'
<1> USE AcceptMutexAssumption DEF IInv, TypeOK, Set, wvars, Running, Listeners
<1>1. TypeOK'
  BY DEF TurnPlain, PcNames, Unlocked, Locked
<1>2. (WordMirrors /\ InsideHeld /\ OwnerInside)'
  BY DEF TurnPlain, WordMirrors, InsideHeld, OwnerInside, Inside, Unlocked,
     Locked
<1>3. (PendingOnlyInHandlers /\ ExitingLetsGo)'
  BY DEF TurnPlain, PendingOnlyInHandlers, ExitingLetsGo
<1>4. (DeadWatchesNothing /\ WatchedByHolder)'
  BY DEF TurnPlain, DeadWatchesNothing, WatchedByHolder, PendingOnlyInHandlers
<1>5. NotLeftLocked'
  BY DEF TurnPlain, NotLeftLocked, WordMirrors, InsideHeld, Inside, Unlocked,
     Locked
<1> QED BY <1>1, <1>2, <1>3, <1>4, <1>5

\* Taking the mutex: it was free, so without a stray release nobody is inside.
LEMMA TurnLockedStep ==
  ASSUME IInv, NEW w \in Workers, TurnLocked(w)
  PROVE  IInv'
<1> USE AcceptMutexAssumption DEF IInv, TypeOK, Set, wvars, Running, Listeners
<1>1. TypeOK'
  BY DEF TurnLocked, Tries, PcNames, Unlocked, Locked
<1>2. (WordMirrors /\ InsideHeld /\ OwnerInside)'
  BY DEF TurnLocked, Tries, WordMirrors, InsideHeld, OwnerInside, Inside,
     Unlocked, Locked
<1>3. (PendingOnlyInHandlers /\ ExitingLetsGo)'
  BY DEF TurnLocked, Tries, PendingOnlyInHandlers, ExitingLetsGo
<1>4. (DeadWatchesNothing /\ WatchedByHolder)'
  BY DEF TurnLocked, Tries, DeadWatchesNothing, WatchedByHolder,
     PendingOnlyInHandlers
<1>5. NotLeftLocked'
  BY DEF TurnLocked, Tries, NotLeftLocked, WordMirrors, InsideHeld, Inside,
     Unlocked, Locked
<1> QED BY <1>1, <1>2, <1>3, <1>4, <1>5

\* A failing ngx_enable_accept_events(): counted, or EEXIST after an earlier one.
LEMMA TurnEnableErrorStep ==
  ASSUME IInv, NEW w \in Workers, NEW l \in Listeners, TurnEnableError(w, l)
  PROVE  IInv'
<1> USE AcceptMutexAssumption DEF IInv, TypeOK, Set, wvars, Running, Listeners
<1>0. \/ faults' = faults /\ l \in active[w]
      \/ /\ faults' \in [DOMAIN Bound -> Nat] /\ faults'["ctl"] > 0
         /\ \A g \in DOMAIN Bound : g # "ctl" => faults'[g] = faults[g]
  BY CountOne, FaultNames DEF TurnEnableError
<1>1. TypeOK'
  <2>1. 1..(l - 1) \subseteq Listeners
    OBVIOUS
  <2>2. active' \in [Workers -> SUBSET Listeners] /\ pc' \in [Workers -> PcNames]
    BY <2>1 DEF TurnEnableError, PcNames
  <2>3. faults' \in [DOMAIN Bound -> Nat]
    BY <1>0
  <2> QED BY <2>2, <2>3 DEF TurnEnableError
<1>2. (WordMirrors /\ InsideHeld /\ OwnerInside)'
  BY DEF TurnEnableError, Tries, WordMirrors, InsideHeld, OwnerInside, Inside,
     Unlocked, Locked
<1>3. (PendingOnlyInHandlers /\ ExitingLetsGo)'
  BY SMTT(60) DEF TurnEnableError, Tries, PendingOnlyInHandlers, ExitingLetsGo
<1>4. (DeadWatchesNothing /\ WatchedByHolder)'
  <2>1. DeadWatchesNothing'
    BY DEF TurnEnableError, Tries, DeadWatchesNothing
  <2>2. CASE faults' = faults /\ l \in active[w]
    \* EEXIST needs an event left over from an earlier failure
    <3>1. faults["ctl"] # 0
      BY <2>2 DEF TurnEnableError, Tries, WatchedByHolder
    <3> QED BY <2>1, <2>2, <3>1 DEF WatchedByHolder
  <2>3. CASE faults'["ctl"] > 0
    BY <2>1, <2>3 DEF WatchedByHolder
  <2> QED BY <1>0, <2>2, <2>3
<1>5. NotLeftLocked'
  BY <1>0, FaultNames DEF TurnEnableError, Tries, NotLeftLocked, WordMirrors,
     InsideHeld, Inside, Unlocked, Locked
<1> QED BY <1>1, <1>2, <1>3, <1>4, <1>5

\* Losing the mutex to another worker: the events and the flag go together.
LEMMA TurnRefusedStep ==
  ASSUME IInv, NEW w \in Workers, TurnRefused(w)
  PROVE  IInv'
<1> USE AcceptMutexAssumption DEF IInv, TypeOK, Set, wvars, Running, Listeners
<1>1. TypeOK'
  BY DEF TurnRefused, Tries, PcNames, Unlocked, Locked
<1>2. (WordMirrors /\ InsideHeld /\ OwnerInside)'
  BY DEF TurnRefused, Tries, WordMirrors, InsideHeld, OwnerInside, Inside,
     Unlocked, Locked
<1>3. (PendingOnlyInHandlers /\ ExitingLetsGo)'
  BY DEF TurnRefused, Tries, PendingOnlyInHandlers, ExitingLetsGo
<1>4. (DeadWatchesNothing /\ WatchedByHolder)'
  BY DEF TurnRefused, Tries, DeadWatchesNothing, WatchedByHolder,
     PendingOnlyInHandlers
<1>5. NotLeftLocked'
  BY DEF TurnRefused, Tries, NotLeftLocked, WordMirrors, InsideHeld, Inside,
     Unlocked, Locked
<1> QED BY <1>1, <1>2, <1>3, <1>4, <1>5

\* A failing ngx_disable_accept_events() is counted.
LEMMA TurnDisableErrorStep ==
  ASSUME IInv, NEW w \in Workers, NEW l \in Listeners, TurnDisableError(w, l)
  PROVE  IInv'
<1> USE AcceptMutexAssumption DEF IInv, TypeOK, Set, wvars, Running, Listeners
<1>0. /\ faults' \in [DOMAIN Bound -> Nat] /\ faults'["ctl"] > 0
      /\ \A g \in DOMAIN Bound : g # "ctl" => faults'[g] = faults[g]
  BY CountOne, FaultNames DEF TurnDisableError
<1>1. TypeOK'
  BY <1>0, FaultNames DEF TurnDisableError, Tries, PcNames, Unlocked, Locked
<1>2. (WordMirrors /\ InsideHeld /\ OwnerInside)'
  BY DEF TurnDisableError, Tries, WordMirrors, InsideHeld, OwnerInside, Inside,
     Unlocked, Locked
<1>3. (PendingOnlyInHandlers /\ ExitingLetsGo)'
  BY DEF TurnDisableError, Tries, PendingOnlyInHandlers, ExitingLetsGo
<1>4. (DeadWatchesNothing /\ WatchedByHolder)'
  BY <1>0, FaultNames, SMTT(60) DEF TurnDisableError, Tries, DeadWatchesNothing,
     WatchedByHolder, PendingOnlyInHandlers
<1>5. NotLeftLocked'
  BY <1>0, FaultNames, SMTT(60) DEF TurnDisableError, Tries, NotLeftLocked, WordMirrors,
     InsideHeld, Inside, Unlocked, Locked
<1> QED BY <1>1, <1>2, <1>3, <1>4, <1>5

\* Only watched listeners are reported.
LEMMA PollStep ==
  ASSUME IInv, NEW w \in Workers, Poll(w)
  PROVE  IInv'
<1> USE AcceptMutexAssumption DEF IInv, TypeOK, Set, wvars, Running, Listeners
<1>1. TypeOK'
  BY DEF Poll, PcNames, Unlocked, Locked
<1>2. (WordMirrors /\ InsideHeld /\ OwnerInside)'
  BY DEF Poll, WordMirrors, InsideHeld, OwnerInside, Inside, Unlocked, Locked
<1>3. (PendingOnlyInHandlers /\ ExitingLetsGo)'
  BY DEF Poll, PendingOnlyInHandlers, ExitingLetsGo
<1>4. (DeadWatchesNothing /\ WatchedByHolder)'
  BY DEF Poll, DeadWatchesNothing, WatchedByHolder, PendingOnlyInHandlers
<1>5. NotLeftLocked'
  BY DEF Poll, NotLeftLocked, WordMirrors, InsideHeld, Inside, Unlocked, Locked
<1> QED BY <1>1, <1>2, <1>3, <1>4, <1>5

\* One accepted connection: the slots hold, and no event is added.
LEMMA AcceptStep ==
  ASSUME IInv, NEW w \in Workers, NEW l \in Listeners, Accept(w, l)
  PROVE  IInv'
<1> USE AcceptMutexAssumption DEF IInv, TypeOK, Set, wvars, Running, Listeners
<1>a. /\ ready' \in [Workers -> SUBSET Listeners]
      /\ ready'[w] \subseteq ready[w]
      /\ \A v \in Workers \ {w} : ready'[v] = ready[v]
  <2>1. PICK S \in {{}, {l}} : ready' = [ready EXCEPT ![w] = ready[w] \ S]
    BY DEF Accept, Again, Done
  <2> QED BY <2>1, SMTT(60)
<1>b. backlog' \in [Listeners -> Nat] /\ disabled' \in [Workers -> Int]
  <2>1. backlog[l] - 1 \in Nat /\ Threshold(w) \in Int
    BY SMTT(60) DEF Accept, Threshold
  <2> QED BY <2>1 DEF Accept
<1>c. /\ conns' \in [Workers -> 0..Slots]
      /\ \A v \in Workers \ {w} : conns'[v] = conns[v]
  <2>1. CASE UNCHANGED conns
    BY <2>1
  <2>2. CASE \E drained \in 0..32 :
               /\ drained <= conns[w] /\ conns[w] - drained < Slots
               /\ conns' = Set(conns, w, conns[w] - drained + 1)
    <3>1. PICK drained \in 0..32 :
               /\ drained <= conns[w] /\ conns[w] - drained < Slots
               /\ conns' = Set(conns, w, conns[w] - drained + 1)
      BY <2>2
    <3>2. conns[w] - drained + 1 \in 0..Slots
      BY <3>1, SMTT(60)
    <3> QED BY <3>1, <3>2
  <2> QED BY <2>1, <2>2 DEF Accept
<1>d. /\ faults' \in [DOMAIN Bound -> Nat]
      /\ faults'["ctl"] = faults["ctl"] /\ faults'["crash"] = faults["crash"]
  <2>1. \/ faults' = faults
        \/ faults' = [faults EXCEPT !["accept"] = @ + 1]
    BY DEF Accept
  <2>2. faults["accept"] + 1 \in Nat
    BY FaultNames, SMTT(60)
  <2>3. CASE faults' = faults
    BY <2>3
  <2>4. CASE faults' = [faults EXCEPT !["accept"] = @ + 1]
    <3>1. faults' \in [DOMAIN Bound -> Nat]
      BY <2>2, <2>4
    <3> QED BY <2>4, <3>1, FaultNames
  <2> QED BY <2>1, <2>3, <2>4
<1>e. pc[w] = "handlers" /\ UNCHANGED <<lock, owner, stray, pc, held, use, post, active, exiting>>
  BY DEF Accept, Handling
<1>1. TypeOK'
  BY <1>a, <1>b, <1>c, <1>d, <1>e
<1>2. (WordMirrors /\ InsideHeld /\ OwnerInside)'
  BY <1>e DEF WordMirrors, InsideHeld, OwnerInside, Inside
<1>3. (PendingOnlyInHandlers /\ ExitingLetsGo)'
  BY <1>a, <1>e DEF PendingOnlyInHandlers, ExitingLetsGo
<1>4. (DeadWatchesNothing /\ WatchedByHolder)'
  BY <1>c, <1>d, <1>e DEF DeadWatchesNothing, WatchedByHolder
<1>5. NotLeftLocked'
  BY <1>d, <1>e DEF NotLeftLocked, Inside
<1> QED BY <1>1, <1>2, <1>3, <1>4, <1>5

\* Nothing left to accept.
LEMMA AcceptAgainStep ==
  ASSUME IInv, NEW w \in Workers, NEW l \in Listeners, AcceptAgain(w, l)
  PROVE  IInv'
<1> USE AcceptMutexAssumption DEF IInv, TypeOK, Set, wvars, Running, Listeners
<1>1. TypeOK'
  BY DEF AcceptAgain, Handling, Done, PcNames, Unlocked, Locked
<1>2. (WordMirrors /\ InsideHeld /\ OwnerInside)'
  BY DEF AcceptAgain, Handling, Done, WordMirrors, InsideHeld, OwnerInside,
     Inside, Unlocked, Locked
<1>3. (PendingOnlyInHandlers /\ ExitingLetsGo)'
  BY DEF AcceptAgain, Handling, Done, PendingOnlyInHandlers, ExitingLetsGo
<1>4. (DeadWatchesNothing /\ WatchedByHolder)'
  BY DEF AcceptAgain, Handling, Done, DeadWatchesNothing, WatchedByHolder,
     PendingOnlyInHandlers
<1>5. NotLeftLocked'
  BY DEF AcceptAgain, Handling, Done, NotLeftLocked, WordMirrors, InsideHeld,
     Inside, Unlocked, Locked
<1> QED BY <1>1, <1>2, <1>3, <1>4, <1>5

\* A failing accept().
LEMMA AcceptErrorStep ==
  ASSUME IInv, NEW w \in Workers, NEW l \in Listeners, AcceptError(w, l)
  PROVE  IInv'
<1> USE AcceptMutexAssumption DEF IInv, TypeOK, Set, wvars, Running, Listeners
<1>0. /\ faults' \in [DOMAIN Bound -> Nat] /\ faults'["accept"] > 0
      /\ \A g \in DOMAIN Bound : g # "accept" => faults'[g] = faults[g]
  BY CountOne, FaultNames DEF AcceptError
<1>a. /\ ready' \in [Workers -> SUBSET Listeners]
      /\ ready'[w] \subseteq ready[w]
      /\ \A v \in Workers \ {w} : ready'[v] = ready[v]
  <2>1. PICK S \in {{}, {l}} : ready' = [ready EXCEPT ![w] = ready[w] \ S]
    BY DEF AcceptError, Again, Done
  <2> QED BY <2>1
<1>b. backlog' \in [Listeners -> Nat]
  BY SMTT(60) DEF AcceptError, Handling
<1>1. TypeOK'
  BY <1>0, <1>a, <1>b DEF AcceptError
<1>2. (WordMirrors /\ InsideHeld /\ OwnerInside)'
  BY DEF AcceptError, WordMirrors, InsideHeld, OwnerInside, Inside, Unlocked,
     Locked
<1>3. (PendingOnlyInHandlers /\ ExitingLetsGo)'
  BY <1>a DEF AcceptError, Handling, PendingOnlyInHandlers, ExitingLetsGo
<1>4. (DeadWatchesNothing /\ WatchedByHolder)'
  BY <1>0, FaultNames DEF AcceptError, DeadWatchesNothing, WatchedByHolder,
     PendingOnlyInHandlers
<1>5. NotLeftLocked'
  BY <1>0, FaultNames DEF AcceptError, NotLeftLocked, WordMirrors, InsideHeld,
     Inside, Unlocked, Locked
<1> QED BY <1>1, <1>2, <1>3, <1>4, <1>5

\* The handlers are through.
LEMMA HandlersDoneStep ==
  ASSUME IInv, NEW w \in Workers, HandlersDone(w)
  PROVE  IInv'
<1> USE AcceptMutexAssumption DEF IInv, TypeOK, Set, wvars, Running, Listeners
<1>1. TypeOK'
  BY DEF HandlersDone, PcNames, Unlocked, Locked
<1>2. (WordMirrors /\ InsideHeld /\ OwnerInside)'
  BY DEF HandlersDone, WordMirrors, InsideHeld, OwnerInside, Inside, Unlocked,
     Locked
<1>3. (PendingOnlyInHandlers /\ ExitingLetsGo)'
  BY DEF HandlersDone, PendingOnlyInHandlers, ExitingLetsGo
<1>4. (DeadWatchesNothing /\ WatchedByHolder)'
  BY SMTT(60) DEF HandlersDone, DeadWatchesNothing, WatchedByHolder,
     PendingOnlyInHandlers
<1>5. NotLeftLocked'
  BY DEF HandlersDone, NotLeftLocked, WordMirrors, InsideHeld, Inside,
     Unlocked, Locked
<1> QED BY <1>1, <1>2, <1>3, <1>4, <1>5

\* The end of the turn: its flag is set if it took the mutex (InsideHeld), so
\* the mutex is free; if it was somebody else's, that is the stray release.
LEMMA ReleaseStep ==
  ASSUME IInv, NEW w \in Workers, Release(w)
  PROVE  IInv'
<1> USE AcceptMutexAssumption DEF IInv, TypeOK, Set, wvars, Running, Listeners
<1>1. TypeOK'
  BY DEF Release, PcNames, Unlocked, Locked
<1>2. (WordMirrors /\ InsideHeld /\ OwnerInside)'
  BY DEF Release, WordMirrors, InsideHeld, OwnerInside, Inside, Unlocked, Locked
<1>3. (PendingOnlyInHandlers /\ ExitingLetsGo)'
  BY DEF Release, PendingOnlyInHandlers, ExitingLetsGo
<1>4. (DeadWatchesNothing /\ WatchedByHolder)'
  BY SMTT(60) DEF Release, DeadWatchesNothing, WatchedByHolder, PendingOnlyInHandlers
<1>5. NotLeftLocked'
  BY DEF Release, NotLeftLocked, WordMirrors, InsideHeld, Inside, Unlocked,
     Locked
<1> QED BY <1>1, <1>2, <1>3, <1>4, <1>5

\* Timers and posted events only close connections.
LEMMA RestStep ==
  ASSUME IInv, NEW w \in Workers, Rest(w)
  PROVE  IInv'
<1> USE AcceptMutexAssumption DEF IInv, TypeOK, Set, wvars, Running, Listeners
<1>1. TypeOK'
  BY SMTT(60) DEF Rest, PcNames, Unlocked, Locked
<1>2. (WordMirrors /\ InsideHeld /\ OwnerInside)'
  BY DEF Rest, WordMirrors, InsideHeld, OwnerInside, Inside, Unlocked, Locked
<1>3. (PendingOnlyInHandlers /\ ExitingLetsGo)'
  BY DEF Rest, PendingOnlyInHandlers, ExitingLetsGo
<1>4. (DeadWatchesNothing /\ WatchedByHolder)'
  BY SMTT(60) DEF Rest, DeadWatchesNothing, WatchedByHolder, PendingOnlyInHandlers
<1>5. NotLeftLocked'
  BY DEF Rest, NotLeftLocked, WordMirrors, InsideHeld, Inside, Unlocked, Locked
<1> QED BY <1>1, <1>2, <1>3, <1>4, <1>5

\* The loop goes round.
LEMMA LoopStep ==
  ASSUME IInv, NEW w \in Workers, Loop(w)
  PROVE  IInv'
<1> USE AcceptMutexAssumption DEF IInv, TypeOK, Set, wvars, Running, Listeners
<1>1. TypeOK'
  BY DEF Loop, PcNames, Unlocked, Locked
<1>2. (WordMirrors /\ InsideHeld /\ OwnerInside)'
  BY DEF Loop, WordMirrors, InsideHeld, OwnerInside, Inside, Unlocked, Locked
<1>3. (PendingOnlyInHandlers /\ ExitingLetsGo)'
  BY DEF Loop, PendingOnlyInHandlers, ExitingLetsGo
<1>4. (DeadWatchesNothing /\ WatchedByHolder)'
  BY DEF Loop, DeadWatchesNothing, WatchedByHolder, PendingOnlyInHandlers
<1>5. NotLeftLocked'
  BY DEF Loop, NotLeftLocked, WordMirrors, InsideHeld, Inside, Unlocked, Locked
<1> QED BY <1>1, <1>2, <1>3, <1>4, <1>5

\* ngx_close_listening_sockets() between two turns, when no event is pending.
LEMMA QuitWorkerStep ==
  ASSUME IInv, NEW w \in Workers, QuitWorker(w)
  PROVE  IInv'
<1> USE AcceptMutexAssumption DEF IInv, TypeOK, Set, wvars, Running, Listeners
<1>0. /\ faults' \in [DOMAIN Bound -> Nat] /\ faults'["quit"] > 0
      /\ \A g \in DOMAIN Bound : g # "quit" => faults'[g] = faults[g]
  BY CountOne, FaultNames DEF QuitWorker
<1>1. TypeOK'
  BY <1>0, FaultNames DEF QuitWorker, PcNames, Unlocked, Locked
<1>2. (WordMirrors /\ InsideHeld /\ OwnerInside)'
  BY DEF QuitWorker, WordMirrors, InsideHeld, OwnerInside, Inside, Unlocked,
     Locked
<1>3. (PendingOnlyInHandlers /\ ExitingLetsGo)'
  BY DEF QuitWorker, PendingOnlyInHandlers, ExitingLetsGo
<1>4. (DeadWatchesNothing /\ WatchedByHolder)'
  BY <1>0, FaultNames DEF QuitWorker, DeadWatchesNothing, WatchedByHolder,
     PendingOnlyInHandlers
<1>5. NotLeftLocked'
  BY <1>0, FaultNames DEF QuitWorker, NotLeftLocked, WordMirrors, InsideHeld,
     Inside, Unlocked, Locked
<1> QED BY <1>1, <1>2, <1>3, <1>4, <1>5

\* A worker leaves at the top of its loop, where it owns nothing.
LEMMA ExitWorkerStep ==
  ASSUME IInv, NEW w \in Workers, ExitWorker(w)
  PROVE  IInv'
<1> USE AcceptMutexAssumption DEF IInv, TypeOK, Set, wvars, Running, Listeners
<1>1. TypeOK'
  BY DEF ExitWorker, PcNames, Unlocked, Locked
<1>2. (WordMirrors /\ InsideHeld /\ OwnerInside)'
  BY DEF ExitWorker, WordMirrors, InsideHeld, OwnerInside, Inside, Unlocked,
     Locked
<1>3. (PendingOnlyInHandlers /\ ExitingLetsGo)'
  BY DEF ExitWorker, PendingOnlyInHandlers, ExitingLetsGo
<1>4. (DeadWatchesNothing /\ WatchedByHolder)'
  BY DEF ExitWorker, DeadWatchesNothing, WatchedByHolder, PendingOnlyInHandlers
<1>5. NotLeftLocked'
  BY DEF ExitWorker, NotLeftLocked, WordMirrors, InsideHeld, Inside, Unlocked,
     Locked
<1> QED BY <1>1, <1>2, <1>3, <1>4, <1>5

\* A crash is counted; the kernel closes what was watched.
LEMMA CrashStep ==
  ASSUME IInv, NEW w \in Workers, Crash(w)
  PROVE  IInv'
<1> USE AcceptMutexAssumption DEF IInv, TypeOK, Set, wvars, Running, Listeners
<1>0. /\ faults' \in [DOMAIN Bound -> Nat] /\ faults'["crash"] > 0
      /\ \A g \in DOMAIN Bound : g # "crash" => faults'[g] = faults[g]
  BY CountOne, FaultNames DEF Crash
<1>1. TypeOK'
  BY <1>0, FaultNames, SMTT(60) DEF Crash, PcNames, Unlocked, Locked
<1>2. (WordMirrors /\ InsideHeld /\ OwnerInside)'
  BY DEF Crash, WordMirrors, InsideHeld, OwnerInside, Inside, Unlocked, Locked
<1>3. (PendingOnlyInHandlers /\ ExitingLetsGo)'
  BY DEF Crash, PendingOnlyInHandlers, ExitingLetsGo
<1>4. (DeadWatchesNothing /\ WatchedByHolder)'
  BY <1>0, FaultNames DEF Crash, DeadWatchesNothing, WatchedByHolder,
     PendingOnlyInHandlers
<1>5. NotLeftLocked'
  BY <1>0, FaultNames DEF Crash, NotLeftLocked, WordMirrors, InsideHeld,
     Inside, Unlocked, Locked
<1> QED BY <1>1, <1>2, <1>3, <1>4, <1>5

\* The respawned process starts outside; the word is never its pid.
LEMMA ReapStep ==
  ASSUME IInv, NEW w \in Workers, Reap(w)
  PROVE  IInv'
<1> USE AcceptMutexAssumption DEF IInv, TypeOK, Set, wvars, Running, Listeners
<1>1. TypeOK'
  BY DEF Reap, AfterReap, PcNames, Unlocked, Locked
<1>2. (WordMirrors /\ InsideHeld /\ OwnerInside)'
  BY SMTT(60) DEF Reap, AfterReap, WordMirrors, InsideHeld, OwnerInside, Inside,
     Unlocked, Locked
<1>3. (PendingOnlyInHandlers /\ ExitingLetsGo)'
  BY DEF Reap, AfterReap, PendingOnlyInHandlers, ExitingLetsGo
<1>4. (DeadWatchesNothing /\ WatchedByHolder)'
  BY DEF Reap, AfterReap, DeadWatchesNothing, WatchedByHolder,
     PendingOnlyInHandlers
<1>5. NotLeftLocked'
  BY DEF Reap, AfterReap, NotLeftLocked, WordMirrors, InsideHeld, Inside,
     Unlocked, Locked
<1> QED BY <1>1, <1>2, <1>3, <1>4, <1>5

\* A client arrives.
LEMMA ConnectStep ==
  ASSUME IInv, NEW l \in Listeners, Connect(l)
  PROVE  IInv'
<1> USE AcceptMutexAssumption DEF IInv, TypeOK, Set, wvars, Running, Listeners
<1>0. /\ faults' \in [DOMAIN Bound -> Nat] /\ faults'["clients"] > 0
      /\ \A g \in DOMAIN Bound : g # "clients" => faults'[g] = faults[g]
  BY CountOne, FaultNames DEF Connect
<1>1. TypeOK'
  <2>1. backlog[l] + 1 \in Nat /\ backlog' \in [Listeners -> Nat]
    BY DEF Connect
  <2> QED BY <1>0, <2>1 DEF Connect
<1>2. (WordMirrors /\ InsideHeld /\ OwnerInside)'
  BY DEF Connect, WordMirrors, InsideHeld, OwnerInside, Inside, Unlocked, Locked
<1>3. (PendingOnlyInHandlers /\ ExitingLetsGo)'
  BY DEF Connect, PendingOnlyInHandlers, ExitingLetsGo
<1>4. (DeadWatchesNothing /\ WatchedByHolder)'
  BY <1>0, FaultNames DEF Connect, DeadWatchesNothing, WatchedByHolder,
     PendingOnlyInHandlers
<1>5. NotLeftLocked'
  BY <1>0, FaultNames DEF Connect, NotLeftLocked, WordMirrors, InsideHeld,
     Inside, Unlocked, Locked
<1> QED BY <1>1, <1>2, <1>3, <1>4, <1>5

-----------------------------------------------------------------------------
\* The invariant holds when the workers start.
LEMMA InitIInv == Init => IInv
<1> USE AcceptMutexAssumption
<1>1. Init => TypeOK
  <2>1. ASSUME Init PROVE /\ conns \in [Workers -> 0..Slots]
                          /\ faults \in [DOMAIN Bound -> Nat]
                          /\ backlog \in [Listeners -> Nat]
    BY <2>1 DEF Init
  <2>2. ASSUME Init PROVE /\ held \in [Workers -> BOOLEAN] /\ use \in [Workers -> BOOLEAN]
                          /\ post \in [Workers -> BOOLEAN] /\ exiting \in [Workers -> BOOLEAN]
                          /\ pc \in [Workers -> PcNames] /\ disabled \in [Workers -> Int]
    BY <2>2 DEF Init, PcNames
  <2>3. ASSUME Init PROVE /\ active \in [Workers -> SUBSET Listeners]
                          /\ ready \in [Workers -> SUBSET Listeners]
    BY <2>3 DEF Init
  <2> QED BY <2>1, <2>2, <2>3 DEF Init, TypeOK
<1>2. Init => /\ WordMirrors /\ InsideHeld /\ PendingOnlyInHandlers /\ ExitingLetsGo
              /\ DeadWatchesNothing /\ OwnerInside /\ NotLeftLocked
  BY DEF Init, WordMirrors, InsideHeld, PendingOnlyInHandlers, ExitingLetsGo,
         DeadWatchesNothing, OwnerInside, NotLeftLocked, Inside
<1>3. Init => WatchedByHolder
  BY DEF Init, WatchedByHolder, Running
<1> QED BY <1>1, <1>2, <1>3 DEF IInv

\* Every step of the workers, the kernel and the master keeps the invariant.
LEMMA NextIInv == IInv /\ [Next]_vars => IInv'
<1> SUFFICES ASSUME IInv, [Next]_vars PROVE IInv'
  OBVIOUS
<1>1. CASE UNCHANGED vars
  BY <1>1 DEF IInv, vars, wvars, TypeOK, WordMirrors, InsideHeld,
     PendingOnlyInHandlers,
              ExitingLetsGo, DeadWatchesNothing, OwnerInside, NotLeftLocked,
              WatchedByHolder, Inside, Running
<1>2. ASSUME NEW w \in Workers, Turn(w) PROVE IInv'
  BY <1>2, TurnDisabledStep, TurnPlainStep, TurnLockedStep, TurnRefusedStep,
     TurnEnableErrorStep, TurnDisableErrorStep DEF Turn
<1>3. ASSUME NEW w \in Workers, Handlers(w) PROVE IInv'
  BY <1>3, HandlersDoneStep, AcceptStep, AcceptAgainStep, AcceptErrorStep DEF
     Handlers
<1>4. ASSUME NEW w \in Workers, Step(w) PROVE IInv'
  BY <1>2, <1>3, <1>4, PollStep, ReleaseStep, RestStep, LoopStep,
     ExitWorkerStep DEF Step
<1>5. CASE \E w \in Workers : QuitWorker(w) \/ Crash(w) \/ Reap(w)
  BY <1>5, QuitWorkerStep, CrashStep, ReapStep
<1>6. CASE \E l \in Listeners : Connect(l)
  BY <1>6, ConnectStep
<1> QED BY <1>1, <1>4, <1>5, <1>6 DEF Next

\* The invariant holds throughout.
LEMMA SpecIInv == Spec => []IInv
  BY InitIInv, NextIInv, PTL DEF Spec

\* Only one worker accepts at a time, a turn that is over has let go of the
\* mutex, and the listening sockets are watched by its holder alone: for every
\* number of workers, listeners, slots and faults (ngx_process_events_and_timers,
\* ngx_trylock_accept_mutex, ngx_close_listening_sockets).
THEOREM AcceptIsSerialized == Spec => []AcceptSerialized
<1>1. IInv => AcceptSerialized
  <2> SUFFICES ASSUME IInv PROVE AcceptSerialized
    OBVIOUS
  <2>1. AcceptExclusive
    BY AcceptMutexAssumption
    DEF IInv, AcceptExclusive, OwnerInside, WordMirrors, TypeOK
  <2>2. ListenersFollowFlag
    BY DEF IInv, TypeOK, ListenersFollowFlag, ExitingLetsGo,
       PendingOnlyInHandlers, WatchedByHolder
  <2> QED BY <2>1, <2>2 DEF IInv, AcceptSerialized
<1> QED BY SpecIInv, <1>1, PTL

\* The only way the mutex is first released under its owner is a turn that
\* skipped ngx_trylock_accept_mutex over the accept threshold with
\* ngx_accept_mutex_held still set (the unlock at the end of
\* ngx_process_events_and_timers).
THEOREM FirstStrayComesFromDisabled == Spec => FirstStrayIsDisabled
<1> DEFINE Culprit == ~stray /\ stray' =>
       \E d \in Workers : /\ pc[d] = "unlock" /\ pc'[d] = "rest"
                          /\ held[d] /\ ~post[d] /\ owner # d
<1>1. ASSUME IInv, [Next]_vars PROVE Culprit
  <2> SUFFICES ASSUME ~stray, stray' PROVE Culprit
    OBVIOUS
  <2>1. ~UNCHANGED stray
    OBVIOUS
  <2>2. PICK d \in Workers : Release(d)
    BY <1>1, <2>1, ZenonT(60) DEF Next, Step, Turn, Handlers, vars, TurnDisabled,
       TurnPlain, TurnLocked, TurnRefused,
      TurnEnableError, TurnDisableError, Poll, Accept, AcceptAgain, AcceptError, HandlersDone, Rest, Loop,
      QuitWorker, ExitWorker, Crash, Reap, Connect
  <2>3. pc[d] = "unlock" /\ pc'[d] = "rest" /\ held[d] /\ owner # d
    BY <1>1, <2>2, <2>1 DEF Release, Set, IInv, TypeOK
  <2>4. ~post[d]
    BY <1>1, <2>3 DEF IInv, OwnerInside, Inside
  <2> QED BY <2>3, <2>4
<1>2. IInv /\ [Next]_vars => [Culprit]_vars
  BY <1>1
<1> QED BY SpecIInv, <1>2, PTL DEF Spec, FirstStrayIsDisabled

==============================================================================
