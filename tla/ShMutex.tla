------------------------------- MODULE ShMutex -------------------------------
(***************************************************************************)
(* The shared memory mutex of core/ngx_shmtx.c (NGX_HAVE_ATOMIC_OPS).      *)
(*                                                                         *)
(* *mtx->lock is one word: bit 31 says that the mutex is held, the lower   *)
(* bits count the processes that announced they will sleep on mtx->sem.    *)
(* The word is the record [held, waiters]; a process reads it in one step  *)
(* and compares-and-sets it in a later one, so every interleaving of the   *)
(* two is here.                                                            *)
(***************************************************************************)
EXTENDS Naturals, FiniteSets

CONSTANTS
  Procs,          \* the processes that map the shared memory
  NoProc,         \* "no process", for the abstract lock
  SpinTries,      \* attempts of the spin loop; 0 when ngx_ncpu = 1
  Semaphore,      \* mtx->semaphore: sem_init() succeeded
  MaxSemErrors    \* bound: sem_wait() errors other than EINTR in a behaviour

ASSUME ShMutexAssumption ==
  /\ IsFiniteSet(Procs)
  /\ NoProc \notin Procs
  /\ SpinTries \in Nat
  /\ Semaphore \in BOOLEAN
  /\ MaxSemErrors \in Nat

VARIABLES
  word,       \* *mtx->lock
  sem,        \* the value of mtx->sem
  semErrors,  \* sem_wait() calls that returned an error so far
  pc,         \* where each process stands in the mutex code
  val,        \* each process's local copy of the word ("val" or "old")
  spins       \* spin loop attempts left in this turn of ngx_shmtx_lock

vars == <<word, sem, semErrors, pc, val, spins>>

Word == [held : BOOLEAN, waiters : Nat]
Free == [held |-> FALSE, waiters |-> 0]

LockPc  == {"lock_read", "lock_cas", "spin_read", "spin_cas",
            "wait_read", "wait_cas", "sem_wait"}
TryPc   == {"try_read", "try_cas"}
HoldPc  == {"cs", "unlock_read", "unlock_cas"}
PcNames == {"idle", "sem_post"} \cup LockPc \cup TryPc \cup HoldPc

\* ngx_shmtx_create(): the word lies in zeroed shared memory, the semaphore
\* starts at 0.
Init ==
  /\ word = Free
  /\ sem = 0
  /\ semErrors = 0
  /\ pc = [p \in Procs |-> "idle"]
  /\ val = [p \in Procs |-> Free]
  /\ spins = [p \in Procs |-> 0]

Goto(p, from, to) == pc[p] = from /\ pc' = [pc EXCEPT ![p] = to]

\* val = *mtx->lock
Read(p, from, to) ==
  /\ Goto(p, from, to)
  /\ val' = [val EXCEPT ![p] = word]
  /\ UNCHANGED <<word, sem, semErrors, spins>>

\* ((val & 0x80000000) == 0 && ngx_atomic_cmp_set(lock, val, val|0x80000000))
\* Faulty variant: the held bit is not looked at before the cmp_set.
CanTakeBlind(p) == word = val[p]
\* Faulty variant: the word is not compared again when it is set.
CanTakeStale(p) == ~val[p].held
CanTake(p) == ~val[p].held /\ word = val[p]
Take(p, from) ==
  /\ CanTake(p)
  /\ Goto(p, from, "cs")
  /\ word' = [word EXCEPT !.held = TRUE]
  /\ UNCHANGED <<sem, semErrors, val, spins>>

-----------------------------------------------------------------------------
\* ngx_shmtx_trylock()
TryLock(p) ==
  /\ Goto(p, "idle", "try_read")
  /\ UNCHANGED <<word, sem, semErrors, val, spins>>
TryRead(p) == Read(p, "try_read", "try_cas")
TryTake(p) == Take(p, "try_cas")
TryFail(p) ==
  /\ ~CanTake(p)
  /\ Goto(p, "try_cas", "idle")
  /\ UNCHANGED <<word, sem, semErrors, val, spins>>

-----------------------------------------------------------------------------
\* ngx_shmtx_lock(): one attempt, the spin loop, then the semaphore.
Lock(p) ==
  /\ Goto(p, "idle", "lock_read")
  /\ UNCHANGED <<word, sem, semErrors, val, spins>>
LockRead(p) == Read(p, "lock_read", "lock_cas")
LockTake(p) == Take(p, "lock_cas")

\* With the spin loop exhausted: sleep if there is a semaphore, else
\* ngx_sched_yield() and start over.
AfterSpin == IF Semaphore THEN "wait_read" ELSE "lock_read"

LockFail(p) ==
  /\ ~CanTake(p)
  /\ Goto(p, "lock_cas", IF SpinTries > 0 THEN "spin_read" ELSE AfterSpin)
  /\ spins' = [spins EXCEPT ![p] = SpinTries]
  /\ UNCHANGED <<word, sem, semErrors, val>>

SpinRead(p) == Read(p, "spin_read", "spin_cas")
SpinTake(p) == Take(p, "spin_cas")
SpinFail(p) ==
  /\ ~CanTake(p)
  /\ Goto(p, "spin_cas", IF spins[p] > 1 THEN "spin_read" ELSE AfterSpin)
  /\ spins' = [spins EXCEPT ![p] = IF @ > 0 THEN @ - 1 ELSE 0]
  /\ UNCHANGED <<word, sem, semErrors, val>>

WaitRead(p) == Read(p, "wait_read", "wait_cas")

\* if ((val & 0x80000000) && ngx_atomic_cmp_set(lock, val, val + 1)) sem_wait()
\* Faulty variant: a waiter announces itself without looking at the held bit.
CanAnnounceFree(p) == word = val[p]
CanAnnounce(p) == val[p].held /\ word = val[p]
Announce(p) ==
  /\ CanAnnounce(p)
  /\ Goto(p, "wait_cas", "sem_wait")
  /\ word' = [word EXCEPT !.waiters = @ + 1]
  /\ UNCHANGED <<sem, semErrors, val, spins>>
AnnounceFail(p) ==
  /\ ~CanAnnounce(p)
  /\ Goto(p, "wait_cas", "lock_read")
  /\ UNCHANGED <<word, sem, semErrors, val, spins>>

\* EINTR restarts sem_wait() and changes nothing; another error is logged and
\* treated as a wakeup.
SemWake(p) ==
  /\ sem > 0
  /\ Goto(p, "sem_wait", "lock_read")
  /\ sem' = sem - 1
  /\ UNCHANGED <<word, semErrors, val, spins>>
SemError(p) ==
  /\ semErrors < MaxSemErrors
  /\ Goto(p, "sem_wait", "lock_read")
  /\ semErrors' = semErrors + 1
  /\ UNCHANGED <<word, sem, val, spins>>

-----------------------------------------------------------------------------
\* ngx_shmtx_unlock()
Unlock(p) ==
  /\ Goto(p, "cs", "unlock_read")
  /\ UNCHANGED <<word, sem, semErrors, val, spins>>
UnlockRead(p) == Read(p, "unlock_read", "unlock_cas")

\* wait = old & 0x7fffffff;  val = wait ? wait - 1 : 0
Released(old) ==
  [held |-> FALSE, waiters |-> IF old.waiters > 0 THEN old.waiters - 1 ELSE 0]
\* Faulty variant: the wakeup is skipped although waiters were announced.
UnlockCasNoPost(p) ==
  /\ word = val[p]
  /\ Goto(p, "unlock_cas", "idle")
  /\ word' = Released(val[p])
  /\ UNCHANGED <<sem, semErrors, val, spins>>
UnlockCas(p) ==
  /\ word = val[p]
  /\ Goto(p, "unlock_cas",
          IF val[p].waiters > 0 /\ Semaphore THEN "sem_post" ELSE "idle")
  /\ word' = Released(val[p])
  /\ UNCHANGED <<sem, semErrors, val, spins>>
UnlockRetry(p) ==
  /\ word # val[p]
  /\ Goto(p, "unlock_cas", "unlock_read")
  /\ UNCHANGED <<word, sem, semErrors, val, spins>>
SemPost(p) ==
  /\ Goto(p, "sem_post", "idle")
  /\ sem' = sem + 1
  /\ UNCHANGED <<word, semErrors, val, spins>>

-----------------------------------------------------------------------------
TryStep(p)    == TryRead(p) \/ TryTake(p) \/ TryFail(p)
LockStep(p)   == \/ LockRead(p) \/ LockTake(p) \/ LockFail(p)
                 \/ SpinRead(p) \/ SpinTake(p) \/ SpinFail(p)
                 \/ WaitRead(p) \/ Announce(p) \/ AnnounceFail(p)
UnlockStep(p) == UnlockRead(p) \/ UnlockCas(p) \/ UnlockRetry(p) \/ SemPost(p)

Next ==
  \E p \in Procs :
    \/ Lock(p) \/ TryLock(p) \/ Unlock(p)
    \/ TryStep(p) \/ LockStep(p) \/ UnlockStep(p)
    \/ SemWake(p) \/ SemError(p)

\* A process that is inside the mutex code is scheduled, a critical section
\* is finite, and sem_wait() returns while the semaphore stays positive.
\* Nobody is obliged to ask for the mutex.
Fairness ==
  \A p \in Procs :
    /\ WF_vars(TryStep(p) \/ LockStep(p) \/ UnlockStep(p))
    /\ WF_vars(Unlock(p))
    /\ WF_vars(SemWake(p))

Spec == Init /\ [][Next]_vars
FairSpec == Spec /\ Fairness

-----------------------------------------------------------------------------
Sleepers == {p \in Procs : pc[p] = "sem_wait"}
Posters  == {p \in Procs : pc[p] = "sem_post"}

\* The word, the semaphore and the local copies of ngx_shmtx.c have their types.
TypeOK ==
  /\ word \in Word
  /\ sem \in Nat
  /\ semErrors \in Nat
  /\ pc \in [Procs -> PcNames]
  /\ val \in [Procs -> Word]
  /\ spins \in [Procs -> Nat]

\* A process between a successful cmp_set of ngx_shmtx_lock or _trylock and
\* the cmp_set of ngx_shmtx_unlock is alone there, although the word is read
\* and set in different steps.
MutualExclusion ==
  \A p, q \in Procs : pc[p] \in HoldPc /\ pc[q] \in HoldPc => p = q

\* Every announced sleeper is matched by exactly one wakeup that is still to
\* be decided (a waiter in the word), to be posted (ngx_shmtx_unlock before
\* sem_post) or to be consumed (the semaphore); a failed sem_wait leaves its
\* announcement behind.
WakeupsBalance ==
  Cardinality(Sleepers) + semErrors
    = word.waiters + sem + Cardinality(Posters)

\* No lost wakeup: while processes sleep and the mutex is free, somebody who
\* will take it or wake them is awake, or the semaphore is positive.
NoLostWakeup ==
  (Sleepers # {} /\ ~word.held) =>
    \/ sem > 0
    \/ \E p \in Procs : pc[p] \in {"sem_post"} \cup (LockPc \ {"sem_wait"})

\* ngx_shmtx_lock callers never all hang: whenever one is inside, some
\* process eventually owns the mutex.
LockProgress ==
  (\E p \in Procs : pc[p] \in LockPc) ~> (\E p \in Procs : pc[p] = "cs")

\* ngx_shmtx_t implements the abstract lock: its owner is the process between
\* the two cmp_sets, and a call is pending until it gets there or gives up.
Owner ==
  IF \E p \in Procs : pc[p] \in HoldPc
  THEN CHOOSE p \in Procs : pc[p] \in HoldPc
  ELSE NoProc
Pending == {p \in Procs : pc[p] \in LockPc \cup TryPc}

Abstract == INSTANCE Mutex WITH owner <- Owner, pending <- Pending

\* Every step of the detailed mutex is a step of the abstract lock or leaves
\* it unchanged.
ImplementsMutex == Abstract!Spec
==============================================================================
