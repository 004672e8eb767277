---------------------------- MODULE ShMutexProofs ----------------------------
(***************************************************************************)
(* Proofs about ngx_shmtx_t for any finite set of processes, any number of *)
(* spin attempts, with or without a semaphore, and any number of failing   *)
(* sem_wait calls.                                                         *)
(***************************************************************************)
EXTENDS ShMutex, FiniteSetTheorems, TLAPS

(***************************************************************************)
(* The inductive invariant.  Mutual exclusion alone is not inductive: the  *)
(* held bit must mirror the holders (HeldMirrors).  The no-lost-wakeup     *)
(* claim needs the exact account of wakeups (WakeupsBalance) and, for a    *)
(* free mutex with announced waiters, a witness that is awake.             *)
(***************************************************************************)
AwakePc == {"sem_post"} \cup (LockPc \ {"sem_wait"})

HeldMirrors == word.held <=> \E p \in Procs : pc[p] \in HoldPc

SleepOnlyWithSemaphore ==
  ~Semaphore => /\ semErrors = 0
                /\ \A p \in Procs :
                     pc[p] \notin {"wait_read", "wait_cas", "sem_wait"}

AwakeWitness ==
  (~word.held /\ word.waiters > 0) =>
    sem > 0 \/ \E p \in Procs : pc[p] \in AwakePc

IInv ==
  /\ TypeOK
  /\ MutualExclusion
  /\ HeldMirrors
  /\ SleepOnlyWithSemaphore
  /\ WakeupsBalance
  /\ AwakeWitness

-----------------------------------------------------------------------------
\* One process moves from one control point to another: the number of
\* processes asleep in sem_wait() changes by one exactly when the move enters
\* or leaves it.
LEMMA SleepersMove ==
  ASSUME TypeOK, NEW p \in Procs, NEW from, NEW to, Goto(p, from, to), from # to
  PROVE  /\ Cardinality(Sleepers) \in Nat
         /\ Cardinality(Sleepers') =
              IF to = "sem_wait" THEN Cardinality(Sleepers) + 1
              ELSE IF from = "sem_wait" THEN Cardinality(Sleepers) - 1
              ELSE Cardinality(Sleepers)
<1>1. pc \in [Procs -> PcNames] /\ pc[p] = from /\ pc' = [pc EXCEPT ![p] = to]
  BY DEF TypeOK, Goto
<1>2. IsFiniteSet(Sleepers) /\ Cardinality(Sleepers) \in Nat
  BY ShMutexAssumption, FS_Subset, FS_CardinalityType DEF Sleepers
<1>3. CASE to = "sem_wait"
  <2>1. Sleepers' = Sleepers \cup {p} /\ p \notin Sleepers
    BY <1>1, <1>3 DEF Sleepers
  <2> QED BY <2>1, <1>2, <1>3, FS_AddElement
<1>4. CASE to # "sem_wait" /\ from = "sem_wait"
  <2>1. Sleepers' = Sleepers \ {p} /\ p \in Sleepers
    BY <1>1, <1>4 DEF Sleepers
  <2> QED BY <2>1, <1>2, <1>4, FS_RemoveElement
<1>5. CASE to # "sem_wait" /\ from # "sem_wait"
  <2>1. Sleepers' = Sleepers
    BY <1>1, <1>5 DEF Sleepers
  <2> QED BY <2>1, <1>2, <1>5
<1> QED BY <1>3, <1>4, <1>5

\* The same for the processes about to call sem_post().
LEMMA PostersMove ==
  ASSUME TypeOK, NEW p \in Procs, NEW from, NEW to, Goto(p, from, to), from # to
  PROVE  /\ Cardinality(Posters) \in Nat
         /\ Cardinality(Posters') =
              IF to = "sem_post" THEN Cardinality(Posters) + 1
              ELSE IF from = "sem_post" THEN Cardinality(Posters) - 1
              ELSE Cardinality(Posters)
<1>1. pc \in [Procs -> PcNames] /\ pc[p] = from /\ pc' = [pc EXCEPT ![p] = to]
  BY DEF TypeOK, Goto
<1>2. IsFiniteSet(Posters) /\ Cardinality(Posters) \in Nat
  BY ShMutexAssumption, FS_Subset, FS_CardinalityType DEF Posters
<1>3. CASE to = "sem_post"
  <2>1. Posters' = Posters \cup {p} /\ p \notin Posters
    BY <1>1, <1>3 DEF Posters
  <2> QED BY <2>1, <1>2, <1>3, FS_AddElement
<1>4. CASE to # "sem_post" /\ from = "sem_post"
  <2>1. Posters' = Posters \ {p} /\ p \in Posters
    BY <1>1, <1>4 DEF Posters
  <2> QED BY <2>1, <1>2, <1>4, FS_RemoveElement
<1>5. CASE to # "sem_post" /\ from # "sem_post"
  <2>1. Posters' = Posters
    BY <1>1, <1>5 DEF Posters
  <2> QED BY <2>1, <1>2, <1>5
<1> QED BY <1>3, <1>4, <1>5

\* Every action is a move of one process between two different points.
LEMMA TypeStep ==
  ASSUME TypeOK, NEW p \in Procs,
         \/ Lock(p) \/ TryLock(p) \/ Unlock(p)
         \/ TryStep(p) \/ LockStep(p) \/ UnlockStep(p)
         \/ SemWake(p) \/ SemError(p)
  PROVE  TypeOK'
<1> USE ShMutexAssumption
        DEF TypeOK, Goto, Word, PcNames, LockPc, TryPc, HoldPc
<1>1. CASE Lock(p)
  BY <1>1 DEF Lock
<1>2. CASE TryLock(p)
  BY <1>2 DEF TryLock
<1>3. CASE Unlock(p)
  BY <1>3 DEF Unlock
<1>4. CASE TryRead(p)
  BY <1>4 DEF TryRead, Read
<1>5. CASE TryTake(p)
  BY <1>5 DEF TryTake, Take
<1>6. CASE TryFail(p)
  BY <1>6 DEF TryFail
<1>7. CASE LockRead(p)
  BY <1>7 DEF LockRead, Read
<1>8. CASE LockTake(p)
  BY <1>8 DEF LockTake, Take
<1>9. CASE LockFail(p)
  BY <1>9 DEF LockFail, AfterSpin
<1>10. CASE SpinRead(p)
  BY <1>10 DEF SpinRead, Read
<1>11. CASE SpinTake(p)
  BY <1>11 DEF SpinTake, Take
<1>12. CASE SpinFail(p)
  BY <1>12 DEF SpinFail, AfterSpin
<1>13. CASE WaitRead(p)
  BY <1>13 DEF WaitRead, Read
<1>14. CASE Announce(p)
  BY <1>14 DEF Announce
<1>15. CASE AnnounceFail(p)
  BY <1>15 DEF AnnounceFail
<1>16. CASE UnlockRead(p)
  BY <1>16 DEF UnlockRead, Read
<1>17. CASE UnlockCas(p)
  BY <1>17 DEF UnlockCas, Released
<1>18. CASE UnlockRetry(p)
  BY <1>18 DEF UnlockRetry
<1>19. CASE SemPost(p)
  BY <1>19 DEF SemPost
<1>20. CASE SemWake(p)
  BY <1>20 DEF SemWake
<1>21. CASE SemError(p)
  BY <1>21 DEF SemError
<1> QED BY <1>1, <1>2, <1>3, <1>4, <1>5, <1>6, <1>7, <1>8, <1>9, <1>10, <1>11, <1>12, <1>13, <1>14, <1>15, <1>16, <1>17, <1>18, <1>19, <1>20, <1>21
  DEF TryStep, LockStep, UnlockStep

\* A move that touches neither the word nor the semaphore, keeps a holder a
\* holder and an awake process awake, preserves every part of the invariant.
LEMMA QuietMove ==
  ASSUME IInv, TypeOK', NEW p \in Procs, NEW from, NEW to,
         Goto(p, from, to), from # to, UNCHANGED <<word, sem, semErrors>>,
         {from, to} \cap {"sem_wait", "sem_post"} = {},
         from \in HoldPc <=> to \in HoldPc,
         from \in AwakePc => to \in AwakePc,
         Semaphore \/ to \notin {"wait_read", "wait_cas"}
  PROVE  IInv'
<1>1. pc \in [Procs -> PcNames] /\ pc[p] = from /\ pc' = [pc EXCEPT ![p] = to]
  BY DEF IInv, TypeOK, Goto
<1>2. MutualExclusion' /\ HeldMirrors'
  BY <1>1 DEF IInv, MutualExclusion, HeldMirrors
<1>3. SleepOnlyWithSemaphore'
  BY <1>1 DEF IInv, SleepOnlyWithSemaphore
<1>4. WakeupsBalance'
  BY SleepersMove, PostersMove DEF IInv, WakeupsBalance
<1>5. AwakeWitness'
  BY <1>1 DEF IInv, AwakeWitness
<1> QED BY <1>2, <1>3, <1>4, <1>5 DEF IInv

\* A successful cmp_set of the held bit: nobody held the mutex, and the waiter
\* count is the one that was read.
LEMMA TakeMove ==
  ASSUME IInv, TypeOK', NEW p \in Procs, NEW from \in LockPc \cup TryPc,
         from # "sem_wait", Take(p, from)
  PROVE  IInv'
<1>1. /\ pc \in [Procs -> PcNames] /\ pc[p] = from
      /\ pc' = [pc EXCEPT ![p] = "cs"]
      /\ ~word.held /\ word \in Word
      /\ word' = [word EXCEPT !.held = TRUE]
      /\ UNCHANGED <<sem, semErrors>>
  BY DEF IInv, TypeOK, Take, CanTake, Goto
<1>2. word'.held /\ word'.waiters = word.waiters
  BY <1>1 DEF Word
<1>3. from \notin HoldPc /\ "cs" \in HoldPc /\ from # "cs" /\ from # "sem_post"
  BY DEF LockPc, TryPc, HoldPc
<1>4. MutualExclusion' /\ HeldMirrors'
  BY <1>1, <1>2, <1>3 DEF IInv, MutualExclusion, HeldMirrors
<1>5. SleepOnlyWithSemaphore'
  BY <1>1 DEF IInv, SleepOnlyWithSemaphore
<1>6. Goto(p, from, "cs")
  BY DEF Take
<1>7. WakeupsBalance'
  BY <1>1, <1>2, <1>3, <1>6, SleepersMove, PostersMove DEF IInv, WakeupsBalance
<1>8. AwakeWitness'
  BY <1>2 DEF AwakeWitness
<1> QED BY <1>4, <1>5, <1>7, <1>8 DEF IInv

\* ngx_shmtx_lock() announces a sleeper: only while the mutex is held.
LEMMA AnnounceMove ==
  ASSUME IInv, TypeOK', NEW p \in Procs, Announce(p)
  PROVE  IInv'
<1>1. /\ pc \in [Procs -> PcNames] /\ pc[p] = "wait_cas"
      /\ pc' = [pc EXCEPT ![p] = "sem_wait"]
      /\ word.held /\ word \in Word
      /\ word' = [word EXCEPT !.waiters = @ + 1]
      /\ UNCHANGED <<sem, semErrors>> /\ sem \in Nat /\ semErrors \in Nat
  BY DEF IInv, TypeOK, Announce, CanAnnounce, Goto
<1>2. word'.held /\ word'.waiters = word.waiters + 1 /\ word.waiters \in Nat
  BY <1>1 DEF Word
<1>3. MutualExclusion' /\ HeldMirrors'
  BY <1>1, <1>2 DEF IInv, MutualExclusion, HeldMirrors, HoldPc
<1>4. SleepOnlyWithSemaphore'
  BY <1>1 DEF IInv, SleepOnlyWithSemaphore
<1>5. Goto(p, "wait_cas", "sem_wait")
  BY DEF Announce
<1>6. /\ Cardinality(Sleepers) \in Nat /\ Cardinality(Posters) \in Nat
      /\ Cardinality(Sleepers') = Cardinality(Sleepers) + 1
      /\ Cardinality(Posters') = Cardinality(Posters)
  BY <1>5, SleepersMove, PostersMove DEF IInv
<1>7. WakeupsBalance'
  BY <1>1, <1>2, <1>6 DEF IInv, WakeupsBalance
<1>8. AwakeWitness'
  BY <1>2 DEF AwakeWitness
<1> QED BY <1>3, <1>4, <1>7, <1>8 DEF IInv

\* A sleeper leaves sem_wait(), woken or on an error, and is awake.
LEMMA WakeMove ==
  ASSUME IInv, TypeOK', NEW p \in Procs, SemWake(p) \/ SemError(p)
  PROVE  IInv'
<1>1. /\ pc \in [Procs -> PcNames] /\ pc[p] = "sem_wait"
      /\ pc' = [pc EXCEPT ![p] = "lock_read"]
      /\ UNCHANGED word /\ word \in Word /\ sem \in Nat /\ semErrors \in Nat
      /\ \/ sem > 0 /\ sem' = sem - 1 /\ semErrors' = semErrors
         \/ sem' = sem /\ semErrors' = semErrors + 1
  BY DEF IInv, TypeOK, SemWake, SemError, Goto
<1>2. MutualExclusion' /\ HeldMirrors'
  BY <1>1 DEF IInv, MutualExclusion, HeldMirrors, HoldPc
<1>3. SleepOnlyWithSemaphore'
  BY <1>1 DEF IInv, SleepOnlyWithSemaphore
<1>4. Goto(p, "sem_wait", "lock_read")
  BY DEF SemWake, SemError
<1>5. /\ Cardinality(Sleepers) \in Nat /\ Cardinality(Posters) \in Nat
      /\ Cardinality(Sleepers') = Cardinality(Sleepers) - 1
      /\ Cardinality(Posters') = Cardinality(Posters)
  BY <1>4, SleepersMove, PostersMove DEF IInv
<1>6. WakeupsBalance'
  BY <1>1, <1>5 DEF IInv, WakeupsBalance, Word
<1>7. AwakeWitness'
  BY <1>1 DEF AwakeWitness, AwakePc, LockPc
<1> QED BY <1>2, <1>3, <1>6, <1>7 DEF IInv

\* ngx_shmtx_unlock() clears the held bit; with an announced waiter the
\* process goes on to sem_post() and is itself the awake witness.
LEMMA UnlockMove ==
  ASSUME IInv, TypeOK', NEW p \in Procs, UnlockCas(p)
  PROVE  IInv'
<1> DEFINE to == IF val[p].waiters > 0 /\ Semaphore THEN "sem_post" ELSE "idle"
<1>1. /\ pc \in [Procs -> PcNames] /\ pc[p] = "unlock_cas"
      /\ pc' = [pc EXCEPT ![p] = to]
      /\ word = val[p] /\ word' = Released(word)
      /\ word \in Word
      /\ UNCHANGED <<sem, semErrors>> /\ sem \in Nat /\ semErrors \in Nat
  BY DEF IInv, TypeOK, UnlockCas, Goto
<1>2. /\ ~word'.held /\ word.waiters \in Nat
      /\ word.waiters > 0 => word'.waiters = word.waiters - 1
      /\ word.waiters = 0 => word'.waiters = 0
  BY <1>1 DEF Word, Released
<1>3. MutualExclusion' /\ HeldMirrors'
  BY <1>1, <1>2 DEF IInv, MutualExclusion, HeldMirrors, HoldPc
<1>4. SleepOnlyWithSemaphore'
  BY <1>1 DEF IInv, SleepOnlyWithSemaphore
<1>5. Goto(p, "unlock_cas", to)
  BY DEF UnlockCas
<1>6. /\ Cardinality(Sleepers) \in Nat /\ Cardinality(Posters) \in Nat
      /\ Cardinality(Sleepers') = Cardinality(Sleepers)
      /\ Cardinality(Posters') =
           IF to = "sem_post" THEN Cardinality(Posters) + 1
           ELSE Cardinality(Posters)
  BY <1>5, SleepersMove, PostersMove DEF IInv
<1>7. ~Semaphore => word.waiters = 0
  <2>1. HAVE ~Semaphore
  <2>2. semErrors = 0 /\ Sleepers = {}
    BY <2>1 DEF IInv, SleepOnlyWithSemaphore, Sleepers
  <2>3. Cardinality(Sleepers) = 0
    BY <2>2, FS_EmptySet
  <2> QED BY <2>2, <2>3, <1>1, <1>2, <1>6 DEF IInv, WakeupsBalance
<1>8. WakeupsBalance'
  <2>1. CASE word.waiters > 0
    <3>1. to = "sem_post"
      BY <2>1, <1>1, <1>7, <1>2, ShMutexAssumption
    <3> QED BY <3>1, <2>1, <1>1, <1>2, <1>6 DEF IInv, WakeupsBalance
  <2>2. CASE word.waiters = 0
    <3>1. to = "idle"
      BY <2>2, <1>1
    <3> QED BY <3>1, <2>2, <1>1, <1>2, <1>6 DEF IInv, WakeupsBalance
  <2> QED BY <2>1, <2>2, <1>2
<1>9. AwakeWitness'
  <2>1. CASE word.waiters > 0
    <3>1. to = "sem_post"
      BY <2>1, <1>1, <1>7, <1>2, ShMutexAssumption
    <3> QED BY <3>1, <1>1 DEF AwakeWitness, AwakePc
  <2>2. CASE word.waiters = 0
    BY <2>2, <1>2 DEF AwakeWitness
  <2> QED BY <2>1, <2>2, <1>2
<1> QED BY <1>3, <1>4, <1>8, <1>9 DEF IInv

\* sem_post(): the semaphore becomes the witness.
LEMMA PostMove ==
  ASSUME IInv, TypeOK', NEW p \in Procs, SemPost(p)
  PROVE  IInv'
<1>1. /\ pc \in [Procs -> PcNames] /\ pc[p] = "sem_post"
      /\ pc' = [pc EXCEPT ![p] = "idle"]
      /\ sem \in Nat /\ sem' = sem + 1 /\ semErrors \in Nat
      /\ word \in Word /\ UNCHANGED <<word, semErrors>>
  BY DEF IInv, TypeOK, SemPost, Goto
<1>2. MutualExclusion' /\ HeldMirrors'
  BY <1>1 DEF IInv, MutualExclusion, HeldMirrors, HoldPc
<1>3. SleepOnlyWithSemaphore'
  BY <1>1 DEF IInv, SleepOnlyWithSemaphore
<1>4. Goto(p, "sem_post", "idle")
  BY DEF SemPost
<1>5. /\ Cardinality(Sleepers) \in Nat /\ Cardinality(Posters) \in Nat
      /\ Cardinality(Sleepers') = Cardinality(Sleepers)
      /\ Cardinality(Posters') = Cardinality(Posters) - 1
  BY <1>4, SleepersMove, PostersMove DEF IInv
<1>6. WakeupsBalance'
  BY <1>1, <1>5 DEF IInv, WakeupsBalance, Word
<1>7. AwakeWitness'
  BY <1>1 DEF AwakeWitness
<1> QED BY <1>2, <1>3, <1>6, <1>7 DEF IInv

-----------------------------------------------------------------------------
\* A freshly created mutex, free and without waiters, satisfies the invariant.
LEMMA InitIInv == Init => IInv
<1> SUFFICES ASSUME Init PROVE IInv
  OBVIOUS
<1>1. TypeOK
  BY DEF Init, TypeOK, Word, Free, PcNames
<1>2. MutualExclusion /\ HeldMirrors /\ SleepOnlyWithSemaphore /\ AwakeWitness
  BY DEF Init, Free, MutualExclusion, HeldMirrors, SleepOnlyWithSemaphore,
         AwakeWitness, HoldPc
<1>3. Sleepers = {} /\ Posters = {}
  BY DEF Init, Sleepers, Posters
<1>4. WakeupsBalance
  BY <1>3, FS_EmptySet DEF Init, Free, WakeupsBalance
<1> QED BY <1>1, <1>2, <1>4 DEF IInv

\* Every step of ngx_shmtx_trylock, ngx_shmtx_lock and ngx_shmtx_unlock preserves
\* the invariant: each is one of the moves above.
LEMMA NextIInv == IInv /\ [Next]_vars => IInv'
<1> SUFFICES ASSUME IInv, [Next]_vars PROVE IInv'
  OBVIOUS
<1>1. CASE UNCHANGED vars
  BY <1>1 DEF vars, IInv, TypeOK, MutualExclusion, HeldMirrors, AwakeWitness,
              SleepOnlyWithSemaphore, WakeupsBalance, Sleepers, Posters
<1>2. CASE Next
  <2>1. PICK p \in Procs :
          \/ Lock(p) \/ TryLock(p) \/ Unlock(p)
          \/ TryStep(p) \/ LockStep(p) \/ UnlockStep(p)
          \/ SemWake(p) \/ SemError(p)
    BY <1>2 DEF Next
  <2>2. TypeOK'
    BY <2>1, TypeStep DEF IInv
  <2> USE <2>2 DEF AwakePc, LockPc, TryPc, HoldPc
  <2>3. CASE Lock(p)
    BY <2>3, QuietMove DEF Lock
  <2>4. CASE TryLock(p)
    BY <2>4, QuietMove DEF TryLock
  <2>5. CASE Unlock(p)
    BY <2>5, QuietMove DEF Unlock
  <2>6. CASE TryRead(p) \/ TryFail(p)
    BY <2>6, QuietMove DEF TryRead, TryFail, Read
  <2>7. CASE LockRead(p) \/ SpinRead(p) \/ UnlockRead(p)
    BY <2>7, QuietMove DEF LockRead, SpinRead, UnlockRead, Read
  <2>8. CASE LockFail(p)
    BY <2>8, QuietMove, ShMutexAssumption DEF LockFail, AfterSpin
  <2>9. CASE SpinFail(p)
    BY <2>9, QuietMove, ShMutexAssumption DEF SpinFail, AfterSpin
  <2>10. CASE WaitRead(p)
    <3>1. Semaphore
      BY <2>10 DEF IInv, SleepOnlyWithSemaphore, WaitRead, Read, Goto
    <3> QED BY <2>10, <3>1, QuietMove DEF WaitRead, Read
  <2>11. CASE AnnounceFail(p) \/ UnlockRetry(p)
    BY <2>11, QuietMove DEF AnnounceFail, UnlockRetry
  <2>12. CASE TryTake(p) \/ LockTake(p) \/ SpinTake(p)
    BY <2>12, TakeMove DEF TryTake, LockTake, SpinTake
  <2>13. CASE Announce(p)
    BY <2>13, AnnounceMove
  <2>14. CASE SemWake(p) \/ SemError(p)
    BY <2>14, WakeMove
  <2>15. CASE UnlockCas(p)
    BY <2>15, UnlockMove
  <2>16. CASE SemPost(p)
    BY <2>16, PostMove
  <2> QED BY <2>1, <2>3, <2>4, <2>5, <2>6, <2>7, <2>8, <2>9, <2>10, <2>11,
             <2>12, <2>13, <2>14, <2>15, <2>16
          DEF TryStep, LockStep, UnlockStep
<1> QED BY <1>1, <1>2

\* The inductive invariant holds in every reachable state of the mutex.
THEOREM Invariance == Spec => []IInv
BY InitIInv, NextIInv, PTL DEF Spec

\* The word, the semaphore and the local copies keep their types.
THEOREM TypeCorrect == Spec => []TypeOK
<1>1. IInv => TypeOK
  BY DEF IInv
<1> QED BY <1>1, Invariance, PTL

\* Two processes are never both between a successful lock or trylock and the
\* cmp_set of ngx_shmtx_unlock.
THEOREM Exclusion == Spec => []MutualExclusion
<1>1. IInv => MutualExclusion
  BY DEF IInv
<1> QED BY <1>1, Invariance, PTL

\* Announcements and wakeups balance in every reachable state.
THEOREM Balance == Spec => []WakeupsBalance
<1>1. IInv => WakeupsBalance
  BY DEF IInv
<1> QED BY <1>1, Invariance, PTL

\* Processes asleep on a free mutex are never forgotten: the semaphore is
\* positive or somebody awake will take the mutex or post.
THEOREM LostWakeupFree == Spec => []NoLostWakeup
<1>1. IInv => NoLostWakeup
  <2> SUFFICES ASSUME IInv, Sleepers # {}, ~word.held
               PROVE  sem > 0 \/ \E p \in Procs : pc[p] \in AwakePc
    BY DEF NoLostWakeup, AwakePc
  <2>1. word.waiters \in Nat /\ sem \in Nat /\ semErrors \in Nat
    BY DEF IInv, TypeOK, Word
  <2>2. CASE word.waiters > 0
    BY <2>2 DEF IInv, AwakeWitness
  <2>3. CASE word.waiters = 0 /\ sem = 0
    <3>1. IsFiniteSet(Sleepers) /\ IsFiniteSet(Posters)
      BY ShMutexAssumption, FS_Subset DEF Sleepers, Posters
    <3>2. Cardinality(Sleepers) \in Nat /\ Cardinality(Sleepers) # 0
      BY <3>1, FS_CardinalityType, FS_EmptySet
    <3>3. Cardinality(Posters) \in Nat /\ Cardinality(Posters) # 0
      BY <3>1, <3>2, <2>1, <2>3, FS_CardinalityType DEF IInv, WakeupsBalance
    <3>4. Posters # {}
      BY <3>3, FS_EmptySet
    <3> QED BY <3>4 DEF Posters, AwakePc
  <2> QED BY <2>1, <2>2, <2>3
<1> QED BY <1>1, Invariance, PTL

-----------------------------------------------------------------------------
\* With at most one holder the abstract owner is that holder.
LEMMA OwnerIs ==
  ASSUME MutualExclusion, NEW p \in Procs, pc[p] \in HoldPc
  PROVE  Owner = p
BY DEF MutualExclusion, Owner

\* The same after a step.
LEMMA OwnerIsPrimed ==
  ASSUME MutualExclusion', NEW p \in Procs, pc'[p] \in HoldPc
  PROVE  Owner' = p
BY DEF MutualExclusion, Owner

\* A move between two points outside the lock that changes neither the
\* holders nor the pending calls is invisible to the abstract lock.
LEMMA InvisibleMove ==
  ASSUME IInv, IInv', NEW p \in Procs, NEW from, NEW to, Goto(p, from, to),
         from \in HoldPc <=> to \in HoldPc,
         from \in LockPc \cup TryPc <=> to \in LockPc \cup TryPc
  PROVE  UNCHANGED <<Owner, Pending>>
<1>1. pc \in [Procs -> PcNames] /\ pc[p] = from /\ pc' = [pc EXCEPT ![p] = to]
  BY DEF IInv, TypeOK, Goto
<1>2. \A q \in Procs : pc'[q] \in HoldPc <=> pc[q] \in HoldPc
  BY <1>1
<1>3. Owner' = Owner
  <2>1. CASE \E q \in Procs : pc[q] \in HoldPc
    <3>1. PICK q \in Procs : pc[q] \in HoldPc
      BY <2>1
    <3>2. Owner = q
      BY <3>1, OwnerIs DEF IInv
    <3>3. Owner' = q
      BY <3>1, <1>2, OwnerIsPrimed DEF IInv
    <3> QED BY <3>2, <3>3
  <2>2. CASE ~ \E q \in Procs : pc[q] \in HoldPc
    BY <2>2, <1>2 DEF Owner
  <2> QED BY <2>1, <2>2
<1>4. Pending' = Pending
  BY <1>1 DEF Pending
<1> QED BY <1>3, <1>4

\* Every step of the mutex is a step of the abstract lock, or changes neither
\* its owner nor its callers.
LEMMA StepSimulation ==
  IInv /\ IInv' /\ [Next]_vars => [Abstract!Next]_(Abstract!mvars)
<1> SUFFICES ASSUME IInv, IInv', [Next]_vars
             PROVE  Abstract!Next \/ UNCHANGED <<Owner, Pending>>
  BY DEF Abstract!mvars
<1>1. CASE UNCHANGED vars
  BY <1>1 DEF vars, Owner, Pending
<1>2. CASE Next
  <2>1. PICK p \in Procs :
          \/ Lock(p) \/ TryLock(p) \/ Unlock(p)
          \/ TryStep(p) \/ LockStep(p) \/ UnlockStep(p)
          \/ SemWake(p) \/ SemError(p)
    BY <1>2 DEF Next
  <2>2. pc \in [Procs -> PcNames]
    BY DEF IInv, TypeOK
  <2>3. CASE Lock(p) \/ TryLock(p)
    <3>1. PICK to \in LockPc \cup TryPc : Goto(p, "idle", to)
      BY <2>3 DEF Lock, TryLock, LockPc, TryPc
    <3>2. pc[p] = "idle" /\ pc' = [pc EXCEPT ![p] = to]
      BY <3>1 DEF Goto
    <3>3. to \notin HoldPc /\ "idle" \notin HoldPc \cup LockPc \cup TryPc
      BY DEF LockPc, TryPc, HoldPc
    <3>4. \A q \in Procs : pc'[q] \in HoldPc <=> pc[q] \in HoldPc
      BY <2>2, <3>2, <3>3
    <3>5. Owner' = Owner
      <4>1. CASE \E q \in Procs : pc[q] \in HoldPc
        <5>1. PICK q \in Procs : pc[q] \in HoldPc
          BY <4>1
        <5> QED BY <5>1, <3>4, OwnerIs, OwnerIsPrimed DEF IInv
      <4>2. CASE ~ \E q \in Procs : pc[q] \in HoldPc
        BY <4>2, <3>4 DEF Owner
      <4> QED BY <4>1, <4>2
    <3>6. p \notin Pending /\ Pending' = Pending \cup {p}
      BY <2>2, <3>2, <3>3 DEF Pending
    <3>7. Owner # p
      BY <3>2, <3>3, ShMutexAssumption DEF Owner
    <3> QED BY <3>5, <3>6, <3>7 DEF Abstract!Next, Abstract!Request
  <2>4. CASE TryTake(p) \/ LockTake(p) \/ SpinTake(p)
    <3>1. PICK from \in LockPc \cup TryPc : Take(p, from)
      BY <2>4 DEF TryTake, LockTake, SpinTake, LockPc, TryPc
    <3>2. pc[p] = from /\ pc' = [pc EXCEPT ![p] = "cs"] /\ ~word.held
      BY <3>1 DEF Take, Goto, CanTake
    <3>3. "cs" \in HoldPc /\ "cs" \notin LockPc \cup TryPc
      BY DEF LockPc, TryPc, HoldPc
    <3>4. Owner = NoProc
      BY <3>2 DEF IInv, HeldMirrors, Owner
    <3>5. Owner' = p
      BY <2>2, <3>2, <3>3, OwnerIsPrimed DEF IInv
    <3>6. p \in Pending /\ Pending' = Pending \ {p}
      BY <2>2, <3>2, <3>3 DEF Pending
    <3> QED BY <3>4, <3>5, <3>6 DEF Abstract!Next, Abstract!Grant
  <2>5. CASE TryFail(p)
    <3>1. pc[p] = "try_cas" /\ pc' = [pc EXCEPT ![p] = "idle"]
      BY <2>5 DEF TryFail, Goto
    <3>2. \A q \in Procs : pc'[q] \in HoldPc <=> pc[q] \in HoldPc
      BY <2>2, <3>1 DEF HoldPc
    <3>3. Owner' = Owner
      <4>1. CASE \E q \in Procs : pc[q] \in HoldPc
        <5>1. PICK q \in Procs : pc[q] \in HoldPc
          BY <4>1
        <5> QED BY <5>1, <3>2, OwnerIs, OwnerIsPrimed DEF IInv
      <4>2. CASE ~ \E q \in Procs : pc[q] \in HoldPc
        BY <4>2, <3>2 DEF Owner
      <4> QED BY <4>1, <4>2
    <3>4. p \in Pending /\ Pending' = Pending \ {p}
      BY <2>2, <3>1 DEF Pending, LockPc, TryPc
    <3> QED BY <3>3, <3>4 DEF Abstract!Next, Abstract!Refuse
  <2>6. CASE UnlockCas(p)
    <3>1. PICK to \in {"sem_post", "idle"} :
            pc[p] = "unlock_cas" /\ pc' = [pc EXCEPT ![p] = to]
      BY <2>6 DEF UnlockCas, Goto
    <3>2. Owner = p
      BY <3>1, OwnerIs DEF IInv, HoldPc
    <3>3. \A q \in Procs : pc'[q] \notin HoldPc
      BY <2>2, <3>1 DEF IInv, MutualExclusion, HoldPc
    <3>4. Owner' = NoProc
      BY <3>3 DEF Owner
    <3>5. Pending' = Pending
      BY <2>2, <3>1 DEF Pending, LockPc, TryPc
    <3> QED BY <3>2, <3>4, <3>5 DEF Abstract!Next, Abstract!Release
  <2>7. CASE \/ Unlock(p) \/ TryRead(p) \/ LockRead(p) \/ LockFail(p)
             \/ SpinRead(p) \/ SpinFail(p) \/ WaitRead(p) \/ Announce(p)
             \/ AnnounceFail(p) \/ UnlockRead(p) \/ UnlockRetry(p)
             \/ SemPost(p) \/ SemWake(p) \/ SemError(p)
    <3>1. PICK from, to : /\ Goto(p, from, to)
                          /\ from \in HoldPc <=> to \in HoldPc
                          /\ from \in LockPc \cup TryPc
                               <=> to \in LockPc \cup TryPc
      BY <2>7 DEF Unlock, TryRead, LockRead, LockFail, SpinRead, SpinFail,
                  WaitRead, Announce, AnnounceFail, UnlockRead, UnlockRetry,
                  SemPost, SemWake, SemError, Read, AfterSpin,
                  LockPc, TryPc, HoldPc
    <3> QED BY <3>1, InvisibleMove
  <2> QED BY <2>1, <2>3, <2>4, <2>5, <2>6, <2>7
          DEF TryStep, LockStep, UnlockStep
<1> QED BY <1>1, <1>2

\* ngx_shmtx_t implements the abstract lock, for any number of processes.
THEOREM Refinement == Spec => ImplementsMutex
<1>1. Init => Abstract!Init
  BY DEF Init, Abstract!Init, Owner, Pending, HoldPc, LockPc, TryPc
<1>2. IInv /\ IInv' /\ [Next]_vars => [Abstract!Next]_(Abstract!mvars)
  BY StepSimulation
<1> QED BY <1>1, <1>2, Invariance, PTL
        DEF Spec, ImplementsMutex, Abstract!Spec
==============================================================================
