--------------------------- MODULE WorkersProofs ---------------------------
(***************************************************************************)
(* Proofs about the workers: for any number of them and any scenario, the  *)
(* master keeps as many as are configured, and their tables of channels    *)
(* follow the master's.                                                    *)
(***************************************************************************)
EXTENDS MasterProcessProofs, FiniteSetTheorems

(***************************************************************************)
(* As many workers as configured                                           *)
(***************************************************************************)

\* The master does not keep up the number of workers: a fork failed, or it is
\* to stop, or it was told to stop accepting.
Off(s) == s.failed \/ s.m.quit \/ s.m.terminate \/ s.m.noaccepting

\* The slots of workers.
WorkerSlots(m) ==
  {i \in 0..(m.last - 1) : m.tab[i].pid # None /\ m.tab[i].kind = "worker"}
\* Those that are to stay.
Held(m) == {i \in WorkerSlots(m) : ~m.tab[i].exiting}

\* What ngx_reap_children() needs to make up for a worker that is gone, with n
\* slots done: workers are started again, none is left from the last start,
\* and one that was waited for is marked so and still to be treated.
Kept(s, n) ==
  \A i \in WorkerSlots(s.m) :
    /\ s.m.tab[i].respawn /\ ~s.m.tab[i].just
    /\ s.k[s.m.tab[i].pid].st = "reaped" => i >= n /\ s.m.tab[i].exited
\* No child exited with the code that forbids to start it again.
NoCode2(k) == \A p \in DOMAIN k : ~k[p].code2

Core(s, n) ==
  /\ ~s.m.restart /\ NoCode2(s.k) /\ Kept(s, n)
  /\ Cardinality(Held(s.m)) = conf.workers
WorkersAt(s, n) == Off(s) \/ Core(s, n)

\* The children, but for what they were sent and for signals to them.
KidsSame(k, l) ==
  /\ DOMAIN l = DOMAIN k
  /\ \A p \in DOMAIN k : /\ l[p].code2 = k[p].code2
                         /\ l[p].st = "reaped" <=> k[p].st = "reaped"
\* An entry, but for its channel.
EntrySame(e, f) ==
  /\ f.pid = e.pid /\ f.kind = e.kind /\ f.exiting = e.exiting
  /\ f.exited = e.exited /\ f.respawn = e.respawn /\ f.just = e.just
\* A part of a turn that is of no concern here.
Carries(s, t) ==
  /\ KidsSame(s.k, t.k)
  /\ t.m.last = s.m.last
  /\ \A i \in 0..(s.m.last - 1) : EntrySame(s.m.tab[i], t.m.tab[i])
  /\ t.m.restart = s.m.restart
  /\ Off(s) => Off(t)

\* What has gone wrong so far is the same.
SameNotes(s, t) ==
  t.lost = s.lost /\ t.double = s.double /\ t.failed = s.failed

\* The entry of an occupied slot names a child.
LEMMA SlotPid ==
  ASSUME conf \in Scenarios, NEW s, Sound(s), NEW i \in WorkerSlots(s.m)
  PROVE  /\ i \in Slots /\ i \in 0..(s.m.last - 1) /\ s.m.tab[i] \in ProcessType
         /\ s.m.tab[i].pid \in DOMAIN s.k /\ ~s.m.tab[i].detached
<1>1. s.m \in MasterType /\ s.k \in Seq(KidType)
  BY DEF Sound, StateType
<1>2. i \in 0..(s.m.last - 1) /\ s.m.last \in 0..conf.slots
  BY <1>1 DEF WorkerSlots, MasterType
<1>3. i \in Slots
  BY <1>2, ConfOK
<1>4. s.m.tab[i] \in ProcessType
  BY <1>1, <1>3 DEF MasterType
<1>5. s.m.tab[i].pid # None /\ s.m.tab[i].kind = "worker" /\ s.m.tab[i].pid <= Len(s.k)
  BY <1>3 DEF WorkerSlots, Sound, Bounds
<1>6. s.m.tab[i].pid \in Nat /\ s.m.tab[i].detached \in BOOLEAN
  BY <1>4, SMTT(60) DEF ProcessType
<1>7. ~s.m.tab[i].detached
  BY <1>2, <1>5, <1>6 DEF Sound, TableOK
<1> QED BY <1>1, <1>2, <1>3, <1>4, <1>5, <1>6, <1>7 DEF None

LEMMA CarriesKeeps ==
  ASSUME conf \in Scenarios, NEW s, Sound(s), NEW t, Carries(s, t), NEW n, WorkersAt(s, n)
  PROVE  WorkersAt(t, n)
<1>1. CASE Off(s)
  BY <1>1 DEF Carries, WorkersAt
<1>2. CASE Core(s, n)
  <2>1. WorkerSlots(t.m) = WorkerSlots(s.m)
    BY DEF WorkerSlots, Carries, EntrySame
  <2>2. \A i \in WorkerSlots(s.m) : EntrySame(s.m.tab[i], t.m.tab[i])
    BY DEF WorkerSlots, Carries
  <2>3. Held(t.m) = Held(s.m)
    BY <2>1, <2>2 DEF Held, EntrySame
  <2>4. Kept(t, n)
    <3>1. ASSUME NEW i \in WorkerSlots(t.m)
          PROVE  /\ t.m.tab[i].respawn /\ ~t.m.tab[i].just
                 /\ t.k[t.m.tab[i].pid].st = "reaped" => i >= n /\ t.m.tab[i].exited
      <4>1. i \in WorkerSlots(s.m) /\ s.m.tab[i].pid \in DOMAIN s.k
        BY <2>1, <3>1, SlotPid
      <4>2. EntrySame(s.m.tab[i], t.m.tab[i])
        BY <4>1, <2>2
      <4> QED BY <1>2, <4>1, <4>2 DEF Core, Kept, EntrySame, Carries, KidsSame
    <3> QED BY <3>1, SMTT(60) DEF Kept
  <2>5. NoCode2(t.k)
    BY <1>2 DEF Core, NoCode2, Carries, KidsSame
  <2> QED BY <1>2, <2>3, <2>4, <2>5 DEF Core, WorkersAt, Carries
<1> QED BY <1>1, <1>2 DEF WorkersAt

LEMMA CarriesTrans ==
  ASSUME NEW s, NEW t, NEW u, Carries(s, t), Carries(t, u)
  PROVE  Carries(s, u)
BY DEF Carries, KidsSame, EntrySame

\* ngx_write_channel() to others.
LEMMA BroadcastCarries ==
  ASSUME NEW s \in StateType, NEW to, NEW msg
  PROVE  Carries(s, Broadcast(s, to, msg))
<1> DEFINE t == Broadcast(s, to, msg)
           chans == {s.m.tab[i].chan : i \in to}
           got(p) == p \in chans /\ Writable(s, p) /\ s.k[p].st # "reaped"
           l == [p \in DOMAIN s.k |->
                   IF got(p) THEN [s.k[p] EXCEPT !.mail = Append(@, msg)] ELSE s.k[p]]
           b == s.lost \/ \E c \in chans : ~Writable(s, c)
<1>1. t = [s EXCEPT !.k = l, !.lost = b]
  BY DEF Broadcast
<1>2. \A p \in DOMAIN s.k : s.k[p] \in KidType
  BY DEF StateType
<1>3. KidsSame(s.k, l)
  <2>1. ASSUME NEW p \in DOMAIN s.k
        PROVE  l[p].code2 = s.k[p].code2 /\ l[p].st = s.k[p].st
    <3> DEFINE q == Append(s.k[p].mail, msg)
               k == s.k[p]
    <3>1. l[p] = IF got(p) THEN [k EXCEPT !.mail = q] ELSE k
      OBVIOUS
    <3>2. k \in KidType
      BY <1>2
    <3> HIDE DEF q, k, got, l
    <3>3. /\ [k EXCEPT !.mail = q].code2 = k.code2
          /\ [k EXCEPT !.mail = q].st = k.st
      BY <3>2 DEF KidType
    <3> QED BY <3>1, <3>3 DEF k
  <2> QED BY <2>1 DEF KidsSame
<1> HIDE DEF l, b, t
<1>4. t.m = s.m /\ t.k = l /\ t.failed = s.failed
  BY <1>1 DEF StateType
<1> QED BY <1>3, <1>4 DEF Carries, EntrySame, Off, t

LEMMA PassCarries ==
  ASSUME NEW s \in StateType, NEW slot
  PROVE  Carries(s, PassOpenChannel(s, slot))
BY BroadcastCarries DEF PassOpenChannel

(***************************************************************************)
(* Reaping                                                                 *)
(***************************************************************************)

\* The channel of an exited child is closed.
LEMMA CloseChannelsCarries ==
  ASSUME conf \in Scenarios, NEW s, Sound(s), NEW i \in Slots
  PROVE  Carries(s, CloseChannels(s, i))
<1> DEFINE t == CloseChannels(s, i)
           e == s.m.tab[i]
           x == [e EXCEPT !.chan = None]
           u == [s EXCEPT !.m.tab[i] = x]
           to == {n \in 0..(u.m.last - 1) : /\ ~u.m.tab[n].exited
                                            /\ u.m.tab[n].pid # None
                                            /\ u.m.tab[n].chan # None}
<1>1. s \in StateType /\ s.m \in MasterType /\ s.k \in Seq(KidType) /\ Len(s.k) \in Nat
  BY DEF Sound, StateType
<1>2. s.m.tab \in [Slots -> ProcessType] /\ e \in ProcessType /\ s.m.last \in 0..conf.slots
  BY <1>1, SMTT(60) DEF MasterType
<1>3. CASE e.detached
  BY <1>3 DEF CloseChannels, Carries, KidsSame, EntrySame
<1>4. CASE ~e.detached
  <2>1. t = Broadcast(u, to, CloseMsg(u, i))
    BY <1>4 DEF CloseChannels
  <2>2. x \in ProcessType /\ EntrySame(e, x) /\ x.chan = None /\ x.detached = e.detached
    BY <1>2 DEF ProcessType, EntrySame, Chans, None
  <2> HIDE DEF x
  <2>3. x.chan <= Len(s.k)
    BY <1>1, <2>2, SMTT(60) DEF None
  <2>4. /\ Still(s, u) /\ u.k = s.k /\ u.m.tab = [s.m.tab EXCEPT ![i] = x]
        /\ u.m.last = s.m.last
    BY <2>2, <2>3, FlagSound DEF EntrySame
  <2> HIDE DEF u, t
  <2>5. Sound(u) /\ u \in StateType
    BY <2>4 DEF Still, Onward, Sound
  <2>6. ASSUME NEW j \in 0..(s.m.last - 1) PROVE EntrySame(s.m.tab[j], u.m.tab[j])
    <3>1. j \in Slots
      BY <1>2, ConfOK
    <3>2. CASE j = i
      BY <3>2, <2>2, <2>4, <1>2
    <3>3. CASE j # i
      BY <3>1, <3>3, <2>4, <1>2 DEF EntrySame
    <3> QED BY <3>2, <3>3
  <2>7. Carries(s, u)
    BY <2>4, <2>6 DEF Carries, KidsSame, Still, Onward, FlagsKept, Off
  <2> HIDE DEF to
  <2>8. Carries(u, t)
    BY <2>1, <2>5, BroadcastCarries, SMTT(60)
  <2> QED BY <2>7, <2>8, CarriesTrans DEF t
<1> QED BY <1>3, <1>4

\* ngx_spawn_process() in the slot of a child that exited.
LEMMA RespawnEffect ==
  ASSUME conf \in Scenarios, NEW s, Sound(s), NEW slot \in 0..(s.m.last - 1),
         s.m.tab[slot].pid # None, s.m.tab[slot].exited
  PROVE  LET t == Respawn(s, slot)
             x == s.m.tab[slot]
             e == t.m.tab[slot]
         IN t.failed \/
            /\ t.k = Append(s.k, Child(s, slot, x.kind)) /\ t.m.last = s.m.last
            /\ \A j \in Slots : j # slot => t.m.tab[j] = s.m.tab[j]
            /\ e.pid = Len(s.k) + 1 /\ e.kind = x.kind /\ e.exiting = x.exiting
            /\ e.respawn = x.respawn /\ e.just = x.just
            /\ e.chan = Len(s.k) + 1 /\ ~e.exited /\ e.detached = x.detached
            /\ SameNotes(s, t)
<1> DEFINE t == Respawn(s, slot)
           x == s.m.tab[slot]
           pid == Len(s.k) + 1
           e == [x EXCEPT !.pid = pid, !.chan = pid, !.exited = FALSE]
           c == Child(s, slot, x.kind)
           tab == [s.m.tab EXCEPT ![slot] = e]
<1>1. s \in StateType /\ s.m \in MasterType /\ s.k \in Seq(KidType)
  BY DEF Sound, StateType
<1>2. s.m.tab \in [Slots -> ProcessType] /\ s.m.last \in 0..conf.slots
  BY <1>1 DEF MasterType
<1>3. slot \in Slots /\ x \in ProcessType
  BY <1>2, ConfOK
<1>4. CASE ForkFails(s)
  <2>1. t = SpawnFailed(s, slot, FALSE)
    BY <1>4 DEF Respawn
  <2> QED BY <2>1, <1>3, SpawnFailedSound
<1>5. CASE ~ForkFails(s)
  <2>1. t = [s EXCEPT !.forks = s.forks + 1, !.slot = slot, !.ok = TRUE,
                      !.k = Append(s.k, c), !.m = [s.m EXCEPT !.tab = tab]]
    BY <1>1, <1>2, <1>3, <1>5 DEF Respawn, StateType, MasterType, ProcessType
  <2> HIDE DEF c, pid
  <2>2. /\ e.pid = pid /\ e.kind = x.kind /\ e.exiting = x.exiting
        /\ e.respawn = x.respawn /\ e.just = x.just
        /\ e.chan = pid /\ ~e.exited /\ e.detached = x.detached
    BY <1>3 DEF ProcessType
  <2> HIDE DEF e, t
  <2>3. tab[slot] = e /\ \A j \in Slots : j # slot => tab[j] = s.m.tab[j]
    BY <1>2, <1>3
  <2> HIDE DEF tab
  <2>4. t.m = [s.m EXCEPT !.tab = tab] /\ t.k = Append(s.k, c) /\ SameNotes(s, t)
    BY <1>1, <2>1 DEF StateType, SameNotes
  <2>5. t.m.tab = tab /\ t.m.last = s.m.last
    BY <1>1, <2>4 DEF MasterType
  <2> QED BY <2>2, <2>3, <2>4, <2>5 DEF t, c, pid
<1> QED BY <1>4, <1>5

\* An entry that is given up.
LEMMA FreeEntryEffect ==
  ASSUME conf \in Scenarios, NEW s, Sound(s), NEW i \in 0..(s.m.last - 1)
  PROVE  LET t == FreeEntry(s, i) IN
         /\ t.k = s.k /\ SameNotes(s, t) /\ t.chfd = s.chfd
         /\ \/ i = s.m.last - 1 /\ t.m.last = i /\ t.m.tab = s.m.tab
            \/ /\ t.m.last = s.m.last /\ t.m.tab[i].pid = None
               /\ t.m.tab[i].chan = s.m.tab[i].chan
               /\ t.m.tab[i].detached = s.m.tab[i].detached
               /\ t.m.tab[i].respawn = s.m.tab[i].respawn
               /\ \A j \in Slots : j # i => t.m.tab[j] = s.m.tab[j]
<1> DEFINE t == FreeEntry(s, i)
<1>1. s \in StateType /\ s.m \in MasterType
  BY DEF Sound, StateType
<1>2. s.m.tab \in [Slots -> ProcessType] /\ s.m.last \in 0..conf.slots /\ i \in Slots
  BY <1>1, ConfOK, SMTT(60) DEF MasterType
<1>3. CASE i = s.m.last - 1
  <2> DEFINE n == s.m.last - 1
  <2>1. t = [s EXCEPT !.m = [s.m EXCEPT !.last = n]]
    BY <1>3 DEF FreeEntry
  <2> HIDE DEF n, t
  <2>2. t.m = [s.m EXCEPT !.last = n] /\ t.k = s.k /\ t.chfd = s.chfd /\ SameNotes(s, t)
    BY <1>1, <2>1 DEF StateType, SameNotes
  <2>3. t.m.last = n /\ t.m.tab = s.m.tab
    BY <1>1, <2>2 DEF MasterType
  <2> QED BY <1>3, <2>2, <2>3 DEF n, t
<1>4. CASE i # s.m.last - 1
  <2> DEFINE e == [s.m.tab[i] EXCEPT !.pid = None]
             tab == [s.m.tab EXCEPT ![i] = e]
  <2>1. t = [s EXCEPT !.m = [s.m EXCEPT !.tab = tab]]
    BY <1>4 DEF FreeEntry
  <2>2. /\ e.pid = None /\ e.chan = s.m.tab[i].chan
        /\ e.detached = s.m.tab[i].detached /\ e.respawn = s.m.tab[i].respawn
    BY <1>2 DEF ProcessType
  <2>3. tab[i] = e /\ \A j \in Slots : j # i => tab[j] = s.m.tab[j]
    BY <1>2
  <2> HIDE DEF e, tab, t
  <2> QED BY <1>1, <2>1, <2>2, <2>3 DEF StateType, MasterType, SameNotes, t
<1> QED BY <1>3, <1>4

\* ngx_reap_children() with one slot more.
LEMMA NextSlot ==
  ASSUME conf \in Scenarios, NEW s, Sound(s), NEW n \in Nat, WorkersAt(s, n),
         n \in WorkerSlots(s.m) => ~s.m.tab[n].exited
  PROVE  WorkersAt(s, n + 1)
<1>1. CASE Off(s)
  BY <1>1 DEF WorkersAt
<1>2. CASE Core(s, n)
  <2>1. ASSUME NEW i \in WorkerSlots(s.m), s.k[s.m.tab[i].pid].st = "reaped"
        PROVE  i >= n + 1
    <3>1. i \in Nat
      BY SlotPid
    <3>2. i >= n /\ s.m.tab[i].exited
      BY <1>2, <2>1, SMTT(60) DEF Core, Kept
    <3> QED BY <3>1, <3>2
  <2>2. Kept(s, n + 1)
    BY <1>2, <2>1 DEF Core, Kept
  <2> QED BY <1>2, <2>2 DEF Core, WorkersAt
<1> QED BY <1>1, <1>2 DEF WorkersAt

\* The slot of an exited child has a new one.
LEMMA RespawnKeeps ==
  ASSUME conf \in Scenarios, NEW s, Sound(s), NEW i \in 0..(s.m.last - 1),
         s.m.tab[i].pid # None, s.m.tab[i].exited, WorkersAt(s, i)
  PROVE  WorkersAt(Respawn(s, i), i + 1)
<1> DEFINE t == Respawn(s, i)
           x == s.m.tab[i]
           e == t.m.tab[i]
           c == Child(s, i, x.kind)
<1>1. s \in StateType /\ s.m \in MasterType /\ s.k \in Seq(KidType)
  BY DEF Sound, StateType
<1>2. /\ s.m.tab \in [Slots -> ProcessType] /\ s.m.last \in 0..conf.slots
      /\ Len(s.k) \in Nat /\ DOMAIN s.k = 1..Len(s.k) /\ i \in Slots
  BY <1>1, ConfOK, SMTT(60) DEF MasterType
<1>3. Sound(t) /\ FlagsKept(s, t)
  BY RespawnSound
<1>4. CASE t.failed \/ Off(s)
  BY <1>3, <1>4 DEF Off, WorkersAt, FlagsKept
<1>5. CASE ~t.failed /\ ~Off(s)
  <2>1. /\ t.k = Append(s.k, c) /\ t.m.last = s.m.last
        /\ (\A j \in Slots : j # i => t.m.tab[j] = s.m.tab[j])
        /\ e.pid = Len(s.k) + 1 /\ e.kind = x.kind /\ e.exiting = x.exiting
        /\ e.respawn = x.respawn /\ e.just = x.just
    BY <1>5, RespawnEffect
  <2>2. c.st = "running" /\ ~c.code2
    BY DEF Child
  <2>3. c \in KidType
    <3>1. x.kind \in Kinds
      BY <1>2 DEF ProcessType
    <3> QED BY <3>1, <1>1, <1>2, ChildType
  <2> HIDE DEF t, c
  <2>4. /\ DOMAIN t.k = 1..(Len(s.k) + 1) /\ t.k[Len(s.k) + 1] = c
        /\ \A p \in DOMAIN s.k : t.k[p] = s.k[p]
    BY <1>1, <1>2, <2>1, <2>3
  <2>5. Core(s, i)
    BY <1>5 DEF WorkersAt
  <2>6. \A j \in 0..(s.m.last - 1) : j \in Slots
    BY <1>2, ConfOK
  <2>7. WorkerSlots(t.m) = WorkerSlots(s.m)
    <3>1. Len(s.k) + 1 # None
      BY <1>2 DEF None
    <3>2. \A j \in 0..(s.m.last - 1) :
            /\ t.m.tab[j].kind = s.m.tab[j].kind
            /\ t.m.tab[j].pid # None <=> s.m.tab[j].pid # None
      BY <2>1, <2>6, <3>1
    <3>3. t.m.last = s.m.last
      BY <2>1
    <3> QED BY <3>2, <3>3 DEF WorkerSlots
  <2>8. \A j \in WorkerSlots(s.m) :
          /\ t.m.tab[j].exiting = s.m.tab[j].exiting /\ t.m.tab[j].respawn = s.m.tab[j].respawn
          /\ t.m.tab[j].just = s.m.tab[j].just
    BY <2>1, <2>6 DEF WorkerSlots
  <2>9. Held(t.m) = Held(s.m)
    BY <2>7, <2>8 DEF Held
  <2>10. NoCode2(t.k)
    BY <2>2, <2>4, <2>5, <1>2, SMTT(60) DEF NoCode2, Core
  <2>11. ASSUME NEW j \in WorkerSlots(t.m), t.k[t.m.tab[j].pid].st = "reaped"
         PROVE  j >= i + 1 /\ t.m.tab[j].exited
    <3>1. j \in WorkerSlots(s.m) /\ j \in Slots /\ s.m.tab[j].pid \in DOMAIN s.k /\ j \in Nat
      BY <2>7, SlotPid
    <3>2. j # i
      BY <2>1, <2>2, <2>4, <2>11
    <3>3. t.m.tab[j] = s.m.tab[j]
      BY <2>1, <3>1, <3>2
    <3>4. s.k[s.m.tab[j].pid].st = "reaped"
      BY <2>4, <2>11, <3>1, <3>3
    <3>5. j >= i /\ s.m.tab[j].exited
      BY <2>5, <3>1, <3>4 DEF Core, Kept
    <3> QED BY <3>1, <3>2, <3>3, <3>5
  <2>12. Kept(t, i + 1)
    BY <2>5, <2>7, <2>8, <2>11 DEF Core, Kept
  <2> QED BY <1>3, <2>5, <2>9, <2>10, <2>12 DEF Core, WorkersAt, FlagsKept, t
<1> QED BY <1>4, <1>5

\* The slot of an exited child that is not started again is given up.
LEMMA FreeEntryKeeps ==
  ASSUME conf \in Scenarios, NEW s, Sound(s), NEW i \in 0..(s.m.last - 1),
         s.m.tab[i].pid # None, s.m.tab[i].exited, ~MayRespawn(s, i), WorkersAt(s, i)
  PROVE  WorkersAt(FreeEntry(s, i), i + 1)
<1> DEFINE t == FreeEntry(s, i)
           x == s.m.tab[i]
<1>1. s \in StateType /\ s.m \in MasterType /\ s.k \in Seq(KidType)
  BY DEF Sound, StateType
<1>2. /\ s.m.tab \in [Slots -> ProcessType] /\ s.m.last \in 0..conf.slots /\ i \in Slots
      /\ i \in Nat
  BY <1>1, ConfOK, SMTT(60) DEF MasterType
<1>3. Sound(t) /\ FlagsKept(s, t)
  BY FreeEntrySound
<1>4. CASE Off(s)
  BY <1>3, <1>4 DEF Off, WorkersAt, FlagsKept
<1>5. CASE ~Off(s)
  <2>1. Core(s, i)
    BY <1>5 DEF WorkersAt
  <2>2. i \notin Held(s.m)
    BY <1>5, <2>1 DEF Off, Core, Kept, MayRespawn, Held
  <2>3. /\ t.k = s.k
        /\ \/ i = s.m.last - 1 /\ t.m.last = i /\ t.m.tab = s.m.tab
           \/ /\ t.m.last = s.m.last /\ t.m.tab[i].pid = None
              /\ \A j \in Slots : j # i => t.m.tab[j] = s.m.tab[j]
    BY FreeEntryEffect
  <2> HIDE DEF t
  <2>4. \A j \in 0..(s.m.last - 1) : j \in Slots
    BY <1>2, ConfOK
  <2>5. /\ WorkerSlots(t.m) = WorkerSlots(s.m) \ {i}
        /\ \A j \in WorkerSlots(t.m) : t.m.tab[j] = s.m.tab[j]
    <3>1. CASE i = s.m.last - 1 /\ t.m.last = i /\ t.m.tab = s.m.tab
      <4>1. 0..(t.m.last - 1) = 0..(s.m.last - 1) \ {i}
        BY <3>1, <1>2
      <4> QED BY <3>1, <4>1 DEF WorkerSlots
    <3>2. CASE /\ t.m.last = s.m.last /\ t.m.tab[i].pid = None
               /\ \A j \in Slots : j # i => t.m.tab[j] = s.m.tab[j]
      BY <3>2, <2>4 DEF WorkerSlots
    <3> QED BY <2>3, <3>1, <3>2
  <2>6. Held(t.m) = Held(s.m)
    BY <2>2, <2>5 DEF Held
  <2>7. ASSUME NEW j \in WorkerSlots(t.m), t.k[t.m.tab[j].pid].st = "reaped"
        PROVE  j >= i + 1
    <3>1. j \in Nat /\ j # i
      BY <2>5, SlotPid, SMTT(60)
    <3>2. j >= i
      BY <2>1, <2>3, <2>5, <2>7, SMTT(60) DEF Core, Kept
    <3> QED BY <3>1, <3>2, <1>2
  <2>8. Kept(t, i + 1)
    BY <2>1, <2>3, <2>5, <2>7 DEF Core, Kept
  <2> QED BY <1>3, <2>1, <2>3, <2>6, <2>8 DEF Core, WorkersAt, FlagsKept, t
<1> QED BY <1>4, <1>5

\* One turn of the loop of ngx_reap_children().
LEMMA ReapOneKeeps ==
  ASSUME conf \in Scenarios, NEW x, NEW i \in Slots, Sound(x), WorkersAt(x, i),
         x.m.newBinary = None
  PROVE  WorkersAt(ReapOne(x, i), i + 1)
<1> DEFINE e == x.m.tab[i]
           y == ReapOne(x, i)
           c == CloseChannels(x, i)
           r == Respawn(c, i)
<1>1. x \in StateType /\ x.m \in MasterType /\ i \in Nat
  BY ConfOK DEF Sound, StateType
<1>2. e \in ProcessType /\ x.m.last \in 0..conf.slots
  BY <1>1 DEF MasterType
<1>3. CASE i >= x.m.last \/ e.pid = None
  <2>1. y = x
    BY <1>3 DEF ReapOne
  <2>2. i \notin WorkerSlots(x.m)
    BY <1>1, <1>2, <1>3 DEF WorkerSlots
  <2>3. WorkersAt(x, i + 1)
    BY <1>1, <2>2, NextSlot
  <2> QED BY <2>1, <2>3
<1>4. CASE ~(i >= x.m.last \/ e.pid = None) /\ ~e.exited
  <2> DEFINE b == x.m.live \/ CountsLive(e)
             m == [x.m EXCEPT !.live = b]
  <2>1. y = [x EXCEPT !.m = m]
    BY <1>4 DEF ReapOne
  <2> HIDE DEF b, y
  <2>2. /\ m.tab = x.m.tab /\ m.last = x.m.last /\ m.quit = x.m.quit
        /\ m.terminate = x.m.terminate /\ m.noaccepting = x.m.noaccepting
        /\ m.restart = x.m.restart
    BY <1>1 DEF MasterType
  <2> HIDE DEF m
  <2>3. y.m = m /\ y.k = x.k /\ y.failed = x.failed
    BY <1>1, <2>1 DEF StateType
  <2>4. Carries(x, y)
    BY <2>2, <2>3 DEF Carries, KidsSame, EntrySame, Off
  <2>5. WorkersAt(x, i + 1)
    BY <1>1, <1>4, NextSlot
  <2> QED BY <2>4, <2>5, CarriesKeeps DEF y
<1>5. CASE ~(i >= x.m.last \/ e.pid = None) /\ e.exited
  <2>1. /\ Still(x, c) /\ c.m.last = x.m.last /\ c.m.tab[i].pid = e.pid
        /\ c.m.tab[i].exited = e.exited
    BY CloseChannelsSound
  <2>2. Carries(x, c)
    BY CloseChannelsCarries
  <2>3. y = IF MayRespawn(c, i)
            THEN IF r.ok THEN PassOpenChannel([r EXCEPT !.chfd = r.m.tab[i].chan,
                                                        !.m.live = TRUE], i)
                 ELSE r
            ELSE FreeEntry(c, i)
    BY <1>5 DEF ReapOne
  <2> HIDE DEF y, c
  <2>4. Sound(c) /\ i \in 0..(c.m.last - 1)
    BY <1>1, <1>2, <1>5, <2>1 DEF Still, Onward
  <2>5. c.m.tab[i].pid # None /\ c.m.tab[i].exited
    BY <1>5, <2>1
  <2>6. WorkersAt(c, i)
    BY <2>2, CarriesKeeps
  <2>7. CASE ~MayRespawn(c, i)
    BY <2>3, <2>4, <2>5, <2>6, <2>7, FreeEntryKeeps DEF y
  <2>8. CASE MayRespawn(c, i)
    <3>1. WorkersAt(r, i + 1) /\ Sound(r)
      BY <2>4, <2>5, <2>6, RespawnKeeps, RespawnSound
    <3> HIDE DEF r
    <3>2. CASE ~r.ok
      BY <2>3, <2>8, <3>1, <3>2 DEF y
    <3>3. CASE r.ok
      <4> DEFINE h == r.m.tab[i].chan
                 m == [r.m EXCEPT !.live = TRUE]
                 q == [r EXCEPT !.chfd = h, !.m = m]
      <4>1. r \in StateType /\ r.m \in MasterType /\ r.m.tab[i] \in ProcessType
        BY <3>1 DEF Sound, StateType, MasterType
      <4>2. y = PassOpenChannel(q, i)
        BY <2>3, <2>8, <3>3
      <4>3. h \in Chans
        <5> DEFINE z == r.m.tab[i]
        <5>1. z \in ProcessType
          BY <4>1
        <5> HIDE DEF z
        <5>2. z.chan \in Chans
          BY <5>1 DEF ProcessType
        <5> QED BY <5>2 DEF z
      <4> HIDE DEF h
      <4>4. m \in MasterType
        BY <4>1 DEF MasterType
      <4>5. /\ m.tab = r.m.tab /\ m.last = r.m.last /\ m.quit = r.m.quit
            /\ m.terminate = r.m.terminate /\ m.noaccepting = r.m.noaccepting
            /\ m.restart = r.m.restart
        BY <4>1 DEF MasterType
      <4> HIDE DEF m
      <4>6. q \in StateType /\ q.m = m /\ q.k = r.k /\ q.failed = r.failed
        BY <4>1, <4>3, <4>4 DEF StateType
      <4> HIDE DEF q
      <4>7. Carries(r, q)
        BY <4>5, <4>6 DEF Carries, KidsSame, EntrySame, Off
      <4>8. Carries(q, y)
        BY <4>2, <4>6, PassCarries
      <4>9. Carries(r, y)
        BY <4>7, <4>8, CarriesTrans
      <4> QED BY <3>1, <4>9, CarriesKeeps DEF y
    <3>4. r.ok \in BOOLEAN
      BY <3>1 DEF Sound, StateType
    <3> QED BY <3>2, <3>3, <3>4
  <2> QED BY <2>7, <2>8
<1>6. e.exited \in BOOLEAN
  BY <1>2 DEF ProcessType
<1> QED BY <1>3, <1>4, <1>5, <1>6

\* ngx_reap_children() starts a worker for every one that is gone and was to
\* stay.
LEMMA ReapChildrenKeeps ==
  ASSUME conf \in Scenarios, NEW s, Sound(s), s.m.st = "loop", s.m.newBinary = None,
         WorkersAt(s, 0)
  PROVE  WorkersAt(ReapChildren(s), conf.slots)
<1> DEFINE N == conf.slots
           S == StateType
           a == ReapStart(s)
           T == [n \in 0..N |-> {x \in S : ReapedTo(s, x, n) /\ WorkersAt(x, n)}]
           Do(x, n) == ReapOne(x, n - 1)
           run[n \in 0..N] == IF n = 0 THEN a ELSE Do(run[n - 1], n)
           g == [n \in 1..N |-> [x \in S |-> IF x \in T[n - 1] THEN Do(x, n) ELSE x]]
<1> HIDE DEF run
<1>1. ReapChildren(s) = run[N]
  BY DEF ReapChildren, run
<1>2. N \in Nat
  BY ConfOK
<1>3. a \in S /\ a \in T[0]
  <2> DEFINE ex == {i \in 0..(s.m.last - 1) : s.m.tab[i].pid # None /\ s.m.tab[i].exited}
             b == s.double \/ Cardinality(ex) > 1
             m == [s.m EXCEPT !.live = FALSE, !.reap = FALSE]
  <2>1. s \in StateType /\ s.m \in MasterType
    BY DEF Sound, StateType
  <2>2. a = [s EXCEPT !.m = m, !.double = b]
    BY <2>1 DEF ReapStart, StateType, MasterType
  <2> HIDE DEF a, b
  <2>3. /\ m.tab = s.m.tab /\ m.last = s.m.last /\ m.quit = s.m.quit
        /\ m.terminate = s.m.terminate /\ m.noaccepting = s.m.noaccepting
        /\ m.restart = s.m.restart
    BY <2>1 DEF MasterType
  <2> HIDE DEF m
  <2>4. a.m = m /\ a.k = s.k /\ a.failed = s.failed
    BY <2>1, <2>2 DEF StateType
  <2>5. Carries(s, a)
    BY <2>3, <2>4 DEF Carries, KidsSame, EntrySame, Off
  <2>6. WorkersAt(a, 0)
    BY <2>5, CarriesKeeps
  <2>7. ReapedTo(s, a, 0)
    BY ReapStartSound, SMTT(60) DEF a
  <2> QED BY <1>2, <2>6, <2>7 DEF ReapedTo, Sound
<1>4. ASSUME NEW n \in 1..N, NEW x \in T[n - 1] PROVE Do(x, n) \in T[n]
  <2>1. n - 1 \in Slots /\ n - 1 \in 0..N /\ (n - 1) + 1 = n /\ n \in 0..N
    BY <1>2, ConfOK
  <2>2. ReapedTo(s, x, n - 1) /\ WorkersAt(x, n - 1)
    BY <2>1
  <2>3. x.m.st = "loop" /\ Sound(x) /\ x.m.newBinary = None
    BY <2>2 DEF ReapedTo
  <2> DEFINE i == n - 1
  <2>4. ReapedTo(s, Do(x, n), i + 1) /\ WorkersAt(Do(x, n), i + 1)
    <3>1. i \in Slots /\ ReapedTo(s, x, i) /\ WorkersAt(x, i) /\ Do(x, n) = ReapOne(x, i)
      BY <2>1, <2>2
    <3> HIDE DEF i, Do
    <3>2. ReapedTo(s, Do(x, n), i + 1)
      BY <3>1, <2>3, ReapOneSound
    <3>3. WorkersAt(Do(x, n), i + 1)
      BY <3>1, <2>3, ReapOneKeeps
    <3> QED BY <3>2, <3>3
  <2>5. ReapedTo(s, Do(x, n), n) /\ WorkersAt(Do(x, n), n)
    BY <2>1, <2>4
  <2> QED BY <2>1, <2>5 DEF ReapedTo, Sound
<1>5. \A n \in 0..N : T[n] \subseteq S /\ \A x \in T[n] : WorkersAt(x, n)
  OBVIOUS
<1> HIDE DEF N, S, Do, T, a
<1>6. /\ g \in [1..N -> [S -> S]]
      /\ \A n \in 1..N, x \in S : x \in T[n - 1] => g[n][x] = Do(x, n)
  <2>1. \A n \in 1..N, x \in S : (IF x \in T[n - 1] THEN Do(x, n) ELSE x) \in S
    BY <1>2, <1>4, <1>5
  <2> QED BY <2>1
<1> HIDE DEF g
<1>7. PICK f : IsLoop(f, N, S, a, g)
  BY <1>2, <1>3, <1>6, LoopExists
<1>8. f[0] = a /\ \A n \in 1..N : f[n - 1] \in S /\ f[n] = g[n][f[n - 1]]
  BY <1>2, <1>7 DEF IsLoop
<1>9. \A n \in 0..N : f[n] \in T[n]
  <2>1. f[0] \in T[0]
    BY <1>3, <1>8
  <2>2. \A n \in 1..N : f[n - 1] \in T[n - 1] => f[n] \in T[n]
    BY <1>4, <1>6, <1>8
  <2> QED BY <2>1, <2>2, <1>2, LoopInvariant
<1>10. f = [n \in 0..N |-> IF n = 0 THEN a ELSE Do(f[n - 1], n)]
  <2>1. \A n \in 0..N : n = 0 \/ (n \in 1..N /\ n - 1 \in 0..N)
    BY <1>2
  <2>2. \A n \in 1..N : f[n] = Do(f[n - 1], n)
    BY <1>2, <1>6, <1>8, <1>9
  <2> QED BY <2>1, <2>2, <1>7 DEF IsLoop
<1>11. run = [n \in 0..N |-> IF n = 0 THEN a ELSE Do(run[n - 1], n)]
  BY <1>10, Zenon DEF run
<1>12. run[0] = a /\ \A n \in 1..N : run[n] = Do(run[n - 1], n)
  BY <1>2, <1>11
<1>13. \A n \in 0..N : run[n] \in T[n]
  <2>1. run[0] \in T[0]
    BY <1>3, <1>12
  <2>2. \A n \in 1..N : run[n - 1] \in T[n - 1] => run[n] \in T[n]
    BY <1>4, <1>12
  <2> QED BY <2>1, <2>2, <1>2, LoopInvariant
<1>14. WorkersAt(run[N], N)
  BY <1>2, <1>5, <1>13
<1> QED BY <1>1, <1>14 DEF N

(***************************************************************************)
(* Starting                                                                *)
(***************************************************************************)

\* The workers that were started in this turn; at the very first start, all.
Fresh(m, again) == {i \in WorkerSlots(m) : again => m.tab[i].just}

\* With n workers started.
StartedCore(s, n, again) ==
  /\ ~s.m.restart /\ NoCode2(s.k)
  /\ \A i \in WorkerSlots(s.m) :
       /\ s.m.tab[i].respawn /\ s.k[s.m.tab[i].pid].st # "reaped"
       /\ s.m.tab[i].just \/ ~again => ~s.m.tab[i].exiting
       /\ s.m.tab[i].just => again
  /\ Cardinality(Fresh(s.m, again)) = n
Started(s, n, again) == Off(s) \/ StartedCore(s, n, again)

LEMMA FiniteSlots ==
  ASSUME conf \in Scenarios, NEW s, Sound(s)
  PROVE  /\ IsFiniteSet(WorkerSlots(s.m)) /\ IsFiniteSet(Held(s.m))
         /\ \A again \in BOOLEAN : IsFiniteSet(Fresh(s.m, again))
<1>1. s.m.last \in Int
  BY ConfOK DEF Sound, StateType, MasterType
<1>2. IsFiniteSet(0..(s.m.last - 1))
  BY <1>1, FS_Interval
<1>3. WorkerSlots(s.m) \subseteq 0..(s.m.last - 1)
  BY DEF WorkerSlots
<1>4. IsFiniteSet(WorkerSlots(s.m))
  BY <1>2, <1>3, FS_Subset
<1>5. Held(s.m) \subseteq WorkerSlots(s.m)
  BY DEF Held
<1>6. \A again \in BOOLEAN : Fresh(s.m, again) \subseteq WorkerSlots(s.m)
  BY DEF Fresh
<1> QED BY <1>4, <1>5, <1>6, FS_Subset

LEMMA StartedCarries ==
  ASSUME conf \in Scenarios, NEW s, Sound(s), NEW t, Carries(s, t), NEW n,
         NEW again \in BOOLEAN, Started(s, n, again)
  PROVE  Started(t, n, again)
<1>1. CASE Off(s)
  BY <1>1 DEF Carries, Started
<1>2. CASE StartedCore(s, n, again)
  <2>1. WorkerSlots(t.m) = WorkerSlots(s.m)
    BY SMTT(60) DEF WorkerSlots, Carries, EntrySame
  <2>2. \A i \in WorkerSlots(s.m) : EntrySame(s.m.tab[i], t.m.tab[i])
    BY DEF WorkerSlots, Carries
  <2>3. Fresh(t.m, again) = Fresh(s.m, again)
    BY <2>1, <2>2 DEF Fresh, EntrySame
  <2>4. NoCode2(t.k)
    BY <1>2, SMTT(60) DEF StartedCore, NoCode2, Carries, KidsSame
  <2>5. ASSUME NEW i \in WorkerSlots(t.m)
        PROVE  /\ t.m.tab[i].respawn /\ t.k[t.m.tab[i].pid].st # "reaped"
               /\ (t.m.tab[i].just \/ ~again => ~t.m.tab[i].exiting)
               /\ (t.m.tab[i].just => again)
    <3>1. i \in WorkerSlots(s.m) /\ s.m.tab[i].pid \in DOMAIN s.k
      BY <2>1, SlotPid
    <3>2. EntrySame(s.m.tab[i], t.m.tab[i])
      BY <2>2, <3>1, SMTT(60)
    <3> QED BY <1>2, <3>1, <3>2 DEF StartedCore, EntrySame, Carries, KidsSame
  <2> QED BY <1>2, <2>3, <2>4, <2>5 DEF StartedCore, Started, Carries
<1> QED BY <1>1, <1>2 DEF Started

\* ngx_spawn_process() for a slot that it finds itself: the first hole, or the
\* end of the table.
LEMMA SpawnEffect ==
  ASSUME conf \in Scenarios, NEW s, Sound(s), NEW kind \in Kinds,
         NEW type \in DOMAIN SpawnTypes
  PROVE  LET t == Spawn(s, kind, type)
             i == t.slot
             e == t.m.tab[i]
         IN t.failed \/
            /\ t.ok /\ i \in Slots /\ i \in 0..s.m.last
            /\ i < s.m.last => s.m.tab[i].pid = None
            /\ t.m.last = IF i = s.m.last THEN s.m.last + 1 ELSE s.m.last
            /\ t.k = Append(s.k, Child(s, i, kind))
            /\ \A j \in Slots : j # i => t.m.tab[j] = s.m.tab[j]
            /\ e.pid = Len(s.k) + 1 /\ e.kind = kind /\ ~e.exiting
            /\ e.respawn = SpawnTypes[type].respawn /\ e.just = SpawnTypes[type].just
            /\ e.chan = (IF SpawnTypes[type].detached THEN None ELSE Len(s.k) + 1)
            /\ e.detached = SpawnTypes[type].detached /\ SameNotes(s, t)
<1> DEFINE t == Spawn(s, kind, type)
           holes == {i \in 0..(s.m.last - 1) : s.m.tab[i].pid = None}
           how == SpawnTypes[type]
           slot == IF holes = {} THEN s.m.last ELSE Min(holes)
           pid == Len(s.k) + 1
           e == [pid |-> pid, kind |-> kind,
                 chan |-> IF how.detached THEN None ELSE pid,
                 exiting |-> FALSE, exited |-> FALSE, detached |-> how.detached,
                 respawn |-> how.respawn, just |-> how.just]
           n == IF slot = s.m.last THEN s.m.last + 1 ELSE s.m.last
           c == Child(s, slot, kind)
           tab == [s.m.tab EXCEPT ![slot] = e]
<1>1. s \in StateType /\ s.m \in MasterType /\ s.k \in Seq(KidType)
  BY DEF Sound, StateType
<1>2. /\ s.m.tab \in [Slots -> ProcessType] /\ s.m.last \in 0..conf.slots
  BY <1>1 DEF MasterType
<1>3. how.detached \in BOOLEAN
  BY SpawnTypesType
<1>4. t = IF slot = conf.slots THEN [s EXCEPT !.ok = FALSE, !.failed = TRUE]
          ELSE IF ForkFails(s) THEN SpawnFailed(s, slot, how.detached)
          ELSE Forked(s, kind, slot, pid, how)
  BY SMTT(60) DEF Spawn
<1>5. /\ slot \in 0..s.m.last
      /\ slot < s.m.last => s.m.tab[slot].pid = None
  <2> HIDE DEF t, e, n, c, tab, pid, how
  <2>1. CASE holes = {}
    <3>1. slot = s.m.last
      BY <2>1
    <3> HIDE DEF slot
    <3> QED BY <3>1, <1>2
  <2>2. CASE holes # {}
    <3>1. holes \subseteq Nat
      BY <1>2
    <3> HIDE DEF holes
    <3>2. \E k \in holes : \A j \in holes : k <= j
      BY <2>2, <3>1, SmallestOf
    <3>3. Min(holes) \in holes
      BY <3>2 DEF Min
    <3>4. slot \in holes
      BY <2>2, <3>3
    <3>5. slot \in 0..(s.m.last - 1) /\ s.m.tab[slot].pid = None
      BY <3>4 DEF holes
    <3> HIDE DEF slot
    <3> QED BY <3>5, <1>2
  <2> HIDE DEF slot, holes
  <2> QED BY <2>1, <2>2
<1> HIDE DEF slot, how, holes, t
<1>6. CASE slot = conf.slots
  <2>1. t = [s EXCEPT !.ok = FALSE, !.failed = TRUE]
    BY <1>4, <1>6
  <2>2. t.failed
    BY <1>1, <2>1 DEF StateType
  <2> QED BY <2>2 DEF t
<1>7. CASE slot # conf.slots /\ ForkFails(s)
  <2>1. t = SpawnFailed(s, slot, how.detached)
    BY <1>4, <1>7
  <2>2. slot \in Slots
    BY <1>2, <1>5, <1>7, ConfOK
  <2>3. t.failed
    BY <2>1, <2>2, <1>3, SpawnFailedSound
  <2> QED BY <2>3 DEF t
<1>8. CASE slot # conf.slots /\ ~ForkFails(s)
  <2>1. slot \in Slots
    BY <1>2, <1>5, <1>8, ConfOK
  <2>2. t = [s EXCEPT !.forks = s.forks + 1, !.slot = slot, !.ok = TRUE, !.k = Append(s.k, c),
                      !.m = [s.m EXCEPT !.tab = tab, !.last = n]]
    BY <1>1, <1>2, <2>1, <1>4, <1>8, ZenonT(60) DEF Forked, StateType, MasterType
  <2>3. /\ e.pid = pid /\ e.kind = kind /\ ~e.exiting
        /\ e.respawn = how.respawn /\ e.just = how.just
        /\ e.chan = (IF how.detached THEN None ELSE pid) /\ e.detached = how.detached
    OBVIOUS
  <2> HIDE DEF e, c, n, pid
  <2>4. tab[slot] = e /\ \A j \in Slots : j # slot => tab[j] = s.m.tab[j]
    BY <1>2, <2>1
  <2> HIDE DEF tab
  <2>5. /\ t.m = [s.m EXCEPT !.tab = tab, !.last = n] /\ t.k = Append(s.k, c)
        /\ t.slot = slot /\ t.ok /\ SameNotes(s, t)
    BY <1>1, <2>2 DEF StateType, SameNotes
  <2>6. t.m.tab = tab /\ t.m.last = n
    BY <1>1, <2>5 DEF MasterType
  <2> QED BY <1>5, <2>1, <2>3, <2>4, <2>5, <2>6 DEF t, c, n, pid, how
<1> QED BY <1>6, <1>7, <1>8

\* A new worker counts; another child does not.
LEMMA SpawnStarts ==
  ASSUME conf \in Scenarios, NEW s, Sound(s), NEW kind \in Kinds,
         NEW type \in DOMAIN SpawnTypes, type # "detached", NEW again \in BOOLEAN,
         kind = "worker" => SpawnTypes[type].respawn /\ SpawnTypes[type].just = again,
         NEW n \in Nat, Started(s, n, again)
  PROVE  Started(Spawn(s, kind, type), IF kind = "worker" THEN n + 1 ELSE n, again)
<1> DEFINE t == Spawn(s, kind, type)
           i == t.slot
           e == t.m.tab[i]
           c == Child(s, i, kind)
           p == Len(s.k) + 1
           W == WorkerSlots(s.m)
           V == WorkerSlots(t.m)
<1>1. s \in StateType /\ s.m \in MasterType /\ s.k \in Seq(KidType)
  BY DEF Sound, StateType
<1>2. /\ s.m.tab \in [Slots -> ProcessType] /\ s.m.last \in 0..conf.slots
      /\ Len(s.k) \in Nat /\ DOMAIN s.k = 1..Len(s.k)
  BY <1>1 DEF MasterType
<1>3. Onward(s, t) /\ FlagsKept(s, t)
  BY SpawnSound DEF Onward
<1>4. CASE t.failed \/ Off(s)
  BY <1>3, <1>4 DEF Off, Started, FlagsKept
<1>5. CASE ~t.failed /\ ~Off(s)
  <2>1. /\ i \in Slots /\ i \in 0..s.m.last /\ (i < s.m.last => s.m.tab[i].pid = None)
        /\ t.m.last = (IF i = s.m.last THEN s.m.last + 1 ELSE s.m.last)
        /\ t.k = Append(s.k, c) /\ (\A j \in Slots : j # i => t.m.tab[j] = s.m.tab[j])
        /\ e.pid = p /\ e.kind = kind /\ ~e.exiting
        /\ e.respawn = SpawnTypes[type].respawn /\ e.just = SpawnTypes[type].just
    BY <1>5, SpawnEffect
  <2>2. c.st = "running" /\ ~c.code2
    BY DEF Child
  <2>3. c \in KidType
    BY <1>1, <2>1, ChildType
  <2> HIDE DEF t, c
  <2>4. /\ DOMAIN t.k = 1..p /\ t.k[p] = c /\ p # None
        /\ \A q \in DOMAIN s.k : t.k[q] = s.k[q]
    BY <1>1, <1>2, <2>1, <2>3 DEF None
  <2>5. StartedCore(s, n, again)
    BY <1>5 DEF Started
  <2>6. NoCode2(t.k)
    BY <2>2, <2>4, <2>5, <1>2, SMTT(60) DEF NoCode2, StartedCore
  <2>7. i \notin W
    BY <1>2, <2>1 DEF WorkerSlots
  <2>8. \A j \in W : j \in Slots /\ j # i /\ s.m.tab[j].pid \in DOMAIN s.k
    BY <2>7, SlotPid
  <2>9. V = IF kind = "worker" THEN W \cup {i} ELSE W
    <3>1. ASSUME NEW j \in V, j # i PROVE j \in W
      <4>1. j \in 0..(s.m.last - 1) /\ j \in Slots
        BY <3>1, <2>1, <1>2, ConfOK, SMTT(60) DEF WorkerSlots
      <4>2. t.m.tab[j] = s.m.tab[j]
        BY <2>1, <3>1, <4>1
      <4> QED BY <3>1, <4>1, <4>2 DEF WorkerSlots
    <3>2. ASSUME NEW j \in W PROVE j \in V
      <4>1. t.m.tab[j] = s.m.tab[j] /\ j \in 0..(s.m.last - 1)
        BY <2>1, <2>8 DEF WorkerSlots
      <4>2. j \in 0..(t.m.last - 1)
        BY <4>1, <2>1, <1>2
      <4> QED BY <4>1, <4>2 DEF WorkerSlots
    <3>3. i \in V <=> kind = "worker"
      <4>1. i \in 0..(t.m.last - 1)
        BY <2>1, <1>2, SMTT(60)
      <4> QED BY <2>1, <2>4, <4>1 DEF WorkerSlots
    <3> HIDE DEF W, V
    <3> QED BY <3>1, <3>2, <3>3
  <2>10. ASSUME NEW j \in V
         PROVE  /\ t.m.tab[j].respawn /\ t.k[t.m.tab[j].pid].st # "reaped"
                /\ (t.m.tab[j].just \/ ~again => ~t.m.tab[j].exiting)
                /\ (t.m.tab[j].just => again)
    <3>1. CASE j \in W
      <4>1. t.m.tab[j] = s.m.tab[j] /\ s.m.tab[j].pid \in DOMAIN s.k
        BY <2>1, <2>8, <3>1
      <4> QED BY <2>4, <2>5, <3>1, <4>1 DEF StartedCore
    <3>2. CASE j = i /\ kind = "worker"
      BY <3>2, <2>1, <2>2, <2>4
    <3>3. j \in W \/ (j = i /\ kind = "worker")
      <4> HIDE DEF W, V, i
      <4> QED BY <2>9, <2>10
    <3> QED BY <3>1, <3>2, <3>3
  <2>11. Fresh(t.m, again) = IF kind = "worker" THEN Fresh(s.m, again) \cup {i}
                             ELSE Fresh(s.m, again)
    <3>1. \A j \in W : t.m.tab[j].just = s.m.tab[j].just
      BY <2>1, <2>8
    <3>2. kind = "worker" => (again => t.m.tab[i].just)
      BY <2>1
    <3> QED BY <2>9, <3>1, <3>2 DEF Fresh
  <2>12. Cardinality(Fresh(t.m, again)) = IF kind = "worker" THEN n + 1 ELSE n
    <3>1. IsFiniteSet(Fresh(s.m, again)) /\ Cardinality(Fresh(s.m, again)) = n
      BY <2>5, FiniteSlots DEF StartedCore
    <3>2. i \notin Fresh(s.m, again)
      BY <2>7 DEF Fresh
    <3>3. Cardinality(Fresh(s.m, again) \cup {i}) = n + 1
      BY <3>1, <3>2, FS_AddElement
    <3> QED BY <2>11, <3>1, <3>3
  <2> QED BY <1>3, <2>5, <2>6, <2>10, <2>12 DEF StartedCore, Started, FlagsKept, t
<1> QED BY <1>4, <1>5

LEMMA SpawnAndPassStarts ==
  ASSUME conf \in Scenarios, NEW s, Sound(s), NEW kind \in Kinds,
         NEW type \in DOMAIN SpawnTypes, type # "detached", NEW again \in BOOLEAN,
         kind = "worker" => SpawnTypes[type].respawn /\ SpawnTypes[type].just = again,
         NEW n \in Nat, Started(s, n, again)
  PROVE  Started(SpawnAndPass(s, kind, type), IF kind = "worker" THEN n + 1 ELSE n, again)
<1> DEFINE t == Spawn(s, kind, type)
           u == PassOpenChannel(t, t.slot)
           k == IF kind = "worker" THEN n + 1 ELSE n
<1>1. Onward(s, t)
  BY SpawnSound
<1>2. SpawnAndPass(s, kind, type) = IF t.ok THEN u ELSE t
  BY DEF SpawnAndPass
<1>3. Started(t, k, again)
  BY SpawnStarts
<1> HIDE DEF t, k
<1>4. Sound(t) /\ t \in StateType
  BY <1>1 DEF Onward, Sound
<1>5. Carries(t, u)
  BY <1>4, PassCarries
<1> HIDE DEF u
<1>6. Started(u, k, again)
  BY <1>3, <1>4, <1>5, StartedCarries
<1> QED BY <1>2, <1>3, <1>6 DEF k

\* ngx_start_worker_processes()
LEMMA StartWorkersStarts ==
  ASSUME conf \in Scenarios, NEW s, Sound(s), NEW again \in BOOLEAN, Started(s, 0, again)
  PROVE  Started(StartWorkers(s, IF again THEN "just_respawn" ELSE "respawn"),
                 conf.workers, again)
<1> DEFINE N == conf.workers
           S == StateType
           type == IF again THEN "just_respawn" ELSE "respawn"
           T == [n \in 0..N |-> {x \in S : Sound(x) /\ Started(x, n, again)}]
           Do(x) == SpawnAndPass(x, "worker", type)
           run[n \in 0..N] == IF n = 0 THEN s ELSE Do(run[n - 1])
           g == [n \in 1..N |-> [x \in S |-> IF x \in T[n - 1] THEN Do(x) ELSE x]]
<1> HIDE DEF run
<1>1. StartWorkers(s, type) = run[N]
  BY DEF StartWorkers, run
<1>2. N \in Nat
  BY ConfOK
<1>3. s \in S /\ s \in T[0]
  BY <1>2 DEF Sound
<1>4. ASSUME NEW n \in 1..N, NEW x \in T[n - 1] PROVE Do(x) \in T[n]
  <2>1. n - 1 \in Nat /\ n - 1 \in 0..N /\ (n - 1) + 1 = n /\ n \in 0..N
    BY <1>2
  <2>2. Sound(x) /\ Started(x, n - 1, again) /\ "worker" \in Kinds
    BY <2>1 DEF Kinds
  <2>3. /\ type \in DOMAIN SpawnTypes /\ type # "detached"
        /\ SpawnTypes[type].respawn /\ SpawnTypes[type].just = again
    BY DEF SpawnTypes
  <2> HIDE DEF type
  <2>4. Onward(x, Do(x))
    BY <2>2, <2>3, SpawnAndPassSound
  <2> DEFINE i == n - 1
  <2>5. Started(Do(x), i + 1, again)
    <3>1. i \in Nat /\ Started(x, i, again)
      BY <2>1, <2>2
    <3> HIDE DEF i
    <3> QED BY <3>1, <2>2, <2>3, SpawnAndPassStarts
  <2>6. Started(Do(x), n, again)
    BY <2>1, <2>5
  <2> HIDE DEF Do
  <2> QED BY <2>1, <2>4, <2>6 DEF Onward, Sound
<1>5. \A n \in 0..N : T[n] \subseteq S /\ \A x \in T[n] : Started(x, n, again)
  OBVIOUS
<1> HIDE DEF N, S, Do, T
<1>6. /\ g \in [1..N -> [S -> S]]
      /\ \A n \in 1..N, x \in S : x \in T[n - 1] => g[n][x] = Do(x)
  <2>1. \A n \in 1..N, x \in S : (IF x \in T[n - 1] THEN Do(x) ELSE x) \in S
    BY <1>2, <1>4, <1>5
  <2> QED BY <2>1
<1> HIDE DEF g
<1>7. PICK f : IsLoop(f, N, S, s, g)
  BY <1>2, <1>3, <1>6, LoopExists
<1>8. f[0] = s /\ \A n \in 1..N : f[n - 1] \in S /\ f[n] = g[n][f[n - 1]]
  BY <1>2, <1>7 DEF IsLoop
<1>9. \A n \in 0..N : f[n] \in T[n]
  <2>1. f[0] \in T[0]
    BY <1>3, <1>8
  <2>2. \A n \in 1..N : f[n - 1] \in T[n - 1] => f[n] \in T[n]
    BY <1>4, <1>6, <1>8
  <2> QED BY <2>1, <2>2, <1>2, LoopInvariant
<1>10. f = [n \in 0..N |-> IF n = 0 THEN s ELSE Do(f[n - 1])]
  <2>1. \A n \in 0..N : n = 0 \/ (n \in 1..N /\ n - 1 \in 0..N)
    BY <1>2
  <2>2. \A n \in 1..N : f[n] = Do(f[n - 1])
    BY <1>2, <1>6, <1>8, <1>9
  <2> QED BY <2>1, <2>2, <1>7 DEF IsLoop
<1>11. run = [n \in 0..N |-> IF n = 0 THEN s ELSE Do(run[n - 1])]
  BY <1>10, Zenon DEF run
<1>12. run[0] = s /\ \A n \in 1..N : run[n] = Do(run[n - 1])
  BY <1>2, <1>11
<1>13. \A n \in 0..N : run[n] \in T[n]
  <2>1. run[0] \in T[0]
    BY <1>3, <1>12
  <2>2. \A n \in 1..N : run[n - 1] \in T[n - 1] => run[n] \in T[n]
    BY <1>4, <1>12
  <2> QED BY <2>1, <2>2, <1>2, LoopInvariant
<1>14. Started(run[N], N, again)
  BY <1>2, <1>5, <1>13
<1> QED BY <1>1, <1>14 DEF N

\* ... and the cache manager and loader.
LEMMA StartAllStarts ==
  ASSUME conf \in Scenarios, NEW s, Sound(s), NEW again \in BOOLEAN, Started(s, 0, again)
  PROVE  Started(StartAll(s, again), conf.workers, again)
<1> DEFINE w == StartWorkers(s, IF again THEN "just_respawn" ELSE "respawn")
           m == SpawnAndPass(w, "manager", IF again THEN "just_respawn" ELSE "respawn")
           l == SpawnAndPass(m, "loader", IF again THEN "just_spawn" ELSE "norespawn")
           N == conf.workers
<1>1. StartAll(s, again) = IF ~conf.cache THEN w ELSE l
  BY DEF StartAll, StartCacheManagers
<1>2. /\ {"just_respawn", "respawn", "just_spawn", "norespawn"} \subseteq DOMAIN SpawnTypes
      /\ {"manager", "loader"} \subseteq Kinds /\ N \in Nat
  BY SpawnTypesType, ConfOK DEF Kinds
<1>3. Onward(s, w) /\ Started(w, N, again)
  BY <1>2, StartWorkersSound, StartWorkersStarts
<1> HIDE DEF w, N
<1>4. Onward(w, m) /\ Started(m, N, again)
  <2> DEFINE type == IF again THEN "just_respawn" ELSE "respawn"
  <2>1. type \in DOMAIN SpawnTypes /\ type # "detached" /\ "manager" # "worker"
    BY <1>2
  <2> HIDE DEF type
  <2>2. Onward(w, SpawnAndPass(w, "manager", type))
    BY <1>2, <1>3, <2>1, SpawnAndPassSound DEF Onward
  <2>3. Started(SpawnAndPass(w, "manager", type), N, again)
    BY <1>2, <1>3, <2>1, SpawnAndPassStarts DEF Onward
  <2> QED BY <2>2, <2>3 DEF type
<1> HIDE DEF m
<1>5. Started(l, N, again)
  <2> DEFINE type == IF again THEN "just_spawn" ELSE "norespawn"
  <2>1. type \in DOMAIN SpawnTypes /\ type # "detached" /\ "loader" # "worker"
    BY <1>2
  <2> HIDE DEF type
  <2>2. Started(SpawnAndPass(m, "loader", type), N, again)
    BY <1>2, <1>4, <2>1, SpawnAndPassStarts DEF Onward
  <2> QED BY <2>2 DEF type
<1> HIDE DEF l
<1> QED BY <1>1, <1>3, <1>5 DEF N

(***************************************************************************)
(* Signalling                                                              *)
(***************************************************************************)

\* One entry and the children after one turn of the loop.
OneSet(s, i, f, l, b) ==
  [s EXCEPT !.k = l,
            !.m = [s.m EXCEPT !.tab = [s.m.tab EXCEPT ![i] = f], !.reap = b]]

LEMMA OneEntry ==
  ASSUME conf \in Scenarios, NEW s, Sound(s), NEW i \in Slots, NEW f, NEW l, NEW b
  PROVE  LET t == OneSet(s, i, f, l, b) IN
         /\ t.k = l /\ t.m.last = s.m.last /\ t.m.tab[i] = f
         /\ \A j \in Slots : j # i => t.m.tab[j] = s.m.tab[j]
         /\ SameNotes(s, t)
<1> DEFINE tab == [s.m.tab EXCEPT ![i] = f]
           n == [s.m EXCEPT !.tab = tab, !.reap = b]
           t == [s EXCEPT !.k = l, !.m = n]
<1>1. s \in StateType /\ s.m \in MasterType
  BY DEF Sound, StateType
<1>2. s.m.tab \in [Slots -> ProcessType]
  BY <1>1 DEF MasterType
<1>3. tab[i] = f /\ \A j \in Slots : j # i => tab[j] = s.m.tab[j]
  BY <1>2
<1>4. OneSet(s, i, f, l, b) = t
  BY DEF OneSet
<1> HIDE DEF tab
<1>5. n.tab = tab /\ n.last = s.m.last
  BY <1>1 DEF MasterType
<1> HIDE DEF n
<1>6. t.k = l /\ t.m = n /\ SameNotes(s, t)
  BY <1>1 DEF StateType, SameNotes
<1> HIDE DEF t
<1> QED BY <1>3, <1>4, <1>5, <1>6

\* A state in which nothing but the children differs.
LEMMA SameEntry ==
  ASSUME conf \in Scenarios, NEW s, Sound(s), NEW i \in Slots, NEW l
  PROVE  [s EXCEPT !.k = l] = OneSet(s, i, s.m.tab[i], l, s.m.reap)
<1>1. s \in StateType /\ s.m \in MasterType
  BY DEF Sound, StateType
<1>2. s.m.tab \in [Slots -> ProcessType]
  BY <1>1 DEF MasterType
<1>3. [s.m.tab EXCEPT ![i] = s.m.tab[i]] = s.m.tab
  BY <1>2
<1>4. [s.m EXCEPT !.tab = s.m.tab, !.reap = s.m.reap] = s.m
  BY <1>1 DEF MasterType
<1>5. [s EXCEPT !.k = l, !.m = s.m] = [s EXCEPT !.k = l]
  BY <1>1 DEF StateType
<1> QED BY <1>3, <1>4, <1>5 DEF OneSet

\* ... and that it is to exit.
LEMMA ExitingEntry ==
  ASSUME conf \in Scenarios, NEW s, Sound(s), NEW i \in Slots, NEW l
  PROVE  [[s EXCEPT !.k = l] EXCEPT !.m.tab[i].exiting = TRUE]
           = OneSet(s, i, [s.m.tab[i] EXCEPT !.exiting = TRUE], l, s.m.reap)
<1> DEFINE x == [s.m.tab[i] EXCEPT !.exiting = TRUE]
           tab == [s.m.tab EXCEPT ![i] = x]
           n == [s.m EXCEPT !.tab = tab]
           u == [s EXCEPT !.k = l]
<1>1. s \in StateType /\ s.m \in MasterType
  BY DEF Sound, StateType
<1>2. u.m = s.m
  BY <1>1 DEF StateType
<1>3. [u EXCEPT !.m.tab[i].exiting = TRUE]
        = [u EXCEPT !.m = [u.m EXCEPT !.tab = [u.m.tab EXCEPT ![i] =
             [u.m.tab[i] EXCEPT !.exiting = TRUE]]]]
  OBVIOUS
<1>4. [u EXCEPT !.m.tab[i].exiting = TRUE] = [u EXCEPT !.m = n]
  BY <1>2, <1>3
<1> HIDE DEF tab
<1>5. n = [s.m EXCEPT !.tab = tab, !.reap = s.m.reap]
  BY <1>1 DEF MasterType
<1> HIDE DEF n
<1>6. [u EXCEPT !.m = n] = [s EXCEPT !.k = l, !.m = n]
  BY <1>1 DEF StateType
<1> QED BY <1>4, <1>5, <1>6 DEF OneSet, tab

\* ngx_signal_worker_processes() for one slot: a worker that was just started
\* loses the mark, any other one is told to exit.
SignalledTo(s, i, cmd, l, f) ==
  LET e == s.m.tab[i] IN
  /\ KidsSame(s.k, l)
  /\ f.pid = e.pid /\ f.kind = e.kind /\ f.respawn = e.respawn
  /\ i \in WorkerSlots(s.m) /\ s.k[e.pid].st # "reaped" =>
       /\ f.exited = e.exited /\ ~f.just
       /\ f.exiting = (e.exiting \/ (~e.just /\ cmd = "quit"))

LEMMA SignalOneEffect ==
  ASSUME conf \in Scenarios, NEW s, Sound(s), NEW i \in Slots,
         NEW cmd \in {"quit", "reopen"}
  PROVE  LET t == SignalOne(s, i, cmd) IN
         /\ SignalledTo(s, i, cmd, t.k, t.m.tab[i]) /\ t.m.last = s.m.last
         /\ \A j \in Slots : j # i => t.m.tab[j] = s.m.tab[j]
<1> DEFINE e == s.m.tab[i]
           msg == [cmd |-> cmd, slot |-> i, chan |-> None]
           t == SignalOne(s, i, cmd)
           r == s.m.reap
           x == [e EXCEPT !.exiting = TRUE]
           f == IF cmd = "reopen" THEN e ELSE x
<1>1. s \in StateType /\ s.m \in MasterType /\ s.k \in Seq(KidType)
  BY DEF Sound, StateType
<1>2. /\ s.m.tab \in [Slots -> ProcessType] /\ e \in ProcessType
      /\ s.m.last \in 0..conf.slots /\ Len(s.k) \in Nat /\ DOMAIN s.k = 1..Len(s.k)
  BY <1>1 DEF MasterType
<1>3. e.pid \in 0..Len(s.k) /\ e.chan <= Len(s.k) /\ e.chan \in Int
  BY <1>2 DEF Sound, Bounds, ProcessType, Chans, Stale
<1>4. i \in WorkerSlots(s.m) => ~(i >= s.m.last \/ e.detached \/ e.pid = None)
  BY <1>2, SlotPid DEF WorkerSlots
<1>5. /\ e.just \in BOOLEAN /\ e.exiting \in BOOLEAN
      /\ x.exiting = TRUE /\ x.pid = e.pid /\ x.kind = e.kind /\ x.respawn = e.respawn
      /\ x.exited = e.exited /\ x.just = e.just
  BY <1>2 DEF ProcessType
<1>6. CASE i >= s.m.last \/ e.detached \/ e.pid = None
           \/ (~e.just /\ e.exiting /\ cmd = "quit")
  <2>1. t = s
    BY <1>6 DEF SignalOne
  <2> QED BY <1>4, <1>5, <1>6, <2>1, SMTT(60) DEF SignalledTo, KidsSame
<1>7. CASE ~(i >= s.m.last \/ e.detached \/ e.pid = None) /\ e.just
  <2> DEFINE y == [e EXCEPT !.just = FALSE]
             v == OneSet(s, i, y, s.k, r)
  <2>1. t = v
    BY <1>1, <1>7, ZenonT(60) DEF SignalOne, StateType, MasterType, OneSet
  <2>2. /\ y.just = FALSE /\ y.pid = e.pid /\ y.kind = e.kind /\ y.respawn = e.respawn
        /\ y.exited = e.exited /\ y.exiting = e.exiting
    BY <1>2 DEF ProcessType
  <2> HIDE DEF y, t
  <2>3. /\ v.k = s.k /\ v.m.last = s.m.last /\ v.m.tab[i] = y
        /\ \A j \in Slots : j # i => v.m.tab[j] = s.m.tab[j]
    BY OneEntry
  <2>4. SignalledTo(s, i, cmd, s.k, y)
    BY <1>5, <1>7, <2>2 DEF SignalledTo, KidsSame
  <2> HIDE DEF v
  <2> QED BY <2>1, <2>3, <2>4 DEF t
<1>8. CASE /\ ~(i >= s.m.last \/ e.detached \/ e.pid = None) /\ ~e.just
           /\ ~(e.exiting /\ cmd = "quit")
  <2>0. ASSUME NEW q \in DOMAIN s.k, NEW c, c.code2 = s.k[q].code2,
               c.st = "reaped" <=> s.k[q].st = "reaped",
               t = OneSet(s, i, f, [s.k EXCEPT ![q] = c], r)
        PROVE  /\ SignalledTo(s, i, cmd, t.k, t.m.tab[i]) /\ t.m.last = s.m.last
               /\ \A j \in Slots : j # i => t.m.tab[j] = s.m.tab[j]
    <3> DEFINE l == [s.k EXCEPT ![q] = c]
    <3> HIDE DEF f, t
    <3>1. KidsSame(s.k, l)
      BY <2>0 DEF KidsSame
    <3> HIDE DEF l
    <3>2. /\ t.k = l /\ t.m.last = s.m.last /\ t.m.tab[i] = f
          /\ \A j \in Slots : j # i => t.m.tab[j] = s.m.tab[j]
      <4>1. t = OneSet(s, i, f, l, r)
        BY <2>0 DEF l
      <4> QED BY <4>1, OneEntry
    <3>3. SignalledTo(s, i, cmd, l, f)
      BY <1>5, <1>8, <3>1 DEF SignalledTo, f
    <3> QED BY <3>2, <3>3
  <2>1. CASE Writable(s, e.chan)
    <3> DEFINE k == s.k[e.chan]
               q == Append(k.mail, msg)
               c == [k EXCEPT !.mail = q]
    <3>1. e.chan \in DOMAIN s.k
      BY <1>2, <1>3, <2>1 DEF Writable
    <3>2. t = OneSet(s, i, f, [s.k EXCEPT ![e.chan] = c], r)
      <4> DEFINE l == [s.k EXCEPT ![e.chan] = c]
      <4>1. t = IF cmd = "reopen" THEN [s EXCEPT !.k = l]
                ELSE [[s EXCEPT !.k = l] EXCEPT !.m.tab[i].exiting = TRUE]
        BY <1>8, <2>1 DEF SignalOne
      <4> HIDE DEF l, t
      <4> QED BY <4>1, SameEntry, ExitingEntry, ZenonT(60) DEF l
    <3>3. k \in KidType
      BY <3>1, <1>1
    <3> HIDE DEF k, q
    <3>4. c.code2 = k.code2 /\ c.st = k.st
      BY <3>3 DEF KidType
    <3> HIDE DEF c, f, t
    <3> QED BY <3>1, <3>2, <3>4, <2>0 DEF k, t
  <2>2. CASE ~Writable(s, e.chan) /\ s.k[e.pid].st = "reaped"
    <3> DEFINE y == [e EXCEPT !.exited = TRUE, !.exiting = FALSE]
               yes == TRUE
               v == OneSet(s, i, y, s.k, yes)
    <3>1. t = v
      BY <1>1, <1>8, <2>2 DEF SignalOne, StateType, MasterType, OneSet
    <3>2. y.pid = e.pid /\ y.kind = e.kind /\ y.respawn = e.respawn
      BY <1>2 DEF ProcessType
    <3> HIDE DEF y, t, yes
    <3>3. /\ v.k = s.k /\ v.m.last = s.m.last /\ v.m.tab[i] = y
          /\ \A j \in Slots : j # i => v.m.tab[j] = s.m.tab[j]
      BY OneEntry
    <3>4. SignalledTo(s, i, cmd, s.k, y)
      BY <2>2, <3>2 DEF SignalledTo, KidsSame
    <3> HIDE DEF v
    <3> QED BY <3>1, <3>3, <3>4 DEF t
  <2>3. CASE ~Writable(s, e.chan) /\ s.k[e.pid].st # "reaped"
    <3> DEFINE k == s.k[e.pid]
               c == Kill(k, cmd)
    <3>1. e.pid \in DOMAIN s.k
      BY <1>2, <1>3, <1>8 DEF None
    <3>2. t = OneSet(s, i, f, [s.k EXCEPT ![e.pid] = c], r)
      <4> DEFINE l == [s.k EXCEPT ![e.pid] = c]
      <4>1. t = IF cmd = "reopen" THEN [s EXCEPT !.k = l]
                ELSE [[s EXCEPT !.k = l] EXCEPT !.m.tab[i].exiting = TRUE]
        BY <1>8, <2>3 DEF SignalOne
      <4> HIDE DEF l, t
      <4> QED BY <4>1, SameEntry, ExitingEntry, ZenonT(60) DEF l
    <3>3. k \in KidType
      BY <3>1, <1>1
    <3> HIDE DEF k
    <3>4. c.code2 = k.code2 /\ c.st = k.st
      <4>1. c = k \/ c = [k EXCEPT !.quit = TRUE]
        BY DEF Kill
      <4> HIDE DEF c
      <4> QED BY <3>3, <4>1 DEF KidType
    <3> HIDE DEF c, f, t
    <3> QED BY <3>1, <3>2, <3>4, <2>0 DEF k, t
  <2> QED BY <2>1, <2>2, <2>3
<1> QED BY <1>5, <1>6, <1>7, <1>8

\* The loop of ngx_signal_worker_processes(): T[n] holds with n slots done.
LEMMA SignalLoop ==
  ASSUME conf \in Scenarios, NEW s, NEW cmd, NEW T,
         T \in [0..conf.slots -> SUBSET StateType], s \in T[0],
         \A n \in 1..conf.slots : \A x \in T[n - 1] : SignalOne(x, n - 1, cmd) \in T[n]
  PROVE  SignalWorkers(s, cmd) \in T[conf.slots]
<1> DEFINE N == conf.slots
           S == StateType
           Do(x, n) == SignalOne(x, n - 1, cmd)
           run[n \in 0..N] == IF n = 0 THEN s ELSE Do(run[n - 1], n)
           g == [n \in 1..N |-> [x \in S |-> IF x \in T[n - 1] THEN Do(x, n) ELSE x]]
<1> HIDE DEF run
<1>1. SignalWorkers(s, cmd) = run[N]
  BY DEF SignalWorkers, run
<1>2. N \in Nat
  BY ConfOK
<1>3. s \in S /\ s \in T[0]
  BY <1>2
<1>4. \A n \in 1..N : \A x \in T[n - 1] : Do(x, n) \in T[n]
  OBVIOUS
<1>5. \A n \in 0..N : T[n] \subseteq S
  OBVIOUS
<1> HIDE DEF N, S, Do
<1>6. /\ g \in [1..N -> [S -> S]]
      /\ \A n \in 1..N, x \in S : x \in T[n - 1] => g[n][x] = Do(x, n)
  <2>1. \A n \in 1..N, x \in S : (IF x \in T[n - 1] THEN Do(x, n) ELSE x) \in S
    BY <1>2, <1>4, <1>5
  <2> QED BY <2>1
<1> HIDE DEF g
<1>7. PICK f : IsLoop(f, N, S, s, g)
  BY <1>2, <1>3, <1>6, LoopExists
<1>8. f[0] = s /\ \A n \in 1..N : f[n - 1] \in S /\ f[n] = g[n][f[n - 1]]
  BY <1>2, <1>7 DEF IsLoop
<1>9. \A n \in 0..N : f[n] \in T[n]
  <2>1. f[0] \in T[0]
    BY <1>3, <1>8
  <2>2. \A n \in 1..N : f[n - 1] \in T[n - 1] => f[n] \in T[n]
    BY <1>4, <1>6, <1>8
  <2> QED BY <2>1, <2>2, <1>2, LoopInvariant
<1>10. f = [n \in 0..N |-> IF n = 0 THEN s ELSE Do(f[n - 1], n)]
  <2>1. \A n \in 0..N : n = 0 \/ (n \in 1..N /\ n - 1 \in 0..N)
    BY <1>2
  <2>2. \A n \in 1..N : f[n] = Do(f[n - 1], n)
    BY <1>2, <1>6, <1>8, <1>9
  <2> QED BY <2>1, <2>2, <1>7 DEF IsLoop
<1>11. run = [n \in 0..N |-> IF n = 0 THEN s ELSE Do(run[n - 1], n)]
  BY <1>10, Zenon DEF run
<1>12. run[0] = s /\ \A n \in 1..N : run[n] = Do(run[n - 1], n)
  BY <1>2, <1>11
<1>13. \A n \in 0..N : run[n] \in T[n]
  <2>1. run[0] \in T[0]
    BY <1>3, <1>12
  <2>2. \A n \in 1..N : run[n - 1] \in T[n - 1] => run[n] \in T[n]
    BY <1>4, <1>12
  <2> QED BY <2>1, <2>2, <1>2, LoopInvariant
<1>14. run[N] \in T[N]
  BY <1>2, <1>13
<1> QED BY <1>1, <1>14 DEF N

\* Of the n slots done, the workers that are not told to exit; of the others,
\* those that were just started and will not be told.
Staying(m, n) ==
  {i \in WorkerSlots(m) : IF i < n THEN ~m.tab[i].exiting ELSE m.tab[i].just}
ToldCore(s, n) ==
  /\ ~s.m.restart /\ NoCode2(s.k)
  /\ \A i \in WorkerSlots(s.m) :
       /\ s.m.tab[i].respawn /\ s.k[s.m.tab[i].pid].st # "reaped"
       /\ s.m.tab[i].just => i >= n /\ ~s.m.tab[i].exiting
  /\ Cardinality(Staying(s.m, n)) = conf.workers
Told(s, n) == Off(s) \/ ToldCore(s, n)

\* A slot's children and entries that stay.
LEMMA SignalSame ==
  ASSUME conf \in Scenarios, NEW x, Sound(x), NEW i \in Slots,
         NEW cmd \in {"quit", "reopen"}
  PROVE  LET t == SignalOne(x, i, cmd) IN
         /\ Still(x, t) /\ WorkerSlots(t.m) = WorkerSlots(x.m)
         /\ KidsSame(x.k, t.k) /\ SignalledTo(x, i, cmd, t.k, t.m.tab[i])
         /\ \A j \in WorkerSlots(x.m) : /\ j # i => t.m.tab[j] = x.m.tab[j]
                                        /\ t.m.tab[j].pid = x.m.tab[j].pid
                                        /\ t.m.tab[j].respawn = x.m.tab[j].respawn
                                        /\ x.m.tab[j].pid \in DOMAIN x.k
<1> DEFINE t == SignalOne(x, i, cmd)
<1>1. Still(x, t)
  BY SignalOneSound DEF Commands
<1>2. /\ SignalledTo(x, i, cmd, t.k, t.m.tab[i]) /\ t.m.last = x.m.last
      /\ \A j \in Slots : j # i => t.m.tab[j] = x.m.tab[j]
  BY SignalOneEffect
<1> HIDE DEF t
<1>3. /\ KidsSame(x.k, t.k) /\ t.m.tab[i].pid = x.m.tab[i].pid
      /\ t.m.tab[i].kind = x.m.tab[i].kind /\ t.m.tab[i].respawn = x.m.tab[i].respawn
  BY <1>2 DEF SignalledTo
<1>4. x.m.last \in 0..conf.slots
  BY DEF Sound, StateType, MasterType
<1>5. \A j \in 0..(x.m.last - 1) : j \in Slots
  BY <1>4, ConfOK
<1>6. WorkerSlots(t.m) = WorkerSlots(x.m)
  BY <1>2, <1>3, <1>5 DEF WorkerSlots
<1>7. \A j \in WorkerSlots(x.m) : j \in Slots /\ x.m.tab[j].pid \in DOMAIN x.k
  BY SlotPid
<1> QED BY <1>1, <1>2, <1>3, <1>6, <1>7 DEF t

LEMMA QuitOne ==
  ASSUME conf \in Scenarios, NEW x, Sound(x), NEW n \in Slots, Told(x, n)
  PROVE  LET t == SignalOne(x, n, "quit") IN Still(x, t) /\ Told(t, n + 1)
<1> DEFINE t == SignalOne(x, n, "quit")
           W == WorkerSlots(x.m)
<1>1. /\ Still(x, t) /\ WorkerSlots(t.m) = W
      /\ KidsSame(x.k, t.k) /\ SignalledTo(x, n, "quit", t.k, t.m.tab[n])
      /\ \A j \in W : /\ j # n => t.m.tab[j] = x.m.tab[j]
                      /\ t.m.tab[j].pid = x.m.tab[j].pid
                      /\ t.m.tab[j].respawn = x.m.tab[j].respawn
                      /\ x.m.tab[j].pid \in DOMAIN x.k
  BY SignalSame
<1> HIDE DEF t
<1>2. CASE Off(x)
  BY <1>1, <1>2, SMTT(60) DEF Off, Told, Still, Onward, FlagsKept, t
<1>3. CASE ToldCore(x, n)
  <2>1. NoCode2(t.k)
    BY <1>1, <1>3 DEF NoCode2, ToldCore, KidsSame
  <2>2. \A j \in W : j \in Nat /\ x.m.tab[j] \in ProcessType
    BY SlotPid
  <2>2a. \A j \in W : x.m.tab[j].just \in BOOLEAN /\ x.m.tab[j].exiting \in BOOLEAN
    <3> TAKE j \in W
    <3> DEFINE e == x.m.tab[j]
    <3>1. e \in ProcessType
      BY <2>2
    <3> HIDE DEF e
    <3>2. e.just \in BOOLEAN /\ e.exiting \in BOOLEAN
      BY <3>1 DEF ProcessType
    <3> QED BY <3>2 DEF e
  <2>3. n \in Nat
    BY ConfOK
  <2>4. n \in W => ~t.m.tab[n].just /\ t.m.tab[n].exiting = ~x.m.tab[n].just
    <3> SUFFICES ASSUME n \in W PROVE ~t.m.tab[n].just /\ t.m.tab[n].exiting = ~x.m.tab[n].just
      BY SMTT(60)
    <3>1. x.k[x.m.tab[n].pid].st # "reaped" /\ (x.m.tab[n].just => ~x.m.tab[n].exiting)
      BY <1>3, SMTT(60) DEF ToldCore
    <3>1a. SignalledTo(x, n, "quit", t.k, t.m.tab[n])
      BY <1>1
    <3>2. /\ ~t.m.tab[n].just
          /\ t.m.tab[n].exiting = (x.m.tab[n].exiting \/ ~x.m.tab[n].just)
      BY <3>1, <3>1a, SMTT(60) DEF SignalledTo
    <3> QED BY <3>1, <3>2, <2>2a
  <2>5. ASSUME NEW j \in W
        PROVE  /\ t.m.tab[j].respawn /\ t.k[t.m.tab[j].pid].st # "reaped"
               /\ (t.m.tab[j].just => j >= n + 1 /\ ~t.m.tab[j].exiting)
    <3>1. /\ x.m.tab[j].respawn /\ x.k[x.m.tab[j].pid].st # "reaped"
          /\ (x.m.tab[j].just => j >= n /\ ~x.m.tab[j].exiting)
      BY <1>3, SMTT(60) DEF ToldCore
    <3>1a. /\ t.m.tab[j].pid = x.m.tab[j].pid /\ x.m.tab[j].pid \in DOMAIN x.k
           /\ t.m.tab[j].respawn = x.m.tab[j].respawn /\ KidsSame(x.k, t.k)
      BY <1>1
    <3>2. t.m.tab[j].respawn /\ t.k[t.m.tab[j].pid].st # "reaped"
      BY <3>1, <3>1a DEF KidsSame
    <3>3. t.m.tab[j].just => j >= n + 1 /\ ~t.m.tab[j].exiting
      BY <1>1, <2>2, <2>3, <2>4, <3>1
    <3> QED BY <3>2, <3>3, SMTT(60)
  <2>6. Staying(t.m, n + 1) = Staying(x.m, n)
    <3>1. ASSUME NEW j \in W
          PROVE  (IF j < n + 1 THEN ~t.m.tab[j].exiting ELSE t.m.tab[j].just)
                   <=> (IF j < n THEN ~x.m.tab[j].exiting ELSE x.m.tab[j].just)
      <4>1. CASE j = n
        <5>1. j < n + 1 /\ ~(j < n)
          BY <4>1, <2>3
        <5>2. ~t.m.tab[j].exiting <=> x.m.tab[j].just
          BY <4>1, <2>2a, <2>4
        <5> QED BY <5>1, <5>2, Zenon
      <4>2. CASE j # n
        BY <4>2, <1>1, <2>2, <2>3
      <4> QED BY <4>1, <4>2
    <3> QED BY <1>1, <3>1 DEF Staying
  <2> QED BY <1>1, <1>3, <2>1, <2>5, <2>6 DEF ToldCore, Told, Still, Onward, FlagsKept, t
<1> QED BY <1>2, <1>3 DEF Told

LEMMA ReopenOne ==
  ASSUME conf \in Scenarios, NEW x, Sound(x), NEW n \in Slots, WorkersAt(x, conf.slots)
  PROVE  LET t == SignalOne(x, n, "reopen") IN Still(x, t) /\ WorkersAt(t, conf.slots)
<1> DEFINE t == SignalOne(x, n, "reopen")
           W == WorkerSlots(x.m)
<1>1. /\ Still(x, t) /\ WorkerSlots(t.m) = W
      /\ KidsSame(x.k, t.k) /\ SignalledTo(x, n, "reopen", t.k, t.m.tab[n])
      /\ \A j \in W : /\ j # n => t.m.tab[j] = x.m.tab[j]
                      /\ t.m.tab[j].pid = x.m.tab[j].pid
                      /\ t.m.tab[j].respawn = x.m.tab[j].respawn
                      /\ x.m.tab[j].pid \in DOMAIN x.k
  BY SignalSame
<1> HIDE DEF t
<1>2. CASE Off(x)
  BY <1>1, <1>2 DEF Off, WorkersAt, Still, Onward, FlagsKept, t
<1>3. CASE Core(x, conf.slots)
  <2>1. NoCode2(t.k)
    BY <1>1, <1>3 DEF NoCode2, Core, KidsSame
  <2>2. \A j \in W : /\ j \in Slots /\ x.k[x.m.tab[j].pid].st # "reaped"
                     /\ x.m.tab[j].exiting \in BOOLEAN
    <3> TAKE j \in W
    <3> DEFINE e == x.m.tab[j]
    <3>1. e \in ProcessType /\ j \in Slots
      BY SlotPid
    <3>2. e.exiting \in BOOLEAN
      <4> HIDE DEF e
      <4> QED BY <3>1 DEF ProcessType
    <3>3. ~(j >= conf.slots)
      BY <3>1, ConfOK, SMTT(60)
    <3>4. x.k[e.pid].st # "reaped"
      BY <1>3, <3>3, SMTT(60) DEF Core, Kept
    <3> QED BY <3>1, <3>2, <3>4
  <2>3. n \in W => /\ t.m.tab[n].exited = x.m.tab[n].exited /\ ~t.m.tab[n].just
                   /\ t.m.tab[n].exiting = x.m.tab[n].exiting
    BY <1>1, <2>2 DEF SignalledTo
  <2>4. \A j \in W : t.m.tab[j].exiting = x.m.tab[j].exiting
    BY <1>1, <2>3
  <2>5. Held(t.m) = Held(x.m)
    BY <1>1, <2>4, SMTT(60) DEF Held
  <2>6. Kept(t, conf.slots)
    <3>1. ASSUME NEW j \in W
          PROVE  /\ t.m.tab[j].respawn /\ ~t.m.tab[j].just
                 /\ t.k[t.m.tab[j].pid].st # "reaped"
      <4>1. x.m.tab[j].respawn /\ ~x.m.tab[j].just
        BY <1>3, SMTT(60) DEF Core, Kept
      <4>2. t.k[t.m.tab[j].pid].st # "reaped"
        BY <1>1, <2>2 DEF KidsSame
      <4>3. t.m.tab[j].respawn = x.m.tab[j].respawn /\ (j # n => t.m.tab[j] = x.m.tab[j])
        BY <1>1
      <4>4. ~t.m.tab[j].just
        BY <2>3, <4>1, <4>3
      <4> QED BY <4>1, <4>2, <4>3, <4>4
    <3>2. WorkerSlots(t.m) = W
      BY <1>1
    <3> HIDE DEF W
    <3> QED BY <3>1, <3>2 DEF Kept
  <2> QED BY <1>1, <1>3, <2>1, <2>5, <2>6 DEF Core, WorkersAt, Still, Onward, FlagsKept, t
<1> QED BY <1>2, <1>3 DEF WorkersAt

\* SIGUSR1 changes nothing about the workers.
LEMMA ReopenKeeps ==
  ASSUME conf \in Scenarios, NEW s, Sound(s), WorkersAt(s, conf.slots)
  PROVE  WorkersAt(SignalWorkers(s, "reopen"), conf.slots)
<1> DEFINE N == conf.slots
           T == [n \in 0..N |-> {x \in StateType : Sound(x) /\ WorkersAt(x, N)}]
<1>1. N \in Nat /\ \A n \in 1..N : n - 1 \in Slots /\ n - 1 \in 0..N /\ n \in 0..N
  BY ConfOK
<1>2. T \in [0..N -> SUBSET StateType] /\ s \in T[0]
  BY <1>1 DEF Sound
<1>3. ASSUME NEW n \in 1..N, NEW x \in T[n - 1]
      PROVE  SignalOne(x, n - 1, "reopen") \in T[n]
  <2>1. Sound(x) /\ WorkersAt(x, N) /\ n - 1 \in Slots
    BY <1>1
  <2>2. LET t == SignalOne(x, n - 1, "reopen") IN Still(x, t) /\ WorkersAt(t, N)
    BY <2>1, ReopenOne
  <2> QED BY <1>1, <2>2 DEF Still, Onward, Sound
<1>4. \A x \in T[N] : WorkersAt(x, N)
  BY <1>1
<1> HIDE DEF T
<1>5. SignalWorkers(s, "reopen") \in T[N]
  BY <1>2, <1>3, SignalLoop
<1> QED BY <1>4, <1>5

\* After a reload the old workers are told to exit and the new ones stay.
LEMMA QuitKeeps ==
  ASSUME conf \in Scenarios, NEW s, Sound(s), Started(s, conf.workers, TRUE)
  PROVE  WorkersAt(SignalWorkers(s, "quit"), conf.slots)
<1> DEFINE N == conf.slots
           T == [n \in 0..N |-> {x \in StateType : Sound(x) /\ Told(x, n)}]
<1>1. N \in Nat /\ \A n \in 1..N : n - 1 \in Slots /\ n - 1 \in 0..N /\ n \in 0..N /\ (n - 1) + 1 = n
  BY ConfOK
<1>2. Told(s, 0)
  <2>1. CASE Off(s)
    BY <2>1 DEF Told
  <2>2. CASE StartedCore(s, conf.workers, TRUE)
    <3>1. \A i \in WorkerSlots(s.m) : i \in Nat
      BY SlotPid
    <3>2. Staying(s.m, 0) = Fresh(s.m, TRUE)
      BY <3>1, SMTT(60) DEF Staying, Fresh
    <3>3. \A i \in WorkerSlots(s.m) :
            /\ s.m.tab[i].respawn /\ s.k[s.m.tab[i].pid].st # "reaped"
            /\ s.m.tab[i].just => i >= 0 /\ ~s.m.tab[i].exiting
      BY <2>2, <3>1 DEF StartedCore
    <3>4. Cardinality(Staying(s.m, 0)) = conf.workers /\ ~s.m.restart /\ NoCode2(s.k)
      BY <2>2, <3>2 DEF StartedCore
    <3> QED BY <3>3, <3>4 DEF Told, ToldCore
  <2> QED BY <2>1, <2>2 DEF Started
<1>3. T \in [0..N -> SUBSET StateType] /\ s \in T[0]
  BY <1>1, <1>2 DEF Sound
<1>4. ASSUME NEW n \in 1..N, NEW x \in T[n - 1]
      PROVE  SignalOne(x, n - 1, "quit") \in T[n]
  <2> DEFINE i == n - 1
  <2>1. Sound(x) /\ Told(x, i) /\ i \in Slots /\ i + 1 = n
    BY <1>1
  <2> HIDE DEF i
  <2>2. LET t == SignalOne(x, i, "quit") IN Still(x, t) /\ Told(t, i + 1)
    BY <2>1, QuitOne
  <2>3. LET t == SignalOne(x, i, "quit") IN t \in StateType /\ Sound(t) /\ Told(t, n)
    BY <2>1, <2>2 DEF Still, Onward, Sound
  <2> QED BY <1>1, <2>3 DEF i
<1>5. \A x \in T[N] : Told(x, N) /\ Sound(x)
  BY <1>1
<1> HIDE DEF T
<1>6. SignalWorkers(s, "quit") \in T[N]
  BY <1>3, <1>4, SignalLoop
<1> DEFINE t == SignalWorkers(s, "quit")
<1> HIDE DEF t
<1>7. Told(t, N) /\ Sound(t)
  BY <1>5, <1>6 DEF t
<1>8. CASE Off(t)
  BY <1>8 DEF WorkersAt, t
<1>9. CASE ToldCore(t, N)
  <2>1. \A i \in WorkerSlots(t.m) : i < N /\ ~(i >= N)
    <3>1. \A i \in WorkerSlots(t.m) : i \in Slots
      BY <1>7, SlotPid
    <3> QED BY <3>1, ConfOK
  <2>2. Staying(t.m, N) = Held(t.m)
    BY <2>1, SMTT(60) DEF Staying, Held
  <2>3. Kept(t, N)
    BY <1>9, <2>1 DEF ToldCore, Kept
  <2> QED BY <1>9, <2>2, <2>3 DEF ToldCore, Core, WorkersAt, t
<1> QED BY <1>7, <1>8, <1>9 DEF Told

(***************************************************************************)
(* The body of the loop                                                    *)
(***************************************************************************)

\* Flags of the master that are of no concern here.
LEMMA FlagsCarry ==
  ASSUME NEW s, NEW t, OnlyFlags(s, t), t.m.restart = s.m.restart,
         s.m.noaccepting => t.m.noaccepting
  PROVE  Carries(s, t)
BY DEF OnlyFlags, Carries, KidsSame, EntrySame, Off

\* Once off, a part of a turn that decides nothing leaves it so.
LEMMA OffOnward ==
  ASSUME NEW s, NEW t, Off(s), Onward(s, t)
  PROVE  Off(t)
BY DEF Off, Onward, FlagsKept

LEMMA CoreStarts ==
  ASSUME conf \in Scenarios, NEW s, Sound(s), WorkersAt(s, conf.slots)
  PROVE  Started(s, 0, TRUE)
<1>1. CASE Off(s)
  BY <1>1 DEF Started
<1>2. CASE Core(s, conf.slots)
  <2>1. \A i \in WorkerSlots(s.m) : ~(i >= conf.slots)
    <3>1. \A i \in WorkerSlots(s.m) : i \in Slots
      BY SlotPid
    <3> QED BY <3>1, ConfOK
  <2>2. Fresh(s.m, TRUE) = {}
    BY <1>2 DEF Core, Kept, Fresh
  <2>3. Cardinality(Fresh(s.m, TRUE)) = 0
    BY <2>2, FS_EmptySet
  <2>4. \A i \in WorkerSlots(s.m) :
          /\ s.m.tab[i].respawn /\ s.k[s.m.tab[i].pid].st # "reaped"
          /\ s.m.tab[i].just \/ ~TRUE => ~s.m.tab[i].exiting
          /\ s.m.tab[i].just => TRUE
    BY <1>2, <2>1 DEF Core, Kept
  <2> QED BY <1>2, <2>3, <2>4 DEF Core, Started, StartedCore
<1> QED BY <1>1, <1>2 DEF WorkersAt

\* A reload: new workers for old ones.
LEMMA ReconfigureKeeps ==
  ASSUME conf \in Scenarios, NEW s, Sound(s), WorkersAt(s, conf.slots),
         NEW confOk \in BOOLEAN
  PROVE  WorkersAt(Reconfigure(s, confOk), conf.slots)
<1> DEFINE n == [s.m EXCEPT !.reconfigure = FALSE]
           a == [s EXCEPT !.m = n]
           d == StartAll(a, TRUE)
           l == [d.m EXCEPT !.live = TRUE]
           b == [d EXCEPT !.m = l]
           c == SignalWorkers(b, "quit")
           t == Reconfigure(s, confOk)
<1>1. s \in StateType /\ s.m \in MasterType
  BY DEF Sound, StateType
<1>2. MasterFlags(s.m, n) /\ n.restart = s.m.restart /\ n.noaccepting = s.m.noaccepting
  BY <1>1 DEF MasterType, MasterFlags
<1>3. t = IF confOk THEN c ELSE a
  BY DEF Reconfigure
<1> HIDE DEF n, t
<1>4. OnlyFlags(s, a) /\ a.m = n
  BY <1>1, <1>2, SetFlags
<1> HIDE DEF a
<1>5. Sound(a) /\ Carries(s, a)
  BY <1>2, <1>4, OnlyFlagsSound, FlagsCarry
<1>6. WorkersAt(a, conf.slots)
  BY <1>5, CarriesKeeps
<1>7. Onward(a, d) /\ Started(d, conf.workers, TRUE)
  BY <1>5, <1>6, CoreStarts, StartAllSound, StartAllStarts
<1> HIDE DEF d
<1>8. Sound(d) /\ d \in StateType /\ d.m \in MasterType
  BY <1>7 DEF Onward, Sound, StateType
<1>9. MasterFlags(d.m, l) /\ l.restart = d.m.restart /\ l.noaccepting = d.m.noaccepting
  BY <1>8 DEF MasterType, MasterFlags
<1> HIDE DEF l
<1>10. OnlyFlags(d, b) /\ b.m = l
  BY <1>8, <1>9, SetFlags
<1> HIDE DEF b
<1>11. Sound(b) /\ Carries(d, b)
  BY <1>8, <1>9, <1>10, OnlyFlagsSound, FlagsCarry
<1>12. Started(b, conf.workers, TRUE)
  BY <1>7, <1>8, <1>11, StartedCarries
<1>13. WorkersAt(c, conf.slots)
  BY <1>11, <1>12, QuitKeeps
<1> QED BY <1>3, <1>6, <1>13 DEF t

\* There is nothing to start again without a new binary.
LEMMA RestartKeeps ==
  ASSUME conf \in Scenarios, NEW s, Sound(s), WorkersAt(s, conf.slots)
  PROVE  WorkersAt(Restart(s), conf.slots)
<1> DEFINE n == [s.m EXCEPT !.restart = FALSE]
           a == [s EXCEPT !.m = n]
           d == StartAll(a, FALSE)
           l == [d.m EXCEPT !.live = TRUE]
           b == [d EXCEPT !.m = l]
           t == Restart(s)
<1>1. s \in StateType /\ s.m \in MasterType
  BY DEF Sound, StateType
<1>2. MasterFlags(s.m, n) /\ n.noaccepting = s.m.noaccepting
  BY <1>1 DEF MasterType, MasterFlags
<1>3. t = IF ~s.m.restart THEN s ELSE b
  BY DEF Restart
<1>4. CASE ~s.m.restart
  BY <1>3, <1>4
<1>5. CASE s.m.restart
  <2>1. Off(s)
    BY <1>5 DEF WorkersAt, Core
  <2> HIDE DEF n, t
  <2>2. OnlyFlags(s, a) /\ a.m = n
    BY <1>1, <1>2, SetFlags
  <2> HIDE DEF a
  <2>3. Sound(a) /\ Off(a)
    BY <1>2, <2>1, <2>2, OnlyFlagsSound DEF Off, OnlyFlags
  <2>4. Onward(a, d) /\ Off(d)
    BY <2>3, StartAllSound, OffOnward
  <2> HIDE DEF d
  <2>5. d \in StateType /\ d.m \in MasterType
    BY <2>4 DEF Onward, Sound, StateType
  <2>6. MasterFlags(d.m, l) /\ l.noaccepting = d.m.noaccepting
    BY <2>5 DEF MasterType, MasterFlags
  <2> HIDE DEF l
  <2>7. OnlyFlags(d, b) /\ b.m = l
    BY <2>5, <2>6, SetFlags
  <2> HIDE DEF b
  <2>8. Off(b)
    BY <2>4, <2>6, <2>7 DEF Off, OnlyFlags
  <2> QED BY <1>3, <1>5, <2>8 DEF WorkersAt, t
<1> QED BY <1>4, <1>5

LEMMA ReopenStepKeeps ==
  ASSUME conf \in Scenarios, NEW s, Sound(s), WorkersAt(s, conf.slots)
  PROVE  WorkersAt(Reopen(s), conf.slots)
<1> DEFINE n == [s.m EXCEPT !.reopen = FALSE]
           a == [s EXCEPT !.m = n]
<1>1. s \in StateType /\ s.m \in MasterType
  BY DEF Sound, StateType
<1>2. MasterFlags(s.m, n) /\ n.restart = s.m.restart /\ n.noaccepting = s.m.noaccepting
  BY <1>1 DEF MasterType, MasterFlags
<1>3. Reopen(s) = IF ~s.m.reopen THEN s ELSE SignalWorkers(a, "reopen")
  BY DEF Reopen
<1> HIDE DEF n
<1>4. OnlyFlags(s, a) /\ a.m = n
  BY <1>1, <1>2, SetFlags
<1> HIDE DEF a
<1>5. Sound(a) /\ Carries(s, a)
  BY <1>2, <1>4, OnlyFlagsSound, FlagsCarry
<1>6. WorkersAt(a, conf.slots)
  BY <1>5, CarriesKeeps
<1>7. WorkersAt(SignalWorkers(a, "reopen"), conf.slots)
  BY <1>5, <1>6, ReopenKeeps
<1> QED BY <1>3, <1>7

\* SIGWINCH: from here on there are no workers.
LEMMA NoAcceptKeeps ==
  ASSUME conf \in Scenarios, NEW s, Sound(s), WorkersAt(s, conf.slots)
  PROVE  WorkersAt(NoAccept(s), conf.slots)
<1> DEFINE n == [s.m EXCEPT !.noaccept = FALSE, !.noaccepting = TRUE]
           a == [s EXCEPT !.m = n]
           b == SignalWorkers(a, "quit")
<1>1. s \in StateType /\ s.m \in MasterType
  BY DEF Sound, StateType
<1>2. MasterFlags(s.m, n) /\ n.noaccepting
  BY <1>1 DEF MasterType, MasterFlags
<1>3. NoAccept(s) = IF ~s.m.noaccept THEN s ELSE b
  BY <1>1 DEF NoAccept, StateType, MasterType
<1> HIDE DEF n
<1>4. OnlyFlags(s, a) /\ a.m = n
  BY <1>1, <1>2, SetFlags
<1> HIDE DEF a
<1>5. Sound(a) /\ Off(a)
  BY <1>2, <1>4, OnlyFlagsSound DEF Off
<1>6. Still(a, b)
  BY <1>5, SignalWorkersSound DEF Commands
<1> HIDE DEF b
<1>7. Off(b)
  BY <1>5, <1>6, OffOnward DEF Still
<1> QED BY <1>3, <1>7 DEF WorkersAt

LEMMA BodyKeeps ==
  ASSUME conf \in Scenarios, NEW s, Good(FALSE, s), s.m.st = "loop",
         WorkersAt(s, conf.slots), NEW confOk \in BOOLEAN
  PROVE  WorkersAt(Body(s, confOk), conf.slots)
<1> DEFINE b == Body(s, confOk)
<1>1. CASE s.m.quit \/ s.m.terminate
  <2>1. Turned(FALSE, s, b)
    BY BodyGood
  <2> HIDE DEF b
  <2>2. Off(b)
    BY <1>1, <2>1 DEF Turned, Off
  <2> QED BY <2>2 DEF WorkersAt, b
<1>2. CASE ~s.m.terminate /\ ~s.m.quit
  <2>0. s.m.newBinary = None /\ Sound(s)
    BY DEF Good
  <2>1. CASE s.m.reconfigure /\ ~confOk
    BY <1>2, <2>0, <2>1, ReconfigureKeeps DEF Body
  <2>2. CASE ~(s.m.reconfigure /\ ~confOk)
    <3> DEFINE s1 == IF s.m.reconfigure THEN Reconfigure(s, TRUE) ELSE s
               s2 == Restart(s1)
               s3 == Reopen(s2)
               s4 == MaybeChangeBinary(s3)
               s5 == NoAccept(s4)
    <3>1. b = s5
      BY <1>2, <2>0, <2>2 DEF Body
    <3>2. Turned(FALSE, s, s1) /\ s1.m.st = "loop" /\ WorkersAt(s1, conf.slots)
      BY <1>2, <2>0, ReconfigureGood, TurnedSelf, ReconfigureKeeps
    <3> HIDE DEF s1, b
    <3>3. Good(FALSE, s1) /\ ~s1.m.quit /\ ~s1.m.terminate /\ Sound(s1)
      BY <1>2, <3>2 DEF Turned, Good
    <3>4. Turned(FALSE, s1, s2) /\ s2.m.st = "loop" /\ WorkersAt(s2, conf.slots)
      BY <3>2, <3>3, RestartGood, RestartKeeps
    <3> HIDE DEF s2
    <3>5. Good(FALSE, s2) /\ Sound(s2)
      BY <3>4 DEF Turned, Good
    <3>6. Turned(FALSE, s2, s3) /\ WorkersAt(s3, conf.slots)
      BY <3>4, <3>5, ReopenGood, ReopenStepKeeps
    <3> HIDE DEF s3
    <3>7. Sound(s3) /\ ~s3.m.changeBinary
      BY <3>6 DEF Turned, Good
    <3>8. s4 = s3
      BY <3>7 DEF MaybeChangeBinary
    <3>9. WorkersAt(s5, conf.slots)
      BY <3>6, <3>7, <3>8, NoAcceptKeeps
    <3> QED BY <3>1, <3>9 DEF b
  <2> QED BY <2>1, <2>2
<1>3. s.m.quit \in BOOLEAN /\ s.m.terminate \in BOOLEAN
  BY DEF Good, Sound, StateType, MasterType
<1> QED BY <1>1, <1>2, <1>3

LEMMA TopKeeps ==
  ASSUME conf \in Scenarios, NEW s, Sound(s), WorkersAt(s, conf.slots)
  PROVE  WorkersAt(Top(s), conf.slots)
<1>1. CASE ~(s.m.delay > 0 /\ s.m.sigalrm)
  BY <1>1 DEF Top
<1>2. CASE s.m.delay > 0 /\ s.m.sigalrm
  <2> DEFINE d == IF s.m.delay < 1600 THEN s.m.delay * 2 ELSE s.m.delay
             n == [s.m EXCEPT !.sigio = 0, !.sigalrm = FALSE, !.delay = d]
             t == [s EXCEPT !.m = n]
  <2>1. s \in StateType /\ s.m \in MasterType
    BY DEF Sound, StateType
  <2>2. Top(s) = t
    BY <1>2, <2>1 DEF Top, StateType, MasterType
  <2>3. d \in Nat
    <3>1. s.m.delay \in Nat
      BY <2>1 DEF MasterType
    <3> QED BY <3>1
  <2> HIDE DEF d
  <2>4. MasterFlags(s.m, n) /\ n.restart = s.m.restart /\ n.noaccepting = s.m.noaccepting
    BY <2>1, <2>3 DEF MasterType, MasterFlags
  <2> HIDE DEF n
  <2>5. OnlyFlags(s, t) /\ t.m = n
    BY <2>1, <2>4, SetFlags
  <2> HIDE DEF t
  <2>6. Carries(s, t)
    BY <2>4, <2>5, FlagsCarry
  <2> QED BY <2>2, <2>6, CarriesKeeps
<1> QED BY <1>1, <1>2

(***************************************************************************)
(* A turn                                                                  *)
(***************************************************************************)

\* ngx_process_get_status(): a worker that is gone is marked, and may be
\* started again.
LEMMA GetStatusKeeps ==
  ASSUME conf \in Scenarios, NEW s, Sound(s), WorkersAt(s, conf.slots)
  PROVE  LET t == GetStatus(s) IN WorkersAt(t, 0) /\ t.m.reap = s.m.reap
<1> DEFINE z == {p \in DOMAIN s.k : s.k[p].st = "zombie"}
           l == [p \in DOMAIN s.k |-> IF p \in z THEN Gone(s.k[p]) ELSE s.k[p]]
           x(i) == [s.m.tab[i] EXCEPT !.exited = TRUE,
                                      !.respawn = @ /\ ~s.k[s.m.tab[i].pid].code2]
           tab == [i \in Slots |-> IF i < s.m.last /\ s.m.tab[i].pid \in z
                                   THEN x(i) ELSE s.m.tab[i]]
           m == [s.m EXCEPT !.tab = tab]
           t == GetStatus(s)
           W == WorkerSlots(s.m)
<1>1. s \in StateType /\ s.m \in MasterType /\ s.k \in Seq(KidType)
  BY DEF Sound, StateType
<1>2. s.m.tab \in [Slots -> ProcessType] /\ s.m.last \in 0..conf.slots
  BY <1>1 DEF MasterType
<1>3. t = [s EXCEPT !.k = l, !.m = m]
  BY <1>1 DEF GetStatus, StateType
<1>4. ASSUME NEW p \in DOMAIN s.k
      PROVE  /\ l[p].code2 = s.k[p].code2
             /\ l[p].st = (IF p \in z THEN "reaped" ELSE s.k[p].st)
  <2> DEFINE k == s.k[p]
  <2>1. k \in KidType
    BY <1>1
  <2>2. l[p] = IF p \in z THEN Gone(k) ELSE k
    OBVIOUS
  <2> HIDE DEF k, l, Empty, z
  <2>3. Gone(k).st = "reaped" /\ Gone(k).code2 = k.code2
    BY <2>1, SMTT(60) DEF Gone, KidType
  <2> QED BY <2>1, <2>2, <2>3 DEF k
<1>5. ASSUME NEW i \in Slots
      PROVE  /\ tab[i].pid = s.m.tab[i].pid /\ tab[i].kind = s.m.tab[i].kind
             /\ tab[i].exiting = s.m.tab[i].exiting /\ tab[i].just = s.m.tab[i].just
             /\ s.m.tab[i].respawn /\ ~s.k[s.m.tab[i].pid].code2 => tab[i].respawn
             /\ i < s.m.last /\ s.m.tab[i].pid \in z => tab[i].exited
  <2> DEFINE e == s.m.tab[i]
             b == e.respawn /\ ~s.k[e.pid].code2
  <2>1. e \in ProcessType
    BY <1>2
  <2>2. x(i) = [e EXCEPT !.exited = TRUE, !.respawn = b]
    BY <2>1 DEF ProcessType
  <2>3. tab[i] = IF i < s.m.last /\ e.pid \in z THEN x(i) ELSE e
    OBVIOUS
  <2>4. e.respawn /\ ~s.k[e.pid].code2 => b
    OBVIOUS
  <2> HIDE DEF b, e, z, tab, x
  <2>5. /\ x(i).pid = e.pid /\ x(i).kind = e.kind /\ x(i).exiting = e.exiting
        /\ x(i).just = e.just /\ x(i).respawn = b /\ x(i).exited = TRUE
    BY <2>1, <2>2 DEF ProcessType
  <2> QED BY <2>3, <2>4, <2>5 DEF e
<1> HIDE DEF l, t, tab
<1>6. m.tab = tab /\ m.last = s.m.last /\ m.restart = s.m.restart /\ m.reap = s.m.reap
  BY <1>1 DEF MasterType
<1> HIDE DEF m
<1>7. t.m = m /\ t.k = l
  BY <1>1, <1>3 DEF StateType
<1>8. CASE Off(s)
  <2>1. Off(t)
    BY <1>8, GetStatusSound, OffOnward DEF Still, t
  <2> QED BY <1>6, <1>7, <2>1 DEF WorkersAt, t
<1>9. CASE Core(s, conf.slots)
  <2>1. WorkerSlots(t.m) = W
    <3>1. \A i \in 0..(s.m.last - 1) : i \in Slots
      BY <1>2, ConfOK
    <3> QED BY <1>5, <1>6, <1>7, <3>1 DEF WorkerSlots
  <2>2. \A i \in W : /\ i \in Slots /\ i < s.m.last /\ s.m.tab[i].pid \in DOMAIN s.k
                     /\ i >= 0 /\ ~(i >= conf.slots)
    <3>1. \A i \in W : i \in Slots /\ s.m.tab[i].pid \in DOMAIN s.k /\ i \in 0..(s.m.last - 1)
      BY SlotPid, SMTT(60)
    <3> QED BY <3>1, <1>2, ConfOK, SMTT(60)
  <2>3. Held(t.m) = Held(s.m)
    BY <1>5, <1>6, <1>7, <2>1, <2>2 DEF Held
  <2>4. DOMAIN l = DOMAIN s.k
    BY DEF l
  <2>5. NoCode2(t.k)
    BY <1>4, <1>7, <1>9, <2>4 DEF NoCode2, Core
  <2>6. ASSUME NEW i \in W
        PROVE  /\ t.m.tab[i].respawn /\ ~t.m.tab[i].just
               /\ t.k[t.m.tab[i].pid].st = "reaped" => i >= 0 /\ t.m.tab[i].exited
    <3> DEFINE e == s.m.tab[i]
    <3>1a. /\ e.respawn /\ ~e.just
           /\ s.k[e.pid].st = "reaped" => i >= conf.slots
      BY <1>9 DEF Core, Kept
    <3>1b. ~s.k[e.pid].code2
      BY <1>9, <2>2 DEF Core, NoCode2
    <3>1. e.respawn /\ ~e.just /\ s.k[e.pid].st # "reaped" /\ ~s.k[e.pid].code2
      BY <2>2, <3>1a, <3>1b
    <3>2a. /\ tab[i].pid = e.pid /\ tab[i].just = e.just
           /\ e.respawn /\ ~s.k[e.pid].code2 => tab[i].respawn
      BY <1>5, <2>2
    <3>2b. t.m.tab = tab
      BY <1>6, <1>7
    <3>2. t.m.tab[i].pid = e.pid /\ t.m.tab[i].respawn /\ ~t.m.tab[i].just
      BY <3>1, <3>2a, <3>2b
    <3>3. l[e.pid].st = "reaped" => e.pid \in z
      BY <1>4, <2>2, <3>1
    <3> HIDE DEF z
    <3>4. e.pid \in z => t.m.tab[i].exited
      BY <1>5, <2>2, <3>2b
    <3> QED BY <1>7, <2>2, <3>2, <3>3, <3>4, SMTT(60)
  <2>7. Kept(t, 0)
    BY <2>1, <2>6, SMTT(60) DEF Kept
  <2> QED BY <1>6, <1>7, <1>9, <2>3, <2>5, <2>7, SMTT(60) DEF Core, WorkersAt, t
<1> QED BY <1>8, <1>9 DEF WorkersAt

\* Between two turns no worker waits to be treated.
LEMMA FromStart ==
  ASSUME conf \in Scenarios, NEW s, Sound(s), WorkersAt(s, conf.slots)
  PROVE  WorkersAt(s, 0)
<1>1. \A i \in WorkerSlots(s.m) : ~(i >= conf.slots)
  <2>1. \A i \in WorkerSlots(s.m) : i \in Slots
    BY SlotPid
  <2> QED BY <2>1, ConfOK
<1> QED BY <1>1 DEF WorkersAt, Core, Kept

\* ngx_signal_handler()
LEMMA HandleKeeps ==
  ASSUME conf \in Scenarios, NEW s, Sound(s), WorkersAt(s, conf.slots)
  PROVE  LET t == Handle(s) IN
         /\ WorkersAt(t, 0)
         /\ ~t.m.reap => WorkersAt(t, conf.slots)
<1> DEFINE b1 == s.m.quit \/ "quit" \in sigs
           b2 == s.m.terminate \/ "term" \in sigs
           b3 == s.m.reconfigure \/ "hup" \in sigs
           b4 == s.m.noaccept \/ "winch" \in sigs
           b5 == s.m.reopen \/ "usr1" \in sigs
           b6 == s.m.changeBinary \/ ("usr2" \in sigs /\ s.m.newBinary <= 0)
           b7 == s.m.sigalrm \/ "alrm" \in sigs
           b8 == s.m.reap \/ "chld" \in sigs
           m == [s.m EXCEPT !.quit = b1, !.terminate = b2, !.reconfigure = b3,
                            !.noaccept = b4]
           n == [m EXCEPT !.reopen = b5, !.changeBinary = b6, !.sigalrm = b7,
                          !.reap = b8]
           t == [s EXCEPT !.m = n]
           h == Handle(s)
<1>1. s \in StateType /\ s.m \in MasterType
  BY DEF Sound, StateType
<1>2. /\ b1 \in BOOLEAN /\ b2 \in BOOLEAN /\ b3 \in BOOLEAN /\ b4 \in BOOLEAN
      /\ b5 \in BOOLEAN /\ b6 \in BOOLEAN /\ b7 \in BOOLEAN /\ b8 \in BOOLEAN
  BY <1>1 DEF MasterType
<1>3. h = IF "chld" \in sigs THEN GetStatus(t) ELSE t
  BY <1>1 DEF Handle, StateType, MasterType
<1>4. (s.m.quit => b1) /\ (s.m.terminate => b2) /\ ("chld" \in sigs => b8)
  OBVIOUS
<1> HIDE DEF b1, b2, b3, b4, b5, b6, b7, b8, h
<1>5a. m \in MasterType
  BY <1>1, <1>2 DEF MasterType
<1>5b. /\ m.quit = b1 /\ m.terminate = b2 /\ m.tab = s.m.tab /\ m.last = s.m.last
       /\ m.restart = s.m.restart /\ m.noaccepting = s.m.noaccepting
       /\ m.newBinary = s.m.newBinary
  BY <1>1 DEF MasterType
<1> HIDE DEF m
<1>5c. n \in MasterType
  BY <1>2, <1>5a DEF MasterType
<1>5. /\ n \in MasterType /\ n.quit = b1 /\ n.terminate = b2 /\ n.reap = b8
      /\ n.tab = s.m.tab /\ n.last = s.m.last /\ n.restart = s.m.restart
      /\ n.noaccepting = s.m.noaccepting /\ n.newBinary = s.m.newBinary
  BY <1>5a, <1>5b, <1>5c DEF MasterType
<1> HIDE DEF n
<1>6. t \in StateType /\ t.m = n /\ t.k = s.k /\ t.failed = s.failed
  BY <1>1, <1>5 DEF StateType
<1> HIDE DEF t
<1>7. Carries(s, t)
  BY <1>4, <1>5, <1>6 DEF Carries, KidsSame, EntrySame, Off
<1>8. Sound(t)
  <2>1. t.m.newBinary <= Len(s.k)
    BY <1>5, <1>6 DEF Sound, Bounds
  <2> QED BY <1>5, <1>6, <2>1, SameTable
<1>9. WorkersAt(t, conf.slots)
  BY <1>7, CarriesKeeps
<1>10. CASE "chld" \in sigs
  BY <1>3, <1>4, <1>5, <1>6, <1>8, <1>9, <1>10, GetStatusKeeps DEF h
<1>11. CASE "chld" \notin sigs
  BY <1>3, <1>8, <1>9, <1>11, FromStart DEF h
<1> QED BY <1>10, <1>11

(***************************************************************************)
(* The invariant                                                           *)
(***************************************************************************)

\* What is the same for states of the same master and children.
LEMMA SameParts ==
  ASSUME NEW s, NEW t, t.m = s.m, t.k = s.k, t.failed = s.failed, NEW n, WorkersAt(s, n)
  PROVE  WorkersAt(t, n)
BY DEF WorkersAt, Off, Core, Kept

\* The invariant, between two turns; State(0) is the state of the variables.
\* A child that exits with code 2 is not started again, and a binary upgrade
\* may start workers in addition.
IWork ==
  \/ used["usr2"] > 0 \/ used["fatal"] > 0
  \/ WorkersAt(State(0), conf.slots)

LEMMA StateParts ==
  ASSUME NEW failAt
  PROVE  LET s == State(failAt) IN s.m = master /\ s.k = kids /\ s.failed = hist.failed
BY DEF State

\* The primed invariant, for a step whose outcome is t.
LEMMA NextParts ==
  ASSUME NEW t, master' = t.m, kids' = t.k, hist'.failed = t.failed, conf' = conf,
         WorkersAt(t, conf.slots)
  PROVE  IWork'
<1> DEFINE s == State(0)'
<1>1. s.m = t.m /\ s.k = t.k /\ s.failed = t.failed
  BY DEF State
<1> HIDE DEF s
<1>2. WorkersAt(s, conf.slots)
  BY <1>1, SameParts, SMTT(60)
<1>3. WorkersAt(State(0), conf.slots)'
  BY <1>2 DEF s, WorkersAt, Off, Core, Kept, NoCode2, Held, WorkerSlots
<1> QED BY <1>3 DEF IWork

LEMMA TurnWorkers ==
  ASSUME IInv, IWork, Turn
  PROVE  IWork'
<1>1. PICK failAt \in 0..(conf.workers + 2), confOk \in BOOLEAN : Wake(failAt, confOk)
  BY DEF Turn
<1>2. conf \in Scenarios /\ used \in [Events -> Nat]
  BY DEF IInv, TypeOK
<1> DEFINE s0 == State(failAt)
           s == Handle(s0)
           r == IF s.m.reap THEN ReapChildren(s) ELSE s
           b == Body(r, confOk)
           t == Top(b)
<1>3. /\ master.st = "loop" /\ conf' = conf /\ master' = t.m /\ kids' = t.k
      /\ hist' = [lost |-> t.lost, double |-> t.double, failed |-> t.failed]
      /\ used' = used \/ Use("fork") \/ Use("badconf")
  BY <1>1 DEF Wake
<1>4. CASE used["usr2"] > 0 \/ used["fatal"] > 0
  <2>1. used'["usr2"] = used["usr2"] /\ used'["fatal"] = used["fatal"]
    BY <1>2, <1>3 DEF Use, Events
  <2> QED BY <1>4, <2>1 DEF IWork
<1>5. CASE ~(used["usr2"] > 0 \/ used["fatal"] > 0)
  <2>1. WorkersAt(State(0), conf.slots) /\ ~Upgraded
    BY <1>5 DEF IWork, Upgraded
  <2>2. failAt \in Nat
    BY ConfOK, <1>2
  <2>3. Good(FALSE, s0) /\ s0.m = master
    BY <2>1, <2>2, StateGood DEF Good
  <2>4. WorkersAt(s0, conf.slots)
    <3> DEFINE c == State(0)
    <3>1. s0.m = c.m /\ s0.k = c.k /\ s0.failed = c.failed
      BY StateParts
    <3> HIDE DEF c, s0
    <3> QED BY <2>1, <3>1, SameParts DEF c
  <2>5. "usr2" \notin sigs
    BY <2>1 DEF IInv
  <2> HIDE DEF s0
  <2>6. Good(FALSE, s) /\ s.m.st = "loop"
    BY <1>2, <1>3, <2>3, <2>5, HandleSound
  <2>7. WorkersAt(s, 0) /\ (~s.m.reap => WorkersAt(s, conf.slots))
    BY <1>2, <2>3, <2>4, HandleKeeps DEF Good
  <2> HIDE DEF s
  <2>8. Good(FALSE, r) /\ r.m.st = "loop"
    BY <1>2, <2>6, ReapGood, TurnedSelf DEF Turned
  <2>9. WorkersAt(r, conf.slots)
    BY <1>2, <2>6, <2>7, ReapChildrenKeeps DEF Good
  <2> HIDE DEF r
  <2>10. Good(FALSE, b)
    BY <1>2, <2>8, BodyGood DEF Turned
  <2>11. WorkersAt(b, conf.slots)
    BY <1>2, <2>8, <2>9, BodyKeeps
  <2> HIDE DEF b
  <2>12. WorkersAt(t, conf.slots)
    BY <1>2, <2>10, <2>11, TopKeeps DEF Good
  <2> HIDE DEF t
  <2>13. hist'.failed = t.failed
    BY <1>3
  <2> QED BY <1>3, <2>12, <2>13, NextParts
<1> QED BY <1>4, <1>5

LEMMA ChildWorkers ==
  ASSUME IInv, IWork, NEW p, NEW c, ChildChanged(p, c)
  PROVE  IWork'
<1> USE DEF ChildChanged
<1>1. conf \in Scenarios /\ kids \in Seq(KidType) /\ used \in [Events -> Nat]
  BY DEF IInv, TypeOK
<1>2. CASE used["usr2"] > 0 \/ used["fatal"] > 0 \/ used'["fatal"] > 0
  BY <1>2 DEF IWork
<1>3. CASE ~(used["usr2"] > 0 \/ used["fatal"] > 0 \/ used'["fatal"] > 0)
  <2> DEFINE s == State(0)
             l == [kids EXCEPT ![p] = c]
             t == [s EXCEPT !.k = l]
  <2>1. s.m = master /\ s.k = kids /\ s.failed = hist.failed /\ Sound(s)
    BY StateParts, StateGood DEF Good
  <2>2. WorkersAt(s, conf.slots)
    BY <1>3 DEF IWork
  <2>3. t.m = s.m /\ t.k = l /\ t.failed = s.failed
    BY DEF State
  <2> HIDE DEF s, t
  <2>4. CASE Off(s)
    <3>1. Off(t)
      BY <2>3, <2>4 DEF Off
    <3>2. WorkersAt(t, conf.slots)
      BY <3>1 DEF WorkersAt
    <3> QED BY <2>1, <2>3, <3>2, NextParts
  <2>5. CASE Core(s, conf.slots)
    <3>1. DOMAIN l = DOMAIN kids /\ \A q \in DOMAIN kids : l[q] = IF q = p THEN c ELSE kids[q]
      BY <1>1
    <3> HIDE DEF l
    <3>2. NoCode2(l)
      BY <1>3, <2>1, <2>5, <3>1 DEF Core, NoCode2
    <3>3. Kept(t, conf.slots)
      <4>1. ASSUME NEW i \in WorkerSlots(s.m)
            PROVE  /\ s.m.tab[i].respawn /\ ~s.m.tab[i].just
                   /\ l[s.m.tab[i].pid].st = "reaped" => i >= conf.slots /\ s.m.tab[i].exited
        <5>1. s.m.tab[i].pid \in DOMAIN kids
          BY <1>1, <2>1, SlotPid
        <5>2. l[s.m.tab[i].pid].st = "reaped" => kids[s.m.tab[i].pid].st = "reaped"
          BY <3>1, <5>1
        <5> QED BY <2>1, <2>5, <5>2 DEF Core, Kept
      <4> QED BY <2>3, <4>1 DEF Kept
    <3>4. WorkersAt(t, conf.slots)
      BY <2>3, <2>5, <3>2, <3>3 DEF Core, WorkersAt
    <3> QED BY <2>1, <2>3, <3>4, NextParts DEF l
  <2> QED BY <2>2, <2>4, <2>5 DEF WorkersAt
<1> QED BY <1>2, <1>3

LEMMA InitWorkers == Init => IWork
<1> SUFFICES ASSUME Init PROVE IWork
  OBVIOUS
<1> DEFINE b == First
           s == StartAll(b, FALSE)
<1>1. /\ conf \in Scenarios /\ master = s.m /\ kids = s.k
      /\ hist = [lost |-> s.lost, double |-> FALSE, failed |-> s.failed]
  BY DEF Init, First
<1>2. Good(FALSE, b) /\ b.m = Blank /\ b.k = <<>> /\ Sound(b)
  BY <1>1, FirstGood DEF Good
<1>3. Blank.last = 0 /\ ~Blank.restart
  BY DEF Blank
<1> HIDE DEF b
<1>4. WorkerSlots(b.m) = {} /\ NoCode2(b.k) /\ ~b.m.restart
  <2>1. 0..(0 - 1) = {} /\ DOMAIN <<>> = {}
    OBVIOUS
  <2> QED BY <1>2, <1>3, <2>1 DEF WorkerSlots, NoCode2
<1>5. Fresh(b.m, FALSE) = {}
  BY <1>4 DEF Fresh
<1>6. Cardinality(Fresh(b.m, FALSE)) = 0
  BY <1>5, FS_EmptySet
<1>7. Started(b, 0, FALSE)
  BY <1>4, <1>6 DEF Started, StartedCore
<1>8. Started(s, conf.workers, FALSE) /\ Sound(s)
  BY <1>1, <1>2, <1>7, StartAllStarts, StartAllSound DEF Onward
<1> HIDE DEF s
<1>9. WorkersAt(s, conf.slots)
  <2>1. CASE Off(s)
    BY <2>1 DEF WorkersAt
  <2>2. CASE StartedCore(s, conf.workers, FALSE)
    <3>1. Fresh(s.m, FALSE) = Held(s.m)
      BY <2>2 DEF Fresh, Held, StartedCore
    <3>2. Kept(s, conf.slots)
      BY <2>2 DEF Kept, StartedCore
    <3> QED BY <2>2, <3>1, <3>2 DEF StartedCore, Core, WorkersAt
  <2> QED BY <1>8, <2>1, <2>2 DEF Started
<1>10. hist.failed = s.failed
  BY <1>1
<1>11. WorkersAt(State(0), conf.slots)
  <2> DEFINE c == State(0)
  <2>1. c.m = s.m /\ c.k = s.k /\ c.failed = s.failed
    BY <1>1, <1>10, StateParts
  <2> HIDE DEF c
  <2>2. WorkersAt(c, conf.slots)
    BY <1>9, <2>1, SameParts
  <2> QED BY <2>2 DEF c
<1> QED BY <1>11 DEF IWork

LEMMA NextWorkers ==
  ASSUME IInv, IWork, [Next]_vars
  PROVE  IWork'
<1>1. CASE Turn
  BY <1>1, TurnWorkers
<1>2. ASSUME conf' = conf, master' = master, kids' = kids, hist' = hist,
             used["usr2"] > 0 => used'["usr2"] > 0,
             used["fatal"] > 0 => used'["fatal"] > 0
      PROVE  IWork'
  <2>1. CASE used["usr2"] > 0 \/ used["fatal"] > 0
    BY <1>2, <2>1 DEF IWork
  <2>2. CASE WorkersAt(State(0), conf.slots)
    <3> DEFINE t == State(0)
    <3>1. t.m = master /\ t.k = kids /\ t.failed = hist.failed
      BY StateParts
    <3> HIDE DEF t
    <3>2. WorkersAt(t, conf.slots)
      BY <2>2 DEF t
    <3> QED BY <1>2, <3>1, <3>2, NextParts
  <2> QED BY <2>1, <2>2 DEF IWork
<1>3. CASE Alarm
  BY <1>2, <1>3 DEF Alarm
<1>4. CASE \E e \in {"hup", "winch", "usr1", "usr2", "quit", "term"} : Signal(e)
  <2>1. PICK e \in {"hup", "winch", "usr1", "usr2", "quit", "term"} : Signal(e)
    BY <1>4
  <2>2. /\ used' = [used EXCEPT ![e] = used[e] + 1] /\ used \in [Events -> Nat]
        /\ conf' = conf /\ master' = master /\ kids' = kids /\ hist' = hist
    BY <2>1 DEF Signal, Use, IInv, TypeOK
  <2>3. \A f \in Events : used[f] \in Nat /\ used'[f] = IF f = e THEN used[f] + 1 ELSE used[f]
    BY <2>2
  <2>4. "usr2" \in Events /\ "fatal" \in Events
    BY DEF Events
  <2>5. (used["usr2"] > 0 => used'["usr2"] > 0) /\ (used["fatal"] > 0 => used'["fatal"] > 0)
    BY <2>3, <2>4
  <2> QED BY <1>2, <2>2, <2>5
<1>5. CASE \E p \in DOMAIN kids :
             ChildStep(p) \/ ExitBinary(p) \/ Crash(p) \/ Fatal(p) \/ Hang(p)
  BY <1>5, ChildStepChanges, ChildWorkers
<1>6. CASE UNCHANGED vars
  BY <1>2, <1>6 DEF vars
<1> QED BY <1>1, <1>3, <1>4, <1>5, <1>6 DEF Next

LEMMA WorkersInv ==
  ASSUME IInv, IWork
  PROVE  WorkersKept
<1> SUFFICES ASSUME Quiet, ~hist.failed, used["fatal"] = 0, used["usr2"] = 0
             PROVE  Cardinality(Serving) = conf.workers
  BY DEF WorkersKept
<1> DEFINE s == State(0)
<1>1. s.m = master /\ s.k = kids /\ s.failed = hist.failed /\ Sound(s)
  BY StateParts, StateGood DEF Good
<1>2. conf \in Scenarios
  BY DEF IInv, TypeOK
<1>3. WorkersAt(s, conf.slots)
  BY DEF IWork
<1> HIDE DEF s
<1>4. Core(s, conf.slots)
  BY <1>1, <1>3 DEF WorkersAt, Off, Quiet
<1>5. ASSUME NEW i \in WorkerSlots(master) PROVE ~master.tab[i].exited
  <2>1. i \in WorkerSlots(s.m) /\ i \in Slots
    BY <1>1, <1>2, SlotPid
  <2>2. ~(i >= conf.slots)
    BY <1>2, <2>1, ConfOK
  <2>3. kids[master.tab[i].pid].st # "reaped"
    BY <1>1, <1>4, <2>1, <2>2 DEF Core, Kept
  <2>4. i \in 0..(master.last - 1) /\ master.tab[i].pid # None
    BY DEF WorkerSlots
  <2> QED BY <2>3, <2>4 DEF IInv, TableOK
<1>6. Serving = Held(master)
  BY <1>5 DEF Serving, Held, WorkerSlots
<1> QED BY <1>1, <1>4, <1>6 DEF Core

\* Outside a shutdown there are as many serving workers as configured
\* (ngx_start_worker_processes, ngx_reap_children, ngx_reconfigure,
\* ngx_signal_worker_processes): for any worker_processes and any table size, a
\* worker that crashes is replaced in the next turn, a reload replaces them one
\* for one, and no order of signals, exits and full channels adds or loses one.
THEOREM WorkersAreKept == Spec => []WorkersKept
<1>1. Init => IInv /\ IWork
  BY InitInv, InitWorkers
<1>2. IInv /\ IWork /\ [Next]_vars => (IInv /\ IWork)'
  BY NextInv, NextWorkers
<1>3. IInv /\ IWork => WorkersKept
  BY WorkersInv
<1> QED BY <1>1, <1>2, <1>3, PTL DEF Spec

(***************************************************************************)
(* The tables of the children                                              *)
(***************************************************************************)

\* A message about the channel of slot i, and what it says.
About(msg, i) == msg.cmd \in {"open", "close"} /\ msg.slot = i
Says(msg) == IF msg.cmd = "open" THEN msg.chan ELSE None

\* The child c knows x as the channel of slot i once it has read its mail: the
\* last message about the slot says so, or there is none and its table does.
Follows(c, i, x) ==
  \/ c.tbl[i] = x /\ \A n \in DOMAIN c.mail : ~About(c.mail[n], i)
  \/ \E n \in DOMAIN c.mail :
       /\ About(c.mail[n], i) /\ Says(c.mail[n]) = x
       /\ \A l \in DOMAIN c.mail : l > n => ~About(c.mail[l], i)

\* A child that is told of the others.
Member(c) == c.st = "running" /\ c.kind # "binary"

\* Such a child has its channel in its slot, and follows the master's table,
\* but for the slots of X.
KidsInStep(m, k, X) ==
  \A p \in DOMAIN k : Member(k[p]) =>
    /\ m.tab[k[p].slot].chan = p
    /\ \A i \in Slots \ ({k[p].slot} \cup X) : Follows(k[p], i, m.tab[i].chan)
\* A slot without a child that is told has no channel; only such a child is
\* started again.
EntriesInStep(m) ==
  \A i \in Slots :
    /\ i >= m.last \/ m.tab[i].pid = None \/ m.tab[i].detached => m.tab[i].chan = None
    /\ m.tab[i].detached => ~m.tab[i].respawn
InStep(m, k, X) == KidsInStep(m, k, X) /\ EntriesInStep(m)

\* What the tables are not expected to survive.
Blurred(s) == s.lost \/ s.failed \/ s.double
TablesAt(s, X) == Blurred(s) \/ InStep(s.m, s.k, X)

\* A part of a turn that is of no concern to the tables.
KidAlike(c, d) ==
  Member(d) => /\ Member(c) /\ d.slot = c.slot
               /\ \A i, x : Follows(c, i, x) => Follows(d, i, x)
EntryAlike(e, f) ==
  f.chan = e.chan /\ f.pid = e.pid /\ f.detached = e.detached /\ (f.respawn => e.respawn)
Alike(s, t) ==
  /\ Blurred(s) => Blurred(t)
  /\ DOMAIN t.k = DOMAIN s.k
  /\ \A p \in DOMAIN s.k : KidAlike(s.k[p], t.k[p])
  /\ t.m.last = s.m.last
  /\ \A i \in Slots : EntryAlike(s.m.tab[i], t.m.tab[i])

LEMMA AlikeKeeps ==
  ASSUME NEW s, Sound(s), NEW t, Alike(s, t), NEW X, TablesAt(s, X)
  PROVE  TablesAt(t, X)
<1>1. CASE Blurred(s)
  BY <1>1 DEF Alike, TablesAt
<1>2. CASE InStep(s.m, s.k, X)
  <2>1. EntriesInStep(t.m)
    BY <1>2 DEF InStep, EntriesInStep, Alike, EntryAlike
  <2>2. ASSUME NEW p \in DOMAIN t.k, Member(t.k[p])
        PROVE  /\ t.m.tab[t.k[p].slot].chan = p
               /\ \A i \in Slots \ ({t.k[p].slot} \cup X) :
                    Follows(t.k[p], i, t.m.tab[i].chan)
    <3>1. /\ p \in DOMAIN s.k /\ Member(s.k[p]) /\ t.k[p].slot = s.k[p].slot
          /\ \A i, x : Follows(s.k[p], i, x) => Follows(t.k[p], i, x)
      BY <2>2 DEF Alike, KidAlike
    <3>2. s.k[p].slot \in Slots
      <4> DEFINE c == s.k[p]
      <4>1. c \in KidType
        BY <3>1 DEF Sound, StateType
      <4> HIDE DEF c
      <4>2. c.slot \in Slots
        BY <4>1 DEF KidType
      <4> QED BY <4>2 DEF c
    <3>3. /\ s.m.tab[s.k[p].slot].chan = p
          /\ \A i \in Slots \ ({s.k[p].slot} \cup X) : Follows(s.k[p], i, s.m.tab[i].chan)
      BY <1>2, <3>1 DEF InStep, KidsInStep
    <3>4. \A i \in Slots : t.m.tab[i].chan = s.m.tab[i].chan
      BY DEF Alike, EntryAlike
    <3> QED BY <3>1, <3>2, <3>3, <3>4
  <2>3. KidsInStep(t.m, t.k, X)
    BY <2>2 DEF KidsInStep
  <2> QED BY <2>1, <2>3 DEF TablesAt, InStep
<1> QED BY <1>1, <1>2 DEF TablesAt

LEMMA KidAlikeSelf ==
  ASSUME NEW c
  PROVE  KidAlike(c, c)
BY DEF KidAlike

LEMMA AlikeTrans ==
  ASSUME NEW s, NEW t, NEW u, Alike(s, t), Alike(t, u)
  PROVE  Alike(s, u)
<1>1. \A p \in DOMAIN s.k : KidAlike(s.k[p], u.k[p])
  BY DEF Alike, KidAlike
<1>2. \A i \in Slots : EntryAlike(s.m.tab[i], u.m.tab[i])
  BY DEF Alike, EntryAlike
<1> QED BY <1>1, <1>2 DEF Alike

\* The same children and the same table.
LEMMA SameTables ==
  ASSUME NEW s, NEW t, t.k = s.k, t.m.tab = s.m.tab, t.m.last = s.m.last,
         Blurred(s) => Blurred(t)
  PROVE  Alike(s, t)
<1>1. \A p \in DOMAIN s.k : KidAlike(s.k[p], t.k[p])
  BY DEF KidAlike
<1> QED BY <1>1 DEF Alike, EntryAlike

\* Other flags of the master.
LEMMA NewMaster ==
  ASSUME NEW s \in StateType, NEW n, n.tab = s.m.tab, n.last = s.m.last
  PROVE  LET t == [s EXCEPT !.m = n] IN
         Alike(s, t) /\ t.k = s.k /\ t.m = n /\ SameNotes(s, t) /\ t.chfd = s.chfd
<1> DEFINE t == [s EXCEPT !.m = n]
<1>1. t.k = s.k /\ t.m = n /\ SameNotes(s, t) /\ t.chfd = s.chfd
  BY DEF StateType, SameNotes
<1> HIDE DEF t
<1>2. Alike(s, t)
  BY <1>1, SameTables DEF SameNotes, Blurred
<1> QED BY <1>1, <1>2 DEF t

(***************************************************************************)
(* Messages                                                                *)
(***************************************************************************)

\* A message is put into a child's channel.
LEMMA Hears ==
  ASSUME NEW c, NEW d, d.tbl = c.tbl, c.mail \in Seq(MessageType),
         NEW msg \in MessageType, d.mail = Append(c.mail, msg)
  PROVE  /\ \A i, x : Follows(c, i, x) /\ ~About(msg, i) => Follows(d, i, x)
         /\ \A i : About(msg, i) => Follows(d, i, Says(msg))
<1> DEFINE N == Len(c.mail)
<1>1. N \in Nat /\ DOMAIN c.mail = 1..N /\ DOMAIN d.mail = 1..(N + 1)
  OBVIOUS
<1>2. d.mail[N + 1] = msg /\ \A n \in 1..N : d.mail[n] = c.mail[n]
  OBVIOUS
<1> HIDE DEF N
<1>3. ASSUME NEW i, NEW x, Follows(c, i, x), ~About(msg, i) PROVE Follows(d, i, x)
  <2>1. CASE c.tbl[i] = x /\ \A n \in DOMAIN c.mail : ~About(c.mail[n], i)
    <3>1. \A n \in 1..(N + 1) : ~About(d.mail[n], i)
      <4> TAKE n \in 1..(N + 1)
      <4>1. n \in 1..N \/ n = N + 1
        BY <1>1
      <4> QED BY <4>1, <2>1, <1>1, <1>2, <1>3
    <3> QED BY <3>1, <2>1, <1>1 DEF Follows
  <2>2. CASE \E n \in DOMAIN c.mail :
               /\ About(c.mail[n], i) /\ Says(c.mail[n]) = x
               /\ \A l \in DOMAIN c.mail : l > n => ~About(c.mail[l], i)
    <3>1. PICK n \in 1..N :
               /\ About(c.mail[n], i) /\ Says(c.mail[n]) = x
               /\ \A l \in 1..N : l > n => ~About(c.mail[l], i)
      BY <2>2, <1>1
    <3>2. n \in 1..(N + 1) /\ About(d.mail[n], i) /\ Says(d.mail[n]) = x
      BY <3>1, <1>1, <1>2
    <3>3. ASSUME NEW l \in 1..(N + 1), l > n PROVE ~About(d.mail[l], i)
      <4>1. l \in 1..N \/ l = N + 1
        BY <1>1
      <4> QED BY <4>1, <3>1, <3>3, <1>2, <1>3
    <3> QED BY <3>2, <3>3, <1>1 DEF Follows
  <2> QED BY <1>3, <2>1, <2>2 DEF Follows
<1>4. ASSUME NEW i, About(msg, i) PROVE Follows(d, i, Says(msg))
  <2>1. N + 1 \in 1..(N + 1) /\ \A l \in 1..(N + 1) : ~(l > N + 1)
    BY <1>1
  <2>2. About(d.mail[N + 1], i) /\ Says(d.mail[N + 1]) = Says(msg)
    BY <1>2, <1>4
  <2> QED BY <1>1, <2>1, <2>2 DEF Follows
<1> QED BY <1>3, <1>4

\* What a broadcast does to a child.
LEMMA BroadcastEffect ==
  ASSUME conf \in Scenarios, NEW s \in StateType, NEW to \in SUBSET Slots, NEW msg
  PROVE  LET t == Broadcast(s, to, msg) IN
         /\ t.m = s.m /\ DOMAIN t.k = DOMAIN s.k /\ t.chfd = s.chfd
         /\ t.failed = s.failed /\ t.double = s.double /\ (s.lost => t.lost)
         /\ \A p \in DOMAIN s.k :
              /\ t.k[p].st = s.k[p].st /\ t.k[p].kind = s.k[p].kind
              /\ t.k[p].slot = s.k[p].slot /\ t.k[p].tbl = s.k[p].tbl
              /\ \/ t.k[p].mail = Append(s.k[p].mail, msg)
                 \/ /\ t.k[p].mail = s.k[p].mail
                    /\ t.lost \/ s.k[p].st = "reaped" \/ \A i \in to : s.m.tab[i].chan # p
<1> DEFINE t == Broadcast(s, to, msg)
           chans == {s.m.tab[i].chan : i \in to}
           got(p) == p \in chans /\ Writable(s, p) /\ s.k[p].st # "reaped"
           l == [p \in DOMAIN s.k |->
                   IF got(p) THEN [s.k[p] EXCEPT !.mail = Append(@, msg)] ELSE s.k[p]]
           b == s.lost \/ \E c \in chans : ~Writable(s, c)
<1>1. t = [s EXCEPT !.k = l, !.lost = b]
  BY DEF Broadcast
<1>2. ASSUME NEW p \in DOMAIN s.k
      PROVE  /\ l[p].st = s.k[p].st /\ l[p].kind = s.k[p].kind
             /\ l[p].slot = s.k[p].slot /\ l[p].tbl = s.k[p].tbl
             /\ l[p].mail = IF got(p) THEN Append(s.k[p].mail, msg) ELSE s.k[p].mail
  <2> DEFINE k == s.k[p]
             q == Append(k.mail, msg)
  <2>1. k \in KidType
    BY DEF StateType
  <2>2. l[p] = IF got(p) THEN [k EXCEPT !.mail = q] ELSE k
    OBVIOUS
  <2> HIDE DEF k, q, l, got
  <2>3. LET d == [k EXCEPT !.mail = q] IN
        /\ d.st = k.st /\ d.kind = k.kind /\ d.slot = k.slot /\ d.tbl = k.tbl
        /\ d.mail = q
    BY <2>1 DEF KidType
  <2> QED BY <2>2, <2>3 DEF k, q
<1>3. ASSUME NEW p \in DOMAIN s.k, ~got(p)
      PROVE  b \/ s.k[p].st = "reaped" \/ \A i \in to : s.m.tab[i].chan # p
  BY <1>3
<1>4. DOMAIN l = DOMAIN s.k /\ (s.lost => b)
  OBVIOUS
<1> HIDE DEF l, b, t, got
<1>5. /\ t.m = s.m /\ t.k = l /\ t.failed = s.failed /\ t.double = s.double
      /\ t.chfd = s.chfd /\ t.lost = b
  BY <1>1 DEF StateType
<1>6. ASSUME NEW p \in DOMAIN s.k
      PROVE  /\ t.k[p].st = s.k[p].st /\ t.k[p].kind = s.k[p].kind
             /\ t.k[p].slot = s.k[p].slot /\ t.k[p].tbl = s.k[p].tbl
             /\ \/ t.k[p].mail = Append(s.k[p].mail, msg)
                \/ /\ t.k[p].mail = s.k[p].mail
                   /\ t.lost \/ s.k[p].st = "reaped" \/ \A i \in to : s.m.tab[i].chan # p
  BY <1>2, <1>3, <1>5
<1> QED BY <1>4, <1>5, <1>6 DEF t

\* The message goes to every child that is to know of slot j.
LEMMA TellAll ==
  ASSUME conf \in Scenarios, NEW s, Sound(s), NEW to \in SUBSET Slots,
         NEW msg \in MessageType, NEW j \in Slots, About(msg, j),
         Says(msg) = s.m.tab[j].chan,
         \A p \in DOMAIN s.k : Member(s.k[p]) => s.k[p].slot \in to \cup {j},
         TablesAt(s, {j})
  PROVE  TablesAt(Broadcast(s, to, msg), {})
<1> DEFINE t == Broadcast(s, to, msg)
<1>1. s \in StateType /\ s.k \in Seq(KidType)
  BY DEF Sound, StateType
<1>2. /\ t.m = s.m /\ DOMAIN t.k = DOMAIN s.k
      /\ t.failed = s.failed /\ t.double = s.double /\ (s.lost => t.lost)
      /\ \A p \in DOMAIN s.k :
           /\ t.k[p].st = s.k[p].st /\ t.k[p].kind = s.k[p].kind
           /\ t.k[p].slot = s.k[p].slot /\ t.k[p].tbl = s.k[p].tbl
           /\ \/ t.k[p].mail = Append(s.k[p].mail, msg)
              \/ /\ t.k[p].mail = s.k[p].mail
                 /\ t.lost \/ s.k[p].st = "reaped" \/ \A i \in to : s.m.tab[i].chan # p
  BY <1>1, BroadcastEffect, ZenonT(60)
<1> HIDE DEF t
<1>3. CASE Blurred(s) \/ t.lost
  BY <1>2, <1>3 DEF Blurred, TablesAt, t
<1>4. CASE ~Blurred(s) /\ ~t.lost
  <2>1. KidsInStep(s.m, s.k, {j}) /\ EntriesInStep(s.m)
    BY <1>4, SMTT(60) DEF TablesAt, InStep
  <2>2. ASSUME NEW p \in DOMAIN t.k, Member(t.k[p])
        PROVE  /\ t.m.tab[t.k[p].slot].chan = p
               /\ \A i \in Slots \ ({t.k[p].slot} \cup {}) :
                    Follows(t.k[p], i, t.m.tab[i].chan)
    <3> DEFINE c == s.k[p]
               d == t.k[p]
    <3>1. /\ p \in DOMAIN s.k /\ d.tbl = c.tbl /\ Member(c) /\ d.slot = c.slot
          /\ c.st # "reaped"
      BY <1>2, <2>2, SMTT(60) DEF Member
    <3>2. /\ s.m.tab[c.slot].chan = p
          /\ \A i \in Slots \ ({c.slot} \cup {j}) : Follows(c, i, s.m.tab[i].chan)
      BY <2>1, <3>1, SMTT(60) DEF KidsInStep
    <3>3. \/ d.mail = Append(c.mail, msg)
          \/ d.mail = c.mail /\ c.slot = j
      BY <1>2, <1>4, <3>1, <3>2
    <3>4. c.mail \in Seq(MessageType)
      <4>1. c \in KidType
        BY <1>1, <3>1
      <4> HIDE DEF c
      <4> QED BY <4>1 DEF KidType
    <3> HIDE DEF c, d
    <3>5. ASSUME NEW i \in Slots, i # c.slot PROVE Follows(d, i, s.m.tab[i].chan)
      <4>1. CASE d.mail = Append(c.mail, msg) /\ i = j
        BY <3>1, <3>4, <4>1, Hears, SMTT(60)
      <4>2. CASE d.mail = Append(c.mail, msg) /\ i # j
        <5>1. ~About(msg, i) /\ Follows(c, i, s.m.tab[i].chan)
          BY <3>2, <3>5, <4>2 DEF About
        <5> QED BY <5>1, <3>1, <3>4, <4>2, Hears
      <4>3. CASE d.mail = c.mail /\ c.slot = j
        <5>1. Follows(c, i, s.m.tab[i].chan)
          BY <3>2, <3>5, <4>3, SMTT(60)
        <5> QED BY <5>1, <4>3, <3>1 DEF Follows
      <4> QED BY <3>3, <4>1, <4>2, <4>3
    <3> QED BY <1>2, <3>1, <3>2, <3>5, SMTT(60) DEF d
  <2>3. KidsInStep(t.m, t.k, {})
    BY <2>2 DEF KidsInStep
  <2> QED BY <1>2, <2>1, <2>3 DEF TablesAt, InStep, t
<1> QED BY <1>3, <1>4

\* A child reads one message.
LEMMA ReceiveEffect ==
  ASSUME conf \in Scenarios, NEW x \in KidType, NEW msg \in MessageType
  PROVE  LET y == Receive(x, msg) IN
         /\ y \in KidType
         /\ \A i \in Slots : y.tbl[i] = IF About(msg, i) THEN Says(msg) ELSE x.tbl[i]
<1>1. /\ msg.cmd \in {"open", "close", "quit", "terminate", "reopen"}
      /\ msg.slot \in Slots /\ msg.chan \in Chans /\ None \in Chans
  BY DEF MessageType, Chans, None
<1>2. x.tbl \in [Slots -> Chans]
  BY DEF KidType
<1>3. CASE msg.cmd \in {"quit", "terminate", "reopen"}
  <2>1. \/ Receive(x, msg) = [x EXCEPT !.quit = TRUE]
        \/ Receive(x, msg) = [x EXCEPT !.term = TRUE]
        \/ Receive(x, msg) = x
    BY <1>3 DEF Receive
  <2>2. Receive(x, msg) \in KidType /\ Receive(x, msg).tbl = x.tbl
    <3> DEFINE y == Receive(x, msg)
    <3> HIDE DEF y
    <3> QED BY <2>1, ZenonT(60) DEF KidType, y
  <2>3. \A i : ~About(msg, i)
    BY <1>3 DEF About
  <2> QED BY <2>2, <2>3
<1>4. CASE msg.cmd \in {"open", "close"}
  <2> DEFINE v == Says(msg)
             tbl == [x.tbl EXCEPT ![msg.slot] = v]
             y == [x EXCEPT !.tbl = tbl]
  <2>1. Receive(x, msg) = y
    BY <1>4 DEF Receive, Says
  <2>2. v \in Chans
    BY <1>1 DEF Says
  <2> HIDE DEF v
  <2>3. tbl \in [Slots -> Chans] /\ \A i \in Slots : tbl[i] = IF About(msg, i) THEN v ELSE x.tbl[i]
    BY <1>1, <1>2, <1>4, <2>2 DEF About
  <2> HIDE DEF tbl
  <2>4. y \in KidType /\ y.tbl = tbl
    BY <2>3 DEF KidType
  <2> QED BY <2>1, <2>3, <2>4 DEF v
<1> QED BY <1>1, <1>3, <1>4

\* What is still to be read, after n messages, for a child with the table x to
\* know v as the channel of slot i.
ToRead(mail, x, n, i, v) ==
  \/ x[i] = v /\ \A l \in DOMAIN mail : l > n => ~About(mail[l], i)
  \/ \E r \in DOMAIN mail :
       /\ r > n /\ About(mail[r], i) /\ Says(mail[r]) = v
       /\ \A l \in DOMAIN mail : l > r => ~About(mail[l], i)

\* ngx_channel_handler(): the child knows what it was told.
LEMMA ReadsAll ==
  ASSUME conf \in Scenarios, NEW k \in KidType, NEW i \in Slots, NEW v, Follows(k, i, v)
  PROVE  Follows(ReceiveAll(k), i, v)
<1> DEFINE N == Len(k.mail)
           S == KidType
           T == [n \in 0..N |-> {x \in S : ToRead(k.mail, x.tbl, n, i, v)}]
           Do(x, n) == Receive(x, k.mail[n])
           run[n \in 0..N] == IF n = 0 THEN k ELSE Do(run[n - 1], n)
           g == [n \in 1..N |-> [x \in S |-> Do(x, n)]]
<1> HIDE DEF run
<1>1. ReceiveAll(k) = [run[N] EXCEPT !.mail = <<>>]
  BY DEF ReceiveAll, run
<1>2. k.mail \in Seq(MessageType) /\ N \in Nat /\ DOMAIN k.mail = 1..N
  <2>1. k.mail \in Seq(MessageType)
    BY DEF KidType
  <2> QED BY <2>1
<1>3. k \in S /\ k \in T[0]
  <2>1. \A n \in DOMAIN k.mail : n > 0
    BY <1>2
  <2>2. ToRead(k.mail, k.tbl, 0, i, v)
    BY <2>1 DEF Follows, ToRead
  <2> QED BY <1>2, <2>2
<1>4. ASSUME NEW n \in 1..N, NEW x \in S
      PROVE  /\ Do(x, n) \in S
             /\ Do(x, n).tbl[i] = IF About(k.mail[n], i) THEN Says(k.mail[n]) ELSE x.tbl[i]
  BY <1>2, <1>4, ReceiveEffect, SMTT(60)
<1>5. ASSUME NEW n \in 1..N, NEW x \in T[n - 1]
      PROVE  Do(x, n) \in T[n]
  <2> DEFINE y == Do(x, n).tbl
             m == k.mail
  <2>1. n - 1 \in 0..N /\ n \in 0..N
    BY <1>2
  <2>2. x \in S /\ ToRead(m, x.tbl, n - 1, i, v)
    BY <2>1
  <2>3. Do(x, n) \in S /\ y[i] = IF About(m[n], i) THEN Says(m[n]) ELSE x.tbl[i]
    BY <1>4, <2>2
  <2> HIDE DEF y, m, Do
  <2>4. \A l \in 1..N : l > n - 1 <=> l > n \/ l = n
    BY <1>2
  <2>5. ToRead(m, y, n, i, v)
    BY <1>2, <2>2, <2>3, <2>4, <2>1 DEF ToRead, m
  <2> QED BY <2>1, <2>3, <2>5 DEF y, m
<1>6. \A x \in T[N] : x \in S /\ x.tbl[i] = v
  <2>1. \A l \in DOMAIN k.mail : ~(l > N)
    BY <1>2
  <2> QED BY <1>2, <2>1 DEF ToRead
<1> HIDE DEF N, S, Do, T
<1>7. g \in [1..N -> [S -> S]] /\ \A n \in 1..N, x \in S : g[n][x] = Do(x, n)
  BY <1>4
<1> HIDE DEF g
<1>8. PICK f : IsLoop(f, N, S, k, g)
  BY <1>2, <1>3, <1>7, LoopExists
<1>9. f = [n \in 0..N |-> IF n = 0 THEN k ELSE Do(f[n - 1], n)]
  <2>1. \A n \in 0..N : n = 0 \/ (n \in 1..N /\ n - 1 \in 0..N)
    BY <1>2
  <2>2. \A n \in 1..N : f[n] = Do(f[n - 1], n)
    BY <1>7, <1>8, <2>1 DEF IsLoop
  <2> QED BY <2>1, <2>2, <1>8 DEF IsLoop
<1>10. run = [n \in 0..N |-> IF n = 0 THEN k ELSE Do(run[n - 1], n)]
  BY <1>9, Zenon DEF run
<1>11. run[0] = k /\ \A n \in 1..N : run[n] = Do(run[n - 1], n)
  BY <1>2, <1>10
<1>12. \A n \in 0..N : run[n] \in T[n]
  <2>1. run[0] \in T[0]
    BY <1>3, <1>11
  <2>2. \A n \in 1..N : run[n - 1] \in T[n - 1] => run[n] \in T[n]
    BY <1>5, <1>11
  <2> QED BY <2>1, <2>2, <1>2, LoopInvariant
<1> DEFINE r == run[N]
           c == [r EXCEPT !.mail = <<>>]
<1>13. r \in KidType /\ r.tbl[i] = v
  BY <1>2, <1>6, <1>12 DEF S
<1>14. ReceiveAll(k) = c
  BY <1>1
<1> HIDE DEF r
<1>15. c.mail = <<>> /\ c.tbl = r.tbl
  BY <1>13 DEF KidType
<1> HIDE DEF c
<1>16. DOMAIN <<>> = {}
  OBVIOUS
<1>17. Follows(c, i, v)
  BY <1>13, <1>15, <1>16 DEF Follows
<1> QED BY <1>14, <1>17

(***************************************************************************)
(* Spawning                                                                *)
(***************************************************************************)

\* A child c is put into slot i, which nobody that is to be told is in, with an
\* entry of its own: then all the others are still to be told of slot i.
Put(s, i, kind, t) ==
  LET e == t.m.tab[i]
      x == s.m.tab[i]
  IN /\ i \in Slots /\ kind \in Kinds
     /\ \A p \in DOMAIN s.k : Member(s.k[p]) => s.k[p].slot # i
     /\ t.k = Append(s.k, Child(s, i, kind))
     /\ \A j \in Slots : j # i => t.m.tab[j] = s.m.tab[j]
     /\ ~(i >= t.m.last) /\ e.pid # None
     /\ \A j \in Slots : j >= t.m.last => j >= s.m.last
     /\ e.detached => ~e.respawn /\ kind = "binary"
     /\ e.chan = IF e.detached THEN None ELSE Len(s.k) + 1
     /\ t.failed \/ SameNotes(s, t)

LEMMA NewTables ==
  ASSUME conf \in Scenarios, NEW s, Sound(s), NEW t, NEW i, NEW kind, Put(s, i, kind, t),
         TablesAt(s, {})
  PROVE  /\ TablesAt(t, {i})
         /\ t.m.tab[i].detached /\ s.m.tab[i].chan = None => TablesAt(t, {})
<1> DEFINE c == Child(s, i, kind)
           p0 == Len(s.k) + 1
           e == t.m.tab[i]
<1>1. s.m \in MasterType /\ s.k \in Seq(KidType) /\ Len(s.k) \in Nat /\ DOMAIN s.k = 1..Len(s.k)
  BY DEF Sound, StateType
<1>2. CASE Blurred(s) \/ t.failed
  BY <1>2 DEF Put, Blurred, TablesAt, SameNotes
<1>3. CASE ~(Blurred(s) \/ t.failed)
  <2>1. KidsInStep(s.m, s.k, {}) /\ EntriesInStep(s.m)
    BY <1>3 DEF TablesAt, InStep
  <2>2. /\ c \in KidType /\ c.slot = i /\ c.kind = kind /\ c.mail = <<>>
        /\ c.tbl = [x \in Slots |-> IF x = i THEN None ELSE s.m.tab[x].chan]
    <3>1. c.tbl = [x \in Slots |-> IF x = i THEN None ELSE s.m.tab[x].chan]
      BY DEF Child
    <3> QED BY <3>1, <1>1, ChildType DEF Put
  <2> HIDE DEF c
  <2>3. /\ DOMAIN t.k = 1..p0 /\ t.k[p0] = c /\ \A p \in DOMAIN s.k : t.k[p] = s.k[p]
    BY <1>1, <2>2 DEF Put, c
  <2>4. \A p \in DOMAIN t.k : p \in DOMAIN s.k \/ p = p0
    BY <1>1, <2>3
  <2>5. EntriesInStep(t.m)
    <3> SUFFICES ASSUME NEW j \in Slots
                 PROVE  /\ j >= t.m.last \/ t.m.tab[j].pid = None \/ t.m.tab[j].detached
                             => t.m.tab[j].chan = None
                        /\ t.m.tab[j].detached => ~t.m.tab[j].respawn
      BY DEF EntriesInStep
    <3>1. CASE j = i
      BY <3>1 DEF Put
    <3>2. CASE j # i
      BY <3>2, <2>1, SMTT(60) DEF EntriesInStep, Put
    <3> QED BY <3>1, <3>2
  <2>6. ASSUME NEW X, X = {i} \/ (X = {} /\ e.detached /\ s.m.tab[i].chan = None)
        PROVE  KidsInStep(t.m, t.k, X)
    <3> SUFFICES ASSUME NEW p \in DOMAIN t.k, Member(t.k[p])
                 PROVE  /\ t.m.tab[t.k[p].slot].chan = p
                        /\ \A j \in Slots \ ({t.k[p].slot} \cup X) :
                             Follows(t.k[p], j, t.m.tab[j].chan)
      BY DEF KidsInStep
    <3>1. CASE p \in DOMAIN s.k
      <4> DEFINE d == s.k[p]
      <4>1. t.k[p] = d /\ Member(d) /\ d.slot # i
        BY <2>3, <3>1 DEF Put
      <4>2. d \in KidType
        BY <1>1, <3>1, SMTT(60)
      <4>3. /\ s.m.tab[d.slot].chan = p
            /\ \A j \in Slots \ {d.slot} : Follows(d, j, s.m.tab[j].chan)
        BY <2>1, <3>1, <4>1 DEF KidsInStep
      <4> HIDE DEF d
      <4>4. d.slot \in Slots
        BY <4>2 DEF KidType
      <4>5. t.m.tab[d.slot].chan = p
        BY <4>1, <4>3, <4>4 DEF Put
      <4>6. ASSUME NEW j \in Slots, j # d.slot, j \notin X
            PROVE  Follows(d, j, t.m.tab[j].chan)
        <5>1. t.m.tab[j].chan = s.m.tab[j].chan
          BY <2>6, <4>6 DEF Put
        <5> QED BY <5>1, <4>3, <4>6
      <4> QED BY <4>1, <4>5, <4>6
    <3>2. CASE p = p0
      <4>1. t.k[p] = c /\ kind # "binary"
        BY <2>2, <2>3, <3>2 DEF Member
      <4>2. ~e.detached /\ e.chan = p0 /\ X = {i}
        BY <2>6, <4>1 DEF Put
      <4>3. ASSUME NEW j \in Slots, j # i
            PROVE  Follows(c, j, t.m.tab[j].chan)
        <5>1. t.m.tab[j].chan = s.m.tab[j].chan /\ c.tbl[j] = s.m.tab[j].chan
          BY <2>2, <4>3 DEF Put
        <5>2. DOMAIN c.mail = {}
          BY <2>2, SMTT(60)
        <5> QED BY <5>1, <5>2 DEF Follows
      <4> QED BY <2>2, <3>2, <4>1, <4>2, <4>3
    <3> QED BY <2>4, <3>1, <3>2
  <2> QED BY <2>5, <2>6 DEF TablesAt, InStep
<1> QED BY <1>2, <1>3

\* Everyone that is to be told has a slot with its channel.
LEMMA MemberSlot ==
  ASSUME conf \in Scenarios, NEW s, Sound(s), NEW p \in DOMAIN s.k, Member(s.k[p])
  PROVE  LET i == s.k[p].slot IN
         /\ i \in Slots /\ i \in 0..(s.m.last - 1) /\ i < s.m.last
         /\ s.m.tab[i].pid = p /\ p # None /\ ~s.m.tab[i].exited
<1> DEFINE c == s.k[p]
           i == c.slot
<1>1. s.m \in MasterType /\ s.k \in Seq(KidType) /\ c \in KidType /\ p \in 1..Len(s.k)
  BY DEF Sound, StateType
<1>2. c.st = "running"
  BY SMTT(60) DEF Member
<1>3. i < s.m.last /\ s.m.tab[i].pid = p
  BY <1>2 DEF Sound, TableOK
<1> HIDE DEF c
<1>4. i \in Slots
  BY <1>1 DEF KidType
<1> HIDE DEF i
<1>5. i \in 0..(s.m.last - 1) /\ p # None
  BY <1>1, <1>3, <1>4, ConfOK, SMTT(60) DEF MasterType, None
<1>6. ~s.m.tab[i].exited
  <2> SUFFICES ASSUME s.m.tab[i].exited PROVE FALSE
    OBVIOUS
  <2>1. s.k[p].st = "reaped"
    BY <1>3, <1>5 DEF Sound, TableOK
  <2> QED BY <2>1, <1>2 DEF c
<1> QED BY <1>3, <1>4, <1>5, <1>6 DEF i, c

\* ngx_pass_open_channel() tells everyone else of the slot.
LEMMA PassTables ==
  ASSUME conf \in Scenarios, NEW s, Sound(s), NEW j \in Slots, TablesAt(s, {j})
  PROVE  TablesAt(PassOpenChannel(s, j), {})
<1> DEFINE to == {i \in 0..(s.m.last - 1) : /\ i # j
                                            /\ s.m.tab[i].pid # None
                                            /\ s.m.tab[i].chan # None}
           x == s.m.tab[j].chan
           msg == [cmd |-> "open", slot |-> j, chan |-> x]
           t == Broadcast(s, to, msg)
<1>1. PassOpenChannel(s, j) = t
  BY DEF PassOpenChannel
<1>2. s \in StateType /\ s.m \in MasterType
  BY DEF Sound, StateType
<1>3. to \in SUBSET Slots
  BY <1>2, ConfOK, SMTT(60) DEF MasterType
<1>4. x \in Chans
  <2> DEFINE e == s.m.tab[j]
  <2>1. e \in ProcessType
    BY <1>2 DEF MasterType
  <2> HIDE DEF e
  <2>2. e.chan \in Chans
    BY <2>1 DEF ProcessType
  <2> QED BY <2>2 DEF e
<1>5. msg \in MessageType /\ About(msg, j) /\ Says(msg) = x
  BY <1>4 DEF MessageType, About, Says
<1>6. CASE Blurred(s)
  <2> HIDE DEF to, msg
  <2>1. /\ t.failed = s.failed /\ t.double = s.double /\ (s.lost => t.lost)
    BY <1>2, <1>3, BroadcastEffect, ZenonT(60)
  <2> QED BY <1>1, <1>6, <2>1 DEF TablesAt, Blurred
<1>7. CASE InStep(s.m, s.k, {j})
  <2>1. ASSUME NEW p \in DOMAIN s.k, Member(s.k[p]) PROVE s.k[p].slot \in to \cup {j}
    <3>1. s.m.tab[s.k[p].slot].chan = p
      BY <1>7, <2>1 DEF InStep, KidsInStep
    <3>2. /\ s.k[p].slot \in 0..(s.m.last - 1)
          /\ s.m.tab[s.k[p].slot].pid = p /\ p # None
      BY <2>1, MemberSlot
    <3> QED BY <3>1, <3>2
  <2> HIDE DEF to, msg
  <2>2. TablesAt(t, {})
    BY <1>3, <1>5, <2>1, TellAll
  <2> QED BY <1>1, <2>2
<1> QED BY <1>6, <1>7 DEF TablesAt

\* ngx_spawn_process() in a slot that it finds itself.
LEMMA SpawnTables ==
  ASSUME conf \in Scenarios, NEW s, Sound(s), NEW kind \in Kinds,
         NEW type \in DOMAIN SpawnTypes, type = "detached" => kind = "binary",
         TablesAt(s, {})
  PROVE  LET t == Spawn(s, kind, type) IN
         /\ Sound(t) /\ t.slot \in Slots /\ t.ok \in BOOLEAN
         /\ ~t.ok => t.failed
         /\ TablesAt(t, {t.slot})
         /\ type = "detached" => TablesAt(t, {})
<1> DEFINE t == Spawn(s, kind, type)
           i == t.slot
<1>1. Onward(s, t) /\ t.ok \in BOOLEAN /\ (~t.ok => t.failed)
  BY SpawnSound
<1>2. Sound(t) /\ i \in Slots
  BY <1>1 DEF Onward, Sound, StateType
<1>3. CASE t.failed
  BY <1>1, <1>2, <1>3, SMTT(60) DEF TablesAt, Blurred
<1>4. CASE ~t.failed
  <2> DEFINE e == t.m.tab[i]
             x == s.m.tab[i]
  <2>1. /\ i \in 0..s.m.last /\ (i < s.m.last => x.pid = None)
        /\ t.m.last = (IF i = s.m.last THEN s.m.last + 1 ELSE s.m.last)
        /\ t.k = Append(s.k, Child(s, i, kind))
        /\ (\A j \in Slots : j # i => t.m.tab[j] = s.m.tab[j])
        /\ e.pid = Len(s.k) + 1 /\ e.respawn = SpawnTypes[type].respawn
        /\ e.chan = (IF SpawnTypes[type].detached THEN None ELSE Len(s.k) + 1)
        /\ e.detached = SpawnTypes[type].detached /\ SameNotes(s, t)
    BY <1>4, SpawnEffect
  <2>2. /\ SpawnTypes[type].detached <=> type = "detached"
        /\ SpawnTypes[type].detached => ~SpawnTypes[type].respawn
    BY DEF SpawnTypes
  <2>3. s.m.last \in Nat /\ Len(s.k) \in Nat /\ conf.slots \in Nat
    BY ConfOK, SMTT(60) DEF Sound, StateType, MasterType
  <2> HIDE DEF t, i
  <2>4. ASSUME NEW p \in DOMAIN s.k, Member(s.k[p]) PROVE s.k[p].slot # i
    <3>1. /\ s.k[p].slot < s.m.last /\ s.m.tab[s.k[p].slot].pid = p /\ p # None
      BY <2>4, MemberSlot
    <3> QED BY <2>1, <3>1
  <2>5. ~(i >= t.m.last) /\ \A j \in Slots : j >= t.m.last => j >= s.m.last
    BY <1>2, <2>1, <2>3, ConfOK, SMTT(60)
  <2>6. e.pid # None
    BY <2>1, <2>3 DEF None
  <2>7. Put(s, i, kind, t)
    BY <1>2, <2>1, <2>2, <2>4, <2>5, <2>6 DEF Put
  <2>8. i >= s.m.last \/ x.pid = None
    BY <2>1, <2>3
  <2>9. ~Blurred(s) => x.chan = None
    BY <1>2, <2>8 DEF TablesAt, InStep, EntriesInStep
  <2>10. Blurred(s) => Blurred(t)
    BY <2>1 DEF Blurred, SameNotes
  <2>11. TablesAt(t, {i}) /\ (e.detached /\ x.chan = None => TablesAt(t, {}))
    BY <2>7, NewTables
  <2> QED BY <1>1, <1>2, <2>1, <2>2, <2>9, <2>10, <2>11, SMTT(60) DEF t, i, TablesAt
<1> QED BY <1>3, <1>4

\* Starting children does not reap any.
Unreaped(s, t) == (s.failed => t.failed) /\ (t.double => t.failed \/ s.double)

LEMMA SpawnAndPassTables ==
  ASSUME conf \in Scenarios, NEW s, Sound(s), NEW kind \in Kinds,
         NEW type \in DOMAIN SpawnTypes, type # "detached", TablesAt(s, {})
  PROVE  LET t == SpawnAndPass(s, kind, type) IN TablesAt(t, {}) /\ Unreaped(s, t)
<1> DEFINE t == Spawn(s, kind, type)
           u == PassOpenChannel(t, t.slot)
<1>1. SpawnAndPass(s, kind, type) = IF t.ok THEN u ELSE t
  BY DEF SpawnAndPass
<1>2. /\ Sound(t) /\ t.slot \in Slots /\ t.ok \in BOOLEAN
      /\ ~t.ok => t.failed
      /\ TablesAt(t, {t.slot})
  BY SpawnTables
<1>2a. Unreaped(s, t)
  BY SpawnEffect, SpawnSound DEF Unreaped, SameNotes, Onward, FlagsKept
<1> HIDE DEF t
<1>3. TablesAt(u, {})
  BY <1>2, PassTables
<1>3a. Unreaped(s, u)
  <2> DEFINE to == {i \in 0..(t.m.last - 1) : /\ i # t.slot
                                             /\ t.m.tab[i].pid # None
                                             /\ t.m.tab[i].chan # None}
             msg == [cmd |-> "open", slot |-> t.slot, chan |-> t.m.tab[t.slot].chan]
  <2>1. u = Broadcast(t, to, msg)
    BY DEF PassOpenChannel
  <2>2. to \in SUBSET Slots /\ t \in StateType
    BY <1>2, ConfOK, SMTT(60) DEF Sound, StateType, MasterType
  <2> HIDE DEF to, msg, u
  <2>3. u.failed = t.failed /\ u.double = t.double
    BY <2>1, <2>2, BroadcastEffect
  <2> QED BY <1>2a, <2>3 DEF Unreaped
<1> HIDE DEF u
<1>4. ~t.ok => TablesAt(t, {})
  BY <1>2 DEF TablesAt, Blurred
<1> QED BY <1>1, <1>2, <1>2a, <1>3, <1>3a, <1>4

\* ngx_start_worker_processes()
LEMMA StartWorkersTables ==
  ASSUME conf \in Scenarios, NEW s, Sound(s), NEW type \in DOMAIN SpawnTypes,
         type # "detached", TablesAt(s, {})
  PROVE  LET t == StartWorkers(s, type) IN TablesAt(t, {}) /\ Unreaped(s, t)
<1> DEFINE N == conf.workers
           S == {x \in StateType : Sound(x) /\ TablesAt(x, {}) /\ Unreaped(s, x)}
           Do(x) == SpawnAndPass(x, "worker", type)
           run[n \in 0..N] == IF n = 0 THEN s ELSE Do(run[n - 1])
           g == [n \in 1..N |-> [x \in S |-> Do(x)]]
<1> HIDE DEF run
<1>1. StartWorkers(s, type) = run[N]
  BY DEF StartWorkers, run
<1>2. N \in Nat
  BY ConfOK
<1>3. s \in S
  BY DEF Sound, Unreaped
<1>4. ASSUME NEW x \in S PROVE Do(x) \in S
  <2>1. Sound(x) /\ TablesAt(x, {}) /\ "worker" \in Kinds /\ Unreaped(s, x)
    BY DEF Kinds
  <2>2. Onward(x, Do(x)) /\ TablesAt(Do(x), {}) /\ Unreaped(x, Do(x))
    BY <2>1, SpawnAndPassSound, SpawnAndPassTables
  <2> HIDE DEF Do
  <2>3. Unreaped(s, Do(x))
    BY <2>1, <2>2 DEF Unreaped
  <2> QED BY <2>2, <2>3 DEF Onward, Sound
<1>5. \A x \in S : TablesAt(x, {}) /\ Unreaped(s, x)
  OBVIOUS
<1> HIDE DEF N, S, Do
<1>6. g \in [1..N -> [S -> S]] /\ \A n \in 1..N, x \in S : g[n][x] = Do(x)
  BY <1>4
<1> HIDE DEF g
<1>7. PICK f : IsLoop(f, N, S, s, g)
  BY <1>2, <1>3, <1>6, LoopExists
<1>8. f = [n \in 0..N |-> IF n = 0 THEN s ELSE Do(f[n - 1])]
  <2>1. \A n \in 0..N : n = 0 \/ (n \in 1..N /\ n - 1 \in 0..N)
    BY <1>2
  <2>2. \A n \in 1..N : f[n] = Do(f[n - 1])
    BY <1>6, <1>7, <2>1 DEF IsLoop
  <2> QED BY <2>1, <2>2, <1>7 DEF IsLoop
<1>9. run = [n \in 0..N |-> IF n = 0 THEN s ELSE Do(run[n - 1])]
  BY <1>8, Zenon DEF run
<1>10. run[0] = s /\ \A n \in 1..N : run[n] = Do(run[n - 1])
  BY <1>2, <1>9
<1> DEFINE T == [n \in 0..N |-> S]
<1>11. \A n \in 0..N : run[n] \in T[n]
  <2>1. run[0] \in T[0]
    BY <1>2, <1>3, <1>10
  <2>2. \A n \in 1..N : run[n - 1] \in T[n - 1] => run[n] \in T[n]
    BY <1>2, <1>4, <1>10
  <2> HIDE DEF T
  <2> QED BY <2>1, <2>2, <1>2, LoopInvariant
<1>12. run[N] \in S
  BY <1>2, <1>11
<1> QED BY <1>1, <1>5, <1>12

LEMMA StartAllTables ==
  ASSUME conf \in Scenarios, NEW s, Sound(s), NEW again \in BOOLEAN, TablesAt(s, {})
  PROVE  LET t == StartAll(s, again) IN TablesAt(t, {}) /\ Unreaped(s, t)
<1> DEFINE a == IF again THEN "just_respawn" ELSE "respawn"
           b == IF again THEN "just_spawn" ELSE "norespawn"
           w == StartWorkers(s, a)
           m == SpawnAndPass(w, "manager", a)
           l == SpawnAndPass(m, "loader", b)
<1>1. StartAll(s, again) = IF ~conf.cache THEN w ELSE l
  BY DEF StartAll, StartCacheManagers
<1>2. /\ a \in DOMAIN SpawnTypes /\ a # "detached" /\ b \in DOMAIN SpawnTypes
      /\ b # "detached" /\ {"manager", "loader"} \subseteq Kinds
  BY SpawnTypesType DEF Kinds
<1> HIDE DEF a, b
<1>3. Sound(w) /\ TablesAt(w, {}) /\ Unreaped(s, w)
  BY <1>2, StartWorkersSound, StartWorkersTables DEF Onward
<1> HIDE DEF w
<1>4. Sound(m) /\ TablesAt(m, {}) /\ Unreaped(w, m)
  BY <1>2, <1>3, SpawnAndPassSound, SpawnAndPassTables DEF Onward
<1> HIDE DEF m
<1>5. TablesAt(l, {}) /\ Unreaped(m, l)
  BY <1>2, <1>4, SpawnAndPassTables
<1> HIDE DEF l
<1>6. Unreaped(s, l)
  BY <1>3, <1>4, <1>5 DEF Unreaped
<1> QED BY <1>1, <1>3, <1>5, <1>6

(***************************************************************************)
(* Signalling                                                              *)
(***************************************************************************)

\* kill() leaves what the child knows and was sent, or ends it.
LEMMA KillAlike ==
  ASSUME NEW k \in KidType, NEW cmd \in Commands
  PROVE  KidAlike(k, Kill(k, cmd))
<1> DEFINE d == Kill(k, cmd)
           z == [Closed(k) EXCEPT !.st = "zombie"]
<1>1. d = k \/ d = z \/ d = [k EXCEPT !.quit = TRUE] \/ d = [k EXCEPT !.term = TRUE]
  BY DEF Kill, Commands
<1>2. z.st = "zombie"
  BY DEF Closed, KidType
<1> HIDE DEF d, z
<1>3. CASE d = z
  BY <1>2, <1>3 DEF KidAlike, Member, d
<1>4. CASE d # z
  <2>1. d.st = k.st /\ d.kind = k.kind /\ d.slot = k.slot /\ d.mail = k.mail /\ d.tbl = k.tbl
    BY <1>1, <1>4 DEF KidType
  <2> QED BY <2>1 DEF KidAlike, Member, Follows, d
<1> QED BY <1>3, <1>4

\* A message that is not about a slot.
LEMMA CommandAlike ==
  ASSUME NEW k \in KidType, NEW msg \in MessageType, msg.cmd \notin {"open", "close"}
  PROVE  KidAlike(k, [k EXCEPT !.mail = Append(@, msg)])
<1> DEFINE q == Append(k.mail, msg)
           d == [k EXCEPT !.mail = q]
<1>1. k.mail \in Seq(MessageType)
  BY DEF KidType
<1>2. \A i : ~About(msg, i)
  BY DEF About
<1> HIDE DEF q
<1>3. d.st = k.st /\ d.kind = k.kind /\ d.slot = k.slot /\ d.mail = q /\ d.tbl = k.tbl
  BY DEF KidType
<1> HIDE DEF d
<1>4. \A i, x : Follows(k, i, x) => Follows(d, i, x)
  BY <1>1, <1>2, <1>3, Hears DEF q
<1>5. KidAlike(k, d)
  BY <1>3, <1>4 DEF KidAlike, Member
<1> QED BY <1>5 DEF d, q

\* One entry and one child.
LEMMA OneAlike ==
  ASSUME conf \in Scenarios, NEW s, Sound(s), NEW i \in Slots, NEW f, NEW b, NEW l,
         EntryAlike(s.m.tab[i], f), DOMAIN l = DOMAIN s.k,
         \A p \in DOMAIN s.k : KidAlike(s.k[p], l[p])
  PROVE  Alike(s, OneSet(s, i, f, l, b))
<1> DEFINE t == OneSet(s, i, f, l, b)
<1>1. /\ t.k = l /\ t.m.last = s.m.last /\ t.m.tab[i] = f
      /\ (\A j \in Slots : j # i => t.m.tab[j] = s.m.tab[j])
      /\ SameNotes(s, t)
  BY OneEntry
<1> HIDE DEF t
<1>2. \A j \in Slots : EntryAlike(s.m.tab[j], t.m.tab[j])
  <2> TAKE j \in Slots
  <2>1. CASE j = i
    BY <1>1, <2>1
  <2>2. CASE j # i
    BY <1>1, <2>2 DEF EntryAlike
  <2> QED BY <2>1, <2>2
<1> QED BY <1>1, <1>2 DEF Alike, Blurred, SameNotes, t

\* A signal or a message to one slot does not touch the tables.
LEMMA SignalOneAlike ==
  ASSUME conf \in Scenarios, NEW s, Sound(s), NEW i \in Slots, NEW cmd \in Commands
  PROVE  Alike(s, SignalOne(s, i, cmd))
<1> DEFINE e == s.m.tab[i]
           msg == [cmd |-> cmd, slot |-> i, chan |-> None]
           t == SignalOne(s, i, cmd)
           r == s.m.reap
           x == [e EXCEPT !.exiting = TRUE]
           f == IF cmd = "reopen" THEN e ELSE x
<1>1. s \in StateType /\ s.m \in MasterType /\ s.k \in Seq(KidType)
  BY DEF Sound, StateType
<1>2. /\ s.m.tab \in [Slots -> ProcessType] /\ e \in ProcessType
      /\ Len(s.k) \in Nat /\ DOMAIN s.k = 1..Len(s.k)
  BY <1>1 DEF MasterType
<1>3. e.pid \in 0..Len(s.k) /\ e.chan <= Len(s.k) /\ e.chan \in Int
  BY <1>2 DEF Sound, Bounds, ProcessType, Chans, Stale
<1>4. EntryAlike(e, e) /\ EntryAlike(e, x)
  BY <1>2 DEF EntryAlike, ProcessType
<1>5. \A p \in DOMAIN s.k : KidAlike(s.k[p], s.k[p])
  BY KidAlikeSelf
<1>6. CASE i >= s.m.last \/ e.detached \/ e.pid = None
           \/ (~e.just /\ e.exiting /\ cmd = "quit")
  <2>1. t = s
    BY <1>6 DEF SignalOne
  <2> QED BY <2>1, SameTables, SMTT(60)
<1>7. CASE ~(i >= s.m.last \/ e.detached \/ e.pid = None) /\ e.just
  <2> DEFINE y == [e EXCEPT !.just = FALSE]
             v == OneSet(s, i, y, s.k, r)
  <2>1. t = v
    BY <1>1, <1>7, ZenonT(60) DEF SignalOne, StateType, MasterType, OneSet
  <2>2. EntryAlike(e, y)
    BY <1>2 DEF ProcessType, EntryAlike
  <2> HIDE DEF y, t
  <2>3. Alike(s, v)
    BY <1>5, <2>2, OneAlike
  <2> QED BY <2>1, <2>3 DEF t
<1>8. CASE /\ ~(i >= s.m.last \/ e.detached \/ e.pid = None) /\ ~e.just
           /\ ~(e.exiting /\ cmd = "quit")
  <2>0. ASSUME NEW q \in DOMAIN s.k, NEW c, KidAlike(s.k[q], c),
               t = OneSet(s, i, f, [s.k EXCEPT ![q] = c], r)
        PROVE  Alike(s, t)
    <3> DEFINE l == [s.k EXCEPT ![q] = c]
    <3>1. EntryAlike(e, f)
      BY <1>4
    <3> HIDE DEF f, t
    <3>2. DOMAIN l = DOMAIN s.k /\ \A p \in DOMAIN s.k : l[p] = IF p = q THEN c ELSE s.k[p]
      BY <1>1
    <3> HIDE DEF l
    <3>3. \A p \in DOMAIN s.k : KidAlike(s.k[p], l[p])
      BY <1>5, <2>0, <3>2
    <3> HIDE DEF r
    <3>4. Alike(s, OneSet(s, i, f, l, r))
      BY <3>1, <3>2, <3>3, OneAlike
    <3> QED BY <2>0, <3>4 DEF l
  <2>1. CASE cmd # "kill" /\ Writable(s, e.chan)
    <3> DEFINE k == s.k[e.chan]
               q == Append(k.mail, msg)
               c == [k EXCEPT !.mail = q]
    <3>1. e.chan \in DOMAIN s.k
      BY <1>2, <1>3, <2>1 DEF Writable
    <3>2. t = OneSet(s, i, f, [s.k EXCEPT ![e.chan] = c], r)
      <4> DEFINE l == [s.k EXCEPT ![e.chan] = c]
      <4>1. t = IF cmd = "reopen" THEN [s EXCEPT !.k = l]
                ELSE [[s EXCEPT !.k = l] EXCEPT !.m.tab[i].exiting = TRUE]
        BY <1>8, <2>1 DEF SignalOne
      <4> HIDE DEF l, t
      <4> QED BY <4>1, SameEntry, ExitingEntry, ZenonT(60) DEF l
    <3>3. k \in KidType
      BY <3>1, <1>1
    <3>4. msg \in MessageType /\ msg.cmd \notin {"open", "close"}
      BY <2>1 DEF MessageType, Commands, Chans, None
    <3> HIDE DEF k, msg
    <3>5. KidAlike(k, c)
      BY <3>3, <3>4, CommandAlike
    <3> HIDE DEF c, f, t
    <3> QED BY <3>1, <3>2, <3>5, <2>0 DEF k, t
  <2>2. CASE ~(cmd # "kill" /\ Writable(s, e.chan)) /\ s.k[e.pid].st = "reaped"
    <3> DEFINE y == [e EXCEPT !.exited = TRUE, !.exiting = FALSE]
               yes == TRUE
               v == OneSet(s, i, y, s.k, yes)
    <3>1. t = v
      BY <1>1, <1>8, <2>2 DEF SignalOne, StateType, MasterType, OneSet
    <3>2. EntryAlike(e, y)
      BY <1>2 DEF ProcessType, EntryAlike
    <3> HIDE DEF y, t, yes
    <3>3. Alike(s, v)
      BY <1>5, <3>2, OneAlike
    <3> QED BY <3>1, <3>3 DEF t
  <2>3. CASE ~(cmd # "kill" /\ Writable(s, e.chan)) /\ s.k[e.pid].st # "reaped"
    <3> DEFINE k == s.k[e.pid]
               c == Kill(k, cmd)
    <3>1. e.pid \in DOMAIN s.k
      BY <1>2, <1>3, <1>8 DEF None
    <3>2. t = OneSet(s, i, f, [s.k EXCEPT ![e.pid] = c], r)
      <4> DEFINE l == [s.k EXCEPT ![e.pid] = c]
      <4>1. t = IF cmd = "reopen" THEN [s EXCEPT !.k = l]
                ELSE [[s EXCEPT !.k = l] EXCEPT !.m.tab[i].exiting = TRUE]
        BY <1>8, <2>3 DEF SignalOne
      <4> HIDE DEF l, t
      <4> QED BY <4>1, SameEntry, ExitingEntry, ZenonT(60) DEF l
    <3>3. k \in KidType
      BY <3>1, <1>1
    <3> HIDE DEF k
    <3>4. KidAlike(k, c)
      BY <3>3, KillAlike
    <3> HIDE DEF c, f, t
    <3> QED BY <3>1, <3>2, <3>4, <2>0 DEF k, t
  <2> QED BY <2>1, <2>2, <2>3
<1>9. e.just \in BOOLEAN /\ e.exiting \in BOOLEAN
  BY <1>2 DEF ProcessType
<1> QED BY <1>6, <1>7, <1>8, <1>9

\* ngx_signal_worker_processes()
LEMMA SignalTables ==
  ASSUME conf \in Scenarios, NEW s, Sound(s), NEW cmd \in Commands, TablesAt(s, {})
  PROVE  TablesAt(SignalWorkers(s, cmd), {})
<1> DEFINE N == conf.slots
           T == [n \in 0..N |-> {x \in StateType : Sound(x) /\ TablesAt(x, {})}]
<1>1. N \in Nat /\ \A n \in 1..N : n - 1 \in Slots /\ n - 1 \in 0..N /\ n \in 0..N
  BY ConfOK
<1>2. T \in [0..N -> SUBSET StateType] /\ s \in T[0]
  BY <1>1 DEF Sound
<1>3. ASSUME NEW n \in 1..N, NEW x \in T[n - 1]
      PROVE  SignalOne(x, n - 1, cmd) \in T[n]
  <2> DEFINE i == n - 1
             y == SignalOne(x, i, cmd)
  <2>1. Sound(x) /\ TablesAt(x, {}) /\ i \in Slots
    BY <1>1
  <2> HIDE DEF i
  <2>2. Still(x, y) /\ Alike(x, y)
    BY <2>1, SignalOneSound, SignalOneAlike
  <2> HIDE DEF y
  <2>3. TablesAt(y, {}) /\ Sound(y) /\ y \in StateType
    BY <2>1, <2>2, AlikeKeeps DEF Still, Onward, Sound
  <2> QED BY <1>1, <2>3 DEF y, i
<1>4. \A x \in T[N] : TablesAt(x, {})
  BY <1>1
<1> HIDE DEF T
<1>5. SignalWorkers(s, cmd) \in T[N]
  BY <1>2, <1>3, SignalLoop
<1> QED BY <1>4, <1>5

(***************************************************************************)
(* Reaping                                                                 *)
(***************************************************************************)

\* At most one child is to be treated, none once one was started again: the
\* variable of ngx_reap_children() that holds the message is used once.
ExitedSlots(m) == {i \in 0..(m.last - 1) : m.tab[i].pid # None /\ m.tab[i].exited}
OneExited(s) ==
  /\ \A i, j \in ExitedSlots(s.m) : i = j
  /\ s.chfd # None => ExitedSlots(s.m) = {}
ReapAt(s) == Blurred(s) \/ (InStep(s.m, s.k, {}) /\ OneExited(s))

\* Nobody that is to be told is in the slot of an exited child.
LEMMA NobodyThere ==
  ASSUME conf \in Scenarios, NEW s, Sound(s), NEW i \in Slots, s.m.tab[i].exited
  PROVE  \A p \in DOMAIN s.k : Member(s.k[p]) => s.k[p].slot # i
BY MemberSlot

\* A set of at most one slot.
LEMMA AtMostOne ==
  ASSUME conf \in Scenarios, NEW s, Sound(s), ~(Cardinality(ExitedSlots(s.m)) > 1)
  PROVE  \A i, j \in ExitedSlots(s.m) : i = j
<1> DEFINE E == ExitedSlots(s.m)
<1>1. s.m.last \in Int
  BY ConfOK DEF Sound, StateType, MasterType
<1>2. IsFiniteSet(0..(s.m.last - 1))
  BY <1>1, FS_Interval
<1>3. E \subseteq 0..(s.m.last - 1)
  BY DEF ExitedSlots
<1>4. IsFiniteSet(E)
  BY <1>2, <1>3, FS_Subset
<1>5. ASSUME NEW i \in E, NEW j \in E, i # j PROVE FALSE
  <2>1. {i, j} \subseteq E
    BY <1>5
  <2>2. IsFiniteSet({i, j}) /\ Cardinality({i, j}) = 2
    <3>1. IsFiniteSet({i}) /\ Cardinality({i}) = 1
      BY FS_Singleton
    <3> DEFINE A == {i}
    <3>2. j \notin A /\ A \cup {j} = {i, j}
      BY <1>5
    <3>3. IsFiniteSet(A) /\ Cardinality(A) = 1
      BY <3>1
    <3> HIDE DEF A
    <3>4. /\ IsFiniteSet(A \cup {j})
          /\ Cardinality(A \cup {j}) = IF j \in A THEN Cardinality(A) ELSE Cardinality(A) + 1
      BY <3>3, FS_AddElement
    <3> QED BY <3>2, <3>3, <3>4
  <2>3. Cardinality({i, j}) <= Cardinality(E) /\ Cardinality(E) \in Nat
    BY <1>4, <2>1, FS_Subset, FS_CardinalityType
  <2> QED BY <2>2, <2>3
<1> QED BY <1>5

\* The same children, table and notes.
LEMMA ReapSame ==
  ASSUME NEW s, NEW t, t.k = s.k, t.m.tab = s.m.tab, t.m.last = s.m.last,
         SameNotes(s, t), t.chfd = s.chfd, ReapAt(s)
  PROVE  ReapAt(t)
BY ZenonT(60) DEF ReapAt, Blurred, SameNotes, InStep, KidsInStep, EntriesInStep, OneExited, ExitedSlots

\* The channel of an exited child is closed, and all are told so.
LEMMA CloseTables ==
  ASSUME conf \in Scenarios, NEW s, Sound(s), NEW i \in ExitedSlots(s.m), ReapAt(s)
  PROVE  LET t == CloseChannels(s, i) IN
         /\ ReapAt(t)
         /\ Blurred(t) \/ t.m.tab[i].chan = None
<1> DEFINE t == CloseChannels(s, i)
           e == s.m.tab[i]
           x == [e EXCEPT !.chan = None]
           u == [s EXCEPT !.m.tab[i] = x]
           to == {n \in 0..(u.m.last - 1) : /\ ~u.m.tab[n].exited
                                            /\ u.m.tab[n].pid # None
                                            /\ u.m.tab[n].chan # None}
           msg == CloseMsg(u, i)
<1>1. s \in StateType /\ s.m \in MasterType /\ s.k \in Seq(KidType) /\ Len(s.k) \in Nat
  BY DEF Sound, StateType
<1>2. /\ s.m.tab \in [Slots -> ProcessType] /\ s.m.last \in 0..conf.slots
      /\ i \in Slots /\ i \in 0..(s.m.last - 1) /\ e \in ProcessType
      /\ e.exited /\ e.pid # None
  BY <1>1, ConfOK, SMTT(60) DEF MasterType, ExitedSlots
<1>3. CASE e.detached
  <2>1. t = s
    BY <1>3 DEF CloseChannels
  <2> HIDE DEF t
  <2> QED BY <1>2, <1>3, <2>1 DEF ReapAt, InStep, EntriesInStep, t
<1>4. CASE ~e.detached
  <2>1. t = Broadcast(u, to, msg)
    BY <1>4 DEF CloseChannels
  <2>2. /\ x \in ProcessType /\ x.chan = None /\ x.detached = e.detached /\ x.pid = e.pid
        /\ x.kind = e.kind /\ x.exited = e.exited /\ x.respawn = e.respawn
    BY <1>2 DEF ProcessType, Chans, None
  <2> HIDE DEF x
  <2>3. x.chan <= Len(s.k)
    BY <1>1, <2>2 DEF None
  <2>4. /\ Still(s, u) /\ u.k = s.k /\ u.m.tab = [s.m.tab EXCEPT ![i] = x]
        /\ u.m.last = s.m.last
    BY <1>2, <2>2, <2>3, FlagSound, ZenonT(60)
  <2>5. u.chfd = s.chfd /\ SameNotes(s, u)
    BY <1>1 DEF StateType, SameNotes
  <2> HIDE DEF u, t
  <2>6. Sound(u) /\ u \in StateType /\ u.m \in MasterType
    BY <2>4 DEF Still, Onward, Sound, StateType
  <2>7. u.m.tab[i] = x /\ \A j \in Slots : j # i => u.m.tab[j] = s.m.tab[j]
    BY <1>2, <2>4
  <2>8. \A j \in 0..(s.m.last - 1) : j \in Slots
    BY <1>2, ConfOK
  <2>9. to \in SUBSET Slots
    BY <2>4, <2>8
  <2>10. /\ t.m = u.m /\ t.chfd = u.chfd
         /\ t.failed = u.failed /\ t.double = u.double /\ (u.lost => t.lost)
    <3> HIDE DEF to, msg
    <3> QED BY <2>1, <2>6, <2>9, BroadcastEffect
  <2>11. CASE Blurred(s)
    BY <2>5, <2>10, <2>11 DEF Blurred, SameNotes, ReapAt, t
  <2>12. CASE ~Blurred(s)
    <3>1. InStep(s.m, s.k, {}) /\ OneExited(s)
      BY <2>12 DEF ReapAt
    <3>2. u.chfd = None
      BY <2>5, <3>1 DEF OneExited
    <3>3. /\ msg = [cmd |-> "close", slot |-> i, chan |-> None]
          /\ msg \in MessageType /\ About(msg, i) /\ Says(msg) = None
      BY <1>2, <3>2 DEF CloseMsg, MessageType, About, Says, Chans, None
    <3>4. EntriesInStep(u.m)
      <4> SUFFICES ASSUME NEW j \in Slots
                   PROVE  /\ j >= u.m.last \/ u.m.tab[j].pid = None \/ u.m.tab[j].detached
                               => u.m.tab[j].chan = None
                          /\ u.m.tab[j].detached => ~u.m.tab[j].respawn
        BY DEF EntriesInStep
      <4>1. CASE j = i
        BY <1>4, <2>2, <2>7, <4>1
      <4>2. CASE j # i
        BY <2>4, <2>7, <4>2, <3>1, SMTT(60) DEF InStep, EntriesInStep
      <4> QED BY <4>1, <4>2
    <3>5. ASSUME NEW p \in DOMAIN u.k, Member(u.k[p])
          PROVE  /\ u.m.tab[u.k[p].slot].chan = p
                 /\ \A j \in Slots \ ({u.k[p].slot} \cup {i}) :
                      Follows(u.k[p], j, u.m.tab[j].chan)
                 /\ u.k[p].slot \in to
      <4> DEFINE h == u.k[p].slot
      <4>0. p \in DOMAIN s.k /\ u.k[p] = s.k[p] /\ Member(s.k[p])
        BY <2>4, <3>5
      <4>1. p \in DOMAIN s.k /\ u.k[p] = s.k[p] /\ h \in Slots /\ h # i
        BY <1>2, <4>0, NobodyThere, MemberSlot, SMTT(60)
      <4>2. /\ s.m.tab[h].chan = p
            /\ \A j \in Slots \ {h} : Follows(s.k[p], j, s.m.tab[j].chan)
        BY <3>1, <3>5, <4>1 DEF InStep, KidsInStep
      <4>3. u.m.tab[h].chan = p
        BY <2>7, <4>1, <4>2, SMTT(60)
      <4>4. h \in 0..(u.m.last - 1) /\ u.m.tab[h].pid # None /\ p # None /\ ~u.m.tab[h].exited
        BY <2>6, <3>5, MemberSlot
      <4>5. \A j \in Slots \ ({h} \cup {i}) : Follows(u.k[p], j, u.m.tab[j].chan)
        BY <2>7, <4>1, <4>2, SMTT(60)
      <4>6. h \in to
        BY <4>3, <4>4
      <4> HIDE DEF to, h
      <4> QED BY <4>3, <4>5, <4>6 DEF h
    <3>6. TablesAt(u, {i})
      BY <3>4, <3>5 DEF TablesAt, InStep, KidsInStep
    <3>7. Says(msg) = u.m.tab[i].chan
      BY <2>2, <2>7, <3>3, SMTT(60)
    <3> HIDE DEF to, msg
    <3>8. TablesAt(t, {})
      BY <1>2, <2>1, <2>6, <2>9, <3>3, <3>5, <3>6, <3>7, TellAll
    <3>9. ExitedSlots(u.m) = ExitedSlots(s.m)
      <4>1. \A j \in Slots : u.m.tab[j].pid = s.m.tab[j].pid /\ u.m.tab[j].exited = s.m.tab[j].exited
        BY <2>2, <2>7
      <4> QED BY <2>4, <2>8, <4>1 DEF ExitedSlots
    <3>10. OneExited(t)
      BY <2>5, <2>10, <3>1, <3>9 DEF OneExited
    <3>11. t.m.tab[i].chan = None
      BY <2>2, <2>7, <2>10
    <3> QED BY <3>8, <3>10, <3>11 DEF ReapAt, TablesAt, t
  <2> QED BY <2>11, <2>12
<1>5. e.detached \in BOOLEAN
  BY <1>2 DEF ProcessType
<1> QED BY <1>3, <1>4, <1>5

\* The entry of an exited child is given up.
LEMMA FreeTables ==
  ASSUME conf \in Scenarios, NEW s, Sound(s), NEW i \in ExitedSlots(s.m), ReapAt(s),
         Blurred(s) \/ s.m.tab[i].chan = None
  PROVE  ReapAt(FreeEntry(s, i))
<1> DEFINE t == FreeEntry(s, i)
<1>1. s.m \in MasterType /\ s.m.last \in 0..conf.slots /\ i \in 0..(s.m.last - 1)
      /\ i \in Slots /\ i \in Nat
  BY ConfOK, SMTT(60) DEF Sound, StateType, MasterType, ExitedSlots
<1>2. /\ t.k = s.k /\ SameNotes(s, t) /\ t.chfd = s.chfd
      /\ \/ i = s.m.last - 1 /\ t.m.last = i /\ t.m.tab = s.m.tab
         \/ /\ t.m.last = s.m.last /\ t.m.tab[i].pid = None
            /\ t.m.tab[i].chan = s.m.tab[i].chan
            /\ t.m.tab[i].detached = s.m.tab[i].detached
            /\ t.m.tab[i].respawn = s.m.tab[i].respawn
            /\ \A j \in Slots : j # i => t.m.tab[j] = s.m.tab[j]
  BY <1>1, FreeEntryEffect
<1> HIDE DEF t
<1>3. CASE Blurred(s)
  BY <1>2, <1>3 DEF Blurred, SameNotes, ReapAt, t
<1>4. CASE ~Blurred(s)
  <2>1. KidsInStep(s.m, s.k, {}) /\ EntriesInStep(s.m) /\ OneExited(s) /\ s.m.tab[i].chan = None
    BY <1>4 DEF ReapAt, InStep
  <2>2. \A j \in Slots : /\ t.m.tab[j].chan = s.m.tab[j].chan
                         /\ t.m.tab[j].detached = s.m.tab[j].detached
                         /\ t.m.tab[j].respawn = s.m.tab[j].respawn
                         /\ j # i => t.m.tab[j] = s.m.tab[j]
    BY <1>2
  <2>3. \A p \in DOMAIN s.k : s.k[p].slot \in Slots
    <3> TAKE p \in DOMAIN s.k
    <3> DEFINE c == s.k[p]
    <3>1. c \in KidType
      BY DEF Sound, StateType
    <3> HIDE DEF c
    <3>2. c.slot \in Slots
      BY <3>1, SMTT(60) DEF KidType
    <3> QED BY <3>2 DEF c
  <2>4. KidsInStep(t.m, t.k, {})
    <3> SUFFICES ASSUME NEW p \in DOMAIN s.k, Member(s.k[p])
                 PROVE  /\ t.m.tab[s.k[p].slot].chan = p
                        /\ \A j \in Slots \ ({s.k[p].slot} \cup {}) :
                             Follows(s.k[p], j, t.m.tab[j].chan)
      BY <1>2 DEF KidsInStep
    <3>1. /\ s.m.tab[s.k[p].slot].chan = p
          /\ \A j \in Slots \ ({s.k[p].slot} \cup {}) :
               Follows(s.k[p], j, s.m.tab[j].chan)
      BY <2>1 DEF KidsInStep
    <3> QED BY <2>2, <2>3, <3>1
  <2>5. EntriesInStep(t.m)
    <3> SUFFICES ASSUME NEW j \in Slots
                 PROVE  /\ j >= t.m.last \/ t.m.tab[j].pid = None \/ t.m.tab[j].detached
                             => t.m.tab[j].chan = None
                        /\ t.m.tab[j].detached => ~t.m.tab[j].respawn
      BY DEF EntriesInStep
    <3>1. CASE j = i
      BY <2>1, <2>2, <3>1 DEF EntriesInStep
    <3>2. CASE j # i
      <4>1. j >= t.m.last => j >= s.m.last
        BY <1>1, <1>2, <3>2, ConfOK
      <4> QED BY <2>1, <2>2, <3>2, <4>1 DEF EntriesInStep
    <3> QED BY <3>1, <3>2
  <2>6. ExitedSlots(t.m) = {}
    <3> SUFFICES ASSUME NEW j \in ExitedSlots(t.m) PROVE FALSE
      OBVIOUS
    <3>1. j \in 0..(t.m.last - 1) /\ t.m.tab[j].pid # None /\ t.m.tab[j].exited
      BY DEF ExitedSlots
    <3>2. j # i /\ j \in 0..(s.m.last - 1)
      BY <1>1, <1>2, <3>1
    <3>3. j \in Slots
      BY <1>1, <3>2, ConfOK
    <3>4. j \in ExitedSlots(s.m)
      BY <2>2, <3>1, <3>2, <3>3 DEF ExitedSlots
    <3> QED BY <2>1, <3>2, <3>4 DEF OneExited
  <2> QED BY <2>4, <2>5, <2>6 DEF ReapAt, InStep, OneExited, t
<1> QED BY <1>3, <1>4

\* A child is started in the slot of the one that exited, and all are told.
LEMMA AgainTables ==
  ASSUME conf \in Scenarios, NEW s, Sound(s), NEW i \in ExitedSlots(s.m), ReapAt(s),
         s.m.tab[i].respawn
  PROVE  LET r == Respawn(s, i)
             q == [r EXCEPT !.chfd = r.m.tab[i].chan, !.m.live = TRUE]
         IN ReapAt(IF r.ok THEN PassOpenChannel(q, i) ELSE r)
<1> DEFINE r == Respawn(s, i)
           e == r.m.tab[i]
           x == s.m.tab[i]
           h == e.chan
           n == [r.m EXCEPT !.live = TRUE]
           q == [r EXCEPT !.chfd = h, !.m = n]
           y == PassOpenChannel(q, i)
<1>1. s.m \in MasterType /\ s.m.last \in 0..conf.slots /\ i \in 0..(s.m.last - 1)
      /\ i \in Slots /\ i \in Nat /\ Len(s.k) \in Nat /\ x \in ProcessType
      /\ x.pid # None /\ x.exited
  BY ConfOK, SMTT(60) DEF Sound, StateType, MasterType, ExitedSlots
<1>2. Sound(r) /\ FlagsKept(s, r) /\ (~r.ok => r.failed) /\ r.ok \in BOOLEAN
  BY <1>1, RespawnSound
<1>3. \/ r.failed
      \/ /\ r.k = Append(s.k, Child(s, i, x.kind)) /\ r.m.last = s.m.last
         /\ \A j \in Slots : j # i => r.m.tab[j] = s.m.tab[j]
         /\ e.pid = Len(s.k) + 1 /\ e.respawn = x.respawn
         /\ e.chan = Len(s.k) + 1 /\ ~e.exited /\ e.detached = x.detached
         /\ SameNotes(s, r)
  BY <1>1, RespawnEffect, ZenonT(60)
<1> HIDE DEF r
<1>4. r \in StateType /\ r.m \in MasterType /\ e \in ProcessType
  BY <1>1, <1>2 DEF Sound, StateType, MasterType
<1>5. h \in Chans
  <2> HIDE DEF e
  <2> QED BY <1>4 DEF ProcessType
<1> HIDE DEF h
<1>6. n \in MasterType /\ n.tab = r.m.tab /\ n.last = r.m.last /\ n.newBinary = r.m.newBinary
  BY <1>4 DEF MasterType
<1>7. [r EXCEPT !.chfd = r.m.tab[i].chan, !.m.live = TRUE] = q
  BY DEF h
<1> HIDE DEF n
<1>8. q \in StateType /\ q.m = n /\ q.k = r.k /\ q.chfd = h /\ SameNotes(r, q)
  BY <1>4, <1>5, <1>6 DEF StateType, SameNotes
<1> HIDE DEF q
<1>9. Sound(q)
  <2>1. q.m.newBinary <= Len(r.k)
    BY <1>2, <1>6, <1>8 DEF Sound, Bounds
  <2> QED BY <1>2, <1>6, <1>8, <2>1, SameTable
<1>10. /\ y.m = q.m /\ y.chfd = q.chfd
       /\ y.failed = q.failed /\ y.double = q.double /\ (q.lost => y.lost)
  <2> DEFINE to == {j \in 0..(q.m.last - 1) : /\ j # i
                                              /\ q.m.tab[j].pid # None
                                              /\ q.m.tab[j].chan # None}
             msg == [cmd |-> "open", slot |-> i, chan |-> q.m.tab[i].chan]
  <2>1. y = Broadcast(q, to, msg)
    BY DEF PassOpenChannel
  <2>2. to \in SUBSET Slots
    BY <1>8, <1>6, ConfOK DEF MasterType
  <2> HIDE DEF to, msg, y
  <2> QED BY <1>8, <2>1, <2>2, BroadcastEffect, SMTT(60)
<1>11. CASE Blurred(s) \/ r.failed
  <2>1. Blurred(r)
    BY <1>3, <1>11 DEF Blurred, SameNotes
  <2>2. Blurred(y)
    BY <1>8, <1>10, <2>1 DEF Blurred, SameNotes
  <2> HIDE DEF y
  <2> QED BY <1>7, <2>1, <2>2 DEF ReapAt, y, r
<1>12. CASE ~(Blurred(s) \/ r.failed)
  <2>1. InStep(s.m, s.k, {}) /\ OneExited(s) /\ TablesAt(s, {})
    BY <1>12 DEF ReapAt, TablesAt
  <2>2. x.kind \in Kinds /\ x.detached \in BOOLEAN
    <3> HIDE DEF x
    <3> QED BY <1>1 DEF ProcessType
  <2>3. ~x.detached
    BY <1>1, <2>1 DEF InStep, EntriesInStep
  <2>4. \A p \in DOMAIN s.k : Member(s.k[p]) => s.k[p].slot # i
    BY <1>1, NobodyThere
  <2>5. ~(i >= r.m.last) /\ e.pid # None
    <3>1. r.m.last = s.m.last /\ e.pid = Len(s.k) + 1
      BY <1>3, <1>12
    <3>2. Len(s.k) \in Nat /\ s.m.last \in Nat /\ i \in 0..(s.m.last - 1)
      BY <1>1, ConfOK
    <3> HIDE DEF e
    <3> QED BY <3>1, <3>2 DEF None
  <2>6. Put(s, i, x.kind, r)
    BY <1>1, <1>3, <1>12, <2>2, <2>3, <2>4, <2>5 DEF Put
  <2>7. TablesAt(r, {i})
    BY <2>1, <2>6, NewTables
  <2>8. Alike(r, q)
    BY <1>6, <1>8, SameTables DEF SameNotes, Blurred
  <2>9. TablesAt(q, {i})
    BY <1>2, <2>7, <2>8, AlikeKeeps
  <2>10. TablesAt(y, {})
    BY <1>1, <1>9, <2>9, PassTables
  <2>11. ExitedSlots(y.m) = {}
    <3> SUFFICES ASSUME NEW j \in ExitedSlots(y.m) PROVE FALSE
      OBVIOUS
    <3>1. j \in 0..(s.m.last - 1) /\ r.m.tab[j].pid # None /\ r.m.tab[j].exited
      BY <1>3, <1>6, <1>8, <1>10, <1>12 DEF ExitedSlots
    <3>2. j \in Slots
      BY <1>1, <3>1, ConfOK
    <3>3. j # i /\ r.m.tab[j] = s.m.tab[j]
      BY <1>3, <1>12, <3>1, <3>2
    <3>4. j \in ExitedSlots(s.m)
      BY <3>1, <3>3 DEF ExitedSlots
    <3> QED BY <2>1, <3>3, <3>4 DEF OneExited
  <2>12. OneExited(y)
    BY <2>11 DEF OneExited
  <2>13. ReapAt(y)
    BY <2>10, <2>12 DEF ReapAt, TablesAt
  <2> HIDE DEF y
  <2>14. r.ok
    BY <1>2, <1>12
  <2> QED BY <1>7, <2>13, <2>14 DEF y, r
<1> QED BY <1>11, <1>12

\* One turn of the loop of ngx_reap_children().
LEMMA ReapOneTables ==
  ASSUME conf \in Scenarios, NEW x, NEW i \in Slots, Sound(x), ReapAt(x)
  PROVE  ReapAt(ReapOne(x, i))
<1> DEFINE e == x.m.tab[i]
           y == ReapOne(x, i)
           c == CloseChannels(x, i)
           d == IF e.pid = x.m.newBinary THEN NewBinaryGone(c) ELSE c
           r == Respawn(c, i)
           q == [r EXCEPT !.chfd = r.m.tab[i].chan, !.m.live = TRUE]
<1>1. x \in StateType /\ x.m \in MasterType /\ i \in Nat
  BY ConfOK DEF Sound, StateType
<1>2. e \in ProcessType /\ x.m.last \in 0..conf.slots
  BY <1>1 DEF MasterType
<1>3. CASE i >= x.m.last \/ e.pid = None
  BY <1>3 DEF ReapOne
<1>4. CASE ~(i >= x.m.last \/ e.pid = None) /\ ~e.exited
  <2> DEFINE b == x.m.live \/ CountsLive(e)
             m == [x.m EXCEPT !.live = b]
  <2>1. y = [x EXCEPT !.m = m]
    BY <1>4 DEF ReapOne
  <2> HIDE DEF b, y
  <2>2. m.tab = x.m.tab /\ m.last = x.m.last
    BY <1>1 DEF MasterType
  <2> HIDE DEF m
  <2>3. y.m = m /\ y.k = x.k /\ SameNotes(x, y) /\ y.chfd = x.chfd
    BY <1>1, <2>1 DEF StateType, SameNotes
  <2> QED BY <2>2, <2>3, ReapSame DEF y
<1>5. CASE ~(i >= x.m.last \/ e.pid = None) /\ e.exited
  <2>1. y = IF MayRespawn(c, i) THEN IF r.ok THEN PassOpenChannel(q, i) ELSE r
            ELSE FreeEntry(d, i)
    BY <1>5 DEF ReapOne
  <2>2. i \in ExitedSlots(x.m)
    BY <1>1, <1>2, <1>5 DEF ExitedSlots
  <2>3. ReapAt(c) /\ (Blurred(c) \/ c.m.tab[i].chan = None)
    BY <2>2, CloseTables
  <2>4. /\ Still(x, c) /\ c.m.last = x.m.last /\ c.m.tab[i].pid = e.pid
        /\ c.m.tab[i].exited = e.exited
    BY CloseChannelsSound
  <2> HIDE DEF c, y
  <2>5. Sound(c) /\ i \in ExitedSlots(c.m)
    BY <2>2, <2>4 DEF Still, Onward, ExitedSlots
  <2>6. CASE MayRespawn(c, i)
    <3>1. c.m.tab[i].respawn
      BY <2>6, SMTT(60) DEF MayRespawn
    <3>2. ReapAt(IF r.ok THEN PassOpenChannel(q, i) ELSE r)
      BY <2>3, <2>5, <3>1, AgainTables
    <3> QED BY <2>1, <2>6, <3>2 DEF y
  <2>7. CASE ~MayRespawn(c, i)
    <3>1. /\ Sound(d) /\ d.k = c.k /\ d.m.tab = c.m.tab /\ d.m.last = c.m.last
          /\ SameNotes(c, d) /\ d.chfd = c.chfd
      <4> DEFINE z == NewBinaryGone(c)
                 b == c.m.restart \/ c.m.noaccepting
                 n == [c.m EXCEPT !.newBinary = None, !.pidfile = "pid",
                                  !.restart = b, !.noaccepting = FALSE]
      <4>1. c \in StateType
        BY <2>5 DEF Sound
      <4>2. z = [c EXCEPT !.m = n]
        BY <4>1 DEF NewBinaryGone, StateType, MasterType
      <4>3. Sound(z) /\ z.k = c.k /\ z.m.tab = c.m.tab /\ z.m.last = c.m.last
        BY <2>5, NewBinaryGoneSound
      <4> HIDE DEF n, z
      <4>4. SameNotes(c, z) /\ z.chfd = c.chfd
        BY <4>1, <4>2 DEF StateType, SameNotes
      <4>5. d = z \/ d = c
        BY DEF z
      <4> HIDE DEF d
      <4> QED BY <2>5, <4>3, <4>4, <4>5 DEF SameNotes
    <3> HIDE DEF d
    <3>2. ReapAt(d)
      BY <2>3, <3>1, ReapSame
    <3>3. Blurred(d) \/ d.m.tab[i].chan = None
      BY <2>3, <3>1 DEF SameNotes, Blurred
    <3>4. i \in ExitedSlots(d.m)
      BY <2>5, <3>1 DEF ExitedSlots
    <3>5. ReapAt(FreeEntry(d, i))
      BY <3>1, <3>2, <3>3, <3>4, FreeTables
    <3> QED BY <2>1, <2>7, <3>5 DEF y
  <2> QED BY <2>6, <2>7
<1>6. e.exited \in BOOLEAN
  BY <1>2 DEF ProcessType
<1> QED BY <1>3, <1>4, <1>5, <1>6

\* ngx_reap_children()
LEMMA ReapTables ==
  ASSUME conf \in Scenarios, NEW s, Sound(s), s.m.st = "loop", s.chfd = None,
         TablesAt(s, {})
  PROVE  TablesAt(ReapChildren(s), {})
<1> DEFINE N == conf.slots
           S == StateType
           a == ReapStart(s)
           T == [n \in 0..N |-> {x \in S : ReapedTo(s, x, n) /\ ReapAt(x)}]
           Do(x, n) == ReapOne(x, n - 1)
           run[n \in 0..N] == IF n = 0 THEN a ELSE Do(run[n - 1], n)
           g == [n \in 1..N |-> [x \in S |-> IF x \in T[n - 1] THEN Do(x, n) ELSE x]]
<1> HIDE DEF run
<1>1. ReapChildren(s) = run[N]
  BY DEF ReapChildren, run
<1>2. N \in Nat
  BY ConfOK
<1>3. a \in S /\ a \in T[0]
  <2> DEFINE b == s.double \/ Cardinality(ExitedSlots(s.m)) > 1
             m == [s.m EXCEPT !.live = FALSE, !.reap = FALSE]
  <2>1. s \in StateType /\ s.m \in MasterType
    BY DEF Sound, StateType
  <2>2. a = [s EXCEPT !.m = m, !.double = b]
    BY <2>1 DEF ReapStart, StateType, MasterType, ExitedSlots
  <2> HIDE DEF a
  <2>3. m.tab = s.m.tab /\ m.last = s.m.last
    BY <2>1 DEF MasterType
  <2>4. s.double => b
    OBVIOUS
  <2>5. ~b => \A i, j \in ExitedSlots(s.m) : i = j
    BY AtMostOne
  <2> HIDE DEF m, b
  <2>6. /\ a.m = m /\ a.k = s.k /\ a.failed = s.failed /\ a.lost = s.lost
        /\ a.double = b /\ a.chfd = s.chfd
    BY <2>1, <2>2 DEF StateType
  <2>7. Alike(s, a)
    BY <2>3, <2>4, <2>6, SameTables DEF Blurred
  <2>8. TablesAt(a, {})
    BY <2>7, AlikeKeeps
  <2>9. ExitedSlots(a.m) = ExitedSlots(s.m)
    BY <2>3, <2>6 DEF ExitedSlots
  <2>10. Blurred(a) \/ OneExited(a)
    BY <2>5, <2>6, <2>9 DEF Blurred, OneExited
  <2>11. ReapAt(a)
    BY <2>8, <2>10 DEF ReapAt, TablesAt
  <2>12. ReapedTo(s, a, 0)
    BY ReapStartSound, SMTT(60) DEF a
  <2> QED BY <1>2, <2>11, <2>12 DEF ReapedTo, Sound
<1>4. ASSUME NEW n \in 1..N, NEW x \in T[n - 1] PROVE Do(x, n) \in T[n]
  <2> DEFINE i == n - 1
  <2>1. n - 1 \in Slots /\ n - 1 \in 0..N /\ (n - 1) + 1 = n /\ n \in 0..N
    BY <1>2, ConfOK
  <2>2. ReapedTo(s, x, n - 1) /\ ReapAt(x)
    BY <2>1
  <2>3. x.m.st = "loop" /\ Sound(x)
    BY <2>2 DEF ReapedTo
  <2>4. ReapedTo(s, Do(x, n), i + 1) /\ ReapAt(Do(x, n))
    <3>1. i \in Slots /\ ReapedTo(s, x, i) /\ Do(x, n) = ReapOne(x, i)
      BY <2>1, <2>2
    <3> HIDE DEF i, Do
    <3> QED BY <3>1, <2>2, <2>3, ReapOneSound, ReapOneTables
  <2>5. ReapedTo(s, Do(x, n), n) /\ ReapAt(Do(x, n))
    BY <2>1, <2>4
  <2> QED BY <2>1, <2>5 DEF ReapedTo, Sound
<1>5. \A n \in 0..N : T[n] \subseteq S /\ \A x \in T[n] : ReapAt(x)
  OBVIOUS
<1> HIDE DEF N, S, Do, T, a
<1>6. /\ g \in [1..N -> [S -> S]]
      /\ \A n \in 1..N, x \in S : x \in T[n - 1] => g[n][x] = Do(x, n)
  <2>1. \A n \in 1..N, x \in S : (IF x \in T[n - 1] THEN Do(x, n) ELSE x) \in S
    BY <1>2, <1>4, <1>5
  <2> QED BY <2>1
<1> HIDE DEF g
<1>7. PICK f : IsLoop(f, N, S, a, g)
  BY <1>2, <1>3, <1>6, LoopExists
<1>8. f[0] = a /\ \A n \in 1..N : f[n - 1] \in S /\ f[n] = g[n][f[n - 1]]
  BY <1>2, <1>7 DEF IsLoop
<1>9. \A n \in 0..N : f[n] \in T[n]
  <2>1. f[0] \in T[0]
    BY <1>3, <1>8
  <2>2. \A n \in 1..N : f[n - 1] \in T[n - 1] => f[n] \in T[n]
    BY <1>4, <1>6, <1>8
  <2> QED BY <2>1, <2>2, <1>2, LoopInvariant
<1>10. f = [n \in 0..N |-> IF n = 0 THEN a ELSE Do(f[n - 1], n)]
  <2>1. \A n \in 0..N : n = 0 \/ (n \in 1..N /\ n - 1 \in 0..N)
    BY <1>2
  <2>2. \A n \in 1..N : f[n] = Do(f[n - 1], n)
    BY <1>2, <1>6, <1>8, <1>9
  <2> QED BY <2>1, <2>2, <1>7 DEF IsLoop
<1>11. run = [n \in 0..N |-> IF n = 0 THEN a ELSE Do(run[n - 1], n)]
  BY <1>10, Zenon DEF run
<1>12. run[0] = a /\ \A n \in 1..N : run[n] = Do(run[n - 1], n)
  BY <1>2, <1>11
<1>13. \A n \in 0..N : run[n] \in T[n]
  <2>1. run[0] \in T[0]
    BY <1>3, <1>12
  <2>2. \A n \in 1..N : run[n - 1] \in T[n - 1] => run[n] \in T[n]
    BY <1>4, <1>12
  <2> QED BY <2>1, <2>2, <1>2, LoopInvariant
<1>14. ReapAt(run[N])
  BY <1>2, <1>5, <1>13
<1> QED BY <1>1, <1>14 DEF N, ReapAt, TablesAt

(***************************************************************************)
(* The body of the loop                                                    *)
(***************************************************************************)

\* Flags of the master only.
LEMMA FlagTables ==
  ASSUME NEW s, Sound(s), NEW n, MasterFlags(s.m, n), TablesAt(s, {})
  PROVE  LET t == [s EXCEPT !.m = n] IN
         Sound(t) /\ t.m = n /\ TablesAt(t, {}) /\ t.chfd = s.chfd
<1> DEFINE t == [s EXCEPT !.m = n]
<1>1. s \in StateType /\ n.tab = s.m.tab /\ n.last = s.m.last
  BY DEF Sound, MasterFlags
<1>2. OnlyFlags(s, t)
  BY <1>1, SetFlags
<1>3. Alike(s, t) /\ t.m = n /\ t.chfd = s.chfd
  BY <1>1, NewMaster
<1> HIDE DEF t
<1>4. Sound(t) /\ TablesAt(t, {})
  BY <1>2, <1>3, OnlyFlagsSound, AlikeKeeps
<1> QED BY <1>3, <1>4 DEF t

\* The last change of a part of a turn.
LEMMA LastTables ==
  ASSUME NEW s, Sound(s), NEW n, n.tab = s.m.tab, n.last = s.m.last, TablesAt(s, {})
  PROVE  TablesAt([s EXCEPT !.m = n], {})
<1> DEFINE t == [s EXCEPT !.m = n]
<1>1. Alike(s, t)
  BY NewMaster DEF Sound
<1> HIDE DEF t
<1>2. TablesAt(t, {})
  BY <1>1, AlikeKeeps
<1> QED BY <1>2 DEF t

LEMMA ExitTables ==
  ASSUME NEW s, Sound(s), TablesAt(s, {})
  PROVE  TablesAt(Exit(s), {})
<1> DEFINE f == IF s.m.pidfile = (IF s.m.newBinary # None THEN "oldbin" ELSE "pid")
                THEN "deleted" ELSE s.m.pidfile
           n == [s.m EXCEPT !.st = "exited", !.listening = FALSE, !.pidfile = f]
<1>1. s \in StateType /\ s.m \in MasterType
  BY DEF Sound, StateType
<1>2. Exit(s) = [s EXCEPT !.m = n]
  BY <1>1 DEF Exit, StateType, MasterType
<1> HIDE DEF f
<1>3. n.tab = s.m.tab /\ n.last = s.m.last
  BY <1>1 DEF MasterType
<1> HIDE DEF n
<1> QED BY <1>2, <1>3, LastTables

LEMMA TerminateTurnTables ==
  ASSUME conf \in Scenarios, NEW s, Sound(s), TablesAt(s, {})
  PROVE  TablesAt(TerminateTurn(s), {})
<1> DEFINE d == IF s.m.delay = 0 THEN 50 ELSE s.m.delay
           m == [s.m EXCEPT !.delay = d]
           t == [s EXCEPT !.m = m]
           n1 == s.m.sigio - 1
           m1 == [m EXCEPT !.sigio = n1]
           t1 == [t EXCEPT !.m = m1]
           n2 == conf.workers + 2
           m2 == [m EXCEPT !.sigio = n2]
           t2 == [t EXCEPT !.m = m2]
           cmd == IF d > 1000 THEN "kill" ELSE "terminate"
           r == TerminateTurn(s)
<1>1. s \in StateType /\ s.m \in MasterType
  BY DEF Sound, StateType
<1>2. d \in Nat /\ s.m.sigio \in Nat /\ n2 \in Nat /\ cmd \in Commands
  BY <1>1, ConfOK, SMTT(60) DEF MasterType, Commands
<1> HIDE DEF d, n1, n2, cmd
<1>3. MasterFlags(s.m, m) /\ m \in MasterType /\ m.delay = d /\ m.sigio = s.m.sigio
  BY <1>1, <1>2 DEF MasterType, MasterFlags
<1> HIDE DEF m
<1>4. Sound(t) /\ t.m = m /\ TablesAt(t, {})
  BY <1>3, FlagTables
<1>5. r = IF s.m.sigio > 0 THEN t1 ELSE SignalWorkers(t2, cmd)
  <2>1. t = [s EXCEPT !.m.delay = IF @ = 0 THEN 50 ELSE @]
    BY DEF m, d
  <2> HIDE DEF t
  <2>2. r = IF t.m.sigio > 0 THEN [t EXCEPT !.m.sigio = @ - 1]
            ELSE SignalWorkers([t EXCEPT !.m.sigio = conf.workers + 2],
                               IF t.m.delay > 1000 THEN "kill" ELSE "terminate")
    BY <2>1 DEF TerminateTurn
  <2>3. [t EXCEPT !.m.sigio = @ - 1] = t1
    BY <1>3, <1>4 DEF n1
  <2>4. [t EXCEPT !.m.sigio = conf.workers + 2] = t2
    BY <1>4 DEF n2
  <2>5. (IF t.m.delay > 1000 THEN "kill" ELSE "terminate") = cmd
    BY <1>3, <1>4 DEF cmd
  <2> QED BY <2>2, <2>3, <2>4, <2>5, <1>3, <1>4
<1> HIDE DEF t, r
<1>6. m1.tab = m.tab /\ m1.last = m.last /\ MasterFlags(m, m2)
  BY <1>2, <1>3 DEF MasterType, MasterFlags
<1> HIDE DEF m1, m2
<1>7. TablesAt(t1, {})
  BY <1>4, <1>6, LastTables
<1>8. Sound(t2) /\ TablesAt(t2, {})
  BY <1>4, <1>6, FlagTables
<1>9. TablesAt(SignalWorkers(t2, cmd), {})
  <2> HIDE DEF t2
  <2> QED BY <1>2, <1>8, SignalTables
<1> QED BY <1>5, <1>7, <1>9 DEF r

LEMMA QuitTurnTables ==
  ASSUME conf \in Scenarios, NEW s, Sound(s), TablesAt(s, {})
  PROVE  TablesAt(QuitTurn(s), {})
<1> DEFINE t == SignalWorkers(s, "quit")
           m == [t.m EXCEPT !.listening = FALSE]
<1>1. QuitTurn(s) = [t EXCEPT !.m = m]
  BY DEF QuitTurn
<1>2. Sound(t) /\ TablesAt(t, {})
  BY SignalWorkersSound, SignalTables DEF Still, Onward, Commands
<1> HIDE DEF t
<1>3. m.tab = t.m.tab /\ m.last = t.m.last
  BY <1>2 DEF Sound, StateType, MasterType
<1> HIDE DEF m
<1> QED BY <1>1, <1>2, <1>3, LastTables

LEMMA ReconfigureNewBinaryTables ==
  ASSUME conf \in Scenarios, NEW s, Sound(s), TablesAt(s, {})
  PROVE  TablesAt(ReconfigureNewBinary(s), {})
<1> DEFINE t == StartAll(s, FALSE)
           m == [t.m EXCEPT !.reconfigure = FALSE, !.noaccepting = FALSE]
<1>1. Sound(t) /\ TablesAt(t, {})
  BY StartAllSound, StartAllTables DEF Onward
<1>2. ReconfigureNewBinary(s) = [t EXCEPT !.m = m]
  <2>1. ReconfigureNewBinary(s) = [t EXCEPT !.m.reconfigure = FALSE, !.m.noaccepting = FALSE]
    BY DEF ReconfigureNewBinary
  <2> HIDE DEF t
  <2>2. t \in StateType /\ t.m \in MasterType
    BY <1>1 DEF Sound, StateType
  <2> QED BY <2>1, <2>2 DEF StateType, MasterType
<1> HIDE DEF t
<1>3. m.tab = t.m.tab /\ m.last = t.m.last
  BY <1>1 DEF Sound, StateType, MasterType
<1> HIDE DEF m
<1> QED BY <1>1, <1>2, <1>3, LastTables

LEMMA ReconfigureTables ==
  ASSUME conf \in Scenarios, NEW s, Sound(s), TablesAt(s, {}), NEW confOk \in BOOLEAN
  PROVE  TablesAt(Reconfigure(s, confOk), {})
<1> DEFINE n == [s.m EXCEPT !.reconfigure = FALSE]
           a == [s EXCEPT !.m = n]
           d == StartAll(a, TRUE)
           l == [d.m EXCEPT !.live = TRUE]
           b == [d EXCEPT !.m = l]
           c == SignalWorkers(b, "quit")
<1>1. s.m \in MasterType
  BY DEF Sound, StateType
<1>2. MasterFlags(s.m, n)
  BY <1>1 DEF MasterType, MasterFlags
<1>3. Reconfigure(s, confOk) = IF confOk THEN c ELSE a
  BY DEF Reconfigure
<1> HIDE DEF n
<1>4. Sound(a) /\ TablesAt(a, {})
  BY <1>2, FlagTables
<1> HIDE DEF a
<1>5. Sound(d) /\ TablesAt(d, {})
  BY <1>4, StartAllSound, StartAllTables DEF Onward
<1> HIDE DEF d
<1>6. MasterFlags(d.m, l)
  BY <1>5 DEF Sound, StateType, MasterType, MasterFlags
<1> HIDE DEF l
<1>7. Sound(b) /\ TablesAt(b, {})
  BY <1>5, <1>6, FlagTables
<1> HIDE DEF b
<1>8. TablesAt(c, {})
  BY <1>7, SignalTables DEF Commands
<1> QED BY <1>3, <1>4, <1>8

LEMMA RestartTables ==
  ASSUME conf \in Scenarios, NEW s, Sound(s), TablesAt(s, {})
  PROVE  TablesAt(Restart(s), {})
<1> DEFINE n == [s.m EXCEPT !.restart = FALSE]
           a == [s EXCEPT !.m = n]
           d == StartAll(a, FALSE)
           l == [d.m EXCEPT !.live = TRUE]
           b == [d EXCEPT !.m = l]
<1>1. s.m \in MasterType
  BY DEF Sound, StateType
<1>2. MasterFlags(s.m, n)
  BY <1>1 DEF MasterType, MasterFlags
<1>3. Restart(s) = IF ~s.m.restart THEN s ELSE b
  BY DEF Restart
<1> HIDE DEF n
<1>4. Sound(a) /\ TablesAt(a, {})
  BY <1>2, FlagTables
<1> HIDE DEF a
<1>5. Sound(d) /\ TablesAt(d, {})
  BY <1>4, StartAllSound, StartAllTables DEF Onward
<1> HIDE DEF d
<1>6. l.tab = d.m.tab /\ l.last = d.m.last
  BY <1>5 DEF Sound, StateType, MasterType
<1> HIDE DEF l
<1>7. TablesAt(b, {})
  BY <1>5, <1>6, LastTables
<1> QED BY <1>3, <1>7

LEMMA ReopenTables ==
  ASSUME conf \in Scenarios, NEW s, Sound(s), TablesAt(s, {})
  PROVE  TablesAt(Reopen(s), {})
<1> DEFINE n == [s.m EXCEPT !.reopen = FALSE]
           a == [s EXCEPT !.m = n]
<1>1. MasterFlags(s.m, n)
  BY DEF Sound, StateType, MasterType, MasterFlags
<1>2. Reopen(s) = IF ~s.m.reopen THEN s ELSE SignalWorkers(a, "reopen")
  BY DEF Reopen
<1> HIDE DEF n
<1>3. Sound(a) /\ TablesAt(a, {})
  BY <1>1, FlagTables
<1> HIDE DEF a
<1>4. TablesAt(SignalWorkers(a, "reopen"), {})
  BY <1>3, SignalTables DEF Commands
<1> QED BY <1>2, <1>4

LEMMA NoAcceptTables ==
  ASSUME conf \in Scenarios, NEW s, Sound(s), TablesAt(s, {})
  PROVE  TablesAt(NoAccept(s), {})
<1> DEFINE n == [s.m EXCEPT !.noaccept = FALSE, !.noaccepting = TRUE]
           a == [s EXCEPT !.m = n]
<1>1. s \in StateType /\ s.m \in MasterType
  BY DEF Sound, StateType
<1>2. MasterFlags(s.m, n)
  BY <1>1 DEF MasterType, MasterFlags
<1>3. NoAccept(s) = IF ~s.m.noaccept THEN s ELSE SignalWorkers(a, "quit")
  BY <1>1 DEF NoAccept, StateType, MasterType
<1> HIDE DEF n
<1>4. Sound(a) /\ TablesAt(a, {})
  BY <1>2, FlagTables
<1> HIDE DEF a
<1>5. TablesAt(SignalWorkers(a, "quit"), {})
  BY <1>4, SignalTables DEF Commands
<1> QED BY <1>3, <1>5

\* ngx_exec_new_binary(): the new binary has no channel, nobody is told of it.
LEMMA ChangeBinaryTables ==
  ASSUME conf \in Scenarios, NEW s, Sound(s), TablesAt(s, {})
  PROVE  TablesAt(MaybeChangeBinary(s), {})
<1> DEFINE n == [s.m EXCEPT !.changeBinary = FALSE]
           a == [s EXCEPT !.m = n]
           b == Spawn(a, "binary", "detached")
           pid == b.m.tab[b.slot].pid
           n1 == [b.m EXCEPT !.newBinary = pid, !.pidfile = "oldbin"]
           n2 == [b.m EXCEPT !.newBinary = InvalidPid]
           t == MaybeChangeBinary(s)
<1>1. CASE ~s.m.changeBinary
  BY <1>1 DEF MaybeChangeBinary
<1>2. CASE s.m.changeBinary
  <2>1. n.tab = s.m.tab /\ n.last = s.m.last /\ n \in MasterType /\ n.newBinary = s.m.newBinary
    BY DEF Sound, StateType, MasterType
  <2>2. t = IF b.ok THEN [b EXCEPT !.m.newBinary = pid, !.m.pidfile = "oldbin"]
            ELSE [b EXCEPT !.m.newBinary = InvalidPid]
    BY <1>2 DEF MaybeChangeBinary, ChangeBinary
  <2> HIDE DEF n, t
  <2>3. a \in StateType /\ a.m = n /\ a.k = s.k
    BY <2>1 DEF Sound, StateType
  <2>4. TablesAt(a, {})
    BY <2>1, LastTables
  <2> HIDE DEF a
  <2>5. Sound(a)
    <3>1. a.m.newBinary <= Len(s.k)
      BY <2>1, <2>3 DEF Sound, Bounds
    <3> QED BY <2>1, <2>3, <3>1, SameTable
  <2>6. Sound(b) /\ TablesAt(b, {}) /\ b.ok \in BOOLEAN
    BY <2>4, <2>5, SpawnTypesType, SpawnTables DEF Kinds
  <2> HIDE DEF b
  <2>7. b \in StateType /\ b.m \in MasterType
    BY <2>6 DEF Sound, StateType
  <2>8. [b EXCEPT !.m.newBinary = pid, !.m.pidfile = "oldbin"] = [b EXCEPT !.m = n1]
    BY <2>7 DEF StateType, MasterType
  <2>9. [b EXCEPT !.m.newBinary = InvalidPid] = [b EXCEPT !.m = n2]
    OBVIOUS
  <2> HIDE DEF pid
  <2>10. n1.tab = b.m.tab /\ n1.last = b.m.last /\ n2.tab = b.m.tab /\ n2.last = b.m.last
    BY <2>7 DEF MasterType
  <2> HIDE DEF n1, n2
  <2>11. TablesAt([b EXCEPT !.m = n1], {}) /\ TablesAt([b EXCEPT !.m = n2], {})
    BY <2>6, <2>10, LastTables
  <2> QED BY <2>2, <2>6, <2>8, <2>9, <2>11 DEF t
<1> QED BY <1>1, <1>2

LEMMA BodyTables ==
  ASSUME conf \in Scenarios, NEW u, NEW s, Good(u, s), s.m.st = "loop", TablesAt(s, {}),
         NEW confOk \in BOOLEAN
  PROVE  TablesAt(Body(s, confOk), {})
<1> DEFINE b == Body(s, confOk)
<1>0. Sound(s)
  BY DEF Good
<1>1. CASE ~s.m.live /\ (s.m.terminate \/ s.m.quit)
  BY <1>0, <1>1, ExitTables DEF Body
<1>2. CASE ~(~s.m.live /\ (s.m.terminate \/ s.m.quit)) /\ s.m.terminate
  BY <1>0, <1>2, TerminateTurnTables DEF Body
<1>3. CASE ~(~s.m.live /\ (s.m.terminate \/ s.m.quit)) /\ ~s.m.terminate /\ s.m.quit
  BY <1>0, <1>3, QuitTurnTables DEF Body
<1>4. CASE ~s.m.terminate /\ ~s.m.quit
  <2>1. CASE s.m.reconfigure /\ s.m.newBinary # None
    BY <1>0, <1>4, <2>1, ReconfigureNewBinaryTables DEF Body
  <2>2. CASE ~(s.m.reconfigure /\ s.m.newBinary # None) /\ s.m.reconfigure /\ ~confOk
    BY <1>0, <1>4, <2>2, ReconfigureTables DEF Body
  <2>3. CASE ~(s.m.reconfigure /\ s.m.newBinary # None) /\ ~(s.m.reconfigure /\ ~confOk)
    <3> DEFINE s1 == IF s.m.reconfigure THEN Reconfigure(s, TRUE) ELSE s
               s2 == Restart(s1)
               s3 == Reopen(s2)
               s4 == MaybeChangeBinary(s3)
               s5 == NoAccept(s4)
    <3>1. b = s5
      BY <1>4, <2>3 DEF Body
    <3>2. Turned(u, s, s1) /\ s1.m.st = "loop" /\ TablesAt(s1, {})
      BY <1>0, <1>4, ReconfigureGood, TurnedSelf, ReconfigureTables
    <3> HIDE DEF s1, b
    <3>3. Good(u, s1) /\ ~s1.m.quit /\ ~s1.m.terminate /\ Sound(s1)
      BY <1>4, <3>2 DEF Turned, Good
    <3>4. Turned(u, s1, s2) /\ s2.m.st = "loop" /\ TablesAt(s2, {})
      BY <3>2, <3>3, RestartGood, RestartTables
    <3> HIDE DEF s2
    <3>5. Good(u, s2) /\ ~s2.m.quit /\ ~s2.m.terminate /\ Sound(s2)
      BY <3>3, <3>4 DEF Turned, Good
    <3>6. Turned(u, s2, s3) /\ s3.m.st = "loop" /\ TablesAt(s3, {})
      BY <3>4, <3>5, ReopenGood, ReopenTables
    <3> HIDE DEF s3
    <3>7. Good(u, s3) /\ ~s3.m.quit /\ ~s3.m.terminate /\ Sound(s3)
      BY <3>5, <3>6 DEF Turned, Good
    <3>8. Turned(u, s3, s4) /\ TablesAt(s4, {})
      BY <3>6, <3>7, ChangeBinaryGood, ChangeBinaryTables
    <3> HIDE DEF s4
    <3>9. Sound(s4)
      BY <3>8 DEF Turned, Good
    <3>10. TablesAt(s5, {})
      BY <3>8, <3>9, NoAcceptTables
    <3> HIDE DEF s5
    <3> QED BY <3>1, <3>10 DEF b
  <2> QED BY <2>1, <2>2, <2>3
<1>5. s.m.quit \in BOOLEAN /\ s.m.terminate \in BOOLEAN
  BY <1>0 DEF Sound, StateType, MasterType
<1> QED BY <1>1, <1>2, <1>3, <1>4, <1>5

LEMMA TopTables ==
  ASSUME NEW s, Sound(s), TablesAt(s, {})
  PROVE  TablesAt(Top(s), {})
<1>1. CASE ~(s.m.delay > 0 /\ s.m.sigalrm)
  BY <1>1 DEF Top
<1>2. CASE s.m.delay > 0 /\ s.m.sigalrm
  <2> DEFINE d == IF s.m.delay < 1600 THEN s.m.delay * 2 ELSE s.m.delay
             n == [s.m EXCEPT !.sigio = 0, !.sigalrm = FALSE, !.delay = d]
  <2>1. s \in StateType /\ s.m \in MasterType
    BY DEF Sound, StateType
  <2>2. Top(s) = [s EXCEPT !.m = n]
    BY <1>2, <2>1 DEF Top, StateType, MasterType
  <2> HIDE DEF d
  <2>3. n.tab = s.m.tab /\ n.last = s.m.last
    BY <2>1 DEF MasterType
  <2> HIDE DEF n
  <2> QED BY <2>2, <2>3, LastTables
<1> QED BY <1>1, <1>2

(***************************************************************************)
(* A turn                                                                  *)
(***************************************************************************)

\* ngx_process_get_status(): a child that is gone is not told any more.
LEMMA GetStatusTables ==
  ASSUME conf \in Scenarios, NEW s, Sound(s)
  PROVE  LET t == GetStatus(s) IN Alike(s, t) /\ t.chfd = s.chfd
<1> DEFINE z == {p \in DOMAIN s.k : s.k[p].st = "zombie"}
           l == [p \in DOMAIN s.k |-> IF p \in z THEN Gone(s.k[p]) ELSE s.k[p]]
           x(i) == [s.m.tab[i] EXCEPT !.exited = TRUE,
                                      !.respawn = @ /\ ~s.k[s.m.tab[i].pid].code2]
           tab == [i \in Slots |-> IF i < s.m.last /\ s.m.tab[i].pid \in z
                                   THEN x(i) ELSE s.m.tab[i]]
           m == [s.m EXCEPT !.tab = tab]
           t == GetStatus(s)
<1>1. s \in StateType /\ s.m \in MasterType /\ s.k \in Seq(KidType)
  BY DEF Sound, StateType
<1>2. s.m.tab \in [Slots -> ProcessType]
  BY <1>1 DEF MasterType
<1>3. t = [s EXCEPT !.k = l, !.m = m]
  BY <1>1 DEF GetStatus, StateType
<1>4. ASSUME NEW p \in DOMAIN s.k PROVE KidAlike(s.k[p], l[p])
  <2> DEFINE k == s.k[p]
  <2>1. k \in KidType
    BY <1>1
  <2>2. l[p] = Gone(k) \/ l[p] = k
    OBVIOUS
  <2> HIDE DEF k, l, Empty, z
  <2>3. Gone(k).st = "reaped"
    BY <2>1 DEF Gone, KidType
  <2>4. ~Member(Gone(k))
    BY <2>3 DEF Member
  <2>5. KidAlike(k, l[p])
    BY <2>2, <2>4, KidAlikeSelf DEF KidAlike
  <2> QED BY <2>5 DEF k
<1>5. ASSUME NEW i \in Slots PROVE EntryAlike(s.m.tab[i], tab[i])
  <2> DEFINE e == s.m.tab[i]
             b == e.respawn /\ ~s.k[e.pid].code2
  <2>1. e \in ProcessType
    BY <1>2
  <2>2. x(i) = [e EXCEPT !.exited = TRUE, !.respawn = b]
    BY <2>1, SMTT(60) DEF ProcessType
  <2>3. tab[i] = x(i) \/ tab[i] = e
    OBVIOUS
  <2>4. b => e.respawn
    OBVIOUS
  <2> HIDE DEF b, e, z, tab, x
  <2>5. x(i).pid = e.pid /\ x(i).chan = e.chan /\ x(i).detached = e.detached /\ x(i).respawn = b
    BY <2>1, <2>2 DEF ProcessType
  <2>6. EntryAlike(e, tab[i])
    BY <2>3, <2>4, <2>5 DEF EntryAlike
  <2> QED BY <2>6 DEF e
<1>6. DOMAIN l = DOMAIN s.k
  OBVIOUS
<1> HIDE DEF l, t, tab
<1>7. m.tab = tab /\ m.last = s.m.last
  BY <1>1 DEF MasterType
<1> HIDE DEF m
<1>8. t.m = m /\ t.k = l /\ SameNotes(s, t) /\ t.chfd = s.chfd
  BY <1>1, <1>3 DEF StateType, SameNotes
<1>9. Blurred(s) => Blurred(t)
  BY <1>8 DEF SameNotes, Blurred
<1>10. Alike(s, t)
  BY <1>4, <1>5, <1>6, <1>7, <1>8, <1>9 DEF Alike
<1> QED BY <1>8, <1>10 DEF t

\* ngx_signal_handler()
LEMMA HandleTables ==
  ASSUME conf \in Scenarios, NEW s, Sound(s), TablesAt(s, {})
  PROVE  LET t == Handle(s) IN TablesAt(t, {}) /\ t.chfd = s.chfd
<1> DEFINE b1 == s.m.quit \/ "quit" \in sigs
           b2 == s.m.terminate \/ "term" \in sigs
           b3 == s.m.reconfigure \/ "hup" \in sigs
           b4 == s.m.noaccept \/ "winch" \in sigs
           b5 == s.m.reopen \/ "usr1" \in sigs
           b6 == s.m.changeBinary \/ ("usr2" \in sigs /\ s.m.newBinary <= 0)
           b7 == s.m.sigalrm \/ "alrm" \in sigs
           b8 == s.m.reap \/ "chld" \in sigs
           m == [s.m EXCEPT !.quit = b1, !.terminate = b2, !.reconfigure = b3,
                            !.noaccept = b4]
           n == [m EXCEPT !.reopen = b5, !.changeBinary = b6, !.sigalrm = b7,
                          !.reap = b8]
           t == [s EXCEPT !.m = n]
           h == Handle(s)
<1>1. s \in StateType /\ s.m \in MasterType
  BY DEF Sound, StateType
<1>2. /\ b1 \in BOOLEAN /\ b2 \in BOOLEAN /\ b3 \in BOOLEAN /\ b4 \in BOOLEAN
      /\ b5 \in BOOLEAN /\ b6 \in BOOLEAN /\ b7 \in BOOLEAN /\ b8 \in BOOLEAN
  BY <1>1 DEF MasterType
<1>3. h = IF "chld" \in sigs THEN GetStatus(t) ELSE t
  BY <1>1 DEF Handle, StateType, MasterType
<1> HIDE DEF b1, b2, b3, b4, b5, b6, b7, b8, h
<1>4a. m \in MasterType
  BY <1>1, <1>2 DEF MasterType
<1>4. m.tab = s.m.tab /\ m.last = s.m.last /\ m.newBinary = s.m.newBinary
  BY <1>1 DEF MasterType
<1> HIDE DEF m
<1>5a. n \in MasterType
  BY <1>2, <1>4a DEF MasterType
<1>5b. n.tab = m.tab /\ n.last = m.last /\ n.newBinary = m.newBinary
  BY <1>4a DEF MasterType
<1>5. /\ n \in MasterType /\ n.tab = s.m.tab /\ n.last = s.m.last
      /\ n.newBinary = s.m.newBinary
  BY <1>4, <1>5a, <1>5b
<1> HIDE DEF n
<1>6. Alike(s, t) /\ t.k = s.k /\ t.m = n /\ t.chfd = s.chfd
  BY <1>1, <1>5, NewMaster
<1>7. t \in StateType
  BY <1>1, <1>5 DEF StateType
<1> HIDE DEF t
<1>8. Sound(t)
  <2>1. t.m.newBinary <= Len(s.k)
    BY <1>5, <1>6 DEF Sound, Bounds
  <2> QED BY <1>5, <1>6, <1>7, <2>1, SameTable
<1>9. TablesAt(t, {})
  BY <1>6, AlikeKeeps
<1>10. CASE "chld" \in sigs
  <2> DEFINE g == GetStatus(t)
  <2>1. Alike(t, g) /\ g.chfd = t.chfd
    BY <1>8, GetStatusTables
  <2> HIDE DEF g
  <2>2. TablesAt(g, {})
    BY <1>8, <1>9, <2>1, AlikeKeeps
  <2> QED BY <1>3, <1>6, <1>10, <2>1, <2>2 DEF g, h
<1>11. CASE "chld" \notin sigs
  BY <1>3, <1>6, <1>9, <1>11 DEF h
<1> QED BY <1>10, <1>11

(***************************************************************************)
(* The invariant of the tables                                             *)
(***************************************************************************)

\* The invariant, between two turns.
ITab == hist.lost \/ hist.failed \/ hist.double \/ InStep(master, kids, {})

LEMMA StateTables ==
  ASSUME ITab, NEW failAt
  PROVE  LET s == State(failAt) IN TablesAt(s, {}) /\ s.chfd = None
<1> DEFINE s == State(failAt)
<1>1. /\ s.m = master /\ s.k = kids /\ s.chfd = None
      /\ s.lost = hist.lost /\ s.double = hist.double /\ s.failed = hist.failed
  BY DEF State
<1> HIDE DEF s
<1>2. TablesAt(s, {})
  BY <1>1 DEF ITab, TablesAt, Blurred
<1> QED BY <1>1, <1>2 DEF s

\* The primed invariant, for a step whose outcome is t.
LEMMA NextTab ==
  ASSUME NEW t, master' = t.m, kids' = t.k, conf' = conf, TablesAt(t, {}),
         t.lost => hist'.lost, t.failed => hist'.failed, t.double => hist'.double
  PROVE  ITab'
<1>1. CASE Blurred(t)
  BY <1>1 DEF Blurred, ITab
<1>2. CASE InStep(t.m, t.k, {})
  <2>1. Slots' = Slots
    BY DEF Slots
  <2>2. InStep(master, kids, {})'
    BY <1>2, <2>1 DEF InStep, KidsInStep, EntriesInStep
  <2> QED BY <2>2 DEF ITab
<1> QED BY <1>1, <1>2 DEF TablesAt

LEMMA TurnTables ==
  ASSUME IInv, ITab, Turn
  PROVE  ITab'
<1>1. PICK failAt \in 0..(conf.workers + 2), confOk \in BOOLEAN : Wake(failAt, confOk)
  BY DEF Turn
<1>2. conf \in Scenarios
  BY DEF IInv, TypeOK
<1> DEFINE u == Upgraded
           s0 == State(failAt)
           s == Handle(s0)
           r == IF s.m.reap THEN ReapChildren(s) ELSE s
           b == Body(r, confOk)
           t == Top(b)
<1>3. /\ master.st = "loop" /\ conf' = conf /\ master' = t.m /\ kids' = t.k
      /\ hist' = [lost |-> t.lost, double |-> t.double, failed |-> t.failed]
  BY <1>1 DEF Wake
<1>4. failAt \in Nat
  BY ConfOK, <1>2
<1>5. Good(u, s0) /\ s0.m = master /\ TablesAt(s0, {}) /\ s0.chfd = None
  BY <1>4, StateGood, StateTables
<1>6. "usr2" \in sigs => u
  BY DEF IInv
<1> HIDE DEF s0, u
<1>7. Good(u, s) /\ s.m.st = "loop"
  BY <1>2, <1>3, <1>5, <1>6, HandleSound
<1>8. TablesAt(s, {}) /\ s.chfd = None
  BY <1>2, <1>5, HandleTables DEF Good
<1> HIDE DEF s
<1>9. Good(u, r) /\ r.m.st = "loop"
  BY <1>2, <1>7, ReapGood, TurnedSelf DEF Turned
<1>10. TablesAt(r, {})
  BY <1>2, <1>7, <1>8, ReapTables DEF Good
<1> HIDE DEF r
<1>11. Good(u, b)
  BY <1>2, <1>9, BodyGood DEF Turned
<1>12. TablesAt(b, {})
  BY <1>2, <1>9, <1>10, BodyTables
<1> HIDE DEF b
<1>13. TablesAt(t, {})
  BY <1>11, <1>12, TopTables DEF Good
<1> HIDE DEF t
<1>14. hist'.lost = t.lost /\ hist'.failed = t.failed /\ hist'.double = t.double
  BY <1>3
<1> QED BY <1>3, <1>13, <1>14, NextTab

\* A step of one child: it follows the tables as before, or runs no more.
LEMMA ChildTables ==
  ASSUME IInv, ITab, NEW p \in DOMAIN kids, NEW c, kids' = [kids EXCEPT ![p] = c],
         conf' = conf, master' = master, hist' = hist,
         Member(c) => /\ Member(kids[p]) /\ c.slot = kids[p].slot
                      /\ \A i \in Slots : \A x : Follows(kids[p], i, x) => Follows(c, i, x)
  PROVE  ITab'
<1>1. kids \in Seq(KidType)
  BY DEF IInv, TypeOK
<1>2. CASE hist.lost \/ hist.failed \/ hist.double
  BY <1>2 DEF ITab
<1>3. CASE InStep(master, kids, {})
  <2> DEFINE l == [kids EXCEPT ![p] = c]
             t == [State(0) EXCEPT !.k = l]
  <2>1. t.k = l /\ t.m = master /\ t.lost = hist.lost /\ t.failed = hist.failed
        /\ t.double = hist.double
    BY DEF State
  <2>2. DOMAIN l = DOMAIN kids /\ l[p] = c /\ \A q \in DOMAIN kids : q # p => l[q] = kids[q]
    BY <1>1
  <2> HIDE DEF l, t
  <2>3. ASSUME NEW q \in DOMAIN l, Member(l[q])
        PROVE  /\ master.tab[l[q].slot].chan = q
               /\ \A i \in Slots \ ({l[q].slot} \cup {}) :
                    Follows(l[q], i, master.tab[i].chan)
    <3>1. Member(kids[q]) =>
            /\ master.tab[kids[q].slot].chan = q
            /\ \A i \in Slots \ ({kids[q].slot} \cup {}) :
                 Follows(kids[q], i, master.tab[i].chan)
      BY <1>3, <2>2 DEF InStep, KidsInStep
    <3>2. CASE q # p
      BY <2>2, <2>3, <3>1, <3>2
    <3>3. CASE q = p
      <4>1. Member(kids[p]) /\ c.slot = kids[p].slot
        BY <2>2, <2>3, <3>3
      <4>2. \A i \in Slots : \A x : Follows(kids[p], i, x) => Follows(c, i, x)
        BY <2>2, <2>3, <3>3
      <4> QED BY <2>2, <3>1, <3>3, <4>1, <4>2
    <3> QED BY <3>2, <3>3
  <2>4. KidsInStep(master, l, {})
    BY <2>3 DEF KidsInStep
  <2>5. TablesAt(t, {})
    BY <1>3, <2>1, <2>4 DEF InStep, TablesAt
  <2> QED BY <2>1, <2>5, NextTab DEF l
<1> QED BY <1>2, <1>3 DEF ITab

\* ngx_channel_handler(), the end of a child, and one that hangs.
LEMMA ChildStepTables ==
  ASSUME IInv, ITab, NEW p \in DOMAIN kids,
         ChildStep(p) \/ ExitBinary(p) \/ Crash(p) \/ Fatal(p) \/ Hang(p)
  PROVE  ITab'
<1> DEFINE k == kids[p]
<1>1. conf \in Scenarios /\ kids \in Seq(KidType) /\ k \in KidType
  BY DEF IInv, TypeOK
<1>2. CASE ChannelHandler(p)
  <2> DEFINE c == ReceiveAll(k)
  <2>1. /\ kids' = [kids EXCEPT ![p] = c] /\ conf' = conf /\ master' = master
        /\ hist' = hist
    BY <1>2 DEF ChannelHandler
  <2>2. c.st = k.st /\ c.kind = k.kind /\ c.slot = k.slot
    BY <1>1, ReceiveAllType
  <2>3. \A i \in Slots : \A x : Follows(k, i, x) => Follows(c, i, x)
    BY <1>1, ReadsAll
  <2>4. Member(c) => Member(k)
    BY <2>2 DEF Member
  <2> HIDE DEF c
  <2> QED BY <2>1, <2>2, <2>3, <2>4, ChildTables
<1>3. ASSUME NEW code2, Die(p, code2) PROVE ITab'
  <2> DEFINE c == [Closed(k) EXCEPT !.st = "zombie", !.code2 = code2, !.hung = FALSE]
  <2>1. /\ kids' = [kids EXCEPT ![p] = c] /\ conf' = conf /\ master' = master
        /\ hist' = hist
    BY <1>3 DEF Die
  <2>2. c.st = "zombie"
    <3> HIDE DEF k
    <3> QED BY <1>1 DEF Closed, KidType
  <2>3. ~Member(c)
    BY <2>2 DEF Member
  <2> HIDE DEF c
  <2> QED BY <2>1, <2>3, ChildTables
<1>4. CASE Hang(p)
  <2> DEFINE c == [k EXCEPT !.hung = TRUE]
  <2>1. /\ kids' = [kids EXCEPT ![p] = c] /\ conf' = conf /\ master' = master
        /\ hist' = hist
    BY <1>4 DEF Hang
  <2>2. /\ c.st = k.st /\ c.kind = k.kind /\ c.slot = k.slot
        /\ c.tbl = k.tbl /\ c.mail = k.mail
    <3> HIDE DEF k
    <3> QED BY <1>1 DEF KidType
  <2>3. \A i \in Slots : \A x : Follows(k, i, x) => Follows(c, i, x)
    BY <2>2 DEF Follows
  <2>4. Member(c) => Member(k)
    BY <2>2 DEF Member
  <2> HIDE DEF c
  <2> QED BY <2>1, <2>2, <2>3, <2>4, ChildTables
<1> QED BY <1>2, <1>3, <1>4 DEF ChildStep, ExitChild, ExitBinary, Crash, Fatal

LEMMA InitTables == Init => ITab
<1> SUFFICES ASSUME Init PROVE ITab
  OBVIOUS
<1> DEFINE b == First
           s == StartAll(b, FALSE)
<1>1. /\ conf \in Scenarios /\ master = s.m /\ kids = s.k
      /\ hist = [lost |-> s.lost, double |-> FALSE, failed |-> s.failed]
  BY DEF Init, First
<1>2. Sound(b) /\ b.m = Blank /\ b.k = <<>> /\ ~b.double
  BY <1>1, FirstGood DEF Good, First
<1>3. /\ Blank.last = 0
      /\ \A i \in Slots : Blank.tab[i].chan = None /\ ~Blank.tab[i].detached
  BY DEF Blank, FreeSlot
<1> HIDE DEF b
<1>4. KidsInStep(b.m, b.k, {})
  <2>1. DOMAIN <<>> = {}
    OBVIOUS
  <2> QED BY <1>2, <2>1 DEF KidsInStep
<1>5. TablesAt(b, {})
  BY <1>2, <1>3, <1>4 DEF TablesAt, InStep, EntriesInStep
<1>6. TablesAt(s, {}) /\ Unreaped(b, s)
  BY <1>1, <1>2, <1>5, StartAllTables
<1> HIDE DEF s
<1>7. hist.lost = s.lost /\ hist.failed = s.failed
  BY <1>1
<1> QED BY <1>1, <1>2, <1>6, <1>7 DEF Unreaped, TablesAt, Blurred, ITab

LEMMA NextTables ==
  ASSUME IInv, ITab, [Next]_vars
  PROVE  ITab'
<1>1. CASE Turn
  BY <1>1, TurnTables
<1>2. ASSUME conf' = conf, master' = master, kids' = kids, hist' = hist
      PROVE  ITab'
  <2> DEFINE t == State(0)
  <2>1. /\ t.m = master /\ t.k = kids /\ t.lost = hist.lost
        /\ t.failed = hist.failed /\ t.double = hist.double
    BY DEF State
  <2>2. TablesAt(t, {})
    BY StateTables
  <2> HIDE DEF t
  <2> QED BY <1>2, <2>1, <2>2, NextTab
<1>3. CASE Alarm
  BY <1>2, <1>3 DEF Alarm
<1>4. CASE \E e \in {"hup", "winch", "usr1", "usr2", "quit", "term"} : Signal(e)
  BY <1>2, <1>4 DEF Signal
<1>5. CASE \E p \in DOMAIN kids :
             ChildStep(p) \/ ExitBinary(p) \/ Crash(p) \/ Fatal(p) \/ Hang(p)
  BY <1>5, ChildStepTables
<1>6. CASE UNCHANGED vars
  BY <1>2, <1>6 DEF vars
<1> QED BY <1>1, <1>3, <1>4, <1>5, <1>6 DEF Next

LEMMA TablesInv ==
  ASSUME IInv, ITab
  PROVE  TablesFollow
<1> SUFFICES ASSUME ~hist.lost, ~hist.failed, ~hist.double, NEW p \in Running,
                    kids[p].mail = <<>>, OneOf(p), NEW i \in Slots \ {kids[p].slot}
             PROVE  kids[p].tbl[i] = master.tab[i].chan
  BY DEF TablesFollow, TablesAgree
<1>1. p \in DOMAIN kids /\ Member(kids[p])
  BY DEF Running, OneOf, Member
<1>2. Follows(kids[p], i, master.tab[i].chan)
  BY <1>1 DEF ITab, InStep, KidsInStep
<1>3. DOMAIN kids[p].mail = {}
  OBVIOUS
<1> QED BY <1>2, <1>3 DEF Follows

\* As long as no message is lost, no fork fails and no two children are reaped
\* in one turn, a child that has read its channel knows the descriptors that the
\* master has (ngx_pass_open_channel, ngx_reap_children, ngx_channel_handler):
\* for any number of children and slots, however forks, exits, reloads and the
\* reading of the channels interleave.
THEOREM TablesAreFollowed == Spec => []TablesFollow
<1>1. Init => IInv /\ ITab
  BY InitInv, InitTables
<1>2. IInv /\ ITab /\ [Next]_vars => (IInv /\ ITab)'
  BY NextInv, NextTables
<1>3. IInv /\ ITab => TablesFollow
  BY TablesInv
<1> QED BY <1>1, <1>2, <1>3, PTL DEF Spec
=============================================================================
