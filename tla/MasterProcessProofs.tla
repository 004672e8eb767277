------------------------ MODULE MasterProcessProofs ------------------------
(***************************************************************************)
(* Proofs about the master process: for any number of workers and slots,   *)
(* with any scenario of signals, crashes, failing forks and full channels, *)
(* no child is lost and none but a new binary is left behind.              *)
(***************************************************************************)
EXTENDS MasterProcess, DataLemmas

(***************************************************************************)
(* The inductive invariant.                                                *)
(***************************************************************************)

\* A child that was not waited for is in its slot; the child of a slot that is
\* marked as exited was waited for; and only a new binary is detached.
TableOK(m, k) ==
  /\ \A p \in DOMAIN k : k[p].st # "reaped" =>
       k[p].slot < m.last /\ m.tab[k[p].slot].pid = p
  /\ \A i \in 0..(m.last - 1) : m.tab[i].pid # None =>
       /\ m.tab[i].exited => k[m.tab[i].pid].st = "reaped"
       /\ m.tab[i].kind = k[m.tab[i].pid].kind
       /\ m.tab[i].detached => m.tab[i].kind = "binary"

\* The numbers of TypeOK.
Bounds(m, k) ==
  /\ \A i \in Slots : m.tab[i].pid <= Len(k) /\ m.tab[i].chan <= Len(k)
  /\ m.newBinary <= Len(k)
  /\ \A p \in DOMAIN k : Len(k[p].mail) <= conf.cap

\* All children but new binaries are gone.
AllGone(k) == \A p \in DOMAIN k : k[p].st # "reaped" => k[p].kind = "binary"

\* The state inside a turn.
StateType ==
  [m : MasterType, k : Seq(KidType), forks : Nat, failAt : Nat, ok : BOOLEAN,
   slot : Slots, chfd : Chans, lost : BOOLEAN, double : BOOLEAN,
   failed : BOOLEAN]
Sound(s) == s \in StateType /\ Bounds(s.m, s.k) /\ TableOK(s.m, s.k)

\* What most of a turn leaves alone.
FlagsKept(s, t) ==
  /\ t.m.st = s.m.st /\ t.m.quit = s.m.quit /\ t.m.terminate = s.m.terminate
  /\ t.m.newBinary = s.m.newBinary /\ t.m.changeBinary = s.m.changeBinary
  /\ t.m.pidfile = s.m.pidfile
  /\ t.m.noaccepting = s.m.noaccepting /\ t.m.restart = s.m.restart
  /\ s.failed => t.failed
\* No child appears or comes back.
KidsKept(k, l) ==
  /\ Len(l) = Len(k)
  /\ \A p \in DOMAIN k : /\ l[p].slot = k[p].slot /\ l[p].kind = k[p].kind
                         /\ l[p].st # "reaped" => k[p].st # "reaped"

LEMMA ConfOK ==
  ASSUME conf \in Scenarios
  PROVE  /\ conf.slots \in Nat \ {0} /\ conf.workers \in Nat \ {0}
         /\ conf.cap \in Nat /\ conf.cache \in BOOLEAN
         /\ Slots = 0..(conf.slots - 1)
BY MasterAssumption DEF MasterAssumption, Slots

LEMMA KeptTrans ==
  ASSUME NEW k, NEW l, NEW n, DOMAIN k = 1..Len(k), DOMAIN l = 1..Len(l),
         KidsKept(k, l), KidsKept(l, n)
  PROVE  KidsKept(k, n)
BY DEF KidsKept

\* Another sequence of the same children, who may only have been waited for.
LEMMA SameChildren ==
  ASSUME conf \in Scenarios, NEW m \in MasterType, NEW k \in Seq(KidType),
         NEW l \in Seq(KidType), Bounds(m, k), TableOK(m, k), KidsKept(k, l),
         \A p \in DOMAIN k : k[p].st = "reaped" => l[p].st = "reaped",
         \A p \in DOMAIN l : Len(l[p].mail) <= conf.cap
  PROVE  Bounds(m, l) /\ TableOK(m, l)
<1>1. DOMAIN k = 1..Len(k) /\ DOMAIN l = 1..Len(l) /\ Len(k) = Len(l) /\ DOMAIN l = DOMAIN k
  BY DEF KidsKept
<1>2. Bounds(m, l)
  BY <1>1 DEF Bounds
<1>3. ASSUME NEW p \in DOMAIN l, l[p].st # "reaped"
      PROVE  l[p].slot < m.last /\ m.tab[l[p].slot].pid = p
  BY <1>1, <1>3 DEF TableOK, KidsKept
<1>4. ASSUME NEW i \in 0..(m.last - 1), m.tab[i].pid # None
      PROVE  /\ m.tab[i].exited => l[m.tab[i].pid].st = "reaped"
             /\ m.tab[i].kind = l[m.tab[i].pid].kind
             /\ m.tab[i].detached => m.tab[i].kind = "binary"
  <2>1. i \in Slots /\ m.tab[i] \in ProcessType
    BY ConfOK, SMTT(60) DEF MasterType
  <2>2. m.tab[i].pid \in DOMAIN k
    BY <2>1, <1>1, <1>4 DEF Bounds, ProcessType, None
  <2> QED BY <2>2, <1>1, <1>4 DEF TableOK, KidsKept
<1> QED BY <1>2, <1>3, <1>4 DEF TableOK

(***************************************************************************)
(* Channels                                                                *)
(***************************************************************************)
LEMMA BroadcastSound ==
  ASSUME conf \in Scenarios, NEW s, Sound(s), NEW to \in SUBSET Slots,
         NEW msg \in MessageType
  PROVE  LET t == Broadcast(s, to, msg) IN
         /\ Sound(t) /\ t.m = s.m /\ KidsKept(s.k, t.k)
         /\ t.ok = s.ok /\ t.slot = s.slot /\ t.failed = s.failed
<1> DEFINE t == Broadcast(s, to, msg)
           chans == {s.m.tab[i].chan : i \in to}
           got(p) == p \in chans /\ Writable(s, p) /\ s.k[p].st # "reaped"
           l == [p \in DOMAIN s.k |->
                   IF got(p) THEN [s.k[p] EXCEPT !.mail = Append(@, msg)] ELSE s.k[p]]
           b == s.lost \/ \E c \in chans : ~Writable(s, c)
<1>1. s \in StateType /\ s.m \in MasterType /\ s.k \in Seq(KidType)
  BY DEF Sound, StateType
<1>2. t = [s EXCEPT !.k = l, !.lost = b]
  BY DEF Broadcast
<1>3. ASSUME NEW p \in DOMAIN s.k
      PROVE  /\ l[p] \in KidType /\ l[p].slot = s.k[p].slot /\ l[p].kind = s.k[p].kind
             /\ l[p].st = s.k[p].st /\ Len(l[p].mail) <= conf.cap
  <2>1. s.k[p] \in KidType /\ Len(s.k[p].mail) <= conf.cap /\ conf.cap \in Nat
    BY <1>1, ConfOK, SMTT(60) DEF Sound, Bounds
  <2>2. CASE ~got(p)
    BY <2>1, <2>2
  <2>3. CASE got(p)
    <3>1. p > 0 /\ Len(s.k[p].mail) < conf.cap
      BY <2>3 DEF Writable
    <3>2. s.k[p].mail \in Seq(MessageType)
      BY <2>1 DEF KidType
    <3> DEFINE q == Append(s.k[p].mail, msg)
    <3>3. q \in Seq(MessageType) /\ Len(q) <= conf.cap
      BY <3>1, <3>2, <2>1
    <3>4. l[p] = [s.k[p] EXCEPT !.mail = q]
      BY <2>3
    <3> HIDE DEF q, l
    <3>5. [s.k[p] EXCEPT !.mail = q] \in KidType
      BY <2>1, <3>3 DEF KidType
    <3> QED BY <2>1, <3>3, <3>4, <3>5 DEF KidType
  <2> QED BY <2>2, <2>3
<1> HIDE DEF l, b, got, t
<1>4. DOMAIN l = DOMAIN s.k /\ DOMAIN s.k = 1..Len(s.k) /\ Len(s.k) \in Nat
  BY <1>1 DEF l
<1>5. l \in Seq(KidType) /\ Len(l) = Len(s.k)
  <2>1. l \in [1..Len(s.k) -> KidType]
    BY <1>3, <1>4 DEF l
  <2> QED BY <2>1, <1>4, FunctionSeq
<1>6. b \in BOOLEAN
  BY <1>1 DEF b, StateType
<1>7. t \in StateType /\ t.k = l /\ t.m = s.m /\ t.ok = s.ok /\ t.slot = s.slot /\ t.failed = s.failed
  BY <1>1, <1>2, <1>5, <1>6 DEF StateType
<1>8. KidsKept(s.k, l) /\ \A p \in DOMAIN s.k : s.k[p].st = "reaped" => l[p].st = "reaped"
  BY <1>3, <1>4, <1>5 DEF KidsKept
<1>9. Bounds(s.m, l) /\ TableOK(s.m, l)
  <2>1. \A p \in DOMAIN l : Len(l[p].mail) <= conf.cap
    BY <1>3, <1>4
  <2> QED BY <1>1, <1>5, <1>8, <2>1, SameChildren DEF Sound
<1> QED BY <1>7, <1>8, <1>9 DEF Sound, t

LEMMA PassOpenChannelSound ==
  ASSUME conf \in Scenarios, NEW s, Sound(s), NEW slot \in Slots
  PROVE  LET t == PassOpenChannel(s, slot) IN
         /\ Sound(t) /\ t.m = s.m /\ KidsKept(s.k, t.k)
         /\ t.ok = s.ok /\ t.slot = s.slot /\ t.failed = s.failed
<1> DEFINE to == {i \in 0..(s.m.last - 1) : /\ i # slot
                                            /\ s.m.tab[i].pid # None
                                            /\ s.m.tab[i].chan # None}
           msg == [cmd |-> "open", slot |-> slot, chan |-> s.m.tab[slot].chan]
<1>1. s.m \in MasterType
  BY DEF Sound, StateType
<1>2. s.m.last \in 0..conf.slots /\ s.m.tab[slot] \in ProcessType
  BY <1>1 DEF MasterType
<1>3. to \in SUBSET Slots
  BY <1>2, ConfOK, SMTT(60)
<1>4. msg \in MessageType
  BY <1>2 DEF MessageType, ProcessType
<1>5. PassOpenChannel(s, slot) = Broadcast(s, to, msg)
  BY DEF PassOpenChannel
<1> HIDE DEF to, msg
<1> QED BY <1>3, <1>4, <1>5, BroadcastSound

(***************************************************************************)
(* Spawning                                                                *)
(***************************************************************************)

\* A new child c, with its entry e, in a slot whose last child was waited for.
Placed(m, k, slot, c, e, m2) ==
  /\ m \in MasterType /\ k \in Seq(KidType) /\ Bounds(m, k) /\ TableOK(m, k)
  /\ slot \in Slots
  /\ \A p \in DOMAIN k : k[p].st # "reaped" => k[p].slot # slot
  /\ c \in KidType /\ c.slot = slot /\ c.mail = <<>>
  /\ e \in ProcessType /\ e.pid = Len(k) + 1 /\ e.chan <= Len(k) + 1
  /\ e.kind = c.kind /\ ~e.exited /\ (e.detached => e.kind = "binary")
  /\ m2.tab = [m.tab EXCEPT ![slot] = e] /\ m2.newBinary = m.newBinary
  /\ m2.last \in 0..conf.slots
  /\ \/ slot < m.last /\ m2.last = m.last
     \/ slot = m.last /\ m2.last = m.last + 1

LEMMA NewChild ==
  ASSUME conf \in Scenarios, NEW m, NEW k, NEW slot, NEW c, NEW e, NEW m2,
         Placed(m, k, slot, c, e, m2)
  PROVE  Bounds(m2, Append(k, c)) /\ TableOK(m2, Append(k, c))
<1> USE DEF Placed
<1> DEFINE n == m2.last
<1> DEFINE l == Append(k, c)
<1>1. /\ l \in Seq(KidType) /\ Len(l) = Len(k) + 1 /\ Len(k) \in Nat
      /\ DOMAIN k = 1..Len(k) /\ DOMAIN l = 1..(Len(k) + 1)
      /\ \A p \in 1..Len(k) : l[p] = k[p]
      /\ l[Len(k) + 1] = c
  OBVIOUS
<1> HIDE DEF l
<1>2. m.tab \in [Slots -> ProcessType] /\ m.last \in 0..conf.slots /\ m.newBinary \in Int
  BY DEF MasterType, InvalidPid
<1>3. \A i \in Slots : m2.tab[i] = IF i = slot THEN e ELSE m.tab[i]
  BY <1>2
<1>4. Bounds(m2, l)
  <2>1. ASSUME NEW i \in Slots PROVE m2.tab[i].pid <= Len(l) /\ m2.tab[i].chan <= Len(l)
    <3>1. m.tab[i].pid \in Int /\ m.tab[i].chan \in Int /\ e.pid \in Int /\ e.chan \in Int
      BY <1>2 DEF ProcessType, Chans, Stale
    <3> QED BY <3>1, <1>1, <1>3 DEF Bounds
  <2>2. m2.newBinary <= Len(l)
    BY <1>1, <1>2 DEF Bounds
  <2>3. ASSUME NEW p \in DOMAIN l PROVE Len(l[p].mail) <= conf.cap
    <3>1. CASE p = Len(k) + 1
      BY <3>1, <1>1, ConfOK
    <3>2. CASE p \in 1..Len(k)
      BY <3>2, <1>1 DEF Bounds
    <3> QED BY <3>1, <3>2, <1>1
  <2> QED BY <2>1, <2>2, <2>3 DEF Bounds
<1>5. ASSUME NEW p \in DOMAIN l, l[p].st # "reaped"
      PROVE  l[p].slot < n /\ m2.tab[l[p].slot].pid = p
  <2>1. CASE p = Len(k) + 1
    BY <2>1, <1>1, <1>2, <1>3, ConfOK, SMTT(60)
  <2>2. CASE p \in 1..Len(k)
    <3>1. k[p].slot < m.last /\ m.tab[k[p].slot].pid = p /\ k[p].slot # slot
      BY <2>2, <1>1, <1>5 DEF TableOK
    <3>2. k[p].slot \in Slots /\ k[p].slot \in Nat
      <4>1. k[p] \in KidType
        BY <2>2, <1>1
      <4>2. k[p].slot \in Slots
        BY <4>1 DEF KidType
      <4> QED BY <4>2, ConfOK
    <3> QED BY <3>1, <3>2, <2>2, <1>1, <1>2, <1>3
  <2> QED BY <2>1, <2>2, <1>1
<1>6. ASSUME NEW i \in 0..(n - 1), m2.tab[i].pid # None
      PROVE  /\ m2.tab[i].exited => l[m2.tab[i].pid].st = "reaped"
             /\ m2.tab[i].kind = l[m2.tab[i].pid].kind
             /\ m2.tab[i].detached => m2.tab[i].kind = "binary"
  <2>0. i \in Slots
    BY ConfOK, SMTT(60)
  <2>1. CASE i = slot
    BY <2>1, <1>1, <1>3
  <2>2. CASE i # slot
    <3>1. i \in 0..(m.last - 1) /\ m2.tab[i] = m.tab[i]
      BY <2>2, <2>0, <1>2, <1>3, SMTT(60)
    <3>2. m.tab[i].pid \in 1..Len(k)
      BY <3>1, <2>0, <1>1, <1>2, <1>6, SMTT(60) DEF Bounds, ProcessType, None
    <3> QED BY <3>1, <3>2, <1>1, <1>6 DEF TableOK
  <2> QED BY <2>1, <2>2
<1> QED BY <1>4, <1>5, <1>6 DEF TableOK, l

\* An entry of the table whose child stays the same.
LEMMA EntryChanged ==
  ASSUME conf \in Scenarios, NEW m \in MasterType, NEW k \in Seq(KidType),
         Bounds(m, k), TableOK(m, k), NEW slot \in Slots, NEW e \in ProcessType,
         e.pid = m.tab[slot].pid, e.kind = m.tab[slot].kind,
         e.detached = m.tab[slot].detached, e.chan <= Len(k),
         e.exited => m.tab[slot].exited \/ k[e.pid].st = "reaped",
         NEW m2, m2.tab = [m.tab EXCEPT ![slot] = e], m2.last = m.last,
         m2.newBinary = m.newBinary
  PROVE  Bounds(m2, k) /\ TableOK(m2, k)
<1>1. m.tab \in [Slots -> ProcessType] /\ m.last \in 0..conf.slots
  BY DEF MasterType
<1>2. \A i \in Slots : m2.tab[i] = IF i = slot THEN e ELSE m.tab[i]
  BY <1>1
<1>3. \A i \in Slots : /\ m2.tab[i].pid = m.tab[i].pid /\ m2.tab[i].kind = m.tab[i].kind
                       /\ m2.tab[i].detached = m.tab[i].detached
  BY <1>2
<1>4. Bounds(m2, k)
  BY <1>2, <1>3 DEF Bounds
<1>5. ASSUME NEW p \in DOMAIN k, k[p].st # "reaped"
      PROVE  k[p].slot < m2.last /\ m2.tab[k[p].slot].pid = p
  <2>1. k[p] \in KidType
    OBVIOUS
  <2>2. k[p].slot \in Slots
    BY <2>1 DEF KidType
  <2> QED BY <2>2, <1>3, <1>5 DEF TableOK
<1>6. ASSUME NEW i \in 0..(m2.last - 1), m2.tab[i].pid # None
      PROVE  /\ m2.tab[i].exited => k[m2.tab[i].pid].st = "reaped"
             /\ m2.tab[i].kind = k[m2.tab[i].pid].kind
             /\ m2.tab[i].detached => m2.tab[i].kind = "binary"
  <2>1. i \in Slots /\ i \in 0..(m.last - 1)
    BY <1>1, ConfOK
  <2> QED BY <2>1, <1>2, <1>3, <1>6 DEF TableOK
<1> QED BY <1>4, <1>5, <1>6 DEF TableOK

\* fork() fails: nothing but the descriptors of the slot changes.
LEMMA SpawnFailedSound ==
  ASSUME conf \in Scenarios, NEW s, Sound(s), NEW slot \in Slots,
         NEW detached \in BOOLEAN
  PROVE  LET t == SpawnFailed(s, slot, detached) IN
         /\ Sound(t) /\ FlagsKept(s, t) /\ t.m.live = s.m.live /\ t.k = s.k
         /\ ~t.ok /\ t.failed
<1> DEFINE t == SpawnFailed(s, slot, detached)
           c == IF detached THEN None ELSE Stale
           e == [s.m.tab[slot] EXCEPT !.chan = c]
           tab == [s.m.tab EXCEPT ![slot] = e]
           m == [s.m EXCEPT !.tab = tab]
           f == s.forks + 1
<1>1. s \in StateType /\ s.m \in MasterType /\ s.k \in Seq(KidType) /\ f \in Nat
  BY DEF Sound, StateType
<1>2. s.m.tab \in [Slots -> ProcessType] /\ s.m.tab[slot] \in ProcessType
  BY <1>1 DEF MasterType
<1>3. c \in Chans /\ c <= 0
  BY DEF Chans, None, Stale
<1>4. t = [s EXCEPT !.forks = f, !.slot = slot, !.ok = FALSE, !.failed = TRUE, !.m = m]
  BY <1>1, <1>2 DEF SpawnFailed, StateType
<1> HIDE DEF c, t, f
<1>5. /\ e \in ProcessType /\ e.chan = c /\ e.pid = s.m.tab[slot].pid
      /\ e.kind = s.m.tab[slot].kind /\ e.detached = s.m.tab[slot].detached
      /\ e.exited = s.m.tab[slot].exited
  BY <1>2, <1>3 DEF ProcessType
<1> HIDE DEF e
<1>6. tab \in [Slots -> ProcessType]
  BY <1>2, <1>5
<1> HIDE DEF tab
<1>7. /\ m \in MasterType /\ m.tab = tab /\ m.last = s.m.last /\ m.newBinary = s.m.newBinary
      /\ m.st = s.m.st /\ m.quit = s.m.quit /\ m.terminate = s.m.terminate
      /\ m.changeBinary = s.m.changeBinary /\ m.pidfile = s.m.pidfile /\ m.live = s.m.live
      /\ m.noaccepting = s.m.noaccepting /\ m.restart = s.m.restart
  BY <1>1, <1>6, SMTT(60) DEF MasterType
<1> HIDE DEF m
<1>8. t.m = m /\ t.k = s.k /\ ~t.ok /\ t.failed
  BY <1>1, <1>4 DEF StateType
<1>8a. t \in StateType
  BY <1>1, <1>4, <1>7 DEF StateType
<1>9. Bounds(m, s.k) /\ TableOK(m, s.k)
  <2>1. e.chan <= Len(s.k)
    BY <1>1, <1>3, <1>5 DEF Chans, Stale
  <2> QED BY <1>1, <1>5, <1>7, <2>1, EntryChanged DEF Sound, tab
<1> QED BY <1>7, <1>8, <1>8a, <1>9 DEF Sound, FlagsKept, t

LEMMA ChildType ==
  ASSUME conf \in Scenarios, NEW s, s.m \in MasterType, NEW slot \in Slots,
         NEW kind \in Kinds
  PROVE  LET c == Child(s, slot, kind) IN
         /\ c \in KidType /\ c.slot = slot /\ c.kind = kind /\ c.mail = <<>>
<1> DEFINE tbl == [x \in Slots |-> IF x = slot THEN None ELSE s.m.tab[x].chan]
<1>1. s.m.tab \in [Slots -> ProcessType]
  BY DEF MasterType
<1>2. tbl \in [Slots -> Chans]
  BY <1>1 DEF ProcessType, Chans, None
<1>3. Child(s, slot, kind) =
        [st |-> "running", slot |-> slot, kind |-> kind, hung |-> FALSE,
         quit |-> FALSE, term |-> FALSE, code2 |-> FALSE, mail |-> <<>>,
         tbl |-> tbl]
  BY DEF Child
<1> HIDE DEF tbl
<1> QED BY <1>2, <1>3 DEF KidType

\* The state with such a child.
SpawnedAs(s, slot, kind, e, n, t) ==
  /\ Sound(s) /\ slot \in Slots /\ kind \in Kinds
  /\ \A p \in DOMAIN s.k : s.k[p].st # "reaped" => s.k[p].slot # slot
  /\ e \in ProcessType /\ e.pid = Len(s.k) + 1 /\ e.chan <= Len(s.k) + 1
  /\ e.kind = kind /\ ~e.exited /\ (e.detached => e.kind = "binary")
  /\ n \in 0..conf.slots
  /\ \/ slot < s.m.last /\ n = s.m.last
     \/ slot = s.m.last /\ n = s.m.last + 1
  /\ t = [s EXCEPT !.forks = s.forks + 1, !.slot = slot, !.ok = TRUE,
                   !.k = Append(s.k, Child(s, slot, kind)),
                   !.m = [s.m EXCEPT !.tab = [s.m.tab EXCEPT ![slot] = e],
                                     !.last = n]]

LEMMA SpawnedSound ==
  ASSUME conf \in Scenarios, NEW s, NEW slot, NEW kind, NEW e, NEW n, NEW t,
         SpawnedAs(s, slot, kind, e, n, t)
  PROVE  /\ Sound(t) /\ FlagsKept(s, t) /\ t.m.live = s.m.live
         /\ t.ok /\ t.slot = slot /\ t.m.tab[slot] = e
         /\ t.k = Append(s.k, Child(s, slot, kind)) /\ t.failed = s.failed
<1> USE DEF SpawnedAs
<1> DEFINE c == Child(s, slot, kind)
           l == Append(s.k, c)
           tab == [s.m.tab EXCEPT ![slot] = e]
           m == [s.m EXCEPT !.tab = tab, !.last = n]
           f == s.forks + 1
<1>1. s \in StateType /\ s.m \in MasterType /\ s.k \in Seq(KidType) /\ f \in Nat
  BY DEF Sound, StateType
<1>2. c \in KidType /\ c.slot = slot /\ c.kind = kind /\ c.mail = <<>>
  BY <1>1, ChildType
<1>3. s.m.tab \in [Slots -> ProcessType]
  BY <1>1 DEF MasterType
<1>4. tab \in [Slots -> ProcessType] /\ tab[slot] = e
  BY <1>3
<1>5. t = [s EXCEPT !.forks = f, !.slot = slot, !.ok = TRUE, !.k = l, !.m = m]
  OBVIOUS
<1> HIDE DEF c, f
<1>6. l \in Seq(KidType)
  BY <1>1, <1>2
<1> HIDE DEF l, tab
<1>7. /\ m \in MasterType /\ m.tab = tab /\ m.last = n /\ m.newBinary = s.m.newBinary
      /\ m.st = s.m.st /\ m.quit = s.m.quit /\ m.terminate = s.m.terminate
      /\ m.changeBinary = s.m.changeBinary /\ m.pidfile = s.m.pidfile /\ m.live = s.m.live
      /\ m.noaccepting = s.m.noaccepting /\ m.restart = s.m.restart
  BY <1>1, <1>4 DEF MasterType
<1> HIDE DEF m
<1>8. t.m = m /\ t.k = l /\ t.ok /\ t.slot = slot /\ t.failed = s.failed
  BY <1>1, <1>5 DEF StateType
<1>9. t \in StateType
  BY <1>1, <1>5, <1>6, <1>7, ZenonT(60) DEF StateType
<1>10. Bounds(m, l) /\ TableOK(m, l)
  <2>1. Placed(s.m, s.k, slot, c, e, m)
    BY <1>1, <1>2, <1>7 DEF Sound, tab, Placed
  <2>2. Bounds(m, Append(s.k, c)) /\ TableOK(m, Append(s.k, c))
    BY <2>1, NewChild
  <2> QED BY <2>2 DEF l
<1> QED BY <1>4, <1>7, <1>8, <1>9, <1>10 DEF Sound, FlagsKept, l, c

\* ngx_spawn_process() with a slot whose child exited.
LEMMA RespawnSound ==
  ASSUME conf \in Scenarios, NEW s, Sound(s), NEW slot \in 0..(s.m.last - 1),
         s.m.tab[slot].pid # None, s.m.tab[slot].exited
  PROVE  LET t == Respawn(s, slot) IN
         /\ Sound(t) /\ FlagsKept(s, t) /\ t.m.live = s.m.live
         /\ ~t.ok => t.k = s.k /\ t.failed
         /\ t.ok \in BOOLEAN
<1> DEFINE t == Respawn(s, slot)
           x == s.m.tab[slot]
           pid == Len(s.k) + 1
           e == [x EXCEPT !.pid = pid, !.chan = pid, !.exited = FALSE]
<1>1. s \in StateType /\ s.m \in MasterType /\ s.k \in Seq(KidType)
  BY DEF Sound, StateType
<1>2. /\ s.m.tab \in [Slots -> ProcessType] /\ s.m.last \in 0..conf.slots
      /\ Len(s.k) \in Nat /\ DOMAIN s.k = 1..Len(s.k)
  BY <1>1 DEF MasterType
<1>3. slot \in Slots
  BY <1>2, ConfOK
<1>4. x \in ProcessType /\ x.kind \in Kinds
  BY <1>2, <1>3 DEF ProcessType
<1>5. CASE ForkFails(s)
  <2>1. t = SpawnFailed(s, slot, FALSE)
    BY <1>5 DEF Respawn
  <2> HIDE DEF t
  <2>2. /\ Sound(t) /\ FlagsKept(s, t) /\ t.m.live = s.m.live /\ t.k = s.k
        /\ ~t.ok /\ t.failed
    BY <2>1, <1>3, SpawnFailedSound
  <2>3. t.ok \in BOOLEAN
    BY <2>2 DEF Sound, StateType
  <2> QED BY <2>2, <2>3 DEF t
<1>6. CASE ~ForkFails(s)
  <2> HIDE DEF pid
  <2>1. pid \in Nat /\ pid = Len(s.k) + 1
    BY <1>2 DEF pid
  <2>2. /\ e \in ProcessType /\ e.pid = pid /\ e.chan = pid /\ e.kind = x.kind
        /\ ~e.exited /\ e.detached = x.detached
    BY <1>4, <2>1 DEF ProcessType, Chans
  <2>3. x.detached => x.kind = "binary"
    BY DEF Sound, TableOK
  <2>4. t = [s EXCEPT !.forks = s.forks + 1, !.slot = slot, !.ok = TRUE,
                      !.k = Append(s.k, Child(s, slot, x.kind)),
                      !.m = [s.m EXCEPT !.tab = [s.m.tab EXCEPT ![slot] = e],
                                        !.last = s.m.last]]
    <3>1. t = [s EXCEPT !.forks = s.forks + 1, !.slot = slot, !.ok = TRUE,
                      !.k = Append(s.k, Child(s, slot, x.kind)),
                      !.m = [s.m EXCEPT !.tab = [s.m.tab EXCEPT ![slot] = e]]]
      BY <1>1, <1>2, <1>3, <1>4, <1>6 DEF Respawn, pid, StateType, MasterType, ProcessType
    <3> DEFINE tab == [s.m.tab EXCEPT ![slot] = e]
    <3> HIDE DEF tab
    <3>2. [s.m EXCEPT !.tab = tab] = [s.m EXCEPT !.tab = tab, !.last = s.m.last]
      BY <1>1 DEF MasterType
    <3> HIDE DEF e, t
    <3> QED BY <3>1, <3>2 DEF tab
  <2>5. \A p \in DOMAIN s.k : s.k[p].st # "reaped" => s.k[p].slot # slot
    BY DEF Sound, TableOK
  <2> HIDE DEF t, e
  <2>6. /\ Sound(t) /\ FlagsKept(s, t) /\ t.m.live = s.m.live /\ t.ok
    <3>1. SpawnedAs(s, slot, x.kind, e, s.m.last, t)
      BY <1>2, <1>3, <1>4, <2>1, <2>2, <2>3, <2>4, <2>5 DEF SpawnedAs
    <3> QED BY <3>1, SpawnedSound
  <2>7. t.ok \in BOOLEAN
    BY <2>6 DEF Sound, StateType
  <2> QED BY <2>6, <2>7 DEF t
<1> QED BY <1>5, <1>6

\* A part of a turn that may start children, but decides nothing.
Onward(s, t) == Sound(t) /\ FlagsKept(s, t) /\ t.m.live = s.m.live

LEMMA OnwardTrans ==
  ASSUME NEW s, NEW t, NEW u, Onward(s, t), Onward(t, u)
  PROVE  Onward(s, u)
BY DEF Onward, FlagsKept

LEMMA OnwardSelf ==
  ASSUME NEW s, Sound(s)
  PROVE  Onward(s, s)
BY DEF Onward, FlagsKept

LEMMA SpawnTypesType ==
  /\ DOMAIN SpawnTypes = {"norespawn", "just_spawn", "respawn", "just_respawn", "detached"}
  /\ \A type \in DOMAIN SpawnTypes :
       /\ SpawnTypes[type].respawn \in BOOLEAN /\ SpawnTypes[type].just \in BOOLEAN
       /\ SpawnTypes[type].detached \in BOOLEAN
       /\ SpawnTypes[type].detached <=> type = "detached"
<1>1. DOMAIN SpawnTypes = {"norespawn", "just_spawn", "respawn", "just_respawn", "detached"}
  BY DEF SpawnTypes
<1>2. /\ SpawnTypes["norespawn"] = [respawn |-> FALSE, just |-> FALSE, detached |-> FALSE]
      /\ SpawnTypes["just_spawn"] = [respawn |-> FALSE, just |-> TRUE, detached |-> FALSE]
      /\ SpawnTypes["respawn"] = [respawn |-> TRUE, just |-> FALSE, detached |-> FALSE]
      /\ SpawnTypes["just_respawn"] = [respawn |-> TRUE, just |-> TRUE, detached |-> FALSE]
      /\ SpawnTypes["detached"] = [respawn |-> FALSE, just |-> FALSE, detached |-> TRUE]
  BY DEF SpawnTypes
<1>3. ASSUME NEW type \in DOMAIN SpawnTypes
      PROVE  LET how == SpawnTypes[type] IN
             /\ how.respawn \in BOOLEAN /\ how.just \in BOOLEAN /\ how.detached \in BOOLEAN
             /\ how.detached <=> type = "detached"
  <2>1. CASE type = "norespawn"
    BY <2>1, <1>2
  <2>2. CASE type = "just_spawn"
    BY <2>2, <1>2
  <2>3. CASE type = "respawn"
    BY <2>3, <1>2
  <2>4. CASE type = "just_respawn"
    BY <2>4, <1>2
  <2>5. CASE type = "detached"
    BY <2>5, <1>2
  <2> QED BY <1>1, <2>1, <2>2, <2>3, <2>4, <2>5
<1> QED BY <1>1, <1>3

\* ngx_spawn_process() for a slot that it finds itself.
LEMMA SpawnSound ==
  ASSUME conf \in Scenarios, NEW s, Sound(s), NEW kind \in Kinds,
         NEW type \in DOMAIN SpawnTypes, type = "detached" => kind = "binary"
  PROVE  LET t == Spawn(s, kind, type) IN
         /\ Onward(s, t) /\ t.ok \in BOOLEAN
         /\ t.ok => t.m.tab[t.slot].pid = Len(t.k) /\ t.m.tab[t.slot].pid # None
         /\ ~t.ok => t.failed
         /\ kind = "binary" /\ AllGone(s.k) => AllGone(t.k)
<1> DEFINE t == Spawn(s, kind, type)
           holes == {i \in 0..(s.m.last - 1) : s.m.tab[i].pid = None}
           how == SpawnTypes[type]
           slot == IF holes = {} THEN s.m.last ELSE Min(holes)
           pid == Len(s.k) + 1
<1>1. s \in StateType /\ s.m \in MasterType /\ s.k \in Seq(KidType)
  BY DEF Sound, StateType
<1>2. /\ s.m.tab \in [Slots -> ProcessType] /\ s.m.last \in 0..conf.slots
      /\ Len(s.k) \in Nat /\ DOMAIN s.k = 1..Len(s.k) /\ pid \in Nat
  BY <1>1, SMTT(60) DEF MasterType
<1>3. /\ how.respawn \in BOOLEAN /\ how.just \in BOOLEAN /\ how.detached \in BOOLEAN
      /\ how.detached => kind = "binary"
  BY SpawnTypesType
<1>4. t = IF slot = conf.slots THEN [s EXCEPT !.ok = FALSE, !.failed = TRUE]
          ELSE IF ForkFails(s) THEN SpawnFailed(s, slot, how.detached)
          ELSE Forked(s, kind, slot, pid, how)
  BY DEF Spawn
<1>5. /\ slot \in 0..s.m.last
      /\ slot < s.m.last => s.m.tab[slot].pid = None
  <2>1. CASE holes = {}
    BY <2>1, <1>2, SMTT(60)
  <2>2. CASE holes # {}
    <3>1. holes \subseteq Nat
      BY <1>2
    <3> HIDE DEF holes
    <3>2. \E n \in holes : \A j \in holes : n <= j
      BY <2>2, <3>1, SmallestOf
    <3>3. Min(holes) \in holes
      BY <3>2 DEF Min
    <3> QED BY <3>3, <2>2, <1>2, SMTT(60) DEF holes
  <2> QED BY <2>1, <2>2
<1> HIDE DEF slot, how, holes, t
<1>6. CASE slot = conf.slots
  <2>1. t = [s EXCEPT !.ok = FALSE, !.failed = TRUE]
    BY <1>4, <1>6
  <2>2. /\ t \in StateType /\ t.m = s.m /\ t.k = s.k /\ ~t.ok /\ t.failed
        /\ t.ok \in BOOLEAN
    BY <1>1, <2>1 DEF StateType
  <2> QED BY <2>2 DEF Onward, Sound, FlagsKept, t
<1>7. CASE slot # conf.slots /\ ForkFails(s)
  <2>1. t = SpawnFailed(s, slot, how.detached)
    BY <1>4, <1>7
  <2>2. slot \in Slots
    BY <1>2, <1>5, <1>7, ConfOK
  <2>3. /\ Sound(t) /\ FlagsKept(s, t) /\ t.m.live = s.m.live /\ t.k = s.k
        /\ ~t.ok /\ t.failed
    BY <2>1, <2>2, <1>3, SpawnFailedSound
  <2>4. t.ok \in BOOLEAN
    BY <2>3 DEF Sound, StateType
  <2> QED BY <2>3, <2>4 DEF Onward, t
<1>8. CASE slot # conf.slots /\ ~ForkFails(s)
  <2> DEFINE e == [pid |-> pid, kind |-> kind,
                   chan |-> IF how.detached THEN None ELSE pid,
                   exiting |-> FALSE, exited |-> FALSE, detached |-> how.detached,
                   respawn |-> how.respawn, just |-> how.just]
             n == IF slot = s.m.last THEN s.m.last + 1 ELSE s.m.last
             c == Child(s, slot, kind)
  <2>1. slot \in Slots /\ n \in 0..conf.slots
    BY <1>2, <1>5, <1>8, ConfOK
  <2>2. /\ e \in ProcessType /\ e.pid = pid /\ e.chan <= pid /\ e.kind = kind
        /\ ~e.exited /\ e.detached = how.detached
    BY <1>2, <1>3 DEF ProcessType, Chans, None
  <2>3. t = [s EXCEPT !.forks = s.forks + 1, !.slot = slot, !.ok = TRUE, !.k = Append(s.k, c),
                      !.m = [s.m EXCEPT !.tab = [s.m.tab EXCEPT ![slot] = e], !.last = n]]
    BY <1>1, <1>2, <2>1, <1>4, <1>8, ZenonT(60) DEF Forked, StateType, MasterType
  <2>4. ASSUME NEW p \in DOMAIN s.k, s.k[p].st # "reaped"
        PROVE  s.k[p].slot # slot
    BY <2>4, <1>2, <1>5 DEF Sound, TableOK, None
  <2>5. (slot < s.m.last /\ n = s.m.last) \/ (slot = s.m.last /\ n = s.m.last + 1)
    BY <1>2, <1>5
  <2> HIDE DEF e, n
  <2>6. SpawnedAs(s, slot, kind, e, n, t)
    BY <1>3, <2>1, <2>2, <2>3, <2>4, <2>5 DEF SpawnedAs
  <2>7. /\ Onward(s, t) /\ t.ok /\ t.slot = slot /\ t.m.tab[slot] = e /\ t.k = Append(s.k, c)
    BY <2>6, SpawnedSound DEF Onward
  <2>8. Len(t.k) = pid /\ pid # None /\ t.ok \in BOOLEAN
    <3>1. c \in KidType
      BY <1>1, <2>1, ChildType
    <3> QED BY <3>1, <1>1, <1>2, <2>7 DEF None, Onward, Sound, StateType
  <2>9. ASSUME kind = "binary", AllGone(s.k), NEW p \in DOMAIN t.k, t.k[p].st # "reaped"
        PROVE  t.k[p].kind = "binary"
    <3>1. c \in KidType /\ c.kind = kind
      BY <1>1, <2>1, ChildType
    <3>2. CASE p = pid
      BY <3>1, <3>2, <2>7, <2>9, <1>1
    <3>3. CASE p \in 1..Len(s.k)
      BY <3>1, <3>3, <2>7, <2>9, <1>1, <1>2 DEF AllGone
    <3>4. p = pid \/ p \in 1..Len(s.k)
      BY <3>1, <2>7, <1>1, <1>2
    <3> QED BY <3>2, <3>3, <3>4
  <2> QED BY <2>2, <2>7, <2>8, <2>9 DEF AllGone, t
<1> QED BY <1>6, <1>7, <1>8

LEMMA SpawnAndPassSound ==
  ASSUME conf \in Scenarios, NEW s, Sound(s), NEW kind \in Kinds,
         NEW type \in DOMAIN SpawnTypes, type # "detached"
  PROVE  Onward(s, SpawnAndPass(s, kind, type))
<1> DEFINE t == Spawn(s, kind, type)
           u == PassOpenChannel(t, t.slot)
<1>1. Onward(s, t)
  BY SpawnSound
<1>2. SpawnAndPass(s, kind, type) = IF t.ok THEN u ELSE t
  BY DEF SpawnAndPass
<1> HIDE DEF t
<1>3. t.slot \in Slots /\ Sound(t)
  BY <1>1 DEF Onward, Sound, StateType
<1>4. Onward(t, u)
  BY <1>3, PassOpenChannelSound DEF Onward, FlagsKept
<1> QED BY <1>1, <1>2, <1>4, OnwardTrans

\* ngx_start_worker_processes(): the loop keeps what each turn of it keeps.
LEMMA StartWorkersSound ==
  ASSUME conf \in Scenarios, NEW s, Sound(s), NEW type \in DOMAIN SpawnTypes,
         type # "detached"
  PROVE  Onward(s, StartWorkers(s, type))
<1> DEFINE N == conf.workers
           S == {x \in StateType : Onward(s, x)}
           Do(x) == SpawnAndPass(x, "worker", type)
           run[n \in 0..N] == IF n = 0 THEN s ELSE Do(run[n - 1])
           g == [n \in 1..N |-> [x \in S |-> Do(x)]]
<1> HIDE DEF run
<1>1. StartWorkers(s, type) = run[N]
  BY DEF StartWorkers, run
<1>2. N \in Nat
  BY ConfOK
<1>3. s \in S
  BY OnwardSelf DEF Sound
<1>4. ASSUME NEW x \in S PROVE Do(x) \in S
  <2>1. Sound(x) /\ Onward(s, x) /\ "worker" \in Kinds
    BY DEF Onward, Kinds
  <2>2. Onward(x, Do(x))
    BY <2>1, SpawnAndPassSound
  <2>3. Onward(s, Do(x))
    BY <2>1, <2>2, OnwardTrans
  <2> QED BY <2>3 DEF Onward, Sound
<1> HIDE DEF N, S, Do
<1>5. g \in [1..N -> [S -> S]] /\ \A n \in 1..N, x \in S : g[n][x] = Do(x)
  BY <1>4
<1> HIDE DEF g
<1>6. PICK f : IsLoop(f, N, S, s, g)
  BY <1>2, <1>3, <1>5, LoopExists
<1>7. f = [n \in 0..N |-> IF n = 0 THEN s ELSE Do(f[n - 1])]
  <2>1. \A n \in 0..N : n = 0 \/ (n \in 1..N /\ n - 1 \in 0..N)
    BY <1>2
  <2>2. \A n \in 1..N : f[n] = Do(f[n - 1])
    BY <1>5, <1>6, <2>1 DEF IsLoop
  <2> QED BY <2>1, <2>2, <1>6 DEF IsLoop
<1>8. run = [n \in 0..N |-> IF n = 0 THEN s ELSE Do(run[n - 1])]
  BY <1>7, Zenon DEF run
<1>9. run[0] = s /\ \A n \in 1..N : run[n] = Do(run[n - 1])
  BY <1>2, <1>8
<1> DEFINE T == [n \in 0..N |-> S]
<1>10. \A n \in 0..N : run[n] \in T[n]
  <2>1. run[0] \in T[0]
    BY <1>2, <1>3, <1>9
  <2>2. \A n \in 1..N : run[n - 1] \in T[n - 1] => run[n] \in T[n]
    BY <1>2, <1>4, <1>9
  <2> HIDE DEF T
  <2> QED BY <2>1, <2>2, <1>2, LoopInvariant
<1>11. run[N] \in S
  BY <1>2, <1>10
<1> QED BY <1>1, <1>11 DEF S

LEMMA StartAllSound ==
  ASSUME conf \in Scenarios, NEW s, Sound(s), NEW again \in BOOLEAN
  PROVE  Onward(s, StartAll(s, again))
<1> DEFINE w == StartWorkers(s, IF again THEN "just_respawn" ELSE "respawn")
           m == SpawnAndPass(w, "manager", IF again THEN "just_respawn" ELSE "respawn")
           l == SpawnAndPass(m, "loader", IF again THEN "just_spawn" ELSE "norespawn")
<1>1. StartAll(s, again) = IF ~conf.cache THEN w ELSE l
  BY DEF StartAll, StartCacheManagers
<1>2. /\ {"just_respawn", "respawn", "just_spawn", "norespawn"} \subseteq DOMAIN SpawnTypes
      /\ {"manager", "loader"} \subseteq Kinds
  BY SpawnTypesType DEF Kinds
<1>3. Onward(s, w)
  BY <1>2, StartWorkersSound
<1> HIDE DEF w
<1>4. Onward(w, m)
  BY <1>2, <1>3, SpawnAndPassSound DEF Onward
<1> HIDE DEF m
<1>5. Onward(m, l)
  BY <1>2, <1>4, SpawnAndPassSound DEF Onward
<1> HIDE DEF l
<1> QED BY <1>1, <1>3, <1>4, <1>5, OnwardTrans

(***************************************************************************)
(* Signalling                                                              *)
(***************************************************************************)

\* A part of a turn that starts no child.
Still(s, t) == Onward(s, t) /\ KidsKept(s.k, t.k)

LEMMA StillSelf ==
  ASSUME NEW s, Sound(s)
  PROVE  Still(s, s)
BY OnwardSelf DEF Still, KidsKept

LEMMA StillTrans ==
  ASSUME NEW s, NEW t, NEW u, Sound(s), Still(s, t), Still(t, u)
  PROVE  Still(s, u)
<1>1. Onward(s, u)
  BY OnwardTrans DEF Still
<1>2. s.k \in Seq(KidType) /\ t.k \in Seq(KidType)
  BY DEF Still, Onward, Sound, StateType
<1>3. KidsKept(s.k, u.k)
  BY <1>2, KeptTrans DEF Still
<1> QED BY <1>1, <1>3 DEF Still

\* One child changes, or is waited for.
KidChanged(s, p, c, t) ==
  /\ Sound(s) /\ p \in DOMAIN s.k /\ c \in KidType
  /\ c.slot = s.k[p].slot /\ c.kind = s.k[p].kind
  /\ c.st = "reaped" <=> s.k[p].st = "reaped"
  /\ Len(c.mail) <= conf.cap
  /\ t = [s EXCEPT !.k = [s.k EXCEPT ![p] = c]]

LEMMA KidChangedSound ==
  ASSUME conf \in Scenarios, NEW s, NEW p, NEW c, NEW t, KidChanged(s, p, c, t)
  PROVE  Still(s, t) /\ t.m = s.m
<1> USE DEF KidChanged
<1> DEFINE l == [s.k EXCEPT ![p] = c]
<1>1. s \in StateType /\ s.m \in MasterType /\ s.k \in Seq(KidType)
  BY DEF Sound, StateType
<1>2. /\ l \in Seq(KidType) /\ Len(l) = Len(s.k) /\ DOMAIN l = DOMAIN s.k
      /\ \A q \in DOMAIN s.k : l[q] = IF q = p THEN c ELSE s.k[q]
  BY <1>1
<1>3. t = [s EXCEPT !.k = l]
  OBVIOUS
<1> HIDE DEF l
<1>4. /\ KidsKept(s.k, l)
      /\ \A q \in DOMAIN s.k : s.k[q].st = "reaped" => l[q].st = "reaped"
      /\ \A q \in DOMAIN l : Len(l[q].mail) <= conf.cap
  BY <1>2 DEF KidsKept, Sound, Bounds
<1>5. Bounds(s.m, l) /\ TableOK(s.m, l)
  BY <1>1, <1>2, <1>4, SameChildren DEF Sound
<1>6. t \in StateType /\ t.k = l /\ t.m = s.m /\ t.failed = s.failed
  BY <1>1, <1>2, <1>3 DEF StateType
<1> QED BY <1>4, <1>5, <1>6 DEF Still, Onward, Sound, FlagsKept

\* One entry changes, but not its child.
EntrySet(s, i, e, b, t) ==
  /\ Sound(s) /\ i \in Slots /\ e \in ProcessType /\ b \in BOOLEAN
  /\ e.pid = s.m.tab[i].pid /\ e.kind = s.m.tab[i].kind
  /\ e.detached = s.m.tab[i].detached /\ e.chan <= Len(s.k)
  /\ e.exited => s.m.tab[i].exited \/ s.k[e.pid].st = "reaped"
  /\ t = [s EXCEPT !.m = [s.m EXCEPT !.tab = [s.m.tab EXCEPT ![i] = e], !.reap = b]]

LEMMA EntrySetSound ==
  ASSUME conf \in Scenarios, NEW s, NEW i, NEW e, NEW b, NEW t, EntrySet(s, i, e, b, t)
  PROVE  /\ Still(s, t) /\ t.k = s.k /\ t.m.tab = [s.m.tab EXCEPT ![i] = e]
         /\ t.m.last = s.m.last
<1> USE DEF EntrySet
<1> DEFINE tab == [s.m.tab EXCEPT ![i] = e]
           m == [s.m EXCEPT !.tab = tab, !.reap = b]
<1>1. s \in StateType /\ s.m \in MasterType /\ s.k \in Seq(KidType)
  BY DEF Sound, StateType
<1>2. s.m.tab \in [Slots -> ProcessType]
  BY <1>1 DEF MasterType
<1>3. tab \in [Slots -> ProcessType]
  BY <1>2
<1>4. t = [s EXCEPT !.m = m]
  OBVIOUS
<1> HIDE DEF tab
<1>5. /\ m \in MasterType /\ m.tab = tab /\ m.last = s.m.last /\ m.newBinary = s.m.newBinary
      /\ m.st = s.m.st /\ m.quit = s.m.quit /\ m.terminate = s.m.terminate
      /\ m.changeBinary = s.m.changeBinary /\ m.pidfile = s.m.pidfile /\ m.live = s.m.live
      /\ m.noaccepting = s.m.noaccepting /\ m.restart = s.m.restart
  BY <1>1, <1>3 DEF MasterType
<1> HIDE DEF m
<1>6. t \in StateType /\ t.m = m /\ t.k = s.k /\ t.failed = s.failed
  BY <1>1, <1>4, <1>5 DEF StateType
<1>7. Bounds(m, s.k) /\ TableOK(m, s.k)
  BY <1>1, <1>5, EntryChanged DEF Sound, tab
<1>8. KidsKept(s.k, s.k)
  BY DEF KidsKept
<1> QED BY <1>5, <1>6, <1>7, <1>8 DEF Still, Onward, Sound, FlagsKept, tab

\* A flag of an entry is set or cleared.
LEMMA FlagSound ==
  ASSUME conf \in Scenarios, NEW s, Sound(s), NEW i \in Slots, NEW e \in ProcessType,
         e.pid = s.m.tab[i].pid, e.kind = s.m.tab[i].kind, e.chan <= Len(s.k),
         e.detached = s.m.tab[i].detached, e.exited = s.m.tab[i].exited
  PROVE  LET t == [s EXCEPT !.m.tab[i] = e] IN
         /\ Still(s, t) /\ t.k = s.k /\ t.m.tab = [s.m.tab EXCEPT ![i] = e]
         /\ t.m.last = s.m.last
<1> DEFINE tab == [s.m.tab EXCEPT ![i] = e]
           t == [s EXCEPT !.m.tab[i] = e]
<1>1. s \in StateType /\ s.m \in MasterType
  BY DEF Sound, StateType
<1>2. s.m.reap \in BOOLEAN
  BY <1>1 DEF MasterType
<1>3. t = [s EXCEPT !.m = [s.m EXCEPT !.tab = tab]]
  OBVIOUS
<1>4. [s.m EXCEPT !.tab = tab] = [s.m EXCEPT !.tab = tab, !.reap = s.m.reap]
  <2> HIDE DEF tab
  <2> QED BY <1>1 DEF MasterType
<1> HIDE DEF t
<1>6. t = [s EXCEPT !.m = [s.m EXCEPT !.tab = tab, !.reap = s.m.reap]]
  BY <1>3, <1>4
<1>7. EntrySet(s, i, e, s.m.reap, t)
  BY <1>2, <1>6 DEF EntrySet
<1>8. /\ Still(s, t) /\ t.k = s.k /\ t.m.tab = [s.m.tab EXCEPT ![i] = e]
      /\ t.m.last = s.m.last
  BY <1>7, EntrySetSound
<1> QED BY <1>8 DEF t

Commands == {"quit", "terminate", "kill", "reopen"}

\* kill() and the handlers of the child.
LEMMA KillType ==
  ASSUME NEW k \in KidType, NEW cmd \in Commands
  PROVE  LET c == Kill(k, cmd) IN
         /\ c \in KidType /\ c.slot = k.slot /\ c.kind = k.kind
         /\ c.st = "reaped" <=> k.st = "reaped"
         /\ c.mail = k.mail \/ c.mail = <<>>
<1>0. Empty \in [Slots -> Chans] /\ <<>> \in Seq(MessageType)
  BY DEF Empty, Chans, None
<1>1. CASE k.st # "running" \/ cmd = "reopen"
  BY <1>1 DEF Kill
<1>2. CASE k.st = "running" /\ cmd = "quit"
  <2>1. Kill(k, cmd) = [k EXCEPT !.quit = TRUE]
    BY <1>2 DEF Kill
  <2> QED BY <2>1 DEF KidType
<1>3. CASE k.st = "running" /\ cmd = "terminate"
  <2>1. Kill(k, cmd) = [k EXCEPT !.term = TRUE]
    BY <1>3 DEF Kill
  <2> QED BY <2>1 DEF KidType
<1>4. CASE k.st = "running" /\ cmd = "kill"
  <2>1. Kill(k, cmd) = [[k EXCEPT !.mail = <<>>, !.tbl = Empty] EXCEPT !.st = "zombie"]
    BY <1>4 DEF Kill, Closed
  <2> HIDE DEF Empty
  <2> QED BY <1>0, <1>4, <2>1 DEF KidType
<1> QED BY <1>1, <1>2, <1>3, <1>4 DEF Commands

\* One turn of the loop of ngx_signal_worker_processes().
LEMMA SignalOneSound ==
  ASSUME conf \in Scenarios, NEW s, Sound(s), NEW i \in Slots, NEW cmd \in Commands
  PROVE  Still(s, SignalOne(s, i, cmd))
<1> DEFINE e == s.m.tab[i]
           msg == [cmd |-> cmd, slot |-> i, chan |-> None]
           sent == [s EXCEPT !.k[e.chan].mail = Append(@, msg)]
           killed == [s EXCEPT !.k[e.pid] = Kill(@, cmd)]
           Exiting(t) == IF cmd = "reopen" THEN t
                         ELSE [t EXCEPT !.m.tab[i].exiting = TRUE]
<1>1. s \in StateType /\ s.m \in MasterType /\ s.k \in Seq(KidType)
  BY DEF Sound, StateType
<1>2. /\ s.m.tab \in [Slots -> ProcessType] /\ e \in ProcessType
      /\ s.m.last \in 0..conf.slots /\ Len(s.k) \in Nat /\ DOMAIN s.k = 1..Len(s.k)
  BY <1>1 DEF MasterType
<1>3. e.pid \in 0..Len(s.k) /\ e.chan <= Len(s.k) /\ e.chan \in Int
  BY <1>2 DEF Sound, Bounds, ProcessType, Chans, Stale
<1>4. ASSUME NEW t, Sound(t) PROVE Still(t, Exiting(t))
  <2>1. CASE cmd = "reopen"
    BY <2>1, <1>4, StillSelf
  <2>2. CASE cmd # "reopen"
    <3> DEFINE x == [t.m.tab[i] EXCEPT !.exiting = TRUE]
    <3>1. t \in StateType /\ t.m \in MasterType /\ t.m.tab[i] \in ProcessType
      BY <1>4 DEF Sound, StateType, MasterType
    <3>2. /\ x \in ProcessType /\ x.pid = t.m.tab[i].pid /\ x.kind = t.m.tab[i].kind
          /\ x.chan = t.m.tab[i].chan /\ x.detached = t.m.tab[i].detached
          /\ x.exited = t.m.tab[i].exited
      BY <3>1 DEF ProcessType
    <3>2a. t.m.tab[i].chan <= Len(t.k)
      BY <1>4 DEF Sound, Bounds
    <3>3. [t EXCEPT !.m.tab[i].exiting = TRUE] = [t EXCEPT !.m.tab[i] = x]
      OBVIOUS
    <3> HIDE DEF x
    <3>4. Still(t, [t EXCEPT !.m.tab[i] = x])
      BY <1>4, <3>2, <3>2a, FlagSound
    <3> QED BY <2>2, <3>3, <3>4
  <2> QED BY <2>1, <2>2
<1>5. CASE i >= s.m.last \/ e.detached \/ e.pid = None
           \/ (~e.just /\ e.exiting /\ cmd = "quit")
  <2>1. SignalOne(s, i, cmd) = s
    BY <1>5 DEF SignalOne
  <2> QED BY <2>1, StillSelf
<1>6. CASE ~(i >= s.m.last \/ e.detached \/ e.pid = None) /\ e.just
  <2> DEFINE x == [e EXCEPT !.just = FALSE]
  <2>1. SignalOne(s, i, cmd) = [s EXCEPT !.m.tab[i] = x]
    BY <1>6 DEF SignalOne
  <2>2. /\ x \in ProcessType /\ x.pid = e.pid /\ x.kind = e.kind
        /\ x.chan = e.chan /\ x.detached = e.detached /\ x.exited = e.exited
    BY <1>2 DEF ProcessType
  <2> HIDE DEF x
  <2>3. Still(s, [s EXCEPT !.m.tab[i] = x])
    BY <1>3, <2>2, FlagSound
  <2> QED BY <2>1, <2>3
<1>7. CASE /\ ~(i >= s.m.last \/ e.detached \/ e.pid = None) /\ ~e.just
           /\ ~(e.exiting /\ cmd = "quit")
  <2>1. CASE cmd # "kill" /\ Writable(s, e.chan)
    <3>1. SignalOne(s, i, cmd) = Exiting(sent)
      BY <1>7, <2>1 DEF SignalOne
    <3>2. e.chan \in DOMAIN s.k /\ Len(s.k[e.chan].mail) < conf.cap
      BY <1>2, <1>3, <2>1 DEF Writable
    <3> DEFINE k == s.k[e.chan]
               q == Append(k.mail, msg)
               c == [k EXCEPT !.mail = q]
    <3>3. k \in KidType /\ k.mail \in Seq(MessageType)
      <4>1. k \in KidType
        BY <3>2, <1>1
      <4> HIDE DEF k
      <4> QED BY <4>1 DEF KidType
    <3>4. msg \in MessageType
      BY <2>1 DEF MessageType, Chans, None, Commands
    <3>5. q \in Seq(MessageType) /\ Len(q) <= conf.cap
      <4>1. Len(k.mail) < conf.cap /\ conf.cap \in Nat
        BY <3>2, ConfOK
      <4> HIDE DEF k, msg
      <4> QED BY <3>3, <3>4, <4>1
    <3>6. sent = [s EXCEPT !.k = [s.k EXCEPT ![e.chan] = c]]
      OBVIOUS
    <3> HIDE DEF q, k
    <3>7. /\ c \in KidType /\ c.slot = k.slot /\ c.kind = k.kind /\ c.st = k.st
          /\ c.mail = q
      BY <3>3, <3>5 DEF KidType
    <3> HIDE DEF c, sent
    <3>8. KidChanged(s, e.chan, c, sent)
      BY <3>2, <3>5, <3>6, <3>7 DEF KidChanged, k
    <3>9. Still(s, sent) /\ Sound(sent)
      BY <3>8, KidChangedSound DEF Still, Onward
    <3>10. Still(sent, Exiting(sent))
      BY <3>9, <1>4
    <3> HIDE DEF Exiting
    <3> QED BY <3>1, <3>9, <3>10, StillTrans, SMTT(60)
  <2>2. CASE ~(cmd # "kill" /\ Writable(s, e.chan)) /\ s.k[e.pid].st = "reaped"
    <3> DEFINE x == [e EXCEPT !.exited = TRUE, !.exiting = FALSE]
               t == [s EXCEPT !.m = [s.m EXCEPT !.tab = [s.m.tab EXCEPT ![i] = x], !.reap = TRUE]]
    <3>1. SignalOne(s, i, cmd) = t
      BY <1>1, <1>7, <2>2 DEF SignalOne, StateType, MasterType
    <3>2. /\ x \in ProcessType /\ x.pid = e.pid /\ x.kind = e.kind
          /\ x.chan = e.chan /\ x.detached = e.detached
      BY <1>2 DEF ProcessType
    <3> HIDE DEF x
    <3>3. EntrySet(s, i, x, TRUE, t)
      BY <1>3, <2>2, <3>2 DEF EntrySet
    <3> HIDE DEF t
    <3> QED BY <3>1, <3>3, EntrySetSound
  <2>3. CASE ~(cmd # "kill" /\ Writable(s, e.chan)) /\ s.k[e.pid].st # "reaped"
    <3>1. SignalOne(s, i, cmd) = Exiting(killed)
      BY <1>7, <2>3 DEF SignalOne
    <3>2. e.pid \in DOMAIN s.k
      BY <1>2, <1>3, <1>7 DEF None
    <3> DEFINE k == s.k[e.pid]
               c == Kill(k, cmd)
    <3>3. k \in KidType /\ Len(k.mail) <= conf.cap
      BY <3>2, <1>1, SMTT(60) DEF Sound, Bounds
    <3>4. /\ c \in KidType /\ c.slot = k.slot /\ c.kind = k.kind
          /\ (c.st = "reaped" <=> k.st = "reaped")
          /\ (c.mail = k.mail \/ c.mail = <<>>)
      BY <3>3, KillType, SMTT(60)
    <3>5. killed = [s EXCEPT !.k = [s.k EXCEPT ![e.pid] = c]]
      OBVIOUS
    <3> HIDE DEF c, killed
    <3>6. Len(c.mail) <= conf.cap
      BY <3>3, <3>4, ConfOK, SMTT(60)
    <3>7. KidChanged(s, e.pid, c, killed)
      BY <3>2, <3>4, <3>5, <3>6 DEF KidChanged
    <3>8. Still(s, killed) /\ Sound(killed)
      BY <3>7, KidChangedSound DEF Still, Onward
    <3>9. Still(killed, Exiting(killed))
      BY <3>8, <1>4
    <3> HIDE DEF Exiting
    <3> QED BY <3>1, <3>8, <3>9, StillTrans, SMTT(60)
  <2> QED BY <2>1, <2>2, <2>3
<1> QED BY <1>5, <1>6, <1>7

\* ngx_signal_worker_processes()
LEMMA SignalWorkersSound ==
  ASSUME conf \in Scenarios, NEW s, Sound(s), NEW cmd \in Commands
  PROVE  Still(s, SignalWorkers(s, cmd))
<1> DEFINE N == conf.slots
           S == {x \in StateType : Still(s, x)}
           Do(x, n) == SignalOne(x, n - 1, cmd)
           run[n \in 0..N] == IF n = 0 THEN s ELSE Do(run[n - 1], n)
           g == [n \in 1..N |-> [x \in S |-> Do(x, n)]]
<1> HIDE DEF run
<1>1. SignalWorkers(s, cmd) = run[N]
  BY DEF SignalWorkers, run
<1>2. N \in Nat
  BY ConfOK
<1>3. s \in S
  BY StillSelf DEF Sound
<1>4. ASSUME NEW n \in 1..N, NEW x \in S PROVE Do(x, n) \in S
  <2>1. Sound(x) /\ Still(s, x) /\ n - 1 \in Slots
    BY ConfOK DEF Still, Onward
  <2>2. Still(x, Do(x, n))
    BY <2>1, SignalOneSound
  <2>3. Still(s, Do(x, n))
    BY <2>1, <2>2, StillTrans
  <2> QED BY <2>3 DEF Still, Onward, Sound
<1> HIDE DEF N, S, Do
<1>5. g \in [1..N -> [S -> S]] /\ \A n \in 1..N, x \in S : g[n][x] = Do(x, n)
  BY <1>4
<1> HIDE DEF g
<1>6. PICK f : IsLoop(f, N, S, s, g)
  BY <1>2, <1>3, <1>5, LoopExists
<1>7. f = [n \in 0..N |-> IF n = 0 THEN s ELSE Do(f[n - 1], n)]
  <2>1. \A n \in 0..N : n = 0 \/ (n \in 1..N /\ n - 1 \in 0..N)
    BY <1>2
  <2>2. \A n \in 1..N : f[n] = Do(f[n - 1], n)
    BY <1>5, <1>6, <2>1 DEF IsLoop
  <2> QED BY <2>1, <2>2, <1>6 DEF IsLoop
<1>8. run = [n \in 0..N |-> IF n = 0 THEN s ELSE Do(run[n - 1], n)]
  BY <1>7, Zenon DEF run
<1>9. run[0] = s /\ \A n \in 1..N : run[n] = Do(run[n - 1], n)
  BY <1>2, <1>8
<1> DEFINE T == [n \in 0..N |-> S]
<1>10. \A n \in 0..N : run[n] \in T[n]
  <2>1. run[0] \in T[0]
    BY <1>2, <1>3, <1>9
  <2>2. \A n \in 1..N : run[n - 1] \in T[n - 1] => run[n] \in T[n]
    BY <1>2, <1>4, <1>9
  <2> HIDE DEF T
  <2> QED BY <2>1, <2>2, <1>2, LoopInvariant
<1>11. run[N] \in S
  BY <1>2, <1>10
<1> QED BY <1>1, <1>11 DEF S

(***************************************************************************)
(* Reaping                                                                 *)
(***************************************************************************)

\* The channel of an exited child is closed and the others are told.
LEMMA CloseChannelsSound ==
  ASSUME conf \in Scenarios, NEW s, Sound(s), NEW i \in Slots
  PROVE  LET t == CloseChannels(s, i)
             e == s.m.tab[i]
             x == t.m.tab[i]
         IN /\ Still(s, t) /\ t.m.last = s.m.last /\ x.pid = e.pid
            /\ x.exited = e.exited
<1> DEFINE t == CloseChannels(s, i)
           e == s.m.tab[i]
           x == [e EXCEPT !.chan = None]
           u == [s EXCEPT !.m.tab[i] = x]
           to == {n \in 0..(u.m.last - 1) : /\ ~u.m.tab[n].exited
                                            /\ u.m.tab[n].pid # None
                                            /\ u.m.tab[n].chan # None}
           msg == CloseMsg(u, i)
<1>1. s \in StateType /\ s.m \in MasterType /\ s.k \in Seq(KidType) /\ Len(s.k) \in Nat
  BY DEF Sound, StateType
<1>2. s.m.tab \in [Slots -> ProcessType] /\ e \in ProcessType
  BY <1>1 DEF MasterType
<1>3. CASE e.detached
  <2>1. t = s
    BY <1>3 DEF CloseChannels
  <2> QED BY <2>1, StillSelf
<1>4. CASE ~e.detached
  <2>1. t = Broadcast(u, to, msg)
    BY <1>4 DEF CloseChannels
  <2>2. /\ x \in ProcessType /\ x.pid = e.pid /\ x.kind = e.kind /\ x.chan = None
        /\ x.detached = e.detached /\ x.exited = e.exited
    BY <1>2 DEF ProcessType, Chans, None
  <2> HIDE DEF x
  <2>3. x.chan <= Len(s.k)
    BY <2>2, <1>1 DEF None
  <2>4. /\ Still(s, u) /\ u.k = s.k /\ u.m.tab = [s.m.tab EXCEPT ![i] = x]
        /\ u.m.last = s.m.last
    BY <2>2, <2>3, FlagSound
  <2> HIDE DEF u, t
  <2>5. Sound(u) /\ u \in StateType /\ u.m \in MasterType /\ u.chfd \in Chans
    BY <2>4 DEF Still, Onward, Sound, StateType
  <2>6. u.m.last \in 0..conf.slots
    BY <2>5 DEF MasterType
  <2>7. to \in SUBSET Slots
    BY <2>6, ConfOK
  <2>8. msg \in MessageType
    BY <2>5 DEF CloseMsg, MessageType, Chans, None
  <2> HIDE DEF to, msg
  <2>9. Sound(t) /\ t.m = u.m /\ KidsKept(u.k, t.k) /\ t.failed = u.failed
    BY <2>1, <2>5, <2>7, <2>8, BroadcastSound
  <2>10. Still(u, t)
    BY <2>9 DEF Still, Onward, FlagsKept
  <2>11. Still(s, t)
    BY <2>4, <2>10, StillTrans
  <2>12. t.m.tab[i] = x
    BY <2>4, <2>9, <1>2
  <2> QED BY <2>2, <2>4, <2>9, <2>11, <2>12 DEF t
<1> QED BY <1>3, <1>4

\* An entry whose child was waited for is given up.
LEMMA FreeEntrySound ==
  ASSUME conf \in Scenarios, NEW s, Sound(s), NEW i \in 0..(s.m.last - 1),
         s.m.tab[i].exited, s.m.tab[i].pid # None
  PROVE  LET t == FreeEntry(s, i) IN
         /\ Sound(t) /\ FlagsKept(s, t) /\ t.m.live = s.m.live /\ t.k = s.k
<1> DEFINE t == FreeEntry(s, i)
<1>1. s \in StateType /\ s.m \in MasterType /\ s.k \in Seq(KidType)
  BY DEF Sound, StateType
<1>2. /\ s.m.tab \in [Slots -> ProcessType] /\ s.m.last \in 0..conf.slots
      /\ Len(s.k) \in Nat /\ DOMAIN s.k = 1..Len(s.k) /\ i \in Slots
  BY <1>1, ConfOK, SMTT(60) DEF MasterType
<1>3. \A p \in DOMAIN s.k : s.k[p].st # "reaped" => s.k[p].slot # i
  BY DEF Sound, TableOK
<1>4. \A p \in DOMAIN s.k : s.k[p].slot \in Slots /\ s.k[p].slot \in Nat
  <2>1. \A p \in DOMAIN s.k : s.k[p] \in KidType
    BY <1>1
  <2>2. \A p \in DOMAIN s.k : s.k[p].slot \in Slots
    BY <2>1 DEF KidType
  <2> QED BY <2>2, ConfOK
<1>5. CASE i = s.m.last - 1
  <2> DEFINE n == s.m.last - 1
             m == [s.m EXCEPT !.last = n]
  <2>1. t = [s EXCEPT !.m = m]
    BY <1>5 DEF FreeEntry
  <2>2. n \in 0..conf.slots
    <3>1. conf.slots \in Nat /\ i \in Nat
      BY <1>2, ConfOK
    <3> QED BY <3>1, <1>2, <1>5
  <2> HIDE DEF n
  <2>3. /\ m \in MasterType /\ m.tab = s.m.tab /\ m.last = n /\ m.newBinary = s.m.newBinary
        /\ m.st = s.m.st /\ m.quit = s.m.quit /\ m.terminate = s.m.terminate
        /\ m.changeBinary = s.m.changeBinary /\ m.pidfile = s.m.pidfile /\ m.live = s.m.live
        /\ m.noaccepting = s.m.noaccepting /\ m.restart = s.m.restart
    BY <1>1, <2>2 DEF MasterType
  <2> HIDE DEF m, t
  <2>4. t \in StateType /\ t.m = m /\ t.k = s.k /\ t.failed = s.failed
    BY <1>1, <2>1, <2>3 DEF StateType
  <2>5. Bounds(m, s.k)
    BY <2>3 DEF Sound, Bounds
  <2>6. ASSUME NEW p \in DOMAIN s.k, s.k[p].st # "reaped"
        PROVE  s.k[p].slot < m.last /\ m.tab[s.k[p].slot].pid = p
    <3>1. s.k[p].slot < s.m.last /\ s.m.tab[s.k[p].slot].pid = p
      BY <2>6, SMTT(60) DEF Sound, TableOK
    <3> QED BY <3>1, <2>6, <1>2, <1>3, <1>4, <1>5, <2>3, SMTT(60) DEF n
  <2>7. TableOK(m, s.k)
    <3>1. \A j \in 0..(m.last - 1) : j \in 0..(s.m.last - 1)
      BY <1>2, <2>3 DEF n
    <3> QED BY <2>3, <2>6, <3>1, SMTT(60) DEF Sound, TableOK
  <2> QED BY <2>3, <2>4, <2>5, <2>7 DEF Sound, FlagsKept, t
<1>6. CASE i # s.m.last - 1
  <2> DEFINE e == [s.m.tab[i] EXCEPT !.pid = None]
             tab == [s.m.tab EXCEPT ![i] = e]
             m == [s.m EXCEPT !.tab = tab]
  <2>1. t = [s EXCEPT !.m = m]
    BY <1>6 DEF FreeEntry
  <2>2. e \in ProcessType /\ e.pid = None /\ e.chan = s.m.tab[i].chan
    BY <1>2 DEF ProcessType, None
  <2> HIDE DEF e
  <2>3. tab \in [Slots -> ProcessType] /\ \A j \in Slots : tab[j] = IF j = i THEN e ELSE s.m.tab[j]
    BY <1>2, <2>2
  <2> HIDE DEF tab
  <2>4. /\ m \in MasterType /\ m.tab = tab /\ m.last = s.m.last /\ m.newBinary = s.m.newBinary
        /\ m.st = s.m.st /\ m.quit = s.m.quit /\ m.terminate = s.m.terminate
        /\ m.changeBinary = s.m.changeBinary /\ m.pidfile = s.m.pidfile /\ m.live = s.m.live
        /\ m.noaccepting = s.m.noaccepting /\ m.restart = s.m.restart
    BY <1>1, <2>3 DEF MasterType
  <2> HIDE DEF m, t
  <2>5. t \in StateType /\ t.m = m /\ t.k = s.k /\ t.failed = s.failed
    BY <1>1, <2>1, <2>4 DEF StateType
  <2>6. Bounds(m, s.k)
    BY <1>2, <2>2, <2>3, <2>4, SMTT(60) DEF Sound, Bounds, None
  <2>7. ASSUME NEW p \in DOMAIN s.k, s.k[p].st # "reaped"
        PROVE  s.k[p].slot < m.last /\ m.tab[s.k[p].slot].pid = p
    BY <2>7, <1>3, <1>4, <2>3, <2>4 DEF Sound, TableOK
  <2>8. ASSUME NEW j \in 0..(m.last - 1), m.tab[j].pid # None
        PROVE  m.tab[j] = s.m.tab[j] /\ j \in 0..(s.m.last - 1)
    <3>1. j \in Slots
      BY <1>2, <2>4, ConfOK, SMTT(60)
    <3> QED BY <3>1, <2>2, <2>3, <2>4, <2>8
  <2>9. TableOK(m, s.k)
    BY <2>7, <2>8, SMTT(60) DEF Sound, TableOK
  <2> QED BY <2>4, <2>5, <2>6, <2>9 DEF Sound, FlagsKept, t
<1> QED BY <1>5, <1>6

\* Only flags of the master change.
LEMMA SameTable ==
  ASSUME NEW s, Sound(s), NEW t \in StateType, t.k = s.k, t.m.tab = s.m.tab,
         t.m.last = s.m.last, t.m.newBinary <= Len(s.k)
  PROVE  Sound(t)
BY SMTT(60) DEF Sound, Bounds, TableOK

\* The name of the pid file, as long as no fork failed.
PidOK(s) ==
  ~s.failed => s.m.pidfile = IF s.m.st = "exited" THEN "deleted"
                             ELSE IF s.m.newBinary # None THEN "oldbin" ELSE "pid"

\* The state x of ngx_reap_children() with n slots done, from the state s: if
\* no live child was found, those of the n slots are gone.
ReapedTo(s, x, n) ==
  /\ Sound(x)
  /\ x.m.st = s.m.st /\ x.m.quit = s.m.quit /\ x.m.terminate = s.m.terminate
  /\ x.m.changeBinary = s.m.changeBinary
  /\ s.failed => x.failed
  /\ x.m.newBinary # None => s.m.newBinary # None
  /\ PidOK(s) => PidOK(x)
  /\ s.m.quit \/ s.m.terminate => Len(x.k) = Len(s.k)
  /\ x.m.live \/ \A p \in DOMAIN x.k : x.k[p].st # "reaped" /\ x.k[p].slot < n
                                        => x.k[p].kind = "binary"

\* A step that keeps the children known so far, seen from the start.
LEMMA ReapedOn ==
  ASSUME NEW s, NEW x, NEW y, NEW n \in Nat, ReapedTo(s, x, n), Sound(y),
         y.m.st = x.m.st, y.m.quit = x.m.quit, y.m.terminate = x.m.terminate,
         y.m.changeBinary = x.m.changeBinary, x.failed => y.failed,
         y.m.newBinary # None => x.m.newBinary # None, PidOK(x) => PidOK(y),
         x.m.quit \/ x.m.terminate => Len(y.k) = Len(x.k),
         y.m.live \/ \A p \in DOMAIN y.k : y.k[p].st # "reaped" /\ y.k[p].slot < n + 1
                                            => y.k[p].kind = "binary"
  PROVE  ReapedTo(s, y, n + 1)
BY DEF ReapedTo

\* The children with slots up to i are new binaries, or gone.
Upto(x, i) ==
  \A p \in DOMAIN x.k : x.k[p].st # "reaped" /\ x.k[p].slot < i + 1
                         => x.k[p].kind = "binary"

LEMMA UptoNext ==
  ASSUME conf \in Scenarios, NEW s, NEW x, NEW i \in Nat, ReapedTo(s, x, i), ~x.m.live,
         \A p \in DOMAIN x.k : x.k[p].st # "reaped" /\ x.k[p].slot = i
                                => x.k[p].kind = "binary"
  PROVE  Upto(x, i)
<1>1. x.k \in Seq(KidType)
  BY DEF ReapedTo, Sound, StateType
<1>2. ASSUME NEW p \in DOMAIN x.k PROVE x.k[p].slot \in Nat
  <2>1. x.k[p] \in KidType
    BY <1>1
  <2>2. x.k[p].slot \in Slots
    BY <2>1 DEF KidType
  <2> QED BY <2>2, ConfOK
<1> QED BY <1>2 DEF ReapedTo, Upto

LEMMA ReapedStill ==
  ASSUME NEW s, NEW x, NEW y, NEW n, ReapedTo(s, x, n), Still(x, y)
  PROVE  ReapedTo(s, y, n)
<1>1. x.k \in Seq(KidType) /\ y.k \in Seq(KidType)
  BY DEF ReapedTo, Still, Onward, Sound, StateType
<1>2. DOMAIN y.k = DOMAIN x.k
  BY <1>1 DEF Still, KidsKept
<1>3. y.m.live \/ \A p \in DOMAIN y.k : y.k[p].st # "reaped" /\ y.k[p].slot < n
                                         => y.k[p].kind = "binary"
  BY <1>2 DEF ReapedTo, Still, Onward, KidsKept
<1>4. PidOK(x) => PidOK(y)
  BY DEF Still, Onward, FlagsKept, PidOK
<1> QED BY <1>3, <1>4 DEF ReapedTo, Still, Onward, FlagsKept, KidsKept

LEMMA NewBinaryGoneSound ==
  ASSUME NEW s, Sound(s)
  PROVE  LET t == NewBinaryGone(s) IN
         /\ Sound(t) /\ t.k = s.k /\ t.m.tab = s.m.tab /\ t.m.last = s.m.last
         /\ t.m.st = s.m.st /\ t.m.quit = s.m.quit /\ t.m.terminate = s.m.terminate
         /\ t.m.changeBinary = s.m.changeBinary /\ t.m.live = s.m.live
         /\ t.m.newBinary = None /\ t.m.pidfile = "pid" /\ t.failed = s.failed
<1> DEFINE t == NewBinaryGone(s)
           b == s.m.restart \/ s.m.noaccepting
           m == [s.m EXCEPT !.newBinary = None, !.pidfile = "pid",
                            !.restart = b, !.noaccepting = FALSE]
<1>1. s \in StateType /\ s.m \in MasterType /\ Len(s.k) \in Nat
  BY DEF Sound, StateType
<1>2. t = [s EXCEPT !.m = m]
  BY <1>1 DEF NewBinaryGone, StateType, MasterType
<1>3. b \in BOOLEAN
  BY <1>1 DEF MasterType
<1> HIDE DEF b, t
<1>4. /\ m \in MasterType /\ m.tab = s.m.tab /\ m.last = s.m.last
      /\ m.st = s.m.st /\ m.quit = s.m.quit /\ m.terminate = s.m.terminate
      /\ m.changeBinary = s.m.changeBinary /\ m.live = s.m.live
      /\ m.newBinary = None /\ m.pidfile = "pid"
  BY <1>1, <1>3, ZenonT(60) DEF MasterType, None
<1> HIDE DEF m
<1>5. t \in StateType /\ t.m = m /\ t.k = s.k /\ t.failed = s.failed
  BY <1>1, <1>2, <1>4 DEF StateType
<1>6. Sound(t)
  BY <1>1, <1>4, <1>5, SameTable DEF None
<1> QED BY <1>4, <1>5, <1>6 DEF t

\* One turn of the loop of ngx_reap_children().
LEMMA ReapOneSound ==
  ASSUME conf \in Scenarios, NEW s, NEW x, NEW i \in Slots, ReapedTo(s, x, i),
         x.m.st = "loop"
  PROVE  ReapedTo(s, ReapOne(x, i), i + 1)
<1> DEFINE e == x.m.tab[i]
           y == ReapOne(x, i)
           c == CloseChannels(x, i)
           r == Respawn(c, i)
           d == IF e.pid = x.m.newBinary THEN NewBinaryGone(c) ELSE c
<1>1. Sound(x) /\ x \in StateType /\ x.m \in MasterType /\ x.k \in Seq(KidType) /\ i \in Nat
  BY ConfOK DEF ReapedTo, Sound, StateType
<1>2. e \in ProcessType /\ x.m.last \in 0..conf.slots /\ Len(x.k) \in Nat /\ DOMAIN x.k = 1..Len(x.k)
  BY <1>1 DEF MasterType
<1>3. CASE i >= x.m.last \/ e.pid = None
  <2>1. y = x
    BY <1>3, SMTT(60) DEF ReapOne
  <2>2. \A p \in DOMAIN x.k : ~(x.k[p].st # "reaped" /\ x.k[p].slot = i)
    BY <1>1, <1>2, <1>3 DEF Sound, TableOK, None
  <2>3. x.m.live \/ Upto(x, i)
    BY <2>2, <1>1, UptoNext
  <2> HIDE DEF y
  <2>4. ReapedTo(s, x, i + 1)
    BY <2>3, <1>1, ReapedOn DEF Upto
  <2> QED BY <2>1, <2>4 DEF y
<1>4. CASE ~(i >= x.m.last \/ e.pid = None) /\ ~e.exited
  <2> DEFINE b == x.m.live \/ CountsLive(e)
             m == [x.m EXCEPT !.live = b]
  <2>1. y = [x EXCEPT !.m = m]
    BY <1>4 DEF ReapOne
  <2>2. b \in BOOLEAN
    BY <1>1, <1>2 DEF MasterType, ProcessType, CountsLive
  <2>3. b \/ (~x.m.live /\ e.detached)
    BY <1>2 DEF CountsLive, ProcessType
  <2> HIDE DEF b, y
  <2>4. /\ m \in MasterType /\ m.tab = x.m.tab /\ m.last = x.m.last
        /\ m.st = x.m.st /\ m.quit = x.m.quit /\ m.terminate = x.m.terminate
        /\ m.changeBinary = x.m.changeBinary /\ m.live = b
        /\ m.newBinary = x.m.newBinary /\ m.pidfile = x.m.pidfile
    BY <1>1, <2>2 DEF MasterType
  <2> HIDE DEF m
  <2>5. y \in StateType /\ y.m = m /\ y.k = x.k /\ y.failed = x.failed
    BY <1>1, <2>1, <2>4 DEF StateType
  <2>6. Sound(y)
    BY <1>1, <2>4, <2>5, SameTable DEF Sound, Bounds
  <2>7. ASSUME ~b PROVE Upto(x, i)
    <3>1. ~x.m.live /\ e.detached
      BY <2>3, <2>7
    <3>2. i \in 0..(x.m.last - 1)
      BY <1>1, <1>2, <1>4, SMTT(60)
    <3>3. e.kind = "binary" /\ e.kind = x.k[e.pid].kind
      BY <3>1, <3>2, <1>1, <1>4, SMTT(60) DEF Sound, TableOK
    <3>4. \A p \in DOMAIN x.k : x.k[p].st # "reaped" /\ x.k[p].slot = i
                                 => x.k[p].kind = "binary"
      BY <3>3, <1>1 DEF Sound, TableOK
    <3> QED BY <3>1, <3>4, <1>1, UptoNext
  <2>8. PidOK(x) => PidOK(y)
    BY <2>4, <2>5 DEF PidOK
  <2> QED BY <1>1, <2>4, <2>5, <2>6, <2>7, <2>8, ReapedOn DEF Upto, y
<1>5. CASE ~(i >= x.m.last \/ e.pid = None) /\ e.exited
  <2>1. /\ Still(x, c) /\ c.m.last = x.m.last /\ c.m.tab[i].pid = e.pid
        /\ c.m.tab[i].exited = e.exited
    BY <1>1, CloseChannelsSound
  <2>2. y = IF MayRespawn(c, i)
            THEN IF r.ok THEN PassOpenChannel([r EXCEPT !.chfd = r.m.tab[i].chan,
                                                        !.m.live = TRUE], i)
                 ELSE r
            ELSE FreeEntry(d, i)
    BY <1>5 DEF ReapOne
  <2> HIDE DEF y, c
  <2>3. ReapedTo(s, c, i)
    BY <2>1, ReapedStill
  <2>4. Sound(c) /\ c \in StateType /\ c.k \in Seq(KidType) /\ i \in 0..(c.m.last - 1)
    BY <1>1, <1>2, <1>5, <2>1, <2>3, SMTT(60) DEF ReapedTo, Sound, StateType
  <2>5. c.m.tab[i].pid # None /\ c.m.tab[i].exited
    BY <1>5, <2>1
  <2>6. \A p \in DOMAIN c.k : ~(c.k[p].st # "reaped" /\ c.k[p].slot = i)
    BY <2>4, <2>5 DEF Sound, TableOK
  <2>7. c.m.live \/ Upto(c, i)
    BY <2>3, <2>6, <1>1, UptoNext
  <2>8. CASE MayRespawn(c, i)
    <3>1. ~c.m.quit /\ ~c.m.terminate
      BY <2>8 DEF MayRespawn
    <3>2. /\ Sound(r) /\ FlagsKept(c, r) /\ r.m.live = c.m.live
          /\ (~r.ok => r.k = c.k /\ r.failed) /\ r.ok \in BOOLEAN
      BY <2>4, <2>5, RespawnSound
    <3> HIDE DEF r
    <3>3. CASE ~r.ok
      <4>1. y = r
        BY <2>2, <2>8, <3>3
      <4>2. PidOK(c) => PidOK(y)
        BY <4>1, <3>2 DEF PidOK, FlagsKept
      <4>3. y.m.live \/ Upto(y, i)
        BY <4>1, <3>2, <3>3, <2>7 DEF Upto
      <4> QED BY <1>1, <2>3, <3>1, <3>2, <3>3, <4>1, <4>2, <4>3, ReapedOn DEF FlagsKept, Upto, y
    <3>4. CASE r.ok
      <4> DEFINE h == r.m.tab[i].chan
                 m == [r.m EXCEPT !.live = TRUE]
                 q == [r EXCEPT !.chfd = h, !.m = m]
      <4>1. r \in StateType /\ r.m \in MasterType /\ r.m.tab[i] \in ProcessType
        BY <3>2 DEF Sound, StateType, MasterType
      <4>2. y = PassOpenChannel(q, i)
        BY <2>2, <2>8, <3>4
      <4>3. h \in Chans
        <5> DEFINE z == r.m.tab[i]
        <5>1. z \in ProcessType
          BY <4>1
        <5> HIDE DEF z
        <5>2. z.chan \in Chans
          BY <5>1 DEF ProcessType
        <5> QED BY <5>2 DEF z
      <4> HIDE DEF h
      <4>4. /\ m \in MasterType /\ m.tab = r.m.tab /\ m.last = r.m.last
            /\ m.st = r.m.st /\ m.quit = r.m.quit /\ m.terminate = r.m.terminate
            /\ m.changeBinary = r.m.changeBinary /\ m.live
            /\ m.newBinary = r.m.newBinary /\ m.pidfile = r.m.pidfile
        BY <4>1 DEF MasterType
      <4> HIDE DEF m
      <4>5. q \in StateType /\ q.m = m /\ q.k = r.k /\ q.failed = r.failed
        BY <4>1, <4>3, <4>4 DEF StateType
      <4> HIDE DEF q
      <4>6. Sound(q)
        BY <3>2, <4>4, <4>5, SameTable DEF Sound, Bounds
      <4>7. Sound(y) /\ y.m = q.m /\ y.failed = q.failed
        BY <4>2, <4>6, PassOpenChannelSound
      <4>8. PidOK(c) => PidOK(y)
        BY <3>2, <4>4, <4>5, <4>7 DEF PidOK, FlagsKept
      <4> QED BY <1>1, <2>3, <3>1, <3>2, <4>4, <4>5, <4>7, <4>8, ReapedOn DEF FlagsKept, y
    <3> QED BY <3>2, <3>3, <3>4
  <2>9. CASE ~MayRespawn(c, i)
    <3>1. y = FreeEntry(d, i)
      BY <2>2, <2>9
    <3>2. /\ Sound(d) /\ d.k = c.k /\ d.m.tab = c.m.tab /\ d.m.last = c.m.last
          /\ d.m.st = c.m.st /\ d.m.quit = c.m.quit /\ d.m.terminate = c.m.terminate
          /\ d.m.changeBinary = c.m.changeBinary /\ d.m.live = c.m.live
          /\ d.failed = c.failed
          /\ (d.m.newBinary # None => c.m.newBinary # None)
          /\ (c.m.st = "loop" /\ PidOK(c) => PidOK(d))
      <4>1. CASE e.pid = x.m.newBinary
        BY <4>1, <2>4, NewBinaryGoneSound DEF PidOK
      <4>2. CASE e.pid # x.m.newBinary
        BY <4>2, <2>4
      <4> QED BY <4>1, <4>2
    <3> HIDE DEF d
    <3>3. Sound(y) /\ FlagsKept(d, y) /\ y.m.live = d.m.live /\ y.k = d.k
      BY <2>4, <2>5, <3>1, <3>2, FreeEntrySound
    <3>4. c.m.st = "loop"
      BY <2>1 DEF Still, Onward, FlagsKept
    <3>5. PidOK(c) => PidOK(y)
      BY <3>2, <3>3, <3>4 DEF PidOK, FlagsKept
    <3>6. y.m.live \/ Upto(y, i)
      BY <3>2, <3>3, <2>7 DEF Upto
    <3>7. /\ y.m.st = c.m.st /\ y.m.quit = c.m.quit /\ y.m.terminate = c.m.terminate
          /\ y.m.changeBinary = c.m.changeBinary /\ (c.failed => y.failed)
          /\ (y.m.newBinary # None => c.m.newBinary # None) /\ y.k = c.k
      BY <3>2, <3>3 DEF FlagsKept
    <3>8. y.m.live \/ \A p \in DOMAIN y.k : y.k[p].st # "reaped" /\ y.k[p].slot < i + 1
                                             => y.k[p].kind = "binary"
      BY <3>6 DEF Upto
    <3> QED BY <1>1, <2>3, <3>3, <3>5, <3>7, <3>8, ReapedOn DEF y
  <2> QED BY <2>8, <2>9
<1> QED BY <1>2, <1>3, <1>4, <1>5

LEMMA ReapStartSound ==
  ASSUME conf \in Scenarios, NEW s, Sound(s)
  PROVE  ReapedTo(s, ReapStart(s), 0)
<1> DEFINE t == ReapStart(s)
           ex == {i \in 0..(s.m.last - 1) : s.m.tab[i].pid # None /\ s.m.tab[i].exited}
           b == s.double \/ Cardinality(ex) > 1
           m == [s.m EXCEPT !.live = FALSE, !.reap = FALSE]
<1>1. s \in StateType /\ s.m \in MasterType /\ s.k \in Seq(KidType)
  BY DEF Sound, StateType
<1>2. t = [s EXCEPT !.m = m, !.double = b]
  BY <1>1 DEF ReapStart, StateType, MasterType
<1>3. b \in BOOLEAN
  BY <1>1 DEF StateType
<1> HIDE DEF b, t
<1>4. /\ m \in MasterType /\ m.tab = s.m.tab /\ m.last = s.m.last
      /\ m.st = s.m.st /\ m.quit = s.m.quit /\ m.terminate = s.m.terminate
      /\ m.changeBinary = s.m.changeBinary
      /\ m.newBinary = s.m.newBinary /\ m.pidfile = s.m.pidfile
  BY <1>1 DEF MasterType
<1> HIDE DEF m
<1>5. t \in StateType /\ t.m = m /\ t.k = s.k /\ t.failed = s.failed
  BY <1>1, <1>2, <1>3, <1>4 DEF StateType
<1>6. Sound(t)
  BY <1>1, <1>4, <1>5, SameTable DEF Sound, Bounds
<1>7. \A p \in DOMAIN t.k : ~(t.k[p].slot < 0)
  <2>1. \A p \in DOMAIN s.k : s.k[p] \in KidType
    BY <1>1
  <2>2. \A p \in DOMAIN s.k : s.k[p].slot \in Slots
    BY <2>1 DEF KidType
  <2> QED BY <2>2, <1>5, ConfOK
<1>8. PidOK(s) => PidOK(t)
  BY <1>4, <1>5 DEF PidOK
<1> QED BY <1>4, <1>5, <1>6, <1>7, <1>8 DEF ReapedTo, t

\* ngx_reap_children(): if it says that nobody is live, all but new binaries
\* are gone.
LEMMA ReapChildrenSound ==
  ASSUME conf \in Scenarios, NEW s, Sound(s), s.m.st = "loop"
  PROVE  LET t == ReapChildren(s) IN
         /\ ReapedTo(s, t, conf.slots)
         /\ t.m.live \/ AllGone(t.k)
<1> DEFINE N == conf.slots
           S == StateType
           a == ReapStart(s)
           T == [n \in 0..N |-> {x \in S : ReapedTo(s, x, n)}]
           Do(x, n) == ReapOne(x, n - 1)
           run[n \in 0..N] == IF n = 0 THEN a ELSE Do(run[n - 1], n)
           g == [n \in 1..N |-> [x \in S |-> IF x \in T[n - 1] THEN Do(x, n) ELSE x]]
<1> HIDE DEF run
<1>1. ReapChildren(s) = run[N]
  BY DEF ReapChildren, run
<1>2. N \in Nat
  BY ConfOK
<1>3. a \in S /\ a \in T[0]
  BY <1>2, ReapStartSound DEF ReapedTo, Sound
<1>4. ASSUME NEW n \in 1..N, NEW x \in T[n - 1] PROVE Do(x, n) \in T[n]
  <2>1. n - 1 \in Slots /\ n - 1 \in 0..N /\ (n - 1) + 1 = n /\ n \in 0..N
    BY <1>2, ConfOK
  <2>2. ReapedTo(s, x, n - 1)
    BY <2>1
  <2>3. x.m.st = "loop"
    BY <2>2 DEF ReapedTo
  <2> DEFINE i == n - 1
  <2>4. ReapedTo(s, Do(x, n), i + 1)
    <3>1. i \in Slots /\ ReapedTo(s, x, i) /\ Do(x, n) = ReapOne(x, i)
      BY <2>1, <2>2
    <3> HIDE DEF i, Do
    <3> QED BY <3>1, <2>3, ReapOneSound
  <2>5. ReapedTo(s, Do(x, n), n)
    BY <2>1, <2>4
  <2> QED BY <2>1, <2>5 DEF ReapedTo, Sound
<1>5. \A n \in 0..N : T[n] \subseteq S /\ \A x \in T[n] : ReapedTo(s, x, n)
  OBVIOUS
<1> HIDE DEF N, S, Do, T, a
<1>6. /\ g \in [1..N -> [S -> S]]
      /\ \A n \in 1..N, x \in S : x \in T[n - 1] => g[n][x] = Do(x, n)
  <2>1. \A n \in 1..N, x \in S : (IF x \in T[n - 1] THEN Do(x, n) ELSE x) \in S
    BY <1>2, <1>4, <1>5
  <2> QED BY <2>1
<1> HIDE DEF g
<1>7. PICK f : IsLoop(f, N, S, a, g)
  BY <1>2, <1>3, <1>6, LoopExists
<1>8. f[0] = a /\ \A n \in 1..N : f[n - 1] \in S /\ f[n] = g[n][f[n - 1]]
  BY <1>2, <1>7 DEF IsLoop
<1>9. \A n \in 0..N : f[n] \in T[n]
  <2>1. f[0] \in T[0]
    BY <1>3, <1>8
  <2>2. \A n \in 1..N : f[n - 1] \in T[n - 1] => f[n] \in T[n]
    BY <1>4, <1>6, <1>8
  <2> QED BY <2>1, <2>2, <1>2, LoopInvariant
<1>10. f = [n \in 0..N |-> IF n = 0 THEN a ELSE Do(f[n - 1], n)]
  <2>1. \A n \in 0..N : n = 0 \/ (n \in 1..N /\ n - 1 \in 0..N)
    BY <1>2
  <2>2. \A n \in 1..N : f[n] = Do(f[n - 1], n)
    BY <1>2, <1>6, <1>8, <1>9
  <2> QED BY <2>1, <2>2, <1>7 DEF IsLoop
<1>11. run = [n \in 0..N |-> IF n = 0 THEN a ELSE Do(run[n - 1], n)]
  BY <1>10, Zenon DEF run
<1>12. run[0] = a /\ \A n \in 1..N : run[n] = Do(run[n - 1], n)
  BY <1>2, <1>11
<1>13. \A n \in 0..N : run[n] \in T[n]
  <2>1. run[0] \in T[0]
    BY <1>3, <1>12
  <2>2. \A n \in 1..N : run[n - 1] \in T[n - 1] => run[n] \in T[n]
    BY <1>4, <1>12
  <2> QED BY <2>1, <2>2, <1>2, LoopInvariant
<1> DEFINE t == ReapChildren(s)
<1>14. ReapedTo(s, t, N)
  BY <1>1, <1>2, <1>5, <1>13
<1> HIDE DEF t
<1>15. \A p \in DOMAIN t.k : t.k[p].slot < N
  <2>1. t.k \in Seq(KidType)
    BY <1>14 DEF ReapedTo, Sound, StateType
  <2>2. \A p \in DOMAIN t.k : t.k[p] \in KidType
    BY <2>1
  <2>3. \A p \in DOMAIN t.k : t.k[p].slot \in Slots
    BY <2>2 DEF KidType
  <2> QED BY <2>3, ConfOK DEF N
<1>16. t.m.live \/ AllGone(t.k)
  BY <1>14, <1>15 DEF ReapedTo, AllGone
<1> QED BY <1>14, <1>16 DEF t, N

(***************************************************************************)
(* A turn of the master                                                    *)
(***************************************************************************)

\* ngx_process_get_status()
LEMMA GetStatusSound ==
  ASSUME conf \in Scenarios, NEW s, Sound(s)
  PROVE  Still(s, GetStatus(s))
<1> DEFINE z == {p \in DOMAIN s.k : s.k[p].st = "zombie"}
           l == [p \in DOMAIN s.k |-> IF p \in z THEN Gone(s.k[p]) ELSE s.k[p]]
           x(i) == [s.m.tab[i] EXCEPT !.exited = TRUE,
                                      !.respawn = @ /\ ~s.k[s.m.tab[i].pid].code2]
           tab == [i \in Slots |-> IF i < s.m.last /\ s.m.tab[i].pid \in z
                                   THEN x(i) ELSE s.m.tab[i]]
           m == [s.m EXCEPT !.tab = tab]
           t == GetStatus(s)
<1>1. s \in StateType /\ s.m \in MasterType /\ s.k \in Seq(KidType)
  BY DEF Sound, StateType
<1>2. /\ s.m.tab \in [Slots -> ProcessType] /\ s.m.last \in 0..conf.slots
      /\ Len(s.k) \in Nat /\ DOMAIN s.k = 1..Len(s.k)
  BY <1>1 DEF MasterType
<1>3. t = [s EXCEPT !.k = l, !.m = m]
  BY <1>1 DEF GetStatus, StateType
<1>4. ASSUME NEW p \in DOMAIN s.k
      PROVE  /\ l[p] \in KidType /\ l[p].slot = s.k[p].slot /\ l[p].kind = s.k[p].kind
             /\ l[p].st = (IF p \in z THEN "reaped" ELSE s.k[p].st)
             /\ Len(l[p].mail) <= conf.cap
  <2> DEFINE k == s.k[p]
  <2>1. k \in KidType /\ Len(k.mail) <= conf.cap /\ conf.cap \in Nat
    BY <1>1, ConfOK DEF Sound, Bounds
  <2>2. Empty \in [Slots -> Chans] /\ <<>> \in Seq(MessageType) /\ Len(<<>>) = 0
    BY DEF Empty, Chans, None
  <2>3. l[p] = IF p \in z THEN Gone(k) ELSE k
    OBVIOUS
  <2> HIDE DEF k, l, Empty, z
  <2>4. /\ Gone(k) \in KidType /\ Gone(k).slot = k.slot /\ Gone(k).kind = k.kind
        /\ Gone(k).st = "reaped" /\ Gone(k).mail = <<>>
    BY <2>1, <2>2 DEF Gone, KidType
  <2> QED BY <2>1, <2>2, <2>3, <2>4 DEF k
<1>5. ASSUME NEW i \in Slots
      PROVE  /\ tab[i] \in ProcessType /\ tab[i].pid = s.m.tab[i].pid
             /\ tab[i].chan = s.m.tab[i].chan /\ tab[i].kind = s.m.tab[i].kind
             /\ tab[i].detached = s.m.tab[i].detached
             /\ tab[i].exited => s.m.tab[i].exited \/ s.m.tab[i].pid \in z
  <2> DEFINE e == s.m.tab[i]
             b == e.respawn /\ ~s.k[e.pid].code2
  <2>1. e \in ProcessType
    BY <1>2
  <2>2. x(i) = [e EXCEPT !.exited = TRUE, !.respawn = b] /\ b \in BOOLEAN
    BY <2>1 DEF ProcessType
  <2>3. tab[i] = IF i < s.m.last /\ e.pid \in z THEN x(i) ELSE e
    OBVIOUS
  <2> HIDE DEF b, e, z, tab, x
  <2>4. /\ x(i) \in ProcessType /\ x(i).pid = e.pid /\ x(i).chan = e.chan
        /\ x(i).kind = e.kind /\ x(i).detached = e.detached
    BY <2>1, <2>2 DEF ProcessType
  <2> QED BY <2>1, <2>3, <2>4 DEF e
<1> HIDE DEF l, t
<1>6. l \in Seq(KidType) /\ Len(l) = Len(s.k) /\ DOMAIN l = DOMAIN s.k
  <2>1. l \in [1..Len(s.k) -> KidType]
    BY <1>2, <1>4 DEF l
  <2> QED BY <2>1, <1>2, FunctionSeq
<1>7. tab \in [Slots -> ProcessType]
  BY <1>5
<1> HIDE DEF tab
<1>8. /\ m \in MasterType /\ m.tab = tab /\ m.last = s.m.last /\ m.newBinary = s.m.newBinary
      /\ m.st = s.m.st /\ m.quit = s.m.quit /\ m.terminate = s.m.terminate
      /\ m.changeBinary = s.m.changeBinary /\ m.pidfile = s.m.pidfile /\ m.live = s.m.live
      /\ m.noaccepting = s.m.noaccepting /\ m.restart = s.m.restart
  BY <1>1, <1>7, SMTT(60) DEF MasterType
<1> HIDE DEF m
<1>9. t \in StateType /\ t.m = m /\ t.k = l /\ t.failed = s.failed
  BY <1>1, <1>3, <1>6, <1>8 DEF StateType
<1>10. KidsKept(s.k, l)
  BY <1>4, <1>6 DEF KidsKept
<1>11. Bounds(m, l)
  BY <1>4, <1>5, <1>6, <1>8 DEF Sound, Bounds
<1>12. ASSUME NEW p \in DOMAIN l, l[p].st # "reaped"
       PROVE  l[p].slot < m.last /\ m.tab[l[p].slot].pid = p
  <2>1. s.k[p] \in KidType /\ s.k[p].st # "reaped" /\ l[p].slot = s.k[p].slot
    BY <1>1, <1>4, <1>6, <1>12
  <2>2. s.k[p].slot \in Slots
    BY <2>1, SMTT(60) DEF KidType
  <2>3. s.k[p].slot < s.m.last /\ s.m.tab[s.k[p].slot].pid = p
    BY <2>1, <1>6 DEF Sound, TableOK
  <2> QED BY <2>1, <2>2, <2>3, <1>5, <1>8
<1>13. ASSUME NEW i \in 0..(m.last - 1), m.tab[i].pid # None
       PROVE  /\ m.tab[i].exited => l[m.tab[i].pid].st = "reaped"
              /\ m.tab[i].kind = l[m.tab[i].pid].kind
              /\ m.tab[i].detached => m.tab[i].kind = "binary"
  <2> DEFINE e == s.m.tab[i]
  <2>1. i \in Slots /\ i \in 0..(s.m.last - 1)
    BY <1>2, <1>8, ConfOK
  <2>2. /\ m.tab[i].pid = e.pid /\ m.tab[i].kind = e.kind /\ m.tab[i].detached = e.detached
        /\ (m.tab[i].exited => e.exited \/ e.pid \in z)
    BY <2>1, <1>5, <1>8
  <2>3. e \in ProcessType /\ e.pid <= Len(s.k)
    BY <2>1, <1>2 DEF Sound, Bounds
  <2>4. e.pid \in Nat
    <3> HIDE DEF e
    <3> QED BY <2>3 DEF ProcessType
  <2>5. e.pid \in DOMAIN s.k
    BY <2>2, <2>3, <2>4, <1>2, <1>13, SMTT(60) DEF None
  <2>6. /\ (e.exited => s.k[e.pid].st = "reaped") /\ e.kind = s.k[e.pid].kind
        /\ (e.detached => e.kind = "binary")
    BY <2>1, <2>2, <1>13 DEF Sound, TableOK
  <2>7. /\ l[e.pid].kind = s.k[e.pid].kind
        /\ l[e.pid].st = (IF e.pid \in z THEN "reaped" ELSE s.k[e.pid].st)
    BY <2>5, <1>4
  <2> HIDE DEF e, z
  <2> QED BY <2>2, <2>6, <2>7
<1>14. TableOK(m, l)
  BY <1>12, <1>13 DEF TableOK
<1> QED BY <1>8, <1>9, <1>10, <1>11, <1>14 DEF Still, Onward, Sound, FlagsKept, t

\* The invariant inside a turn; u says that a binary upgrade was tried.
Good(u, s) ==
  /\ Sound(s) /\ PidOK(s)
  /\ u \/ s.m.live \/ AllGone(s.k)
  /\ s.m.newBinary # None \/ s.m.changeBinary => u
  /\ s.m.st = "exited" => ~s.m.live

\* A part of a turn: nobody is started once the master was told to stop.
Turned(u, s, t) ==
  /\ Good(u, t) /\ t.m.quit = s.m.quit /\ t.m.terminate = s.m.terminate
  /\ s.m.quit \/ s.m.terminate => Len(t.k) = Len(s.k)

LEMMA TurnedSelf ==
  ASSUME NEW u, NEW s, Good(u, s)
  PROVE  Turned(u, s, s)
BY DEF Turned

LEMMA TurnedTrans ==
  ASSUME NEW u, NEW s, NEW t, NEW v, Turned(u, s, t), Turned(u, t, v)
  PROVE  Turned(u, s, v)
BY DEF Turned

LEMMA GoneStill ==
  ASSUME NEW s, NEW t, Sound(s), Still(s, t), AllGone(s.k)
  PROVE  AllGone(t.k)
<1>1. s.k \in Seq(KidType) /\ t.k \in Seq(KidType)
  BY DEF Still, Onward, Sound, StateType
<1>2. DOMAIN s.k = DOMAIN t.k
  BY <1>1 DEF Still, KidsKept
<1> QED BY <1>2 DEF Still, KidsKept, AllGone

LEMMA StillGood ==
  ASSUME NEW u, NEW s, NEW t, Good(u, s), Still(s, t)
  PROVE  Turned(u, s, t)
<1>1. AllGone(s.k) => AllGone(t.k)
  BY GoneStill DEF Good
<1>2. PidOK(t)
  BY DEF Good, PidOK, Still, Onward, FlagsKept
<1> QED BY <1>1, <1>2 DEF Good, Turned, Still, Onward, FlagsKept, KidsKept

\* A state that differs in flags of the master only.
OnlyFlags(s, t) ==
  /\ t \in StateType /\ t.k = s.k /\ t.m.tab = s.m.tab /\ t.m.last = s.m.last
  /\ t.m.st = s.m.st /\ t.m.quit = s.m.quit /\ t.m.terminate = s.m.terminate
  /\ t.m.newBinary = s.m.newBinary /\ t.m.pidfile = s.m.pidfile
  /\ t.failed = s.failed

LEMMA OnlyFlagsSound ==
  ASSUME NEW s, Sound(s), NEW t, OnlyFlags(s, t)
  PROVE  Sound(t) /\ (PidOK(s) => PidOK(t))
<1>1. t.m.newBinary <= Len(s.k)
  BY DEF OnlyFlags, Sound, Bounds
<1>2. Sound(t)
  BY <1>1, SameTable DEF OnlyFlags
<1> QED BY <1>2 DEF OnlyFlags, PidOK

\* ngx_signal_handler()
LEMMA HandleSound ==
  ASSUME conf \in Scenarios, NEW u, NEW s, Good(u, s), "usr2" \in sigs => u
  PROVE  LET t == Handle(s) IN
         /\ Good(u, t) /\ t.m.st = s.m.st /\ Len(t.k) = Len(s.k)
<1> DEFINE b1 == s.m.quit \/ "quit" \in sigs
           b2 == s.m.terminate \/ "term" \in sigs
           b3 == s.m.reconfigure \/ "hup" \in sigs
           b4 == s.m.noaccept \/ "winch" \in sigs
           b5 == s.m.reopen \/ "usr1" \in sigs
           b6 == s.m.changeBinary \/ ("usr2" \in sigs /\ s.m.newBinary <= 0)
           b7 == s.m.sigalrm \/ "alrm" \in sigs
           b8 == s.m.reap \/ "chld" \in sigs
           n == [s.m EXCEPT !.quit = b1, !.terminate = b2, !.reconfigure = b3,
                            !.noaccept = b4]
           m == [n EXCEPT !.reopen = b5, !.changeBinary = b6, !.sigalrm = b7,
                          !.reap = b8]
           t == [s EXCEPT !.m = m]
           h == Handle(s)
<1>1. s \in StateType /\ s.m \in MasterType /\ s.k \in Seq(KidType) /\ Sound(s)
  BY DEF Good, Sound, StateType
<1>2. /\ b1 \in BOOLEAN /\ b2 \in BOOLEAN /\ b3 \in BOOLEAN /\ b4 \in BOOLEAN
      /\ b5 \in BOOLEAN /\ b6 \in BOOLEAN /\ b7 \in BOOLEAN /\ b8 \in BOOLEAN
  BY <1>1 DEF MasterType
<1>3. h = IF "chld" \in sigs THEN GetStatus(t) ELSE t
  BY <1>1 DEF Handle, StateType, MasterType
<1>4. b6 => u
  BY DEF Good
<1> HIDE DEF b1, b2, b3, b4, b5, b6, b7, b8, h
<1>4a. n \in MasterType
  BY <1>1, <1>2 DEF MasterType
<1>4b. /\ n.tab = s.m.tab /\ n.last = s.m.last /\ n.newBinary = s.m.newBinary
       /\ n.st = s.m.st /\ n.pidfile = s.m.pidfile /\ n.live = s.m.live
  BY <1>1 DEF MasterType
<1> HIDE DEF n
<1>5a. m \in MasterType
  BY <1>2, <1>4a DEF MasterType
<1>5. /\ m \in MasterType /\ m.tab = s.m.tab /\ m.last = s.m.last /\ m.newBinary = s.m.newBinary
      /\ m.st = s.m.st /\ m.changeBinary = b6 /\ m.pidfile = s.m.pidfile /\ m.live = s.m.live
  BY <1>5a, <1>4a, <1>4b DEF MasterType
<1> HIDE DEF m
<1>6. t \in StateType /\ t.m = m /\ t.k = s.k /\ t.failed = s.failed
  BY <1>1, <1>5 DEF StateType
<1> HIDE DEF t
<1>7. t.m.newBinary <= Len(s.k)
  BY <1>1, <1>5, <1>6 DEF Sound, Bounds
<1>8. Sound(t)
  BY <1>1, <1>5, <1>6, <1>7, SameTable
<1>9. PidOK(t)
  BY <1>5, <1>6 DEF Good, PidOK
<1>10. Good(u, t)
  BY <1>4, <1>5, <1>6, <1>8, <1>9 DEF Good
<1>11. CASE "chld" \in sigs
  <2>1. Still(t, h)
    BY <1>3, <1>8, <1>11, GetStatusSound
  <2>2. Good(u, h)
    BY <1>10, <2>1, StillGood DEF Turned
  <2> QED BY <1>5, <1>6, <2>1, <2>2 DEF h, Still, Onward, FlagsKept, KidsKept
<1>12. CASE "chld" \notin sigs
  BY <1>3, <1>5, <1>6, <1>10, <1>12 DEF h
<1> QED BY <1>11, <1>12

LEMMA ReapGood ==
  ASSUME conf \in Scenarios, NEW u, NEW s, Good(u, s), s.m.st = "loop"
  PROVE  LET t == ReapChildren(s) IN
         /\ Turned(u, s, t) /\ t.m.st = "loop"
<1> DEFINE t == ReapChildren(s)
<1>1. ReapedTo(s, t, conf.slots) /\ (t.m.live \/ AllGone(t.k))
  BY ReapChildrenSound DEF Good
<1> HIDE DEF t
<1> QED BY <1>1 DEF ReapedTo, Good, Turned, t

\* Starting children is harmless for a master that is live afterwards, or
\* when a binary upgrade was tried.
LEMMA OnwardGood ==
  ASSUME NEW u, NEW s, NEW t, Good(u, s), Onward(s, t), u \/ s.m.live,
         ~s.m.quit, ~s.m.terminate
  PROVE  Turned(u, s, t)
<1>1. PidOK(t)
  BY DEF Good, PidOK, Onward, FlagsKept
<1> QED BY <1>1 DEF Good, Turned, Onward, FlagsKept

LEMMA FlagsGood ==
  ASSUME NEW u, NEW s, NEW t, Good(u, s), OnlyFlags(s, t),
         t.m.live = s.m.live \/ (t.m.live /\ s.m.st = "loop"),
         t.m.changeBinary => s.m.changeBinary
  PROVE  Turned(u, s, t)
<1>1. Sound(t) /\ PidOK(t)
  BY OnlyFlagsSound DEF Good
<1> QED BY <1>1 DEF Good, Turned, OnlyFlags

LEMMA TerminateTurnGood ==
  ASSUME conf \in Scenarios, NEW u, NEW s, Good(u, s)
  PROVE  Turned(u, s, TerminateTurn(s))
<1> DEFINE d == IF s.m.delay = 0 THEN 50 ELSE s.m.delay
           m == [s.m EXCEPT !.delay = d]
           t == [s EXCEPT !.m = m]
           n1 == s.m.sigio - 1
           m1 == [m EXCEPT !.sigio = n1]
           t1 == [t EXCEPT !.m = m1]
           n2 == conf.workers + 2
           m2 == [m EXCEPT !.sigio = n2]
           t2 == [t EXCEPT !.m = m2]
           cmd == IF d > 1000 THEN "kill" ELSE "terminate"
           r == TerminateTurn(s)
<1>1. s \in StateType /\ s.m \in MasterType
  BY DEF Good, Sound, StateType
<1>2. d \in Nat /\ s.m.sigio \in Nat /\ n2 \in Nat /\ cmd \in Commands
  BY <1>1, ConfOK, SMTT(60) DEF MasterType, Commands
<1> HIDE DEF d, n1, n2, cmd
<1>3. /\ m \in MasterType /\ m.tab = s.m.tab /\ m.last = s.m.last
      /\ m.st = s.m.st /\ m.quit = s.m.quit /\ m.terminate = s.m.terminate
      /\ m.newBinary = s.m.newBinary /\ m.pidfile = s.m.pidfile
      /\ m.changeBinary = s.m.changeBinary /\ m.live = s.m.live
      /\ m.delay = d /\ m.sigio = s.m.sigio
  BY <1>1, <1>2 DEF MasterType
<1> HIDE DEF m
<1>4. t \in StateType /\ t.m = m /\ t.k = s.k /\ t.failed = s.failed
  BY <1>1, <1>3 DEF StateType
<1>5. r = IF s.m.sigio > 0 THEN t1 ELSE SignalWorkers(t2, cmd)
  <2>1. t = [s EXCEPT !.m.delay = IF @ = 0 THEN 50 ELSE @]
    BY DEF m, d
  <2> HIDE DEF t
  <2>2. r = IF t.m.sigio > 0 THEN [t EXCEPT !.m.sigio = @ - 1]
            ELSE SignalWorkers([t EXCEPT !.m.sigio = conf.workers + 2],
                               IF t.m.delay > 1000 THEN "kill" ELSE "terminate")
    BY <2>1 DEF TerminateTurn
  <2>3. [t EXCEPT !.m.sigio = @ - 1] = t1
    BY <1>3, <1>4 DEF n1
  <2>4. [t EXCEPT !.m.sigio = conf.workers + 2] = t2
    BY <1>4 DEF n2
  <2>5. (IF t.m.delay > 1000 THEN "kill" ELSE "terminate") = cmd
    BY <1>3, <1>4 DEF cmd
  <2> QED BY <2>2, <2>3, <2>4, <2>5, <1>3, <1>4
<1> HIDE DEF t, r
<1>6. CASE s.m.sigio > 0
  <2>1. n1 \in Nat
    BY <1>2, <1>6 DEF n1
  <2>2. /\ m1 \in MasterType /\ m1.tab = m.tab /\ m1.last = m.last
        /\ m1.st = m.st /\ m1.quit = m.quit /\ m1.terminate = m.terminate
        /\ m1.newBinary = m.newBinary /\ m1.pidfile = m.pidfile
        /\ m1.changeBinary = m.changeBinary /\ m1.live = m.live
    BY <1>3, <2>1 DEF MasterType
  <2> HIDE DEF m1
  <2>3. t1 \in StateType /\ t1.m = m1 /\ t1.k = t.k /\ t1.failed = t.failed
    BY <1>4, <2>2 DEF StateType
  <2> HIDE DEF t1
  <2>4. OnlyFlags(s, t1) /\ t1.m.live = s.m.live /\ t1.m.changeBinary = s.m.changeBinary
    BY <1>3, <1>4, <2>2, <2>3 DEF OnlyFlags
  <2> QED BY <1>5, <1>6, <2>4, FlagsGood DEF r
<1>7. CASE ~(s.m.sigio > 0)
  <2>2. /\ m2 \in MasterType /\ m2.tab = m.tab /\ m2.last = m.last
        /\ m2.st = m.st /\ m2.quit = m.quit /\ m2.terminate = m.terminate
        /\ m2.newBinary = m.newBinary /\ m2.pidfile = m.pidfile
        /\ m2.changeBinary = m.changeBinary /\ m2.live = m.live
    BY <1>2, <1>3 DEF MasterType
  <2> HIDE DEF m2
  <2>3. t2 \in StateType /\ t2.m = m2 /\ t2.k = t.k /\ t2.failed = t.failed
    BY <1>4, <2>2 DEF StateType
  <2> HIDE DEF t2
  <2>4. OnlyFlags(s, t2) /\ t2.m.live = s.m.live /\ t2.m.changeBinary = s.m.changeBinary
    BY <1>3, <1>4, <2>2, <2>3 DEF OnlyFlags
  <2>5. Turned(u, s, t2)
    BY <2>4, FlagsGood
  <2>6. Still(t2, r)
    BY <1>2, <1>5, <1>7, <2>5, SignalWorkersSound DEF Turned, Good
  <2>7. Turned(u, t2, r)
    BY <2>5, <2>6, StillGood DEF Turned
  <2> QED BY <2>5, <2>7, TurnedTrans DEF r
<1> QED BY <1>6, <1>7

LEMMA QuitTurnGood ==
  ASSUME conf \in Scenarios, NEW u, NEW s, Good(u, s)
  PROVE  Turned(u, s, QuitTurn(s))
<1> DEFINE t == SignalWorkers(s, "quit")
           m == [t.m EXCEPT !.listening = FALSE]
           r == [t EXCEPT !.m = m]
<1>1. QuitTurn(s) = r
  BY DEF QuitTurn
<1>2. Turned(u, s, t)
  <2>1. Still(s, t)
    BY SignalWorkersSound DEF Good, Commands
  <2> HIDE DEF t
  <2> QED BY <2>1, StillGood
<1> HIDE DEF t
<1>3. t \in StateType /\ t.m \in MasterType
  BY <1>2 DEF Turned, Good, Sound, StateType
<1>4. /\ m \in MasterType /\ m.tab = t.m.tab /\ m.last = t.m.last
      /\ m.st = t.m.st /\ m.quit = t.m.quit /\ m.terminate = t.m.terminate
      /\ m.newBinary = t.m.newBinary /\ m.pidfile = t.m.pidfile
      /\ m.changeBinary = t.m.changeBinary /\ m.live = t.m.live
  BY <1>3 DEF MasterType
<1> HIDE DEF m
<1>5. r \in StateType /\ r.m = m /\ r.k = t.k /\ r.failed = t.failed
  BY <1>3, <1>4 DEF StateType
<1> HIDE DEF r
<1>6. OnlyFlags(t, r) /\ r.m.live = t.m.live /\ r.m.changeBinary = t.m.changeBinary
  BY <1>4, <1>5 DEF OnlyFlags
<1>7. Turned(u, t, r)
  BY <1>2, <1>6, FlagsGood DEF Turned
<1> QED BY <1>1, <1>2, <1>7, TurnedTrans

\* With ngx_new_binary set the children are started in any case: an upgrade
\* was tried.
LEMMA ReconfigureNewBinaryGood ==
  ASSUME conf \in Scenarios, NEW u, NEW s, Good(u, s), s.m.newBinary # None,
         ~s.m.quit, ~s.m.terminate
  PROVE  Turned(u, s, ReconfigureNewBinary(s))
<1> DEFINE t == StartAll(s, FALSE)
           m == [t.m EXCEPT !.reconfigure = FALSE, !.noaccepting = FALSE]
           r == [t EXCEPT !.m = m]
<1>2. Turned(u, s, t)
  <2>1. Onward(s, t) /\ u
    BY StartAllSound DEF Good
  <2> HIDE DEF t
  <2> QED BY <2>1, OnwardGood
<1>1. ReconfigureNewBinary(s) = r
  <2>1. ReconfigureNewBinary(s) = [t EXCEPT !.m.reconfigure = FALSE, !.m.noaccepting = FALSE]
    BY DEF ReconfigureNewBinary
  <2> HIDE DEF t
  <2>2. t \in StateType /\ t.m \in MasterType
    BY <1>2 DEF Turned, Good, Sound, StateType
  <2> QED BY <2>1, <2>2 DEF StateType, MasterType
<1> HIDE DEF t
<1>3. t \in StateType /\ t.m \in MasterType
  BY <1>2 DEF Turned, Good, Sound, StateType
<1>4. /\ m \in MasterType /\ m.tab = t.m.tab /\ m.last = t.m.last
      /\ m.st = t.m.st /\ m.quit = t.m.quit /\ m.terminate = t.m.terminate
      /\ m.newBinary = t.m.newBinary /\ m.pidfile = t.m.pidfile
      /\ m.changeBinary = t.m.changeBinary /\ m.live = t.m.live
  BY <1>3 DEF MasterType
<1> HIDE DEF m
<1>5. r \in StateType /\ r.m = m /\ r.k = t.k /\ r.failed = t.failed
  BY <1>3, <1>4 DEF StateType
<1> HIDE DEF r
<1>6. OnlyFlags(t, r) /\ r.m.live = t.m.live /\ r.m.changeBinary = t.m.changeBinary
  BY <1>4, <1>5 DEF OnlyFlags
<1>7. Turned(u, t, r)
  BY <1>2, <1>6, FlagsGood DEF Turned
<1> QED BY <1>1, <1>2, <1>7, TurnedTrans

\* Other flags of the master.
MasterFlags(m, n) ==
  /\ n \in MasterType /\ n.tab = m.tab /\ n.last = m.last
  /\ n.st = m.st /\ n.quit = m.quit /\ n.terminate = m.terminate
  /\ n.newBinary = m.newBinary /\ n.pidfile = m.pidfile
  /\ n.changeBinary = m.changeBinary

LEMMA SetFlags ==
  ASSUME NEW s \in StateType, NEW n, MasterFlags(s.m, n)
  PROVE  LET t == [s EXCEPT !.m = n] IN OnlyFlags(s, t) /\ t.m = n
BY DEF MasterFlags, OnlyFlags, StateType

\* Children are started and the master is live.
LEMMA StartedGood ==
  ASSUME conf \in Scenarios, NEW u, NEW s, Good(u, s), s.m.st = "loop",
         ~s.m.quit, ~s.m.terminate, NEW again \in BOOLEAN
  PROVE  LET t == [StartAll(s, again) EXCEPT !.m.live = TRUE] IN
         Turned(u, s, t) /\ t.m.st = "loop"
<1> DEFINE a == StartAll(s, again)
           n == [a.m EXCEPT !.live = TRUE]
           t == [a EXCEPT !.m = n]
<1>1. [a EXCEPT !.m.live = TRUE] = t
  OBVIOUS
<1>2. Onward(s, a)
  BY StartAllSound DEF Good
<1> HIDE DEF a
<1>3. a \in StateType /\ a.m \in MasterType /\ Sound(a)
  BY <1>2 DEF Onward, Sound, StateType
<1>4. MasterFlags(a.m, n) /\ n.live
  BY <1>3 DEF MasterType, MasterFlags
<1> HIDE DEF n
<1>5. OnlyFlags(a, t) /\ t.m = n
  BY <1>3, <1>4, SetFlags
<1> HIDE DEF t
<1>6. PidOK(a)
  BY <1>2 DEF Good, PidOK, Onward, FlagsKept
<1>7. Sound(t) /\ PidOK(t)
  BY <1>3, <1>5, <1>6, OnlyFlagsSound
<1>8. Turned(u, s, t) /\ t.m.st = "loop"
  BY <1>2, <1>4, <1>5, <1>7 DEF Good, Turned, Onward, FlagsKept, OnlyFlags, MasterFlags
<1> QED BY <1>1, <1>8 DEF a

\* One signal to all.
LEMMA SignalGood ==
  ASSUME conf \in Scenarios, NEW u, NEW s, Good(u, s), NEW cmd \in Commands
  PROVE  LET t == SignalWorkers(s, cmd) IN Turned(u, s, t) /\ t.m.st = s.m.st
<1> DEFINE t == SignalWorkers(s, cmd)
<1>1. Still(s, t)
  BY SignalWorkersSound DEF Good
<1> HIDE DEF t
<1>2. Turned(u, s, t)
  BY <1>1, StillGood
<1> QED BY <1>1, <1>2 DEF t, Still, Onward, FlagsKept

LEMMA ReconfigureGood ==
  ASSUME conf \in Scenarios, NEW u, NEW s, Good(u, s), s.m.st = "loop",
         ~s.m.quit, ~s.m.terminate, NEW confOk \in BOOLEAN
  PROVE  LET t == Reconfigure(s, confOk) IN Turned(u, s, t) /\ t.m.st = "loop"
<1> DEFINE n == [s.m EXCEPT !.reconfigure = FALSE]
           a == [s EXCEPT !.m = n]
           b == [StartAll(a, TRUE) EXCEPT !.m.live = TRUE]
           c == SignalWorkers(b, "quit")
           t == Reconfigure(s, confOk)
<1>1. s \in StateType /\ s.m \in MasterType
  BY DEF Good, Sound, StateType
<1>2. MasterFlags(s.m, n) /\ n.live = s.m.live
  BY <1>1 DEF MasterType, MasterFlags
<1>3. t = IF confOk THEN c ELSE a
  BY DEF Reconfigure
<1> HIDE DEF n, t
<1>4. OnlyFlags(s, a) /\ a.m = n
  BY <1>1, <1>2, SetFlags
<1> HIDE DEF a
<1>5. Turned(u, s, a) /\ a.m.st = "loop"
  BY <1>2, <1>4, FlagsGood DEF MasterFlags
<1>6. ~a.m.quit /\ ~a.m.terminate /\ Good(u, a)
  BY <1>5 DEF Turned
<1>7. Turned(u, a, b) /\ b.m.st = "loop"
  BY <1>5, <1>6, StartedGood
<1> HIDE DEF b
<1>8. Turned(u, b, c) /\ c.m.st = "loop"
  BY <1>7, SignalGood DEF Turned, Commands
<1> HIDE DEF c
<1>9. Turned(u, s, c)
  BY <1>5, <1>7, <1>8, TurnedTrans
<1> QED BY <1>3, <1>5, <1>8, <1>9 DEF t

LEMMA RestartGood ==
  ASSUME conf \in Scenarios, NEW u, NEW s, Good(u, s), s.m.st = "loop",
         ~s.m.quit, ~s.m.terminate
  PROVE  LET t == Restart(s) IN Turned(u, s, t) /\ t.m.st = "loop"
<1> DEFINE n == [s.m EXCEPT !.restart = FALSE]
           a == [s EXCEPT !.m = n]
           b == [StartAll(a, FALSE) EXCEPT !.m.live = TRUE]
           t == Restart(s)
<1>1. s \in StateType /\ s.m \in MasterType
  BY DEF Good, Sound, StateType
<1>2. MasterFlags(s.m, n) /\ n.live = s.m.live
  BY <1>1 DEF MasterType, MasterFlags
<1>3. t = IF ~s.m.restart THEN s ELSE b
  BY DEF Restart
<1> HIDE DEF n, t
<1>4. OnlyFlags(s, a) /\ a.m = n
  BY <1>1, <1>2, SetFlags
<1> HIDE DEF a
<1>5. Turned(u, s, a) /\ a.m.st = "loop"
  BY <1>2, <1>4, FlagsGood DEF MasterFlags
<1>6. ~a.m.quit /\ ~a.m.terminate /\ Good(u, a)
  BY <1>5 DEF Turned
<1>7. Turned(u, a, b) /\ b.m.st = "loop"
  BY <1>5, <1>6, StartedGood
<1> HIDE DEF b
<1>8. Turned(u, s, b) /\ Turned(u, s, s)
  BY <1>5, <1>7, TurnedTrans, TurnedSelf
<1> QED BY <1>3, <1>7, <1>8 DEF t

LEMMA ReopenGood ==
  ASSUME conf \in Scenarios, NEW u, NEW s, Good(u, s), s.m.st = "loop"
  PROVE  LET t == Reopen(s) IN Turned(u, s, t) /\ t.m.st = "loop"
<1> DEFINE n == [s.m EXCEPT !.reopen = FALSE]
           a == [s EXCEPT !.m = n]
           b == SignalWorkers(a, "reopen")
           t == Reopen(s)
<1>1. s \in StateType /\ s.m \in MasterType
  BY DEF Good, Sound, StateType
<1>2. MasterFlags(s.m, n) /\ n.live = s.m.live
  BY <1>1 DEF MasterType, MasterFlags
<1>3. t = IF ~s.m.reopen THEN s ELSE b
  BY DEF Reopen
<1> HIDE DEF n, t
<1>4. OnlyFlags(s, a) /\ a.m = n
  BY <1>1, <1>2, SetFlags
<1> HIDE DEF a
<1>5. Turned(u, s, a) /\ a.m.st = "loop"
  BY <1>2, <1>4, FlagsGood DEF MasterFlags
<1>7. Turned(u, a, b) /\ b.m.st = "loop"
  BY <1>5, SignalGood, ZenonT(60) DEF Turned, Commands
<1> HIDE DEF b
<1>8. Turned(u, s, b) /\ Turned(u, s, s)
  BY <1>5, <1>7, TurnedTrans, TurnedSelf
<1> QED BY <1>3, <1>7, <1>8 DEF t

LEMMA NoAcceptGood ==
  ASSUME conf \in Scenarios, NEW u, NEW s, Good(u, s), s.m.st = "loop"
  PROVE  LET t == NoAccept(s) IN Turned(u, s, t) /\ t.m.st = "loop"
<1> DEFINE n == [s.m EXCEPT !.noaccept = FALSE, !.noaccepting = TRUE]
           a == [s EXCEPT !.m = n]
           b == SignalWorkers(a, "quit")
           t == NoAccept(s)
<1>1. s \in StateType /\ s.m \in MasterType
  BY DEF Good, Sound, StateType
<1>2. MasterFlags(s.m, n) /\ n.live = s.m.live
  BY <1>1 DEF MasterType, MasterFlags
<1>3. t = IF ~s.m.noaccept THEN s ELSE b
  BY <1>1 DEF NoAccept, StateType, MasterType
<1> HIDE DEF n, t
<1>4. OnlyFlags(s, a) /\ a.m = n
  BY <1>1, <1>2, SetFlags
<1> HIDE DEF a
<1>5. Turned(u, s, a) /\ a.m.st = "loop"
  BY <1>2, <1>4, FlagsGood DEF MasterFlags
<1>7. Turned(u, a, b) /\ b.m.st = "loop"
  BY <1>5, SignalGood, ZenonT(60) DEF Turned, Commands
<1> HIDE DEF b
<1>8. Turned(u, s, b) /\ Turned(u, s, s)
  BY <1>5, <1>7, TurnedTrans, TurnedSelf
<1> QED BY <1>3, <1>7, <1>8 DEF t

\* ngx_exec_new_binary(): the new binary is in the table, or the number says
\* that it was tried.
LEMMA ChangeBinaryGood ==
  ASSUME conf \in Scenarios, NEW u, NEW s, Good(u, s), s.m.st = "loop",
         ~s.m.quit, ~s.m.terminate
  PROVE  LET t == MaybeChangeBinary(s) IN Turned(u, s, t) /\ t.m.st = "loop"
<1>1. CASE ~s.m.changeBinary
  BY <1>1, TurnedSelf DEF MaybeChangeBinary
<1>2. CASE s.m.changeBinary
  <2> DEFINE n == [s.m EXCEPT !.changeBinary = FALSE]
             a == [s EXCEPT !.m = n]
             b == Spawn(a, "binary", "detached")
             pid == b.m.tab[b.slot].pid
             n1 == [b.m EXCEPT !.newBinary = pid, !.pidfile = "oldbin"]
             n2 == [b.m EXCEPT !.newBinary = InvalidPid]
             t == MaybeChangeBinary(s)
  <2>1. s \in StateType /\ s.m \in MasterType /\ u
    BY <1>2 DEF Good, Sound, StateType
  <2>2. /\ n \in MasterType /\ n.tab = s.m.tab /\ n.last = s.m.last
        /\ n.st = s.m.st /\ n.quit = s.m.quit /\ n.terminate = s.m.terminate
        /\ n.newBinary = s.m.newBinary /\ n.pidfile = s.m.pidfile
        /\ n.live = s.m.live
    BY <2>1 DEF MasterType
  <2>3. t = IF b.ok THEN [b EXCEPT !.m.newBinary = pid, !.m.pidfile = "oldbin"]
            ELSE [b EXCEPT !.m.newBinary = InvalidPid]
    BY <1>2 DEF MaybeChangeBinary, ChangeBinary
  <2> HIDE DEF n, t
  <2>4. a \in StateType /\ a.m = n /\ a.k = s.k /\ a.failed = s.failed
    BY <2>1, <2>2 DEF StateType
  <2> HIDE DEF a
  <2>5. Sound(a) /\ PidOK(a)
    <3>1. OnlyFlags(s, a)
      BY <2>2, <2>4, SMTT(60) DEF OnlyFlags
    <3> QED BY <3>1, OnlyFlagsSound DEF Good
  <2>6. /\ Onward(a, b) /\ b.ok \in BOOLEAN
        /\ (b.ok => pid = Len(b.k) /\ pid # None)
        /\ (~b.ok => b.failed)
    BY <2>5, SpawnTypesType, SpawnSound DEF Kinds
  <2> HIDE DEF b
  <2>7. b \in StateType /\ b.m \in MasterType /\ Sound(b) /\ Len(b.k) \in Nat
    BY <2>6 DEF Onward, Sound, StateType
  <2>8. CASE b.ok
    <3>1. pid \in Nat /\ pid # None /\ pid <= Len(b.k)
      BY <2>6, <2>7, <2>8
    <3>2. t = [b EXCEPT !.m = n1]
      BY <2>3, <2>7, <2>8 DEF StateType, MasterType
    <3> HIDE DEF pid
    <3>3. /\ n1 \in MasterType /\ n1.tab = b.m.tab /\ n1.last = b.m.last
          /\ n1.st = b.m.st /\ n1.quit = b.m.quit /\ n1.terminate = b.m.terminate
          /\ n1.newBinary = pid /\ n1.pidfile = "oldbin" /\ n1.live = b.m.live
      BY <2>7, <3>1 DEF MasterType
    <3> HIDE DEF n1
    <3>4. t \in StateType /\ t.m = n1 /\ t.k = b.k /\ t.failed = b.failed
      BY <2>7, <3>2, <3>3 DEF StateType
    <3>5. Sound(t)
      BY <2>7, <3>1, <3>3, <3>4, SameTable
    <3>6. n1.st = "loop" /\ n1.quit = s.m.quit /\ n1.terminate = s.m.terminate
      BY <2>2, <2>4, <2>6, <3>3 DEF Onward, FlagsKept
    <3> QED BY <2>1, <3>1, <3>3, <3>4, <3>5, <3>6 DEF Good, Turned, PidOK, t
  <2>9. CASE ~b.ok
    <3>1. t = [b EXCEPT !.m = n2]
      BY <2>3, <2>9
    <3>2. /\ n2 \in MasterType /\ n2.tab = b.m.tab /\ n2.last = b.m.last
          /\ n2.st = b.m.st /\ n2.quit = b.m.quit /\ n2.terminate = b.m.terminate
          /\ n2.newBinary = -1 /\ n2.live = b.m.live
      BY <2>7 DEF MasterType, InvalidPid
    <3> HIDE DEF n2
    <3>3. t \in StateType /\ t.m = n2 /\ t.k = b.k /\ t.failed = b.failed
      BY <2>7, <3>1, <3>2 DEF StateType
    <3>4. Sound(t)
      BY <2>7, <3>2, <3>3, SameTable
    <3>5. n2.st = "loop" /\ n2.quit = s.m.quit /\ n2.terminate = s.m.terminate
      BY <2>2, <2>4, <2>6, <3>2 DEF Onward, FlagsKept
    <3> QED BY <2>1, <2>6, <2>9, <3>2, <3>3, <3>4, <3>5 DEF Good, Turned, PidOK, t
  <2> QED BY <2>6, <2>8, <2>9
<1> QED BY <1>1, <1>2

\* ngx_master_process_exit()
LEMMA ExitGood ==
  ASSUME NEW u, NEW s, Good(u, s), s.m.st = "loop", ~s.m.live
  PROVE  Turned(u, s, Exit(s))
<1> DEFINE f == IF s.m.pidfile = (IF s.m.newBinary # None THEN "oldbin" ELSE "pid")
                THEN "deleted" ELSE s.m.pidfile
           n == [s.m EXCEPT !.st = "exited", !.listening = FALSE, !.pidfile = f]
           t == Exit(s)
<1>1. s \in StateType /\ s.m \in MasterType /\ Sound(s)
  BY DEF Good, Sound, StateType
<1>2. t = [s EXCEPT !.m = n]
  BY <1>1 DEF Exit, StateType, MasterType
<1>3. f \in {"pid", "oldbin", "deleted"} /\ (~s.failed => f = "deleted")
  BY <1>1 DEF MasterType, Good, PidOK
<1> HIDE DEF f, t
<1>4. /\ n \in MasterType /\ n.tab = s.m.tab /\ n.last = s.m.last
      /\ n.st = "exited" /\ n.quit = s.m.quit /\ n.terminate = s.m.terminate
      /\ n.newBinary = s.m.newBinary /\ n.pidfile = f
      /\ n.changeBinary = s.m.changeBinary /\ n.live = s.m.live
  BY <1>1, <1>3 DEF MasterType
<1> HIDE DEF n
<1>5. t \in StateType /\ t.m = n /\ t.k = s.k /\ t.failed = s.failed
  BY <1>1, <1>2, <1>4 DEF StateType
<1>6. Sound(t)
  <2>1. t.m.newBinary <= Len(s.k)
    BY <1>1, <1>4, <1>5 DEF Sound, Bounds
  <2> QED BY <1>1, <1>4, <1>5, <2>1, SameTable
<1> QED BY <1>3, <1>4, <1>5, <1>6 DEF Good, Turned, PidOK, t

\* The body of the loop.
LEMMA BodyGood ==
  ASSUME conf \in Scenarios, NEW u, NEW s, Good(u, s), s.m.st = "loop",
         NEW confOk \in BOOLEAN
  PROVE  Turned(u, s, Body(s, confOk))
<1> DEFINE b == Body(s, confOk)
<1>1. CASE ~s.m.live /\ (s.m.terminate \/ s.m.quit)
  BY <1>1, ExitGood DEF Body
<1>2. CASE ~(~s.m.live /\ (s.m.terminate \/ s.m.quit)) /\ s.m.terminate
  BY <1>2, TerminateTurnGood DEF Body
<1>3. CASE ~(~s.m.live /\ (s.m.terminate \/ s.m.quit)) /\ ~s.m.terminate /\ s.m.quit
  BY <1>3, QuitTurnGood DEF Body
<1>4. CASE ~s.m.terminate /\ ~s.m.quit
  <2>1. CASE s.m.reconfigure /\ s.m.newBinary # None
    BY <1>4, <2>1, ReconfigureNewBinaryGood DEF Body
  <2>2. CASE ~(s.m.reconfigure /\ s.m.newBinary # None) /\ s.m.reconfigure /\ ~confOk
    BY <1>4, <2>2, ReconfigureGood DEF Body
  <2>3. CASE ~(s.m.reconfigure /\ s.m.newBinary # None) /\ ~(s.m.reconfigure /\ ~confOk)
    <3> DEFINE s1 == IF s.m.reconfigure THEN Reconfigure(s, TRUE) ELSE s
               s2 == Restart(s1)
               s3 == Reopen(s2)
               s4 == MaybeChangeBinary(s3)
               s5 == NoAccept(s4)
    <3>1. b = s5
      BY <1>4, <2>3 DEF Body
    <3>2. Turned(u, s, s1) /\ s1.m.st = "loop"
      BY <1>4, ReconfigureGood, TurnedSelf
    <3> HIDE DEF s1, b
    <3>3. Good(u, s1) /\ ~s1.m.quit /\ ~s1.m.terminate
      BY <1>4, <3>2 DEF Turned
    <3>4. Turned(u, s1, s2) /\ s2.m.st = "loop"
      BY <3>2, <3>3, RestartGood
    <3> HIDE DEF s2
    <3>5. Good(u, s2) /\ ~s2.m.quit /\ ~s2.m.terminate
      BY <3>3, <3>4 DEF Turned
    <3>6. Turned(u, s2, s3) /\ s3.m.st = "loop"
      BY <3>4, <3>5, ReopenGood
    <3> HIDE DEF s3
    <3>7. Good(u, s3) /\ ~s3.m.quit /\ ~s3.m.terminate
      BY <3>5, <3>6 DEF Turned
    <3>8. Turned(u, s3, s4) /\ s4.m.st = "loop"
      BY <3>6, <3>7, ChangeBinaryGood
    <3> HIDE DEF s4
    <3>9. Good(u, s4)
      BY <3>8 DEF Turned
    <3>10. Turned(u, s4, s5)
      BY <3>8, <3>9, NoAcceptGood
    <3> HIDE DEF s5
    <3>11. Turned(u, s, s3)
      BY <3>2, <3>4, <3>6, TurnedTrans
    <3>12. Turned(u, s, s5)
      BY <3>8, <3>10, <3>11, TurnedTrans
    <3> QED BY <3>1, <3>12 DEF b
  <2> QED BY <2>1, <2>2, <2>3
<1>5. s.m.quit \in BOOLEAN /\ s.m.terminate \in BOOLEAN
  BY DEF Good, Sound, StateType, MasterType
<1> QED BY <1>1, <1>2, <1>3, <1>4, <1>5

LEMMA TopGood ==
  ASSUME NEW u, NEW s, Good(u, s)
  PROVE  Turned(u, s, Top(s))
<1>1. CASE ~(s.m.delay > 0 /\ s.m.sigalrm)
  BY <1>1, TurnedSelf DEF Top
<1>2. CASE s.m.delay > 0 /\ s.m.sigalrm
  <2> DEFINE d == IF s.m.delay < 1600 THEN s.m.delay * 2 ELSE s.m.delay
             n == [s.m EXCEPT !.sigio = 0, !.sigalrm = FALSE, !.delay = d]
             t == [s EXCEPT !.m = n]
  <2>1. s \in StateType /\ s.m \in MasterType
    BY DEF Good, Sound, StateType
  <2>2. Top(s) = t
    BY <1>2, <2>1 DEF Top, StateType, MasterType
  <2>3. d \in Nat
    <3>1. s.m.delay \in Nat
      BY <2>1 DEF MasterType
    <3> QED BY <3>1
  <2> HIDE DEF d
  <2>4. MasterFlags(s.m, n) /\ n.live = s.m.live
    BY <2>1, <2>3 DEF MasterType, MasterFlags
  <2> HIDE DEF n
  <2>5. OnlyFlags(s, t) /\ t.m = n
    BY <2>1, <2>4, SetFlags
  <2> HIDE DEF t
  <2>6. Turned(u, s, t)
    BY <2>4, <2>5, FlagsGood DEF MasterFlags
  <2> QED BY <2>2, <2>6
<1> QED BY <1>1, <1>2

(***************************************************************************)
(* The invariant                                                           *)
(***************************************************************************)

\* What counts as a binary upgrade that was tried.
Upgraded == used["usr2"] > 0

\* The invariant: the table is sound (TableOK); unless an upgrade was tried, a
\* master that counts nobody as live has no child left; ngx_new_binary and the
\* pending upgrade come from a SIGUSR2; and the pid file has its name.
IInv ==
  /\ TypeOK
  /\ TableOK(master, kids)
  /\ Upgraded \/ master.live \/ AllGone(kids)
  /\ master.newBinary # None \/ master.changeBinary \/ "usr2" \in sigs => Upgraded
  /\ ~hist.failed =>
       master.pidfile = IF master.st = "exited" THEN "deleted"
                        ELSE IF master.newBinary # None THEN "oldbin" ELSE "pid"
  /\ master.st = "exited" => ~master.live

LEMMA StateGood ==
  ASSUME IInv, NEW failAt \in Nat
  PROVE  LET s == State(failAt) IN
         Good(Upgraded, s) /\ s.m = master /\ s.k = kids /\ s.failed = hist.failed
<1> DEFINE s == State(failAt)
<1>1. /\ s.m = master /\ s.k = kids /\ s.failed = hist.failed
      /\ s.slot = 0 /\ s.chfd = None /\ s.forks = 0 /\ s.failAt = failAt /\ s.ok = TRUE
      /\ s.lost = hist.lost /\ s.double = hist.double
  BY DEF State
<1>2. 0 \in Slots /\ None \in Chans
  <2>1. conf \in Scenarios
    BY DEF IInv, TypeOK
  <2> QED BY <2>1, ConfOK DEF None, Chans
<1>3. s \in StateType
  BY <1>2 DEF IInv, TypeOK, StateType, State
<1>4. Sound(s)
  BY <1>1, <1>3 DEF Sound, IInv, TypeOK, Bounds
<1> HIDE DEF s
<1>5. Good(Upgraded, s)
  BY <1>1, <1>4 DEF Good, PidOK, IInv
<1> QED BY <1>1, <1>5 DEF s

\* The end of a turn.
LEMMA TurnInv ==
  ASSUME IInv, Turn
  PROVE  /\ IInv'
         /\ master'.quit \/ master'.terminate => Len(kids') = Len(kids)
<1>1. PICK failAt \in 0..(conf.workers + 2), confOk \in BOOLEAN : Wake(failAt, confOk)
  BY DEF Turn
<1>2. conf \in Scenarios /\ used \in [Events -> Nat]
  BY DEF IInv, TypeOK
<1> DEFINE u == Upgraded
           s0 == State(failAt)
           s == Handle(s0)
           r == IF s.m.reap THEN ReapChildren(s) ELSE s
           b == Body(r, confOk)
           t == Top(b)
<1>3. /\ master.st = "loop" /\ conf' = conf /\ master' = t.m /\ kids' = t.k
      /\ hist' = [lost |-> t.lost, double |-> t.double, failed |-> t.failed]
      /\ sigs' \in {{"chld"}, {}}
      /\ used' = used \/ Use("fork") \/ Use("badconf")
  BY <1>1 DEF Wake
<1>4. Good(u, s0) /\ s0.m = master /\ s0.k = kids
  <2>1. failAt \in Nat
    OBVIOUS
  <2> QED BY <2>1, StateGood
<1>5. "usr2" \in sigs => u
  BY DEF IInv
<1> HIDE DEF s0, u
<1>6. Good(u, s) /\ s.m.st = "loop" /\ Len(s.k) = Len(kids)
  BY <1>2, <1>3, <1>4, <1>5, HandleSound
<1> HIDE DEF s
<1>7. Turned(u, s, r) /\ r.m.st = "loop"
  BY <1>2, <1>6, ReapGood, TurnedSelf
<1> HIDE DEF r
<1>8. Turned(u, r, b)
  BY <1>2, <1>7, BodyGood DEF Turned
<1> HIDE DEF b
<1>9. Turned(u, b, t)
  BY <1>8, TopGood DEF Turned
<1> HIDE DEF t
<1>10. Turned(u, s, t)
  BY <1>7, <1>8, <1>9, TurnedTrans
<1>11. Upgraded' = u /\ used' \in [Events -> Nat]
  BY <1>2, <1>3 DEF Use, Events, Upgraded, u
<1>12. t \in StateType /\ Bounds(t.m, t.k) /\ TableOK(t.m, t.k)
  BY <1>10 DEF Turned, Good, Sound
<1>13. hist' \in [lost : BOOLEAN, double : BOOLEAN, failed : BOOLEAN] /\ hist'.failed = t.failed
  BY <1>3, <1>12 DEF StateType
<1>14. TypeOK'
  <2>1. master' \in MasterType' /\ kids' \in Seq(KidType')
    BY <1>3, <1>12 DEF StateType, MasterType, KidType, MessageType, Slots
  <2>2. /\ \A i \in Slots' : /\ master'.tab[i].pid <= Len(kids')
                             /\ master'.tab[i].chan <= Len(kids')
        /\ master'.newBinary <= Len(kids')
        /\ \A p \in DOMAIN kids' : Len(kids'[p].mail) <= conf'.cap
    BY <1>3, <1>12 DEF Bounds, Slots
  <2> QED BY <1>2, <1>3, <1>11, <1>13, <2>1, <2>2 DEF TypeOK
<1>15. "usr2" \notin sigs'
  BY <1>3, SMTT(60)
<1>16. IInv'
  BY <1>3, <1>10, <1>11, <1>12, <1>13, <1>14, <1>15 DEF IInv, Turned, Good, PidOK, TableOK, AllGone
<1>17. master'.quit \/ master'.terminate => Len(kids') = Len(kids)
  BY <1>3, <1>6, <1>10 DEF Turned
<1> QED BY <1>16, <1>17

(***************************************************************************)
(* The children                                                            *)
(***************************************************************************)

\* ngx_channel_handler() changes what the child knows, not the child.
LEMMA ReceiveAllType ==
  ASSUME conf \in Scenarios, NEW k \in KidType
  PROVE  LET c == ReceiveAll(k) IN
         /\ c \in KidType /\ c.slot = k.slot /\ c.kind = k.kind /\ c.st = k.st
         /\ c.mail = <<>> /\ c.code2 = k.code2
<1> DEFINE N == Len(k.mail)
           S == {x \in KidType : /\ x.slot = k.slot /\ x.kind = k.kind
                             /\ x.st = k.st /\ x.code2 = k.code2}
           Do(x, n) == Receive(x, k.mail[n])
           run[n \in 0..N] == IF n = 0 THEN k ELSE Do(run[n - 1], n)
           g == [n \in 1..N |-> [x \in S |-> Do(x, n)]]
<1> HIDE DEF run
<1>1. ReceiveAll(k) = [run[N] EXCEPT !.mail = <<>>]
  BY DEF ReceiveAll, run
<1>2. k.mail \in Seq(MessageType) /\ N \in Nat
  <2>1. k.mail \in Seq(MessageType)
    BY DEF KidType
  <2> QED BY <2>1
<1>3. k \in S
  OBVIOUS
<1>4. ASSUME NEW n \in 1..N, NEW x \in S PROVE Do(x, n) \in S
  <2> DEFINE msg == k.mail[n]
  <2>1. msg \in MessageType
    BY <1>2
  <2> HIDE DEF msg
  <2>2. /\ msg.cmd \in {"open", "close", "quit", "terminate", "reopen"}
        /\ msg.slot \in Slots /\ msg.chan \in Chans /\ None \in Chans
    BY <2>1 DEF MessageType, Chans, None
  <2>3. x \in KidType /\ x.tbl \in [Slots -> Chans]
    BY DEF KidType
  <2>4. CASE msg.cmd = "quit"
    <3>1. Receive(x, msg) = [x EXCEPT !.quit = TRUE]
      BY <2>4 DEF Receive
    <3> QED BY <3>1 DEF KidType, msg
  <2>5. CASE msg.cmd = "terminate"
    <3>1. Receive(x, msg) = [x EXCEPT !.term = TRUE]
      BY <2>5 DEF Receive
    <3> QED BY <3>1 DEF KidType, msg
  <2>6. CASE msg.cmd = "open"
    <3> DEFINE tbl == [x.tbl EXCEPT ![msg.slot] = msg.chan]
    <3>1. Receive(x, msg) = [x EXCEPT !.tbl = tbl]
      BY <2>6 DEF Receive
    <3>2. tbl \in [Slots -> Chans]
      BY <2>2, <2>3
    <3> HIDE DEF tbl
    <3> QED BY <3>1, <3>2 DEF KidType, msg
  <2>7. CASE msg.cmd = "close"
    <3> DEFINE tbl == [x.tbl EXCEPT ![msg.slot] = None]
    <3>1. Receive(x, msg) = [x EXCEPT !.tbl = tbl]
      BY <2>7 DEF Receive
    <3>2. tbl \in [Slots -> Chans]
      BY <2>2, <2>3
    <3> HIDE DEF tbl
    <3> QED BY <3>1, <3>2 DEF KidType, msg
  <2>8. CASE msg.cmd = "reopen"
    <3>1. Receive(x, msg) = x
      BY <2>8 DEF Receive
    <3> QED BY <3>1 DEF msg
  <2> QED BY <2>2, <2>4, <2>5, <2>6, <2>7, <2>8
<1> HIDE DEF N, S, Do
<1>5. g \in [1..N -> [S -> S]] /\ \A n \in 1..N, x \in S : g[n][x] = Do(x, n)
  BY <1>4
<1> HIDE DEF g
<1>6. PICK f : IsLoop(f, N, S, k, g)
  BY <1>2, <1>3, <1>5, LoopExists
<1>7. f = [n \in 0..N |-> IF n = 0 THEN k ELSE Do(f[n - 1], n)]
  <2>1. \A n \in 0..N : n = 0 \/ (n \in 1..N /\ n - 1 \in 0..N)
    BY <1>2
  <2>2. \A n \in 1..N : f[n] = Do(f[n - 1], n)
    BY <1>5, <1>6, <2>1 DEF IsLoop
  <2> QED BY <2>1, <2>2, <1>6 DEF IsLoop
<1>8. run = [n \in 0..N |-> IF n = 0 THEN k ELSE Do(run[n - 1], n)]
  BY <1>7, Zenon DEF run
<1>9. run[0] = k /\ \A n \in 1..N : run[n] = Do(run[n - 1], n)
  BY <1>2, <1>8
<1> DEFINE T == [n \in 0..N |-> S]
<1>10. \A n \in 0..N : run[n] \in T[n]
  <2>1. run[0] \in T[0]
    BY <1>2, <1>3, <1>9
  <2>2. \A n \in 1..N : run[n - 1] \in T[n - 1] => run[n] \in T[n]
    BY <1>2, <1>4, <1>9
  <2> HIDE DEF T
  <2> QED BY <2>1, <2>2, <1>2, LoopInvariant
<1> DEFINE r == run[N]
<1>11. r \in S
  BY <1>2, <1>10
<1>12. /\ r \in KidType /\ r.slot = k.slot /\ r.kind = k.kind /\ r.st = k.st
       /\ r.code2 = k.code2
  BY <1>11 DEF S
<1>13. ReceiveAll(k) = [r EXCEPT !.mail = <<>>]
  BY <1>1
<1> HIDE DEF r
<1>14. <<>> \in Seq(MessageType)
  OBVIOUS
<1> DEFINE c == [r EXCEPT !.mail = <<>>]
<1>15. /\ c \in KidType /\ c.slot = k.slot /\ c.kind = k.kind /\ c.st = k.st
       /\ c.mail = <<>> /\ c.code2 = k.code2
  BY <1>12, <1>14 DEF KidType
<1> HIDE DEF c
<1> QED BY <1>13, <1>15 DEF c

\* One child changes; it may die, but the master has not waited for it.
ChildChanged(p, c) ==
  /\ p \in DOMAIN kids /\ kids[p].st # "reaped"
  /\ kids' = [kids EXCEPT ![p] = c]
  /\ c \in KidType /\ c.slot = kids[p].slot /\ c.kind = kids[p].kind
  /\ c.st # "reaped" /\ Len(c.mail) <= conf.cap
  /\ master' = master /\ conf' = conf /\ hist' = hist
  /\ sigs' \subseteq sigs \cup {"io", "chld"}
  /\ used' \in [Events -> Nat] /\ used'["usr2"] = used["usr2"]
  /\ used["fatal"] > 0 => used'["fatal"] > 0
  /\ c.code2 => kids[p].code2 \/ used'["fatal"] > 0

LEMMA ChildInv ==
  ASSUME IInv, NEW p, NEW c, ChildChanged(p, c)
  PROVE  IInv' /\ Len(kids') = Len(kids)
<1> USE DEF ChildChanged
<1>1. /\ conf \in Scenarios /\ master \in MasterType /\ kids \in Seq(KidType)
      /\ Bounds(master, kids) /\ TableOK(master, kids)
  BY DEF IInv, TypeOK, Bounds
<1> DEFINE l == [kids EXCEPT ![p] = c]
<1>2. /\ l \in Seq(KidType) /\ Len(l) = Len(kids) /\ DOMAIN l = DOMAIN kids
      /\ \A q \in DOMAIN kids : l[q] = IF q = p THEN c ELSE kids[q]
  BY <1>1
<1> HIDE DEF l
<1>3. /\ KidsKept(kids, l)
      /\ \A q \in DOMAIN kids : kids[q].st = "reaped" => l[q].st = "reaped"
      /\ \A q \in DOMAIN l : Len(l[q].mail) <= conf.cap
  BY <1>1, <1>2 DEF KidsKept, Bounds
<1>4. Bounds(master, l) /\ TableOK(master, l)
  BY <1>1, <1>2, <1>3, SameChildren
<1>5. AllGone(kids) => AllGone(l)
  BY <1>2, <1>3 DEF AllGone, KidsKept
<1>6. kids' = l
  BY DEF l
<1>7. TypeOK'
  <2>1. master' \in MasterType' /\ kids' \in Seq(KidType')
    BY <1>1, <1>2, <1>6, SMTT(60) DEF MasterType, KidType, MessageType, Slots
  <2>2. /\ \A i \in Slots' : /\ master'.tab[i].pid <= Len(kids')
                             /\ master'.tab[i].chan <= Len(kids')
        /\ master'.newBinary <= Len(kids')
        /\ \A q \in DOMAIN kids' : Len(kids'[q].mail) <= conf'.cap
    BY <1>4, <1>6 DEF Bounds, Slots
  <2> QED BY <1>1, <2>1, <2>2 DEF TypeOK, IInv
<1>8. Upgraded' = Upgraded /\ ("usr2" \in sigs' => "usr2" \in sigs)
  BY DEF Upgraded
<1>9. IInv'
  BY <1>4, <1>5, <1>6, <1>7, <1>8 DEF IInv, TableOK, AllGone
<1> QED BY <1>2, <1>6, <1>9

LEMMA ChildStepChanges ==
  ASSUME IInv, NEW p \in DOMAIN kids,
         ChildStep(p) \/ ExitBinary(p) \/ Crash(p) \/ Fatal(p) \/ Hang(p)
  PROVE  \E c : ChildChanged(p, c)
<1>1. /\ conf \in Scenarios /\ kids \in Seq(KidType) /\ used \in [Events -> Nat]
      /\ Len(kids[p].mail) <= conf.cap /\ conf.cap \in Nat
  BY ConfOK DEF IInv, TypeOK
<1> DEFINE k == kids[p]
<1>2. k \in KidType
  BY <1>1
<1>3. \A e \in Events : Use(e) /\ e # "usr2" =>
        /\ used' \in [Events -> Nat] /\ used'["usr2"] = used["usr2"]
        /\ used["fatal"] > 0 => used'["fatal"] > 0
        /\ e = "fatal" => used'["fatal"] > 0
  <2> TAKE e \in Events
  <2> SUFFICES ASSUME Use(e), e # "usr2"
               PROVE  /\ used' \in [Events -> Nat] /\ used'["usr2"] = used["usr2"]
                      /\ used["fatal"] > 0 => used'["fatal"] > 0
                      /\ e = "fatal" => used'["fatal"] > 0
    OBVIOUS
  <2>1. used' = [used EXCEPT ![e] = used[e] + 1]
    BY DEF Use
  <2>2. \A f \in Events : used[f] \in Nat
    BY <1>1
  <2>3. \A f \in Events : used'[f] = IF f = e THEN used[f] + 1 ELSE used[f]
    BY <1>1, <2>1
  <2>4. "fatal" \in Events /\ "usr2" \in Events
    BY DEF Events
  <2>5. used' \in [Events -> Nat]
    BY <1>1, <2>1, <2>2
  <2> HIDE DEF Use
  <2> QED BY <2>2, <2>3, <2>4, <2>5
<1>4. CASE ChannelHandler(p)
  <2> DEFINE c == ReceiveAll(k)
  <2>1. /\ c \in KidType /\ c.slot = k.slot /\ c.kind = k.kind /\ c.st = k.st
        /\ c.mail = <<>> /\ c.code2 = k.code2
    BY <1>1, <1>2, ReceiveAllType
  <2>2. kids' = [kids EXCEPT ![p] = c] /\ k.st = "running"
    BY <1>4 DEF ChannelHandler, Alive
  <2> HIDE DEF c
  <2>3. ChildChanged(p, c)
    BY <1>1, <1>4, <2>1, <2>2 DEF ChildChanged, ChannelHandler
  <2> QED BY <2>3
<1>5. ASSUME NEW b \in BOOLEAN, Die(p, b), k.st = "running",
             used' \in [Events -> Nat], used'["usr2"] = used["usr2"],
             used["fatal"] > 0 => used'["fatal"] > 0, b => used'["fatal"] > 0
      PROVE  \E c : ChildChanged(p, c)
  <2> DEFINE c == [k EXCEPT !.mail = <<>>, !.tbl = Empty, !.st = "zombie",
                            !.code2 = b, !.hung = FALSE]
  <2>1. Empty \in [Slots -> Chans] /\ <<>> \in Seq(MessageType)
    BY DEF Empty, Chans, None
  <2>2. kids' = [kids EXCEPT ![p] = c]
    BY <1>5 DEF Die, Closed
  <2>3. /\ conf' = conf /\ master' = master /\ hist' = hist /\ sigs' = sigs \cup {"chld"}
    BY <1>5 DEF Die
  <2>4. /\ c \in KidType /\ c.slot = k.slot /\ c.kind = k.kind /\ c.st = "zombie"
        /\ c.mail = <<>> /\ c.code2 = b
    <3> HIDE DEF k, Empty
    <3> QED BY <1>2, <2>1 DEF KidType
  <2> HIDE DEF c
  <2>5. ChildChanged(p, c)
    BY <1>1, <1>5, <2>2, <2>3, <2>4 DEF ChildChanged
  <2> QED BY <2>5
<1>6. CASE ExitChild(p)
  BY <1>1, <1>5, <1>6 DEF ExitChild, Alive
<1>7. CASE ExitBinary(p)
  BY <1>1, <1>5, <1>7 DEF ExitBinary, Alive
<1>8. CASE Crash(p)
  BY <1>3, <1>5, <1>8 DEF Crash, Events
<1>9. CASE Fatal(p)
  BY <1>3, <1>5, <1>9 DEF Fatal, Alive, Events
<1>10. CASE Hang(p)
  <2> DEFINE c == [k EXCEPT !.hung = TRUE]
  <2>1. kids' = [kids EXCEPT ![p] = c] /\ k.st = "running"
    BY <1>10 DEF Hang, Alive
  <2>2. /\ c \in KidType /\ c.slot = k.slot /\ c.kind = k.kind /\ c.st = k.st
        /\ c.mail = k.mail /\ c.code2 = k.code2
    <3> HIDE DEF k
    <3> QED BY <1>2 DEF KidType
  <2> HIDE DEF c
  <2>3. ChildChanged(p, c)
    BY <1>1, <1>3, <1>10, <2>1, <2>2 DEF ChildChanged, Hang, Events
  <2> QED BY <2>3
<1> QED BY <1>4, <1>6, <1>7, <1>8, <1>9, <1>10 DEF ChildStep

LEMMA ChildStepInv ==
  ASSUME IInv, NEW p \in DOMAIN kids,
         ChildStep(p) \/ ExitBinary(p) \/ Crash(p) \/ Fatal(p) \/ Hang(p)
  PROVE  IInv' /\ Len(kids') = Len(kids)
BY ChildStepChanges, ChildInv

\* Signals and the timer are only noted.
LEMMA SignalInv ==
  ASSUME IInv, NEW e \in {"hup", "winch", "usr1", "usr2", "quit", "term"}, Signal(e)
  PROVE  IInv' /\ kids' = kids
<1>1. /\ conf' = conf /\ master' = master /\ kids' = kids /\ hist' = hist
      /\ sigs' = sigs \cup {e} /\ e \in Events
      /\ used' = [used EXCEPT ![e] = @ + 1] /\ used \in [Events -> Nat]
  BY DEF Signal, Use, Events, IInv, TypeOK
<1>2. /\ used' \in [Events -> Nat] /\ (Upgraded => Upgraded')
      /\ (e = "usr2" => Upgraded')
  BY <1>1 DEF Upgraded, Events
<1>3. TypeOK'
  BY <1>1, <1>2 DEF IInv, TypeOK, MasterType, KidType, MessageType, Slots
<1>4. IInv'
  BY <1>1, <1>2, <1>3 DEF IInv, TableOK, AllGone
<1> QED BY <1>1, <1>4

LEMMA AlarmInv ==
  ASSUME IInv, Alarm
  PROVE  IInv' /\ kids' = kids
<1>1. /\ conf' = conf /\ master' = master /\ kids' = kids /\ hist' = hist
      /\ sigs' = sigs \cup {"alrm"} /\ used' = used
  BY DEF Alarm
<1>2. TypeOK'
  BY <1>1 DEF IInv, TypeOK, MasterType, KidType, MessageType, Slots
<1>3. IInv'
  BY <1>1, <1>2 DEF IInv, TableOK, AllGone, Upgraded
<1> QED BY <1>1, <1>3

(***************************************************************************)
(* The theorems                                                            *)
(***************************************************************************)

\* The master before it forks.
First == [m |-> Blank, k |-> <<>>, forks |-> 0, failAt |-> 0, ok |-> TRUE,
          slot |-> 0, chfd |-> None, lost |-> FALSE, double |-> FALSE,
          failed |-> FALSE]

LEMMA FirstGood ==
  ASSUME conf \in Scenarios
  PROVE  Good(FALSE, First) /\ First.m = Blank /\ First.k = <<>> /\ ~First.failed
<1> DEFINE b == First
<1>2. Slots = 0..(conf.slots - 1) /\ conf.slots \in Nat \ {0} /\ conf.cap \in Nat
  BY ConfOK
<1>3. Blank \in MasterType
  <2> DEFINE tab == [i \in Slots |-> FreeSlot]
  <2>1. FreeSlot \in ProcessType
    BY DEF FreeSlot, ProcessType, Chans, Kinds, None
  <2>2. tab \in [Slots -> ProcessType]
    BY <2>1
  <2>3. 0 \in 0..conf.slots /\ None \in Nat \cup {InvalidPid}
    BY <1>2 DEF None
  <2> HIDE DEF tab
  <2>4. Blank = [st |-> "loop", tab |-> tab, last |-> 0,
                 live |-> TRUE, delay |-> 0, sigio |-> 0, newBinary |-> None,
                 noaccepting |-> FALSE, listening |-> TRUE, pidfile |-> "pid",
                 reap |-> FALSE, terminate |-> FALSE, quit |-> FALSE, restart |-> FALSE,
                 reconfigure |-> FALSE, reopen |-> FALSE, changeBinary |-> FALSE,
                 noaccept |-> FALSE, sigalrm |-> FALSE]
    BY DEF Blank, tab
  <2> QED BY <2>2, <2>3, <2>4 DEF MasterType
<1>4. /\ Blank.st = "loop" /\ Blank.last = 0 /\ Blank.live /\ Blank.newBinary = None
      /\ Blank.pidfile = "pid" /\ ~Blank.terminate /\ ~Blank.quit /\ ~Blank.changeBinary
      /\ \A i \in Slots : Blank.tab[i] = FreeSlot
  BY DEF Blank
<1>5. b \in StateType /\ b.m = Blank /\ b.k = <<>> /\ ~b.failed
  <2>1. 0 \in Slots /\ None \in Chans /\ <<>> \in Seq(KidType)
    BY <1>2 DEF None, Chans
  <2> HIDE DEF Blank
  <2> QED BY <1>3, <2>1 DEF StateType, First
<1> HIDE DEF b
<1>6. Bounds(b.m, b.k)
  <2>1. Len(<<>>) = 0 /\ DOMAIN <<>> = {}
    OBVIOUS
  <2>2. FreeSlot.pid = 0 /\ FreeSlot.chan = 0
    BY DEF FreeSlot, None
  <2> QED BY <1>4, <1>5, <2>1, <2>2 DEF Bounds, None
<1>7. TableOK(b.m, b.k)
  <2>1. DOMAIN <<>> = {} /\ 0..(0 - 1) = {}
    OBVIOUS
  <2> QED BY <1>4, <1>5, <2>1 DEF TableOK
<1>8. Good(FALSE, b)
  BY <1>4, <1>5, <1>6, <1>7 DEF Good, Sound, PidOK
<1> QED BY <1>5, <1>8 DEF b

\* The first children are started in an empty table.
LEMMA InitInv == Init => IInv
<1> SUFFICES ASSUME Init PROVE IInv
  OBVIOUS
<1> DEFINE b == First
           s == StartAll(b, FALSE)
<1>1. /\ conf \in Scenarios /\ master = s.m /\ kids = s.k
      /\ hist = [lost |-> s.lost, double |-> FALSE, failed |-> s.failed]
      /\ sigs = {} /\ used = [e \in Events |-> 0]
  BY DEF Init, First
<1>4. /\ Blank.st = "loop" /\ Blank.live /\ ~Blank.terminate /\ ~Blank.quit
  BY DEF Blank
<1>5. b.m = Blank
  BY <1>1, FirstGood
<1>8. Good(FALSE, b)
  BY <1>1, FirstGood
<1> HIDE DEF b
<1>9. Onward(b, s)
  BY <1>1, <1>8, StartAllSound DEF Good
<1> HIDE DEF s
<1>10. Good(FALSE, s) /\ s.m.st = "loop"
  BY <1>4, <1>5, <1>8, <1>9, OnwardGood DEF Turned, Onward, FlagsKept
<1>11. s \in StateType /\ Bounds(s.m, s.k) /\ TableOK(s.m, s.k)
  BY <1>10 DEF Good, Sound
<1>12. TypeOK
  <2>1. hist \in [lost : BOOLEAN, double : BOOLEAN, failed : BOOLEAN]
    BY <1>1, <1>11 DEF StateType
  <2>2. used \in [Events -> Nat] /\ sigs \subseteq Events \cup {"chld", "alrm", "io"}
    BY <1>1
  <2> QED BY <1>1, <1>11, <2>1, <2>2 DEF TypeOK, StateType, Bounds
<1>13. hist.failed = s.failed
  BY <1>1
<1> QED BY <1>1, <1>10, <1>11, <1>12, <1>13 DEF IInv, Good, PidOK

LEMMA NextInv ==
  ASSUME IInv, [Next]_vars
  PROVE  /\ IInv'
         /\ master'.quit \/ master'.terminate => Len(kids') = Len(kids)
<1>1. CASE Turn
  BY <1>1, TurnInv
<1>2. CASE Alarm
  BY <1>2, AlarmInv
<1>3. CASE \E e \in {"hup", "winch", "usr1", "usr2", "quit", "term"} : Signal(e)
  BY <1>3, SignalInv
<1>4. CASE \E p \in DOMAIN kids :
             ChildStep(p) \/ ExitBinary(p) \/ Crash(p) \/ Fatal(p) \/ Hang(p)
  BY <1>4, ChildStepInv
<1>5. CASE UNCHANGED vars
  <2>1. TypeOK'
    BY <1>5 DEF vars, IInv, TypeOK, MasterType, KidType, MessageType, Slots
  <2> QED BY <1>5, <2>1 DEF vars, IInv, TableOK, AllGone, Upgraded
<1> QED BY <1>1, <1>2, <1>3, <1>4, <1>5 DEF Next

LEMMA InvKept ==
  ASSUME IInv
  PROVE  ChildrenKept
<1>1. EveryChildInTable
  BY DEF IInv, TableOK, EveryChildInTable
<1>2. used["usr2"] = 0 => ~Upgraded
  BY DEF Upgraded
<1>3. used["usr2"] = 0 => NobodyLeftBehind
  BY <1>2 DEF IInv, NobodyLeftBehind, AllGone, Running
<1>4. MasterExitsLast
  BY <1>3 DEF IInv, MasterExitsLast
<1> QED BY <1>1, <1>4 DEF ChildrenKept

\* The master never loses a child and leaves last (ngx_spawn_process,
\* ngx_reap_children, ngx_master_process_exit): for any number of workers, any
\* size of the process table and of the channels, and any scenario of signals,
\* crashes, failing forks and upgrades, every child that was not waited for is
\* in its slot of ngx_processes, and a master that ends without having tried a
\* binary upgrade has no child left and no pid file.
THEOREM ChildrenAreKept == Spec => []ChildrenKept
<1>1. Init => IInv
  BY InitInv
<1>2. IInv /\ [Next]_vars => IInv'
  BY NextInv
<1>3. IInv => ChildrenKept
  BY InvKept
<1> QED BY <1>1, <1>2, <1>3, PTL DEF Spec

\* A turn in which the master knows that it is to stop forks nobody: reaping
\* does not respawn (ngx_reap_children), and the body ends before anything is
\* started (ngx_master_process_cycle).
THEOREM NobodyIsStartedInTheEnd == Spec => NoSpawnWhileStopping
<1>1. Init => IInv
  BY InitInv
<1>2. IInv /\ [Next]_vars => IInv'
  BY NextInv
<1>3. IInv /\ [Next]_vars => [master'.quit \/ master'.terminate => Len(kids') = Len(kids)]_vars
  BY NextInv
<1> QED BY <1>1, <1>2, <1>3, PTL DEF Spec, NoSpawnWhileStopping
=============================================================================
