-------------------------- MODULE ConnectionsProofs --------------------------
(***************************************************************************)
(* Proofs about the connection pool and its events for any number of       *)
(* connections, any drain limit and any number of operations of the        *)
(* handlers.                                                               *)
(***************************************************************************)
EXTENDS Connections, DataLemmas, FiniteSetTheorems

(***************************************************************************)
(* The inductive invariant.  Its first half, PoolOK, is a predicate of the *)
(* record the operations of the handlers map, so that each operation is    *)
(* shown to keep it once and actions that compose operations follow.       *)
(* Beyond the partition, the queues and the registrations it says that the *)
(* instance bit is the parity of the slot's uses (Parity): that is why one *)
(* bit tells a use from the next one.                                      *)
(***************************************************************************)
ConnType  == [open : BOOLEAN, instance : BOOLEAN, active : SUBSET Dirs,
              timer : BOOLEAN, reusable : BOOLEAN, uses : Nat]
EventType == [slot : Slots, dir : Dirs, use : Nat]
WatchType == [slot : Slots, instance : BOOLEAN, use : Nat,
              evs : (SUBSET Dirs) \ {{}}]
Fields(p) == DOMAIN p = {"conn", "free", "reuse", "posted", "interest"}
IsPool(p) ==
  /\ Fields(p)
  /\ p.conn \in [Slots -> ConnType]
  /\ p.free \in Seq(Slots) /\ p.reuse \in Seq(Slots)
  /\ p.posted \in Seq(EventType)
  /\ p.interest \subseteq WatchType

FreeOK(p) ==
  /\ IsInjective(p.free) /\ ToSet(p.free) = {c \in Slots : ~p.conn[c].open}
  /\ \A c \in Slots : ~p.conn[c].open =>
       p.conn[c].active = {} /\ ~p.conn[c].timer /\ ~p.conn[c].reusable
ReuseOK(p) ==
  /\ IsInjective(p.reuse)
  /\ ToSet(p.reuse) = {c \in Slots : p.conn[c].open /\ p.conn[c].reusable}
PostedOK(p) ==
  /\ \A i \in DOMAIN p.posted : /\ p.conn[p.posted[i].slot].open
                                /\ p.conn[p.posted[i].slot].uses = p.posted[i].use
  /\ \A i, j \in DOMAIN p.posted :
       p.posted[i].slot = p.posted[j].slot /\ p.posted[i].dir = p.posted[j].dir => i = j
Watch(p, c) == [slot |-> c, instance |-> p.conn[c].instance,
                use |-> p.conn[c].uses, evs |-> p.conn[c].active]
WatchOK(p) ==
  /\ IsFiniteSet(p.interest)
  /\ \A c \in Slots :
       {e \in p.interest : e.slot = c} =
         IF p.conn[c].active = {} THEN {} ELSE {Watch(p, c)}
Parity(p) == \A c \in Slots : p.conn[c].instance <=> p.conn[c].uses % 2 = 0

PoolOK(p) ==
  /\ IsPool(p)
  /\ FreeOK(p) /\ ReuseOK(p) /\ PostedOK(p) /\ WatchOK(p) /\ Parity(p)

\* No use of a slot is taken back.
Later(p, q) == \A c \in Slots : p.conn[c].uses <= q.conn[c].uses

\* An event of the batch was reported for the slot's present use or for an
\* earlier one, and carries that use's instance bit.
BatchOK ==
  \A i \in DOMAIN batch : batch[i].slot # 0 =>
    /\ batch[i].instance <=> batch[i].use % 2 = 0
    /\ batch[i].use <= conn[batch[i].slot].uses
\* ngx_drain_connections() has not given up while it found nothing to drain.
GetOK == getting => run /\ (free = <<>> => left > 0)
\* The write half of an event comes after its read half.
WriteOK == pc = "write" => batch # <<>> /\ Head(batch).slot # 0

\* The type of what is not in the pool.
ReportType == [slot : 0..NConns, instance : BOOLEAN, use : Nat,
               evs : (SUBSET Dirs) \ {{}}]
CtlOK ==
  /\ batch \in Seq(ReportType)
  /\ post \in BOOLEAN /\ accepting \in BOOLEAN
  /\ pc \in {"wait", "read", "write", "timers", "posted"}
  /\ getting \in BOOLEAN /\ left \in 0..DrainMax
  /\ run \in BOOLEAN /\ ops \in 0..MaxOps /\ crossed \subseteq Nat

IInv == PoolOK(Pool) /\ CtlOK /\ BatchOK /\ GetOK /\ WriteOK /\ StaleNeedsTwoReuses

-----------------------------------------------------------------------------
(* The queues.                                                             *)

\* ngx_queue_remove() of a connection that is in the queue at most once.
LEMMA WithoutOne ==
  ASSUME NEW t \in Seq(Slots), IsInjective(t), NEW c \in Slots
  PROVE  /\ Without(t, c) \in Seq(Slots) /\ IsInjective(Without(t, c))
         /\ ToSet(Without(t, c)) = ToSet(t) \ {c}
<1>1. CASE c \notin ToSet(t)
  BY <1>1 DEF Without
<1>2. CASE c \in ToSet(t)
  <2> DEFINE m == CHOOSE i \in DOMAIN t : t[i] = c
             r == RemoveAt(t, m)
  <2>1. m \in 1..Len(t) /\ t[m] = c /\ DOMAIN t = 1..Len(t)
    BY <1>2 DEF ToSet
  <2>2. Without(t, c) = r
    BY <1>2 DEF Without
  <2> HIDE DEF m
  <2>3. r \in Seq(Slots) /\ AllBut(r, t, m)
    BY <2>1, RemoveAtSeq, RemoveAtEntries
  <2> HIDE DEF r
  <2>4. IsInjective(r)
    BY <2>3 DEF IsInjective, AllBut
  <2>5. ToSet(r) \subseteq ToSet(t) \ {c}
    BY <2>1, <2>3 DEF ToSet, IsInjective, AllBut
  <2>6. ToSet(t) \ {c} \subseteq ToSet(r)
    BY <2>1, <2>3 DEF ToSet, AllBut
  <2> QED BY <2>2, <2>3, <2>4, <2>5, <2>6
<1> QED BY <1>1, <1>2

Distinct(q) ==
  \A i, j \in DOMAIN q : q[i].slot = q[j].slot /\ q[i].dir = q[j].dir => i = j

\* ngx_delete_posted_event(): what is left was there before, is not the event
\* taken out, and is in the queue once.
LEMMA UnpostOne ==
  ASSUME NEW q \in Seq(EventType), Distinct(q), NEW c \in Slots, NEW d \in Dirs
  PROVE  /\ Unpost(q, c, d) \in Seq(EventType) /\ Distinct(Unpost(q, c, d))
         /\ \A i \in DOMAIN Unpost(q, c, d) :
              /\ ~IsFor(Unpost(q, c, d)[i], c, d)
              /\ \E k \in DOMAIN q : Unpost(q, c, d)[i] = q[k]
<1>1. CASE ~\E i \in DOMAIN q : IsFor(q[i], c, d)
  BY <1>1 DEF Unpost
<1>2. CASE \E i \in DOMAIN q : IsFor(q[i], c, d)
  <2> DEFINE m == CHOOSE i \in DOMAIN q : IsFor(q[i], c, d)
             r == RemoveAt(q, m)
  <2>1. m \in 1..Len(q) /\ IsFor(q[m], c, d) /\ DOMAIN q = 1..Len(q)
    BY <1>2
  <2>2. Unpost(q, c, d) = r
    BY <1>2 DEF Unpost
  <2> HIDE DEF m
  <2>3. r \in Seq(EventType) /\ AllBut(r, q, m)
    BY <2>1, RemoveAtSeq, RemoveAtEntries
  <2> HIDE DEF r
  <2>4. Distinct(r)
    <3> SUFFICES ASSUME NEW i \in DOMAIN r, NEW j \in DOMAIN r, i # j
                 PROVE  ~(r[i].slot = r[j].slot /\ r[i].dir = r[j].dir)
      BY DEF Distinct
    <3>1. PICK k, l \in DOMAIN q \ {m} : k # l /\ r[i] = q[k] /\ r[j] = q[l]
      BY <2>3 DEF AllBut
    <3> QED BY <3>1 DEF Distinct
  <2>5. ASSUME NEW i \in DOMAIN r PROVE ~IsFor(r[i], c, d)
    <3>1. PICK k \in DOMAIN q \ {m} : r[i] = q[k]
      BY <2>3 DEF AllBut
    <3> QED BY <2>1, <3>1 DEF Distinct, IsFor
  <2> QED BY <2>2, <2>3, <2>4, <2>5 DEF AllBut
<1> QED BY <1>1, <1>2

-----------------------------------------------------------------------------
(* The operations on the pool.                                             *)

\* q is p with a connection that changed.
Others(p, q, c) == /\ q.conn \in [Slots -> ConnType]
                   /\ \A k \in Slots \ {c} : q.conn[k] = p.conn[k]

\* One field of one connection is set.
LEMMA SetConn ==
  ASSUME NEW p, IsPool(p), NEW c \in Slots, NEW z \in ConnType
  PROVE  /\ [p.conn EXCEPT ![c] = z] \in [Slots -> ConnType]
         /\ [p.conn EXCEPT ![c] = z][c] = z
         /\ \A k \in Slots \ {c} : [p.conn EXCEPT ![c] = z][k] = p.conn[k]
BY DEF IsPool

\* What ngx_close_connection() leaves behind.
LEMMA CloseFields ==
  ASSUME NEW p, IsPool(p), NEW c \in Slots, NEW r, r = CloseConnection(p, c)
  PROVE  /\ Fields(r) /\ Others(p, r, c)
         /\ r.conn[c].instance = p.conn[c].instance /\ r.conn[c].uses = p.conn[c].uses
         /\ ~r.conn[c].open /\ ~r.conn[c].timer /\ ~r.conn[c].reusable
         /\ r.conn[c].active = {}
         /\ r.free = <<c>> \o p.free
         /\ r.reuse = IF p.conn[c].reusable THEN Without(p.reuse, c) ELSE p.reuse
         /\ r.posted = Unpost(Unpost(p.posted, c, "r"), c, "w")
         /\ r.interest = {e \in p.interest : e.slot # c}
<1> DEFINE x == p.conn[c]
           y == [x EXCEPT !.timer = FALSE, !.active = {}]
           z == [y EXCEPT !.reusable = FALSE]
           w == [z EXCEPT !.open = FALSE]
           q == [p EXCEPT !.conn[c] = [@ EXCEPT !.timer = FALSE, !.active = {}],
                          !.posted = Unpost(Unpost(@, c, "r"), c, "w")]
           s == Reusable(q, c, FALSE)
<1>0. x \in ConnType /\ x = p.conn[c]
  BY DEF IsPool
<1>1. /\ q.free = p.free /\ q.reuse = p.reuse /\ q.interest = p.interest
      /\ q.posted = Unpost(Unpost(p.posted, c, "r"), c, "w")
      /\ q.conn = [p.conn EXCEPT ![c] = y]
      /\ DOMAIN q = DOMAIN p
  BY DEF IsPool, Fields
<1>2. /\ y \in ConnType /\ ~y.timer /\ y.active = {}
      /\ y.instance = x.instance /\ y.uses = x.uses /\ y.reusable = x.reusable
  BY <1>0 DEF ConnType
<1>3. r = FreeConnection(s, c)
  BY DEF CloseConnection
<1> HIDE DEF x, y, q
<1>4. /\ s.free = p.free /\ s.interest = p.interest
      /\ s.posted = Unpost(Unpost(p.posted, c, "r"), c, "w")
      /\ DOMAIN s = DOMAIN q
  BY <1>1 DEF IsPool, Fields, Reusable
<1>5. q.conn[c] = y
  BY <1>1, <1>0 DEF IsPool
<1>6. s.reuse = IF x.reusable THEN Without(p.reuse, c) ELSE p.reuse
  BY <1>1, <1>2, <1>5 DEF IsPool, Fields, Reusable
<1>7. s.conn = [q.conn EXCEPT ![c] = z]
  BY <1>1, <1>5 DEF IsPool, Fields, Reusable
<1>8. s.conn = [p.conn EXCEPT ![c] = z] /\ s.conn[c] = z
  BY <1>1, <1>7 DEF IsPool
<1>9. /\ z \in ConnType /\ ~z.timer /\ z.active = {} /\ ~z.reusable
      /\ z.instance = x.instance /\ z.uses = x.uses
  BY <1>2 DEF ConnType
<1> HIDE DEF s, z
<1>10. /\ FreeConnection(s, c).free = <<c>> \o p.free
       /\ FreeConnection(s, c).reuse = s.reuse
       /\ FreeConnection(s, c).posted = s.posted
       /\ FreeConnection(s, c).interest = {e \in p.interest : e.slot # c}
       /\ FreeConnection(s, c).conn = [s.conn EXCEPT ![c] = w]
       /\ DOMAIN FreeConnection(s, c) = DOMAIN s
  BY <1>1, <1>4, <1>8 DEF FreeConnection, IsPool, Fields
<1>11. /\ w \in ConnType /\ ~w.timer /\ w.active = {} /\ ~w.reusable /\ ~w.open
       /\ w.instance = x.instance /\ w.uses = x.uses
  BY <1>9 DEF ConnType
<1> HIDE DEF w
<1>12. [s.conn EXCEPT ![c] = w] = [p.conn EXCEPT ![c] = w]
  BY <1>8 DEF IsPool
<1>13. Others(p, r, c) /\ r.conn[c] = w
  <2>1. r.conn = [p.conn EXCEPT ![c] = w]
    BY <1>3, <1>10, <1>12
  <2> QED BY <1>11, <2>1, SetConn DEF Others
<1> QED BY <1>0, <1>1, <1>3, <1>4, <1>6, <1>10, <1>11, <1>13 DEF IsPool, Fields

\* What ngx_get_connection() changes.
LEMMA GetFields ==
  ASSUME NEW p, IsPool(p), p.free # <<>>, NEW r, r = GetConnection(p)
  PROVE  /\ Fields(r) /\ Head(p.free) \in Slots /\ Others(p, r, Head(p.free))
         /\ r.conn[Head(p.free)] = Fresh(p.conn[Head(p.free)])
         /\ r.free = Tail(p.free) /\ r.reuse = p.reuse /\ r.posted = p.posted
         /\ r.interest = p.interest
<1> DEFINE c == Head(p.free)
           z == Fresh(p.conn[c])
<1>1. c \in Slots
  BY TailSeq DEF IsPool
<1> HIDE DEF c
<1>2. p.conn[c] \in ConnType
  BY <1>1 DEF IsPool
<1>3. z \in ConnType
  BY <1>2 DEF ConnType, Fresh
<1> HIDE DEF z
<1>4. /\ r.conn = [p.conn EXCEPT ![c] = z] /\ Fields(r)
      /\ r.free = Tail(p.free) /\ r.reuse = p.reuse /\ r.posted = p.posted
      /\ r.interest = p.interest
  BY <1>1 DEF GetConnection, IsPool, Fields, c, z
<1> QED BY <1>1, <1>3, <1>4, SetConn DEF Others, c, z

\* ngx_close_connection() of an open connection keeps the pool in order, and
\* changes nothing of the other connections.
LEMMA CloseKeeps ==
  ASSUME NEW p, PoolOK(p), NEW c \in Slots, p.conn[c].open,
         NEW r, r = CloseConnection(p, c)
  PROVE  PoolOK(r) /\ Later(p, r)
<1>1. IsPool(p) /\ FreeOK(p) /\ ReuseOK(p) /\ PostedOK(p) /\ WatchOK(p) /\ Parity(p)
  BY DEF PoolOK
<1>2. /\ Fields(r) /\ Others(p, r, c)
      /\ r.conn[c].instance = p.conn[c].instance /\ r.conn[c].uses = p.conn[c].uses
      /\ ~r.conn[c].open /\ ~r.conn[c].timer /\ ~r.conn[c].reusable
      /\ r.conn[c].active = {}
  BY <1>1, CloseFields, ZenonT(60)
<1>3. /\ r.free = <<c>> \o p.free
      /\ r.reuse = IF p.conn[c].reusable THEN Without(p.reuse, c) ELSE p.reuse
      /\ r.posted = Unpost(Unpost(p.posted, c, "r"), c, "w")
      /\ r.interest = {e \in p.interest : e.slot # c}
  BY <1>1, CloseFields
<1>4. r.free \in Seq(Slots) /\ FreeOK(r)
  <2>1. /\ IsInjective(p.free) /\ c \notin ToSet(p.free) /\ p.free \in Seq(Slots)
        /\ ToSet(p.free) = {k \in Slots : ~p.conn[k].open}
    BY <1>1 DEF FreeOK, IsPool
  <2>2. r.free \in Seq(Slots) /\ IsInjective(r.free) /\ ToSet(r.free) = ToSet(p.free) \cup {c}
    BY <1>3, <2>1, ConsSeq
  <2>3. ToSet(r.free) = {k \in Slots : ~r.conn[k].open}
    BY <1>2, <2>1, <2>2 DEF Others
  <2> QED BY <1>1, <1>2, <2>2, <2>3 DEF FreeOK, Others
<1>5. r.reuse \in Seq(Slots) /\ ReuseOK(r)
  <2>1. /\ IsInjective(p.reuse) /\ p.reuse \in Seq(Slots)
        /\ ToSet(p.reuse) = {k \in Slots : p.conn[k].open /\ p.conn[k].reusable}
    BY <1>1 DEF ReuseOK, IsPool
  <2>2. /\ r.reuse \in Seq(Slots) /\ IsInjective(r.reuse)
        /\ ToSet(r.reuse) = ToSet(p.reuse) \ {c}
    <3>1. CASE p.conn[c].reusable
      BY <1>3, <2>1, <3>1, WithoutOne
    <3>2. CASE ~p.conn[c].reusable
      BY <1>3, <2>1, <3>2
    <3> QED BY <3>1, <3>2
  <2>3. ToSet(r.reuse) = {k \in Slots : r.conn[k].open /\ r.conn[k].reusable}
    BY <1>2, <2>1, <2>2 DEF Others
  <2> QED BY <2>2, <2>3 DEF ReuseOK
<1>6. r.posted \in Seq(EventType) /\ PostedOK(r)
  <2> DEFINE u == Unpost(p.posted, c, "r")
  <2>1. p.posted \in Seq(EventType) /\ Distinct(p.posted)
    BY <1>1 DEF PostedOK, IsPool, Distinct
  <2>2. /\ u \in Seq(EventType) /\ Distinct(u)
        /\ \A i \in DOMAIN u : ~IsFor(u[i], c, "r") /\ \E k \in DOMAIN p.posted : u[i] = p.posted[k]
    BY <2>1, UnpostOne DEF Dirs
  <2> HIDE DEF u
  <2>3. /\ r.posted \in Seq(EventType) /\ Distinct(r.posted)
        /\ \A i \in DOMAIN r.posted :
             ~IsFor(r.posted[i], c, "w") /\ \E k \in DOMAIN u : r.posted[i] = u[k]
    BY <1>3, <2>2, UnpostOne DEF Dirs, u
  <2>4. ASSUME NEW i \in DOMAIN r.posted
        PROVE  /\ r.conn[r.posted[i].slot].open
               /\ r.conn[r.posted[i].slot].uses = r.posted[i].use
    <3>1. PICK k \in DOMAIN p.posted :
            /\ r.posted[i] = p.posted[k]
            /\ ~IsFor(r.posted[i], c, "r") /\ ~IsFor(r.posted[i], c, "w")
      BY <2>2, <2>3
    <3>2. r.posted[i] \in EventType
      BY <2>3, ElementOfSeq
    <3>3. r.posted[i].slot # c /\ r.posted[i].slot \in Slots
      BY <3>1, <3>2 DEF EventType, IsFor, Dirs
    <3> QED BY <1>1, <1>2, <3>1, <3>3 DEF PostedOK, Others
  <2> QED BY <2>3, <2>4 DEF PostedOK, Distinct
<1>7. r.interest \subseteq WatchType /\ WatchOK(r)
  <2>1. r.interest \subseteq WatchType /\ IsFiniteSet(r.interest)
    BY <1>1, <1>3, FS_Subset DEF WatchOK, IsPool
  <2>2. ASSUME NEW k \in Slots
        PROVE  {e \in r.interest : e.slot = k} =
                 IF r.conn[k].active = {} THEN {} ELSE {Watch(r, k)}
    <3>1. CASE k = c
      BY <1>2, <1>3, <3>1
    <3>2. CASE k # c
      <4>1. {e \in r.interest : e.slot = k} = {e \in p.interest : e.slot = k}
        BY <1>3, <3>2
      <4>2. r.conn[k] = p.conn[k]
        BY <1>2, <3>2 DEF Others
      <4> QED BY <1>1, <4>1, <4>2 DEF WatchOK, Watch
    <3> QED BY <3>1, <3>2
  <2> QED BY <2>1, <2>2 DEF WatchOK
<1>8. Parity(r)
  BY <1>1, <1>2 DEF Parity, Others
<1>9. Later(p, r)
  <2>1. ASSUME NEW k \in Slots PROVE p.conn[k].uses \in Nat /\ r.conn[k].uses = p.conn[k].uses
    BY <1>1, <1>2 DEF Others, IsPool, ConnType
  <2>2. ASSUME NEW k \in Slots PROVE p.conn[k].uses <= r.conn[k].uses
    BY <2>1
  <2> QED BY <2>2 DEF Later
<1> QED BY <1>1, <1>2, <1>4, <1>5, <1>6, <1>7, <1>8, <1>9
           DEF PoolOK, IsPool, Others

\* ngx_get_connection(): the slot's next use.
LEMMA GetKeeps ==
  ASSUME NEW p, PoolOK(p), p.free # <<>>, NEW r, r = GetConnection(p)
  PROVE  /\ PoolOK(r) /\ Later(p, r)
         /\ Head(p.free) \in Slots
         /\ r.conn[Head(p.free)] = Fresh(p.conn[Head(p.free)])
         /\ \A i \in DOMAIN r.posted : r.posted[i].slot # Head(p.free)
<1> DEFINE c == Head(p.free)
<1>1. IsPool(p) /\ FreeOK(p) /\ ReuseOK(p) /\ PostedOK(p) /\ WatchOK(p) /\ Parity(p)
  BY DEF PoolOK
<1>2. /\ Fields(r) /\ c \in Slots /\ Others(p, r, c)
      /\ r.conn[c] = Fresh(p.conn[c])
      /\ r.free = Tail(p.free) /\ r.reuse = p.reuse /\ r.posted = p.posted
      /\ r.interest = p.interest
  BY <1>1, GetFields
<1>3. /\ r.free \in Seq(Slots) /\ IsInjective(r.free)
      /\ ToSet(r.free) = ToSet(p.free) \ {c} /\ c \in ToSet(p.free)
  BY <1>1, <1>2, TailSeq DEF FreeOK, IsPool
<1> HIDE DEF c
<1>4. /\ ~p.conn[c].open /\ p.conn[c].active = {} /\ ~p.conn[c].reusable
      /\ p.conn[c] \in ConnType
  BY <1>1, <1>2, <1>3 DEF FreeOK, IsPool
<1>5. /\ r.conn[c].open /\ r.conn[c].instance = ~p.conn[c].instance
      /\ r.conn[c].active = {} /\ ~r.conn[c].reusable /\ r.conn[c].uses = p.conn[c].uses + 1
  BY <1>2 DEF Fresh
<1>6. FreeOK(r)
  <2>1. ToSet(r.free) = {k \in Slots : ~r.conn[k].open}
    BY <1>1, <1>2, <1>3, <1>5 DEF FreeOK, Others
  <2> QED BY <1>1, <1>2, <1>3, <1>5, <2>1 DEF FreeOK, Others
<1>7. ReuseOK(r)
  <2>1. {k \in Slots : r.conn[k].open /\ r.conn[k].reusable}
          = {k \in Slots : p.conn[k].open /\ p.conn[k].reusable}
    BY <1>2, <1>4, <1>5 DEF Others
  <2> QED BY <1>1, <1>2, <2>1 DEF ReuseOK
<1>8. PostedOK(r) /\ \A i \in DOMAIN r.posted : r.posted[i].slot # c
  <2>1. ASSUME NEW i \in DOMAIN r.posted
        PROVE  /\ r.conn[r.posted[i].slot].open
               /\ r.conn[r.posted[i].slot].uses = r.posted[i].use
               /\ r.posted[i].slot # c
    <3>1. p.conn[p.posted[i].slot].open /\ p.conn[p.posted[i].slot].uses = p.posted[i].use
      BY <1>1, <1>2 DEF PostedOK
    <3>2. p.posted[i] \in EventType
      BY <1>1, <1>2, ElementOfSeq DEF IsPool
    <3>3. p.posted[i].slot \in Slots \ {c}
      BY <1>4, <3>1, <3>2 DEF EventType
    <3> QED BY <1>2, <3>1, <3>3 DEF Others
  <2> QED BY <1>1, <1>2, <2>1 DEF PostedOK
<1>9. WatchOK(r)
  <2>1. ASSUME NEW k \in Slots
        PROVE  {e \in r.interest : e.slot = k} =
                 IF r.conn[k].active = {} THEN {} ELSE {Watch(r, k)}
    <3>1. CASE k = c
      BY <1>1, <1>2, <1>4, <1>5, <3>1 DEF WatchOK
    <3>2. CASE k # c
      <4>1. r.conn[k] = p.conn[k]
        BY <1>2, <3>2 DEF Others
      <4> QED BY <1>1, <1>2, <4>1 DEF WatchOK, Watch
    <3> QED BY <3>1, <3>2
  <2> QED BY <1>1, <1>2, <2>1 DEF WatchOK
<1>10. Parity(r)
  <2>1. r.conn[c].instance <=> r.conn[c].uses % 2 = 0
    <3>1. p.conn[c].uses \in Nat /\ (p.conn[c].instance <=> p.conn[c].uses % 2 = 0)
      BY <1>1, <1>2, <1>4 DEF Parity, ConnType
    <3>2. (p.conn[c].uses + 1) % 2 = 0 <=> ~(p.conn[c].uses % 2 = 0)
      BY <3>1
    <3>3. r.conn[c].instance <=> ~p.conn[c].instance
      BY <1>5
    <3> QED BY <1>5, <3>1, <3>2, <3>3
  <2> QED BY <1>1, <1>2, <2>1 DEF Parity, Others
<1>11. Later(p, r)
  <2>1. ASSUME NEW k \in Slots PROVE p.conn[k].uses <= r.conn[k].uses
    <3>1. p.conn[k].uses \in Nat
      BY <1>1 DEF IsPool, ConnType
    <3>2. CASE k = c
      BY <1>5, <3>1, <3>2
    <3>3. CASE k # c
      BY <1>2, <3>1, <3>3 DEF Others
    <3> QED BY <3>2, <3>3
  <2> QED BY <2>1 DEF Later
<1> QED BY <1>1, <1>2, <1>3, <1>6, <1>7, <1>8, <1>9, <1>10, <1>11
           DEF PoolOK, IsPool, Others, c

\* ngx_free_connection() alone, of a connection nothing was set up for.
LEMMA FreeKeeps ==
  ASSUME NEW p, PoolOK(p), NEW c \in Slots, p.conn[c].open,
         p.conn[c].active = {}, ~p.conn[c].timer, ~p.conn[c].reusable,
         \A i \in DOMAIN p.posted : p.posted[i].slot # c,
         NEW r, r = FreeConnection(p, c)
  PROVE  PoolOK(r) /\ Later(p, r)
<1> DEFINE x == p.conn[c]
           z == [x EXCEPT !.open = FALSE]
<1>1. IsPool(p) /\ FreeOK(p) /\ ReuseOK(p) /\ PostedOK(p) /\ WatchOK(p) /\ Parity(p)
  BY DEF PoolOK
<1>2. x \in ConnType
  BY <1>1 DEF IsPool
<1>3. /\ z \in ConnType /\ ~z.open /\ ~z.timer /\ ~z.reusable /\ z.active = {}
      /\ z.instance = x.instance /\ z.uses = x.uses
  BY <1>2 DEF ConnType
<1>4. /\ r.conn = [p.conn EXCEPT ![c] = z] /\ Fields(r)
      /\ r.free = <<c>> \o p.free /\ r.reuse = p.reuse /\ r.posted = p.posted
      /\ r.interest = {e \in p.interest : e.slot # c}
  BY <1>1 DEF IsPool, Fields, FreeConnection
<1> HIDE DEF z
<1>5. Others(p, r, c) /\ r.conn[c] = z
  BY <1>1, <1>3, <1>4, SetConn DEF Others
<1>6. r.free \in Seq(Slots) /\ FreeOK(r)
  <2>1. /\ IsInjective(p.free) /\ c \notin ToSet(p.free) /\ p.free \in Seq(Slots)
        /\ ToSet(p.free) = {k \in Slots : ~p.conn[k].open}
    BY <1>1 DEF FreeOK, IsPool
  <2>2. r.free \in Seq(Slots) /\ IsInjective(r.free) /\ ToSet(r.free) = ToSet(p.free) \cup {c}
    BY <1>4, <2>1, ConsSeq
  <2>3. ToSet(r.free) = {k \in Slots : ~r.conn[k].open}
    BY <1>3, <1>5, <2>1, <2>2 DEF Others
  <2> QED BY <1>1, <1>3, <1>5, <2>2, <2>3 DEF FreeOK, Others
<1>7. ReuseOK(r)
  <2>1. {k \in Slots : r.conn[k].open /\ r.conn[k].reusable}
          = {k \in Slots : p.conn[k].open /\ p.conn[k].reusable}
    BY <1>3, <1>5 DEF Others
  <2> QED BY <1>1, <1>4, <2>1 DEF ReuseOK
<1>8. PostedOK(r)
  <2>1. ASSUME NEW i \in DOMAIN r.posted
        PROVE  /\ r.conn[r.posted[i].slot].open
               /\ r.conn[r.posted[i].slot].uses = r.posted[i].use
    <3>1. p.posted[i] \in EventType /\ p.posted[i].slot # c
      BY <1>1, <1>4, ElementOfSeq DEF IsPool
    <3>2. p.posted[i].slot \in Slots \ {c}
      BY <3>1 DEF EventType
    <3> QED BY <1>1, <1>4, <1>5, <3>2 DEF Others, PostedOK
  <2> QED BY <1>1, <1>4, <2>1 DEF PostedOK
<1>9. r.interest \subseteq WatchType /\ WatchOK(r)
  <2>1. r.interest \subseteq WatchType /\ IsFiniteSet(r.interest)
    BY <1>1, <1>4, FS_Subset DEF WatchOK, IsPool
  <2>2. ASSUME NEW k \in Slots
        PROVE  {e \in r.interest : e.slot = k} =
                 IF r.conn[k].active = {} THEN {} ELSE {Watch(r, k)}
    <3>1. CASE k = c
      BY <1>3, <1>4, <1>5, <3>1
    <3>2. CASE k # c
      <4>1. {e \in r.interest : e.slot = k} = {e \in p.interest : e.slot = k}
        BY <1>4, <3>2
      <4>2. r.conn[k] = p.conn[k]
        BY <1>5, <3>2 DEF Others
      <4> QED BY <1>1, <4>1, <4>2 DEF WatchOK, Watch
    <3> QED BY <3>1, <3>2
  <2> QED BY <2>1, <2>2 DEF WatchOK
<1>10. Parity(r)
  BY <1>1, <1>3, <1>5 DEF Parity, Others
<1>11. Later(p, r)
  <2>1. ASSUME NEW k \in Slots PROVE p.conn[k].uses \in Nat /\ r.conn[k].uses = p.conn[k].uses
    BY <1>1, <1>3, <1>5 DEF Others, IsPool, ConnType
  <2>2. ASSUME NEW k \in Slots PROVE p.conn[k].uses <= r.conn[k].uses
    BY <2>1
  <2> QED BY <2>2 DEF Later
<1> QED BY <1>1, <1>4, <1>5, <1>6, <1>7, <1>8, <1>9, <1>10, <1>11
           DEF PoolOK, IsPool, Others

\* An operation that leaves an open connection open, in the same use.
LEMMA TouchKeeps ==
  ASSUME NEW p, PoolOK(p), NEW c \in Slots, p.conn[c].open,
         NEW r, Others(p, r, c), r.conn[c].open,
         r.conn[c].instance = p.conn[c].instance, r.conn[c].uses = p.conn[c].uses
  PROVE  /\ r.free = p.free => FreeOK(r)
         /\ Parity(r) /\ Later(p, r)
         /\ r.posted = p.posted => PostedOK(r)
         /\ r.reuse = p.reuse /\ (r.conn[c].reusable <=> p.conn[c].reusable) => ReuseOK(r)
         /\ r.interest = p.interest /\ r.conn[c].active = p.conn[c].active => WatchOK(r)
<1>1. IsPool(p) /\ FreeOK(p) /\ ReuseOK(p) /\ PostedOK(p) /\ WatchOK(p) /\ Parity(p)
  BY DEF PoolOK
<1>2. ASSUME r.free = p.free PROVE FreeOK(r)
  <2>1. {k \in Slots : ~r.conn[k].open} = {k \in Slots : ~p.conn[k].open}
    BY DEF Others
  <2> QED BY <1>1, <1>2, <2>1 DEF FreeOK, Others
<1>3. Parity(r)
  BY <1>1 DEF Parity, Others
<1>4. Later(p, r)
  <2>1. ASSUME NEW k \in Slots PROVE p.conn[k].uses \in Nat /\ r.conn[k].uses = p.conn[k].uses
    BY <1>1 DEF Others, IsPool, ConnType
  <2>2. ASSUME NEW k \in Slots PROVE p.conn[k].uses <= r.conn[k].uses
    BY <2>1
  <2> QED BY <2>2 DEF Later
<1>5. ASSUME r.posted = p.posted PROVE PostedOK(r)
  <2>1. ASSUME NEW i \in DOMAIN r.posted
        PROVE  /\ r.conn[r.posted[i].slot].open
               /\ r.conn[r.posted[i].slot].uses = r.posted[i].use
    <3>1. p.posted[i] \in EventType
      BY <1>1, <1>5, ElementOfSeq DEF IsPool
    <3>2. p.posted[i].slot \in Slots
      BY <3>1 DEF EventType
    <3> QED BY <1>1, <1>5, <3>2 DEF Others, PostedOK
  <2> QED BY <1>1, <1>5, <2>1, SMTT(60) DEF PostedOK
<1>6. ASSUME r.reuse = p.reuse, r.conn[c].reusable <=> p.conn[c].reusable PROVE ReuseOK(r)
  <2>1. {k \in Slots : r.conn[k].open /\ r.conn[k].reusable}
          = {k \in Slots : p.conn[k].open /\ p.conn[k].reusable}
    BY <1>6 DEF Others
  <2> QED BY <1>1, <1>6, <2>1 DEF ReuseOK
<1>7. ASSUME r.interest = p.interest, r.conn[c].active = p.conn[c].active PROVE WatchOK(r)
  <2>1. ASSUME NEW k \in Slots
        PROVE  r.conn[k].active = p.conn[k].active /\ Watch(r, k) = Watch(p, k)
    BY <1>7 DEF Others, Watch
  <2> QED BY <1>1, <1>7, <2>1 DEF WatchOK
<1> QED BY <1>2, <1>3, <1>4, <1>5, <1>6, <1>7

\* ngx_epoll_add_event() and ngx_epoll_add_connection(): the registration is
\* replaced by one for all the active events.
LEMMA WatchKeeps ==
  ASSUME NEW p, PoolOK(p), NEW c \in Slots, p.conn[c].open,
         NEW evs \in (SUBSET Dirs) \ {{}}, NEW r, Fields(r),
         r.conn = [p.conn EXCEPT ![c].active = evs],
         r.free = p.free, r.reuse = p.reuse, r.posted = p.posted,
         r.interest = {e \in p.interest : e.slot # c} \cup
                        {[slot |-> c, instance |-> p.conn[c].instance,
                          use |-> p.conn[c].uses, evs |-> evs]}
  PROVE  PoolOK(r) /\ Later(p, r)
<1> DEFINE x == p.conn[c]
           z == [x EXCEPT !.active = evs]
           n == [slot |-> c, instance |-> x.instance, use |-> x.uses, evs |-> evs]
<1>1. IsPool(p) /\ WatchOK(p)
  BY DEF PoolOK
<1>2. x \in ConnType
  BY <1>1 DEF IsPool
<1>3. /\ z \in ConnType /\ z.open /\ z.reusable = x.reusable /\ z.active = evs
      /\ z.instance = x.instance /\ z.uses = x.uses
  BY <1>2 DEF ConnType
<1>4. r.conn = [p.conn EXCEPT ![c] = z]
  BY <1>1 DEF IsPool
<1> HIDE DEF z
<1>5. Others(p, r, c) /\ r.conn[c] = z
  BY <1>1, <1>3, <1>4, SetConn DEF Others
<1>6. FreeOK(r) /\ Parity(r) /\ Later(p, r) /\ PostedOK(r) /\ ReuseOK(r)
  <2>1. r.conn[c].reusable <=> p.conn[c].reusable
    BY <1>3, <1>5
  <2>2. r.conn[c].open /\ r.conn[c].instance = p.conn[c].instance
    BY <1>3, <1>5
  <2>3. r.conn[c].uses = p.conn[c].uses
    BY <1>3, <1>5
  <2> QED BY <1>5, <2>1, <2>2, <2>3, TouchKeeps
<1>7. n \in WatchType
  BY <1>2 DEF WatchType, ConnType
<1>8. r.interest = {e \in p.interest : e.slot # c} \cup {n}
  OBVIOUS
<1>9. n.slot = c /\ n = Watch(r, c)
  BY <1>3, <1>5 DEF Watch
<1> HIDE DEF n
<1>10. r.interest \subseteq WatchType /\ IsFiniteSet(r.interest)
  <2> DEFINE rest == {e \in p.interest : e.slot # c}
  <2>1. IsFiniteSet(rest) /\ r.interest = rest \cup {n}
    BY <1>1, <1>8, FS_Subset DEF WatchOK
  <2> HIDE DEF rest
  <2>2. IsFiniteSet(r.interest)
    BY <2>1, FS_AddElement
  <2> QED BY <1>1, <1>7, <1>8, <2>2 DEF IsPool
<1>11. ASSUME NEW k \in Slots
       PROVE  {e \in r.interest : e.slot = k} =
                IF r.conn[k].active = {} THEN {} ELSE {Watch(r, k)}
  <2>1. CASE k = c
    <3>1. {e \in r.interest : e.slot = c} = {n}
      BY <1>8, <1>9
    <3>2. r.conn[c].active # {}
      BY <1>3, <1>5
    <3> QED BY <1>9, <2>1, <3>1, <3>2
  <2>2. CASE k # c
    <3>1. {e \in r.interest : e.slot = k} = {e \in p.interest : e.slot = k}
      BY <1>8, <1>9, <2>2
    <3>2. r.conn[k] = p.conn[k]
      BY <1>5, <2>2 DEF Others
    <3> QED BY <1>1, <3>1, <3>2 DEF WatchOK, Watch
  <2> QED BY <2>1, <2>2
<1>12. WatchOK(r)
  BY <1>10, <1>11 DEF WatchOK
<1> QED BY <1>1, <1>5, <1>6, <1>10, <1>12 DEF PoolOK, IsPool, Others

\* ngx_epoll_add_event()
LEMMA AddEventKeeps ==
  ASSUME NEW p, PoolOK(p), NEW c \in Slots, NEW d \in Dirs, p.conn[c].open,
         NEW r, r = AddEvent(p, c, d)
  PROVE  PoolOK(r) /\ Later(p, r)
<1> DEFINE evs == EventsToAdd(p, c, d)
<1>1. IsPool(p)
  BY DEF PoolOK
<1>2. evs \in (SUBSET Dirs) \ {{}} /\ evs = p.conn[c].active \cup {d}
  <2>1. p.conn[c].active \in SUBSET Dirs
    BY <1>1 DEF IsPool, ConnType
  <2>2. evs = p.conn[c].active \cup {d} /\ d \in evs
    BY DEF EventsToAdd
  <2> QED BY <2>1, <2>2
<1> HIDE DEF evs
<1>3. /\ r.free = p.free /\ r.reuse = p.reuse /\ r.posted = p.posted /\ Fields(r)
      /\ r.conn = [p.conn EXCEPT ![c].active = @ \cup {d}]
      /\ r.interest = {e \in p.interest : e.slot # c} \cup
                        {[slot |-> c, instance |-> p.conn[c].instance,
                          use |-> p.conn[c].uses, evs |-> evs]}
  BY <1>1 DEF AddEvent, IsPool, Fields, evs
<1>4. r.conn = [p.conn EXCEPT ![c].active = evs]
  BY <1>2, <1>3
<1> QED BY <1>2, <1>3, <1>4, WatchKeeps

\* ngx_epoll_add_connection() of a connection that is not registered yet.
LEMMA AddConnectionKeeps ==
  ASSUME NEW p, PoolOK(p), NEW c \in Slots, p.conn[c].open, p.conn[c].active = {},
         NEW r, r = AddConnection(p, c)
  PROVE  PoolOK(r) /\ Later(p, r) /\ r.conn[c].open
<1>1. IsPool(p) /\ WatchOK(p)
  BY DEF PoolOK
<1>2. Dirs \in (SUBSET Dirs) \ {{}}
  <2>1. "r" \in Dirs
    BY DEF Dirs
  <2> QED BY <2>1
<1>3. /\ r.free = p.free /\ r.reuse = p.reuse /\ r.posted = p.posted /\ Fields(r)
      /\ r.conn = [p.conn EXCEPT ![c].active = Dirs]
      /\ r.interest = p.interest \cup
                        {[slot |-> c, instance |-> p.conn[c].instance,
                          use |-> p.conn[c].uses, evs |-> Dirs]}
  BY <1>1 DEF AddConnection, IsPool, Fields
<1>4. p.interest = {e \in p.interest : e.slot # c}
  <2>1. {e \in p.interest : e.slot = c} = {}
    BY <1>1 DEF WatchOK
  <2> QED BY <2>1
<1>5. PoolOK(r) /\ Later(p, r)
  BY <1>2, <1>3, <1>4, WatchKeeps, ZenonT(60)
<1>6. r.conn[c].open
  BY <1>1, <1>3 DEF IsPool, ConnType
<1> QED BY <1>5, <1>6

\* ngx_locked_post_event()
LEMMA PostKeeps ==
  ASSUME NEW p, PoolOK(p), NEW c \in Slots, NEW d \in Dirs, p.conn[c].open,
         NEW r, r = PostEvent(p, c, d)
  PROVE  PoolOK(r) /\ Later(p, r)
<1>1. IsPool(p) /\ FreeOK(p) /\ ReuseOK(p) /\ PostedOK(p) /\ WatchOK(p) /\ Parity(p)
  BY DEF PoolOK
<1>2. p.conn[c] \in ConnType
  BY <1>1 DEF IsPool
<1>3. CASE Posted(p, c, d)
  <2>1. r = p
    BY <1>3 DEF PostEvent
  <2>2. \A k \in Slots : p.conn[k].uses \in Nat
    BY <1>1 DEF IsPool, ConnType
  <2> QED BY <2>1, <2>2 DEF Later
<1>4. CASE ~Posted(p, c, d)
  <2> DEFINE e == [slot |-> c, dir |-> d, use |-> p.conn[c].uses]
  <2>1. /\ r.conn = p.conn /\ r.free = p.free /\ r.reuse = p.reuse
        /\ r.interest = p.interest /\ Fields(r) /\ r.posted = <<e>> \o p.posted
    BY <1>1, <1>4 DEF PostEvent, IsPool, Fields
  <2>2. e \in EventType /\ e.slot = c /\ e.dir = d /\ e.use = p.conn[c].uses
    BY <1>2 DEF EventType, ConnType
  <2> HIDE DEF e
  <2>3. /\ Others(p, r, c) /\ r.conn[c].open
        /\ r.conn[c].instance = p.conn[c].instance /\ r.conn[c].uses = p.conn[c].uses
    BY <1>1, <2>1 DEF Others, IsPool
  <2>4. FreeOK(r) /\ Parity(r) /\ Later(p, r) /\ ReuseOK(r) /\ WatchOK(r)
    BY <2>1, <2>3, TouchKeeps
  <2>5. /\ r.posted \in Seq(EventType) /\ Len(r.posted) = Len(p.posted) + 1
        /\ r.posted[1] = e
        /\ \A i \in 1..(Len(p.posted) + 1) : i # 1 => r.posted[i] = p.posted[i - 1]
        /\ Len(p.posted) \in Nat /\ DOMAIN p.posted = 1..Len(p.posted)
        /\ DOMAIN r.posted = 1..(Len(p.posted) + 1)
    BY <1>1, <2>1, <2>2, ConsSeq, LenProperties DEF IsPool
  <2>6. ASSUME NEW i \in DOMAIN r.posted
        PROVE  /\ r.conn[r.posted[i].slot].open
               /\ r.conn[r.posted[i].slot].uses = r.posted[i].use
    <3>1. CASE i = 1
      BY <2>1, <2>2, <2>5, <3>1, SMTT(60)
    <3>2. CASE i # 1
      <4>1. i - 1 \in DOMAIN p.posted /\ r.posted[i] = p.posted[i - 1]
        BY <2>5, <3>2
      <4> QED BY <1>1, <2>1, <4>1 DEF PostedOK
    <3> QED BY <3>1, <3>2
  <2>7. ASSUME NEW k \in DOMAIN p.posted
        PROVE  ~(p.posted[k].slot = c /\ p.posted[k].dir = d)
    BY <1>4 DEF Posted, IsFor
  <2>8. ASSUME NEW i \in DOMAIN r.posted, NEW j \in DOMAIN r.posted,
               r.posted[i].slot = r.posted[j].slot, r.posted[i].dir = r.posted[j].dir
        PROVE  i = j
    <3>1. CASE i = 1 /\ j # 1
      <4>1. j - 1 \in DOMAIN p.posted /\ r.posted[j] = p.posted[j - 1]
        BY <2>5, <3>1, SMTT(60)
      <4> QED BY <2>2, <2>5, <2>7, <2>8, <3>1, <4>1
    <3>2. CASE j = 1 /\ i # 1
      <4>1. i - 1 \in DOMAIN p.posted /\ r.posted[i] = p.posted[i - 1]
        BY <2>5, <3>2
      <4> QED BY <2>2, <2>5, <2>7, <2>8, <3>2, <4>1
    <3>3. CASE i # 1 /\ j # 1
      <4>1. i - 1 \in DOMAIN p.posted /\ r.posted[i] = p.posted[i - 1]
        BY <2>5, <3>3, SMTT(60)
      <4>2. j - 1 \in DOMAIN p.posted /\ r.posted[j] = p.posted[j - 1]
        BY <2>5, <3>3, SMTT(60)
      <4>3. i - 1 = j - 1
        BY <1>1, <2>8, <4>1, <4>2 DEF PostedOK
      <4> QED BY <2>5, <4>3
    <3> QED BY <3>1, <3>2, <3>3
  <2>9. PostedOK(r)
    BY <2>6, <2>8 DEF PostedOK
  <2> QED BY <1>1, <2>1, <2>4, <2>5, <2>9 DEF PoolOK, IsPool
<1> QED BY <1>3, <1>4

\* ngx_add_timer(), ngx_del_timer() and the expiry of one.
LEMMA TimerKeeps ==
  ASSUME NEW p, PoolOK(p), NEW c \in Slots, p.conn[c].open, NEW b \in BOOLEAN,
         NEW r, Fields(r), r.conn = [p.conn EXCEPT ![c].timer = b],
         r.free = p.free, r.reuse = p.reuse, r.posted = p.posted, r.interest = p.interest
  PROVE  PoolOK(r) /\ Later(p, r)
<1> DEFINE x == p.conn[c]
           z == [x EXCEPT !.timer = b]
<1>1. IsPool(p)
  BY DEF PoolOK
<1>2. x \in ConnType
  BY <1>1 DEF IsPool
<1>3. /\ z \in ConnType /\ z.open /\ z.reusable = x.reusable /\ z.active = x.active
      /\ z.instance = x.instance /\ z.uses = x.uses
  BY <1>2 DEF ConnType
<1>4. r.conn = [p.conn EXCEPT ![c] = z]
  BY <1>1 DEF IsPool
<1> HIDE DEF z
<1>5. Others(p, r, c) /\ r.conn[c] = z
  BY <1>1, <1>3, <1>4, SetConn DEF Others
<1>6. /\ r.conn[c].open /\ r.conn[c].instance = p.conn[c].instance
      /\ r.conn[c].uses = p.conn[c].uses /\ r.conn[c].active = p.conn[c].active
      /\ (r.conn[c].reusable <=> p.conn[c].reusable)
  BY <1>3, <1>5
<1>7. FreeOK(r) /\ Parity(r) /\ Later(p, r) /\ PostedOK(r) /\ ReuseOK(r) /\ WatchOK(r)
  BY <1>5, <1>6, TouchKeeps
<1> QED BY <1>1, <1>5, <1>7 DEF PoolOK, IsPool, Others

\* ngx_reusable_connection()
LEMMA ReusableKeeps ==
  ASSUME NEW p, PoolOK(p), NEW c \in Slots, p.conn[c].open, NEW on \in BOOLEAN,
         NEW r, r = Reusable(p, c, on)
  PROVE  PoolOK(r) /\ Later(p, r)
<1> DEFINE x == p.conn[c]
           z == [x EXCEPT !.reusable = on]
           q == IF x.reusable THEN Without(p.reuse, c) ELSE p.reuse
<1>1. IsPool(p) /\ ReuseOK(p)
  BY DEF PoolOK
<1>2. x \in ConnType
  BY <1>1 DEF IsPool
<1>3. /\ z \in ConnType /\ z.open /\ z.reusable = on /\ z.active = x.active
      /\ z.instance = x.instance /\ z.uses = x.uses
  BY <1>2 DEF ConnType
<1>4. /\ r.conn = [p.conn EXCEPT ![c] = z] /\ Fields(r)
      /\ r.free = p.free /\ r.posted = p.posted /\ r.interest = p.interest
      /\ r.reuse = IF on THEN <<c>> \o q ELSE q
  BY <1>1 DEF IsPool, Fields, Reusable
<1> HIDE DEF z
<1>5. Others(p, r, c) /\ r.conn[c] = z
  BY <1>1, <1>3, <1>4, SetConn DEF Others
<1>6. /\ r.conn[c].open /\ r.conn[c].instance = p.conn[c].instance
      /\ r.conn[c].uses = p.conn[c].uses /\ r.conn[c].active = p.conn[c].active
      /\ r.conn[c].reusable = on
  BY <1>3, <1>5
<1>7. FreeOK(r) /\ Parity(r) /\ Later(p, r) /\ PostedOK(r) /\ WatchOK(r)
  BY <1>4, <1>5, <1>6, TouchKeeps
<1>8. /\ IsInjective(p.reuse) /\ p.reuse \in Seq(Slots)
      /\ ToSet(p.reuse) = {k \in Slots : p.conn[k].open /\ p.conn[k].reusable}
  BY <1>1 DEF ReuseOK, IsPool
<1>9. q \in Seq(Slots) /\ IsInjective(q) /\ ToSet(q) = ToSet(p.reuse) \ {c}
  <2>1. CASE x.reusable
    BY <1>8, <2>1, WithoutOne
  <2>2. CASE ~x.reusable
    BY <1>8, <2>2
  <2> QED BY <2>1, <2>2
<1> HIDE DEF q
<1>10. r.reuse \in Seq(Slots) /\ ReuseOK(r)
  <2>1. CASE on
    <3>1. /\ r.reuse \in Seq(Slots) /\ IsInjective(r.reuse)
          /\ ToSet(r.reuse) = ToSet(q) \cup {c}
      BY <1>4, <1>9, <2>1, ConsSeq
    <3>2. ToSet(r.reuse) = {k \in Slots : r.conn[k].open /\ r.conn[k].reusable}
      BY <1>5, <1>6, <1>8, <1>9, <2>1, <3>1 DEF Others
    <3> QED BY <3>1, <3>2 DEF ReuseOK
  <2>2. CASE ~on
    <3>1. r.reuse = q
      BY <1>4, <2>2
    <3>2. ToSet(r.reuse) = {k \in Slots : r.conn[k].open /\ r.conn[k].reusable}
      BY <1>5, <1>6, <1>8, <1>9, <2>2, <3>1 DEF Others
    <3> QED BY <1>9, <3>1, <3>2 DEF ReuseOK
  <2> QED BY <2>1, <2>2
<1> QED BY <1>1, <1>4, <1>5, <1>7, <1>10 DEF PoolOK, IsPool, Others

-----------------------------------------------------------------------------
(* The steps.                                                              *)

\* The operations only look at the fields of the pool.
LEMMA SameFields ==
  ASSUME NEW p, PoolOK(p), NEW q, Fields(q), q.conn = p.conn, q.free = p.free,
         q.reuse = p.reuse, q.posted = p.posted, q.interest = p.interest
  PROVE  PoolOK(q)
<1>1. IsPool(p) /\ FreeOK(p) /\ ReuseOK(p) /\ PostedOK(p) /\ WatchOK(p) /\ Parity(p)
  BY DEF PoolOK
<1>2. IsPool(q)
  BY <1>1 DEF IsPool
<1>3. FreeOK(q) /\ ReuseOK(q)
  BY <1>1 DEF FreeOK, ReuseOK
<1>4. PostedOK(q)
  BY <1>1 DEF PostedOK
<1>5. WatchOK(q)
  <2>1. ASSUME NEW c \in Slots PROVE Watch(q, c) = Watch(p, c)
    BY DEF Watch
  <2> QED BY <1>1, <2>1 DEF WatchOK
<1>6. Parity(q)
  BY <1>1 DEF Parity
<1> QED BY <1>2, <1>3, <1>4, <1>5, <1>6 DEF PoolOK

\* A step that replaces the pool by a sound one.
LEMMA BecomesOK ==
  ASSUME NEW p, PoolOK(p), Becomes(p)
  PROVE  PoolOK(Pool)' /\ conn' = p.conn
<1>1. /\ Fields(Pool') /\ Pool'.conn = p.conn /\ Pool'.free = p.free
      /\ Pool'.reuse = p.reuse /\ Pool'.posted = p.posted /\ Pool'.interest = p.interest
  BY DEF Becomes, Pool, Fields
<1>2. PoolOK(Pool')
  BY <1>1, SameFields
<1> QED BY <1>2 DEF Becomes

\* A step that leaves the pool alone.
LEMMA PoolUnchanged ==
  ASSUME PoolOK(Pool), UNCHANGED <<conn, free, reuse, posted, interest>>
  PROVE  PoolOK(Pool)'
<1>1. Pool' = Pool
  BY DEF Pool
<1> QED BY <1>1

\* The batch is kept or loses its head, and no use is taken back.
LEMMA BatchKept ==
  ASSUME batch \in Seq(ReportType), BatchOK,
         batch' = batch \/ (batch # <<>> /\ batch' = Tail(batch)),
         NEW p, IsPool(p), IsPool(Pool), Later(Pool, p), conn' = p.conn
  PROVE  BatchOK' /\ batch' \in Seq(ReportType)
<1>1. ASSUME NEW i \in DOMAIN batch, batch[i].slot # 0
      PROVE  batch[i].use <= conn'[batch[i].slot].uses
  <2>1. batch[i] \in ReportType /\ batch[i].use <= conn[batch[i].slot].uses
    BY <1>1, ElementOfSeq DEF BatchOK
  <2>2. batch[i].slot \in Slots /\ batch[i].use \in Nat
    BY <1>1, <2>1, ConnectionsAssumption DEF ReportType, Slots
  <2>3. conn[batch[i].slot].uses <= conn'[batch[i].slot].uses
    BY <2>2 DEF Later, Pool
  <2>4. conn[batch[i].slot].uses \in Nat /\ conn'[batch[i].slot].uses \in Nat
    BY <2>2 DEF IsPool, Pool, ConnType
  <2> QED BY <2>1, <2>2, <2>3, <2>4
<1>2. CASE batch' = batch
  BY <1>1, <1>2 DEF BatchOK
<1>3. CASE batch # <<>> /\ batch' = Tail(batch)
  <2>1. /\ batch' \in Seq(ReportType) /\ Len(batch') = Len(batch) - 1
        /\ \A i \in 1..(Len(batch) - 1) : batch'[i] = batch[i + 1]
        /\ Len(batch) \in Nat /\ DOMAIN batch = 1..Len(batch)
        /\ DOMAIN batch' = 1..(Len(batch) - 1)
    BY <1>3, TailSeq, LenProperties
  <2>2. ASSUME NEW i \in DOMAIN batch' PROVE i + 1 \in DOMAIN batch /\ batch'[i] = batch[i + 1]
    BY <2>1
  <2> QED BY <1>1, <2>1, <2>2 DEF BatchOK
<1> QED BY <1>2, <1>3

\* No use is taken back over several operations.
LEMMA LaterTrans ==
  ASSUME NEW p, NEW q, NEW r, IsPool(p), IsPool(q), IsPool(r), Later(p, q), Later(q, r)
  PROVE  Later(p, r)
<1> SUFFICES ASSUME NEW c \in Slots PROVE p.conn[c].uses <= r.conn[c].uses
  BY DEF Later
<1>1. p.conn[c].uses \in Nat /\ q.conn[c].uses \in Nat /\ r.conn[c].uses \in Nat
  BY DEF IsPool, ConnType
<1>2. p.conn[c].uses <= q.conn[c].uses /\ q.conn[c].uses <= r.conn[c].uses
  BY DEF Later
<1> QED BY <1>1, <1>2

\* No use is taken back by doing nothing.
LEMMA SameLater ==
  ASSUME IsPool(Pool) PROVE Later(Pool, Pool)
<1>1. \A c \in Slots : Pool.conn[c].uses \in Nat
  BY DEF IsPool, ConnType
<1> QED BY <1>1 DEF Later

\* An operation of a handler, once it is known to keep the pool.
LEMMA OpKeeps ==
  ASSUME IInv, NEW p, PoolOK(p), Later(Pool, p), Op(p)
  PROVE  IInv'
<1>1. PoolOK(Pool)' /\ conn' = p.conn
  BY BecomesOK DEF Op
<1>2. BatchOK' /\ batch' \in Seq(ReportType)
  BY <1>1, BatchKept DEF IInv, CtlOK, Op, PoolOK
<1>3. CtlOK'
  BY <1>2, ConnectionsAssumption DEF IInv, CtlOK, Op
<1>4. GetOK' /\ WriteOK' /\ StaleNeedsTwoReuses'
  BY DEF IInv, GetOK, WriteOK, StaleNeedsTwoReuses, Op, Busy
<1> QED BY <1>1, <1>2, <1>3, <1>4 DEF IInv

\* A return of ngx_get_connection(), once it is known to keep the pool.
LEMMA ReturnKeeps ==
  ASSUME IInv, NEW p, PoolOK(p), Later(Pool, p), Return(p)
  PROVE  IInv'
<1>1. PoolOK(Pool)' /\ conn' = p.conn
  BY BecomesOK DEF Return
<1>2. BatchOK' /\ batch' \in Seq(ReportType)
  BY <1>1, BatchKept DEF IInv, CtlOK, Return, PoolOK
<1>3. CtlOK'
  <2>0. left' = 0 /\ getting' = FALSE
    BY DEF Return
  <2>1. left' \in 0..DrainMax
    BY <2>0, ConnectionsAssumption
  <2>2. UNCHANGED <<post, pc, run, ops, accepting, crossed>>
    BY DEF Return
  <2> QED BY <1>2, <2>0, <2>1, <2>2 DEF IInv, CtlOK
<1>4. GetOK' /\ WriteOK' /\ StaleNeedsTwoReuses'
  BY DEF IInv, GetOK, WriteOK, StaleNeedsTwoReuses, Return
<1> QED BY <1>1, <1>2, <1>3, <1>4 DEF IInv

\* Everything a handler does keeps the invariant.
LEMMA HandlerKeeps ==
  ASSUME IInv, Handler
  PROVE  IInv'
<1> DEFINE g == GetConnection(Pool)
<1>0. /\ PoolOK(Pool) /\ IsPool(Pool) /\ CtlOK /\ Later(Pool, Pool)
      /\ Pool.conn = conn /\ Pool.free = free /\ Pool.reuse = reuse
  BY SameLater DEF IInv, PoolOK, Pool
<1>1. CASE HandlerGet
  <2>1. PoolOK(Pool)'
    BY <1>0, <1>1, PoolUnchanged DEF HandlerGet, pool
  <2>2. BatchOK' /\ batch' = batch
    BY <1>1 DEF IInv, BatchOK, HandlerGet, pool
  <2>3. left' \in 0..DrainMax /\ ops' \in 0..MaxOps
    BY <1>0, <1>1, ConnectionsAssumption DEF CtlOK, HandlerGet
  <2>4. CtlOK'
    BY <1>0, <1>1, <2>3 DEF CtlOK, HandlerGet, pool
  <2>5. GetOK'
    BY <1>1, ConnectionsAssumption DEF GetOK, HandlerGet, Busy, pool
  <2>6. WriteOK' /\ StaleNeedsTwoReuses'
    BY <1>1 DEF IInv, WriteOK, StaleNeedsTwoReuses, HandlerGet, pool
  <2> QED BY <2>1, <2>2, <2>4, <2>5, <2>6 DEF IInv
<1>2. CASE DrainConnections
  <2> DEFINE c == Last(reuse)
             p == CloseConnection(Pool, c)
  <2>1. c \in Slots /\ conn[c].open
    <3>1. reuse \in Seq(Slots) /\ reuse # <<>> /\ ToSet(reuse) = {k \in Slots : conn[k].open /\ conn[k].reusable}
      BY <1>0, <1>2 DEF DrainConnections, Draining, PoolOK, IsPool, ReuseOK
    <3>2. Len(reuse) \in DOMAIN reuse /\ c = reuse[Len(reuse)]
      BY <3>1, EmptySeq, LenProperties DEF Last
    <3> QED BY <3>1, <3>2 DEF ToSet
  <2> HIDE DEF c
  <2>2. PoolOK(p) /\ Later(Pool, p)
    BY <1>0, <2>1, CloseKeeps
  <2>3. p.free = <<c>> \o free
    BY <1>0, <2>1, CloseFields
  <2>3a. Becomes(p)
    BY <1>2 DEF DrainConnections, c
  <2> HIDE DEF p
  <2>4. PoolOK(Pool)' /\ conn' = p.conn
    BY <2>2, <2>3a, BecomesOK
  <2>5. BatchOK' /\ batch' \in Seq(ReportType)
    BY <1>0, <1>2, <2>2, <2>4, BatchKept
       DEF IInv, CtlOK, DrainConnections, PoolOK
  <2>6. left' \in 0..DrainMax
    BY <1>0, <1>2, ConnectionsAssumption DEF CtlOK, DrainConnections, Draining
  <2>7. CtlOK'
    BY <1>0, <1>2, <2>5, <2>6 DEF CtlOK, DrainConnections
  <2>8. free' # <<>>
    <3>1. free' = <<c>> \o free /\ free \in Seq(Slots)
      BY <1>0, <2>3, <2>3a DEF Becomes, IsPool
    <3>2. Len(free') = Len(free) + 1 /\ Len(free) \in Nat
      BY <2>1, <3>1, ConsSeq, LenProperties
    <3> QED BY <3>2
  <2>9. GetOK' /\ WriteOK' /\ StaleNeedsTwoReuses'
    BY <1>2, <2>8
       DEF IInv, GetOK, WriteOK, StaleNeedsTwoReuses, DrainConnections
  <2> QED BY <2>4, <2>5, <2>7, <2>9 DEF IInv
<1>3. ASSUME free # <<>>
      PROVE  /\ PoolOK(g) /\ Later(Pool, g) /\ First \in Slots
             /\ g.conn[First].open /\ g.conn[First].active = {}
             /\ ~g.conn[First].timer /\ ~g.conn[First].reusable
             /\ \A i \in DOMAIN g.posted : g.posted[i].slot # First
  <2>1. /\ PoolOK(g) /\ Later(Pool, g) /\ First \in Slots
        /\ g.conn[First] = Fresh(conn[First])
        /\ \A i \in DOMAIN g.posted : g.posted[i].slot # First
    BY <1>0, <1>3, GetKeeps DEF First
  <2> QED BY <2>1 DEF Fresh
<1> HIDE DEF g
<1>4. CASE HandlerAccept
  BY <1>3, <1>4, ReturnKeeps DEF HandlerAccept, g
<1>5. CASE HandlerAcceptFailed
  <2> DEFINE p == FreeConnection(g, First)
  <2>1. PoolOK(p) /\ Later(g, p)
    BY <1>3, <1>5, FreeKeeps DEF HandlerAcceptFailed
  <2>2. Return(p)
    BY <1>5 DEF HandlerAcceptFailed, g
  <2> HIDE DEF p
  <2>3. Later(Pool, p)
    BY <1>0, <1>3, <1>5, <2>1, LaterTrans DEF HandlerAcceptFailed, PoolOK
  <2> QED BY <2>1, <2>2, <2>3, ReturnKeeps
<1>6. CASE HandlerConnect
  <2> DEFINE p == AddConnection(g, First)
  <2>1. PoolOK(p) /\ Later(g, p)
    BY <1>3, <1>6, AddConnectionKeeps DEF HandlerConnect
  <2>2. Return(p)
    BY <1>6 DEF HandlerConnect, g
  <2> HIDE DEF p
  <2>3. Later(Pool, p)
    BY <1>0, <1>3, <1>6, <2>1, LaterTrans DEF HandlerConnect, PoolOK
  <2> QED BY <2>1, <2>2, <2>3, ReturnKeeps
<1>7. CASE HandlerConnectFailed
  <2> DEFINE q == AddConnection(g, First)
             p == CloseConnection(q, First)
  <2>1. PoolOK(q) /\ Later(g, q) /\ q.conn[First].open
    BY <1>3, <1>7, AddConnectionKeeps DEF HandlerConnectFailed
  <2>2. Return(p)
    BY <1>7 DEF HandlerConnectFailed, g
  <2> HIDE DEF q
  <2>3. PoolOK(p) /\ Later(q, p)
    BY <1>3, <1>7, <2>1, CloseKeeps DEF HandlerConnectFailed
  <2> HIDE DEF p
  <2>4. Later(Pool, q)
    BY <1>0, <1>3, <1>7, <2>1, LaterTrans DEF HandlerConnectFailed, PoolOK
  <2>5. Later(Pool, p)
    BY <1>0, <2>1, <2>3, <2>4, LaterTrans DEF PoolOK
  <2> QED BY <2>2, <2>3, <2>5, ReturnKeeps
<1>8. CASE HandlerNoConnection
  BY <1>0, <1>8, ReturnKeeps DEF HandlerNoConnection
<1>9. CASE HandlerReturn
  <2>1. PoolOK(Pool)'
    BY <1>0, <1>9, PoolUnchanged DEF HandlerReturn, pool
  <2>2. BatchOK' /\ CtlOK'
    BY <1>0, <1>9 DEF IInv, BatchOK, CtlOK, HandlerReturn, pool
  <2>3. GetOK' /\ WriteOK' /\ StaleNeedsTwoReuses'
    BY <1>9
       DEF IInv, GetOK, WriteOK, StaleNeedsTwoReuses, HandlerReturn, Busy, pool
  <2> QED BY <2>1, <2>2, <2>3 DEF IInv
<1>10. ASSUME NEW c \in Slots, HandlerClose(c) PROVE IInv'
  <2>1. PoolOK(CloseConnection(Pool, c)) /\ Later(Pool, CloseConnection(Pool, c))
    BY <1>0, <1>10, CloseKeeps DEF HandlerClose, Open
  <2> QED BY <1>10, <2>1, OpKeeps DEF HandlerClose
<1>11. ASSUME NEW c \in Slots, HandlerReusable(c) PROVE IInv'
  <2> DEFINE on == ~conn[c].reusable
  <2>1. on \in BOOLEAN
    OBVIOUS
  <2>2. Op(Reusable(Pool, c, on)) /\ conn[c].open
    BY <1>11 DEF HandlerReusable, Open
  <2> HIDE DEF on
  <2>3. PoolOK(Reusable(Pool, c, on)) /\ Later(Pool, Reusable(Pool, c, on))
    BY <1>0, <2>1, <2>2, ReusableKeeps
  <2> QED BY <2>2, <2>3, OpKeeps
<1>12. ASSUME NEW c \in Slots, HandlerTimer(c) PROVE IInv'
  <2> DEFINE b == ~conn[c].timer
             p == [Pool EXCEPT !.conn[c].timer = ~@]
  <2>1. b \in BOOLEAN
    OBVIOUS
  <2>2. Op(p) /\ conn[c].open
    BY <1>12 DEF HandlerTimer, Open
  <2>3. /\ Fields(p) /\ p.free = Pool.free /\ p.reuse = Pool.reuse
        /\ p.posted = Pool.posted /\ p.interest = Pool.interest
        /\ p.conn = [Pool.conn EXCEPT ![c].timer = b]
    BY <1>0 DEF Fields, IsPool, Pool
  <2> HIDE DEF b, p
  <2>4. PoolOK(p) /\ Later(Pool, p)
    BY <1>0, <2>1, <2>2, <2>3, TimerKeeps
  <2> QED BY <2>2, <2>4, OpKeeps
<1>13. ASSUME NEW c \in Slots, NEW d \in Dirs, HandlerAddEvent(c, d) PROVE IInv'
  <2>1. PoolOK(AddEvent(Pool, c, d)) /\ Later(Pool, AddEvent(Pool, c, d))
    BY <1>0, <1>13, AddEventKeeps DEF HandlerAddEvent, Open
  <2> QED BY <1>13, <2>1, OpKeeps DEF HandlerAddEvent
<1>14. ASSUME NEW c \in Slots, NEW d \in Dirs, HandlerPost(c, d) PROVE IInv'
  <2>1. PoolOK(PostEvent(Pool, c, d)) /\ Later(Pool, PostEvent(Pool, c, d))
    BY <1>0, <1>14, PostKeeps DEF HandlerPost, Open
  <2> QED BY <1>14, <2>1, OpKeeps DEF HandlerPost
<1> QED BY <1>1, <1>2, <1>4, <1>5, <1>6, <1>7, <1>8, <1>9, <1>10, <1>11, <1>12,
           <1>13, <1>14 DEF Handler

\* An event that passed the instance check belongs to the slot's present use,
\* or an even number of uses lie between.
LEMMA CrossEven ==
  ASSUME IInv, batch # <<>>, Head(batch).slot # 0, ~Stale(Head(batch)), Cross(Head(batch))
  PROVE  /\ crossed' \subseteq Nat /\ StaleNeedsTwoReuses'
<1> DEFINE e == Head(batch)
           u == conn[e.slot].uses
<1>1. batch \in Seq(ReportType) /\ crossed \subseteq Nat /\ IsPool(Pool) /\ Parity(Pool)
  BY DEF IInv, CtlOK, PoolOK
<1>2. 1 \in DOMAIN batch /\ e = batch[1] /\ e \in ReportType
  BY <1>1, TailSeq, LenProperties
<1>3. (e.instance <=> e.use % 2 = 0) /\ e.use <= u
  BY <1>2 DEF IInv, BatchOK
<1>4. e.slot \in Slots /\ e.use \in Nat /\ e.instance \in BOOLEAN
  BY <1>2, ConnectionsAssumption DEF ReportType, Slots
<1>5. conn[e.slot] \in ConnType /\ (conn[e.slot].instance <=> u % 2 = 0)
  BY <1>1, <1>4 DEF IsPool, Pool, Parity
<1>6. u \in Nat /\ conn[e.slot].instance \in BOOLEAN
  BY <1>5 DEF ConnType
<1>7. conn[e.slot].instance <=> e.instance
  BY <1>4, <1>6 DEF Stale
<1>8. crossed' = IF u = e.use THEN crossed ELSE crossed \cup {u - e.use}
  BY DEF Cross
<1> HIDE DEF u, e
<1>9. u % 2 = 0 <=> e.use % 2 = 0
  BY <1>3, <1>5, <1>7
<1>10. u - e.use \in Nat /\ (u - e.use) % 2 = 0
  BY <1>3, <1>4, <1>6, <1>9
<1> QED BY <1>1, <1>8, <1>10 DEF IInv, StaleNeedsTwoReuses

\* The handler of an event runs or is posted.
LEMMA DeliverKeeps ==
  ASSUME IInv, batch # <<>>, Head(batch).slot # 0, ~Stale(Head(batch)),
         NEW d \in Dirs, d \in conn[Head(batch).slot].active, Deliver(Head(batch), d),
         batch' = batch \/ batch' = Tail(batch)
  PROVE  /\ PoolOK(Pool)' /\ BatchOK' /\ batch' \in Seq(ReportType)
         /\ crossed' \subseteq Nat /\ StaleNeedsTwoReuses' /\ run' \in BOOLEAN
<1> DEFINE e == Head(batch)
           p == PostEvent(Pool, e.slot, d)
<1>1. /\ batch \in Seq(ReportType) /\ PoolOK(Pool) /\ IsPool(Pool) /\ run \in BOOLEAN
      /\ BatchOK /\ Later(Pool, Pool)
  BY SameLater DEF IInv, CtlOK, PoolOK
<1>2. crossed' \subseteq Nat /\ StaleNeedsTwoReuses'
  BY CrossEven DEF Deliver
<1>3. e.slot \in Slots /\ conn[e.slot].open
  <2>1. e \in ReportType
    BY <1>1, TailSeq
  <2>2. e.slot \in Slots
    BY <2>1, ConnectionsAssumption DEF ReportType, Slots
  <2> QED BY <2>2 DEF Stale
<1> HIDE DEF e
<1>4. CASE post
  <2>1. PoolOK(p) /\ Later(Pool, p)
    BY <1>1, <1>3, PostKeeps DEF Pool
  <2>2. Becomes(p) /\ run' = run
    BY <1>4 DEF Deliver, e
  <2> HIDE DEF p
  <2>3. PoolOK(Pool)' /\ conn' = p.conn
    BY <2>1, <2>2, BecomesOK
  <2>4. BatchOK' /\ batch' \in Seq(ReportType)
    BY <1>1, <2>1, <2>3, BatchKept DEF PoolOK
  <2> QED BY <1>1, <1>2, <2>2, <2>3, <2>4
<1>5. CASE ~post
  <2>1. run' = TRUE /\ UNCHANGED <<conn, free, reuse, posted, interest>>
    BY <1>5 DEF Deliver
  <2>2. PoolOK(Pool)' /\ conn' = Pool.conn
    BY <1>1, <2>1, PoolUnchanged DEF Pool
  <2>3. BatchOK' /\ batch' \in Seq(ReportType)
    BY <1>1, <2>2, BatchKept
  <2> QED BY <1>2, <2>1, <2>2, <2>3
<1> QED BY <1>4, <1>5

\* A step that leaves the pool alone and keeps the batch or its tail.
LEMMA QuietKeeps ==
  ASSUME IInv, UNCHANGED <<conn, free, reuse, posted, interest, crossed>>,
         batch' = batch \/ (batch # <<>> /\ batch' = Tail(batch))
  PROVE  /\ PoolOK(Pool)' /\ BatchOK' /\ batch' \in Seq(ReportType)
         /\ crossed' \subseteq Nat /\ StaleNeedsTwoReuses'
<1>1. /\ batch \in Seq(ReportType) /\ PoolOK(Pool) /\ IsPool(Pool) /\ crossed \subseteq Nat
      /\ BatchOK /\ Later(Pool, Pool)
  BY SameLater DEF IInv, CtlOK, PoolOK
<1>2. PoolOK(Pool)' /\ conn' = Pool.conn
  BY <1>1, PoolUnchanged DEF Pool
<1>3. BatchOK' /\ batch' \in Seq(ReportType)
  BY <1>1, <1>2, BatchKept
<1> QED BY <1>1, <1>2, <1>3 DEF IInv, StaleNeedsTwoReuses

\* epoll_wait(): what it reports is registered, so it is of the present use.
LEMMA EpollWaitKeeps ==
  ASSUME IInv, EpollWait
  PROVE  IInv'
<1>1. /\ PoolOK(Pool) /\ IsPool(Pool) /\ WatchOK(Pool) /\ Parity(Pool) /\ CtlOK
      /\ interest \subseteq WatchType /\ IsFiniteSet(interest)
  BY DEF IInv, PoolOK, IsPool, WatchOK, Pool
<1>2. PICK some \in SUBSET interest :
        \E rep \in [some -> UNION {Reported(e) : e \in some}] :
          /\ \A e \in some : rep[e] \in Reported(e)
          /\ \E l \in SUBSET {Listening} :
               batch' \in SetToSeqs({rep[e] : e \in some} \cup l)
  BY DEF EpollWait
<1>3. PICK rep \in [some -> UNION {Reported(e) : e \in some}] :
          /\ \A e \in some : rep[e] \in Reported(e)
          /\ \E l \in SUBSET {Listening} :
               batch' \in SetToSeqs({rep[e] : e \in some} \cup l)
  BY <1>2
<1>4. PICK l \in SUBSET {Listening} : batch' \in SetToSeqs({rep[e] : e \in some} \cup l)
  BY <1>3
<1> DEFINE R == {rep[e] : e \in some}
           n == Cardinality(R \cup l)
<1>5. n \in Nat
  <2>1. IsFiniteSet(some)
    BY <1>1, FS_Subset
  <2>2. rep \in Surjection(some, R)
    BY <1>3 DEF Surjection
  <2>3. IsFiniteSet(R)
    BY <2>1, <2>2, FS_Surjection
  <2> HIDE DEF R
  <2>4. IsFiniteSet(l)
    BY FS_Singleton, FS_Subset
  <2>5. IsFiniteSet(R \cup l)
    BY <2>3, <2>4, FS_Union
  <2> QED BY <2>5, FS_CardinalityType
<1>6. batch' \in [1..n -> R \cup l]
  BY <1>4 DEF SetToSeqs
<1> HIDE DEF n
<1>7. ASSUME NEW x \in R \cup l
      PROVE  /\ x \in ReportType
             /\ x.slot # 0 => /\ x.instance <=> x.use % 2 = 0
                              /\ x.use <= conn[x.slot].uses
  <2>1. CASE x \in l
    <3>1. x = Listening
      BY <2>1
    <3>2. {"r"} \in (SUBSET Dirs) \ {{}}
      BY DEF Dirs
    <3> QED BY <3>1, <3>2, ConnectionsAssumption DEF Listening, ReportType
  <2>2. CASE x \in R
    <3>1. PICK e \in some : x \in Reported(e)
      BY <1>3, <2>2
    <3>2. PICK evs \in ((SUBSET e.evs) \ {{}}) \cup {Dirs} :
            x = [slot |-> e.slot, instance |-> e.instance, use |-> e.use, evs |-> evs]
      BY <3>1 DEF Reported
    <3>3. e \in WatchType /\ e \in interest
      BY <1>1, <3>1
    <3>4. /\ e.slot \in Slots /\ e.instance \in BOOLEAN /\ e.use \in Nat
          /\ e.evs \in SUBSET Dirs
      BY <3>3 DEF WatchType
    <3>5. evs \in (SUBSET Dirs) \ {{}}
      <4>1. "r" \in Dirs
        BY DEF Dirs
      <4> QED BY <3>4, <4>1
    <3>6. x \in ReportType
      BY <3>2, <3>4, <3>5, ConnectionsAssumption DEF ReportType, Slots
    <3>7. e = Watch(Pool, e.slot)
      <4>1. e \in {y \in Pool.interest : y.slot = e.slot}
        BY <3>3 DEF Pool
      <4> QED BY <1>1, <3>4, <4>1 DEF WatchOK
    <3>8. e.instance = conn[e.slot].instance /\ e.use = conn[e.slot].uses
      BY <3>7 DEF Watch, Pool
    <3>9. conn[e.slot].instance <=> conn[e.slot].uses % 2 = 0
      BY <1>1, <3>4 DEF Parity, Pool
    <3>10. x.slot = e.slot /\ x.instance = e.instance /\ x.use = e.use
      BY <3>2
    <3> QED BY <3>4, <3>6, <3>8, <3>9, <3>10
  <2> QED BY <2>1, <2>2
<1>8. batch' \in Seq(ReportType) /\ DOMAIN batch' = 1..n
  <2>1. batch' \in [1..n -> ReportType]
    BY <1>6, <1>7
  <2> QED BY <1>5, <2>1
<1>9. UNCHANGED <<conn, free, reuse, posted, interest, crossed, run, ops, getting, left, accepting>>
      /\ post' \in BOOLEAN /\ pc' = "read"
  BY DEF EpollWait, pool
<1>10. BatchOK'
  BY <1>6, <1>7, <1>8, <1>9 DEF BatchOK
<1>11. PoolOK(Pool)'
  BY <1>1, <1>9, PoolUnchanged
<1>12. CtlOK'
  BY <1>1, <1>8, <1>9 DEF CtlOK
<1>13. GetOK' /\ WriteOK' /\ StaleNeedsTwoReuses'
  BY <1>9 DEF IInv, GetOK, WriteOK, StaleNeedsTwoReuses
<1> QED BY <1>10, <1>11, <1>12, <1>13 DEF IInv

\* The invariant holds after ngx_event_process_init().
LEMMA InitOK ==
  ASSUME Init PROVE IInv
<1>1. \A c \in Slots :
        /\ ~conn[c].open /\ conn[c].instance /\ conn[c].active = {} /\ ~conn[c].timer
        /\ ~conn[c].reusable /\ conn[c].uses = 0
  BY DEF Init
<1>2. conn \in [Slots -> ConnType]
  BY DEF Init, ConnType
<1>3. /\ free \in Seq(Slots) /\ DOMAIN free = Slots /\ \A c \in Slots : free[c] = c
  BY ConnectionsAssumption DEF Init, Slots
<1>4. reuse = <<>> /\ posted = <<>> /\ interest = {}
  BY DEF Init
<1>5. IsPool(Pool)
  BY <1>2, <1>3, <1>4 DEF IsPool, Fields, Pool
<1>6. FreeOK(Pool)
  BY <1>1, <1>3 DEF FreeOK, Pool, IsInjective, ToSet
<1>7. ReuseOK(Pool)
  BY <1>1, <1>4 DEF ReuseOK, Pool, IsInjective, ToSet
<1>8. PostedOK(Pool)
  BY <1>4 DEF PostedOK, Pool
<1>9. WatchOK(Pool)
  BY <1>1, <1>4, FS_EmptySet DEF WatchOK, Pool
<1>10. Parity(Pool)
  BY <1>1 DEF Parity, Pool
<1>11. CtlOK
  <2>1. left \in 0..DrainMax /\ ops \in 0..MaxOps
    BY ConnectionsAssumption DEF Init
  <2>2. /\ batch \in Seq(ReportType) /\ crossed = {} /\ pc = "wait"
        /\ post = FALSE /\ accepting = FALSE /\ getting = FALSE /\ run = FALSE
    BY DEF Init
  <2> QED BY <2>1, <2>2 DEF CtlOK
<1>12. BatchOK /\ GetOK /\ WriteOK /\ StaleNeedsTwoReuses
  BY DEF Init, BatchOK, GetOK, WriteOK, StaleNeedsTwoReuses
<1> QED BY <1>5, <1>6, <1>7, <1>8, <1>9, <1>10, <1>11, <1>12 DEF IInv, PoolOK

\* Every step keeps the invariant.
LEMMA NextKeeps ==
  ASSUME IInv, [Next]_vars PROVE IInv'
<1>0. /\ PoolOK(Pool) /\ IsPool(Pool) /\ CtlOK /\ GetOK /\ WriteOK /\ Later(Pool, Pool)
      /\ Pool.conn = conn
  BY SameLater DEF IInv, PoolOK, Pool
<1>1. CASE Handler
  BY <1>1, HandlerKeeps
<1>2. CASE EpollWait
  BY <1>2, EpollWaitKeeps
<1>3. CASE EpollListening
  <2>1. /\ PoolOK(Pool)' /\ BatchOK' /\ batch' \in Seq(ReportType)
        /\ crossed' \subseteq Nat /\ StaleNeedsTwoReuses'
    BY <1>3, QuietKeeps DEF EpollListening, pool
  <2>2. CtlOK'
    BY <1>0, <1>3, <2>1 DEF EpollListening, CtlOK, pool
  <2>3. GetOK' /\ WriteOK'
    BY <1>0, <1>3 DEF EpollListening, At, GetOK, WriteOK
  <2> QED BY <2>1, <2>2, <2>3 DEF IInv
<1>4. CASE EpollStale
  <2>1. /\ PoolOK(Pool)' /\ BatchOK' /\ batch' \in Seq(ReportType)
        /\ crossed' \subseteq Nat /\ StaleNeedsTwoReuses'
    BY <1>4, QuietKeeps DEF EpollStale, pool
  <2>2. CtlOK'
    BY <1>0, <1>4, <2>1 DEF EpollStale, CtlOK, pool
  <2>3. GetOK' /\ WriteOK'
    BY <1>0, <1>4 DEF EpollStale, At, GetOK, WriteOK
  <2> QED BY <2>1, <2>2, <2>3 DEF IInv
<1>5. CASE EpollRead
  <2> DEFINE e == Head(batch)
  <2>1. /\ PoolOK(Pool)' /\ BatchOK' /\ batch' \in Seq(ReportType)
        /\ crossed' \subseteq Nat /\ StaleNeedsTwoReuses' /\ run' \in BOOLEAN
    <3>1. CASE "r" \in e.evs /\ "r" \in conn[e.slot].active
      <4>1. Deliver(e, "r") /\ batch # <<>> /\ e.slot # 0 /\ ~Stale(e) /\ batch' = batch
        BY <1>5, <3>1 DEF EpollRead
      <4> QED BY <3>1, <4>1, DeliverKeeps DEF Dirs
    <3>2. CASE ~("r" \in e.evs /\ "r" \in conn[e.slot].active)
      <4>1. UNCHANGED <<conn, free, reuse, posted, interest, crossed>> /\ run' = run /\ batch' = batch
        BY <1>5, <3>2 DEF EpollRead, pool
      <4> QED BY <1>0, <4>1, QuietKeeps DEF CtlOK
    <3> QED BY <3>1, <3>2
  <2>2. CtlOK'
    BY <1>0, <1>5, <2>1 DEF EpollRead, CtlOK
  <2>3. GetOK' /\ WriteOK'
    BY <1>0, <1>5 DEF EpollRead, At, GetOK, WriteOK
  <2> QED BY <2>1, <2>2, <2>3 DEF IInv
<1>6. CASE EpollWrite
  <2> DEFINE e == Head(batch)
  <2>0. batch # <<>> /\ e.slot # 0
    BY <1>0, <1>6 DEF EpollWrite, At, WriteOK
  <2>1. /\ PoolOK(Pool)' /\ BatchOK' /\ batch' \in Seq(ReportType)
        /\ crossed' \subseteq Nat /\ StaleNeedsTwoReuses' /\ run' \in BOOLEAN
    <3>1. CASE "w" \in e.evs /\ "w" \in conn[e.slot].active /\ ~Stale(e)
      <4>1. Deliver(e, "w") /\ batch' = Tail(batch)
        BY <1>6, <3>1 DEF EpollWrite
      <4> QED BY <2>0, <3>1, <4>1, DeliverKeeps DEF Dirs
    <3>2. CASE ~("w" \in e.evs /\ "w" \in conn[e.slot].active /\ ~Stale(e))
      <4>1. /\ UNCHANGED <<conn, free, reuse, posted, interest, crossed>>
            /\ run' = run /\ batch' = Tail(batch)
        BY <1>6, <3>2 DEF EpollWrite, pool
      <4> QED BY <1>0, <2>0, <4>1, QuietKeeps DEF CtlOK
    <3> QED BY <3>1, <3>2
  <2>2. CtlOK'
    BY <1>0, <1>6, <2>1 DEF EpollWrite, CtlOK
  <2>3. GetOK' /\ WriteOK'
    BY <1>0, <1>6 DEF EpollWrite, At, GetOK, WriteOK
  <2> QED BY <2>1, <2>2, <2>3 DEF IInv
<1>7. CASE EpollDone
  <2>1. /\ PoolOK(Pool)' /\ BatchOK' /\ batch' \in Seq(ReportType)
        /\ crossed' \subseteq Nat /\ StaleNeedsTwoReuses'
    BY <1>7, QuietKeeps DEF EpollDone, pool
  <2>2. CtlOK'
    BY <1>0, <1>7, <2>1 DEF EpollDone, CtlOK, pool
  <2>3. GetOK' /\ WriteOK'
    BY <1>0, <1>7 DEF EpollDone, At, GetOK, WriteOK
  <2> QED BY <2>1, <2>2, <2>3 DEF IInv
<1>8. ASSUME NEW c \in Slots, ExpireTimer(c) PROVE IInv'
  <2> DEFINE p == [Pool EXCEPT !.conn = [conn EXCEPT ![c].timer = FALSE]]
  <2>1. /\ Fields(p) /\ p.free = Pool.free /\ p.reuse = Pool.reuse
        /\ p.posted = Pool.posted /\ p.interest = Pool.interest
        /\ p.conn = [Pool.conn EXCEPT ![c].timer = FALSE]
    BY DEF Fields, Pool
  <2>2. Becomes(p)
    BY <1>8 DEF ExpireTimer, Becomes, Pool
  <2> HIDE DEF p
  <2>3. conn[c].open
    BY <1>0, <1>8 DEF ExpireTimer, PoolOK, FreeOK
  <2>4. PoolOK(p) /\ Later(Pool, p)
    BY <1>0, <2>1, <2>3, TimerKeeps
  <2>5. PoolOK(Pool)' /\ conn' = p.conn
    BY <2>2, <2>4, BecomesOK
  <2>6. BatchOK' /\ batch' \in Seq(ReportType)
    BY <1>0, <1>8, <2>4, <2>5, BatchKept DEF IInv, CtlOK, ExpireTimer, PoolOK
  <2>7. CtlOK'
    BY <1>0, <1>8, <2>6 DEF ExpireTimer, CtlOK
  <2>8. GetOK' /\ WriteOK' /\ StaleNeedsTwoReuses'
    BY <1>0, <1>8 DEF IInv, ExpireTimer, At, GetOK, WriteOK, StaleNeedsTwoReuses
  <2> QED BY <2>5, <2>6, <2>7, <2>8 DEF IInv
<1>9. CASE TimersDone
  <2>1. /\ PoolOK(Pool)' /\ BatchOK' /\ batch' \in Seq(ReportType)
        /\ crossed' \subseteq Nat /\ StaleNeedsTwoReuses'
    BY <1>9, QuietKeeps DEF TimersDone, pool
  <2>2. CtlOK'
    BY <1>0, <1>9, <2>1 DEF TimersDone, CtlOK, pool
  <2>3. GetOK' /\ WriteOK'
    BY <1>0, <1>9 DEF TimersDone, At, GetOK, WriteOK
  <2> QED BY <2>1, <2>2, <2>3 DEF IInv
<1>10. CASE ProcessPosted
  <2> DEFINE p == [Pool EXCEPT !.posted = Tail(posted)]
  <2>1. /\ Fields(p) /\ p.conn = conn /\ p.free = Pool.free /\ p.reuse = Pool.reuse
        /\ p.posted = Tail(posted) /\ p.interest = Pool.interest
    BY DEF Fields, Pool
  <2>2. Becomes(p)
    BY <1>10 DEF ProcessPosted, Becomes, Pool
  <2> HIDE DEF p
  <2>3. posted \in Seq(EventType) /\ posted # <<>> /\ PostedOK(Pool) /\ Pool.posted = posted
    BY <1>0, <1>10 DEF ProcessPosted, PoolOK, IsPool, Pool
  <2>4. /\ p.posted \in Seq(EventType) /\ Len(p.posted) = Len(posted) - 1
        /\ \A i \in 1..(Len(posted) - 1) : p.posted[i] = posted[i + 1]
        /\ Len(posted) \in Nat /\ DOMAIN posted = 1..Len(posted)
        /\ DOMAIN p.posted = 1..(Len(posted) - 1)
    BY <2>1, <2>3, TailSeq, LenProperties
  <2>5. ASSUME NEW i \in DOMAIN p.posted
        PROVE  i \in Nat /\ i + 1 \in DOMAIN posted /\ p.posted[i] = posted[i + 1]
    <3>1. i \in 1..(Len(posted) - 1)
      BY <2>4, ZenonT(60)
    <3>2. p.posted[i] = posted[i + 1]
      BY <2>4, <3>1, ZenonT(60)
    <3>3. Len(posted) \in Nat /\ DOMAIN posted = 1..Len(posted)
      BY <2>4
    <3>4. i \in Nat /\ i + 1 \in 1..Len(posted)
      BY <3>1, <3>3
    <3> QED BY <3>2, <3>3, <3>4, SMTT(60)
  <2>6. PostedOK(p)
    <3>1. ASSUME NEW i \in DOMAIN p.posted
          PROVE  /\ p.conn[p.posted[i].slot].open
                 /\ p.conn[p.posted[i].slot].uses = p.posted[i].use
      BY <1>0, <2>1, <2>3, <2>5 DEF PostedOK
    <3>2. ASSUME NEW i \in DOMAIN p.posted, NEW j \in DOMAIN p.posted,
                 p.posted[i].slot = p.posted[j].slot, p.posted[i].dir = p.posted[j].dir
          PROVE  i = j
      <4>1. i + 1 = j + 1
        BY <2>3, <2>5, <3>2 DEF PostedOK
      <4> QED BY <2>5, <4>1
    <3> QED BY <3>1, <3>2 DEF PostedOK
  <2>7. \A k \in Slots : Watch(p, k) = Watch(Pool, k)
    BY <1>0, <2>1 DEF Watch
  <2>8. PoolOK(p)
    BY <1>0, <2>1, <2>4, <2>6, <2>7
       DEF PoolOK, IsPool, FreeOK, ReuseOK, WatchOK, Parity
  <2>9. Later(Pool, p)
    BY <1>0, <2>1 DEF Later
  <2>10. PoolOK(Pool)' /\ conn' = p.conn
    BY <2>2, <2>8, BecomesOK
  <2>11. BatchOK' /\ batch' \in Seq(ReportType)
    BY <1>0, <1>10, <2>8, <2>9, <2>10, BatchKept
       DEF IInv, CtlOK, ProcessPosted, PoolOK
  <2>12. CtlOK'
    BY <1>0, <1>10, <2>11 DEF ProcessPosted, CtlOK
  <2>13. GetOK' /\ WriteOK' /\ StaleNeedsTwoReuses'
    BY <1>0, <1>10
       DEF IInv, ProcessPosted, At, GetOK, WriteOK, StaleNeedsTwoReuses
  <2> QED BY <2>10, <2>11, <2>12, <2>13 DEF IInv
<1>11. CASE PostedDone
  <2>1. /\ PoolOK(Pool)' /\ BatchOK' /\ batch' \in Seq(ReportType)
        /\ crossed' \subseteq Nat /\ StaleNeedsTwoReuses'
    BY <1>11, QuietKeeps DEF PostedDone, pool
  <2>2. CtlOK'
    BY <1>0, <1>11, <2>1 DEF PostedDone, CtlOK, pool
  <2>3. GetOK' /\ WriteOK'
    BY <1>0, <1>11 DEF PostedDone, At, GetOK, WriteOK
  <2> QED BY <2>1, <2>2, <2>3 DEF IInv
<1>12. CASE UNCHANGED vars
  <2>1. /\ PoolOK(Pool)' /\ BatchOK' /\ StaleNeedsTwoReuses'
    BY <1>12, QuietKeeps DEF vars
  <2>2. CtlOK' /\ GetOK' /\ WriteOK'
    BY <1>0, <1>12 DEF vars, CtlOK, GetOK, WriteOK
  <2> QED BY <2>1, <2>2 DEF IInv
<1> QED BY <1>1, <1>2, <1>3, <1>4, <1>5, <1>6, <1>7, <1>8, <1>9, <1>10, <1>11,
           <1>12 DEF Next

\* The inductive invariant holds throughout.
LEMMA Invariance == Spec => []IInv
<1>1. Init => IInv
  BY InitOK
<1>2. IInv /\ [Next]_vars => IInv'
  BY NextKeeps
<1> QED BY <1>1, <1>2, PTL DEF Spec

\* Every slot is free or in use, once, the reusable queue is exactly the idle
\* connections, and ngx_get_connection() fails only when every connection is
\* in use and none of them can be given up.
THEOREM PoolIsSound == Spec => []PoolSound
<1>1. IInv => PoolSound
  <2> SUFFICES ASSUME IInv PROVE PoolSound
    OBVIOUS
  <2>1. /\ IsPool(Pool) /\ FreeOK(Pool) /\ ReuseOK(Pool) /\ CtlOK /\ GetOK
        /\ Pool.conn = conn /\ Pool.free = free /\ Pool.reuse = reuse
        /\ Pool.posted = posted /\ Pool.interest = interest
    BY DEF IInv, PoolOK, Pool
  <2>2. TypeOK
    BY <2>1
       DEF IsPool, ConnType, EventType, WatchType, ReportType, CtlOK, TypeOK
  <2>3. PoolPartition
    BY <2>1, <2>2 DEF FreeOK, PoolPartition
  <2>4. IsInjective(reuse) /\ ToSet(reuse) = {c \in Slots : conn[c].open /\ conn[c].reusable}
    BY <2>1 DEF ReuseOK
  <2>5. ASSUME getting, ~Draining, free = <<>>
        PROVE  reuse = <<>> /\ \A c \in Slots : conn[c].open
    <3>1. reuse = <<>>
      BY <2>1, <2>5 DEF GetOK, Draining
    <3>2. ToSet(free) = {} /\ ToSet(free) = {c \in Slots : ~conn[c].open}
      BY <2>1, <2>5 DEF ToSet, FreeOK
    <3> QED BY <3>1, <3>2
  <2> QED BY <2>3, <2>4, <2>5 DEF PoolSound, ReusableQueue
<1> QED BY <1>1, Invariance, PTL

\* What is posted and what epoll watches belongs to the present use of its
\* slot, and an event gets past the instance check only if the slot was used
\* again an even number of times since it was reported.
THEOREM EventsAreOfTheirConnections == Spec => []EventsFollowConnections
<1>1. IInv => EventsFollowConnections
  <2> SUFFICES ASSUME IInv PROVE EventsFollowConnections
    OBVIOUS
  <2>1. /\ PostedOK(Pool) /\ WatchOK(Pool) /\ StaleNeedsTwoReuses
        /\ Pool.conn = conn /\ Pool.posted = posted /\ Pool.interest = interest
    BY DEF IInv, PoolOK, Pool
  <2>2. PostedAlive
    BY <2>1 DEF PostedOK, PostedAlive
  <2>3. RegistrationMatches
    BY <2>1 DEF WatchOK, Watch, RegistrationMatches
  <2> QED BY <2>1, <2>2, <2>3 DEF EventsFollowConnections
<1> QED BY <1>1, Invariance, PTL
==============================================================================
