-------------------------- MODULE FileCacheProofs --------------------------
(***************************************************************************)
(* Proofs about the entries of the file cache and its files, for any       *)
(* number of keys, requests and places in the zone.                        *)
(***************************************************************************)
EXTENDS FileCache, DataLemmas, FiniteSetTheorems

(***************************************************************************)
(* The inductive invariant.                                                *)
(***************************************************************************)

\* What a request has at each point of its life: a node from the lookup to
\* free() or update(), `create` only before the lookup, and the part of the
\* updater between the finding that the response is stale and the end.
ReqOK(c) ==
  /\ c.pc \in {"idle", "lookup", "forced", "retry"} => c.node = NoNode
  /\ c.pc \in {"open", "read", "valid", "body", "update"} => c.node # NoNode
  /\ c.pc \in {"open", "read", "valid"} => ~c.create /\ ~c.updating
  /\ c.pc = "fetch" => (c.create <=> c.node = NoNode)
  /\ c.updating \/ c.updated => c.node # NoNode
  /\ c.updated => c.pc \in {"update", "dead"}
ReqsOK == \A r \in Requests : ReqOK(req[r])

\* A request deletes only where it waits for room, the manager never while it
\* is about to choose a victim, and nobody deletes an entry twice.
JobOK ==
  /\ \A p \in Procs : job[p].node = NoNode <=> job[p].step = "none"
  /\ \A r \in Requests : job[r].node # NoNode => req[r].pc \in {"retry", "dead"}
  /\ manager = "forced" => job["manager"].node = NoNode
  /\ \A p, q \in Procs : job[p].node # NoNode /\ job[p].node = job[q].node => p = q

IInv ==
  /\ TypeOK /\ CountIsUsers /\ NoDangling /\ ReqsOK /\ JobOK
  /\ UpdatingHasUpdater

-----------------------------------------------------------------------------
(* The queue.                                                              *)

LEMMA WithoutOne ==
  ASSUME NEW q \in Seq(Nodes), IsInjective(q), NEW n \in ToSet(q)
  PROVE  /\ Without(q, n) \in Seq(Nodes) /\ IsInjective(Without(q, n))
         /\ ToSet(Without(q, n)) = ToSet(q) \ {n}
<1> DEFINE m == CHOOSE i \in DOMAIN q : q[i] = n
<1>1. m \in 1..Len(q) /\ q[m] = n
  <2>1. \E i \in DOMAIN q : q[i] = n
    BY DEF ToSet
  <2>2. m \in DOMAIN q /\ q[m] = n
    BY <2>1
  <2> QED BY <2>2, LenProperties
<1>2. Without(q, n) = RemoveAt(q, m)
  BY DEF Without
<1> HIDE DEF m
<1> QED BY <1>1, <1>2, RemoveAtSet

LEMMA TouchedQueue ==
  ASSUME TypeOK, NEW n \in used
  PROVE  Touched(n) \in Seq(Nodes) /\ IsInjective(Touched(n)) /\ ToSet(Touched(n)) = used
<1>1. /\ Without(queue, n) \in Seq(Nodes) /\ IsInjective(Without(queue, n))
      /\ ToSet(Without(queue, n)) = used \ {n} /\ n \in Nodes
  BY WithoutOne DEF TypeOK
<1>2. /\ <<n>> \o Without(queue, n) \in Seq(Nodes)
      /\ ToSet(<<n>> \o Without(queue, n)) = (used \ {n}) \cup {n}
      /\ IsInjective(<<n>> \o Without(queue, n))
  BY <1>1, ConsSeq
<1> QED BY <1>2 DEF Touched

-----------------------------------------------------------------------------
(* Who holds an entry.                                                     *)

LEMMA Finite ==
  ASSUME NEW n
  PROVE  /\ IsFiniteSet(Holders(n)) /\ Cardinality(Holders(n)) \in Nat
         /\ IsFiniteSet(Jobs(n)) /\ Cardinality(Jobs(n)) \in Nat
<1>1. IsFiniteSet(Requests) /\ IsFiniteSet(Procs)
  BY FileCacheAssumption, FS_AddElement DEF Procs
<1>2. Holders(n) \subseteq Requests /\ Jobs(n) \subseteq Procs
  BY DEF Holders, Jobs
<1> QED BY <1>1, <1>2, FS_Subset, FS_CardinalityType

\* An entry that nobody uses is nobody's.
LEMMA Unused ==
  ASSUME CountIsUsers, NEW n \in used, node[n].count = 0
  PROVE  Holders(n) = {} /\ Jobs(n) = {}
<1>1. Cardinality(Holders(n)) = 0 /\ Cardinality(Jobs(n)) = 0
  BY Finite DEF CountIsUsers
<1> QED BY <1>1, Finite, FS_EmptySet

\* An entry that is used once and by this request is nobody else's.
LEMMA OnlyHolder ==
  ASSUME CountIsUsers, NEW n \in used, NEW r \in Holders(n)
  PROVE  /\ node[n].count >= 1
         /\ node[n].count = 1 => Holders(n) = {r} /\ Jobs(n) = {}
<1>1. Cardinality(Holders(n)) >= 1
  BY Finite, FS_EmptySet
<1>2. node[n].count = Cardinality(Holders(n)) + Cardinality(Jobs(n))
  BY DEF CountIsUsers
<1>3. node[n].count = 1 => Cardinality(Holders(n)) = 1 /\ Cardinality(Jobs(n)) = 0
  BY <1>1, <1>2, Finite
<1>4. Cardinality(Holders(n)) = 1 => Holders(n) = {r}
  BY Finite, FS_Singleton
<1>5. Cardinality(Jobs(n)) = 0 => Jobs(n) = {}
  BY Finite, FS_EmptySet
<1>6. node[n].count >= 1
  BY <1>1, <1>2, Finite
<1> QED BY <1>3, <1>4, <1>5, <1>6

LEMMA OnlyJob ==
  ASSUME CountIsUsers, NEW n \in used, NEW p \in Jobs(n)
  PROVE  /\ node[n].count >= 1
         /\ node[n].count = 1 => Jobs(n) = {p} /\ Holders(n) = {}
<1>1. Cardinality(Jobs(n)) >= 1
  BY Finite, FS_EmptySet
<1>2. node[n].count = Cardinality(Holders(n)) + Cardinality(Jobs(n))
  BY DEF CountIsUsers
<1>3. node[n].count = 1 => Cardinality(Jobs(n)) = 1 /\ Cardinality(Holders(n)) = 0
  BY <1>1, <1>2, Finite
<1>4. Cardinality(Jobs(n)) = 1 => Jobs(n) = {p}
  BY Finite, FS_Singleton
<1>5. Cardinality(Holders(n)) = 0 => Holders(n) = {}
  BY Finite, FS_EmptySet
<1>6. node[n].count >= 1
  BY <1>1, <1>2, Finite
<1> QED BY <1>3, <1>4, <1>5, <1>6

-----------------------------------------------------------------------------
(***************************************************************************)
(* What a step does to the invariant, by who gets or loses an entry.  The  *)
(* types are shown action by action below.                                 *)
(***************************************************************************)

\* The parts of the invariant that the types are not.
Rest == CountIsUsers /\ NoDangling /\ ReqsOK /\ JobOK /\ UpdatingHasUpdater

LEMMA HoldersMove ==
  ASSUME TypeOK, NEW r \in Requests, NEW c, req' = [req EXCEPT ![r] = c], NEW n
  PROVE  Holders(n)' = IF c.node = n THEN Holders(n) \cup {r} ELSE Holders(n) \ {r}
BY DEF TypeOK, Holders

\* A request goes on without getting or losing its entry.
LEMMA MoveStep ==
  ASSUME IInv, TypeOK',
         NEW r \in Requests, NEW c, req' = [req EXCEPT ![r] = c], ReqOK(c),
         c.node = req[r].node, c.node # NoNode => c.key = req[r].key,
         job[r].node # NoNode => c.pc \in {"retry", "dead"},
         req[r].updating \/ req[r].updated => c.updating \/ c.updated,
         UNCHANGED <<used, manager, job>>,
         \A m \in used :
           /\ node'[m].count = node[m].count /\ node'[m].key = node[m].key
           /\ node'[m].deleting = node[m].deleting
           /\ node'[m].updating => \/ node[m].updating
                                   \/ m = c.node /\ (c.updating \/ c.updated)
  PROVE  Rest'
<1> USE DEF IInv
<1>1. req'[r] = c /\ \A q \in Requests \ {r} : req'[q] = req[q]
  BY DEF TypeOK
<1>2. \A n : Holders(n)' = Holders(n) /\ Jobs(n)' = Jobs(n)
  BY <1>1 DEF Holders, Jobs
<1>3. CountIsUsers'
  BY <1>2 DEF CountIsUsers
<1>4. NoDangling'
  BY <1>1 DEF NoDangling
<1>5. ReqsOK'
  BY <1>1 DEF ReqsOK, ReqOK
<1>6. JobOK'
  BY <1>1 DEF JobOK
<1>7. UpdatingHasUpdater'
  <2> SUFFICES ASSUME NEW n \in used, node'[n].updating
               PROVE  \E q \in Holders(n) : req'[q].updating \/ req'[q].updated
    BY <1>2 DEF UpdatingHasUpdater
  <2>1. CASE node[n].updating
    <3>1. PICK q \in Holders(n) : req[q].updating \/ req[q].updated
      BY <2>1 DEF UpdatingHasUpdater
    <3> QED BY <1>1, <3>1 DEF Holders
  <2>2. CASE n = c.node /\ (c.updating \/ c.updated)
    BY <1>1, <2>2 DEF Holders
  <2> QED BY <2>1, <2>2
<1> QED BY <1>3, <1>4, <1>5, <1>6, <1>7 DEF Rest

\* A request that has no entry gets one, of the tree or a new one.
LEMMA TakeStep ==
  ASSUME IInv, TypeOK',
         NEW r \in Requests, NEW c, req' = [req EXCEPT ![r] = c], ReqOK(c),
         NEW n \in Nodes, req[r].node = NoNode, c.node = n,
         job[r].node = NoNode,
         used' = used \cup {n}, UNCHANGED <<manager, job>>,
         node'[n].key = c.key,
         n \in used => /\ node'[n].count = node[n].count + 1
                       /\ node'[n].key = node[n].key
                       /\ node'[n].deleting = node[n].deleting
                       /\ node'[n].updating = node[n].updating,
         n \notin used => node'[n].count = 1 /\ ~node'[n].updating,
         \A m \in used \ {n} : node'[m] = node[m]
  PROVE  Rest'
<1> USE DEF IInv
<1>0. n # NoNode
  BY FileCacheAssumption
<1>1. req'[r] = c /\ \A q \in Requests \ {r} : req'[q] = req[q]
  BY DEF TypeOK
<1>2. /\ \A m : Jobs(m)' = Jobs(m)
      /\ Holders(n)' = Holders(n) \cup {r} /\ r \notin Holders(n)
      /\ \A m \in used \ {n} : Holders(m)' = Holders(m)
  <2>1. \A m : Jobs(m)' = Jobs(m)
    BY DEF Jobs
  <2>2. r \notin Holders(n)
    BY <1>0 DEF Holders
  <2>3. Holders(n)' = Holders(n) \cup {r}
    BY <1>1 DEF Holders
  <2>4. \A m \in used \ {n} : Holders(m)' = Holders(m)
    <3>1. \A m \in used : m # NoNode
      BY FileCacheAssumption DEF TypeOK
    <3> QED BY <1>1, <3>1 DEF Holders
  <2> QED BY <2>1, <2>2, <2>3, <2>4
<1>3. CountIsUsers'
  <2>1. Cardinality(Holders(n)') = Cardinality(Holders(n)) + 1
    BY <1>2, Finite, FS_AddElement, ZenonT(60)
  <2>2. n \notin used => Holders(n) = {} /\ Jobs(n) = {}
    BY <1>0 DEF NoDangling, Holders, Jobs
  <2>3. node'[n].count = Cardinality(Holders(n)') + Cardinality(Jobs(n)')
    <3>1. CASE n \in used
      <4>1. node[n].count = Cardinality(Holders(n)) + Cardinality(Jobs(n))
        BY <3>1 DEF CountIsUsers
      <4> QED BY <1>2, <2>1, <3>1, <4>1, Finite
    <3>2. CASE n \notin used
      <4>1. Cardinality(Holders(n)) = 0 /\ Cardinality(Jobs(n)) = 0
        BY <2>2, <3>2, FS_EmptySet
      <4> QED BY <1>2, <2>1, <3>2, <4>1
    <3> QED BY <3>1, <3>2
  <2>4. \A m \in used \ {n} :
          node'[m].count = Cardinality(Holders(m)') + Cardinality(Jobs(m)')
    BY <1>2 DEF CountIsUsers
  <2> QED BY <2>3, <2>4 DEF CountIsUsers
<1>4. NoDangling'
  <2>1. \A q \in Requests : req'[q].node # NoNode =>
          req'[q].node \in used' /\ node'[req'[q].node].key = req'[q].key
    BY <1>1 DEF NoDangling
  <2>2. \A p \in Procs : job'[p].node # NoNode =>
          job'[p].node \in used' /\ node'[job'[p].node].deleting
    BY DEF NoDangling
  <2> QED BY <2>1, <2>2 DEF NoDangling
<1>5. ReqsOK'
  BY <1>1 DEF ReqsOK, ReqOK
<1>6. JobOK'
  BY <1>1 DEF JobOK
<1>7. UpdatingHasUpdater'
  <2> SUFFICES ASSUME NEW m \in used, node'[m].updating
               PROVE  \E q \in Holders(m)' : req'[q].updating \/ req'[q].updated
    BY DEF UpdatingHasUpdater
  <2>1. PICK q \in Holders(m) : req[q].updating \/ req[q].updated
    BY DEF UpdatingHasUpdater
  <2>2. q # r
    BY <2>1 DEF ReqsOK, ReqOK
  <2> QED BY <1>1, <1>2, <2>1, <2>2 DEF Holders
<1> QED BY <1>3, <1>4, <1>5, <1>6, <1>7 DEF Rest

\* The entry keeps living without its user, or it goes with its last one.
Leaves(n) ==
  \/ /\ used' = used /\ node'[n].count = node[n].count - 1
     /\ node'[n].key = node[n].key
  \/ used' = used \ {n} /\ node[n].count = 1

\* free() and update(): a request gives its entry back.
LEMMA ReleaseStep ==
  ASSUME IInv, TypeOK',
         NEW r \in Requests, req' = [req EXCEPT ![r] = Idle],
         NEW n \in Nodes, req[r].node = n, job[r].node = NoNode,
         UNCHANGED <<manager, job>>, Leaves(n),
         n \in used' => /\ node'[n].deleting = node[n].deleting
                        /\ node'[n].updating => node[n].updating /\ ~req[r].updating
                                                /\ ~req[r].updated,
         \A m \in used \ {n} : node'[m] = node[m]
  PROVE  Rest'
<1> USE DEF IInv
<1>0. /\ Idle.node = NoNode /\ Idle.pc = "idle" /\ ~Idle.updating /\ ~Idle.updated
      /\ n # NoNode /\ n \in used
  BY FileCacheAssumption DEF Idle, NoDangling
<1>1. req'[r] = Idle /\ \A q \in Requests \ {r} : req'[q] = req[q]
  BY DEF TypeOK
<1>2. /\ \A m : Jobs(m)' = Jobs(m)
      /\ Holders(n)' = Holders(n) \ {r} /\ r \in Holders(n)
      /\ \A m \in used \ {n} : Holders(m)' = Holders(m)
      /\ used' \subseteq used
  <2>1. \A m : Jobs(m)' = Jobs(m)
    BY DEF Jobs
  <2>2. r \in Holders(n)
    BY DEF Holders
  <2>3. Holders(n)' = Holders(n) \ {r}
    BY <1>0, <1>1 DEF Holders
  <2>4. \A m \in used \ {n} : Holders(m)' = Holders(m)
    <3>1. \A m \in used : m # NoNode
      BY FileCacheAssumption DEF TypeOK
    <3> QED BY <1>0, <1>1, <3>1 DEF Holders
  <2> QED BY <2>1, <2>2, <2>3, <2>4 DEF Leaves
<1>3. CountIsUsers'
  <2>1. Cardinality(Holders(n)') = Cardinality(Holders(n)) - 1
    BY <1>2, Finite, FS_RemoveElement, ZenonT(60)
  <2>2. n \in used' => node'[n].count = Cardinality(Holders(n)') + Cardinality(Jobs(n)')
    <3>1. node[n].count = Cardinality(Holders(n)) + Cardinality(Jobs(n))
      BY <1>0 DEF CountIsUsers
    <3>2. n \in used' => node'[n].count = node[n].count - 1
      BY DEF Leaves
    <3> QED BY <1>2, <2>1, <3>1, <3>2, Finite
  <2>3. \A m \in used \ {n} :
          node'[m].count = Cardinality(Holders(m)') + Cardinality(Jobs(m)')
    BY <1>2 DEF CountIsUsers
  <2> QED BY <1>2, <2>2, <2>3 DEF CountIsUsers
<1>4. n \notin used' => Holders(n) = {r} /\ Jobs(n) = {}
  BY <1>0, <1>2, OnlyHolder DEF Leaves
<1>5. NoDangling'
  <2>1. ASSUME NEW q \in Requests, req'[q].node # NoNode
        PROVE  req'[q].node \in used' /\ node'[req'[q].node].key = req'[q].key
    <3>1. q # r /\ req'[q] = req[q]
      BY <1>0, <1>1, <2>1
    <3>2. req[q].node \in used /\ node[req[q].node].key = req[q].key
      BY <2>1, <3>1 DEF NoDangling
    <3>3. req[q].node = n => n \in used'
      BY <1>4, <3>1 DEF Holders
    <3> QED BY <3>1, <3>2, <3>3 DEF Leaves
  <2>2. ASSUME NEW p \in Procs, job'[p].node # NoNode
        PROVE  job'[p].node \in used' /\ node'[job'[p].node].deleting
    <3>1. job[p].node \in used /\ node[job[p].node].deleting
      BY <2>2 DEF NoDangling
    <3>2. job[p].node = n => n \in used'
      BY <1>4 DEF Jobs
    <3> QED BY <3>1, <3>2 DEF Leaves
  <2> QED BY <2>1, <2>2 DEF NoDangling
<1>6. ReqsOK'
  BY <1>0, <1>1 DEF ReqsOK, ReqOK
<1>7. JobOK'
  BY <1>1 DEF JobOK
<1>8. UpdatingHasUpdater'
  <2> SUFFICES ASSUME NEW m \in used', node'[m].updating
               PROVE  \E q \in Holders(m)' : req'[q].updating \/ req'[q].updated
    BY DEF UpdatingHasUpdater
  <2>1. node[m].updating /\ m \in used
    BY <1>2
  <2>2. PICK q \in Holders(m) : req[q].updating \/ req[q].updated
    BY <2>1 DEF UpdatingHasUpdater
  <2>3. q # r
    <3>1. CASE m = n
      BY <2>2, <3>1
    <3>2. CASE m # n
      BY <2>2, <3>2 DEF Holders
    <3> QED BY <3>1, <3>2
  <2> QED BY <1>1, <1>2, <2>1, <2>2, <2>3 DEF Holders
<1> QED BY <1>3, <1>5, <1>6, <1>7, <1>8 DEF Rest

\* What a deletion leaves as it is in the requests.
SameRequests ==
  \A q \in Requests : /\ req'[q].node = req[q].node /\ req'[q].key = req[q].key
                      /\ req'[q].updating = req[q].updating
                      /\ req'[q].updated = req[q].updated

\* ngx_http_file_cache_delete() of an entry that nobody uses: the entry goes,
\* or the process is its only user until the file is gone.
LEMMA DeleteStep ==
  ASSUME IInv, TypeOK', ReqsOK', SameRequests,
         NEW p \in Procs, job[p].node = NoNode,
         \A q \in Requests : q = p \/ job[q].node # NoNode =>
           req'[q].pc \in {"retry", "dead"},
         IF p = "manager" THEN manager' # "forced" ELSE manager' = manager,
         NEW n \in used, node[n].count = 0,
         \/ /\ used' = used /\ node'[n].count = 1 /\ node'[n].key = node[n].key
            /\ node'[n].deleting /\ node'[n].updating = node[n].updating
            /\ job' = [job EXCEPT ![p] = [node |-> n, step |-> "unlink"]]
         \/ used' = used \ {n} /\ job' = job,
         \A m \in used \ {n} : node'[m] = node[m]
  PROVE  Rest'
<1> USE DEF IInv
<1>1. n # NoNode /\ Holders(n) = {} /\ Jobs(n) = {} /\ used' \subseteq used
  BY FileCacheAssumption, Unused, SMTT(60) DEF TypeOK
<1>2. \A m : Holders(m)' = Holders(m)
  BY DEF Holders, SameRequests
<1>3. /\ \A q \in Procs \ {p} : job'[q] = job[q]
      /\ IF n \in used' THEN job'[p].node = n /\ job'[p].step = "unlink"
         ELSE job'[p] = job[p]
  BY DEF TypeOK
<1>4. /\ n \in used' => Jobs(n)' = {p}
      /\ \A m \in used \ {n} : Jobs(m)' = Jobs(m)
  <2>1. n \in used' => Jobs(n)' = {p}
    BY <1>1, <1>3 DEF Jobs
  <2>2. \A m \in used \ {n} : Jobs(m)' = Jobs(m)
    <3>1. \A m \in used : m # NoNode
      BY FileCacheAssumption DEF TypeOK
    <3> QED BY <1>3, <3>1 DEF Jobs
  <2> QED BY <2>1, <2>2
<1>5. CountIsUsers'
  <2>1. n \in used' => node'[n].count = Cardinality(Holders(n)') + Cardinality(Jobs(n)')
    <3> SUFFICES ASSUME n \in used'
                 PROVE  node'[n].count = Cardinality(Holders(n)') + Cardinality(Jobs(n)')
      OBVIOUS
    <3>1. Cardinality(Holders(n)') = 0 /\ Cardinality(Jobs(n)') = 1
      BY <1>1, <1>2, <1>4, FS_EmptySet, FS_Singleton, ZenonT(60)
    <3>2. node'[n].count = 1
      OBVIOUS
    <3> QED BY <3>1, <3>2
  <2>2. \A m \in used \ {n} :
          node'[m].count = Cardinality(Holders(m)') + Cardinality(Jobs(m)')
    BY <1>2, <1>4 DEF CountIsUsers
  <2> QED BY <1>1, <2>1, <2>2 DEF CountIsUsers
<1>6. NoDangling'
  <2>1. ASSUME NEW q \in Requests, req'[q].node # NoNode
        PROVE  req'[q].node \in used' /\ node'[req'[q].node].key = req'[q].key
    <3>1. /\ req[q].node \in used /\ node[req[q].node].key = req'[q].key
          /\ req'[q].node = req[q].node
      BY <2>1 DEF NoDangling, SameRequests
    <3>2. req[q].node # n
      BY <1>1 DEF Holders
    <3> QED BY <3>1, <3>2
  <2>2. ASSUME NEW q \in Procs, job'[q].node # NoNode
        PROVE  job'[q].node \in used' /\ node'[job'[q].node].deleting
    <3>1. CASE q = p /\ n \in used'
      BY <1>3, <3>1
    <3>2. CASE ~(q = p /\ n \in used')
      <4>1. job'[q] = job[q]
        BY <1>3, <3>2
      <4>2. job[q].node \in used /\ node[job[q].node].deleting
        BY <2>2, <4>1 DEF NoDangling
      <4>3. job[q].node # n
        BY <1>1 DEF Jobs
      <4> QED BY <4>1, <4>2, <4>3
    <3> QED BY <3>1, <3>2
  <2> QED BY <2>1, <2>2 DEF NoDangling
<1>7. JobOK'
  <2>1. \A q \in Procs : job'[q].node = NoNode <=> job'[q].step = "none"
    BY <1>1, <1>3 DEF JobOK
  <2>2. \A q \in Requests : job'[q].node # NoNode => req'[q].pc \in {"retry", "dead"}
    BY <1>3 DEF Procs
  <2>3. manager' = "forced" => job'["manager"].node = NoNode
    BY <1>3 DEF JobOK, Procs
  <2>4. ASSUME NEW x \in Procs, NEW y \in Procs,
               job'[x].node # NoNode, job'[x].node = job'[y].node
        PROVE  x = y
    <3>1. \A q \in Procs : job[q].node # n
      BY <1>1 DEF Jobs
    <3> QED BY <1>3, <2>4, <3>1 DEF JobOK
  <2> QED BY <2>1, <2>2, <2>3, <2>4 DEF JobOK
<1>8. UpdatingHasUpdater'
  <2>1. ASSUME NEW m \in used', node'[m].updating
        PROVE  \E q \in Holders(m)' : req'[q].updating \/ req'[q].updated
    <3>1. node[m].updating /\ m \in used
      BY <1>1, <2>1
    <3>2. PICK q \in Holders(m) : req[q].updating \/ req[q].updated
      BY <3>1 DEF UpdatingHasUpdater
    <3> QED BY <1>2, <3>2 DEF SameRequests, Holders
  <2> QED BY <2>1 DEF UpdatingHasUpdater
<1> QED BY <1>5, <1>6, <1>7, <1>8 DEF Rest

\* The second half of ngx_http_file_cache_delete().
LEMMA RelockStep ==
  ASSUME IInv, TypeOK', UNCHANGED <<req, manager>>,
         NEW p \in Procs, NEW n \in Nodes, job[p].node = n,
         job' = [job EXCEPT ![p] = NoJob], Leaves(n),
         n \in used' => node'[n].updating = node[n].updating,
         \A m \in used \ {n} : node'[m] = node[m]
  PROVE  Rest'
<1> USE DEF IInv
<1>1. n # NoNode /\ n \in used /\ used' \subseteq used
  BY FileCacheAssumption DEF NoDangling, Leaves
<1>2. \A m : Holders(m)' = Holders(m)
  BY DEF Holders
<1>3. /\ \A q \in Procs \ {p} : job'[q] = job[q]
      /\ job'[p].node = NoNode /\ job'[p].step = "none"
  BY DEF TypeOK, NoJob
<1>4. Jobs(n) = {p} /\ Jobs(n)' = {} /\ \A m \in used \ {n} : Jobs(m)' = Jobs(m)
  <2>1. Jobs(n) = {p}
    BY <1>1 DEF Jobs, JobOK
  <2>2. Jobs(n)' = {}
    BY <1>1, <1>3, <2>1 DEF Jobs
  <2>3. \A m \in used \ {n} : Jobs(m)' = Jobs(m)
    <3>1. \A m \in used : m # NoNode
      BY FileCacheAssumption DEF TypeOK
    <3> QED BY <1>3, <3>1 DEF Jobs
  <2> QED BY <2>1, <2>2, <2>3
<1>5. CountIsUsers'
  <2>1. n \in used' => node'[n].count = Cardinality(Holders(n)') + Cardinality(Jobs(n)')
    <3>1. node[n].count = Cardinality(Holders(n)) + Cardinality(Jobs(n))
      BY <1>1 DEF CountIsUsers
    <3>2. n \in used' => node'[n].count = node[n].count - 1
      BY DEF Leaves
    <3>3. Cardinality(Jobs(n)) = 1 /\ Cardinality(Jobs(n)') = 0
      BY <1>4, FS_EmptySet, FS_Singleton
    <3> QED BY <1>2, <3>1, <3>2, <3>3, Finite
  <2>2. \A m \in used \ {n} :
          node'[m].count = Cardinality(Holders(m)') + Cardinality(Jobs(m)')
    BY <1>2, <1>4 DEF CountIsUsers
  <2> QED BY <1>1, <2>1, <2>2 DEF CountIsUsers
<1>6. n \notin used' => Holders(n) = {}
  BY <1>1, <1>4, OnlyJob DEF Leaves
<1>7. NoDangling'
  <2>1. ASSUME NEW q \in Requests, req'[q].node # NoNode
        PROVE  req'[q].node \in used' /\ node'[req'[q].node].key = req'[q].key
    <3>1. req[q].node \in used /\ node[req[q].node].key = req[q].key
      BY <2>1 DEF NoDangling
    <3>2. req[q].node = n => n \in used'
      BY <1>6 DEF Holders
    <3> QED BY <3>1, <3>2 DEF Leaves
  <2>2. ASSUME NEW q \in Procs, job'[q].node # NoNode
        PROVE  job'[q].node \in used' /\ node'[job'[q].node].deleting
    <3>1. q # p /\ job'[q] = job[q]
      BY <1>3, <2>2
    <3>2. job[q].node \in used /\ node[job[q].node].deleting
      BY <2>2, <3>1 DEF NoDangling
    <3>3. job[q].node # n
      BY <1>4, <3>1 DEF Jobs
    <3> QED BY <3>1, <3>2, <3>3 DEF Leaves
  <2> QED BY <2>1, <2>2 DEF NoDangling
<1>8. JobOK'
  BY <1>3 DEF JobOK
<1>9. UpdatingHasUpdater'
  <2>1. ASSUME NEW m \in used', node'[m].updating
        PROVE  \E q \in Holders(m)' : req'[q].updating \/ req'[q].updated
    <3>1. node[m].updating /\ m \in used
      BY <1>1, <2>1
    <3> QED BY <1>2, <3>1 DEF UpdatingHasUpdater
  <2> QED BY <2>1 DEF UpdatingHasUpdater
<1>10. ReqsOK'
  BY DEF ReqsOK
<1> QED BY <1>5, <1>7, <1>8, <1>9, <1>10 DEF Rest

\* Nobody gets or loses an entry; there may be new ones.
LEMMA NodeStep ==
  ASSUME IInv, TypeOK', req' = req,
         \A p \in Procs : /\ job'[p].node = job[p].node
                          /\ job'[p].step = "none" <=> job[p].step = "none",
         manager' = "forced" => job["manager"].node = NoNode,
         used \subseteq used',
         \A m \in used : node'[m] = node[m],
         \A m \in used' \ used : node'[m].count = 0 /\ ~node'[m].updating
  PROVE  Rest'
<1> USE DEF IInv
<1>1. \A m : Holders(m)' = Holders(m) /\ Jobs(m)' = Jobs(m)
  BY DEF Holders, Jobs
<1>2. \A m \in used' \ used : Holders(m) = {} /\ Jobs(m) = {}
  <2>1. \A m \in used' : m # NoNode
    BY FileCacheAssumption DEF TypeOK
  <2> QED BY <2>1 DEF NoDangling, Holders, Jobs
<1>3. CountIsUsers'
  <2>1. \A m \in used :
          node'[m].count = Cardinality(Holders(m)') + Cardinality(Jobs(m)')
    BY <1>1 DEF CountIsUsers
  <2>2. ASSUME NEW m \in used' \ used
        PROVE  node'[m].count = Cardinality(Holders(m)') + Cardinality(Jobs(m)')
    <3>1. Cardinality(Holders(m)') = 0 /\ Cardinality(Jobs(m)') = 0
      BY <1>1, <1>2, FS_EmptySet
    <3> QED BY <3>1
  <2> QED BY <2>1, <2>2 DEF CountIsUsers
<1>4. NoDangling'
  BY DEF NoDangling
<1>5. ReqsOK'
  BY DEF ReqsOK
<1>6. JobOK'
  <2>1. "manager" \in Procs /\ Requests \subseteq Procs
    BY DEF Procs
  <2> QED BY <2>1 DEF JobOK
<1>7. UpdatingHasUpdater'
  BY <1>1 DEF UpdatingHasUpdater
<1> QED BY <1>3, <1>4, <1>5, <1>6, <1>7 DEF Rest

-----------------------------------------------------------------------------
(* The actions of a request.                                               *)

LEMMA ConfFacts ==
  ASSUME TypeOK
  PROVE  /\ conf.asked \subseteq Keys /\ conf.keys \subseteq Keys
         /\ conf.sizes \subseteq Nat \ {0} /\ conf.room \in Nat
BY FileCacheAssumption DEF TypeOK, ConfType

LEMMA FirstValues ==
  /\ Idle \in ReqType /\ FreeNode \in NodeType /\ ReqOK(Idle)
  /\ Idle.node = NoNode /\ Idle.pc = "idle" /\ ~Idle.updating /\ ~Idle.updated
  /\ ~Idle.create /\ FreeNode.count = 0 /\ ~FreeNode.updating
<1>1. (CHOOSE k \in Keys : TRUE) \in Keys
  BY FileCacheAssumption
<1>2. Idle \in ReqType
  BY <1>1 DEF Idle, ReqType, Pcs
<1>3. FreeNode \in NodeType
  BY <1>1, FileCacheAssumption DEF FreeNode, NodeType
<1> QED BY <1>2, <1>3 DEF Idle, FreeNode, ReqOK

LEMMA MoveType ==
  ASSUME TypeOK, NEW r \in Requests, NEW c \in ReqType,
         req' = [req EXCEPT ![r] = c],
         UNCHANGED <<conf, used, queue, cold, manager, loader, job>>,
         node' \in [Nodes -> NodeType], size' \in Int, disk' \in [Keys -> Nat]
  PROVE  TypeOK'
BY DEF TypeOK

\* The actions that only take a request further.
LEMMA OnlyMoves ==
  ASSUME IInv, NEW r \in Requests, NEW c \in ReqType,
         req' = [req EXCEPT ![r] = c], ReqOK(c),
         c.node = req[r].node, c.node # NoNode => c.key = req[r].key,
         job[r].node # NoNode => c.pc \in {"retry", "dead"},
         req[r].updating \/ req[r].updated => c.updating \/ c.updated,
         UNCHANGED <<conf, used, node, queue, size, cold, manager, loader, job>>,
         disk' \in [Keys -> Nat]
  PROVE  IInv'
<1>1. TypeOK'
  <2>1. node' \in [Nodes -> NodeType] /\ size' \in Int /\ TypeOK
    BY DEF IInv, TypeOK
  <2> QED BY <2>1, MoveType
<1>2. Rest'
  BY <1>1, MoveStep
<1> QED BY <1>1, <1>2 DEF IInv, Rest

\* What a request in this state is known to have.
LEMMA ReqFacts ==
  ASSUME IInv, NEW r \in Requests
  PROVE  /\ req[r] \in ReqType /\ ReqOK(req[r])
         /\ job[r].node # NoNode => req[r].pc \in {"retry", "dead"}
         /\ req[r].node # NoNode => /\ req[r].node \in used /\ req[r].node \in Nodes
                                    /\ node[req[r].node] \in NodeType
                                    /\ node[req[r].node].key = req[r].key
         /\ disk \in [Keys -> Nat]
BY DEF IInv, TypeOK, ReqsOK, JobOK, NoDangling

LEMMA StartStep ==
  ASSUME IInv, NEW r \in Requests, Start(r) PROVE IInv'
<1>1. PICK k \in conf.asked, bypass \in BOOLEAN :
        req' = [req EXCEPT ![r] = [Idle EXCEPT !.key = k, !.create = bypass,
                                     !.pc = IF bypass THEN "fetch" ELSE "lookup"]]
  BY DEF Start
<1> DEFINE c == [Idle EXCEPT !.key = k, !.create = bypass,
                             !.pc = IF bypass THEN "fetch" ELSE "lookup"]
<1>2. k \in Keys
  BY ConfFacts DEF IInv
<1>3. c \in ReqType /\ ReqOK(c) /\ c.node = NoNode /\ ~c.updating
  BY <1>2, FirstValues, ZenonT(60) DEF ReqType, ReqOK, Pcs
<1>4. req[r].pc = "idle" /\ req[r].node = NoNode /\ job[r].node = NoNode
      /\ ~req[r].updating /\ ~req[r].updated
  BY ReqFacts DEF Start, ReqOK
<1>5. /\ UNCHANGED <<conf, used, node, queue, size, cold, manager, loader, job>>
      /\ disk' \in [Keys -> Nat]
  BY ReqFacts DEF Start
<1> HIDE DEF c
<1> QED BY <1>1, <1>3, <1>4, <1>5, OnlyMoves DEF c

LEMMA LookupFullStep ==
  ASSUME IInv, NEW r \in Requests, LookupFull(r) PROVE IInv'
<1> DEFINE c == [req[r] EXCEPT !.pc = "forced"]
<1>1. req[r].pc = "lookup" /\ req' = [req EXCEPT ![r] = c]
  BY DEF LookupFull
<1>2. /\ c \in ReqType /\ ReqOK(c) /\ c.node = req[r].node /\ c.key = req[r].key
      /\ c.updating = req[r].updating /\ c.updated = req[r].updated
      /\ job[r].node = NoNode
  BY <1>1, ReqFacts DEF ReqType, ReqOK, Pcs
<1>3. /\ UNCHANGED <<conf, used, node, queue, size, cold, manager, loader, job>>
      /\ disk' \in [Keys -> Nat]
  BY ReqFacts DEF LookupFull
<1> HIDE DEF c
<1> QED BY <1>1, <1>2, <1>3, OnlyMoves

LEMMA OpenStep ==
  ASSUME IInv, NEW r \in Requests, Open(r) PROVE IInv'
<1> DEFINE x      == req[r]
           scarce == x.declined /\ conf.min_uses > 1
           test   == IF x.declined THEN cold ELSE x.exists
           found  == test /\ disk[x.key] # 0
           c      == [x EXCEPT !.declined = FALSE, !.exists = FALSE,
                               !.fs = IF found THEN disk[x.key] ELSE 0,
                               !.cacheable = found \/ ~scarce,
                               !.pc = IF found THEN "read" ELSE "fetch"]
<1>1. req[r].pc = "open" /\ req' = [req EXCEPT ![r] = c]
  BY DEF Open
<1>2. scarce \in BOOLEAN /\ found \in BOOLEAN /\ disk[x.key] \in Nat
  BY ReqFacts DEF ReqType
<1> HIDE DEF scarce, found, test
<1>3. /\ c \in ReqType /\ ReqOK(c) /\ c.node = req[r].node /\ c.key = req[r].key
      /\ c.updating = req[r].updating /\ c.updated = req[r].updated
      /\ job[r].node = NoNode
  <2>1. /\ x \in ReqType /\ x.node # NoNode /\ ~x.create /\ ~x.updating /\ ~x.updated
        /\ job[r].node = NoNode
    BY <1>1, ReqFacts DEF ReqOK
  <2> DEFINE a == IF found THEN disk[x.key] ELSE 0
             b == found \/ ~scarce
             e == IF found THEN "read" ELSE "fetch"
  <2>2. a \in Nat /\ b \in BOOLEAN /\ e \in {"read", "fetch"}
    BY <1>2
  <2>3. c = [x EXCEPT !.declined = FALSE, !.exists = FALSE, !.fs = a, !.cacheable = b, !.pc = e]
    OBVIOUS
  <2> HIDE DEF a, b, e, c, x
  <2>4. /\ c.pc = e /\ c.node = x.node /\ c.key = x.key /\ c.create = x.create
        /\ c.updating = x.updating /\ c.updated = x.updated
    BY <2>1, <2>3 DEF ReqType
  <2>5. c \in ReqType
    BY <2>1, <2>2, <2>3 DEF ReqType, Pcs
  <2>6. ReqOK(c)
    BY <2>1, <2>2, <2>4 DEF ReqOK
  <2> QED BY <2>1, <2>4, <2>5, <2>6 DEF x
<1>4. /\ UNCHANGED <<conf, used, node, queue, size, cold, manager, loader, job>>
      /\ disk' \in [Keys -> Nat]
  BY ReqFacts DEF Open
<1> HIDE DEF c
<1> QED BY <1>1, <1>3, <1>4, OnlyMoves

LEMMA ReadBadStep ==
  ASSUME IInv, NEW r \in Requests, ReadBad(r) PROVE IInv'
<1> DEFINE c == [req[r] EXCEPT !.pc = "fetch", !.fs = 0]
<1>1. req[r].pc \in {"read", "valid"} /\ req' = [req EXCEPT ![r] = c]
  BY DEF ReadBad
<1>2. /\ c \in ReqType /\ ReqOK(c) /\ c.node = req[r].node /\ c.key = req[r].key
      /\ c.updating = req[r].updating /\ c.updated = req[r].updated
      /\ job[r].node = NoNode
  BY <1>1, ReqFacts, ZenonT(60) DEF ReqType, ReqOK, Pcs
<1>3. /\ UNCHANGED <<conf, used, node, queue, size, cold, manager, loader, job>>
      /\ disk' \in [Keys -> Nat]
  BY ReqFacts DEF ReadBad
<1> HIDE DEF c
<1> QED BY <1>1, <1>2, <1>3, OnlyMoves

LEMMA HitStep ==
  ASSUME IInv, NEW r \in Requests, Hit(r) PROVE IInv'
<1> DEFINE c == [req[r] EXCEPT !.pc = "end"]
<1>1. req[r].pc = "valid" /\ req' = [req EXCEPT ![r] = c]
  BY DEF Hit
<1>2. /\ c \in ReqType /\ ReqOK(c) /\ c.node = req[r].node /\ c.key = req[r].key
      /\ c.updating = req[r].updating /\ c.updated = req[r].updated
      /\ job[r].node = NoNode
  BY <1>1, ReqFacts DEF ReqType, ReqOK, Pcs
<1>3. /\ UNCHANGED <<conf, used, node, queue, size, cold, manager, loader, job>>
      /\ disk' \in [Keys -> Nat]
  BY ReqFacts DEF Hit
<1> HIDE DEF c
<1> QED BY <1>1, <1>2, <1>3, OnlyMoves

LEMMA ResponseStep ==
  ASSUME IInv, NEW r \in Requests, Response(r) PROVE IInv'
<1> DEFINE c == [req[r] EXCEPT !.pc = IF req[r].create THEN "lookup" ELSE "body"]
<1>1. req[r].pc = "fetch" /\ req' = [req EXCEPT ![r] = c]
  BY DEF Response
<1>2. /\ c \in ReqType /\ ReqOK(c) /\ c.node = req[r].node /\ c.key = req[r].key
      /\ c.updating = req[r].updating /\ c.updated = req[r].updated
      /\ job[r].node = NoNode
  BY <1>1, ReqFacts DEF ReqType, ReqOK, Pcs
<1>3. /\ UNCHANGED <<conf, used, node, queue, size, cold, manager, loader, job>>
      /\ disk' \in [Keys -> Nat]
  BY ReqFacts DEF Response
<1> HIDE DEF c
<1> QED BY <1>1, <1>2, <1>3, OnlyMoves

LEMMA NoResponseStep ==
  ASSUME IInv, NEW r \in Requests, NoResponse(r) PROVE IInv'
<1>1. PICK e \in BOOLEAN :
        req' = [req EXCEPT ![r] = [req[r] EXCEPT !.pc = "end",
                  !.error = req[r].error \/ e, !.cacheable = TRUE]]
  BY DEF NoResponse
<1> DEFINE c == [req[r] EXCEPT !.pc = "end", !.error = req[r].error \/ e,
                               !.cacheable = TRUE]
<1>2. /\ c \in ReqType /\ ReqOK(c) /\ c.node = req[r].node /\ c.key = req[r].key
      /\ c.updating = req[r].updating /\ c.updated = req[r].updated
      /\ job[r].node = NoNode
  BY ReqFacts, ZenonT(60) DEF NoResponse, ReqType, ReqOK, Pcs
<1>3. /\ UNCHANGED <<conf, used, node, queue, size, cold, manager, loader, job>>
      /\ disk' \in [Keys -> Nat]
  BY ReqFacts DEF NoResponse
<1> HIDE DEF c
<1> QED BY <1>1, <1>2, <1>3, OnlyMoves DEF c

LEMMA RenameStep ==
  ASSUME IInv, NEW r \in Requests, Rename(r) PROVE IInv'
<1>1. PICK fs \in conf.sizes :
        /\ disk' = [disk EXCEPT ![req[r].key] = fs]
        /\ req' = [req EXCEPT ![r] = [req[r] EXCEPT !.pc = "update", !.fs = fs,
             !.renamed = TRUE, !.updated = TRUE, !.updating = FALSE]]
  BY DEF Rename
<1> DEFINE c == [req[r] EXCEPT !.pc = "update", !.fs = fs,
                   !.renamed = TRUE, !.updated = TRUE, !.updating = FALSE]
<1>2. fs \in Nat /\ disk' \in [Keys -> Nat]
  <2>1. fs \in Nat
    BY ConfFacts DEF IInv
  <2> QED BY <1>1, <2>1, ReqFacts DEF ReqType
<1>3. /\ c \in ReqType /\ ReqOK(c) /\ c.node = req[r].node /\ c.key = req[r].key
      /\ c.updated /\ job[r].node = NoNode
  <2>1. /\ req[r] \in ReqType /\ req[r].pc = "body" /\ req[r].node # NoNode
        /\ job[r].node = NoNode
    BY ReqFacts DEF Rename, ReqOK
  <2>2. /\ c.pc = "update" /\ c.node = req[r].node /\ c.key = req[r].key
        /\ c.updated /\ ~c.updating
    BY <2>1 DEF ReqType
  <2>3. c \in ReqType
    BY <1>2, <2>1 DEF ReqType, Pcs
  <2> HIDE DEF c
  <2>4. ReqOK(c)
    BY <2>1, <2>2 DEF ReqOK
  <2> QED BY <2>1, <2>2, <2>3, <2>4
<1>4. UNCHANGED <<conf, used, node, queue, size, cold, manager, loader, job>>
  BY DEF Rename
<1> HIDE DEF c
<1> QED BY <1>1, <1>2, <1>3, <1>4, OnlyMoves DEF c

LEMMA RenameFailsStep ==
  ASSUME IInv, NEW r \in Requests, RenameFails(r) PROVE IInv'
<1> DEFINE c == [req[r] EXCEPT !.pc = "update", !.fs = 0,
                   !.renamed = FALSE, !.updated = TRUE, !.updating = FALSE]
<1>1. /\ req' = [req EXCEPT ![r] = c] /\ req[r].pc = "body"
      /\ disk' \in {disk} \cup {[disk EXCEPT ![req[r].key] = fs] : fs \in conf.sizes}
  BY DEF RenameFails
<1>2. disk' \in [Keys -> Nat]
  <2>1. conf.sizes \subseteq Nat
    BY ConfFacts DEF IInv
  <2> QED BY <1>1, <2>1, ReqFacts DEF ReqType
<1>3. /\ c \in ReqType /\ ReqOK(c) /\ c.node = req[r].node /\ c.key = req[r].key
      /\ c.updated /\ job[r].node = NoNode
  BY <1>1, ReqFacts, ZenonT(60) DEF ReqType, ReqOK, Pcs
<1>4. UNCHANGED <<conf, used, node, queue, size, cold, manager, loader, job>>
  BY DEF RenameFails
<1> HIDE DEF c
<1> QED BY <1>1, <1>2, <1>3, <1>4, OnlyMoves

LEMMA CrashStep ==
  ASSUME IInv, NEW r \in Requests, Crash(r) PROVE IInv'
<1> DEFINE c == [Idle EXCEPT !.pc = "dead", !.key = req[r].key,
                   !.node = req[r].node, !.updating = req[r].updating,
                   !.updated = req[r].updated]
<1>1. req' = [req EXCEPT ![r] = c]
  BY DEF Crash
<1>2. /\ c \in ReqType /\ c.pc = "dead" /\ c.node = req[r].node
      /\ c.key = req[r].key
      /\ c.updating = req[r].updating /\ c.updated = req[r].updated
  BY ReqFacts, FirstValues, ZenonT(60) DEF ReqType, Pcs
<1>3. /\ UNCHANGED <<conf, used, node, queue, size, cold, manager, loader, job>>
      /\ disk' \in [Keys -> Nat]
  BY ReqFacts DEF Crash
<1> HIDE DEF c
<1>4. ReqOK(c)
  BY <1>2, ReqFacts DEF ReqOK
<1> QED BY <1>1, <1>2, <1>3, <1>4, OnlyMoves

LEMMA ReadStep ==
  ASSUME IInv, NEW r \in Requests, Read(r) PROVE IInv'
<1> DEFINE n == req[r].node
           x == node[n]
           c == [req[r] EXCEPT !.pc = "valid", !.fs = 0]
           new == cold /\ ~x.exists
           y == IF new THEN [x EXCEPT !.uses = 1, !.exists = TRUE, !.fs = req[r].fs]
                ELSE x
<1>1. /\ req[r].pc = "read" /\ req' = [req EXCEPT ![r] = c]
      /\ node' = [node EXCEPT ![n] = y]
      /\ size' = (IF new THEN size + req[r].fs ELSE size)
      /\ UNCHANGED <<conf, used, queue, cold, disk, manager, loader, job>>
  BY DEF Read, Keep
<1>2. /\ c \in ReqType /\ ReqOK(c) /\ c.node = req[r].node /\ c.key = req[r].key
      /\ c.updating = req[r].updating /\ c.updated = req[r].updated
      /\ job[r].node = NoNode
  BY <1>1, ReqFacts, ZenonT(60) DEF ReqType, ReqOK, Pcs
<1>3. n \in used /\ n \in Nodes /\ x \in NodeType /\ req[r].fs \in Nat
  BY <1>1, ReqFacts DEF ReqOK, ReqType
<1>4. /\ y \in NodeType /\ y.count = x.count /\ y.key = x.key
      /\ y.deleting = x.deleting /\ y.updating = x.updating
  <2> HIDE DEF x
  <2>1. 1 \in 0..(UsesMod - 1)
    BY FileCacheAssumption
  <2>2. CASE new
    BY <1>3, <2>1, <2>2 DEF NodeType
  <2>3. CASE ~new
    BY <1>3, <2>3
  <2> QED BY <2>2, <2>3
<1> HIDE DEF y, c
<1>5. /\ node' \in [Nodes -> NodeType] /\ node'[n] = y
      /\ \A m \in used \ {n} : node'[m] = node[m]
  BY <1>1, <1>3, <1>4 DEF IInv, TypeOK
<1>6. size' \in Int /\ disk' \in [Keys -> Nat]
  BY <1>1, <1>3 DEF IInv, TypeOK
<1>7. TypeOK'
  BY <1>1, <1>2, <1>5, <1>6, MoveType DEF IInv
<1>8. Rest'
  BY <1>1, <1>2, <1>4, <1>5, <1>7, MoveStep
<1> QED BY <1>7, <1>8 DEF IInv, Rest

LEMMA ExpiredStep ==
  ASSUME IInv, NEW r \in Requests, Expired(r) PROVE IInv'
<1> DEFINE n == req[r].node
           x == node[n]
           c == [req[r] EXCEPT !.updating = ~node[n].updating, !.pc = "fetch"]
           y == [x EXCEPT !.updating = TRUE]
<1>1. /\ req[r].pc = "valid" /\ req' = [req EXCEPT ![r] = c]
      /\ node' = [node EXCEPT ![n] = y]
      /\ UNCHANGED <<conf, used, queue, size, cold, disk, manager, loader, job>>
  BY DEF Expired, Keep
<1>2. n \in used /\ n \in Nodes /\ x \in NodeType /\ req[r] \in ReqType /\ n # NoNode
  BY <1>1, ReqFacts DEF ReqOK
<1>3. /\ c \in ReqType /\ ReqOK(c) /\ c.node = req[r].node /\ c.key = req[r].key
      /\ c.updating = ~x.updating
      /\ ~req[r].updating /\ ~req[r].updated /\ job[r].node = NoNode
  BY <1>1, <1>2, ReqFacts, ZenonT(60) DEF NodeType, ReqType, ReqOK, Pcs
<1>4. /\ y \in NodeType /\ y.count = x.count /\ y.key = x.key
      /\ y.deleting = x.deleting
  BY <1>2 DEF NodeType
<1> HIDE DEF y, c
<1>5. /\ node' \in [Nodes -> NodeType] /\ node'[n] = y
      /\ \A m \in used \ {n} : node'[m] = node[m]
  BY <1>1, <1>2, <1>4 DEF IInv, TypeOK
<1>6. size' \in Int /\ disk' \in [Keys -> Nat]
  BY <1>1 DEF IInv, TypeOK
<1>7. TypeOK'
  BY <1>1, <1>3, <1>5, <1>6, MoveType DEF IInv
<1>8. Rest'
  BY <1>1, <1>3, <1>4, <1>5, <1>7, MoveStep, ZenonT(60)
<1> QED BY <1>7, <1>8 DEF IInv, Rest

-----------------------------------------------------------------------------
(* The lookup.                                                             *)

LEMMA ModRange ==
  ASSUME NEW a \in Int, NEW m \in Nat \ {0}
  PROVE  (a + 1) % m \in 0..(m - 1)
OBVIOUS

LEMMA AfterLookupOK ==
  ASSUME NEW c \in ReqType, c.node # NoNode, ~c.updating, ~c.updated, NEW rc
  PROVE  LET d == AfterLookup(c, rc)
         IN  d \in ReqType /\ ReqOK(d) /\ d.node = c.node /\ d.key = c.key
<1> DEFINE pc == CASE c.create -> "body"
                   [] ~c.create /\ rc = "ok" /\ c.error -> "end"
                   [] ~c.create /\ rc = "again" -> "fetch"
                   [] OTHER -> "open"
<1>1. /\ pc \in {"body", "end", "fetch", "open"}
      /\ (rc = "declined") \in BOOLEAN
      /\ (c.cacheable /\ (c.create \/ rc # "again")) \in BOOLEAN
  BY DEF ReqType
<1> DEFINE d == [c EXCEPT !.declined = rc = "declined",
                          !.cacheable = @ /\ (c.create \/ rc # "again"),
                          !.create = FALSE, !.pc = pc]
<1>2. AfterLookup(c, rc) = d
  BY DEF AfterLookup
<1> HIDE DEF pc
<1>3. /\ d \in ReqType /\ d.node = c.node /\ d.key = c.key /\ ~d.create
      /\ ~d.updating /\ ~d.updated /\ d.pc = pc
  BY <1>1, ZenonT(60) DEF ReqType, Pcs
<1> HIDE DEF d
<1>4. ReqOK(d)
  BY <1>1, <1>3 DEF ReqOK
<1> QED BY <1>2, <1>3, <1>4

LEMMA LookupFoundStep ==
  ASSUME IInv, NEW r \in Requests, LookupFound(r) PROVE IInv'
<1>1. PICK n \in NodesOf(req[r].key), late \in BOOLEAN :
    LET x     == [node[n] EXCEPT !.uses = (@ + 1) % UsesMod, !.count = @ + 1]
        renew == x.error /\ late
        y     == IF renew THEN [x EXCEPT !.error = FALSE, !.exists = FALSE,
                                         !.fs = 0] ELSE x
        rc    == CASE renew -> "declined"
                   [] ~renew /\ (x.error \/ x.exists \/ x.uses >= conf.min_uses)
                        -> "ok"
                   [] OTHER -> "again"
        there == IF rc = "ok" /\ ~x.error THEN x.exists ELSE req[r].exists
        c     == [req[r] EXCEPT !.node = n, !.error = y.error, !.exists = there]
    IN
    /\ req[r].pc = "lookup"
    /\ node' = [node EXCEPT ![n] = y] /\ queue' = Touched(n)
    /\ req' = [req EXCEPT ![r] = AfterLookup(c, rc)]
    /\ UNCHANGED <<conf, used, size, cold, disk, manager, loader, job>>
  BY ZenonT(60) DEF LookupFound
<1> DEFINE x     == [node[n] EXCEPT !.uses = (@ + 1) % UsesMod, !.count = @ + 1]
           renew == x.error /\ late
           y     == IF renew THEN [x EXCEPT !.error = FALSE, !.exists = FALSE,
                                            !.fs = 0] ELSE x
           rc    == CASE renew -> "declined"
                      [] ~renew /\ (x.error \/ x.exists \/ x.uses >= conf.min_uses)
                           -> "ok"
                      [] OTHER -> "again"
           there == IF rc = "ok" /\ ~x.error THEN x.exists ELSE req[r].exists
           b     == [req[r] EXCEPT !.node = n, !.error = y.error, !.exists = there]
           c     == AfterLookup(b, rc)
<1>2. /\ req[r].pc = "lookup" /\ req' = [req EXCEPT ![r] = c]
      /\ node' = [node EXCEPT ![n] = y] /\ queue' = Touched(n)
      /\ UNCHANGED <<conf, used, size, cold, disk, manager, loader, job>>
  <2>1. /\ req[r].pc = "lookup" /\ queue' = Touched(n)
        /\ UNCHANGED <<conf, used, size, cold, disk, manager, loader, job>>
    BY <1>1
  <2>2. node' = [node EXCEPT ![n] = y]
    BY <1>1
  <2>3. req' = [req EXCEPT ![r] = c]
    BY <1>1
  <2> QED BY <2>1, <2>2, <2>3
<1>3. n \in used /\ n \in Nodes /\ node[n] \in NodeType /\ node[n].key = req[r].key
  BY DEF NodesOf, IInv, TypeOK
<1>4. /\ x \in NodeType /\ x.count = node[n].count + 1 /\ x.key = node[n].key
      /\ x.deleting = node[n].deleting /\ x.updating = node[n].updating
  <2> DEFINE u == (node[n].uses + 1) % UsesMod
  <2>1. u \in 0..(UsesMod - 1)
    <3>1. node[n].uses \in Int /\ UsesMod \in Nat \ {0}
      BY <1>3, FileCacheAssumption DEF NodeType
    <3> QED BY <3>1, ModRange
  <2> DEFINE k == node[n].count + 1
  <2>2. x = [node[n] EXCEPT !.uses = u, !.count = k]
    OBVIOUS
  <2>3. k \in Nat
    BY <1>3 DEF NodeType
  <2> HIDE DEF u, x, k
  <2>4. x \in NodeType
    BY <1>3, <2>1, <2>2, <2>3 DEF NodeType
  <2>5. /\ x.count = k /\ x.key = node[n].key
        /\ x.deleting = node[n].deleting /\ x.updating = node[n].updating
    BY <1>3, <2>2 DEF NodeType
  <2> QED BY <2>4, <2>5 DEF k
<1> HIDE DEF x, rc
<1>5. /\ y \in NodeType /\ y.count = node[n].count + 1 /\ y.key = node[n].key
      /\ y.deleting = node[n].deleting /\ y.updating = node[n].updating
  BY <1>4 DEF NodeType
<1>6. /\ req[r] \in ReqType /\ req[r].node = NoNode /\ job[r].node = NoNode
      /\ ~req[r].updating /\ ~req[r].updated
  BY <1>2, ReqFacts DEF ReqOK
<1>7. y.error \in BOOLEAN /\ there \in BOOLEAN
  BY <1>4, <1>5, <1>6 DEF NodeType, ReqType
<1> HIDE DEF y, there
<1>8. /\ b \in ReqType /\ b.node = n /\ b.key = req[r].key
      /\ ~b.updating /\ ~b.updated /\ n # NoNode
  BY <1>3, <1>6, <1>7, FileCacheAssumption DEF ReqType
<1> HIDE DEF b
<1>9. c \in ReqType /\ ReqOK(c) /\ c.node = n /\ c.key = req[r].key
  BY <1>8, AfterLookupOK
<1> HIDE DEF c
<1>10. /\ node' \in [Nodes -> NodeType] /\ node'[n] = y
       /\ \A m \in used \ {n} : node'[m] = node[m]
  BY <1>2, <1>3, <1>5 DEF IInv, TypeOK
<1>11. queue' \in Seq(Nodes) /\ IsInjective(queue') /\ ToSet(queue') = used
  BY <1>2, <1>3, TouchedQueue DEF IInv
<1>12. TypeOK'
  <2>1. req' \in [Requests -> ReqType]
    BY <1>2, <1>9 DEF IInv, TypeOK
  <2> QED BY <1>2, <1>10, <1>11, <2>1 DEF IInv, TypeOK
<1>13. used' = used \cup {n} /\ UNCHANGED <<manager, job>>
  BY <1>2, <1>3
<1>14. /\ node'[n].count = node[n].count + 1 /\ node'[n].key = node[n].key
       /\ node'[n].deleting = node[n].deleting
       /\ node'[n].updating = node[n].updating /\ node'[n].key = c.key
  BY <1>3, <1>5, <1>9, <1>10
<1>15. Rest'
  BY <1>2, <1>3, <1>6, <1>9, <1>10, <1>12, <1>13, <1>14, TakeStep
<1> QED BY <1>12, <1>15 DEF IInv, Rest

LEMMA InsertStep ==
  ASSUME IInv, NEW r \in Requests, Room, Insert(r),
         req[r].node = NoNode, job[r].node = NoNode,
         ~req[r].updating, ~req[r].updated,
         UNCHANGED <<conf, size, cold, disk, manager, loader, job>>
  PROVE  IInv'
<1>1. PICK n \in Nodes \ used :
        /\ used' = used \cup {n}
        /\ node' = [node EXCEPT ![n] = NewNode(req[r].key)]
        /\ queue' = <<n>> \o queue
        /\ req' = [req EXCEPT ![r] =
             AfterLookup([req[r] EXCEPT !.node = n, !.error = FALSE], "declined")]
  BY DEF Insert
<1> DEFINE b == [req[r] EXCEPT !.node = n, !.error = FALSE]
           c == AfterLookup(b, "declined")
<1>2. req[r] \in ReqType /\ TypeOK /\ n # NoNode
  BY ReqFacts, FileCacheAssumption DEF IInv
<1>3. /\ b \in ReqType /\ b.node = n /\ b.key = req[r].key
      /\ ~b.updating /\ ~b.updated
  BY <1>2 DEF ReqType
<1> HIDE DEF b
<1>4. c \in ReqType /\ ReqOK(c) /\ c.node = n /\ c.key = req[r].key
  BY <1>2, <1>3, AfterLookupOK
<1>5. req' = [req EXCEPT ![r] = c]
  BY <1>1 DEF b
<1> HIDE DEF c
<1> DEFINE x == NewNode(req[r].key)
<1>6. x \in NodeType /\ x.count = 1 /\ ~x.updating /\ x.key = req[r].key
  <2>1. 1 \in 0..(UsesMod - 1) /\ req[r].key \in Keys
    BY <1>2, FileCacheAssumption DEF ReqType
  <2> QED BY <2>1, FirstValues DEF NewNode, NodeType
<1> HIDE DEF x
<1>7. /\ node' \in [Nodes -> NodeType] /\ node'[n] = x
      /\ \A m \in used \ {n} : node'[m] = node[m]
  BY <1>1, <1>2, <1>6 DEF TypeOK, x
<1>8. queue' \in Seq(Nodes) /\ IsInjective(queue') /\ ToSet(queue') = used'
  <2>1. queue \in Seq(Nodes) /\ IsInjective(queue) /\ ToSet(queue) = used
    BY <1>2 DEF TypeOK
  <2> QED BY <1>1, <2>1, ConsSeq
<1>9. used' \subseteq Nodes /\ Cardinality(used') <= conf'.room
  <2>1. IsFiniteSet(used) /\ used' \subseteq Nodes
    BY <1>1, <1>2, FileCacheAssumption, FS_Subset DEF TypeOK
  <2>2. Cardinality(used') = Cardinality(used) + 1 /\ Cardinality(used) \in Nat
    BY <1>1, <2>1, FS_AddElement, FS_CardinalityType
  <2>3. conf.room \in Nat /\ Cardinality(used) < conf.room
    BY <1>2, ConfFacts DEF Room
  <2> QED BY <2>1, <2>2, <2>3
<1>10. TypeOK'
  <2>1. req' \in [Requests -> ReqType]
    BY <1>2, <1>4, <1>5 DEF TypeOK
  <2> QED BY <1>2, <1>7, <1>8, <1>9, <2>1 DEF TypeOK
<1>11. node'[n].count = 1 /\ ~node'[n].updating /\ node'[n].key = c.key
  BY <1>4, <1>6, <1>7
<1>12. Rest'
  BY <1>1, <1>4, <1>5, <1>7, <1>10, <1>11, TakeStep
<1> QED BY <1>10, <1>12 DEF IInv, Rest

LEMMA LookupInsertStep ==
  ASSUME IInv, NEW r \in Requests, LookupInsert(r) PROVE IInv'
<1>1. /\ req[r].node = NoNode /\ job[r].node = NoNode
      /\ ~req[r].updating /\ ~req[r].updated
  BY ReqFacts DEF LookupInsert, ReqOK
<1> QED BY <1>1, InsertStep DEF LookupInsert

\* A request without an entry ends.
LEMMA GiveUp ==
  ASSUME IInv, NEW r \in Requests, req' = [req EXCEPT ![r] = Idle],
         req[r].node = NoNode, job[r].node = NoNode,
         UNCHANGED <<conf, used, node, queue, size, cold, disk, manager, loader, job>>
  PROVE  IInv'
<1>1. ~req[r].updating /\ ~req[r].updated /\ disk' \in [Keys -> Nat]
  BY ReqFacts DEF ReqOK
<1> QED BY <1>1, FirstValues, OnlyMoves

LEMMA RetryStep ==
  ASSUME IInv, NEW r \in Requests, Retry(r) PROVE IInv'
<1>1. job[r].node = NoNode
  <2>1. job[r] = NoJob /\ NoJob.node = NoNode
    BY DEF Retry, NoJob
  <2> QED BY <2>1
<1>2. req[r].node = NoNode /\ ~req[r].updating /\ ~req[r].updated
  BY ReqFacts DEF Retry, ReqOK
<1>3. UNCHANGED <<conf, size, cold, disk, manager, loader, job>>
  BY DEF Retry
<1>4. CASE Room
  <2>1. Insert(r)
    BY <1>4 DEF Retry
  <2> QED BY <1>1, <1>2, <1>3, <1>4, <2>1, InsertStep
<1>5. CASE ~Room
  <2>1. req' = [req EXCEPT ![r] = Idle] /\ UNCHANGED <<used, node, queue>>
    BY <1>5 DEF Retry
  <2> QED BY <1>1, <1>2, <1>3, <2>1, GiveUp
<1> QED BY <1>4, <1>5

-----------------------------------------------------------------------------
(* The entry is given back.                                                *)

LEMMA DropType ==
  ASSUME TypeOK, NEW n \in used, NEW q \in Seq(Nodes), IsInjective(q),
         ToSet(q) = used, Drop(n, q), conf' = conf
  PROVE  /\ used' = used \ {n} /\ used' \subseteq Nodes
         /\ Cardinality(used') <= conf'.room
         /\ node' \in [Nodes -> NodeType]
         /\ \A m \in used \ {n} : node'[m] = node[m]
         /\ queue' \in Seq(Nodes) /\ IsInjective(queue') /\ ToSet(queue') = used'
<1>1. used' = used \ {n} /\ node' = [node EXCEPT ![n] = FreeNode]
      /\ queue' = Without(q, n)
  BY DEF Drop
<1>2. queue' \in Seq(Nodes) /\ IsInjective(queue') /\ ToSet(queue') = used'
  BY <1>1, WithoutOne
<1>3. IsFiniteSet(used)
  BY FileCacheAssumption, FS_Subset DEF TypeOK
<1>4. Cardinality(used') <= Cardinality(used)
      /\ Cardinality(used') \in Nat /\ Cardinality(used) \in Nat
  <2>1. IsFiniteSet(used') /\ Cardinality(used') = Cardinality(used) - 1
    BY <1>1, <1>3, FS_RemoveElement
  <2> QED BY <1>3, <2>1, FS_CardinalityType
<1>5. Cardinality(used') <= conf'.room
  BY <1>4, ConfFacts DEF TypeOK
<1>6. node' \in [Nodes -> NodeType] /\ \A m \in used \ {n} : node'[m] = node[m]
  BY <1>1, FirstValues DEF TypeOK
<1> QED BY <1>1, <1>2, <1>5, <1>6 DEF TypeOK

LEMMA ReqIdleType ==
  ASSUME TypeOK, NEW r \in Requests, req' = [req EXCEPT ![r] = Idle]
  PROVE  req' \in [Requests -> ReqType]
BY FirstValues DEF TypeOK

LEMMA UpdateStep ==
  ASSUME IInv, NEW r \in Requests, Update(r) PROVE IInv'
<1> DEFINE c == req[r]
           n == c.node
           x == node[n]
           y == [x EXCEPT !.count = @ - 1, !.fs = c.fs, !.updating = FALSE,
                          !.exists = @ \/ c.renamed]
<1>1. /\ c.pc = "update" /\ size' = size + c.fs - x.fs
      /\ node' = [node EXCEPT ![n] = y] /\ UNCHANGED <<used, queue>>
      /\ req' = [req EXCEPT ![r] = Idle]
      /\ UNCHANGED <<conf, cold, disk, manager, loader, job>>
  BY SMTT(60) DEF Update, Keep
<1>2. /\ n \in used /\ n \in Nodes /\ x \in NodeType /\ c \in ReqType
      /\ job[r].node = NoNode
  BY <1>1, ReqFacts DEF ReqOK
<1>3. x.count >= 1
  <2>1. r \in Holders(n) /\ CountIsUsers
    BY DEF Holders, IInv
  <2> QED BY <1>2, <2>1, OnlyHolder
<1>4. /\ y \in NodeType /\ y.count = x.count - 1 /\ y.key = x.key
      /\ y.deleting = x.deleting /\ ~y.updating
  <2> DEFINE k == x.count - 1
             e == x.exists \/ c.renamed
  <2>1. k \in Nat /\ e \in BOOLEAN /\ c.fs \in Nat
    BY <1>2, <1>3 DEF NodeType, ReqType
  <2>2. y = [x EXCEPT !.count = k, !.fs = c.fs, !.updating = FALSE, !.exists = e]
    OBVIOUS
  <2> HIDE DEF x, y, k, e, c
  <2>3. y \in NodeType
    BY <1>2, <2>1, <2>2 DEF NodeType
  <2>4. /\ y.count = k /\ y.key = x.key /\ y.deleting = x.deleting /\ ~y.updating
    BY <1>2, <2>2 DEF NodeType
  <2> QED BY <2>3, <2>4 DEF k
<1> HIDE DEF y
<1>5. /\ node' \in [Nodes -> NodeType] /\ node'[n] = y
      /\ \A m \in used \ {n} : node'[m] = node[m]
  BY <1>1, <1>2, <1>4 DEF IInv, TypeOK
<1>6. TypeOK'
  <2>1. size' \in Int
    BY <1>1, <1>2 DEF IInv, TypeOK, NodeType, ReqType
  <2>2. req' \in [Requests -> ReqType]
    BY <1>1, ReqIdleType DEF IInv
  <2> QED BY <1>1, <1>5, <2>1, <2>2 DEF IInv, TypeOK
<1>7. Leaves(n)
  BY <1>1, <1>4, <1>5 DEF Leaves
<1>8. Rest'
  BY <1>1, <1>2, <1>4, <1>5, <1>6, <1>7, ReleaseStep
<1> QED BY <1>6, <1>8 DEF IInv, Rest

LEMMA FreeStep ==
  ASSUME IInv, NEW r \in Requests, Free(r) PROVE IInv'
<1> DEFINE c == req[r]
           n == c.node
           x == node[n]
           y == [x EXCEPT !.count = @ - 1, !.updating = @ /\ ~c.updating,
                          !.error = @ \/ c.error]
<1>1. /\ c.pc = "end" /\ req' = [req EXCEPT ![r] = Idle]
      /\ UNCHANGED <<conf, size, cold, disk, manager, loader, job>>
      /\ IF n = NoNode THEN UNCHANGED <<used, node, queue>>
         ELSE IF ~c.error /\ ~y.exists /\ y.count = 0 /\ conf.min_uses = 1
         THEN Drop(n, queue) ELSE Keep(n, y)
  BY DEF Free
<1>2. job[r].node = NoNode /\ c \in ReqType /\ ~c.updated
  BY <1>1, ReqFacts DEF ReqOK
<1>3. CASE n = NoNode
  BY <1>1, <1>2, <1>3, GiveUp
<1>4. CASE n # NoNode
  <2>1. n \in used /\ n \in Nodes /\ x \in NodeType
    BY <1>4, ReqFacts
  <2>2. x.count >= 1
    <3>1. r \in Holders(n) /\ CountIsUsers
      BY DEF Holders, IInv
    <3> QED BY <2>1, <3>1, OnlyHolder
  <2>3. /\ y \in NodeType /\ y.count = x.count - 1 /\ y.key = x.key
        /\ y.deleting = x.deleting
        /\ y.updating => x.updating /\ ~c.updating
    <3> DEFINE k == x.count - 1
               u == x.updating /\ ~c.updating
               e == x.error \/ c.error
    <3>1. k \in Nat /\ u \in BOOLEAN /\ e \in BOOLEAN
      BY <1>2, <2>1, <2>2 DEF NodeType, ReqType
    <3>2. y = [x EXCEPT !.count = k, !.updating = u, !.error = e]
      OBVIOUS
    <3> HIDE DEF x, y, k, e, u
    <3>3. y \in NodeType
      BY <2>1, <3>1, <3>2 DEF NodeType
    <3>4. y.count = k /\ y.key = x.key /\ y.deleting = x.deleting /\ y.updating = u
      BY <2>1, <3>2 DEF NodeType
    <3> QED BY <3>3, <3>4 DEF k, u
  <2> HIDE DEF y
  <2>4. req' \in [Requests -> ReqType] /\ TypeOK
    BY <1>1, ReqIdleType DEF IInv
  <2>5. CASE Drop(n, queue) /\ y.count = 0
    <3>1. /\ used' = used \ {n} /\ used' \subseteq Nodes
          /\ Cardinality(used') <= conf'.room
          /\ node' \in [Nodes -> NodeType]
          /\ \A m \in used \ {n} : node'[m] = node[m]
          /\ queue' \in Seq(Nodes) /\ IsInjective(queue') /\ ToSet(queue') = used'
      <4>1. queue \in Seq(Nodes) /\ IsInjective(queue) /\ ToSet(queue) = used
        BY <2>4 DEF TypeOK
      <4> QED BY <1>1, <2>1, <2>4, <2>5, <4>1, DropType
    <3>2. TypeOK'
      BY <1>1, <2>4, <3>1 DEF TypeOK
    <3>3. Leaves(n) /\ n \notin used'
      BY <2>1, <2>3, <2>5, <3>1, SMTT(60) DEF Leaves, NodeType
    <3>4. Rest'
      BY <1>1, <1>2, <2>1, <3>1, <3>2, <3>3, ReleaseStep
    <3> QED BY <3>2, <3>4 DEF IInv, Rest
  <2>6. CASE Keep(n, y)
    <3>1. /\ node' \in [Nodes -> NodeType] /\ node'[n] = y
          /\ \A m \in used \ {n} : node'[m] = node[m]
          /\ UNCHANGED <<used, queue>>
      BY <2>1, <2>3, <2>4, <2>6 DEF TypeOK, Keep
    <3>2. TypeOK'
      BY <1>1, <2>4, <3>1 DEF TypeOK
    <3>3. Leaves(n)
      BY <2>3, <3>1 DEF Leaves
    <3>4. /\ node'[n].deleting = node[n].deleting
          /\ node'[n].updating => node[n].updating /\ ~req[r].updating
                                  /\ ~req[r].updated
      BY <1>2, <2>3, <3>1
    <3>5. Rest'
      BY <1>1, <1>2, <2>1, <3>1, <3>2, <3>3, <3>4, ReleaseStep
    <3> QED BY <3>2, <3>5 DEF IInv, Rest
  <2> QED BY <1>1, <1>4, <2>5, <2>6
<1> QED BY <1>3, <1>4

-----------------------------------------------------------------------------
(* Deleting.                                                               *)

LEMMA JobFacts ==
  ASSUME IInv, NEW p \in Procs
  PROVE  /\ job[p] \in [node : Nodes \cup {NoNode}, step : {"none", "unlink", "relock"}]
         /\ job[p].step # "none" => /\ job[p].node \in Nodes /\ job[p].node \in used
                                    /\ node[job[p].node] \in NodeType
         /\ job[p] = NoJob => job[p].node = NoNode
<1>1. job[p] = NoJob => job[p].node = NoNode
  <2>1. NoJob.node = NoNode
    BY DEF NoJob
  <2> QED BY <2>1
<1>2. job[p].step # "none" => job[p].node # NoNode
  BY DEF IInv, JobOK
<1> QED BY <1>1, <1>2 DEF IInv, TypeOK, NoDangling

LEMMA DeleteOK ==
  ASSUME IInv, NEW p \in Procs, job[p].node = NoNode,
         NEW n \in used, node[n].count = 0,
         NEW q \in Seq(Nodes), IsInjective(q), ToSet(q) = used,
         Delete(p, n, q), UNCHANGED <<conf, cold, disk, loader>>,
         req' \in [Requests -> ReqType], ReqsOK', SameRequests,
         \A r \in Requests : r = p \/ job[r].node # NoNode =>
           req'[r].pc \in {"retry", "dead"},
         manager' \in {"expire", "check", "forced"},
         IF p = "manager" THEN manager' # "forced" ELSE manager' = manager
  PROVE  IInv'
<1>1. TypeOK /\ n \in Nodes /\ node[n] \in NodeType
  BY DEF IInv, TypeOK
<1>2. CASE node[n].exists
  <2> DEFINE y == [node[n] EXCEPT !.count = @ + 1, !.deleting = TRUE]
             j == [node |-> n, step |-> "unlink"]
  <2>1. /\ size' = size - node[n].fs /\ node' = [node EXCEPT ![n] = y]
        /\ job' = [job EXCEPT ![p] = j] /\ queue' = q /\ used' = used
    BY <1>2 DEF Delete
  <2>2. y \in NodeType /\ y.count = 1 /\ y.key = node[n].key /\ y.deleting
        /\ y.updating = node[n].updating
    <3> DEFINE k == node[n].count + 1
    <3>1. y = [node[n] EXCEPT !.count = k, !.deleting = TRUE] /\ k = 1
      OBVIOUS
    <3> HIDE DEF y, k
    <3>2. y \in NodeType
      BY <1>1, <3>1 DEF NodeType
    <3>3. y.count = k /\ y.key = node[n].key /\ y.deleting
          /\ y.updating = node[n].updating
      BY <1>1, <3>1 DEF NodeType
    <3> QED BY <3>1, <3>2, <3>3
  <2> HIDE DEF y
  <2>3. /\ node' \in [Nodes -> NodeType] /\ node'[n] = y
        /\ \A m \in used \ {n} : node'[m] = node[m]
    BY <1>1, <2>1, <2>2 DEF TypeOK
  <2>4. j \in [node : Nodes \cup {NoNode}, step : {"none", "unlink", "relock"}]
    BY <1>1
  <2> HIDE DEF j
  <2>5. TypeOK'
    <3>1. job' \in [Procs -> [node : Nodes \cup {NoNode},
                              step : {"none", "unlink", "relock"}]]
      BY <1>1, <2>1, <2>4 DEF TypeOK
    <3>2. size' \in Int
      BY <1>1, <2>1 DEF TypeOK, NodeType
    <3> QED BY <1>1, <2>1, <2>3, <3>1, <3>2 DEF TypeOK
  <2>6. /\ node'[n].count = 1 /\ node'[n].key = node[n].key
        /\ node'[n].deleting /\ node'[n].updating = node[n].updating
    BY <2>2, <2>3
  <2>7. Rest'
    BY <2>1, <2>3, <2>5, <2>6, DeleteStep DEF j
  <2> QED BY <2>5, <2>7 DEF IInv, Rest
<1>3. CASE ~node[n].exists
  <2>1. Drop(n, q) /\ UNCHANGED <<size, job>>
    BY <1>3 DEF Delete
  <2>2. /\ used' = used \ {n} /\ used' \subseteq Nodes
        /\ Cardinality(used') <= conf'.room
        /\ node' \in [Nodes -> NodeType]
        /\ \A m \in used \ {n} : node'[m] = node[m]
        /\ queue' \in Seq(Nodes) /\ IsInjective(queue') /\ ToSet(queue') = used'
    BY <1>1, <2>1, DropType
  <2>3. TypeOK'
    BY <1>1, <2>1, <2>2 DEF TypeOK
  <2>4. Rest'
    BY <2>1, <2>2, <2>3, DeleteStep
  <2> QED BY <2>3, <2>4 DEF IInv, Rest
<1> QED BY <1>2, <1>3

LEMMA VictimsUnused ==
  ASSUME TypeOK, NEW n \in Victims PROVE n \in used /\ node[n].count = 0
<1>1. PICK i \in 1..Len(queue) : n = queue[i] /\ node[queue[i]].count = 0
  BY DEF Victims
<1>2. i \in DOMAIN queue
  BY LenProperties DEF TypeOK
<1> QED BY <1>1, <1>2 DEF TypeOK, ToSet

LEMMA RequestForcesStep ==
  ASSUME IInv, NEW r \in Requests, RequestForces(r) PROVE IInv'
<1> DEFINE c == [req[r] EXCEPT !.pc = "retry"]
<1>1. /\ req[r].pc = "forced" /\ req' = [req EXCEPT ![r] = c]
      /\ ForcedExpire(r) /\ UNCHANGED <<conf, cold, disk, manager, loader>>
  BY DEF RequestForces
<1>2. /\ c \in ReqType /\ ReqOK(c) /\ c.node = req[r].node /\ c.key = req[r].key
      /\ c.updating = req[r].updating /\ c.updated = req[r].updated
      /\ c.pc = "retry" /\ job[r].node = NoNode /\ disk \in [Keys -> Nat]
  BY <1>1, ReqFacts DEF ReqType, ReqOK, Pcs
<1> HIDE DEF c
<1>3. CASE Victims = {}
  <2>1. UNCHANGED <<used, node, queue, size, job>>
    BY <1>1, <1>3 DEF ForcedExpire
  <2> QED BY <1>1, <1>2, <2>1, OnlyMoves
<1>4. CASE Victims # {}
  <2>1. PICK n \in Victims : Delete(r, n, queue)
    BY <1>1, <1>4 DEF ForcedExpire
  <2>2. n \in used /\ node[n].count = 0
    BY VictimsUnused DEF IInv
  <2>3. queue \in Seq(Nodes) /\ IsInjective(queue) /\ ToSet(queue) = used
    BY DEF IInv, TypeOK
  <2>4. req'[r] = c /\ \A q \in Requests \ {r} : req'[q] = req[q]
    BY <1>1 DEF IInv, TypeOK
  <2>5. req' \in [Requests -> ReqType] /\ ReqsOK' /\ SameRequests
    <3>1. req' \in [Requests -> ReqType]
      BY <1>1, <1>2 DEF IInv, TypeOK
    <3> QED BY <1>2, <2>4, <3>1 DEF IInv, ReqsOK, ReqOK, SameRequests
  <2>6. \A q \in Requests : q = r \/ job[q].node # NoNode =>
          req'[q].pc \in {"retry", "dead"}
    BY <1>2, <2>4, ReqFacts
  <2>7. /\ r \in Procs /\ r # "manager"
        /\ manager' \in {"expire", "check", "forced"} /\ manager' = manager
    BY <1>1, FileCacheAssumption DEF Procs, IInv, TypeOK
  <2> QED BY <1>1, <1>2, <2>1, <2>2, <2>3, <2>5, <2>6, <2>7, DeleteOK, SMTT(60)
<1> QED BY <1>3, <1>4

LEMMA UnlinkStep ==
  ASSUME IInv, NEW p \in Procs, Unlink(p) PROVE IInv'
<1> DEFINE j == [job[p] EXCEPT !.step = "relock"]
<1>1. /\ job[p].step = "unlink" /\ job' = [job EXCEPT ![p] = j]
      /\ disk' = [disk EXCEPT ![node[job[p].node].key] = 0]
      /\ UNCHANGED <<conf, used, node, queue, size, cold, req, manager, loader>>
  BY DEF Unlink
<1>2. /\ j \in [node : Nodes \cup {NoNode}, step : {"none", "unlink", "relock"}]
      /\ j.node = job[p].node /\ j.step = "relock"
  BY JobFacts
<1> HIDE DEF j
<1>3. TypeOK'
  <2>1. disk' \in [Keys -> Nat]
    BY <1>1 DEF IInv, TypeOK
  <2>2. job' \in [Procs -> [node : Nodes \cup {NoNode},
                            step : {"none", "unlink", "relock"}]]
    BY <1>1, <1>2 DEF IInv, TypeOK
  <2> QED BY <1>1, <2>1, <2>2 DEF IInv, TypeOK
<1>4. \A q \in Procs : /\ job'[q].node = job[q].node
                       /\ job'[q].step = "none" <=> job[q].step = "none"
  BY <1>1, <1>2 DEF IInv, TypeOK
<1>5. manager' = "forced" => job["manager"].node = NoNode
  BY <1>1 DEF IInv, JobOK
<1>6. Rest'
  BY <1>1, <1>3, <1>4, <1>5, NodeStep
<1> QED BY <1>3, <1>6 DEF IInv, Rest

LEMMA RelockKeeps ==
  ASSUME IInv, NEW p \in Procs, Relock(p) PROVE IInv'
<1> DEFINE n == job[p].node
           x == [node[n] EXCEPT !.count = @ - 1, !.deleting = FALSE]
<1>1. /\ job[p].step = "relock"
      /\ IF x.count = 0 THEN Drop(n, queue) ELSE Keep(n, x)
      /\ job' = [job EXCEPT ![p] = NoJob]
      /\ UNCHANGED <<conf, size, cold, disk, req, manager, loader>>
  BY DEF Relock
<1>2. n \in Nodes /\ n \in used /\ node[n] \in NodeType /\ TypeOK
  BY <1>1, JobFacts DEF IInv
<1>3. node[n].count >= 1
  <2>1. p \in Jobs(n) /\ CountIsUsers
    BY DEF Jobs, IInv
  <2> QED BY <1>2, <2>1, OnlyJob
<1>4. /\ x \in NodeType /\ x.count = node[n].count - 1 /\ x.key = node[n].key
      /\ x.updating = node[n].updating
  <2> DEFINE k == node[n].count - 1
  <2>1. k \in Nat
    BY <1>2, <1>3 DEF NodeType
  <2>2. x = [node[n] EXCEPT !.count = k, !.deleting = FALSE]
    OBVIOUS
  <2> HIDE DEF n, x, k
  <2>3. x \in NodeType
    BY <1>2, <2>1, <2>2 DEF NodeType
  <2>4. x.count = k /\ x.key = node[n].key /\ x.updating = node[n].updating
    BY <1>2, <2>2 DEF NodeType
  <2> QED BY <2>3, <2>4 DEF k
<1> HIDE DEF x
<1>5. job' \in [Procs -> [node : Nodes \cup {NoNode},
                          step : {"none", "unlink", "relock"}]]
  BY <1>1, <1>2 DEF TypeOK, NoJob
<1>6. CASE x.count = 0
  <2>1. /\ used' = used \ {n} /\ used' \subseteq Nodes
        /\ Cardinality(used') <= conf'.room
        /\ node' \in [Nodes -> NodeType]
        /\ \A m \in used \ {n} : node'[m] = node[m]
        /\ queue' \in Seq(Nodes) /\ IsInjective(queue') /\ ToSet(queue') = used'
    <3>1. queue \in Seq(Nodes) /\ IsInjective(queue) /\ ToSet(queue) = used
      BY <1>2 DEF TypeOK
    <3> QED BY <1>1, <1>2, <1>6, <3>1, DropType
  <2>2. TypeOK'
    BY <1>1, <1>2, <1>5, <2>1 DEF TypeOK
  <2>3. Leaves(n) /\ n \notin used'
    BY <1>2, <1>4, <1>6, <2>1, SMTT(60) DEF Leaves, NodeType
  <2>4. Rest'
    BY <1>1, <1>2, <2>1, <2>2, <2>3, RelockStep
  <2> QED BY <2>2, <2>4 DEF IInv, Rest
<1>7. CASE x.count # 0
  <2>1. /\ node' \in [Nodes -> NodeType] /\ node'[n] = x
        /\ \A m \in used \ {n} : node'[m] = node[m]
        /\ UNCHANGED <<used, queue>>
    BY <1>1, <1>2, <1>4, <1>7 DEF TypeOK, Keep
  <2>2. TypeOK'
    BY <1>1, <1>2, <1>5, <2>1 DEF TypeOK
  <2>3. Leaves(n) /\ node'[n].updating = node[n].updating
    BY <1>4, <2>1 DEF Leaves
  <2>4. Rest'
    BY <1>1, <1>2, <2>1, <2>2, <2>3, RelockStep
  <2> QED BY <2>2, <2>4 DEF IInv, Rest
<1> QED BY <1>6, <1>7

-----------------------------------------------------------------------------
(* The manager and the loader.                                             *)

\* Nothing but the queue, the manager, the loader, `cold` and the files.
LEMMA QuietStep ==
  ASSUME IInv, UNCHANGED <<conf, used, node, size, req, job>>,
         queue' \in Seq(Nodes), IsInjective(queue'), ToSet(queue') = used,
         cold' \in BOOLEAN, disk' \in [Keys -> Nat],
         manager' \in {"expire", "check", "forced"},
         manager' = "forced" => job["manager"].node = NoNode,
         loader' \in [pc : {"idle", "walk", "add", "unlink"}, left : SUBSET Keys,
                      key : Keys, fs : Nat]
  PROVE  IInv'
<1>1. TypeOK'
  BY DEF IInv, TypeOK
<1>2. Rest'
  BY <1>1, NodeStep
<1> QED BY <1>1, <1>2 DEF IInv, Rest

LEMMA SharedFacts ==
  ASSUME IInv
  PROVE  /\ queue \in Seq(Nodes) /\ IsInjective(queue) /\ ToSet(queue) = used
         /\ cold \in BOOLEAN /\ disk \in [Keys -> Nat]
         /\ manager \in {"expire", "check", "forced"} /\ "manager" \in Procs
         /\ manager = "forced" => job["manager"].node = NoNode
         /\ loader \in [pc : {"idle", "walk", "add", "unlink"}, left : SUBSET Keys,
                        key : Keys, fs : Nat]
         /\ req \in [Requests -> ReqType] /\ ReqsOK /\ JobOK
BY DEF IInv, TypeOK, JobOK, Procs

\* The manager deletes.
LEMMA ManagerDeletes ==
  ASSUME IInv, job["manager"].node = NoNode, NEW n \in used, node[n].count = 0,
         NEW q \in Seq(Nodes), IsInjective(q), ToSet(q) = used,
         Delete("manager", n, q), UNCHANGED <<conf, cold, disk, req, loader>>,
         manager' \in {"expire", "check"}
  PROVE  IInv'
<1>1. "manager" \in Procs
  BY DEF Procs
<1>2. req' \in [Requests -> ReqType] /\ ReqsOK' /\ SameRequests
  BY SharedFacts DEF ReqsOK, SameRequests
<1>3. \A r \in Requests : r = "manager" \/ job[r].node # NoNode =>
        req'[r].pc \in {"retry", "dead"}
  BY FileCacheAssumption DEF IInv, JobOK
<1> QED BY <1>1, <1>2, <1>3, DeleteOK

LEMMA ManagerExpireStep ==
  ASSUME IInv, ManagerExpire PROVE IInv'
<1>1. PICK j \in 0..Len(queue) :
       LET rest  == SubSeq(queue, 1, Len(queue) - j)
           moved == SubSeq(queue, Len(queue) - j + 1, Len(queue))
           q     == moved \o rest
       IN \/ /\ manager' = "check" /\ queue' = q
             /\ UNCHANGED <<used, node, size, job>>
          \/ /\ rest # <<>> /\ node[Last(rest)].count = 0
             /\ Delete("manager", Last(rest), q)
             /\ UNCHANGED manager
  BY DEF ManagerExpire
<1> DEFINE k     == Len(queue) - j
           rest  == SubSeq(queue, 1, k)
           moved == SubSeq(queue, k + 1, Len(queue))
           q     == moved \o rest
<1>2. \/ /\ manager' = "check" /\ queue' = q
         /\ UNCHANGED <<used, node, size, job>>
      \/ /\ rest # <<>> /\ node[Last(rest)].count = 0
         /\ Delete("manager", Last(rest), q)
         /\ UNCHANGED manager
  BY <1>1
<1>3. /\ queue \in Seq(Nodes) /\ IsInjective(queue) /\ ToSet(queue) = used
      /\ k \in 0..Len(queue)
  <2>1. Len(queue) \in Nat
    BY SharedFacts, LenProperties
  <2> QED BY <2>1, SharedFacts
<1> HIDE DEF k
<1>4. /\ q \in Seq(Nodes) /\ IsInjective(q) /\ ToSet(q) = used
      /\ rest # <<>> => Last(rest) \in used
  BY <1>3, RotateSeq
<1> HIDE DEF q, rest, moved
<1>5. /\ manager = "expire" /\ job["manager"].node = NoNode
      /\ UNCHANGED <<conf, cold, disk, req, loader>>
  BY JobFacts DEF ManagerExpire, Procs
<1>6. CASE manager' = "check" /\ queue' = q /\ UNCHANGED <<used, node, size, job>>
  BY <1>4, <1>5, <1>6, QuietStep, SharedFacts
<1>7. CASE rest # <<>> /\ node[Last(rest)].count = 0
           /\ Delete("manager", Last(rest), q) /\ UNCHANGED manager
  BY <1>4, <1>5, <1>7, ManagerDeletes
<1> QED BY <1>2, <1>6, <1>7

LEMMA ManagerChecksStep ==
  ASSUME IInv, ManagerChecks PROVE IInv'
<1>1. /\ job["manager"].node = NoNode /\ manager' \in {"expire", "forced"}
      /\ UNCHANGED <<conf, used, node, queue, size, cold, disk, req, loader, job>>
  BY JobFacts DEF ManagerChecks, Procs
<1> QED BY <1>1, QuietStep, SharedFacts

LEMMA ManagerForcesStep ==
  ASSUME IInv, ManagerForces PROVE IInv'
<1>1. /\ manager = "forced" /\ ForcedExpire("manager")
      /\ manager' \in {"expire", "check"}
      /\ UNCHANGED <<conf, cold, disk, req, loader>>
  BY DEF ManagerForces
<1>2. CASE Victims = {}
  <2>1. UNCHANGED <<used, node, queue, size, job>>
    BY <1>1, <1>2 DEF ForcedExpire
  <2> QED BY <1>1, <2>1, QuietStep, SharedFacts
<1>3. CASE Victims # {}
  <2>1. PICK n \in Victims : Delete("manager", n, queue)
    BY <1>1, <1>3 DEF ForcedExpire
  <2>2. n \in used /\ node[n].count = 0
    BY VictimsUnused DEF IInv
  <2> QED BY <1>1, <2>1, <2>2, ManagerDeletes, SharedFacts
<1> QED BY <1>2, <1>3

LEMMA WalkType ==
  ASSUME NEW keys \in SUBSET Keys
  PROVE  /\ Walk(keys) \in [pc : {"idle", "walk", "add", "unlink"},
                            left : SUBSET Keys, key : Keys, fs : Nat]
         /\ [Walk(keys) EXCEPT !.pc = "idle"] \in
              [pc : {"idle", "walk", "add", "unlink"},
               left : SUBSET Keys, key : Keys, fs : Nat]
<1>1. Idle.key \in Keys
  BY FirstValues DEF ReqType
<1> QED BY <1>1 DEF Walk

LEMMA LoaderAddsStep ==
  ASSUME IInv, LoaderAdds PROVE IInv'
<1> DEFINE x == [FreeNode EXCEPT !.key = loader.key, !.uses = 1,
                   !.exists = TRUE, !.fs = loader.fs]
<1>1. PICK n \in Nodes \ used :
        /\ used' = used \cup {n} /\ node' = [node EXCEPT ![n] = x]
        /\ queue' = <<n>> \o queue
  BY DEF LoaderAdds
<1>2. /\ Room /\ size' = size + loader.fs /\ loader' = Walk(loader.left)
      /\ UNCHANGED <<conf, cold, disk, req, manager, job>>
  BY DEF LoaderAdds
<1>3. /\ loader.key \in Keys /\ loader.fs \in Nat /\ loader.left \in SUBSET Keys
      /\ TypeOK
  BY SharedFacts DEF IInv
<1>4. x \in NodeType /\ x.count = 0 /\ ~x.updating
  <2>1. 1 \in 0..(UsesMod - 1)
    BY FileCacheAssumption
  <2> QED BY <1>3, <2>1, FirstValues DEF NodeType
<1> HIDE DEF x
<1>5. /\ node' \in [Nodes -> NodeType] /\ node'[n] = x
      /\ \A m \in used : node'[m] = node[m]
  BY <1>1, <1>3, <1>4 DEF TypeOK
<1>6. queue' \in Seq(Nodes) /\ IsInjective(queue') /\ ToSet(queue') = used'
  BY <1>1, SharedFacts, ConsSeq
<1>7. used' \subseteq Nodes /\ Cardinality(used') <= conf'.room
  <2>1. IsFiniteSet(used) /\ used' \subseteq Nodes
    BY <1>1, <1>3, FileCacheAssumption, FS_Subset DEF TypeOK
  <2>2. Cardinality(used') = Cardinality(used) + 1 /\ Cardinality(used) \in Nat
    BY <1>1, <2>1, FS_AddElement, FS_CardinalityType
  <2>3. conf.room \in Nat /\ Cardinality(used) < conf.room
    BY <1>2, <1>3, ConfFacts DEF Room
  <2> QED BY <1>2, <2>1, <2>2, <2>3
<1>8. TypeOK'
  <2>1. size' \in Int
    BY <1>2, <1>3 DEF TypeOK
  <2>2. loader' \in [pc : {"idle", "walk", "add", "unlink"}, left : SUBSET Keys,
                     key : Keys, fs : Nat]
    BY <1>2, <1>3, WalkType
  <2> QED BY <1>2, <1>3, <1>5, <1>6, <1>7, <2>1, <2>2 DEF TypeOK
<1>9. \A m \in used' \ used : node'[m].count = 0 /\ ~node'[m].updating
  BY <1>1, <1>4, <1>5
<1>10. Rest'
  BY <1>1, <1>2, <1>5, <1>8, <1>9, SharedFacts, NodeStep
<1> QED BY <1>8, <1>10 DEF IInv, Rest

LEMMA LoaderStepKeeps ==
  ASSUME IInv, LoaderStep PROVE IInv'
<1> DEFINE LoaderType == [pc : {"idle", "walk", "add", "unlink"},
                          left : SUBSET Keys, key : Keys, fs : Nat]
<1>1. CASE LoaderStarts
  <2>1. conf.keys \cup conf.asked \in SUBSET Keys
    BY ConfFacts DEF IInv
  <2>2. loader' \in LoaderType
    BY <1>1, <2>1, WalkType DEF LoaderStarts
  <2> QED BY <1>1, <2>2, SharedFacts, QuietStep DEF LoaderStarts
<1>2. CASE LoaderFinds
  <2>1. PICK n \in NodesOf(loader.key) : queue' = Touched(n)
    BY <1>2 DEF LoaderFinds
  <2>2. queue' \in Seq(Nodes) /\ IsInjective(queue') /\ ToSet(queue') = used
    BY <2>1, TouchedQueue DEF NodesOf, IInv
  <2>3. loader' \in LoaderType
    BY <1>2, SharedFacts, WalkType DEF LoaderFinds
  <2> QED BY <1>2, <2>2, <2>3, SharedFacts, QuietStep DEF LoaderFinds
<1>3. CASE LoaderAdds
  BY <1>3, LoaderAddsStep
<1>4. CASE LoaderFull
  <2>1. loader' \in LoaderType
    BY <1>4, SharedFacts DEF LoaderFull
  <2> QED BY <1>4, <2>1, SharedFacts, QuietStep DEF LoaderFull
<1>5. CASE LoaderUnlinks
  <2>1. loader' \in LoaderType /\ disk' \in [Keys -> Nat]
    BY <1>5, SharedFacts, WalkType DEF LoaderUnlinks
  <2> QED BY <1>5, <2>1, SharedFacts, QuietStep DEF LoaderUnlinks
<1>6. CASE LoaderEnds
  <2>1. loader' \in LoaderType
    BY <1>6, WalkType DEF LoaderEnds
  <2>2. cold' \in BOOLEAN
    BY <1>6, SharedFacts DEF LoaderEnds
  <2> QED BY <1>6, <2>1, <2>2, SharedFacts, QuietStep DEF LoaderEnds
<1>7. CASE \E k \in Keys : LoaderSees(k)
  <2>1. PICK k \in Keys : LoaderSees(k)
    BY <1>7
  <2>2. loader' \in LoaderType
    BY <2>1, SharedFacts DEF LoaderSees
  <2> QED BY <2>1, <2>2, SharedFacts, QuietStep DEF LoaderSees
<1> QED BY <1>1, <1>2, <1>3, <1>4, <1>5, <1>6, <1>7 DEF LoaderStep

-----------------------------------------------------------------------------

LEMMA InitIInv == Init => IInv
<1> SUFFICES ASSUME Init PROVE IInv
  OBVIOUS
<1>1. conf \in ConfType /\ conf.sizes \subseteq Nat /\ conf.room \in Nat
  BY FileCacheAssumption DEF Init, ConfType
<1>2. \A p \in Procs : job[p].node = NoNode /\ job[p].step = "none"
  BY DEF Init, NoJob
<1>3. \A r \in Requests : req[r] = Idle
  BY DEF Init
<1>4. TypeOK
  <2>1. queue \in Seq(Nodes) /\ IsInjective(queue) /\ ToSet(queue) = used
    BY EmptySeq DEF Init, IsInjective, ToSet
  <2>2. used \subseteq Nodes /\ Cardinality(used) <= conf.room
    BY <1>1, FS_EmptySet DEF Init
  <2>3. node \in [Nodes -> NodeType] /\ req \in [Requests -> ReqType]
    BY FirstValues DEF Init
  <2>4. disk \in [Keys -> Nat]
    BY <1>1 DEF Init
  <2>5. loader \in [pc : {"idle", "walk", "add", "unlink"}, left : SUBSET Keys,
                    key : Keys, fs : Nat]
    <3>1. Idle.key \in Keys
      BY FirstValues DEF ReqType
    <3> QED BY <3>1 DEF Init
  <2>6. job \in [Procs -> [node : Nodes \cup {NoNode},
                           step : {"none", "unlink", "relock"}]]
    BY DEF Init, NoJob
  <2> QED BY <2>1, <2>2, <2>3, <2>4, <2>5, <2>6 DEF Init, TypeOK
<1>5. CountIsUsers /\ UpdatingHasUpdater
  BY DEF Init, CountIsUsers, UpdatingHasUpdater
<1>6. NoDangling
  BY <1>2, <1>3, FirstValues DEF NoDangling
<1>7. ReqsOK
  BY <1>3, FirstValues DEF ReqsOK
<1>8. JobOK
  BY <1>2 DEF JobOK, Procs
<1> QED BY <1>4, <1>5, <1>6, <1>7, <1>8 DEF IInv

LEMMA NextIInv == IInv /\ [Next]_vars => IInv'
<1> SUFFICES ASSUME IInv, [Next]_vars PROVE IInv'
  OBVIOUS
<1>1. CASE \E r \in Requests : RequestStep(r)
  <2>1. PICK r \in Requests : RequestStep(r)
    BY <1>1
  <2> QED BY <2>1, StartStep, LookupFoundStep, LookupInsertStep, LookupFullStep,
             RequestForcesStep, RetryStep, OpenStep, ReadBadStep, ReadStep,
             HitStep, ExpiredStep, ResponseStep, NoResponseStep, RenameStep,
             RenameFailsStep, UpdateStep, FreeStep, CrashStep DEF RequestStep
<1>2. CASE \E p \in Procs : Unlink(p) \/ Relock(p)
  BY <1>2, UnlinkStep, RelockKeeps
<1>3. CASE ManagerStep
  BY <1>3, ManagerExpireStep, ManagerChecksStep, ManagerForcesStep DEF ManagerStep
<1>4. CASE LoaderStep
  BY <1>4, LoaderStepKeeps
<1>5. CASE UNCHANGED vars
  <2>1. /\ UNCHANGED <<conf, used, node, queue, size, cold, disk, req, manager,
                       loader, job>>
    BY <1>5 DEF vars
  <2> QED BY <2>1, SharedFacts, QuietStep
<1> QED BY <1>1, <1>2, <1>3, <1>4, <1>5 DEF Next

LEMMA SpecIInv == Spec => []IInv
BY InitIInv, NextIInv, PTL DEF Spec

\* Whatever the number of requests, of keys and of places in the zone, and
\* whoever of the requests, the manager and the loader crosses whom: the count
\* of an entry (ngx_http_file_cache_exists(), _free(), _update() and _delete())
\* is the number of its users, and nobody has a pointer to an entry that was
\* freed or that now is the entry of another key.
THEOREM EntriesAreCounted == Spec => []EntriesCounted
<1>1. IInv => EntriesCounted
  BY DEF IInv, EntriesCounted
<1> QED BY <1>1, SpecIInv, PTL

\* An entry that says it is being updated has a request that will say that it
\* no longer is (ngx_http_upstream_cache(), _free() and _update()), unless its
\* worker died.
THEOREM UpdatingIsEnded == Spec => []UpdatingHasUpdater
<1>1. IInv => UpdatingHasUpdater
  BY DEF IInv
<1> QED BY <1>1, SpecIInv, PTL

-----------------------------------------------------------------------------
(***************************************************************************)
(* The sum of the sizes of a set of nodes.  FsSum is defined by a fold     *)
(* that takes the members out one by one.  That the function it folds with *)
(* exists, that there is only one, and that the order does not matter is   *)
(* shown by induction on the number of members (SetInduction).             *)
(***************************************************************************)

\* The member that the fold takes out next.
One(s) == CHOOSE x \in s : TRUE

\* What the function of a sum says of a set.
SumOf(g, h, s) == IF s = {} THEN 0 ELSE g[One(s)].fs + h[s \ {One(s)}]
IsSum(g, S, h) == h = [s \in SUBSET S |-> SumOf(g, h, s)]

LEMMA FsSumDef ==
  ASSUME NEW g, NEW S
  PROVE  FsSum(g, S) = (CHOOSE h : IsSum(g, S, h))[S]
BY DEF FsSum, MapThenSumSet, MapThenFoldSet, IsSum, SumOf, One

LEMMA OneIn == ASSUME NEW s, s # {} PROVE One(s) \in s
BY DEF One

\* A set without a member has one member less.
LEMMA OneLess ==
  ASSUME NEW S, IsFiniteSet(S), NEW s \in SUBSET S, NEW x \in s
  PROVE  /\ s \ {x} \in SUBSET S /\ Cardinality(s) \in Nat \ {0}
         /\ Cardinality(s \ {x}) = Cardinality(s) - 1
<1>1. IsFiniteSet(s)
  BY FS_Subset
<1>2. Cardinality(s) \in Nat /\ Cardinality(s \ {x}) = Cardinality(s) - 1
  BY <1>1, FS_CardinalityType, FS_RemoveElement
<1>3. Cardinality(s) # 0
  BY <1>1, FS_EmptySet
<1> QED BY <1>2, <1>3

\* The smaller sets of a finite set have their size.
LEMMA Sized ==
  ASSUME NEW S, IsFiniteSet(S)
  PROVE  /\ Cardinality(S) \in Nat
         /\ \A s \in SUBSET S : /\ Cardinality(s) \in Nat /\ Cardinality(s) <= Cardinality(S)
                                /\ Cardinality(s) = 0 <=> s = {}
BY FS_Subset, FS_CardinalityType, FS_EmptySet

\* The function by which the sum is defined exists ...
LEMMA SumExists ==
  ASSUME NEW g, NEW S, IsFiniteSet(S)
  PROVE  \E h : IsSum(g, S, h)
<1> DEFINE Upto(h, n) == /\ h = [s \in SUBSET S |-> h[s]]
                         /\ \A s \in SUBSET S : Cardinality(s) <= n => h[s] = SumOf(g, h, s)
           T == {n \in Nat : \E h : Upto(h, n)}
<1>1. 0 \in T
  <2> DEFINE h == [s \in SUBSET S |-> 0]
  <2>1. \A s \in SUBSET S : Cardinality(s) <= 0 => s = {}
    BY Sized
  <2>2. Upto(h, 0)
    BY <2>1 DEF SumOf
  <2> QED BY <2>2
<1>2. ASSUME NEW n \in Nat, n \in T PROVE n + 1 \in T
  <2>1. PICK h : Upto(h, n)
    BY <1>2
  <2> DEFINE k == [s \in SUBSET S |-> SumOf(g, h, s)]
  <2>2. ASSUME NEW s \in SUBSET S, Cardinality(s) <= n + 1 PROVE k[s] = SumOf(g, k, s)
    <3>1. CASE s = {}
      BY <3>1 DEF SumOf
    <3>2. CASE s # {}
      <4> DEFINE t == s \ {One(s)}
      <4>1. t \in SUBSET S /\ Cardinality(t) <= n
        <5>1. One(s) \in s
          BY <3>2, OneIn
        <5> QED BY <2>2, <5>1, OneLess
      <4>2. k[t] = h[t]
        BY <2>1, <4>1
      <4> HIDE DEF k
      <4>3. SumOf(g, k, s) = SumOf(g, h, s)
        BY <3>2, <4>2 DEF SumOf
      <4> QED BY <4>3 DEF k
    <3> QED BY <3>1, <3>2
  <2>3. k = [s \in SUBSET S |-> k[s]]
    OBVIOUS
  <2> HIDE DEF k
  <2>4. Upto(k, n + 1)
    BY <2>2, <2>3
  <2>5. n + 1 \in Nat /\ \E f : Upto(f, n + 1)
    <3> HIDE DEF Upto
    <3> QED BY <2>4
  <2> QED BY <2>5
<1> HIDE DEF T
<1>3. Cardinality(S) \in T
  BY <1>1, <1>2, SetInduction, Sized
<1>4. PICK h : Upto(h, Cardinality(S))
  BY <1>3 DEF T
<1>5. \A s \in SUBSET S : h[s] = SumOf(g, h, s)
  BY <1>4, Sized
<1>6. h = [s \in SUBSET S |-> SumOf(g, h, s)]
  BY <1>4, <1>5
<1> QED BY <1>6 DEF IsSum

\* ... and there is only one, also for the smaller sets.
LEMMA SumUnique ==
  ASSUME NEW g, NEW S, IsFiniteSet(S), NEW R \in SUBSET S,
         NEW h, IsSum(g, S, h), NEW k, IsSum(g, R, k)
  PROVE  \A s \in SUBSET R : h[s] = k[s]
<1> DEFINE T == {n \in Nat : \A s \in SUBSET R : Cardinality(s) <= n => h[s] = k[s]}
<1>0. \A s \in SUBSET R : h[s] = SumOf(g, h, s) /\ k[s] = SumOf(g, k, s)
  BY DEF IsSum
<1>f. IsFiniteSet(R)
  BY FS_Subset
<1>1. 0 \in T
  <2>1. \A s \in SUBSET R : Cardinality(s) <= 0 => s = {}
    BY <1>f, Sized
  <2>2. h[{}] = 0 /\ k[{}] = 0
    BY <1>0 DEF SumOf
  <2> QED BY <2>1, <2>2
<1>2. ASSUME NEW n \in Nat, n \in T PROVE n + 1 \in T
  <2> SUFFICES ASSUME NEW s \in SUBSET R, Cardinality(s) <= n + 1 PROVE h[s] = k[s]
    OBVIOUS
  <2>1. CASE s = {}
    BY <1>0, <2>1 DEF SumOf
  <2>2. CASE s # {}
    <3> DEFINE t == s \ {One(s)}
    <3>1. t \in SUBSET R /\ Cardinality(t) <= n
      <4>1. One(s) \in s
        BY <2>2, OneIn
      <4> QED BY <1>f, <4>1, OneLess
    <3>2. h[t] = k[t]
      BY <1>2, <3>1
    <3> QED BY <1>0, <2>2, <3>2 DEF SumOf
  <2> QED BY <2>1, <2>2
<1> HIDE DEF T
<1>3. Cardinality(R) \in T
  BY <1>1, <1>2, <1>f, SetInduction, Sized
<1> QED BY <1>3, <1>f, Sized DEF T

\* The sum of a set is that of one member, the one that is chosen, and the others.
LEMMA SumChosen ==
  ASSUME NEW g, NEW S, IsFiniteSet(S)
  PROVE  /\ S = {} => FsSum(g, S) = 0
         /\ S # {} => FsSum(g, S) = g[One(S)].fs + FsSum(g, S \ {One(S)})
<1> DEFINE h == CHOOSE f : IsSum(g, S, f)
           R == S \ {One(S)}
           k == CHOOSE f : IsSum(g, R, f)
<1>1. IsSum(g, S, h)
  BY SumExists
<1>2. IsFiniteSet(R) /\ R \in SUBSET S
  BY FS_Subset
<1>3. IsSum(g, R, k)
  BY <1>2, SumExists
<1>4. FsSum(g, S) = h[S] /\ FsSum(g, R) = k[R]
  BY FsSumDef
<1> HIDE DEF h, k, R
<1>5. h[R] = k[R]
  BY <1>1, <1>2, <1>3, SumUnique
<1>6. h[S] = SumOf(g, h, S)
  BY <1>1 DEF IsSum
<1> QED BY <1>4, <1>5, <1>6 DEF SumOf, R

\* ... and so for every member.
LEMMA SumAny ==
  ASSUME NEW g, NEW U, IsFiniteSet(U), \A n \in U : g[n].fs \in Int
  PROVE  \A S \in SUBSET U : /\ FsSum(g, S) \in Int
                             /\ \A x \in S : FsSum(g, S) = g[x].fs + FsSum(g, S \ {x})
<1> DEFINE P(S) == /\ FsSum(g, S) \in Int
                   /\ \A x \in S : FsSum(g, S) = g[x].fs + FsSum(g, S \ {x})
           T == {n \in Nat : \A S \in SUBSET U : Cardinality(S) <= n => P(S)}
<1>0. \A S \in SUBSET U : IsFiniteSet(S)
  BY FS_Subset
<1>1. 0 \in T
  <2>1. FsSum(g, {}) = 0
    BY SumChosen, FS_EmptySet
  <2>2. P({})
    BY <2>1
  <2>3. \A S \in SUBSET U : Cardinality(S) <= 0 => S = {}
    BY Sized
  <2> HIDE DEF P
  <2> QED BY <2>2, <2>3
<1>2. ASSUME NEW n \in Nat, n \in T PROVE n + 1 \in T
  <2>1. ASSUME NEW S \in SUBSET U, Cardinality(S) <= n + 1, S # {} PROVE P(S)
    <3> DEFINE c == One(S)
               R == S \ {c}
    <3>1. c \in S /\ c \in U /\ g[c].fs \in Int
      BY <2>1, OneIn
    <3> HIDE DEF c
    <3>2. R \in SUBSET U /\ Cardinality(R) <= n
      BY <2>1, <3>1, OneLess
    <3>3. P(R)
      BY <1>2, <3>2
    <3>4. FsSum(g, S) = g[c].fs + FsSum(g, R)
      BY <1>0, <2>1, SumChosen DEF c
    <3>5. FsSum(g, S) \in Int
      BY <3>1, <3>3, <3>4
    <3>6. ASSUME NEW x \in S, x # c PROVE FsSum(g, S) = g[x].fs + FsSum(g, S \ {x})
      <4> DEFINE Q == S \ {x}
                 B == R \ {x}
      <4>1. Q \in SUBSET U /\ Cardinality(Q) <= n
        BY <2>1, <3>6, OneLess
      <4>2. P(Q)
        BY <1>2, <4>1
      <4>3. c \in Q /\ x \in R /\ Q \ {c} = B
        BY <3>1, <3>6
      <4>4. FsSum(g, R) = g[x].fs + FsSum(g, B)
        BY <3>3, <4>3
      <4>5. FsSum(g, Q) = g[c].fs + FsSum(g, B)
        BY <4>2, <4>3
      <4>6. FsSum(g, B) \in Int
        <5>1. B \in SUBSET U /\ Cardinality(B) <= n
          <6>1. Cardinality(B) = Cardinality(R) - 1 /\ Cardinality(R) \in Nat
            BY <3>2, <4>3, OneLess
          <6> QED BY <3>2, <6>1
        <5> QED BY <1>2, <5>1
      <4>7. g[x].fs \in Int
        BY <3>6
      <4> HIDE DEF Q, B, R
      <4>8. FsSum(g, S) = g[x].fs + FsSum(g, Q)
        BY <3>1, <3>4, <4>4, <4>5, <4>6, <4>7
      <4> QED BY <4>8 DEF Q
    <3>7. \A x \in S : FsSum(g, S) = g[x].fs + FsSum(g, S \ {x})
      BY <3>4, <3>6
    <3> QED BY <3>5, <3>7
  <2>2. P({})
    <3>1. FsSum(g, {}) = 0
      BY SumChosen, FS_EmptySet
    <3> QED BY <3>1
  <2> HIDE DEF P
  <2> QED BY <2>1, <2>2
<1> HIDE DEF T
<1>3. Cardinality(U) \in T
  BY <1>1, <1>2, SetInduction, Sized
<1> QED BY <1>3, Sized DEF T

\* What is not changed does not change the sum.
LEMMA SumSame ==
  ASSUME NEW g, NEW f, NEW U, IsFiniteSet(U), \A n \in U : g[n].fs \in Int,
         \A n \in U : f[n].fs = g[n].fs
  PROVE  FsSum(f, U) = FsSum(g, U)
<1> DEFINE T == {n \in Nat : \A S \in SUBSET U :
                   Cardinality(S) <= n => FsSum(f, S) = FsSum(g, S)}
<1>0. \A S \in SUBSET U : IsFiniteSet(S)
  BY FS_Subset
<1>1. 0 \in T
  <2>1. FsSum(g, {}) = 0 /\ FsSum(f, {}) = 0
    BY SumChosen, FS_EmptySet
  <2>2. \A S \in SUBSET U : Cardinality(S) <= 0 => S = {}
    BY Sized
  <2> QED BY <2>1, <2>2
<1>2. ASSUME NEW n \in Nat, n \in T PROVE n + 1 \in T
  <2> SUFFICES ASSUME NEW S \in SUBSET U, Cardinality(S) <= n + 1
               PROVE  FsSum(f, S) = FsSum(g, S)
    OBVIOUS
  <2>1. CASE S = {}
    BY <2>1, SumChosen, FS_EmptySet
  <2>2. CASE S # {}
    <3> DEFINE c == One(S)
               R == S \ {c}
    <3>1. c \in S
      BY <2>2, OneIn
    <3> HIDE DEF c
    <3>2. R \in SUBSET U /\ Cardinality(R) <= n
      BY <3>1, OneLess
    <3>3. FsSum(f, R) = FsSum(g, R)
      BY <1>2, <3>2
    <3>4. FsSum(f, S) = f[c].fs + FsSum(f, R) /\ FsSum(g, S) = g[c].fs + FsSum(g, R)
      BY <1>0, <2>2, SumChosen DEF c
    <3>5. c \in U /\ f[c].fs = g[c].fs
      BY <3>1
    <3> HIDE DEF R
    <3> QED BY <3>3, <3>4, <3>5
  <2> QED BY <2>1, <2>2
<1> HIDE DEF T
<1>3. Cardinality(U) \in T
  BY <1>1, <1>2, SetInduction, Sized
<1> QED BY <1>3, Sized DEF T

\* The part of a member in the sum, if it is one.
PartOf(g, D, n) == IF n \in D THEN g[n].fs ELSE 0

\* One member changes, comes or goes.
OnlyOne(g, f, D, E, n) ==
  /\ IsFiniteSet(D) /\ IsFiniteSet(E) /\ D \ {n} = E \ {n}
  /\ \A m \in D : g[m].fs \in Int
  /\ \A m \in E : f[m].fs \in Int
  /\ \A m \in D \ {n} : f[m].fs = g[m].fs
SumsDiffer(g, f, D, E, n) ==
  /\ FsSum(f, E) - PartOf(f, E, n) = FsSum(g, D) - PartOf(g, D, n)
  /\ FsSum(f, E) \in Int /\ FsSum(g, D) \in Int
  /\ PartOf(f, E, n) \in Int /\ PartOf(g, D, n) \in Int

LEMMA SumChanges ==
  ASSUME NEW g, NEW f, NEW D, NEW E, NEW n, OnlyOne(g, f, D, E, n)
  PROVE  SumsDiffer(g, f, D, E, n)
<1> USE DEF OnlyOne, SumsDiffer
<1> DEFINE B == D \ {n}
<1>1. FsSum(f, B) = FsSum(g, B)
  <2>1. IsFiniteSet(B) /\ \A m \in B : g[m].fs \in Int /\ f[m].fs = g[m].fs
    BY FS_Subset
  <2> HIDE DEF B
  <2> QED BY <2>1, SumSame
<1>2. /\ FsSum(g, D) - PartOf(g, D, n) = FsSum(g, B)
      /\ FsSum(g, D) \in Int /\ PartOf(g, D, n) \in Int
  <2>1. FsSum(g, B) \in Int /\ FsSum(g, D) \in Int
    BY SumAny
  <2>2. CASE n \in D
    <3>1. FsSum(g, D) = g[n].fs + FsSum(g, B)
      BY <2>2, SumAny, SMTT(60)
    <3>2. g[n].fs \in Int
      BY <2>2
    <3> HIDE DEF B
    <3> QED BY <2>1, <2>2, <3>1, <3>2 DEF PartOf
  <2>3. CASE n \notin D
    <3>1. B = D
      BY <2>3
    <3> HIDE DEF B
    <3> QED BY <2>1, <2>3, <3>1 DEF PartOf
  <2> QED BY <2>2, <2>3
<1>3. /\ FsSum(f, E) - PartOf(f, E, n) = FsSum(f, B)
      /\ FsSum(f, E) \in Int /\ PartOf(f, E, n) \in Int
  <2>0. B = E \ {n}
    OBVIOUS
  <2> HIDE DEF B
  <2>1. FsSum(f, B) \in Int /\ FsSum(f, E) \in Int
    BY <2>0, SumAny
  <2>2. CASE n \in E
    <3>1. FsSum(f, E) = f[n].fs + FsSum(f, B)
      BY <2>0, <2>2, SumAny
    <3>2. f[n].fs \in Int
      BY <2>2
    <3> QED BY <2>1, <2>2, <3>1, <3>2 DEF PartOf
  <2>3. CASE n \notin E
    <3>1. B = E
      BY <2>0, <2>3
    <3> QED BY <2>1, <2>3, <3>1 DEF PartOf
  <2> QED BY <2>2, <2>3
<1> QED BY <1>1, <1>2, <1>3

-----------------------------------------------------------------------------
(***************************************************************************)
(* The size of the cache and the files.  The invariant for them rests on   *)
(* IInv and has two parts.                                                 *)
(***************************************************************************)

\* The first one is about the size.  An entry is marked as long as a process
\* deletes it; nobody uses it then, unless the cause is recorded; what is no
\* file has no size.
Marked == \A n \in used : node[n].deleting => Jobs(n) # {}
NoFile == \A n \in used : ~node[n].exists => node[n].fs = 0
NotRenamed == \A r \in Requests : req[r].pc = "update" /\ ~req[r].renamed => req[r].fs = 0
Alone == "used while deleted" \notin causes =>
           \A n \in used : node[n].deleting => Holders(n) = {}

\* The keys that files are for.
Asked ==
  /\ \A r \in Requests : req[r].pc # "idle" => req[r].key \in conf.asked
  /\ \A k \in Keys \ (conf.keys \cup conf.asked) : disk[k] = 0

\* The second one is about the files.  The file of a key and its entry may
\* differ while a request is between the rename and the update, or a process
\* between the locked parts of the deletion; a request that is about to tell the
\* entry what it read from the file read it from the present file, or another
\* one has told the entry or will do so; and what the loader has passed has an
\* entry.
Updates(k) == \E r \in Requests : req[r].pc = "update" /\ req[r].key = k
Deletes(k) == \E p \in Procs : job[p].node # NoNode /\ node[job[p].node].key = k
OneEach == \A m, n \in used : node[m].key = node[n].key => m = n
UpdatesOK == \A r \in Requests : req[r].pc = "update" =>
  /\ req[r].renamed /\ disk[req[r].key] = req[r].fs
  /\ \A q \in Requests : req[q].pc = "update" /\ req[q].key = req[r].key => q = r
Unlinked == \A p \in Procs : job[p].step = "relock" => disk[node[job[p].node].key] = 0
ReadsOK == \A r \in Requests : req[r].pc = "read" =>
  disk[req[r].key] = req[r].fs \/ node[req[r].node].exists \/ Updates(req[r].key)
Seen(k) ==
  ~cold \/ /\ loader.pc # "idle" /\ k \notin loader.left
           /\ ~(loader.pc \in {"add", "unlink"} /\ loader.key = k)
HasEntry(k) == \E n \in Entries : node[n].key = k
Agree(k) == ~Updates(k) /\ ~Deletes(k) =>
  /\ \A n \in Entries : node[n].key = k => disk[k] = node[n].fs
  /\ Seen(k) /\ disk[k] # 0 => HasEntry(k)

SInv == Marked /\ NoFile /\ NotRenamed /\ Alone /\ SizeAccounted
FInv == causes = {} =>
  OneEach /\ UpdatesOK /\ Unlinked /\ ReadsOK /\ \A k \in Keys : Agree(k)
DInv == SInv /\ Asked /\ FInv

-----------------------------------------------------------------------------
(* What a step leaves as it is.                                            *)

SameNode(m) ==
  /\ node'[m].key = node[m].key /\ node'[m].exists = node[m].exists
  /\ node'[m].deleting = node[m].deleting /\ node'[m].fs = node[m].fs

\* No request begins or ends an update; one that gets an entry gets one that is
\* not being deleted, one that opened a file knows its size.
Calm ==
  \A q \in Requests : req'[q] = req[q] \/
    /\ req[q].pc # "update" \/ causes' # {}
    /\ req'[q].pc # "update"
    /\ req'[q].pc # "idle" => req'[q].key \in conf.asked
    /\ \/ req'[q].node \in {NoNode, req[q].node}
       \/ "used while deleted" \notin causes' => ~node'[req'[q].node].deleting
    /\ causes' = {} /\ req'[q].pc = "read" => disk[req'[q].key] = req'[q].fs

LEMMA InUse ==
  ASSUME IInv
  PROVE  /\ IsFiniteSet(used) /\ used \subseteq Nodes /\ NoNode \notin used
         /\ \A n \in used : node[n] \in NodeType /\ node[n].fs \in Nat
         /\ \A r \in Requests : /\ req[r].node # NoNode =>
                                     req[r].node \in used /\ node[req[r].node].key = req[r].key
                                /\ req[r].pc \in {"open", "read", "valid", "body", "update"}
                                     => req[r].node # NoNode
         /\ \A p \in Procs : job[p].node # NoNode =>
              job[p].node \in used /\ node[job[p].node].deleting
         /\ size \in Int /\ disk \in [Keys -> Nat]
<1>1. used \subseteq Nodes /\ IsFiniteSet(Nodes) /\ NoNode \notin Nodes
  BY FileCacheAssumption DEF IInv, TypeOK
<1>2. IsFiniteSet(used) /\ NoNode \notin used
  BY <1>1, FS_Subset
<1>3. \A n \in used : node[n] \in NodeType /\ node[n].fs \in Nat
  <2>1. \A n \in used : node[n] \in NodeType
    BY <1>1 DEF IInv, TypeOK
  <2> QED BY <2>1 DEF NodeType
<1>4. \A r \in Requests : /\ req[r].node # NoNode =>
                               req[r].node \in used /\ node[req[r].node].key = req[r].key
                          /\ req[r].pc \in {"open", "read", "valid", "body", "update"}
                               => req[r].node # NoNode
  BY DEF IInv, NoDangling, ReqsOK, ReqOK
<1>5. \A p \in Procs : job[p].node # NoNode =>
        job[p].node \in used /\ node[job[p].node].deleting
  BY DEF IInv, NoDangling
<1> QED BY <1>1, <1>2, <1>3, <1>4, <1>5 DEF IInv, TypeOK

LEMMA InUseThen ==
  ASSUME IInv'
  PROVE  /\ IsFiniteSet(used') /\ used' \subseteq Nodes /\ NoNode \notin used'
         /\ \A n \in used' : node'[n] \in NodeType /\ node'[n].fs \in Nat
         /\ \A r \in Requests : /\ req'[r].node # NoNode =>
                                     req'[r].node \in used' /\ node'[req'[r].node].key = req'[r].key
                                /\ req'[r].pc \in {"open", "read", "valid", "body", "update"}
                                     => req'[r].node # NoNode
         /\ \A p \in Procs : job'[p].node # NoNode =>
              job'[p].node \in used' /\ node'[job'[p].node].deleting
         /\ size' \in Int /\ disk' \in [Keys -> Nat]
<1>1. used' \subseteq Nodes /\ IsFiniteSet(Nodes) /\ NoNode \notin Nodes
  BY FileCacheAssumption DEF IInv, TypeOK
<1>2. IsFiniteSet(used') /\ NoNode \notin used'
  BY <1>1, FS_Subset
<1>3. \A n \in used' : node'[n] \in NodeType /\ node'[n].fs \in Nat
  <2>1. \A n \in used' : node'[n] \in NodeType
    BY <1>1 DEF IInv, TypeOK
  <2> QED BY <2>1 DEF NodeType
<1>4. \A r \in Requests : /\ req'[r].node # NoNode =>
                               req'[r].node \in used' /\ node'[req'[r].node].key = req'[r].key
                          /\ req'[r].pc \in {"open", "read", "valid", "body", "update"}
                               => req'[r].node # NoNode
  BY DEF IInv, NoDangling, ReqsOK, ReqOK
<1>5. \A p \in Procs : job'[p].node # NoNode =>
        job'[p].node \in used' /\ node'[job'[p].node].deleting
  BY DEF IInv, NoDangling
<1> QED BY <1>1, <1>2, <1>3, <1>4, <1>5 DEF IInv, TypeOK

LEMMA SizesNow == ASSUME IInv PROVE \A m \in used : node[m].fs \in Int
<1>1. \A m \in used : node[m].fs \in Nat
  BY InUse
<1> QED BY <1>1

LEMMA SizesThen == ASSUME IInv' PROVE \A m \in used' : node'[m].fs \in Int
<1>1. \A m \in used' : node'[m].fs \in Nat
  BY InUseThen
<1> QED BY <1>1

LEMMA Cancel ==
  ASSUME NEW a \in Int, NEW b \in Int, NEW c \in Int, NEW d \in Int, NEW e \in Int,
         b - a = e - d, c - a = e - d
  PROVE  b = c
OBVIOUS

\* The size changes as entry n does.
Part(n) == PartOf(node, Entries, n)
Balanced(n) == size' - Part(n)' = size - Part(n)

LEMMA SizeStep ==
  ASSUME IInv, IInv', SizeAccounted, causes \subseteq causes',
         NEW n, used' \ {n} = used \ {n}, \A m \in used \ {n} : SameNode(m),
         causes' \cap {"renewed", "used while deleted"} = {} => Balanced(n)
  PROVE  SizeAccounted'
<1> SUFFICES ASSUME causes' \cap {"renewed", "used while deleted"} = {}
             PROVE  size' = FsSum(node', Entries')
  BY DEF SizeAccounted
<1>1. size = FsSum(node, Entries)
  BY DEF SizeAccounted
<1>2. Entries \ {n} = Entries' \ {n}
  BY DEF Entries, SameNode
<1>3. /\ IsFiniteSet(Entries) /\ Entries \subseteq used
      /\ \A m \in Entries : node[m].fs \in Int
  <2>1. Entries \subseteq used
    BY DEF Entries
  <2>2. IsFiniteSet(Entries)
    BY <2>1, InUse, FS_Subset
  <2>3. \A m \in used : node[m].fs \in Int
    BY SizesNow, Zenon
  <2> QED BY <2>1, <2>2, <2>3
<1>4. /\ IsFiniteSet(Entries') /\ Entries' \subseteq used'
      /\ \A m \in Entries' : node'[m].fs \in Int
  <2>1. Entries' \subseteq used'
    BY DEF Entries
  <2>2. IsFiniteSet(Entries')
    BY <2>1, InUseThen, FS_Subset
  <2>3. \A m \in used' : node'[m].fs \in Int
    BY SizesThen, Zenon
  <2> QED BY <2>1, <2>2, <2>3
<1>5. \A m \in Entries \ {n} : node'[m].fs = node[m].fs
  BY <1>3 DEF SameNode
<1>6. /\ FsSum(node', Entries') - Part(n)' = FsSum(node, Entries) - Part(n)
      /\ FsSum(node', Entries') \in Int /\ FsSum(node, Entries) \in Int
      /\ Part(n)' \in Int /\ Part(n) \in Int
  <2>1. OnlyOne(node, node', Entries, Entries', n)
    BY <1>2, <1>3, <1>4, <1>5 DEF OnlyOne
  <2>2. SumsDiffer(node, node', Entries, Entries', n)
    BY <2>1, SumChanges
  <2> QED BY <2>2 DEF Part, SumsDiffer
<1>9. size' \in Int /\ size \in Int
  BY InUse, InUseThen
<1>10. size' - Part(n)' = size - Part(n)
  BY DEF Balanced
<1> DEFINE a == Part(n)'
           b == Part(n)
           s == FsSum(node', Entries')
           t == FsSum(node, Entries)
<1>11. /\ a \in Int /\ b \in Int /\ s \in Int /\ t \in Int /\ size' \in Int
       /\ s - a = t - b /\ size' - a = t - b
  BY <1>1, <1>6, <1>9, <1>10
<1> HIDE DEF a, b, s, t
<1>12. size' = s
  BY <1>11, Cancel
<1> QED BY <1>12 DEF s

-----------------------------------------------------------------------------
(* Steps after which the same entries have files.                          *)

LEMMA CalmIf ==
  ASSUME TypeOK, NEW r \in Requests, NEW c, req' = [req EXCEPT ![r] = c],
         req[r].pc # "update" \/ causes' # {}, c.pc # "update",
         c.pc # "idle" => c.key \in conf.asked,
         \/ c.node \in {NoNode, req[r].node}
         \/ "used while deleted" \notin causes' => ~node'[c.node].deleting,
         causes' = {} /\ c.pc = "read" => disk[c.key] = c.fs
  PROVE  Calm
<1>1. req'[r] = c /\ \A q \in Requests \ {r} : req'[q] = req[q]
  BY DEF TypeOK
<1> QED BY <1>1 DEF Calm

LEMMA CalmUpdates ==
  ASSUME Calm, causes' = {}
  PROVE  /\ \A q \in Requests : req'[q].pc = "update" \/ req[q].pc = "update" => req'[q] = req[q]
         /\ \A k : Updates(k)' <=> Updates(k)
<1>1. \A q \in Requests : req'[q].pc = "update" \/ req[q].pc = "update" => req'[q] = req[q]
  BY DEF Calm
<1>2. ASSUME NEW k PROVE Updates(k)' <=> Updates(k)
  BY <1>1 DEF Updates
<1> QED BY <1>1, <1>2

LEMMA CalmUpdatesOK ==
  ASSUME Calm, causes' = {}, UpdatesOK, disk' = disk PROVE UpdatesOK'
BY CalmUpdates DEF UpdatesOK

LEMMA CalmAlone ==
  ASSUME IInv', Alone, Calm, causes \subseteq causes',
         \A m \in used' : node'[m].deleting => m \in used /\ node[m].deleting
  PROVE  Alone'
<1> SUFFICES ASSUME "used while deleted" \notin causes', NEW m \in used', node'[m].deleting,
                    NEW q \in Requests, req'[q].node = m
             PROVE  FALSE
  BY DEF Alone, Holders
<1>1. m \in used /\ node[m].deleting /\ m # NoNode
  BY InUseThen
<1>2. req[q].node # m
  BY <1>1 DEF Alone, Holders
<1> QED BY <1>1, <1>2 DEF Calm

LEMMA CalmAsked ==
  ASSUME Asked, Calm, conf' = conf, disk' = disk PROVE Asked'
BY DEF Asked, Calm

LEMMA CalmNotRenamed ==
  ASSUME NotRenamed, Calm PROVE NotRenamed'
BY DEF NotRenamed, Calm

LEMMA CalmReads ==
  ASSUME IInv, IInv', ReadsOK, Calm, causes' = {}, disk' = disk,
         \A m \in used \cap used' : node[m].exists => node'[m].exists
  PROVE  ReadsOK'
<1> SUFFICES ASSUME NEW q \in Requests, req'[q].pc = "read"
             PROVE  disk'[req'[q].key] = req'[q].fs \/ node'[req'[q].node].exists
                    \/ Updates(req[q].key)'
  BY DEF ReadsOK
<1>1. CASE req'[q] # req[q]
  BY <1>1 DEF Calm
<1>2. CASE req'[q] = req[q]
  <2>1. disk[req[q].key] = req[q].fs \/ node[req[q].node].exists \/ Updates(req[q].key)
    BY <1>2 DEF ReadsOK
  <2>2. req[q].node \in used /\ req[q].node \in used'
    BY <1>2, InUse, InUseThen
  <2>3. Updates(req[q].key) => Updates(req[q].key)'
    <3>1. \A k : Updates(k) => Updates(k)'
      BY CalmUpdates
    <3> QED BY <1>2, <3>1 DEF Updates
  <2> QED BY <1>2, <2>1, <2>2, <2>3
<1> QED BY <1>1, <1>2

\* Entry n goes, or comes, without a file.
Keeps(n) ==
  /\ used \ {n} = used' \ {n}
  /\ \A m \in used \cap used' : SameNode(m)
  /\ n \in used \ used' => ~node[n].exists
  /\ n \in used' \ used =>
       /\ ~node'[n].exists /\ ~node'[n].deleting /\ node'[n].fs = 0
       /\ causes' = {} => \A m \in used : node[m].key # node'[n].key
  /\ size' = size /\ job' = job /\ disk' = disk /\ conf' = conf
  /\ causes \subseteq causes'

LEMMA KeepEntries ==
  ASSUME NEW n, Keeps(n)
  PROVE  Entries' = Entries /\ \A m \in Entries : SameNode(m)
BY DEF Keeps, SameNode, Entries

LEMMA KeepSInv ==
  ASSUME IInv, IInv', SInv, NEW n, Keeps(n), Calm PROVE SInv'
<1>1. Marked'
  BY DEF Keeps, SameNode, SInv, Marked, Jobs
<1>2. NoFile'
  BY DEF Keeps, SameNode, SInv, NoFile
<1>3. NotRenamed'
  BY CalmNotRenamed DEF SInv
<1>4. Alone'
  BY CalmAlone DEF Keeps, SameNode, SInv
<1>5. SizeAccounted'
  <2>1. used' \ {n} = used \ {n} /\ \A m \in used \ {n} : SameNode(m)
    BY DEF Keeps
  <2>2. Part(n)' = Part(n)
    BY KeepEntries DEF Part, PartOf, SameNode
  <2>3. Balanced(n)
    BY <2>2 DEF Balanced, Keeps
  <2> QED BY <2>1, <2>3, SizeStep DEF Keeps, SInv
<1> QED BY <1>1, <1>2, <1>3, <1>4, <1>5 DEF SInv

LEMMA KeepFInv ==
  ASSUME IInv, IInv', FInv, NEW n, Keeps(n), Calm, cold' = cold, loader' = loader,
         causes' = {}
  PROVE  FInv'
<1>1. causes = {}
  BY DEF Keeps
<1>2. /\ OneEach /\ UpdatesOK /\ Unlinked /\ ReadsOK /\ \A k \in Keys : Agree(k)
  BY <1>1 DEF FInv
<1>3. OneEach'
  BY <1>2 DEF OneEach, Keeps, SameNode
<1>4. UpdatesOK'
  BY <1>2, CalmUpdatesOK DEF Keeps
<1>j. \A p \in Procs : job[p].node # NoNode => job[p].node \in used \cap used' /\ job'[p] = job[p]
                          /\ node'[job[p].node].key = node[job[p].node].key
  BY InUse, InUseThen DEF Keeps, SameNode
<1>5. Unlinked'
  <2>1. \A p \in Procs : job[p].step = "relock" => job[p].node # NoNode
    BY DEF IInv, JobOK
  <2> QED BY <1>2, <1>j, <2>1 DEF Unlinked, Keeps
<1>6. ReadsOK'
  BY <1>2, CalmReads DEF Keeps, SameNode
<1>7. ASSUME NEW k \in Keys PROVE Agree(k)'
  <2>1. Updates(k)' <=> Updates(k)
    BY CalmUpdates
  <2>2. Deletes(k) => Deletes(k)'
    BY <1>j DEF Deletes
  <2>3. Entries' = Entries /\ \A m \in Entries : SameNode(m)
    BY KeepEntries
  <2>4. Seen(k)' <=> Seen(k)
    BY DEF Seen
  <2>5. HasEntry(k) => HasEntry(k)'
    BY <2>3 DEF HasEntry, SameNode
  <2>6. disk' = disk
    BY DEF Keeps
  <2> QED BY <1>2, <2>1, <2>2, <2>3, <2>4, <2>5, <2>6 DEF Agree, SameNode
<1> QED BY <1>3, <1>4, <1>5, <1>6, <1>7 DEF FInv

LEMMA KeepStep ==
  ASSUME IInv, IInv', DInv, NEW n, Keeps(n), Calm, cold' = cold, loader' = loader
  PROVE  DInv'
<1>1. SInv'
  BY KeepSInv DEF DInv
<1>2. Asked'
  BY CalmAsked DEF DInv, Keeps
<1>3. FInv'
  <2>1. CASE causes' = {}
    BY <2>1, KeepFInv DEF DInv
  <2>2. CASE causes' # {}
    BY <2>2 DEF FInv
  <2> QED BY <2>1, <2>2
<1> QED BY <1>1, <1>2, <1>3 DEF DInv

-----------------------------------------------------------------------------
(* The requests, where they do not change what an entry says of its file.  *)

LEMMA GoesOn ==
  ASSUME IInv, IInv', DInv, NEW r \in Requests, NEW c, req' = [req EXCEPT ![r] = c],
         UNCHANGED <<conf, used, size, cold, disk, loader, job>>,
         \A m \in used : SameNode(m), causes \subseteq causes',
         req[r].pc # "update" \/ causes' # {}, c.pc # "update",
         c.pc # "idle" => c.key \in conf.asked,
         \/ c.node \in {NoNode, req[r].node}
         \/ "used while deleted" \notin causes' => ~node'[c.node].deleting,
         causes' = {} /\ c.pc = "read" => disk[c.key] = c.fs
  PROVE  DInv'
<1>1. TypeOK
  BY DEF IInv
<1>2. Calm
  BY <1>1, CalmIf
<1>3. Keeps(NoNode)
  BY DEF Keeps
<1> QED BY <1>2, <1>3, KeepStep

LEMMA Same == ASSUME node' = node PROVE \A m \in used : SameNode(m)
BY DEF SameNode

LEMMA AskedFor ==
  ASSUME DInv, NEW r \in Requests, req[r].pc # "idle" PROVE req[r].key \in conf.asked
BY DEF DInv, Asked

LEMMA StartDisk ==
  ASSUME IInv, IInv', DInv, NEW r \in Requests, Start(r) PROVE DInv'
<1>1. PICK k \in conf.asked, b \in BOOLEAN :
        req' = [req EXCEPT ![r] = [Idle EXCEPT !.key = k, !.create = b,
                                    !.pc = IF b THEN "fetch" ELSE "lookup"]]
  BY DEF Start
<1> DEFINE c == [Idle EXCEPT !.key = k, !.create = b, !.pc = IF b THEN "fetch" ELSE "lookup"]
<1>2. c.pc \notin {"update", "read"} /\ c.key = k /\ c.node = NoNode
  BY DEF Idle
<1>3. req' = [req EXCEPT ![r] = c]
  BY <1>1
<1> HIDE DEF c
<1>4. req[r].pc # "update" /\ causes \subseteq causes' /\ \A m \in used : SameNode(m)
  BY Same DEF Start, Quiet
<1> QED BY <1>2, <1>3, <1>4, GoesOn DEF Start

LEMMA LookupFullDisk ==
  ASSUME IInv, IInv', DInv, NEW r \in Requests, LookupFull(r) PROVE DInv'
<1> DEFINE c == [req[r] EXCEPT !.pc = "forced"]
<1>0. TypeOK /\ req[r].pc = "lookup"
  BY DEF IInv, LookupFull
<1>1. req' = [req EXCEPT ![r] = c]
  BY DEF LookupFull
<1>2. c.pc = "forced" /\ c.node = req[r].node /\ c.key = req[r].key
  BY <1>0 DEF TypeOK, ReqType
<1> HIDE DEF c
<1>3. causes \subseteq causes' /\ \A m \in used : SameNode(m)
  BY Same DEF LookupFull, Quiet
<1> QED BY <1>0, <1>1, <1>2, <1>3, GoesOn, AskedFor DEF LookupFull

LEMMA OpenDisk ==
  ASSUME IInv, IInv', DInv, NEW r \in Requests, Open(r) PROVE DInv'
<1>0. TypeOK /\ req[r].pc = "open" /\ req[r] \in ReqType
  BY DEF IInv, Open, TypeOK
<1>1. PICK b \in BOOLEAN, a \in BOOLEAN :
        req' = [req EXCEPT ![r] =
         [req[r] EXCEPT !.declined = FALSE, !.exists = FALSE,
                 !.fs = IF b THEN disk[req[r].key] ELSE 0, !.cacheable = a,
                 !.pc = IF b THEN "read" ELSE "fetch"]]
  <2> DEFINE scarce == req[r].declined /\ conf.min_uses > 1
             test   == IF req[r].declined THEN cold ELSE req[r].exists
             found  == test /\ disk[req[r].key] # 0
             ok     == found \/ ~scarce
  <2>1. req' = [req EXCEPT ![r] =
         [req[r] EXCEPT !.declined = FALSE, !.exists = FALSE,
                 !.fs = IF found THEN disk[req[r].key] ELSE 0, !.cacheable = ok,
                 !.pc = IF found THEN "read" ELSE "fetch"]]
    BY DEF Open
  <2>2. found \in BOOLEAN /\ ok \in BOOLEAN
    OBVIOUS
  <2> HIDE DEF found, ok
  <2> QED BY <2>1, <2>2
<1> DEFINE c == [req[r] EXCEPT !.declined = FALSE, !.exists = FALSE,
                 !.fs = IF b THEN disk[req[r].key] ELSE 0, !.cacheable = a,
                 !.pc = IF b THEN "read" ELSE "fetch"]
<1>2. /\ c.pc \notin {"update", "idle"} /\ c.node = req[r].node /\ c.key = req[r].key
      /\ c.pc = "read" => c.fs = disk[c.key]
  BY <1>0 DEF ReqType
<1>3. req' = [req EXCEPT ![r] = c]
  BY <1>1
<1> HIDE DEF c
<1>4. causes \subseteq causes' /\ \A m \in used : SameNode(m)
  BY Same DEF Open, Quiet
<1>5. UNCHANGED <<conf, used, size, cold, disk, loader, job>>
  BY DEF Open
<1> QED BY <1>0, <1>2, <1>3, <1>4, <1>5, GoesOn, AskedFor

\* The steps that only move a request.
LEMMA MovesDisk ==
  ASSUME IInv, IInv', DInv, NEW r \in Requests,
         ReadBad(r) \/ Hit(r) \/ Response(r) \/ NoResponse(r)
  PROVE  DInv'
<1>0. TypeOK /\ req[r].pc \notin {"update", "idle"} /\ req[r] \in ReqType
  BY DEF IInv, TypeOK, ReadBad, Hit, Response, NoResponse
<1>1. PICK c : /\ req' = [req EXCEPT ![r] = c] /\ c.pc \notin {"update", "read", "idle"}
               /\ c.node = req[r].node /\ c.key = req[r].key
  <2>1. CASE ReadBad(r)
    <3> DEFINE c == [req[r] EXCEPT !.pc = "fetch", !.fs = 0]
    <3>1. req' = [req EXCEPT ![r] = c]
      BY <2>1 DEF ReadBad
    <3>2. c.pc = "fetch" /\ c.node = req[r].node /\ c.key = req[r].key
      BY <1>0 DEF ReqType
    <3> HIDE DEF c
    <3> QED BY <3>1, <3>2
  <2>2. CASE Hit(r)
    <3> DEFINE c == [req[r] EXCEPT !.pc = "end"]
    <3>1. req' = [req EXCEPT ![r] = c]
      BY <2>2 DEF Hit
    <3>2. c.pc = "end" /\ c.node = req[r].node /\ c.key = req[r].key
      BY <1>0 DEF ReqType
    <3> HIDE DEF c
    <3> QED BY <3>1, <3>2
  <2>3. CASE Response(r)
    <3> DEFINE c == [req[r] EXCEPT !.pc = IF req[r].create THEN "lookup" ELSE "body"]
    <3>1. req' = [req EXCEPT ![r] = c]
      BY <2>3 DEF Response
    <3>2. c.pc \in {"lookup", "body"} /\ c.node = req[r].node /\ c.key = req[r].key
      BY <1>0 DEF ReqType
    <3> HIDE DEF c
    <3> QED BY <3>1, <3>2
  <2>4. CASE NoResponse(r)
    <3>0. PICK e \in BOOLEAN :
            req' = [req EXCEPT ![r].pc = "end", ![r].error = @ \/ e, ![r].cacheable = TRUE]
      BY <2>4 DEF NoResponse
    <3> DEFINE c == [req[r] EXCEPT !.pc = "end", !.error = @ \/ e, !.cacheable = TRUE]
    <3>1. req' = [req EXCEPT ![r] = c]
      BY <3>0
    <3>2. c.pc = "end" /\ c.node = req[r].node /\ c.key = req[r].key
      BY <1>0 DEF ReqType
    <3> HIDE DEF c
    <3> QED BY <3>1, <3>2
  <2> QED BY <2>1, <2>2, <2>3, <2>4
<1>2. /\ UNCHANGED <<conf, used, node, size, cold, disk, loader, job>>
      /\ causes \subseteq causes'
  BY DEF ReadBad, Hit, Response, NoResponse, Quiet
<1> QED BY <1>0, <1>1, <1>2, Same, GoesOn, AskedFor

LEMMA CrashDisk ==
  ASSUME IInv, IInv', DInv, NEW r \in Requests, Crash(r) PROVE DInv'
<1>0. TypeOK /\ req[r].pc \notin {"idle", "dead"}
  BY DEF IInv, Crash
<1> DEFINE c == [Idle EXCEPT !.pc = "dead", !.key = req[r].key,
       !.node = req[r].node, !.updating = req[r].updating,
       !.updated = req[r].updated]
<1>1. req' = [req EXCEPT ![r] = c]
  BY DEF Crash
<1>2. c.pc = "dead" /\ c.node = req[r].node /\ c.key = req[r].key
  BY DEF Idle
<1> HIDE DEF c
<1>3. /\ causes \subseteq causes' /\ \A m \in used : SameNode(m)
      /\ req[r].pc = "update" => causes' # {}
  BY Same DEF Crash, Note, When
<1> QED BY <1>0, <1>1, <1>2, <1>3, GoesOn, AskedFor DEF Crash

LEMMA ExpiredDisk ==
  ASSUME IInv, IInv', DInv, NEW r \in Requests, Expired(r) PROVE DInv'
<1>0. TypeOK /\ req[r].pc = "valid" /\ req[r] \in ReqType
  BY DEF IInv, Expired, TypeOK
<1> DEFINE n == req[r].node
           c == [req[r] EXCEPT !.updating = ~node[n].updating, !.pc = "fetch"]
<1>1. req' = [req EXCEPT ![r] = c]
  BY DEF Expired
<1>2. c.pc = "fetch" /\ c.node = req[r].node /\ c.key = req[r].key
  BY <1>0 DEF ReqType
<1> HIDE DEF c
<1>3. \A m \in used : SameNode(m)
  <2>1. node' = [node EXCEPT ![n] = [node[n] EXCEPT !.updating = TRUE]]
    BY DEF Expired, Keep
  <2>2. node \in [Nodes -> NodeType] /\ used \subseteq Nodes
    BY <1>0 DEF TypeOK
  <2> QED BY <2>1, <2>2 DEF SameNode, NodeType
<1>4. causes \subseteq causes' /\ UNCHANGED <<conf, used, size, cold, disk, loader, job>>
  BY DEF Expired, Keep, Quiet
<1> QED BY <1>0, <1>1, <1>2, <1>3, <1>4, GoesOn, AskedFor

\* A request gives up its entry, which goes if it has no file.
LEMMA FreeDisk ==
  ASSUME IInv, IInv', DInv, NEW r \in Requests, Free(r) PROVE DInv'
<1>0. TypeOK /\ req[r].pc = "end"
  BY DEF IInv, Free
<1>1. Idle.pc = "idle" /\ Idle.node = NoNode
  BY DEF Idle
<1>2. req' = [req EXCEPT ![r] = Idle]
  BY DEF Free
<1>3. Calm
  BY <1>0, <1>1, <1>2, CalmIf
<1> DEFINE n == req[r].node
           x == [node[n] EXCEPT !.count = @ - 1,
              !.updating = @ /\ ~req[r].updating, !.error = @ \/ req[r].error]
<1>4. /\ UNCHANGED <<conf, size, cold, disk, loader, job>> /\ causes \subseteq causes'
      /\ IF n = NoNode THEN UNCHANGED <<used, node, queue>>
         ELSE IF ~req[r].error /\ ~x.exists /\ x.count = 0 /\ conf.min_uses = 1
         THEN Drop(n, queue) ELSE Keep(n, x)
  BY DEF Free, Quiet
<1>5. node \in [Nodes -> NodeType] /\ used \subseteq Nodes
  BY <1>0 DEF TypeOK
<1>6. Keeps(n)
  <2>1. CASE UNCHANGED <<used, node>>
    BY <1>4, <2>1, Same DEF Keeps
  <2>2. CASE ~x.exists /\ Drop(n, queue)
    <3>1. used' = used \ {n} /\ \A m \in used' : node'[m] = node[m]
      BY <1>5, <2>2 DEF Drop
    <3>2. n \in used => ~node[n].exists
      BY <1>5, <2>2 DEF NodeType
    <3>3. \A m \in used' : SameNode(m)
      BY <3>1 DEF SameNode
    <3> QED BY <1>4, <3>1, <3>2, <3>3 DEF Keeps
  <2>3. CASE Keep(n, x)
    <3>1. \A m \in used : SameNode(m)
      BY <1>5, <2>3 DEF SameNode, Keep, NodeType
    <3>2. used' = used
      BY <2>3 DEF Keep
    <3> QED BY <1>4, <3>1, <3>2 DEF Keeps
  <2> HIDE DEF x
  <2> QED BY <1>4, <2>1, <2>2, <2>3
<1> QED BY <1>3, <1>4, <1>6, KeepStep

LEMMA AfterLookupPc ==
  ASSUME NEW c \in ReqType, NEW rc
  PROVE  LET d == AfterLookup(c, rc)
         IN  /\ d.pc \in {"body", "end", "fetch", "open"}
             /\ d.node = c.node /\ d.key = c.key
<1> DEFINE pc == CASE c.create -> "body"
                   [] ~c.create /\ rc = "ok" /\ c.error -> "end"
                   [] ~c.create /\ rc = "again" -> "fetch"
                   [] OTHER -> "open"
           d == [c EXCEPT !.declined = rc = "declined",
                          !.cacheable = @ /\ (c.create \/ rc # "again"),
                          !.create = FALSE, !.pc = pc]
<1>1. pc \in {"body", "end", "fetch", "open"}
  BY DEF ReqType
<1>2. AfterLookup(c, rc) = d
  BY DEF AfterLookup
<1> HIDE DEF pc
<1>3. d.pc = pc /\ d.node = c.node /\ d.key = c.key
  BY DEF ReqType
<1> QED BY <1>1, <1>2, <1>3

LEMMA InsertDisk ==
  ASSUME IInv, IInv', DInv, NEW r \in Requests, Insert(r), req[r].pc \in {"lookup", "retry"},
         UNCHANGED <<conf, size, cold, disk, loader, job>>, causes \subseteq causes',
         causes' = {} => NodesOf(req[r].key) = {}
  PROVE  DInv'
<1>1. PICK n \in Nodes \ used :
        /\ used' = used \cup {n}
        /\ node' = [node EXCEPT ![n] = NewNode(req[r].key)]
        /\ req' = [req EXCEPT ![r] =
             AfterLookup([req[r] EXCEPT !.node = n, !.error = FALSE], "declined")]
  BY DEF Insert
<1> DEFINE b == [req[r] EXCEPT !.node = n, !.error = FALSE]
           c == AfterLookup(b, "declined")
<1>2. req[r] \in ReqType /\ TypeOK /\ node \in [Nodes -> NodeType]
  BY ReqFacts DEF IInv, TypeOK
<1>3. b \in ReqType /\ b.node = n /\ b.key = req[r].key
  BY <1>2 DEF ReqType
<1> HIDE DEF b
<1>4. c.pc \in {"body", "end", "fetch", "open"} /\ c.node = n /\ c.key = req[r].key
  BY <1>3, AfterLookupPc
<1>5. req' = [req EXCEPT ![r] = c]
  BY <1>1 DEF b
<1> HIDE DEF c
<1> DEFINE x == NewNode(req[r].key)
<1>6. ~x.exists /\ ~x.deleting /\ x.fs = 0 /\ x.key = req[r].key
  BY DEF NewNode, FreeNode
<1> HIDE DEF x
<1>7. node'[n] = x /\ \A m \in used \cap used' : node'[m] = node[m]
  BY <1>1, <1>2 DEF x
<1>8. Calm
  BY <1>2, <1>4, <1>5, <1>6, <1>7, AskedFor, CalmIf
<1>9. Keeps(n)
  <2>1. used \ {n} = used' \ {n} /\ n \notin used
    BY <1>1
  <2>2. \A m \in used \cap used' : SameNode(m)
    BY <1>7 DEF SameNode
  <2>3. causes' = {} => \A m \in used : node[m].key # node'[n].key
    BY <1>6, <1>7 DEF NodesOf
  <2> QED BY <2>1, <2>2, <2>3, <1>6, <1>7 DEF Keeps
<1> QED BY <1>8, <1>9, KeepStep

LEMMA LookupInsertDisk ==
  ASSUME IInv, IInv', DInv, NEW r \in Requests, LookupInsert(r) PROVE DInv'
BY InsertDisk DEF LookupInsert, Quiet

LEMMA RetryDisk ==
  ASSUME IInv, IInv', DInv, NEW r \in Requests, Retry(r) PROVE DInv'
<1>1. CASE Room
  <2>1. /\ Insert(r) /\ causes \subseteq causes'
        /\ causes' = {} => NodesOf(req[r].key) = {}
    BY <1>1 DEF Retry, Note, When
  <2> QED BY <2>1, InsertDisk DEF Retry
<1>2. CASE ~Room
  <2>1. req' = [req EXCEPT ![r] = Idle] /\ Idle.pc = "idle" /\ Idle.node = NoNode
    BY <1>2 DEF Retry, Idle
  <2>2. /\ UNCHANGED <<conf, used, node, size, cold, disk, loader, job>>
        /\ causes \subseteq causes' /\ req[r].pc # "update"
    BY <1>2 DEF Retry, Quiet
  <2> QED BY <2>1, <2>2, Same, GoesOn
<1> QED BY <1>1, <1>2

LEMMA LookupFoundDisk ==
  ASSUME IInv, IInv', DInv, NEW r \in Requests, LookupFound(r) PROVE DInv'
<1>1. PICK n \in NodesOf(req[r].key), late \in BOOLEAN :
    LET x     == [node[n] EXCEPT !.uses = (@ + 1) % UsesMod, !.count = @ + 1]
        renew == x.error /\ late
        y     == IF renew THEN [x EXCEPT !.error = FALSE, !.exists = FALSE,
                                         !.fs = 0] ELSE x
        rc    == CASE renew -> "declined"
                   [] ~renew /\ (x.error \/ x.exists \/ x.uses >= conf.min_uses)
                        -> "ok"
                   [] OTHER -> "again"
        there == IF rc = "ok" /\ ~x.error THEN x.exists ELSE req[r].exists
        c     == [req[r] EXCEPT !.node = n, !.error = y.error, !.exists = there]
    IN
    /\ node' = [node EXCEPT ![n] = y]
    /\ req' = [req EXCEPT ![r] = AfterLookup(c, rc)]
    /\ Note(When(renew /\ x.exists, "renewed")
            \cup When(x.deleting, "used while deleted"))
  BY ZenonT(60) DEF LookupFound
<1> DEFINE x     == [node[n] EXCEPT !.uses = (@ + 1) % UsesMod, !.count = @ + 1]
           renew == x.error /\ late
           y     == IF renew THEN [x EXCEPT !.error = FALSE, !.exists = FALSE,
                                            !.fs = 0] ELSE x
           rc    == CASE renew -> "declined"
                      [] ~renew /\ (x.error \/ x.exists \/ x.uses >= conf.min_uses)
                           -> "ok"
                      [] OTHER -> "again"
           there == IF rc = "ok" /\ ~x.error THEN x.exists ELSE req[r].exists
           b     == [req[r] EXCEPT !.node = n, !.error = y.error, !.exists = there]
           c     == AfterLookup(b, rc)
<1>2. node' = [node EXCEPT ![n] = y]
  BY <1>1
<1>3. req' = [req EXCEPT ![r] = c]
  BY <1>1
<1>4. causes' = causes \cup (When(renew /\ x.exists, "renewed")
                             \cup When(x.deleting, "used while deleted"))
  BY <1>1 DEF Note
<1>5. n \in used /\ n \in Nodes /\ node[n] \in NodeType /\ node[n].key = req[r].key
  BY DEF NodesOf, IInv, TypeOK
<1>6. /\ x \in [key : Keys, count : Int, uses : Int, error : BOOLEAN, exists : BOOLEAN,
                updating : BOOLEAN, deleting : BOOLEAN, fs : Nat]
      /\ x.key = node[n].key /\ x.exists = node[n].exists
      /\ x.deleting = node[n].deleting /\ x.fs = node[n].fs
  <2> DEFINE u == (node[n].uses + 1) % UsesMod
             k == node[n].count + 1
  <2>1. u \in Int
    <3>1. node[n].uses \in Int /\ UsesMod \in Nat \ {0}
      BY <1>5, FileCacheAssumption DEF NodeType
    <3>2. u \in 0..(UsesMod - 1)
      BY <3>1, ModRange
    <3> HIDE DEF u
    <3> QED BY <3>1, <3>2
  <2>2. x = [node[n] EXCEPT !.uses = u, !.count = k]
    OBVIOUS
  <2>3. k \in Int
    BY <1>5 DEF NodeType
  <2> HIDE DEF u, x, k
  <2> QED BY <1>5, <2>1, <2>2, <2>3 DEF NodeType
<1> HIDE DEF x, rc
<1>7. /\ y.key = node[n].key /\ y.deleting = node[n].deleting
      /\ ~(renew /\ x.exists) /\ NoFile =>
           y.exists = node[n].exists /\ y.fs = node[n].fs
      /\ renew /\ x.exists => ~y.exists /\ y.fs = 0
  BY <1>5, <1>6 DEF NoFile
<1>8. req[r] \in ReqType /\ req[r].pc = "lookup" /\ TypeOK
  BY ReqFacts, ZenonT(60) DEF LookupFound, IInv
<1>9. y.error \in BOOLEAN /\ there \in BOOLEAN
  BY <1>6, <1>8 DEF ReqType
<1> HIDE DEF y, there
<1>10. b \in ReqType /\ b.node = n /\ b.key = req[r].key
  BY <1>5, <1>8, <1>9 DEF ReqType
<1> HIDE DEF b
<1>11. c.pc \in {"body", "end", "fetch", "open"} /\ c.node = n /\ c.key = req[r].key
  BY <1>10, AfterLookupPc
<1> HIDE DEF c
<1>12. node'[n] = y /\ \A m \in used \ {n} : node'[m] = node[m]
  BY <1>2, <1>5, <1>8 DEF TypeOK
<1>13. /\ causes \subseteq causes'
       /\ "used while deleted" \notin causes' => ~node[n].deleting
  BY <1>4, <1>6 DEF When
<1>14. UNCHANGED <<conf, used, size, cold, disk, loader, job>>
  BY ZenonT(60) DEF LookupFound
<1>15. CASE ~(renew /\ x.exists)
  <2>1. \A m \in used : SameNode(m)
    BY <1>7, <1>12, <1>15 DEF SameNode, DInv, SInv
  <2>2. "used while deleted" \notin causes' => ~node'[c.node].deleting
    BY <1>7, <1>11, <1>12, <1>13
  <2> HIDE DEF renew
  <2> QED BY <1>3, <1>8, <1>11, <1>13, <1>14, <2>1, <2>2, AskedFor, GoesOn
<1>16. CASE renew /\ x.exists
  <2>1. "renewed" \in causes'
    BY <1>4, <1>16 DEF When
  <2>2. /\ \A m \in used : node'[m].deleting = node[m].deleting
        /\ ~node'[n].exists /\ node'[n].fs = 0
    BY <1>7, <1>12, <1>16
  <2> HIDE DEF renew
  <2>3. Calm
    <3>1. c.pc \notin {"update", "idle", "read"} /\ c.key \in conf.asked
      BY <1>8, <1>11, AskedFor
    <3>2. "used while deleted" \notin causes' => ~node'[c.node].deleting
      BY <1>5, <1>11, <1>13, <2>2
    <3> QED BY <1>3, <1>8, <3>1, <3>2, CalmIf
  <2>4. Marked'
    BY <1>14, <2>2 DEF Marked, Jobs, DInv, SInv
  <2>5. NoFile'
    BY <1>12, <1>14, <2>2 DEF NoFile, DInv, SInv
  <2>6. NotRenamed'
    BY <2>3, CalmNotRenamed DEF DInv, SInv
  <2>7. Alone'
    BY <1>13, <1>14, <2>2, <2>3, CalmAlone DEF DInv, SInv
  <2>8. SizeAccounted' /\ FInv'
    BY <2>1 DEF SizeAccounted, FInv
  <2>9. Asked'
    BY <1>14, <2>3, CalmAsked DEF DInv
  <2> QED BY <2>4, <2>5, <2>6, <2>7, <2>8, <2>9 DEF DInv, SInv
<1> QED BY <1>15, <1>16

-----------------------------------------------------------------------------
(* Steps that change what an entry says of its file.                       *)

\* Nobody uses an entry that is being deleted, unless that is recorded.
LEMMA InUseStays ==
  ASSUME IInv, SInv, NEW r \in Requests, req[r].node # NoNode,
         "used while deleted" \notin causes
  PROVE  ~node[req[r].node].deleting
<1>1. req[r].node \in used /\ r \in Holders(req[r].node)
  BY InUse DEF Holders
<1> QED BY <1>1 DEF SInv, Alone

\* Entry n is the one of its key.
LEMMA OnlyEntry ==
  ASSUME OneEach, NEW n \in used, NEW m \in used, node[m].key = node[n].key PROVE m = n
BY DEF OneEach

LEMMA Add == ASSUME NEW a \in Int, NEW b \in Int, NEW c \in Int, c = a + b PROVE c - b = a - 0
OBVIOUS

LEMMA ReadNewDisk ==
  ASSUME IInv, IInv', DInv, NEW r \in Requests, Read(r),
         cold, ~node[req[r].node].exists
  PROVE  DInv'
<1> DEFINE c == [req[r] EXCEPT !.pc = "valid", !.fs = 0]
<1>0. TypeOK /\ req[r].pc = "read" /\ req[r] \in ReqType
  BY DEF IInv, Read, TypeOK
<1>n. PICK n \in used : n = req[r].node /\ n # NoNode /\ node[n].key = req[r].key
  BY <1>0, InUse
<1>1. /\ node' = [node EXCEPT ![n] = [node[n] EXCEPT !.uses = 1, !.exists = TRUE, !.fs = req[r].fs]]
      /\ used' = used /\ size' = size + req[r].fs
      /\ UNCHANGED <<conf, cold, disk, loader, job>> /\ causes' = causes
  BY <1>n DEF Read, Keep, Quiet
<1>2. req' = [req EXCEPT ![r] = c]
  BY DEF Read
<1>3. c.pc = "valid" /\ c.node = n /\ c.key = req[r].key
  BY <1>0, <1>n DEF ReqType
<1> HIDE DEF c
<1>4. Calm
  BY <1>0, <1>n, <1>2, <1>3, AskedFor, CalmIf
<1>5. n \in used /\ n # NoNode /\ node[n].key = req[r].key
  BY <1>n
<1>6. /\ node'[n].exists /\ node'[n].fs = req[r].fs /\ node'[n].key = node[n].key
      /\ node'[n].deleting = node[n].deleting /\ \A m \in used \ {n} : node'[m] = node[m]
  <2>1. node \in [Nodes -> NodeType] /\ n \in Nodes
    BY <1>0, <1>5, InUse DEF TypeOK
  <2> QED BY <1>1, <2>1 DEF NodeType
<1>7. \A m \in used : /\ node'[m].deleting = node[m].deleting /\ node'[m].key = node[m].key
                      /\ node[m].exists => node'[m].exists
  BY <1>6
<1>8. "used while deleted" \notin causes => ~node[n].deleting
  BY <1>n, InUseStays DEF DInv
<1>9. SInv'
  <2>1. Marked'
    BY <1>1, <1>7 DEF Marked, Jobs, DInv, SInv
  <2>2. NoFile'
    BY <1>1, <1>6 DEF NoFile, DInv, SInv
  <2>3. NotRenamed'
    BY <1>4, CalmNotRenamed DEF DInv, SInv
  <2>4. Alone'
    BY <1>1, <1>4, <1>7, CalmAlone DEF DInv, SInv
  <2>5. SizeAccounted'
    <3>1. \A m \in used \ {n} : SameNode(m)
      BY <1>6 DEF SameNode
    <3>2. ASSUME "used while deleted" \notin causes' PROVE Balanced(n)
      <4>1. Part(n) = 0
        BY <1>n DEF Part, PartOf, Entries
      <4>2. Part(n)' = req[r].fs
        BY <1>1, <1>5, <1>6, <1>8, <3>2 DEF Part, PartOf, Entries
      <4>3. size \in Int /\ req[r].fs \in Int
        BY <1>0 DEF TypeOK, ReqType
      <4>4. size' \in Int
        BY InUseThen
      <4>5. size' - req[r].fs = size - 0
        BY <1>1, <4>3, <4>4, Add
      <4> QED BY <4>1, <4>2, <4>5 DEF Balanced
    <3> QED BY <1>1, <3>1, <3>2, SizeStep DEF DInv, SInv
  <2> QED BY <2>1, <2>2, <2>3, <2>4, <2>5 DEF SInv
<1>10. Asked'
  BY <1>1, <1>4, CalmAsked DEF DInv
<1>11. ASSUME causes' = {} PROVE FInv'
  <2>1. OneEach /\ UpdatesOK /\ Unlinked /\ ReadsOK /\ \A k \in Keys : Agree(k)
    BY <1>1, <1>11 DEF DInv, FInv
  <2>2. OneEach'
    BY <1>1, <1>7, <2>1 DEF OneEach
  <2>3. UpdatesOK'
    BY <1>1, <1>4, <1>11, <2>1, CalmUpdatesOK
  <2>4. \A p \in Procs : job[p].node # NoNode =>
           node'[job[p].node].key = node[job[p].node].key
    BY <1>7, InUse
  <2>5. Unlinked'
    <3>1. \A p \in Procs : job[p].step = "relock" => job[p].node # NoNode
      BY DEF IInv, JobOK
    <3> QED BY <1>1, <2>1, <2>4, <3>1 DEF Unlinked
  <2>6. ReadsOK'
    BY <1>1, <1>4, <1>7, <1>11, <2>1, CalmReads
  <2>7. ASSUME NEW k \in Keys PROVE Agree(k)'
    <3>1. Updates(k)' <=> Updates(k)
      BY <1>4, <1>11, CalmUpdates
    <3>2. Deletes(k) => Deletes(k)'
      BY <1>1, <2>4 DEF Deletes
    <3>3. Seen(k)' <=> Seen(k)
      BY <1>1 DEF Seen
    <3>4. CASE k = node[n].key
      <4>1. ~Updates(k) => disk[k] = node'[n].fs
        BY <1>0, <1>n, <1>6, <2>1, <3>4 DEF ReadsOK
      <4>2. n \in Entries'
        BY <1>1, <1>5, <1>6, <1>8, <1>11 DEF Entries
      <4>3. \A m \in Entries' : node'[m].key = k => m = n
        BY <1>1, <1>5, <1>7, <2>1, <3>4, OnlyEntry DEF Entries
      <4>4. HasEntry(k)'
        BY <1>6, <3>4, <4>2 DEF HasEntry
      <4> QED BY <1>1, <3>1, <4>1, <4>3, <4>4 DEF Agree
    <3>5. CASE k # node[n].key
      <4>1. \A m : m \in Entries' /\ node'[m].key = k <=> m \in Entries /\ node[m].key = k
        BY <1>1, <1>6, <3>5 DEF Entries
      <4>2. \A m \in Entries : node[m].key = k => node'[m].fs = node[m].fs
        BY <1>6, <3>5 DEF Entries
      <4>3. HasEntry(k)' <=> HasEntry(k)
        BY <4>1 DEF HasEntry
      <4> QED BY <1>1, <2>1, <3>1, <3>2, <3>3, <4>1, <4>2, <4>3 DEF Agree
    <3> QED BY <3>4, <3>5
  <2> QED BY <2>2, <2>3, <2>5, <2>6, <2>7 DEF FInv
<1> QED BY <1>9, <1>10, <1>11 DEF DInv, FInv

LEMMA ReadDisk ==
  ASSUME IInv, IInv', DInv, NEW r \in Requests, Read(r) PROVE DInv'
<1>1. CASE cold /\ ~node[req[r].node].exists
  BY <1>1, ReadNewDisk
<1>2. CASE ~(cold /\ ~node[req[r].node].exists)
  <2> DEFINE c == [req[r] EXCEPT !.pc = "valid", !.fs = 0]
  <2>0. TypeOK /\ req[r].pc = "read" /\ req[r] \in ReqType
    BY DEF IInv, Read, TypeOK
  <2>1. /\ UNCHANGED <<conf, used, size, cold, disk, loader, job>> /\ causes' = causes
        /\ node' = [node EXCEPT ![req[r].node] = node[req[r].node]]
    BY <1>2 DEF Read, Keep, Quiet
  <2>2. req' = [req EXCEPT ![r] = c]
    BY DEF Read
  <2>3. c.pc = "valid" /\ c.node = req[r].node /\ c.key = req[r].key
    BY <2>0 DEF ReqType
  <2> HIDE DEF c
  <2>4. node' = node
    BY <2>0, <2>1 DEF TypeOK
  <2> QED BY <2>0, <2>1, <2>2, <2>3, <2>4, AskedFor, Same, GoesOn
<1> QED BY <1>1, <1>2

LEMMA Replace ==
  ASSUME NEW s \in Int, NEW a \in Int, NEW b \in Int, NEW t \in Int, t = s + a - b
  PROVE  t - a = s - b
OBVIOUS

LEMMA UpdateDisk ==
  ASSUME IInv, IInv', DInv, NEW r \in Requests, Update(r) PROVE DInv'
<1>0. TypeOK /\ req[r].pc = "update" /\ req[r] \in ReqType /\ node \in [Nodes -> NodeType]
  BY DEF IInv, Update, TypeOK
<1>n. PICK n \in used : n = req[r].node /\ n # NoNode /\ node[n].key = req[r].key
  BY <1>0, InUse
<1>1. /\ node' = [node EXCEPT ![n] = [node[n] EXCEPT !.count = @ - 1, !.fs = req[r].fs,
                    !.updating = FALSE, !.exists = @ \/ req[r].renamed]]
      /\ used' = used /\ size' = size + req[r].fs - node[n].fs
      /\ UNCHANGED <<conf, cold, disk, loader, job>> /\ causes' = causes
  BY <1>n DEF Update, Keep, Quiet
<1>2. /\ \A q \in Requests \ {r} : req'[q] = req[q]
      /\ req'[r].pc = "idle" /\ req'[r].node = NoNode
  <2>1. req' = [req EXCEPT ![r] = Idle] /\ Idle.pc = "idle" /\ Idle.node = NoNode
    BY DEF Update, Idle
  <2> QED BY <1>0, <2>1 DEF TypeOK
<1>3. /\ node'[n].exists = (node[n].exists \/ req[r].renamed)
      /\ node'[n].fs = req[r].fs /\ node'[n].key = node[n].key
      /\ node'[n].deleting = node[n].deleting /\ \A m \in used \ {n} : node'[m] = node[m]
  <2>1. n \in Nodes
    BY <1>0 DEF TypeOK
  <2> QED BY <1>0, <1>1, <2>1 DEF NodeType
<1>4. \A m \in used : /\ node'[m].deleting = node[m].deleting /\ node'[m].key = node[m].key
                      /\ node[m].exists => node'[m].exists
  BY <1>3
<1>5. "used while deleted" \notin causes => ~node[n].deleting
  BY <1>n, InUseStays DEF DInv
<1>6. /\ ~node[n].exists => node[n].fs = 0
      /\ ~node'[n].exists => node'[n].fs = 0
  BY <1>0, <1>3 DEF DInv, SInv, NoFile, NotRenamed
<1>7. SInv'
  <2>1. Marked'
    BY <1>1, <1>4 DEF Marked, Jobs, DInv, SInv
  <2>2. NoFile'
    BY <1>1, <1>3, <1>6 DEF NoFile, DInv, SInv
  <2>3. NotRenamed'
    BY <1>2 DEF NotRenamed, DInv, SInv
  <2>4. Alone'
    <3>1. \A m \in used : Holders(m)' \subseteq Holders(m)
      BY <1>2, InUse DEF Holders
    <3> QED BY <1>1, <1>4, <3>1 DEF Alone, DInv, SInv
  <2>5. SizeAccounted'
    <3>1. \A m \in used \ {n} : SameNode(m)
      BY <1>3 DEF SameNode
    <3>2. ASSUME "used while deleted" \notin causes' PROVE Balanced(n)
      <4>1. ~node[n].deleting /\ ~node'[n].deleting
        BY <1>1, <1>3, <1>5, <3>2
      <4>2. Part(n) = node[n].fs
        BY <1>6, <4>1 DEF Part, PartOf, Entries
      <4>3. Part(n)' = req[r].fs
        BY <1>1, <1>3, <1>6, <4>1 DEF Part, PartOf, Entries
      <4>4. size \in Int /\ size' \in Int /\ req[r].fs \in Int /\ node[n].fs \in Int
        BY <1>0, InUse, InUseThen, SizesNow DEF ReqType
      <4>5. size' - req[r].fs = size - node[n].fs
        BY <1>1, <4>4, Replace
      <4> QED BY <4>2, <4>3, <4>5 DEF Balanced
    <3> QED BY <1>1, <3>1, <3>2, SizeStep DEF DInv, SInv
  <2> QED BY <2>1, <2>2, <2>3, <2>4, <2>5 DEF SInv
<1>8. Asked'
  BY <1>1, <1>2 DEF Asked, DInv
<1>9. ASSUME causes' = {} PROVE FInv'
  <2>1. OneEach /\ UpdatesOK /\ Unlinked /\ ReadsOK /\ \A k \in Keys : Agree(k)
    BY <1>1, <1>9 DEF DInv, FInv
  <2>2. OneEach'
    BY <1>1, <1>4, <2>1 DEF OneEach
  <2>3. UpdatesOK'
    BY <1>1, <1>2, <2>1 DEF UpdatesOK
  <2>4. \A p \in Procs : job[p].node # NoNode =>
           node'[job[p].node].key = node[job[p].node].key
    BY <1>4, InUse
  <2>5. Unlinked'
    <3>1. \A p \in Procs : job[p].step = "relock" => job[p].node # NoNode
      BY DEF IInv, JobOK
    <3> QED BY <1>1, <2>1, <2>4, <3>1 DEF Unlinked
  <2>6. req[r].renamed /\ disk[req[r].key] = req[r].fs /\ node'[n].exists
    BY <1>0, <1>3, <2>1 DEF UpdatesOK
  <2>7. \A k : k # req[r].key => (Updates(k)' <=> Updates(k))
    BY <1>0, <1>2 DEF Updates
  <2>8. ReadsOK'
    <3> SUFFICES ASSUME NEW q \in Requests, req'[q].pc = "read"
                 PROVE  disk'[req'[q].key] = req'[q].fs \/ node'[req'[q].node].exists
                        \/ Updates(req[q].key)'
      BY DEF ReadsOK
    <3>1. req'[q] = req[q] /\ req[q].pc = "read"
      BY <1>2
    <3>2. req[q].node \in used /\ node[req[q].node].key = req[q].key
      BY <3>1, InUse
    <3>3. CASE req[q].key = req[r].key
      BY <1>n, <2>1, <2>6, <3>1, <3>2, <3>3, OnlyEntry, SMTT(60)
    <3>4. CASE req[q].key # req[r].key
      <4>1. Updates(req[q].key) => Updates(req[q].key)'
        BY <2>7, <3>1, <3>4 DEF Updates
      <4> QED BY <1>1, <1>4, <2>1, <3>1, <3>2, <4>1 DEF ReadsOK
    <3> QED BY <3>3, <3>4
  <2>9. ASSUME NEW k \in Keys PROVE Agree(k)'
    <3>2. Deletes(k) => Deletes(k)'
      BY <1>1, <2>4 DEF Deletes
    <3>3. Seen(k)' <=> Seen(k)
      BY <1>1 DEF Seen
    <3>4. CASE k = node[n].key
      <4>1. disk[k] = node'[n].fs
        BY <1>n, <1>3, <2>6, <3>4
      <4>2. n \in Entries'
        BY <1>1, <1>3, <1>5, <1>9, <2>6 DEF Entries
      <4>3. \A m \in Entries' : node'[m].key = k => m = n
        BY <1>1, <1>4, <2>1, <3>4, OnlyEntry DEF Entries
      <4>4. HasEntry(k)'
        BY <1>3, <3>4, <4>2 DEF HasEntry
      <4> QED BY <1>1, <4>1, <4>3, <4>4 DEF Agree
    <3>5. CASE k # node[n].key
      <4>1. \A m : m \in Entries' /\ node'[m].key = k <=> m \in Entries /\ node[m].key = k
        BY <1>1, <1>3, <3>5 DEF Entries
      <4>2. \A m \in Entries : node[m].key = k => node'[m].fs = node[m].fs
        BY <1>3, <3>5 DEF Entries
      <4>3. HasEntry(k)' <=> HasEntry(k)
        BY <4>1 DEF HasEntry
      <4>4. Updates(k)' <=> Updates(k)
        BY <1>n, <2>7, <3>5
      <4> QED BY <1>1, <2>1, <3>2, <3>3, <4>1, <4>2, <4>3, <4>4 DEF Agree
    <3> QED BY <3>4, <3>5
  <2> QED BY <2>2, <2>3, <2>5, <2>8, <2>9 DEF FInv
<1> QED BY <1>7, <1>8, <1>9 DEF DInv, FInv

\* The locked part of ngx_http_file_cache_delete(), for an entry with a file.
LEMMA DeleteExistsDisk ==
  ASSUME IInv, IInv', DInv, NEW p \in Procs, NEW n \in used, node[n].exists,
         node[n].count = 0, job[p].node = NoNode,
         size' = size - node[n].fs, used' = used,
         node' = [node EXCEPT ![n].count = @ + 1, ![n].deleting = TRUE],
         job' = [job EXCEPT ![p] = [node |-> n, step |-> "unlink"]],
         UNCHANGED <<conf, cold, disk, loader>>, causes' = causes, Calm
  PROVE  DInv'
<1>0. TypeOK /\ node \in [Nodes -> NodeType] /\ n \in Nodes
  BY DEF IInv, TypeOK
<1>1. Holders(n) = {} /\ Jobs(n) = {} /\ ~node[n].deleting
  <2>1. Holders(n) = {} /\ Jobs(n) = {}
    BY Unused DEF IInv
  <2> QED BY <2>1 DEF DInv, SInv, Marked
<1>2. /\ node'[n].exists /\ node'[n].fs = node[n].fs /\ node'[n].key = node[n].key
      /\ node'[n].deleting /\ \A m \in used \ {n} : node'[m] = node[m]
  <2> DEFINE k == node[n].count + 1
             y == [node[n] EXCEPT !.count = k, !.deleting = TRUE]
  <2>1. node' = [node EXCEPT ![n] = y]
    OBVIOUS
  <2>2. y.exists = node[n].exists /\ y.fs = node[n].fs /\ y.key = node[n].key /\ y.deleting
    <3> HIDE DEF k
    <3> QED BY <1>0 DEF NodeType
  <2> HIDE DEF y
  <2>3. node'[n] = y /\ \A m \in used \ {n} : node'[m] = node[m]
    BY <1>0, <2>1 DEF TypeOK
  <2> QED BY <2>2, <2>3
<1>3. \A m \in used : node'[m].key = node[m].key /\ (node'[m].exists <=> node[m].exists)
                      /\ node'[m].fs = node[m].fs
  BY <1>2
<1>4. job'[p] = [node |-> n, step |-> "unlink"] /\ \A q \in Procs \ {p} : job'[q] = job[q]
  BY <1>0 DEF TypeOK
<1>5. job'[p].node = n /\ job'[p].step = "unlink" /\ n # NoNode
  BY <1>4, InUse
<1>7. SInv'
  <2>1. Marked'
    <3>1. p \in Jobs(n)'
      BY <1>5 DEF Jobs
    <3>2. \A m \in used \ {n} : Jobs(m) \subseteq Jobs(m)'
      BY <1>4, InUse DEF Jobs
    <3> QED BY <1>2, <3>1, <3>2 DEF Marked, DInv, SInv
  <2>2. NoFile'
    BY <1>3 DEF NoFile, DInv, SInv
  <2>3. NotRenamed'
    BY CalmNotRenamed DEF DInv, SInv
  <2>4. Alone'
    <3> SUFFICES ASSUME "used while deleted" \notin causes', NEW m \in used, node'[m].deleting,
                        NEW q \in Requests, req'[q].node = m
                 PROVE  FALSE
      BY DEF Alone, Holders
    <3>1. m # NoNode
      BY InUse
    <3>2. req[q].node # m
      BY <1>1, <1>2, ZenonT(60) DEF Alone, Holders, DInv, SInv
    <3> QED BY <3>1, <3>2 DEF Calm
  <2>5. SizeAccounted'
    <3>1. \A m \in used \ {n} : SameNode(m)
      BY <1>2 DEF SameNode
    <3>2. Balanced(n)
      <4>1. Part(n) = node[n].fs
        BY <1>1 DEF Part, PartOf, Entries
      <4>2. Part(n)' = 0
        BY <1>2 DEF Part, PartOf, Entries
      <4>3. size \in Int /\ node[n].fs \in Int
        BY InUse, SizesNow
      <4> QED BY <4>1, <4>2, <4>3 DEF Balanced
    <3> QED BY <3>1, <3>2, SizeStep DEF DInv, SInv
  <2> QED BY <2>1, <2>2, <2>3, <2>4, <2>5 DEF SInv
<1>8. Asked'
  BY CalmAsked DEF DInv
<1>9. ASSUME causes' = {} PROVE FInv'
  <2>1. OneEach /\ UpdatesOK /\ Unlinked /\ ReadsOK /\ \A k \in Keys : Agree(k)
    BY <1>9 DEF DInv, FInv
  <2>2. OneEach'
    BY <1>3, <2>1 DEF OneEach
  <2>3. UpdatesOK'
    BY <1>9, <2>1, CalmUpdatesOK
  <2>4. \A q \in Procs : job[q].node # NoNode =>
           job'[q] = job[q] /\ node'[job[q].node].key = node[job[q].node].key
    BY <1>3, <1>4, InUse
  <2>5. Unlinked'
    <3>1. \A q \in Procs : job[q].step = "relock" => job[q].node # NoNode
      BY DEF IInv, JobOK
    <3>2. \A q \in Procs : job'[q].step = "relock" => job'[q] = job[q]
      BY <1>4, <1>5, SMTT(60)
    <3> SUFFICES ASSUME NEW q \in Procs, job'[q].step = "relock"
                 PROVE  disk[node'[job'[q].node].key] = 0
      BY DEF Unlinked
    <3>3. job'[q] = job[q] /\ job[q].node # NoNode /\ job[q].step = "relock"
      BY <3>1, <3>2
    <3>4. disk[node[job[q].node].key] = 0
      BY <2>1, <3>3 DEF Unlinked
    <3> QED BY <2>4, <3>3, <3>4, ZenonT(60)
  <2>6. ReadsOK'
    BY <1>3, <1>9, <2>1, CalmReads
  <2>7. ASSUME NEW k \in Keys PROVE Agree(k)'
    <3>1. CASE k = node[n].key
      <4>1. Deletes(k)'
        BY <1>2, <1>5, <3>1 DEF Deletes
      <4> QED BY <4>1 DEF Agree
    <3>2. CASE k # node[n].key
      <4>1. \A m : m \in Entries' /\ node'[m].key = k <=> m \in Entries /\ node[m].key = k
        BY <1>2, <3>2 DEF Entries
      <4>2. \A m \in Entries : node'[m].fs = node[m].fs
        BY <1>3 DEF Entries
      <4>3. HasEntry(k)' <=> HasEntry(k)
        BY <4>1 DEF HasEntry
      <4>4. Updates(k)' <=> Updates(k)
        BY <1>9, CalmUpdates
      <4>5. Deletes(k) => Deletes(k)'
        BY <2>4, ZenonT(60) DEF Deletes
      <4>6. Seen(k)' <=> Seen(k)
        BY DEF Seen
      <4> QED BY <2>1, <4>1, <4>2, <4>3, <4>4, <4>5, <4>6, ZenonT(60) DEF Agree
    <3> QED BY <3>1, <3>2
  <2> QED BY <2>2, <2>3, <2>5, <2>6, <2>7 DEF FInv
<1> QED BY <1>7, <1>8, <1>9 DEF DInv, FInv

LEMMA DeleteDisk ==
  ASSUME IInv, IInv', DInv, NEW p \in Procs, NEW n \in used, NEW q, Delete(p, n, q),
         node[n].count = 0, job[p].node = NoNode,
         UNCHANGED <<conf, cold, disk, loader>>, causes' = causes, Calm
  PROVE  DInv'
<1>1. CASE node[n].exists
  BY <1>1, DeleteExistsDisk DEF Delete
<1>2. CASE ~node[n].exists
  <2>1. /\ used' = used \ {n} /\ node' = [node EXCEPT ![n] = FreeNode]
        /\ UNCHANGED <<size, job>>
    BY <1>2 DEF Delete, Drop
  <2>2. \A m \in used \ {n} : SameNode(m)
    <3>1. node \in [Nodes -> NodeType] /\ used \subseteq Nodes
      BY DEF IInv, TypeOK
    <3> QED BY <2>1, <3>1 DEF SameNode
  <2>3. Keeps(n)
    BY <1>2, <2>1, <2>2 DEF Keeps
  <2> QED BY <2>3, KeepStep
<1> QED BY <1>1, <1>2

LEMMA StillCalm == ASSUME req' = req PROVE Calm
BY DEF Calm

LEMMA RequestForcesDisk ==
  ASSUME IInv, IInv', DInv, NEW r \in Requests, RequestForces(r) PROVE DInv'
<1> DEFINE c == [req[r] EXCEPT !.pc = "retry"]
<1>1. /\ req[r].pc = "forced" /\ req' = [req EXCEPT ![r] = c]
      /\ ForcedExpire(r) /\ UNCHANGED <<conf, cold, disk, loader>> /\ causes' = causes
  BY DEF RequestForces, Quiet
<1>2. /\ c.node = req[r].node /\ c.key = req[r].key /\ c.pc = "retry" /\ job[r].node = NoNode
  BY <1>1, ReqFacts DEF ReqType
<1> HIDE DEF c
<1>3. Calm
  <2>1. TypeOK
    BY DEF IInv
  <2> QED BY <1>1, <1>2, <2>1, AskedFor, CalmIf
<1>4. CASE Victims = {}
  <2>1. UNCHANGED <<used, node, size, job>>
    BY <1>1, <1>4 DEF ForcedExpire
  <2>2. Keeps(NoNode)
    BY <1>1, <2>1, Same DEF Keeps
  <2> QED BY <1>1, <1>3, <2>2, KeepStep
<1>5. CASE Victims # {}
  <2>1. PICK n \in Victims : Delete(r, n, queue)
    BY <1>1, <1>5 DEF ForcedExpire
  <2>2. n \in used /\ node[n].count = 0 /\ r \in Procs
    BY VictimsUnused DEF IInv, Procs
  <2> QED BY <1>1, <1>2, <1>3, <2>1, <2>2, DeleteDisk
<1> QED BY <1>4, <1>5

LEMMA LastIn ==
  ASSUME NEW q \in Seq(Nodes), NEW j \in 0..Len(q), SubSeq(q, 1, Len(q) - j) # <<>>
  PROVE  Last(SubSeq(q, 1, Len(q) - j)) \in ToSet(q)
<1> DEFINE m == Len(q) - j
<1>1. Len(q) \in Nat /\ m \in 0..Len(q)
  BY LenProperties
<1>2. m # 0
  <2>1. SubSeq(q, 1, 0) = <<>>
    OBVIOUS
  <2> QED BY <2>1
<1>3. Len(SubSeq(q, 1, m)) = m /\ SubSeq(q, 1, m)[m] = q[m] /\ m \in 1..Len(q)
  BY <1>1, <1>2, SubSeqProperties
<1>4. Last(SubSeq(q, 1, m)) = q[m] /\ m \in DOMAIN q
  BY <1>3, LenProperties DEF Last
<1> QED BY <1>4 DEF ToSet

LEMMA ManagerDisk ==
  ASSUME IInv, IInv', DInv, ManagerStep PROVE DInv'
<1>0. /\ UNCHANGED <<conf, cold, disk, req, loader>> /\ causes' = causes
      /\ TypeOK /\ "manager" \in Procs
  BY DEF ManagerStep, ManagerExpire, ManagerChecks, ManagerForces, Quiet, IInv, Procs
<1>1. Calm
  BY <1>0, StillCalm
<1>2. CASE UNCHANGED <<used, node, size, job>>
  <2>1. Keeps(NoNode)
    BY <1>0, <1>2, Same DEF Keeps
  <2> QED BY <1>0, <1>1, <2>1, KeepStep
<1>3. CASE ManagerForces
  <2>1. job["manager"].node = NoNode
    BY <1>3 DEF ManagerForces, IInv, JobOK
  <2>2. CASE Victims = {}
    BY <1>2, <1>3, <2>2 DEF ManagerForces, ForcedExpire
  <2>3. CASE Victims # {}
    <3>1. PICK n \in Victims : Delete("manager", n, queue)
      BY <1>3, <2>3 DEF ManagerForces, ForcedExpire
    <3>2. n \in used /\ node[n].count = 0
      BY <1>0, VictimsUnused
    <3> QED BY <1>0, <1>1, <2>1, <3>1, <3>2, DeleteDisk
  <2> QED BY <2>2, <2>3
<1>4. CASE ManagerChecks
  BY <1>2, <1>4 DEF ManagerChecks
<1>5. CASE ManagerExpire
  <2>1. job["manager"].node = NoNode
    BY <1>5 DEF ManagerExpire, NoJob
  <2>2. PICK j \in 0..Len(queue) :
          LET rest  == SubSeq(queue, 1, Len(queue) - j)
              moved == SubSeq(queue, Len(queue) - j + 1, Len(queue))
              q     == moved \o rest
          IN  \/ UNCHANGED <<used, node, size, job>>
              \/ /\ rest # <<>> /\ node[Last(rest)].count = 0
                 /\ Delete("manager", Last(rest), q)
    BY <1>5 DEF ManagerExpire
  <2> DEFINE rest  == SubSeq(queue, 1, Len(queue) - j)
             moved == SubSeq(queue, Len(queue) - j + 1, Len(queue))
             q     == moved \o rest
  <2>3. CASE /\ rest # <<>> /\ node[Last(rest)].count = 0
             /\ Delete("manager", Last(rest), q)
    <3>1. Last(rest) \in used
      <4>1. queue \in Seq(Nodes) /\ ToSet(queue) = used
        BY <1>0 DEF TypeOK
      <4> QED BY <2>3, <4>1, LastIn
    <3> HIDE DEF rest, q
    <3> QED BY <1>0, <1>1, <2>1, <2>3, <3>1, DeleteDisk
  <2> QED BY <1>2, <2>2, <2>3
<1> QED BY <1>3, <1>4, <1>5 DEF ManagerStep

\* The files change, what the cache knows does not.
LEMMA FileSInv ==
  ASSUME IInv, IInv', SInv, UNCHANGED <<used, node, size>>, causes \subseteq causes',
         \A m \in used : Jobs(m)' = Jobs(m), NotRenamed',
         \A q \in Requests : req'[q].node = req[q].node
  PROVE  SInv'
<1>1. Marked' /\ NoFile'
  BY DEF SInv, Marked, NoFile
<1>2. Alone'
  BY ZenonT(60) DEF SInv, Alone, Holders
<1>3. SizeAccounted'
  <2>1. Part(NoNode)' = Part(NoNode)
    BY DEF Part, PartOf, Entries
  <2>2. Balanced(NoNode) /\ \A m \in used \ {NoNode} : SameNode(m)
    BY <2>1, Same DEF Balanced
  <2> QED BY <2>2, SizeStep DEF SInv
<1> QED BY <1>1, <1>2, <1>3 DEF SInv

LEMMA UnlinkDisk ==
  ASSUME IInv, IInv', DInv, NEW p \in Procs, Unlink(p) PROVE DInv'
<1>0. TypeOK /\ job[p] \in [node : Nodes \cup {NoNode}, step : {"none", "unlink", "relock"}]
  BY DEF IInv, TypeOK
<1>n. PICK n \in used : n = job[p].node /\ n # NoNode /\ node[n].deleting
  <2>1. job[p].node # NoNode
    BY DEF Unlink, IInv, JobOK
  <2> QED BY <2>1, InUse
<1>k. PICK k \in Keys : k = node[n].key
  <2>1. node[n] \in NodeType
    BY InUse
  <2> QED BY <2>1 DEF NodeType
<1>1. /\ disk' = [disk EXCEPT ![k] = 0] /\ job' = [job EXCEPT ![p].step = "relock"]
      /\ UNCHANGED <<conf, used, node, size, cold, req, loader>> /\ causes' = causes
  BY <1>n, <1>k DEF Unlink, Quiet
<1>2. /\ disk'[k] = 0 /\ \A l \in Keys \ {k} : disk'[l] = disk[l]
      /\ \A l \in Keys : disk[l] = 0 => disk'[l] = 0
  BY <1>0, <1>1 DEF TypeOK
<1>3. /\ job'[p].node = n /\ \A q \in Procs : job'[q].node = job[q].node
      /\ \A q \in Procs \ {p} : job'[q] = job[q]
  BY <1>0, <1>n, <1>1 DEF TypeOK
<1>4. SInv'
  <2>1. \A m \in used : Jobs(m)' = Jobs(m)
    BY <1>3 DEF Jobs
  <2>2. NotRenamed'
    BY <1>1 DEF NotRenamed, DInv, SInv
  <2> QED BY <1>1, <2>1, <2>2, FileSInv DEF DInv
<1>5. Asked'
  BY <1>1, <1>2 DEF Asked, DInv
<1>6. ASSUME causes' = {} PROVE FInv'
  <2>1. OneEach /\ UpdatesOK /\ Unlinked /\ ReadsOK /\ \A l \in Keys : Agree(l)
    BY <1>1, <1>6 DEF DInv, FInv
  <2>2. \A r \in Requests : req[r].node # NoNode => req[r].key # k
    <3> SUFFICES ASSUME NEW r \in Requests, req[r].node # NoNode, req[r].key = k PROVE FALSE
      OBVIOUS
    <3>1. req[r].node = n
      BY <1>k, <2>1, InUse, OnlyEntry
    <3>2. ~node[n].deleting
      BY <1>1, <1>6, <3>1, InUseStays DEF DInv
    <3> QED BY <1>n, <3>2
  <2>3. OneEach'
    BY <1>1, <2>1 DEF OneEach
  <2>r. \A r \in Requests : req[r] \in ReqType
    BY <1>0 DEF TypeOK
  <2>k. \A r \in Requests : req[r].key \in Keys
    BY <2>r DEF ReqType
  <2>4. UpdatesOK'
    <3>1. \A r \in Requests : req[r].pc = "update" => disk'[req[r].key] = disk[req[r].key]
      BY <1>2, <2>2, <2>k, InUse
    <3> QED BY <1>1, <2>1, <3>1 DEF UpdatesOK
  <2>5. Unlinked'
    <3> SUFFICES ASSUME NEW q \in Procs, job'[q].step = "relock"
                 PROVE  disk'[node[job[q].node].key] = 0
      BY <1>1, <1>3 DEF Unlinked
    <3>1. CASE q = p
      BY <1>n, <1>k, <1>2, <3>1
    <3>2. CASE q # p
      <4>1. job[q].step = "relock"
        BY <1>3, <3>2
      <4>2. job[q].node # NoNode
        BY <4>1 DEF IInv, JobOK
      <4>3. node[job[q].node] \in NodeType
        BY <4>2, InUse
      <4>4. node[job[q].node].key \in Keys
        BY <4>3 DEF NodeType
      <4> QED BY <1>2, <2>1, <4>1, <4>4 DEF Unlinked
    <3> QED BY <3>1, <3>2
  <2>6. ReadsOK'
    <3>1. \A r \in Requests : req[r].pc = "read" => disk'[req[r].key] = disk[req[r].key]
      BY <1>2, <2>2, <2>k, InUse
    <3>2. \A l : Updates(l)' <=> Updates(l)
      BY <1>1 DEF Updates
    <3> QED BY <1>1, <2>1, <3>1, <3>2 DEF ReadsOK, Updates
  <2>7. ASSUME NEW l \in Keys PROVE Agree(l)'
    <3>1. CASE l = k
      <4>1. Deletes(l)'
        BY <1>n, <1>k, <1>1, <1>3, <3>1 DEF Deletes
      <4> QED BY <4>1 DEF Agree
    <3>2. CASE l # k
      <4>1. /\ Entries' = Entries /\ (HasEntry(l)' <=> HasEntry(l))
            /\ (Updates(l)' <=> Updates(l)) /\ (Seen(l)' <=> Seen(l))
        BY <1>1 DEF Entries, HasEntry, Updates, Seen
      <4>2. Deletes(l)' <=> Deletes(l)
        BY <1>1, <1>3 DEF Deletes
      <4>3. disk'[l] = disk[l]
        BY <1>2, <3>2
      <4> QED BY <1>1, <2>1, <4>1, <4>2, <4>3 DEF Agree
    <3> QED BY <3>1, <3>2
  <2> QED BY <2>3, <2>4, <2>5, <2>6, <2>7 DEF FInv
<1> QED BY <1>4, <1>5, <1>6 DEF DInv, FInv

LEMMA RelockDisk ==
  ASSUME IInv, IInv', DInv, NEW p \in Procs, Relock(p) PROVE DInv'
<1>0. TypeOK /\ node \in [Nodes -> NodeType]
  BY SMTT(60) DEF IInv, TypeOK
<1>j. job[p].node # NoNode /\ job[p].step = "relock"
  BY DEF Relock, IInv, JobOK
<1>n. PICK n \in used : n = job[p].node /\ n # NoNode /\ node[n].deleting
  BY <1>j, InUse
<1> DEFINE x == [node[n] EXCEPT !.count = @ - 1, !.deleting = FALSE]
<1>1. /\ IF x.count = 0 THEN Drop(n, queue) ELSE Keep(n, x)
      /\ job' = [job EXCEPT ![p] = NoJob]
      /\ UNCHANGED <<conf, size, cold, disk, req, loader>> /\ causes' = causes
  BY <1>n DEF Relock, Quiet
<1>2. /\ x.count = node[n].count - 1 /\ ~x.deleting /\ x.key = node[n].key
      /\ (x.exists <=> node[n].exists) /\ x.fs = node[n].fs
  <2> DEFINE k == node[n].count - 1
  <2>1. x = [node[n] EXCEPT !.count = k, !.deleting = FALSE]
    OBVIOUS
  <2>2. node[n] \in NodeType
    BY InUse
  <2> HIDE DEF k, x
  <2>3. /\ x.count = k /\ ~x.deleting /\ x.key = node[n].key
        /\ (x.exists <=> node[n].exists) /\ x.fs = node[n].fs
    BY <2>1, <2>2 DEF NodeType
  <2> QED BY <2>3 DEF k
<1>3. Jobs(n) = {p} /\ p \in Jobs(n)
  BY <1>n DEF IInv, JobOK, Jobs
<1>4. /\ job'[p].node = NoNode /\ job'[p].step = "none"
      /\ \A q \in Procs \ {p} : job'[q] = job[q]
  BY <1>0, <1>1 DEF TypeOK, NoJob
<1>5. "used while deleted" \notin causes => x.count = 0
  <2>1. ASSUME "used while deleted" \notin causes PROVE x.count = 0
    <3>1. Holders(n) = {}
      BY <1>n, <2>1 DEF DInv, SInv, Alone
    <3>2. node[n].count = Cardinality(Holders(n)) + Cardinality(Jobs(n))
      BY DEF IInv, CountIsUsers
    <3>3. Cardinality(Holders(n)) = 0 /\ Cardinality(Jobs(n)) = 1
      BY <1>3, <3>1, FS_EmptySet, FS_Singleton
    <3> HIDE DEF x
    <3> QED BY <1>2, <3>2, <3>3
  <2> QED BY <2>1
<1> HIDE DEF x
<1>6. /\ \A m \in used \ {n} : node'[m] = node[m] /\ m \in used'
      /\ used' \subseteq used
      /\ n \in used' => node'[n] = x
      /\ x.count = 0 => n \notin used'
  <2>1. CASE x.count = 0
    BY <1>0, <1>1, <2>1 DEF Drop, TypeOK
  <2>2. CASE x.count # 0
    BY <1>0, <1>1, <2>2 DEF Keep, TypeOK
  <2> QED BY <2>1, <2>2
<1>7. SInv'
  <2>1. Marked'
    <3>1. \A m \in used \ {n} : Jobs(m) \subseteq Jobs(m)'
      BY <1>n, <1>4 DEF Jobs
    <3> QED BY <1>2, <1>6, <3>1 DEF Marked, DInv, SInv
  <2>2. NoFile'
    BY <1>2, <1>6 DEF NoFile, DInv, SInv
  <2>3. NotRenamed'
    BY <1>1 DEF NotRenamed, DInv, SInv
  <2>4. Alone'
    BY <1>1, <1>2, <1>6, ZenonT(60) DEF Alone, Holders, DInv, SInv
  <2>5. SizeAccounted'
    <3>1. used' \ {n} = used \ {n} /\ \A m \in used \ {n} : SameNode(m)
      BY <1>6 DEF SameNode
    <3>2. ASSUME "used while deleted" \notin causes' PROVE Balanced(n)
      <4>1. Part(n) = 0
        BY <1>n DEF Part, PartOf, Entries
      <4>2. Part(n)' = 0
        BY <1>1, <1>5, <1>6, <3>2 DEF Part, PartOf, Entries
      <4> QED BY <1>1, <4>1, <4>2 DEF Balanced
    <3> QED BY <1>1, <3>1, <3>2, SizeStep DEF DInv, SInv
  <2> QED BY <2>1, <2>2, <2>3, <2>4, <2>5 DEF SInv
<1>8. Asked'
  BY <1>1 DEF Asked, DInv
<1>9. ASSUME causes' = {} PROVE FInv'
  <2>1. OneEach /\ UpdatesOK /\ Unlinked /\ ReadsOK /\ \A l \in Keys : Agree(l)
    BY <1>1, <1>9 DEF DInv, FInv
  <2>2. used' = used \ {n}
    BY <1>1, <1>5, <1>6, <1>9
  <2>3. OneEach'
    BY <1>6, <2>1, <2>2 DEF OneEach
  <2>4. UpdatesOK'
    BY <1>1, <2>1 DEF UpdatesOK
  <2>5. \A q \in Procs \ {p} : job[q].node # NoNode =>
          job'[q] = job[q] /\ node'[job[q].node] = node[job[q].node]
    <3>1. \A q \in Procs \ {p} : job[q].node # n
      BY <1>3 DEF Jobs
    <3> QED BY <1>4, <1>6, <3>1, InUse
  <2>6. Unlinked'
    <3> SUFFICES ASSUME NEW q \in Procs, job'[q].step = "relock"
                 PROVE  disk[node'[job'[q].node].key] = 0
      BY <1>1 DEF Unlinked
    <3>1. q # p /\ job[q].step = "relock"
      BY <1>4
    <3>2. job[q].node # NoNode
      BY <3>1 DEF IInv, JobOK
    <3> QED BY <2>1, <2>5, <3>1, <3>2 DEF Unlinked
  <2>7. ReadsOK'
    <3>1. Calm
      BY <1>1, StillCalm
    <3>2. \A m \in used \cap used' : node[m].exists => node'[m].exists
      BY <1>6, <2>2
    <3> QED BY <1>1, <1>9, <2>1, <3>1, <3>2, CalmReads
  <2>8. ASSUME NEW l \in Keys PROVE Agree(l)'
    <3>1. Entries' = Entries /\ \A m \in Entries : node'[m] = node[m]
      BY <1>n, <1>6, <2>2 DEF Entries
    <3>2. CASE l = node[n].key
      <4>1. disk[l] = 0
        BY <1>n, <1>j, <2>1, <3>2 DEF Unlinked
      <4>2. \A m \in Entries : node[m].key # l
        BY <1>n, <2>1, <3>2, OnlyEntry DEF Entries
      <4> QED BY <1>1, <3>1, <4>1, <4>2 DEF Agree
    <3>3. CASE l # node[n].key
      <4>1. Deletes(l) => Deletes(l)'
        BY <1>n, <2>5, <3>3 DEF Deletes
      <4>2. (Updates(l)' <=> Updates(l)) /\ (Seen(l)' <=> Seen(l))
        BY <1>1 DEF Updates, Seen
      <4>3. HasEntry(l)' <=> HasEntry(l)
        BY <3>1 DEF HasEntry
      <4> QED BY <1>1, <2>1, <3>1, <4>1, <4>2, <4>3 DEF Agree
    <3> QED BY <3>2, <3>3
  <2> QED BY <2>3, <2>4, <2>6, <2>7, <2>8 DEF FInv
<1> QED BY <1>7, <1>8, <1>9 DEF DInv, FInv

\* A file takes the place of another one.
LEMMA RenameDisk ==
  ASSUME IInv, IInv', DInv, NEW r \in Requests, Rename(r) PROVE DInv'
<1>0. /\ TypeOK /\ req[r] \in ReqType /\ req[r].pc = "body"
      /\ req[r].key \in conf.asked
  BY AskedFor DEF IInv, TypeOK, Rename
<1>1. PICK fs \in conf.sizes :
        /\ disk' = [disk EXCEPT ![req[r].key] = fs]
        /\ req' = [req EXCEPT ![r] = [req[r] EXCEPT !.pc = "update", !.fs = fs,
             !.renamed = TRUE, !.updated = TRUE, !.updating = FALSE]]
  BY DEF Rename
<1>2. /\ UNCHANGED <<conf, used, node, size, cold, loader, job>>
      /\ causes \subseteq causes'
      /\ causes' = {} => ~Crossed(r)
  BY DEF Rename, Note, When
<1>k. PICK k \in Keys : k = req[r].key /\ k \in conf.asked
  BY <1>0 DEF ReqType
<1>3. /\ disk'[k] = fs /\ \A l \in Keys \ {k} : disk'[l] = disk[l]
  BY <1>0, <1>1, <1>k DEF TypeOK
<1>4. /\ \A q \in Requests \ {r} : req'[q] = req[q]
      /\ req'[r].pc = "update" /\ req'[r].fs = fs /\ req'[r].renamed
      /\ req'[r].key = k /\ req'[r].node = req[r].node
  <2> DEFINE c == [req[r] EXCEPT !.pc = "update", !.fs = fs,
             !.renamed = TRUE, !.updated = TRUE, !.updating = FALSE]
  <2>1. /\ c.pc = "update" /\ c.fs = fs /\ c.renamed
        /\ c.key = k /\ c.node = req[r].node
    BY <1>0, <1>k DEF ReqType
  <2> HIDE DEF c
  <2>2. req' = [req EXCEPT ![r] = c]
    BY <1>1 DEF c
  <2> QED BY <1>0, <2>1, <2>2 DEF TypeOK
<1>5. SInv'
  <2>1. \A m \in used : Jobs(m)' = Jobs(m)
    BY <1>2 DEF Jobs
  <2>2. NotRenamed'
    BY <1>4 DEF NotRenamed, DInv, SInv
  <2>3. \A q \in Requests : req'[q].node = req[q].node
    BY <1>4
  <2> QED BY <1>2, <2>1, <2>2, <2>3, FileSInv DEF DInv
<1>6. Asked'
  <2>1. \A q \in Requests : req'[q].pc # "idle" => req'[q].key \in conf'.asked
    BY <1>k, <1>2, <1>4 DEF Asked, DInv
  <2>2. \A l \in Keys \ (conf.keys \cup conf.asked) : disk'[l] = 0
    BY <1>k, <1>3 DEF Asked, DInv
  <2> QED BY <1>2, <2>1, <2>2 DEF Asked
<1>7. ASSUME causes' = {} PROVE FInv'
  <2>0. causes = {}
    BY <1>2, <1>7
  <2>1. OneEach /\ UpdatesOK /\ Unlinked /\ ReadsOK /\ \A l \in Keys : Agree(l)
    BY <2>0 DEF DInv, FInv
  <2>n. PICK n \in used : n = req[r].node /\ n # NoNode /\ node[n].key = k
    BY <1>0, <1>k, InUse
  <2>2. ~node[n].deleting
    BY <2>0, <2>n, InUseStays DEF DInv
  <2>3. OneEach'
    BY <1>2, <2>1 DEF OneEach
  <2>4. \A q \in Requests \ {r} : req[q].pc = "update" => req[q].key # k
    BY <1>k, <1>2, <1>7 DEF Crossed
  <2>k. \A q \in Requests : req[q].key \in Keys
    <3>1. \A q \in Requests : req[q] \in ReqType
      BY <1>0 DEF TypeOK
    <3> QED BY <3>1 DEF ReqType
  <2>5. UpdatesOK'
    <3> SUFFICES ASSUME NEW q \in Requests, req'[q].pc = "update"
                 PROVE  /\ req'[q].renamed /\ disk'[req'[q].key] = req'[q].fs
                        /\ \A o \in Requests : req'[o].pc = "update" /\ req'[o].key = req'[q].key
                             => o = q
      BY DEF UpdatesOK
    <3>1. CASE q = r
      BY <1>3, <1>4, <2>4, <3>1
    <3>2. CASE q # r
      <4>1. req'[q] = req[q] /\ req[q].pc = "update" /\ req[q].key # k
        BY <1>4, <2>4, <3>2
      <4>2. disk'[req[q].key] = disk[req[q].key]
        BY <1>3, <2>k, <4>1
      <4>3. req[q].renamed /\ disk[req[q].key] = req[q].fs
        BY <2>1, <4>1 DEF UpdatesOK
      <4>4. ASSUME NEW o \in Requests, req'[o].pc = "update", req'[o].key = req'[q].key
            PROVE  o = q
        <5>1. o # r
          BY <1>4, <4>1, <4>4
        <5>2. req[o].pc = "update" /\ req[o].key = req[q].key
          BY <1>4, <4>1, <4>4, <5>1
        <5> QED BY <2>1, <4>1, <5>2 DEF UpdatesOK
      <4> QED BY <4>1, <4>2, <4>3, <4>4
    <3> QED BY <3>1, <3>2
  <2>6. Unlinked'
    <3> SUFFICES ASSUME NEW q \in Procs, job[q].step = "relock"
                 PROVE  disk'[node[job[q].node].key] = 0
      BY <1>2 DEF Unlinked
    <3>1. job[q].node # NoNode
      BY DEF IInv, JobOK
    <3>2. job[q].node \in used /\ node[job[q].node].deleting /\ node[job[q].node] \in NodeType
      BY <3>1, InUse
    <3>3. node[job[q].node].key \in Keys
      BY <3>2 DEF NodeType
    <3>4. node[job[q].node].key # k
      BY <2>n, <2>1, <2>2, <3>2, OnlyEntry
    <3> QED BY <1>3, <2>1, <3>3, <3>4 DEF Unlinked
  <2>7. /\ Updates(k)' /\ \A l : Updates(l) => Updates(l)'
    <3>1. Updates(k)'
      BY <1>4 DEF Updates
    <3>2. ASSUME NEW l, Updates(l) PROVE Updates(l)'
      BY <1>0, <1>4, <3>2 DEF Updates
    <3> QED BY <3>1, <3>2
  <2>8. ReadsOK'
    <3> SUFFICES ASSUME NEW q \in Requests, req'[q].pc = "read"
                 PROVE  disk'[req'[q].key] = req'[q].fs \/ node'[req'[q].node].exists
                        \/ Updates(req[q].key)'
      BY DEF ReadsOK
    <3>1. req'[q] = req[q] /\ q # r
      BY <1>4
    <3>2. Updates(req[q].key) \/ req[q].key = k => Updates(req[q].key)'
      BY <2>7, <3>1 DEF Updates
    <3>3. req[q].key # k => disk'[req[q].key] = disk[req[q].key]
      BY <1>3, <2>k
    <3> QED BY <1>2, <2>1, <3>1, <3>2, <3>3 DEF ReadsOK
  <2>9. ASSUME NEW l \in Keys PROVE Agree(l)'
    <3>1. CASE l = k
      BY <2>7, <3>1 DEF Agree
    <3>2. CASE l # k
      <4>1. /\ Entries' = Entries /\ (HasEntry(l)' <=> HasEntry(l)) /\ (Seen(l)' <=> Seen(l))
            /\ (Deletes(l)' <=> Deletes(l))
        BY <1>2 DEF Entries, HasEntry, Seen, Deletes
      <4>2. disk'[l] = disk[l]
        BY <1>3, <3>2
      <4> QED BY <1>2, <2>1, <2>7, <4>1, <4>2 DEF Agree
    <3> QED BY <3>1, <3>2
  <2> QED BY <2>3, <2>5, <2>6, <2>8, <2>9 DEF FInv
<1> QED BY <1>5, <1>6, <1>7 DEF DInv, FInv

LEMMA RenameFailsDisk ==
  ASSUME IInv, IInv', DInv, NEW r \in Requests, RenameFails(r) PROVE DInv'
<1>0. /\ TypeOK /\ req[r] \in ReqType /\ req[r].pc = "body"
      /\ req[r].key \in conf.asked
  BY AskedFor DEF IInv, TypeOK, RenameFails
<1>1. /\ UNCHANGED <<conf, used, node, size, cold, loader, job>>
      /\ causes' = causes \cup {"rename failed"}
      /\ disk' \in {disk} \cup {[disk EXCEPT ![req[r].key] = fs] : fs \in conf.sizes}
  BY DEF RenameFails, Note
<1>2. \A l \in Keys \ {req[r].key} : disk'[l] = disk[l]
  <2>1. disk \in [Keys -> Nat]
    BY <1>0 DEF TypeOK
  <2> QED BY <1>1, <2>1
<1>3. /\ \A q \in Requests \ {r} : req'[q] = req[q]
      /\ req'[r].pc = "update" /\ req'[r].fs = 0
      /\ req'[r].key = req[r].key /\ req'[r].node = req[r].node
  <2> DEFINE c == [req[r] EXCEPT !.pc = "update", !.fs = 0,
             !.renamed = FALSE, !.updated = TRUE, !.updating = FALSE]
  <2>1. /\ c.pc = "update" /\ c.fs = 0
        /\ c.key = req[r].key /\ c.node = req[r].node
    BY <1>0 DEF ReqType
  <2>2. req' = [req EXCEPT ![r] = c]
    BY DEF RenameFails
  <2> HIDE DEF c
  <2> QED BY <1>0, <2>1, <2>2 DEF TypeOK
<1>4. SInv'
  <2>1. \A m \in used : Jobs(m)' = Jobs(m)
    BY <1>1 DEF Jobs
  <2>2. NotRenamed'
    BY <1>3 DEF NotRenamed, DInv, SInv
  <2>3. \A q \in Requests : req'[q].node = req[q].node
    BY <1>3
  <2> QED BY <1>1, <2>1, <2>2, <2>3, FileSInv DEF DInv
<1>5. Asked'
  <2>1. \A q \in Requests : req'[q].pc # "idle" => req'[q].key \in conf'.asked
    BY <1>0, <1>1, <1>3 DEF Asked, DInv
  <2>2. \A l \in Keys \ (conf.keys \cup conf.asked) : disk'[l] = 0
    BY <1>0, <1>2 DEF Asked, DInv
  <2> QED BY <1>1, <2>1, <2>2 DEF Asked
<1>6. FInv'
  BY <1>1 DEF FInv
<1> QED BY <1>4, <1>5, <1>6 DEF DInv

-----------------------------------------------------------------------------
(* The loader.                                                             *)

\* What the loader has passed: only the second part of Agree speaks of it.
LEMMA LoaderMoves ==
  ASSUME IInv, IInv', DInv, UNCHANGED <<conf, used, node, size, disk, req, job>>,
         causes \subseteq causes',
         causes' = {} => \A k \in Keys :
           Seen(k)' /\ disk[k] # 0 /\ ~Updates(k) /\ ~Deletes(k) => Seen(k) \/ HasEntry(k)
  PROVE  DInv'
<1>1. SInv'
  <2>1. \A m \in used : Jobs(m)' = Jobs(m)
    BY DEF Jobs
  <2>2. NotRenamed'
    BY DEF NotRenamed, DInv, SInv
  <2> QED BY <2>1, <2>2, FileSInv DEF DInv
<1>2. Asked'
  BY DEF Asked, DInv
<1>3. ASSUME causes' = {} PROVE FInv'
  <2>0. causes = {}
    BY <1>3
  <2>1. OneEach /\ UpdatesOK /\ Unlinked /\ ReadsOK /\ \A k \in Keys : Agree(k)
    BY <2>0 DEF DInv, FInv
  <2>2. OneEach' /\ UpdatesOK' /\ Unlinked' /\ ReadsOK'
    BY <2>1 DEF OneEach, UpdatesOK, Unlinked, ReadsOK, Updates
  <2>3. ASSUME NEW k \in Keys PROVE Agree(k)'
    <3>1. /\ Entries' = Entries /\ (HasEntry(k)' <=> HasEntry(k))
          /\ (Updates(k)' <=> Updates(k)) /\ (Deletes(k)' <=> Deletes(k))
      BY DEF Entries, HasEntry, Updates, Deletes
    <3> QED BY <1>3, <2>1, <3>1 DEF Agree
  <2> QED BY <2>2, <2>3 DEF FInv
<1> QED BY <1>1, <1>2, <1>3 DEF DInv, FInv

LEMMA WalkIs ==
  ASSUME NEW S PROVE Walk(S).pc = "walk" /\ Walk(S).left = S
BY DEF Walk

LEMMA LoaderStartsDisk ==
  ASSUME IInv, IInv', DInv, LoaderStarts PROVE DInv'
<1>1. /\ UNCHANGED <<conf, used, node, size, cold, disk, req, job>> /\ causes' = causes
      /\ cold /\ loader'.left = conf.keys \cup conf.asked
  BY WalkIs DEF LoaderStarts, Quiet
<1>2. \A k \in Keys : Seen(k)' => disk[k] = 0
  BY <1>1 DEF Seen, DInv, Asked
<1> QED BY <1>1, <1>2, LoaderMoves

LEMMA LoaderSeesDisk ==
  ASSUME IInv, IInv', DInv, NEW l \in Keys, LoaderSees(l) PROVE DInv'
<1>1. /\ UNCHANGED <<conf, used, node, size, cold, disk, req, job>> /\ causes' = causes
      /\ loader.pc = "walk" /\ l \in loader.left
      /\ loader' = IF disk[l] = 0 THEN [loader EXCEPT !.left = @ \ {l}]
                   ELSE [pc |-> "add", left |-> loader.left \ {l}, key |-> l, fs |-> disk[l]]
  BY DEF LoaderSees, Quiet
<1>2. loader \in [pc : {"idle", "walk", "add", "unlink"}, left : SUBSET Keys,
                  key : Keys, fs : Nat]
  BY DEF IInv, TypeOK
<1>3. loader'.left = loader.left \ {l} /\ (disk[l] # 0 => loader'.pc = "add" /\ loader'.key = l)
  BY <1>1, <1>2
<1>4. \A k \in Keys : Seen(k)' /\ disk[k] # 0 => Seen(k)
  BY <1>1, <1>3 DEF Seen
<1> QED BY <1>1, <1>4, LoaderMoves

LEMMA LoaderFindsDisk ==
  ASSUME IInv, IInv', DInv, LoaderFinds PROVE DInv'
<1>1. PICK n \in NodesOf(loader.key) : Note(When(~node[n].exists, "skipped by loader"))
  BY DEF LoaderFinds
<1>2. /\ UNCHANGED <<conf, used, node, size, cold, disk, req, job>>
      /\ causes \subseteq causes'
      /\ causes' = {} => node[n].exists
      /\ loader.pc = "add" /\ loader'.pc = "walk" /\ loader'.left = loader.left
  BY <1>1, WalkIs DEF LoaderFinds, Note, When
<1>3. n \in used /\ node[n].key = loader.key
  BY DEF NodesOf
<1>4. ASSUME causes' = {} PROVE HasEntry(loader.key) \/ Deletes(loader.key)
  <2>1. CASE node[n].deleting
    <3>1. PICK p \in Procs : job[p].node = n
      BY <1>3, <2>1 DEF DInv, SInv, Marked, Jobs
    <3>2. n # NoNode
      BY <1>3, InUse
    <3> QED BY <1>3, <3>1, <3>2 DEF Deletes
  <2>2. CASE ~node[n].deleting
    BY <1>2, <1>3, <1>4, <2>2 DEF HasEntry, Entries
  <2> QED BY <2>1, <2>2
<1>5. \A k \in Keys : Seen(k)' /\ k # loader.key => Seen(k)
  BY <1>2 DEF Seen
<1> QED BY <1>2, <1>4, <1>5, LoaderMoves

LEMMA LoaderFullDisk ==
  ASSUME IInv, IInv', DInv, LoaderFull PROVE DInv'
<1>1. /\ UNCHANGED <<conf, used, node, size, cold, disk, req, job>> /\ causes' = causes
      /\ loader.pc = "add" /\ loader' = [loader EXCEPT !.pc = "unlink"]
  BY DEF LoaderFull, Quiet
<1>2. loader \in [pc : {"idle", "walk", "add", "unlink"}, left : SUBSET Keys,
                  key : Keys, fs : Nat]
  BY DEF IInv, TypeOK
<1>3. loader'.pc = "unlink" /\ loader'.left = loader.left /\ loader'.key = loader.key
  BY <1>1, <1>2
<1>4. \A k \in Keys : Seen(k)' => Seen(k)
  BY <1>1, <1>3 DEF Seen
<1> QED BY <1>1, <1>4, LoaderMoves

LEMMA LoaderEndsDisk ==
  ASSUME IInv, IInv', DInv, LoaderEnds PROVE DInv'
<1>1. /\ UNCHANGED <<conf, used, node, size, disk, req, job>> /\ causes' = causes
      /\ loader.pc = "walk" /\ loader'.pc = "idle"
      /\ loader.left = {} \/ (cold' <=> cold)
  BY DEF LoaderEnds, Quiet, Walk
<1>2. \A k \in Keys : Seen(k)' => Seen(k)
  BY <1>1 DEF Seen
<1> QED BY <1>1, <1>2, LoaderMoves

LEMMA LoaderUnlinksDisk ==
  ASSUME IInv, IInv', DInv, LoaderUnlinks PROVE DInv'
<1>0. /\ disk \in [Keys -> Nat]
      /\ loader \in [pc : {"idle", "walk", "add", "unlink"}, left : SUBSET Keys,
                     key : Keys, fs : Nat]
  BY DEF IInv, TypeOK
<1>k. PICK k \in Keys : k = loader.key
  BY <1>0
<1>1. /\ UNCHANGED <<conf, used, node, size, cold, req, job>> /\ causes \subseteq causes'
      /\ causes' = {} => NodesOf(k) = {}
      /\ disk' = [disk EXCEPT ![k] = 0] /\ loader.pc = "unlink"
      /\ loader'.pc = "walk" /\ loader'.left = loader.left
  BY <1>k, WalkIs DEF LoaderUnlinks, Note, When
<1>2. /\ disk'[k] = 0 /\ \A l \in Keys \ {k} : disk'[l] = disk[l]
      /\ \A l \in Keys : disk[l] = 0 => disk'[l] = 0
  BY <1>0, <1>1
<1>3. SInv'
  <2>1. \A m \in used : Jobs(m)' = Jobs(m)
    BY <1>1 DEF Jobs
  <2>2. NotRenamed'
    BY <1>1 DEF NotRenamed, DInv, SInv
  <2> QED BY <1>1, <2>1, <2>2, FileSInv DEF DInv
<1>4. Asked'
  BY <1>1, <1>2 DEF Asked, DInv
<1>5. ASSUME causes' = {} PROVE FInv'
  <2>0. causes = {}
    BY <1>1, <1>5
  <2>1. OneEach /\ UpdatesOK /\ Unlinked /\ ReadsOK /\ \A l \in Keys : Agree(l)
    BY <2>0 DEF DInv, FInv
  <2>2. \A n \in used : node[n].key # k
    BY <1>1, <1>5 DEF NodesOf
  <2>k. \A q \in Requests : req[q].key \in Keys
    <3>1. \A q \in Requests : req[q] \in ReqType
      BY DEF IInv, TypeOK
    <3> QED BY <3>1 DEF ReqType
  <2>3. \A q \in Requests : req[q].pc \in {"update", "read"} =>
          disk'[req[q].key] = disk[req[q].key]
    <3> SUFFICES ASSUME NEW q \in Requests, req[q].pc \in {"update", "read"}
                 PROVE  disk'[req[q].key] = disk[req[q].key]
      OBVIOUS
    <3>1. req[q].node \in used /\ node[req[q].node].key = req[q].key
      BY InUse
    <3> QED BY <1>2, <2>2, <2>k, <3>1
  <2>4. OneEach' /\ UpdatesOK' /\ ReadsOK'
    BY <1>1, <2>1, <2>3 DEF OneEach, UpdatesOK, ReadsOK, Updates
  <2>5. Unlinked'
    <3> SUFFICES ASSUME NEW q \in Procs, job[q].step = "relock"
                 PROVE  disk'[node[job[q].node].key] = 0
      BY <1>1 DEF Unlinked
    <3>1. job[q].node # NoNode
      BY DEF IInv, JobOK
    <3>2. node[job[q].node] \in NodeType
      BY <3>1, InUse
    <3>3. node[job[q].node].key \in Keys
      BY <3>2 DEF NodeType
    <3> QED BY <1>2, <2>1, <3>3 DEF Unlinked
  <2>6. ASSUME NEW l \in Keys PROVE Agree(l)'
    <3>1. Entries' = Entries /\ Entries \subseteq used
      BY <1>1 DEF Entries
    <3>2. CASE l = k
      BY <1>1, <1>2, <2>2, <3>1, <3>2 DEF Agree
    <3>3. CASE l # k
      <4>1. /\ (HasEntry(l)' <=> HasEntry(l)) /\ (Updates(l)' <=> Updates(l))
            /\ (Deletes(l)' <=> Deletes(l))
        BY <1>1 DEF Entries, HasEntry, Updates, Deletes
      <4>2. Seen(l)' => Seen(l)
        BY <1>k, <1>1, <3>3 DEF Seen
      <4> QED BY <1>1, <1>2, <2>1, <3>1, <3>3, <4>1, <4>2 DEF Agree
    <3> QED BY <3>2, <3>3
  <2> QED BY <2>4, <2>5, <2>6 DEF FInv
<1> QED BY <1>3, <1>4, <1>5 DEF DInv, FInv

LEMMA LoaderAddsDisk ==
  ASSUME IInv, IInv', DInv, LoaderAdds PROVE DInv'
<1>0. /\ node \in [Nodes -> NodeType] /\ used \subseteq Nodes
      /\ loader \in [pc : {"idle", "walk", "add", "unlink"}, left : SUBSET Keys,
                     key : Keys, fs : Nat]
  BY DEF IInv, TypeOK
<1>k. PICK k \in Keys, fs \in Nat : k = loader.key /\ fs = loader.fs
  BY <1>0
<1>1. PICK n \in Nodes \ used :
        /\ used' = used \cup {n}
        /\ node' = [node EXCEPT ![n] = [FreeNode EXCEPT
             !.key = k, !.uses = 1, !.exists = TRUE, !.fs = fs]]
  BY <1>k DEF LoaderAdds
<1>2. /\ UNCHANGED <<conf, cold, disk, req, job>> /\ causes \subseteq causes'
      /\ NodesOf(k) = {} /\ size' = size + fs
      /\ causes' = {} => disk[k] = fs
      /\ loader.pc = "add" /\ loader'.pc = "walk" /\ loader'.left = loader.left
  BY <1>k, WalkIs DEF LoaderAdds, Note, When
<1>3. /\ \A m \in used : node'[m] = node[m] /\ m # n
      /\ node'[n].key = k /\ node'[n].fs = fs /\ node'[n].exists /\ ~node'[n].deleting
  <2> DEFINE y == [FreeNode EXCEPT !.key = k, !.uses = 1, !.exists = TRUE, !.fs = fs]
  <2>1. y.key = k /\ y.fs = fs /\ y.exists /\ ~y.deleting
    BY DEF FreeNode
  <2> HIDE DEF y
  <2>2. node' = [node EXCEPT ![n] = y]
    BY <1>1 DEF y
  <2> QED BY <1>0, <1>1, <2>1, <2>2
<1>4. \A m \in used : node[m].key # k
  BY <1>2 DEF NodesOf
<1>5. Calm
  BY <1>2, StillCalm
<1>6. SInv'
  <2>1. Marked'
    BY <1>1, <1>2, <1>3 DEF Marked, Jobs, DInv, SInv
  <2>2. NoFile'
    BY <1>1, <1>3 DEF NoFile, DInv, SInv
  <2>3. NotRenamed'
    BY <1>5, CalmNotRenamed DEF DInv, SInv
  <2>4. Alone'
    BY <1>1, <1>2, <1>3, <1>5, CalmAlone DEF DInv, SInv
  <2>5. SizeAccounted'
    <3>1. used' \ {n} = used \ {n} /\ \A m \in used \ {n} : SameNode(m)
      BY <1>1, <1>3 DEF SameNode
    <3>2. Balanced(n)
      <4>1. Part(n) = 0
        BY <1>1 DEF Part, PartOf, Entries
      <4>2. Part(n)' = fs
        BY <1>1, <1>3 DEF Part, PartOf, Entries
      <4>3. size \in Int /\ size' \in Int
        BY InUse, InUseThen
      <4>4. size' - fs = size - 0
        BY <1>2, <4>3, Add
      <4> QED BY <4>1, <4>2, <4>4 DEF Balanced
    <3> QED BY <1>2, <3>1, <3>2, SizeStep DEF DInv, SInv
  <2> QED BY <2>1, <2>2, <2>3, <2>4, <2>5 DEF SInv
<1>7. Asked'
  BY <1>2, <1>5, CalmAsked DEF DInv
<1>8. ASSUME causes' = {} PROVE FInv'
  <2>0. causes = {}
    BY <1>2, <1>8
  <2>1. OneEach /\ UpdatesOK /\ Unlinked /\ ReadsOK /\ \A l \in Keys : Agree(l)
    BY <2>0 DEF DInv, FInv
  <2>2. OneEach'
    BY <1>1, <1>3, <1>4, <2>1 DEF OneEach
  <2>3. UpdatesOK'
    BY <1>2, <2>1 DEF UpdatesOK
  <2>4. \A p \in Procs : job[p].node # NoNode =>
           node'[job[p].node].key = node[job[p].node].key
    BY <1>3, InUse
  <2>5. Unlinked'
    <3>1. \A p \in Procs : job[p].step = "relock" => job[p].node # NoNode
      BY DEF IInv, JobOK
    <3> QED BY <1>2, <2>1, <2>4, <3>1 DEF Unlinked
  <2>6. ReadsOK'
    BY <1>2, <1>3, <1>5, <1>8, <2>1, CalmReads
  <2>7. ASSUME NEW l \in Keys PROVE Agree(l)'
    <3>1. (Updates(l)' <=> Updates(l)) /\ (Deletes(l) => Deletes(l)')
      BY <1>2, <2>4 DEF Updates, Deletes
    <3>2. n \in Entries' /\ \A m \in Entries' : m = n \/ m \in Entries
      BY <1>1, <1>3 DEF Entries
    <3>3. Entries \subseteq Entries' /\ Entries \subseteq used
      BY <1>1, <1>3 DEF Entries
    <3>4. CASE l = k
      <4>1. HasEntry(l)'
        BY <1>3, <3>2, <3>4 DEF HasEntry
      <4>2. \A m \in Entries' : node'[m].key = l => disk[l] = node'[m].fs
        BY <1>2, <1>3, <1>4, <1>8, <3>2, <3>3, <3>4
      <4> QED BY <1>2, <4>1, <4>2 DEF Agree
    <3>5. CASE l # k
      <4>1. HasEntry(l) => HasEntry(l)'
        BY <1>3, <3>3 DEF HasEntry
      <4>2. Seen(l)' => Seen(l)
        BY <1>k, <1>2, <3>5 DEF Seen
      <4>3. \A m \in Entries' : node'[m].key = l => m \in Entries /\ node'[m] = node[m]
        BY <1>3, <3>2, <3>3, <3>5
      <4> QED BY <1>2, <2>1, <3>1, <4>1, <4>2, <4>3 DEF Agree
    <3> QED BY <3>4, <3>5
  <2> QED BY <2>2, <2>3, <2>5, <2>6, <2>7 DEF FInv
<1> QED BY <1>6, <1>7, <1>8 DEF DInv, FInv

-----------------------------------------------------------------------------
(* The theorem.                                                            *)

LEMMA InitDisk == Init => DInv
<1> SUFFICES ASSUME Init PROVE DInv
  OBVIOUS
<1>1. \A r \in Requests : req[r].pc = "idle"
  BY DEF Init, Idle
<1>2. \A p \in Procs : job[p].node = NoNode /\ job[p].step = "none"
  BY DEF Init, NoJob
<1>3. used = {} /\ Entries = {} /\ cold /\ loader.pc = "idle"
  BY DEF Init, Entries
<1>4. SizeAccounted
  <2>1. FsSum(node, {}) = 0
    BY SumChosen, FS_EmptySet
  <2> QED BY <1>3, <2>1 DEF SizeAccounted, Init
<1>5. SInv
  BY <1>1, <1>3, <1>4 DEF SInv, Marked, NoFile, NotRenamed, Alone
<1>6. Asked
  BY <1>1 DEF Asked, Init
<1>7. FInv
  BY <1>1, <1>2, <1>3 DEF FInv, OneEach, UpdatesOK, Unlinked, ReadsOK, Agree, Seen
<1> QED BY <1>5, <1>6, <1>7 DEF DInv

LEMMA NextDisk ==
  ASSUME IInv, IInv', DInv, [Next]_vars PROVE DInv'
<1>1. CASE \E r \in Requests : RequestStep(r)
  <2>1. PICK r \in Requests : RequestStep(r)
    BY <1>1
  <2> QED BY <2>1, StartDisk, LookupFoundDisk, LookupInsertDisk, LookupFullDisk,
             RequestForcesDisk, RetryDisk, OpenDisk, MovesDisk, ReadDisk, ExpiredDisk,
             RenameDisk, RenameFailsDisk, UpdateDisk, FreeDisk, CrashDisk DEF RequestStep
<1>2. CASE \E p \in Procs : Unlink(p) \/ Relock(p)
  BY <1>2, UnlinkDisk, RelockDisk
<1>3. CASE ManagerStep
  BY <1>3, ManagerDisk
<1>4. CASE LoaderStep
  BY <1>4, LoaderStartsDisk, LoaderFindsDisk, LoaderAddsDisk, LoaderFullDisk,
     LoaderUnlinksDisk, LoaderEndsDisk, LoaderSeesDisk DEF LoaderStep
<1>5. CASE UNCHANGED vars
  <2>1. Calm /\ Keeps(NoNode) /\ cold' = cold /\ loader' = loader
    BY <1>5, StillCalm, Same DEF vars, Keeps
  <2> QED BY <2>1, KeepStep
<1> QED BY <1>1, <1>2, <1>3, <1>4, <1>5 DEF Next

LEMMA SpecDInv == Spec => []DInv
<1>1. IInv /\ IInv' /\ DInv /\ [Next]_vars => DInv'
  BY NextDisk
<1> QED BY <1>1, InitDisk, SpecIInv, PTL DEF Spec

LEMMA AtMostOne ==
  ASSUME NEW S, \A a, b \in S : a = b PROVE Cardinality(S) <= 1
<1>1. CASE S = {}
  BY <1>1, FS_EmptySet
<1>2. CASE S # {}
  <2>1. PICK a \in S : TRUE
    BY <1>2
  <2>2. S = {a}
    BY <2>1
  <2> QED BY <2>2, FS_Singleton
<1> QED BY <1>1, <1>2

\* The size that the manager compares with max_size is the sum of the sizes of
\* the entries, and the entries are the files, for any number of requests, keys
\* and places and whoever crosses whom: nothing that is not in `causes` makes
\* them differ (ngx_http_file_cache_update(), _delete(), _read(), the loader
\* and the manager).
THEOREM DiskIsAccounted == Spec => []DiskAccounted
<1>1. IInv /\ DInv => DiskAccounted
  <2> SUFFICES ASSUME IInv, DInv PROVE DiskAccounted
    OBVIOUS
  <2>1. ASSUME causes = {}, NEW k \in Keys
        PROVE  /\ Cardinality(NodesOf(k)) <= 1
               /\ ~Unsettled(k) =>
                    /\ \A n \in Entries \cap NodesOf(k) : disk[k] = node[n].fs
                    /\ ~cold /\ disk[k] # 0 => Entries \cap NodesOf(k) # {}
    <3>1. OneEach /\ Agree(k)
      BY <2>1 DEF DInv, FInv
    <3>2. Cardinality(NodesOf(k)) <= 1
      <4>1. \A a, b \in NodesOf(k) : a = b
        BY <3>1 DEF OneEach, NodesOf
      <4> QED BY <4>1, AtMostOne
    <3>3. ~Unsettled(k) => ~Updates(k) /\ ~Deletes(k)
      <4>1. \A p \in Procs : job[p].node # NoNode => job[p] # NoJob
        BY DEF NoJob
      <4> QED BY <4>1 DEF Unsettled, Updates, Deletes
    <3>4. ~cold => Seen(k)
      BY DEF Seen
    <3>5. HasEntry(k) => Entries \cap NodesOf(k) # {}
      BY DEF HasEntry, NodesOf, Entries
    <3> QED BY <3>1, <3>2, <3>3, <3>4, <3>5 DEF Agree, NodesOf
  <2> QED BY <2>1 DEF DiskAccounted, FilesAreEntries, DInv, SInv
<1> QED BY <1>1, SpecIInv, SpecDInv, PTL
=============================================================================
