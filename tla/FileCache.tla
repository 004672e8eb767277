----------------------------- MODULE FileCache -----------------------------
(***************************************************************************)
(* The file cache of HTTP upstreams (http/ngx_http_file_cache.c and its     *)
(* callers in ngx_http_upstream.c): requests of several workers, the cache  *)
(* manager and the cache loader share a tree of nodes, a queue of them in   *)
(* the order of their use and the size of the cache, all in a zone that has *)
(* room for a few nodes only.  The files are under no lock.                 *)
(*                                                                         *)
(* What is done under the mutex of the zone is one action, and so is every  *)
(* operation on a file.  Time is not modelled: what depends on it may or    *)
(* may not have happened yet.  A field of a request that nothing reads any  *)
(* more has its first value again.                                          *)
(***************************************************************************)
EXTENDS Integers, Sequences, FiniteSets, SequencesExt, FiniteSetsExt

CONSTANTS
  Keys, Requests,
  Nodes, NoNode,   \* the places for nodes in the zone
  Confs,           \* see ConfType
  UsesMod,         \* 2^10, uses is a bit field of ten bits
  Tries,           \* nodes that ngx_http_file_cache_forced_expire() looks at
  MaxRaces         \* bound on the events of `causes`

\* How many nodes the zone has room for, the keys that may have files from an
\* earlier run, the ones that are asked for, the sizes a file may have,
\* min_uses, max_size, and what may happen.
ConfType ==
  [room : Nat, keys : SUBSET Keys, asked : SUBSET Keys,
   sizes : SUBSET (Nat \ {0}), min_uses : Nat \ {0}, max_size : Nat,
   allow : SUBSET {"bypass", "errors", "crash", "bad file", "rename fails",
                    "abort"}]

ASSUME FileCacheAssumption ==
  /\ Confs \subseteq ConfType /\ NoNode \notin Nodes
  /\ IsFiniteSet(Nodes) /\ IsFiniteSet(Requests)
  /\ Keys # {} /\ "manager" \notin Requests
  /\ UsesMod \in Nat \ {0, 1} /\ Tries \in Nat \ {0} /\ MaxRaces \in Nat

VARIABLES
  conf,
  used,     \* the nodes of the tree
  node,     \* their fields
  queue,    \* the nodes, the one used last first
  size,     \* cache->sh->size
  cold,     \* cache->sh->cold
  disk,     \* the size of the file of each key, 0 if there is none
  req,      \* the requests: ngx_http_cache_t and where they are
  manager,  \* the cache manager
  loader,   \* the cache loader
  job,      \* the deletion that a process does without the mutex
  causes,   \* history: what may make `size` and the disk differ
  races     \* history: how often

vars == <<conf, used, node, queue, size, cold, disk, req, manager, loader, job,
          causes, races>>

Allowed(x) == x \in conf.allow
Procs == Requests \cup {"manager"}
NoJob == [node |-> NoNode, step |-> "none"]

Idle == [pc |-> "idle", key |-> CHOOSE k \in Keys : TRUE, node |-> NoNode,
         create |-> FALSE, declined |-> FALSE, exists |-> FALSE,
         cacheable |-> TRUE, updating |-> FALSE, updated |-> FALSE,
         error |-> FALSE, fs |-> 0, renamed |-> FALSE]

FreeNode == [key |-> CHOOSE k \in Keys : TRUE, count |-> 0, uses |-> 0,
             error |-> FALSE, exists |-> FALSE, updating |-> FALSE,
             deleting |-> FALSE, fs |-> 0]

\* ngx_http_file_cache_init(): the files of an earlier run are on the disk.
Init ==
  /\ conf \in Confs
  /\ used = {} /\ node = [n \in Nodes |-> FreeNode] /\ queue = <<>>
  /\ size = 0 /\ cold = TRUE
  /\ disk \in {d \in [Keys -> {0} \cup conf.sizes] :
                 \A k \in Keys \ conf.keys : d[k] = 0}
  /\ req = [r \in Requests |-> Idle]
  /\ manager = "expire"
  /\ loader = [pc |-> "idle", left |-> {}, key |-> Idle.key, fs |-> 0]
  /\ job = [p \in Procs |-> NoJob]
  /\ causes = {} /\ races = 0

-----------------------------------------------------------------------------
(* The tree and the queue.                                                 *)

NodesOf(k) == {n \in used : node[n].key = k}
Room       == Cardinality(used) < conf.room
\* ngx_queue_remove()
Without(q, n) == RemoveAt(q, CHOOSE i \in DOMAIN q : q[i] = n)
Touched(n) == <<n>> \o Without(queue, n)

\* ngx_slab_free_locked() after the node left the tree and the queue
Drop(n, q) ==
  /\ used' = used \ {n} /\ queue' = Without(q, n)
  /\ node' = [node EXCEPT ![n] = FreeNode]

Keep(n, x) ==
  /\ node' = [node EXCEPT ![n] = x] /\ UNCHANGED <<used, queue>>

\* An event that may make the size and the disk differ
Note(cs) ==
  /\ causes' = causes \cup cs
  /\ races' = races + Cardinality(cs)
  /\ races' <= MaxRaces
Quiet == UNCHANGED <<causes, races>>

When(c, cause) == IF c THEN {cause} ELSE {}

-----------------------------------------------------------------------------
(* ngx_http_file_cache_exists()                                            *)

\* Where a request goes with what ngx_http_file_cache_exists() returned.
AfterLookup(c, rc) ==
  [c EXCEPT !.declined = rc = "declined",
            !.cacheable = @ /\ (c.create \/ rc # "again"),
            !.create = FALSE,
            !.pc = CASE c.create -> "body"
                     [] ~c.create /\ rc = "ok" /\ c.error -> "end"
                     [] ~c.create /\ rc = "again" -> "fetch"
                     [] OTHER -> "open"]

LookupFound(r) ==
  \E n \in NodesOf(req[r].key), late \in BOOLEAN :
    LET x     == [node[n] EXCEPT !.uses = (@ + 1) % UsesMod, !.count = @ + 1]
        renew == x.error /\ late
        y     == IF renew THEN [x EXCEPT !.error = FALSE, !.exists = FALSE,
                                         !.fs = 0] ELSE x
        rc    == CASE renew -> "declined"
                   [] ~renew /\ (x.error \/ x.exists \/ x.uses >= conf.min_uses)
                        -> "ok"
                   [] OTHER -> "again"
        there == IF rc = "ok" /\ ~x.error THEN x.exists ELSE req[r].exists
        c     == [req[r] EXCEPT !.node = n, !.error = y.error, !.exists = there]
    IN
    /\ req[r].pc = "lookup"
    /\ node' = [node EXCEPT ![n] = y] /\ queue' = Touched(n)
    /\ req' = [req EXCEPT ![r] = AfterLookup(c, rc)]
    /\ Note(When(renew /\ x.exists, "renewed")
            \cup When(x.deleting, "used while deleted"))
    /\ UNCHANGED <<conf, used, size, cold, disk, manager, loader, job>>

NewNode(k) == [FreeNode EXCEPT !.key = k, !.uses = 1, !.count = 1]

Insert(r) ==
  \E n \in Nodes \ used :
    /\ used' = used \cup {n}
    /\ node' = [node EXCEPT ![n] = NewNode(req[r].key)]
    /\ queue' = <<n>> \o queue
    /\ req' = [req EXCEPT ![r] =
         AfterLookup([@ EXCEPT !.node = n, !.error = FALSE], "declined")]

LookupInsert(r) ==
  /\ req[r].pc = "lookup" /\ NodesOf(req[r].key) = {} /\ Room
  /\ Insert(r)
  /\ Quiet /\ UNCHANGED <<conf, size, cold, disk, manager, loader, job>>

LookupFull(r) ==
  /\ req[r].pc = "lookup" /\ NodesOf(req[r].key) = {} /\ ~Room
  /\ req' = [req EXCEPT ![r].pc = "forced"]
  /\ Quiet
  /\ UNCHANGED <<conf, used, node, queue, size, cold, disk, manager, loader, job>>

\* There is room now, or there is not; nobody looks the key up again.
Retry(r) ==
  /\ req[r].pc = "retry" /\ job[r] = NoJob
  /\ IF Room
     THEN /\ Insert(r)
          /\ Note(When(NodesOf(req[r].key) # {}, "inserted twice"))
     ELSE /\ req' = [req EXCEPT ![r] = Idle]
          /\ Quiet /\ UNCHANGED <<used, node, queue>>
  /\ UNCHANGED <<conf, size, cold, disk, manager, loader, job>>

-----------------------------------------------------------------------------
(* Deleting: ngx_http_file_cache_delete()                                  *)

\* The queue is q.  The size is smaller at once; the file and the node stay
\* until the process is through with the unlocked part.
Delete(p, n, q) ==
  IF node[n].exists
  THEN /\ size' = size - node[n].fs
       /\ node' = [node EXCEPT ![n].count = @ + 1, ![n].deleting = TRUE]
       /\ job' = [job EXCEPT ![p] = [node |-> n, step |-> "unlink"]]
       /\ queue' = q /\ UNCHANGED used
  ELSE Drop(n, q) /\ UNCHANGED <<size, job>>

Alive(p) == ~(p \in Requests /\ req[p].pc = "dead")

Unlink(p) ==
  /\ job[p].step = "unlink" /\ Alive(p)
  /\ disk' = [disk EXCEPT ![node[job[p].node].key] = 0]
  /\ job' = [job EXCEPT ![p].step = "relock"]
  /\ Quiet
  /\ UNCHANGED <<conf, used, node, queue, size, cold, req, manager, loader>>

Relock(p) ==
  LET n == job[p].node
      x == [node[n] EXCEPT !.count = @ - 1, !.deleting = FALSE]
  IN
  /\ job[p].step = "relock" /\ Alive(p)
  /\ IF x.count = 0 THEN Drop(n, queue) ELSE Keep(n, x)
  /\ job' = [job EXCEPT ![p] = NoJob]
  /\ Quiet /\ UNCHANGED <<conf, size, cold, disk, req, manager, loader>>

\* ngx_http_file_cache_forced_expire(): the node it finds, from the last one on
Victims ==
  LET last == {i \in 1..Len(queue) : i > Len(queue) - Tries}
      free == {i \in last : node[queue[i]].count = 0}
  IN {queue[i] : i \in {i \in free : \A j \in free : j <= i}}

ForcedExpire(p) ==
  IF Victims = {} THEN UNCHANGED <<used, node, queue, size, job>>
  ELSE \E n \in Victims : Delete(p, n, queue)

RequestForces(r) ==
  /\ req[r].pc = "forced"
  /\ ForcedExpire(r)
  /\ req' = [req EXCEPT ![r].pc = "retry"]
  /\ Quiet /\ UNCHANGED <<conf, cold, disk, manager, loader>>

-----------------------------------------------------------------------------
(* Requests: ngx_http_upstream_cache() and what follows.                   *)

\* The request starts with a lookup, or bypasses the cache
Start(r) ==
  /\ req[r].pc = "idle"
  /\ \E k \in conf.asked, bypass \in IF Allowed("bypass") THEN BOOLEAN ELSE {FALSE} :
       req' = [req EXCEPT ![r] = [Idle EXCEPT !.key = k, !.create = bypass,
                                    !.pc = IF bypass THEN "fetch" ELSE "lookup"]]
  /\ Quiet /\ UNCHANGED <<conf, used, node, queue, size, cold, disk, manager,
                          loader, job>>

\* ngx_http_file_cache_open() after the lookup.
Open(r) ==
  LET c      == req[r]
      scarce == c.declined /\ conf.min_uses > 1
      test   == IF c.declined THEN cold ELSE c.exists
      found  == test /\ disk[c.key] # 0
  IN
  /\ c.pc = "open"
  /\ req' = [req EXCEPT ![r] =
       [c EXCEPT !.declined = FALSE, !.exists = FALSE,
                 !.fs = IF found THEN disk[c.key] ELSE 0,
                 !.cacheable = found \/ ~scarce,
                 !.pc = IF found THEN "read" ELSE "fetch"]]
  /\ Quiet /\ UNCHANGED <<conf, used, node, queue, size, cold, disk, manager,
                          loader, job>>

\* ngx_http_file_cache_read(): the file is not what was expected (or
\* ngx_http_upstream_cache_send() finds the header in it to be invalid),
ReadBad(r) ==
  /\ req[r].pc \in {"read", "valid"} /\ Allowed("bad file")
  /\ req' = [req EXCEPT ![r].pc = "fetch", ![r].fs = 0]
  /\ Quiet /\ UNCHANGED <<conf, used, node, queue, size, cold, disk, manager,
                          loader, job>>

\* ... or it is, and the loader may not have seen it yet.
Read(r) ==
  LET n == req[r].node
      x == node[n]
      new == cold /\ ~x.exists
  IN
  /\ req[r].pc = "read"
  /\ Keep(n, IF new THEN [x EXCEPT !.uses = 1, !.exists = TRUE, !.fs = req[r].fs]
             ELSE x)
  /\ size' = IF new THEN size + req[r].fs ELSE size
  /\ req' = [req EXCEPT ![r].pc = "valid", ![r].fs = 0]
  /\ Quiet /\ UNCHANGED <<conf, cold, disk, manager, loader, job>>

\* The response is valid or, with proxy_cache_use_stale, sent anyway
Hit(r) ==
  /\ req[r].pc = "valid"
  /\ req' = [req EXCEPT ![r].pc = "end"]
  /\ Quiet /\ UNCHANGED <<conf, used, node, queue, size, cold, disk, manager,
                          loader, job>>

Expired(r) ==
  LET n == req[r].node IN
  /\ req[r].pc = "valid"
  /\ Keep(n, [node[n] EXCEPT !.updating = TRUE])
  /\ req' = [req EXCEPT ![r].updating = ~node[n].updating, ![r].pc = "fetch"]
  /\ Quiet /\ UNCHANGED <<conf, size, cold, disk, manager, loader, job>>

\* The upstream answers with something to be cached,
Response(r) ==
  /\ req[r].pc = "fetch" /\ req[r].cacheable
  /\ req' = [req EXCEPT ![r].pc = IF req[r].create THEN "lookup" ELSE "body"]
  /\ Quiet /\ UNCHANGED <<conf, used, node, queue, size, cold, disk, manager,
                          loader, job>>

\* ... or it does not, or fails: then a stale response may be sent, and an
\* error may be remembered.  The rest of a response may fail as well.
NoResponse(r) ==
  /\ req[r].pc \in {"fetch", "body"}
  /\ \E e \in IF Allowed("errors") /\ req[r].pc = "fetch" THEN BOOLEAN ELSE {FALSE} :
       req' = [req EXCEPT ![r].pc = "end", ![r].error = @ \/ e,
                          ![r].cacheable = TRUE]
  /\ Quiet /\ UNCHANGED <<conf, used, node, queue, size, cold, disk, manager,
                          loader, job>>

\* ngx_http_file_cache_update(): the temporary file becomes the cache file,
Crossed(r) == \E q \in Requests \ {r} :
  req[q].pc = "update" /\ req[q].key = req[r].key

Rename(r) ==
  /\ req[r].pc = "body"
  /\ \E fs \in conf.sizes :
       /\ disk' = [disk EXCEPT ![req[r].key] = fs]
       /\ req' = [req EXCEPT ![r] = [@ EXCEPT !.pc = "update", !.fs = fs,
            !.renamed = TRUE, !.updated = TRUE, !.updating = FALSE]]
  /\ Note(When(Crossed(r), "updates crossed"))
  /\ UNCHANGED <<conf, used, node, queue, size, cold, manager, loader, job>>

\* ... or it does not, or it does and fstat() fails,
RenameFails(r) ==
  LET k == req[r].key IN
  /\ req[r].pc = "body" /\ Allowed("rename fails")
  /\ disk' \in {disk} \cup {[disk EXCEPT ![k] = fs] : fs \in conf.sizes}
  /\ req' = [req EXCEPT ![r] = [@ EXCEPT !.pc = "update", !.fs = 0,
       !.renamed = FALSE, !.updated = TRUE, !.updating = FALSE]]
  /\ Note({"rename failed"})
  /\ UNCHANGED <<conf, used, node, queue, size, cold, manager, loader, job>>

\* Mutant: the entry stays locked.
UpdateKeepsCount(r) ==
  LET c == req[r] x == node[c.node] IN
  /\ c.pc = "update"
  /\ size' = size + c.fs - x.fs
  /\ Keep(c.node, [x EXCEPT !.fs = c.fs, !.updating = FALSE,
                            !.exists = @ \/ c.renamed])
  /\ req' = [req EXCEPT ![r] = Idle]
  /\ Quiet /\ UNCHANGED <<conf, cold, disk, manager, loader, job>>

\* Mutant: the file that was replaced still counts.
UpdateOnlyAdds(r) ==
  LET c == req[r] x == node[c.node] IN
  /\ c.pc = "update"
  /\ size' = size + c.fs
  /\ Keep(c.node, [x EXCEPT !.count = @ - 1, !.fs = c.fs, !.updating = FALSE,
                            !.exists = @ \/ c.renamed])
  /\ req' = [req EXCEPT ![r] = Idle]
  /\ Quiet /\ UNCHANGED <<conf, cold, disk, manager, loader, job>>

\* ... and the node is brought up to date.
Update(r) ==
  LET c == req[r]
      x == node[c.node]
  IN
  /\ c.pc = "update"
  /\ size' = size + c.fs - x.fs
  /\ Keep(c.node, [x EXCEPT !.count = @ - 1, !.fs = c.fs, !.updating = FALSE,
                            !.exists = @ \/ c.renamed])
  /\ req' = [req EXCEPT ![r] = Idle]
  /\ Quiet /\ UNCHANGED <<conf, cold, disk, manager, loader, job>>

\* Mutant: a request that fails does not say that it no longer updates.
FreeStillUpdating(r) ==
  LET c == req[r]
      x == [node[c.node] EXCEPT !.count = @ - 1, !.error = @ \/ c.error]
  IN
  /\ c.pc = "end"
  /\ IF c.node = NoNode THEN UNCHANGED <<used, node, queue>>
     ELSE IF ~c.error /\ ~x.exists /\ x.count = 0 /\ conf.min_uses = 1
     THEN Drop(c.node, queue) ELSE Keep(c.node, x)
  /\ req' = [req EXCEPT ![r] = Idle]
  /\ Quiet /\ UNCHANGED <<conf, size, cold, disk, manager, loader, job>>

\* ngx_http_file_cache_free(), by the upstream or by the cleanup of the pool
Free(r) ==
  LET c == req[r]
      x == [node[c.node] EXCEPT !.count = @ - 1,
              !.updating = @ /\ ~c.updating, !.error = @ \/ c.error]
  IN
  /\ c.pc = "end"
  /\ IF c.node = NoNode THEN UNCHANGED <<used, node, queue>>
     ELSE IF ~c.error /\ ~x.exists /\ x.count = 0 /\ conf.min_uses = 1
     THEN Drop(c.node, queue) ELSE Keep(c.node, x)
  /\ req' = [req EXCEPT ![r] = Idle]
  /\ Quiet /\ UNCHANGED <<conf, size, cold, disk, manager, loader, job>>

\* The worker dies outside the mutex; the master starts another one.
Crash(r) ==
  /\ Allowed("crash") /\ req[r].pc \notin {"idle", "dead"}
  /\ req' = [req EXCEPT ![r] = [Idle EXCEPT !.pc = "dead", !.key = req[r].key,
       !.node = req[r].node, !.updating = req[r].updating,
       !.updated = req[r].updated]]
  /\ Note(When(req[r].pc = "update" \/ job[r] # NoJob, "died"))
  /\ UNCHANGED <<conf, used, node, queue, size, cold, disk, manager, loader, job>>

-----------------------------------------------------------------------------
(* The cache manager: ngx_http_file_cache_manager()                        *)

\* ngx_http_file_cache_expire(): the entries that were not used for long and
\* are locked go to the head; then comes one that is not that old, one that is
\* being deleted, none, or one to delete.
ManagerExpire ==
  /\ manager = "expire" /\ job["manager"] = NoJob
  /\ \E j \in 0..Len(queue) :
       LET rest  == SubSeq(queue, 1, Len(queue) - j)
           moved == SubSeq(queue, Len(queue) - j + 1, Len(queue))
           q     == moved \o rest
       IN
       /\ \A i \in 1..j : node[moved[i]].count > 0 /\ ~node[moved[i]].deleting
       /\ \/ /\ manager' = "check" /\ queue' = q
             /\ UNCHANGED <<used, node, size, job>>
          \/ /\ rest # <<>> /\ node[Last(rest)].count = 0
             /\ Delete("manager", Last(rest), q)
             /\ UNCHANGED manager
  /\ Quiet /\ UNCHANGED <<conf, cold, disk, req, loader>>

ManagerChecks ==
  /\ manager = "check" /\ job["manager"] = NoJob
  /\ manager' = IF size < conf.max_size THEN "expire" ELSE "forced"
  /\ Quiet
  /\ UNCHANGED <<conf, used, node, queue, size, cold, disk, req, loader, job>>

ManagerForces ==
  /\ manager = "forced"
  /\ ForcedExpire("manager")
  /\ manager' = IF Victims = {} THEN "expire" ELSE "check"
  /\ Quiet /\ UNCHANGED <<conf, cold, disk, req, loader>>

-----------------------------------------------------------------------------
(* The cache loader: ngx_http_file_cache_loader()                          *)

Walk(keys) == [pc |-> "walk", left |-> keys, key |-> Idle.key, fs |-> 0]

LoaderStarts ==
  /\ loader.pc = "idle" /\ cold
  /\ loader' = Walk(conf.keys \cup conf.asked)
  /\ Quiet /\ UNCHANGED <<conf, used, node, queue, size, cold, disk, req,
                          manager, job>>

\* ngx_walk_tree() meets the file, or there is none
LoaderSees(k) ==
  /\ loader.pc = "walk" /\ k \in loader.left
  /\ loader' = IF disk[k] = 0 THEN [loader EXCEPT !.left = @ \ {k}]
               ELSE [pc |-> "add", left |-> loader.left \ {k}, key |-> k,
                     fs |-> disk[k]]
  /\ Quiet /\ UNCHANGED <<conf, used, node, queue, size, cold, disk, req,
                          manager, job>>

\* ngx_http_file_cache_add()
LoaderFinds ==
  /\ loader.pc = "add"
  /\ \E n \in NodesOf(loader.key) :
       /\ queue' = Touched(n)
       /\ Note(When(~node[n].exists, "skipped by loader"))
  /\ loader' = Walk(loader.left)
  /\ UNCHANGED <<conf, used, node, size, cold, disk, req, manager, job>>

LoaderAdds ==
  /\ loader.pc = "add" /\ NodesOf(loader.key) = {} /\ Room
  /\ \E n \in Nodes \ used :
       /\ used' = used \cup {n}
       /\ node' = [node EXCEPT ![n] = [FreeNode EXCEPT
            !.key = loader.key, !.uses = 1, !.exists = TRUE, !.fs = loader.fs]]
       /\ queue' = <<n>> \o queue
  /\ size' = size + loader.fs
  /\ loader' = Walk(loader.left)
  /\ Note(When(disk[loader.key] # loader.fs, "loaded too late"))
  /\ UNCHANGED <<conf, cold, disk, req, manager, job>>

LoaderFull ==
  /\ loader.pc = "add" /\ NodesOf(loader.key) = {} /\ ~Room
  /\ loader' = [loader EXCEPT !.pc = "unlink"]
  /\ Quiet /\ UNCHANGED <<conf, used, node, queue, size, cold, disk, req,
                          manager, job>>

\* ngx_http_file_cache_delete_file()
LoaderUnlinks ==
  /\ loader.pc = "unlink"
  /\ disk' = [disk EXCEPT ![loader.key] = 0]
  /\ loader' = Walk(loader.left)
  /\ Note(When(NodesOf(loader.key) # {}, "unlinked by loader"))
  /\ UNCHANGED <<conf, used, node, queue, size, cold, req, manager, job>>

\* All the files were met, or the process has to exit.
LoaderEnds ==
  /\ loader.pc = "walk"
  /\ \E done \in BOOLEAN :
       /\ IF done THEN loader.left = {} ELSE Allowed("abort")
       /\ cold' = (cold /\ ~done)
  /\ loader' = [Walk({}) EXCEPT !.pc = "idle"]
  /\ Quiet /\ UNCHANGED <<conf, used, node, queue, size, disk, req, manager, job>>

-----------------------------------------------------------------------------

RequestStep(r) ==
  \/ Start(r) \/ LookupFound(r) \/ LookupInsert(r) \/ LookupFull(r)
  \/ RequestForces(r) \/ Retry(r) \/ Open(r) \/ ReadBad(r) \/ Read(r)
  \/ Hit(r) \/ Expired(r) \/ Response(r) \/ NoResponse(r) \/ Rename(r)
  \/ RenameFails(r) \/ Update(r) \/ Free(r) \/ Crash(r)

ManagerStep == ManagerExpire \/ ManagerChecks \/ ManagerForces

LoaderStep ==
  \/ LoaderStarts \/ LoaderFinds \/ LoaderAdds \/ LoaderFull
  \/ LoaderUnlinks \/ LoaderEnds \/ \E k \in Keys : LoaderSees(k)

Next ==
  \/ \E r \in Requests : RequestStep(r)
  \/ \E p \in Procs : Unlink(p) \/ Relock(p)
  \/ ManagerStep \/ LoaderStep

Spec == Init /\ [][Next]_vars

-----------------------------------------------------------------------------
(* Properties.                                                             *)

Pcs == {"idle", "lookup", "forced", "retry", "open", "read", "valid", "fetch",
        "body", "update", "end", "dead"}

ReqType ==
  [pc : Pcs, key : Keys, node : Nodes \cup {NoNode}, create : BOOLEAN,
   declined : BOOLEAN, exists : BOOLEAN, cacheable : BOOLEAN,
   updating : BOOLEAN, updated : BOOLEAN, error : BOOLEAN, fs : Nat,
   renamed : BOOLEAN]

NodeType ==
  [key : Keys, count : Nat, uses : 0..(UsesMod - 1), error : BOOLEAN,
   exists : BOOLEAN, updating : BOOLEAN, deleting : BOOLEAN, fs : Nat]

\* The types; the queue holds the nodes of the tree, each once.
TypeOK ==
  /\ conf \in Confs /\ used \subseteq Nodes /\ Cardinality(used) <= conf.room
  /\ node \in [Nodes -> NodeType]
  /\ queue \in Seq(Nodes) /\ IsInjective(queue) /\ ToSet(queue) = used
  /\ size \in Int /\ cold \in BOOLEAN /\ disk \in [Keys -> Nat]
  /\ req \in [Requests -> ReqType]
  /\ manager \in {"expire", "check", "forced"}
  /\ loader \in [pc : {"idle", "walk", "add", "unlink"}, left : SUBSET Keys,
                 key : Keys, fs : Nat]
  /\ job \in [Procs -> [node : Nodes \cup {NoNode},
                        step : {"none", "unlink", "relock"}]]

Holders(n) == {r \in Requests : req[r].node = n}
Jobs(n)    == {p \in Procs : job[p].node = n}

\* fcn->count is the number of requests that will call
\* ngx_http_file_cache_free() or _update() for the node, and of deletions of
\* it: whoever crosses whom, no entry in use is freed (count == 0 is what
\* _free(), _delete() and both expire functions ask for) and none stays locked.
\* A worker that died keeps its part.
CountIsUsers ==
  \A n \in used : node[n].count = Cardinality(Holders(n)) + Cardinality(Jobs(n))

\* No process has a pointer to freed memory of the zone, or to memory that now
\* is the entry of another key: c->node of the requests between exists() and
\* free() or update(), and fcn of ngx_http_file_cache_delete() after it took
\* the mutex again (where `q` and the name of the file are used as well).
NoDangling ==
  /\ \A r \in Requests : req[r].node # NoNode =>
       req[r].node \in used /\ node[req[r].node].key = req[r].key
  /\ \A p \in Procs : job[p].node # NoNode =>
       job[p].node \in used /\ node[job[p].node].deleting

\* While an entry says it is being updated there is a request that does it, or
\* did when its worker died: otherwise everybody gets the stale response for
\* ever (CHANGES: "a cached response might stick in the UPDATING state").
UpdatingHasUpdater ==
  \A n \in used : node[n].updating =>
    \E r \in Holders(n) : req[r].updating \/ req[r].updated

Entries == {n \in used : node[n].exists /\ ~node[n].deleting}
FsSum(x, S) == MapThenSumSet(LAMBDA n : x[n].fs, S)

\* cache->sh->size, which the manager compares with max_size, is the sum of the
\* sizes of the entries, but for two defects that the code has: an entry with
\* an error and a file is renewed, and an entry is used while its file is being
\* deleted.
SizeAccounted ==
  causes \cap {"renewed", "used while deleted"} = {} =>
    size = FsSum(node, Entries)

\* Somebody is between the file of the key and its entry.
Unsettled(k) ==
  \/ \E r \in Requests : req[r].pc = "update" /\ req[r].key = k
  \/ \E p \in Procs : job[p] # NoJob /\ node[job[p].node].key = k

\* The files and the entries agree: the file of an entry is there and has its
\* size, and once the cache is loaded there is no file without an entry (which
\* nobody would ever delete).  `causes` is the complete list of what the code
\* does to break this; nothing else does.
FilesAreEntries ==
  causes = {} => \A k \in Keys :
    /\ Cardinality(NodesOf(k)) <= 1
    /\ ~Unsettled(k) =>
         /\ \A n \in Entries \cap NodesOf(k) : disk[k] = node[n].fs
         /\ ~cold /\ disk[k] # 0 => Entries \cap NodesOf(k) # {}

\* The entries of the zone and the pointers the processes keep to them belong
\* together: an entry in use is not freed, an unused one is not kept for ever,
\* and nobody has a pointer to freed memory, whoever of the requests, the cache
\* manager and the loader crosses whom.  The state has its type.
EntriesCounted == TypeOK /\ CountIsUsers /\ NoDangling

\* What the manager decides by is true: the size it compares with max_size is
\* that of the entries, and the entries are the files of the directory.
DiskAccounted == SizeAccounted /\ FilesAreEntries
=============================================================================
