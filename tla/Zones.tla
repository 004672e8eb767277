-------------------------------- MODULE Zones --------------------------------
(****************************************************************************)
(* What lives in the shared memory zones of the limit modules: the nodes of  *)
(* limit_req (http/modules/ngx_http_limit_req_module.c), one for each value  *)
(* with the time and the excess of its last request, and those of limit_conn *)
(* (ngx_http_limit_zone_module.c), one for each value with the requests that *)
(* are being served.  Nodes are allocated from the slab pool of the zone,    *)
(* whose mutex every handler holds while it works; a handler is one step.    *)
(* The third kind of zone allocates and frees blocks of any size, as the     *)
(* users of ngx_slab_alloc() at large may.                                    *)
(*                                                                           *)
(* The trees are the sets of their nodes.  A node is known by its address.    *)
(****************************************************************************)
EXTENDS Slab

CONSTANTS Keys,       \* values of the variable that is limited
          NodeSize,   \* the size of the node of a key
          KeyLen,     \* the length of a key in bytes
          Sizes,      \* what the third kind allocates
          MaxBlocks,  \* and how many blocks it has at a time
          Requests,   \* requests at work at a time
          Rate, Burst,\* limit_req: in thousandths of a request, per second and at once
          Conns,      \* limit_conn of the locations
          OldAge,     \* 60000: the age in ms at which a node of limit_req is let go of
          TickMs, MaxNow

VARIABLES kind,       \* "req", "conn" or "raw"
          sl,         \* the pool
          used,       \* ghost: address |-> size of every live block
          node,       \* the nodes of the tree
          queue,      \* limit_req: nodes, the last used first
          holder,     \* limit_conn: the node a request has in its cleanup, or -1
          lost,       \* limit_conn: ghost, requests of a key that a dead worker never gave back
          now, alert

vars == <<kind, sl, used, node, queue, holder, lost, now, alert>>

Without(f, x) == [y \in DOMAIN f \ {x} |-> f[y]]

\* A node's length is kept in one byte.
StoredLen(k) == KeyLen[k] % 256

\* The node whose bytes are those of the key, length first.
Lookup(nodes, k) == {p \in DOMAIN nodes : nodes[p].key = k /\ nodes[p].len = KeyLen[k]}

Abs(x) == IF x < 0 THEN -x ELSE x

Zone == [sl |-> sl, used |-> used, node |-> node, queue |-> queue, alert |-> alert]

Got(z, size, got) ==
    [z |-> IF got.p = -1 THEN z ELSE [z EXCEPT !.sl = got.sl, !.used = (got.p :> size) @@ @],
     p |-> got.p]

SlabAlloc(z, size) == Got(z, size, AllocLocked(z.sl, size))

Freed(z, p, res) ==
    [z EXCEPT !.sl = res.sl, !.used = Without(@, p),
              !.alert = IF res.alert = "none" THEN @ ELSE res.alert]

SlabFree(z, p) == Freed(z, p, FreeLocked(z.sl, p))

Apply(z) ==
    /\ sl' = z.sl /\ used' = z.used /\ node' = z.node /\ queue' = z.queue /\ alert' = z.alert

\* ngx_http_limit_req_init_zone, ngx_http_limit_zone_init_zone: a new zone gets its tree and the
\* text for its log; a zone of the previous cycle is taken over as it is.
InitZone(old) ==
    LET z == [sl |-> SlabInit, used |-> << >>, node |-> << >>, queue |-> << >>, alert |-> "none"]
        sh == SlabAlloc(z, 1)
    IN  IF old = << >> THEN SlabAlloc(sh.z, 1).z ELSE old[1]

Init ==
    /\ kind \in {"req", "conn", "raw"}
    /\ \E new \in {InitZone(<< >>)} :
       LET z == IF kind = "raw" THEN [new EXCEPT !.sl = SlabInit, !.used = << >>] ELSE new
       IN  sl = z.sl /\ used = z.used /\ node = z.node /\ queue = z.queue /\ alert = z.alert
    /\ holder = [r \in Requests |-> -1]
    /\ lost = [k \in Keys |-> 0]
    /\ now = 0

-----------------------------------------------------------------------------
\* ngx_http_limit_req_expire, n = 0: the oldest goes whatever its state.
ReqExpire(z, n) ==
    LET Expired(x) == LET lr == x.node[Last(x.queue)]
                          ms == Abs(now - lr.last)
                      IN  ms >= OldAge /\ lr.excess - (Rate * ms) \div 1000 <= 0
        Out(x) == LET p == Last(x.queue)
                  IN  SlabFree([x EXCEPT !.queue = Front(@), !.node = Without(@, p)], p)
        Turn(x, k) == IF k < 3 /\ x.queue # << >> /\ (k = 0 \/ Expired(x)) THEN Out(x) ELSE x
    IN  Turn(Turn(Turn(z, n), n + 1), n + 2)

\* ngx_http_limit_req_lookup: the node's excess drained by the time that passed and raised by one
\* request; a request beyond the burst leaves the node as it was.
ReqLookup(z, p) ==
    LET lr == z.node[p]
        e == lr.excess - (Rate * Abs(now - lr.last)) \div 1000 + 1000
        excess == IF e < 0 THEN 0 ELSE e
        moved == [z EXCEPT !.queue = <<p>> \o SelectSeq(@, LAMBDA q : q # p)]
    IN  IF excess > Burst THEN [z |-> moved, rc |-> "busy"]
        ELSE [z |-> [moved EXCEPT !.node[p].excess = excess, !.node[p].last = now,
                                  !.node[p].times = Append(@, now)],
              rc |-> IF excess > 0 THEN "again" ELSE "ok"]

\* ngx_http_limit_req_handler, to the point where the request goes on, waits or is refused.
LimitReqHandler(k) ==
    /\ kind = "req"
    /\ \E z1 \in {ReqExpire(Zone, 1)} :
       \/ \E p \in Lookup(z1.node, k) : Apply(ReqLookup(z1, p).z)
       \/ /\ Lookup(z1.node, k) = {}
          /\ \E first \in {SlabAlloc(z1, NodeSize[k])} :
             \E got \in {IF first.p # -1 THEN first
                        ELSE SlabAlloc(ReqExpire(first.z, 0), NodeSize[k])} :
               IF got.p = -1 THEN Apply(got.z)
               ELSE Apply([got.z EXCEPT
                             !.node = (got.p :> [key |-> k, len |-> StoredLen(k), last |-> now,
                                                 excess |-> 0, times |-> <<now>>]) @@ @,
                             !.queue = <<got.p>> \o @])
    /\ UNCHANGED <<kind, holder, lost, now>>

-----------------------------------------------------------------------------
\* ngx_http_limit_zone_handler: one more request of the value, unless there are conn already.
LimitZoneHandler(r, k, conn) ==
    /\ kind = "conn"
    /\ holder[r] = -1
    /\ \/ \E p \in Lookup(node, k) :
            /\ node[p].conn < conn
            /\ Apply([Zone EXCEPT !.node[p].conn = @ + 1])
            /\ holder' = [holder EXCEPT ![r] = p]
       \/ /\ Lookup(node, k) = {}
          /\ \E got \in {SlabAlloc(Zone, NodeSize[k])} :
               /\ got.p # -1
               /\ Apply([got.z EXCEPT
                            !.node = (got.p :> [key |-> k, len |-> StoredLen(k), conn |-> 1]) @@ @])
               /\ holder' = [holder EXCEPT ![r] = got.p]
    /\ UNCHANGED <<kind, lost, now>>

\* ngx_http_limit_zone_cleanup: the request's pool is destroyed.
LimitZoneCleanup(r) ==
    LET p == holder[r]
        less == [Zone EXCEPT !.node[p].conn = @ - 1]
    IN  /\ p # -1
        /\ Apply(IF node[p].conn = 1 THEN SlabFree([less EXCEPT !.node = Without(@, p)], p) ELSE less)
        /\ holder' = [holder EXCEPT ![r] = -1]
        /\ UNCHANGED <<kind, lost, now>>

\* A worker dies between two handlers: no cleanup of its requests runs.
WorkerDies(R) ==
    /\ kind = "conn"
    /\ R # {} /\ \A r \in R : holder[r] # -1
    /\ lost' = [k \in Keys |-> lost[k] + Cardinality({r \in R : node[holder[r]].key = k})]
    /\ \A k \in Keys : lost'[k] <= 1
    /\ holder' = [r \in Requests |-> IF r \in R THEN -1 ELSE holder[r]]
    /\ UNCHANGED <<kind, sl, used, node, queue, now, alert>>

-----------------------------------------------------------------------------
\* ngx_slab_alloc and ngx_slab_free: the same under the pool's mutex.
Alloc(size) ==
    /\ kind = "raw"
    /\ Cardinality(DOMAIN used) < MaxBlocks
    /\ \E got \in {SlabAlloc(Zone, size)} : got.p # -1 /\ Apply(got.z)
    /\ UNCHANGED <<kind, holder, lost, now>>

Release(p) ==
    /\ kind = "raw"
    /\ Apply(SlabFree(Zone, p))
    /\ UNCHANGED <<kind, holder, lost, now>>

Tick ==
    /\ kind = "req" /\ now < MaxNow
    /\ now' = now + TickMs
    /\ UNCHANGED <<kind, sl, used, node, queue, holder, lost, alert>>

Next ==
    \/ \E k \in Keys : LimitReqHandler(k)
    \/ \E r \in Requests, k \in Keys, c \in Conns : LimitZoneHandler(r, k, c)
    \/ \E r \in Requests : LimitZoneCleanup(r)
    \/ \E R \in SUBSET Requests : WorkerDies(R)
    \/ \E s \in Sizes : Alloc(s)
    \/ \E p \in DOMAIN used : Release(p)
    \/ Tick

Spec == Init /\ [][Next]_vars

(****************************************************************************)
(* The pool never hands out the same memory twice and never loses any: live  *)
(* blocks are aligned, inside the pool, apart from each other and from the    *)
(* bitmap that small pages keep in their own first chunks; the bitmaps hold   *)
(* exactly the live chunks; a page of a slot is listed as long as it has a    *)
(* free chunk; every other page is in one free run; and no ngx_slab_free()    *)
(* finds the block already free.                                              *)
(****************************************************************************)
Span(p) ==
    LET page == sl.page[p \div PageSize]
    IN  IF page.kind = "chunks" THEN p .. (p + 2 ^ page.shift - 1) ELSE p .. (p + page.n * PageSize - 1)

FreeRuns == UNION {i .. (i + sl.page[i].n - 1) : i \in ToSet(sl.free)}

SlabSound ==
    /\ alert = "none"
    /\ \A p \in DOMAIN used :
          /\ Span(p) \subseteq 0 .. (Pages * PageSize - 1) /\ used[p] <= Cardinality(Span(p))
          /\ \A q \in DOMAIN used \ {p} : Span(p) \cap Span(q) = {}
    /\ \A i \in DOMAIN sl.page :
          LET page == sl.page[i]
              live == {(p % PageSize) \div 2 ^ page.shift : p \in {q \in DOMAIN used : q \div PageSize = i}}
              meta == 0 .. (BitmapChunks(page.shift) - 1)
          IN  /\ page.kind = "chunks" =>
                    /\ page.map = meta \cup live /\ live \cap meta = {} /\ live # {}
                    /\ 8 * Cardinality(meta) * 2 ^ page.shift >= ChunksOf(page.shift) \/ meta = {}
                    /\ Type(page.shift) = "small" => meta # {}
                    /\ i \in ToSet(sl.slots[page.shift]) <=> page.map # 0 .. (ChunksOf(page.shift) - 1)
              /\ page.kind = "free" <=> i \in FreeRuns
    /\ \A i, j \in ToSet(sl.free) : i # j => i .. (i + sl.page[i].n - 1) \cap j .. (j + sl.page[j].n - 1) = {}
    /\ \A s \in Shifts : Cardinality(ToSet(sl.slots[s])) = Len(sl.slots[s])

(****************************************************************************)
(* The limits hold: every block of the zone but its two own is the node of   *)
(* one value and back; a value of limit_req whose node lived through them     *)
(* never has more requests let through in any span of time than its burst     *)
(* and its rate allow; a node of limit_conn counts exactly the requests that  *)
(* have it, with those that died with their worker, and stays while any do.   *)
(****************************************************************************)
LimitsHold ==
    kind # "raw" =>
    /\ Cardinality(DOMAIN used) = Cardinality(DOMAIN node) + 2
    /\ DOMAIN node \subseteq DOMAIN used
    /\ \A p, q \in DOMAIN node : node[p].key = node[q].key => p = q
    /\ kind = "req" =>
          /\ ToSet(queue) = DOMAIN node
          /\ \A p \in DOMAIN node : \A i, j \in DOMAIN node[p].times : i < j =>
                (j - i) * 1000 <= Burst + (Rate * (node[p].times[j] - node[p].times[i])) \div 1000
    /\ kind = "conn" =>
          /\ \A r \in Requests : holder[r] # -1 => holder[r] \in DOMAIN node
          /\ \A p \in DOMAIN node :
                /\ node[p].conn = lost[node[p].key] + Cardinality({r \in Requests : holder[r] = p})
                /\ node[p].conn \in 1 .. Max(Conns)
==============================================================================
